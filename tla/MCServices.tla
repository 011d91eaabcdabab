----------------------------- MODULE MCServices -----------------------------
(* A small instance of the services.                                       *)
EXTENDS Services

MCImages == {<<1>>, <<1, 0>>}
MCSwapImage == <<1>>

Frame(id, dlc) == [id |-> id, dlc |-> dlc]
Cmd(cmd, arg) == [id |-> "cmd", dlc |-> 8, cmd |-> cmd, arg |-> arg]
Data(d) == [id |-> "data", dlc |-> Len(d), data |-> d]

MCBootFrames ==
  {Frame("ack", 1), Frame("ack", 0), Frame("ext", 8),
   Cmd("START", 2), Cmd("CONFIRM", 1), Cmd("REBOOT", 0),
   Data(<<1>>),
   [id |-> "key", dlc |-> 8, seq |-> 0, whole |-> TRUE, good |-> FALSE]}

MCWebSize == [f1 |-> 2]

Arg(parts) == [abs |-> FALSE, parts |-> parts]
MCFtpDirs == {Arg(<<"d">>)}
MCFtpPaths == {Arg(<<"f">>)}
MCFtpBytes == {"CR", "LF", "0"}
MCFtpBlocks == {<<"CR", "LF">>, <<"CR">>, <<"0">>}

=============================================================================
