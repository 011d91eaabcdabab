---------------------------- MODULE MCFwUpgrade ----------------------------
(* Instances of FwUpgrade: images of three and four bytes in pages of two, *)
(* with the trailer in the fourth.                                         *)
EXTENDS FwUpgrade

\* A cell that holds no byte reads as some value all the same.
CellValue(c) == IF c \in Byte THEN c ELSE 2

\* A checksum with collisions: four values for all images.
MCCrc16(seed, s) ==
  LET f[i \in 0 .. Len(s)] == IF i = 0 THEN seed ELSE (f[i - 1] * 3 + CellValue(s[i]) + 1) % 4
  IN f[Len(s)]

MCTlvKeyOk(slot) == slot[0] = 1

MCBlocks == {<<1>>, <<0>>, <<1, 0>>, <<0, 1>>}

MCWsBlocks == {<<1>>}

\* The second block fills the first page and begins the next.
UdpImage == <<1, 0, 1>>
FewUdpMsgs ==
  {[cmd |-> "START", size |-> 3, kh |-> "good"],
   [cmd |-> "DATA_V2", off |-> 0, data |-> <<1>>],
   [cmd |-> "DATA_V2", off |-> 1, data |-> <<0, 1>>],
   [cmd |-> "END", test |-> FALSE, crc |-> MCCrc16(0, UdpImage)]}

AllUdpMsgs ==
  FewUdpMsgs \cup
  {[cmd |-> "START", size |-> 4, kh |-> "none"],
   [cmd |-> "START", size |-> 3, kh |-> "bad"],
   [cmd |-> "DATA", data |-> <<1, 0>>],
   [cmd |-> "END", test |-> TRUE, crc |-> 1]}

FewCanMsgs ==
  {[id |-> "cmd", dlc |-> 8, cmd |-> "START", arg |-> 3],
   [id |-> "data", data |-> <<1, 0>>],
   [id |-> "cmd", dlc |-> 8, cmd |-> "CONFIRM", arg |-> 1]}

AllCanMsgs ==
  FewCanMsgs \cup
  {[id |-> "data", data |-> <<1>>],
   [id |-> "cmd", dlc |-> 8, cmd |-> "START", arg |-> 4],
   [id |-> "cmd", dlc |-> 4, cmd |-> "START", arg |-> 3],
   [id |-> "cmd", dlc |-> 8, cmd |-> "CONFIRM", arg |-> 0],
   [id |-> "cmd", dlc |-> 8, cmd |-> "VERSION", arg |-> 0],
   [id |-> "cmd", dlc |-> 8, cmd |-> "REBOOT", arg |-> 0],
   [id |-> "cmd", dlc |-> 8, cmd |-> "unknown", arg |-> 0],
   [id |-> "other"],
   [id |-> "key", seq |-> 0, fits |-> TRUE, val |-> "good"],
   [id |-> "key", seq |-> 1, fits |-> TRUE, val |-> "bad"],
   [id |-> "key", seq |-> 1, fits |-> TRUE, val |-> "good"],
   [id |-> "key", seq |-> 2, fits |-> TRUE, val |-> "good"]}

\* A channel on its own meets every kind of message; two channels meet those of
\* an upload, and a CAN host beside a WebSocket upload does not start its own.
MCUdpMsgs(chs) == IF Cardinality(chs) = 1 THEN AllUdpMsgs ELSE FewUdpMsgs
MCCanMsgs(chs) ==
  CASE Cardinality(chs) = 1 -> AllCanMsgs
    [] "ws" \in chs -> {m \in FewCanMsgs : m.id = "data" \/ m.cmd # "START"}
    [] OTHER -> FewCanMsgs

=============================================================================
