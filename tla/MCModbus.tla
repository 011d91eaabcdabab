------------------------------ MODULE MCModbus ------------------------------
(* A small instance of Modbus.  Coils come two to a byte, three in all; the *)
(* registers are the outputs, the two of the time and one that acts.        *)
EXTENDS Modbus

Reads == [fc : {1, 2, 3, 4}, dlen : {4}, addr : {0, 1, 3, 5}, qty : {0, 1, 3, 5}]

Writes ==
  [fc : {5, 6}, dlen : {4}, addr : {0, 2, 3, 4}, val : {0, 5, 9}]
  \cup [fc : {8}, dlen : {4}, sub : {"clear", "query", "EXC", "bad"}, val : {1}]
  \cup [fc : {15}, dlen : {7}, addr : {0, 1, 2}, qty : {3}, nb : {2}, data : {<<1, 1>>, <<2, 2>>}]
  \cup [fc : {15}, dlen : {6}, addr : {1}, qty : {2, 3}, nb : {1}, data : {<<3>>}]
  \cup [fc : {16}, dlen : {9}, addr : {0, 1, 3}, qty : {2}, nb : {4}, data : {<<5, 9>>, <<9, 5>>}]
  \cup [fc : {16}, dlen : {10}, addr : {1}, qty : {2}, nb : {5}, data : {<<5, 5>>}]
  \cup [fc : {16}, dlen : {8}, addr : {1}, qty : {2}, nb : {5}, data : {<<5>>}]

Malformed == [fc : {7}, dlen : {0}] \cup [fc : {1, 3, 5, 6, 8, 15, 16}, dlen : {1}]

MCMbRequests == Reads \cup Writes \cup Malformed

\* Protocol id, length, unit, function code, data; a length of 0 and one past the
\* clamp, another protocol, a broadcast, and FC08 clear (8) to the device and to all.
MCTcpFrames ==
  {<<0, 2, 1, 3>>, <<0, 4, 1, 3, 7, 7>>, <<0, 0, 1, 3>>,
   <<1, 2, 0, 7>>, <<0, 4, 0, 3, 7, 7>>, <<0, 9, 1, 7, 7, 7>>,
   <<0, 4, 1, 8, 7, 7>>, <<0, 4, 0, 8, 7, 7>>}

MCServerSays(fc, n) ==
  CASE fc = 7 -> "exc" [] fc = 8 /\ n = 2 -> "clear" [] fc = 3 /\ n = 2 -> "reply" [] OTHER -> "silent"

\* A whole frame, halves, a broadcast, another unit, a bad CRC (6), one too long,
\* one the server leaves unanswered (7) and FC08 clear (8).
MCChunks == {<<1, 5>>, <<1>>, <<5>>, <<0, 5>>, <<2, 5>>, <<1, 6>>, <<1, 5, 5, 5>>, <<1, 7>>,
             <<1, 8>>, <<0, 8>>}
MCCrcOk(f) == f[Len(f)] # 6
MCRtuSays(f) ==
  CASE f[Len(f)] = 7 -> "silent" [] f[Len(f)] = 8 -> "clear"
    [] f[Len(f)] \notin {7, 8} /\ Len(f) = 2 -> "reply" [] OTHER -> "exc"
MCClockTimes == {<<0, 1>>, <<1, 0>>}

\* An answer that begins while another goes out takes five chunks, two halves and a
\* frame behind them three.
MCRtuChunks ==
  [b \in MCChunks |-> CASE b \in {<<1, 5>>, <<0, 5>>} -> 5 [] b \in {<<1>>, <<5>>} -> 3 [] OTHER -> 2]

=============================================================================
