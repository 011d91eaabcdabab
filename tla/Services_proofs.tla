-------------------------- MODULE Services_proofs --------------------------
(***************************************************************************)
(* Proofs about the services around the Modbus and upgrade core.  The log: *)
(* for every size of the ring and of the counters, every line and every    *)
(* number of bytes.  The boot loader's CAN rescue: for every flash size,   *)
(* every set of frames and every depth of the receive FIFO, with frames    *)
(* arriving and power failing between any two steps.                       *)
(* The downloads of the web server: for every number of connections, file  *)
(* and window, if they are asked for one at a time.  The recording: for    *)
(* every queue, file size and number of files, if the clock never goes     *)
(* back.  The transfers of the FTP server: for every number of sessions,   *)
(* path, file, block and offset.                                           *)
(***************************************************************************)
EXTENDS Services, SequenceLemmas, TLAPS

-----------------------------------------------------------------------------
(* The log.  head and tail wrap; behind them are the numbers of bytes      *)
(* accepted, laccepted, and taken from the ring, t.                        *)

\* The bytes of the chunk under way that are out.
Going == IF lpc = "emit" THEN emit.done ELSE 0

\* The types of the variables the proof follows.
LogTypeOK ==
  /\ laccepted \in Nat /\ flushed \in Nat /\ flushed <= laccepted
  /\ push \in [len : Nat, done : Nat] /\ push.done <= push.len
  /\ emit \in [tail : Nat, len : Nat, done : Nat]
  /\ output \in Seq(Nat)
  /\ ring = [i \in 0 .. RingSize - 1 |-> ring[i]]

\* Head and tail are where t and laccepted say, and the line being copied has
\* room behind them.
Counters(t) ==
  /\ lhead = laccepted % RingMod /\ ltail = t % RingMod
  /\ t <= laccepted /\ laccepted + push.len <= t + RingSize

\* The ring holds the bytes accepted and not taken, and those of the line being
\* copied.
RingHolds(t) ==
  \A k \in t .. laccepted + push.done - 1 : ring[k % RingSize] = k + 1

\* The chunk under way begins at the tail and ends before the head.
ChunkOK(t) ==
  lpc = "emit" => emit.tail = ltail /\ emit.done <= emit.len /\ emit.len <= laccepted - t

\* Each byte before u is out or cut off; those behind the last one out are cut off.
OutUpTo(u) ==
  /\ \A i \in DOMAIN output : output[i] <= u
  /\ \A b \in 1 .. u : b \in cut \/ \E i \in DOMAIN output : output[i] = b
  /\ \A b \in (IF output = <<>> THEN 1 ELSE output[Len(output)] + 1) .. u : b \in cut

LogAt(t) == Counters(t) /\ RingHolds(t) /\ ChunkOK(t) /\ OutUpTo(t + Going)

LogInv ==
  /\ LogTypeOK /\ OutputInOrder /\ FlushDrains
  /\ \E t \in Nat : LogAt(t)

\* The bytes in use are those accepted and not taken, though both counters wrap.
LEMMA UsedIs ==
  ASSUME LogTypeOK, NEW t \in Nat, Counters(t) PROVE Used = laccepted - t
<1>a. RingMod \in Nat \ {0} /\ RingSize \in Nat /\ RingSize < RingMod
  BY LogAssumption
<1>b. laccepted \in Nat /\ push.len \in Nat /\ t <= laccepted /\ laccepted + push.len <= t + RingSize
  BY DEF LogTypeOK, Counters
<1>1. RingMod \in Nat \ {0} /\ laccepted \in Nat /\ t <= laccepted /\ laccepted - t < RingMod
  BY <1>a, <1>b
<1>2. ((laccepted % RingMod) - (t % RingMod)) % RingMod = laccepted - t
  BY <1>1, WrappedDistance
<1>. QED BY <1>2 DEF Used, Counters

\* A place in the ring can be computed from a counter that has wrapped.
LEMMA PlaceOf ==
  ASSUME NEW x \in Nat, NEW y \in Nat
  PROVE  /\ ((x % RingMod) + y) % RingSize = (x + y) % RingSize
         /\ (x + y) % RingSize \in 0 .. RingSize - 1
<1>1. RingMod \in Nat \ {0} /\ RingSize \in Nat \ {0}
  BY LogAssumption
<1>a. \E m \in Nat : RingMod = m * RingSize
  <2>. DEFINE m == RingMod \div RingSize
  <2>1. m \in Nat /\ m * RingSize \in Nat /\ RingMod = m * RingSize + (RingMod % RingSize)
    BY <1>1, DivMod
  <2>. HIDE DEF m
  <2>2. RingMod = m * RingSize
    BY <1>1, <2>1, LogAssumption
  <2>. QED BY <2>1, <2>2
<1>2. ((x % RingMod) + y) % RingSize = (x + y) % RingSize
  BY <1>1, <1>a, ModOfWrapped
<1>3. x + y \in Nat
  OBVIOUS
<1>4. (x + y) % RingSize \in 0 .. RingSize - 1
  BY <1>1, <1>3, DivMod
<1>. QED BY <1>2, <1>4

\* log_push drops a line, or takes the lock and finds room for it.
LEMMA BeginInv ==
  ASSUME LogInv, NEW n \in LineLens, PushBegin(n) PROVE LogInv'
<1>1. /\ ring' = ring /\ lhead' = lhead /\ ltail' = ltail /\ lpc' = lpc /\ emit' = emit
      /\ flush' = flush /\ laccepted' = laccepted /\ output' = output /\ cut' = cut
      /\ flushed' = flushed /\ push = NoPush
  BY DEF PushBegin
<1>2. PICK t \in Nat : LogAt(t)
  BY DEF LogInv
<1>3. n \in Nat \ {0}
  BY LogAssumption
<1>4. \/ push' = push
      \/ push' = [len |-> n, done |-> 0] /\ n <= RingSize - Used
  <2>1. Used = laccepted - t /\ laccepted \in Nat
    BY <1>2, UsedIs DEF LogInv, LogAt, LogTypeOK
  <2>. QED BY <1>3, <2>1, LogAssumption DEF PushBegin
<1>5. Used = laccepted - t /\ laccepted \in Nat /\ t <= laccepted /\ RingSize \in Nat
  BY <1>2, UsedIs, LogAssumption DEF LogInv, LogAt, LogTypeOK, Counters
<1>6. LogTypeOK' /\ push'.done = push.done
  BY <1>1, <1>3, <1>4 DEF LogInv, LogTypeOK, NoPush
<1>7. Counters(t)'
  BY <1>1, <1>2, <1>3, <1>4, <1>5 DEF LogAt, Counters, NoPush
<1>8. RingHolds(t)' /\ ChunkOK(t)'
  BY <1>1, <1>2, <1>6 DEF LogAt, RingHolds, ChunkOK
<1>9. OutUpTo(t + Going)'
  BY <1>1, <1>2 DEF LogAt, OutUpTo, Going
<1>10. OutputInOrder' /\ FlushDrains'
  BY <1>1 DEF LogInv, OutputInOrder, FlushDrains
<1>. QED BY <1>6, <1>7, <1>8, <1>9, <1>10 DEF LogInv, LogAt

\* A byte is copied to a place no byte still to be sent is at.
LEMMA CopyInv == ASSUME LogInv, PushCopy PROVE LogInv'
<1>. DEFINE k == laccepted + push.done
<1>1. /\ push.done < push.len /\ push' = [push EXCEPT !.done = push.done + 1]
      /\ ring' = [ring EXCEPT ![(lhead + push.done) % RingSize] = laccepted + push.done + 1]
      /\ lhead' = lhead /\ ltail' = ltail /\ lpc' = lpc /\ emit' = emit
      /\ flush' = flush /\ laccepted' = laccepted /\ output' = output /\ cut' = cut
      /\ flushed' = flushed
  BY DEF PushCopy
<1>2. PICK t \in Nat : LogAt(t)
  BY DEF LogInv
<1>3. /\ push.done \in Nat /\ push.len \in Nat /\ laccepted \in Nat /\ RingSize \in Nat \ {0}
      /\ push'.done = push.done + 1 /\ push'.len = push.len
      /\ push' \in [len : Nat, done : Nat] /\ push'.done <= push'.len
  <2>1. push \in [len : Nat, done : Nat] /\ laccepted \in Nat /\ RingSize \in Nat \ {0}
    BY LogAssumption DEF LogInv, LogTypeOK
  <2>2. push.done \in Nat /\ push.len \in Nat
    BY <2>1
  <2>3. push'.done = push.done + 1 /\ push'.len = push.len
    BY <1>1, <2>1
  <2>4. push' \in [len : Nat, done : Nat]
    BY <1>1, <2>1
  <2>. QED BY <1>1, <2>1, <2>2, <2>3, <2>4
<1>4. (lhead + push.done) % RingSize = k % RingSize /\ k % RingSize \in 0 .. RingSize - 1
  BY <1>2, <1>3, PlaceOf DEF LogAt, Counters
<1>5. LogTypeOK'
  BY <1>1, <1>3 DEF LogInv, LogTypeOK
<1>6. Counters(t)'
  BY <1>1, <1>2, <1>3 DEF LogAt, Counters
<1>7. RingHolds(t)'
  <2>. SUFFICES ASSUME NEW j \in t .. laccepted' + push'.done - 1
                PROVE  ring'[j % RingSize] = j + 1
    BY DEF RingHolds
  <2>1. j \in Nat /\ t <= j /\ j <= k /\ k \in Nat /\ k - t < RingSize
    BY <1>1, <1>2, <1>3 DEF LogAt, Counters
  <2>. DEFINE place == k % RingSize
              at == j % RingSize
  <2>2. ring' = [ring EXCEPT ![place] = k + 1] /\ place \in 0 .. RingSize - 1
    BY <1>1, <1>4
  <2>3. at \in 0 .. RingSize - 1
    BY <1>3, <2>1, DivMod
  <2>4. CASE j = k
    <3>1. at = place
      BY <2>4
    <3>2. DOMAIN ring = 0 .. RingSize - 1
      BY DEF LogInv, LogTypeOK
    <3>. HIDE DEF k, place, at
    <3>3. ring'[place] = k + 1
      BY <2>2, <3>2
    <3>. QED BY <2>4, <3>1, <3>3 DEF at
  <2>5. CASE j < k
    <3>0. j \in Nat /\ k \in Nat /\ j < k /\ k - j < RingSize /\ RingSize \in Nat \ {0}
      BY <1>3, <2>1, <2>5
    <3>. HIDE DEF k
    <3>1. at # place
      BY <3>0, ModDistinct, Zenon
    <3>2. ring[at] = j + 1
      BY <1>2, <1>3, <2>1, <2>5 DEF LogAt, RingHolds, k
    <3>3. DOMAIN ring = 0 .. RingSize - 1
      BY DEF LogInv, LogTypeOK
    <3>. HIDE DEF place, at
    <3>4. ring'[at] = ring[at]
      BY <2>2, <2>3, <3>1, <3>3
    <3>. QED BY <3>2, <3>4 DEF at
  <2>. QED BY <2>1, <2>4, <2>5
<1>8. ChunkOK(t)' /\ OutUpTo(t + Going)'
  BY <1>1, <1>2 DEF LogAt, ChunkOK, OutUpTo, Going
<1>9. OutputInOrder' /\ FlushDrains'
  BY <1>1 DEF LogInv, OutputInOrder, FlushDrains
<1>. QED BY <1>5, <1>6, <1>7, <1>8, <1>9 DEF LogInv, LogAt

\* The line is published with the new head.
LEMMA EndInv == ASSUME LogInv, PushEnd PROVE LogInv'
<1>1. /\ push.done = push.len /\ push' = NoPush
      /\ lhead' = (lhead + push.len) % RingMod /\ laccepted' = laccepted + push.len
      /\ ring' = ring /\ ltail' = ltail /\ lpc' = lpc /\ emit' = emit
      /\ flush' = flush /\ output' = output /\ cut' = cut /\ flushed' = flushed
  BY DEF PushEnd
<1>2. PICK t \in Nat : LogAt(t)
  BY DEF LogInv
<1>3. /\ push.done \in Nat /\ push.len \in Nat /\ laccepted \in Nat /\ RingSize \in Nat \ {0}
      /\ RingMod \in Nat \ {0} /\ push'.len = 0 /\ push'.done = 0
      /\ push' \in [len : Nat, done : Nat]
  BY <1>1, LogAssumption DEF LogInv, LogTypeOK, NoPush
<1>4. lhead' = laccepted' % RingMod
  <2>1. ((laccepted % RingMod) + push.len) % RingMod = (laccepted + push.len) % RingMod
    BY <1>3, ModPlus
  <2>. QED BY <1>1, <1>2, <2>1 DEF LogAt, Counters
<1>5. LogTypeOK'
  BY <1>1, <1>3 DEF LogInv, LogTypeOK
<1>6. Counters(t)'
  <2>1. t <= laccepted' /\ laccepted' + push'.len <= t + RingSize
    BY <1>1, <1>2, <1>3 DEF LogAt, Counters
  <2>2. ltail' = t % RingMod
    BY <1>1, <1>2 DEF LogAt, Counters
  <2>. QED BY <1>4, <2>1, <2>2 DEF Counters
<1>7. RingHolds(t)'
  BY <1>1, <1>2, <1>3 DEF LogAt, RingHolds
<1>8. ChunkOK(t)'
  <2>1. lpc = "emit" => emit.len \in Nat
    BY DEF LogInv, LogTypeOK
  <2>. QED BY <1>1, <1>2, <1>3, <2>1 DEF LogAt, ChunkOK
<1>9. OutUpTo(t + Going)'
  BY <1>1, <1>2 DEF LogAt, OutUpTo, Going
<1>10. OutputInOrder' /\ FlushDrains'
  BY <1>1 DEF LogInv, OutputInOrder, FlushDrains
<1>. QED BY <1>5, <1>6, <1>7, <1>8, <1>9, <1>10 DEF LogInv, LogAt

\* The logger waits, reports and clears, and log_flush begins: no byte moves.
LEMMA IdleInv ==
  ASSUME LogInv, LogTake \/ LogReport \/ LogClear \/ FlushBegin PROVE LogInv'
<1>1. /\ ring' = ring /\ lhead' = lhead /\ ltail' = ltail /\ push' = push /\ emit' = emit
      /\ laccepted' = laccepted /\ output' = output /\ cut' = cut
      /\ lpc' = lpc \/ (lpc # "emit" /\ lpc' # "emit")
      /\ flushed' \in {flushed, laccepted}
      /\ (flush' = flush /\ flushed' = flushed) \/ flush' = "waiting"
  BY DEF LogTake, LogReport, LogClear, FlushBegin
<1>2. PICK t \in Nat : LogAt(t)
  BY DEF LogInv
<1>3. Going' = Going
  BY <1>1 DEF Going
<1>4. LogTypeOK'
  BY <1>1 DEF LogInv, LogTypeOK
<1>5. Counters(t)' /\ RingHolds(t)' /\ ChunkOK(t)'
  BY <1>1, <1>2 DEF LogAt, Counters, RingHolds, ChunkOK
<1>6. OutUpTo(t + Going)'
  BY <1>1, <1>2, <1>3 DEF LogAt, OutUpTo
<1>7. OutputInOrder' /\ FlushDrains'
  BY <1>1 DEF LogInv, OutputInOrder, FlushDrains
<1>. QED BY <1>4, <1>5, <1>6, <1>7 DEF LogInv, LogAt

\* log_flush returns drained only from an empty ring, and then all is out.
LEMMA FlushInv == ASSUME LogInv, FlushEnd PROVE LogInv'
<1>1. /\ ring' = ring /\ lhead' = lhead /\ ltail' = ltail /\ push' = push /\ emit' = emit
      /\ laccepted' = laccepted /\ output' = output /\ cut' = cut /\ lpc' = lpc
      /\ flushed' = flushed
      /\ flush' = IF Used = 0 /\ ldropped = 0 THEN "drained" ELSE "timeout"
  BY DEF FlushEnd
<1>2. PICK t \in Nat : LogAt(t)
  BY DEF LogInv
<1>3. LogTypeOK'
  BY <1>1 DEF LogInv, LogTypeOK
<1>4. Counters(t)' /\ RingHolds(t)' /\ ChunkOK(t)'
  BY <1>1, <1>2 DEF LogAt, Counters, RingHolds, ChunkOK
<1>5. OutUpTo(t + Going)'
  BY <1>1, <1>2 DEF LogAt, OutUpTo, Going
<1>6. FlushDrains'
  <2>. SUFFICES ASSUME Used = 0, NEW b \in 1 .. flushed
                PROVE  b \in cut \/ \E i \in DOMAIN output : output[i] = b
    BY <1>1 DEF FlushDrains
  <2>1. laccepted \in Nat /\ flushed \in Nat /\ flushed <= laccepted /\ laccepted = t
    BY <1>2, UsedIs DEF LogInv, LogAt, LogTypeOK
  <2>2. Going \in Nat
    BY DEF Going, LogInv, LogTypeOK
  <2>3. b \in 1 .. t + Going
    BY <2>1, <2>2
  <2>. QED BY <1>2, <2>3 DEF LogAt, OutUpTo
<1>7. OutputInOrder'
  BY <1>1 DEF LogInv, OutputInOrder
<1>. QED BY <1>3, <1>4, <1>5, <1>6, <1>7 DEF LogInv, LogAt

\* A chunk is taken up: not empty, up to the end of the ring or to the head.
LEMMA ChunkInv == ASSUME LogInv, LogChunk PROVE LogInv'
<1>1. /\ ring' = ring /\ lhead' = lhead /\ ltail' = ltail /\ push' = push /\ lpc = "drain"
      /\ laccepted' = laccepted /\ output' = output /\ cut' = cut /\ flush' = flush
      /\ flushed' = flushed
      /\ \/ lpc' = "report" /\ emit' = emit
         \/ /\ lpc' = "emit"
            /\ emit' = [tail |-> ltail, done |-> 0,
                        len |-> Min({Used, RingSize - (ltail % RingSize)})]
  BY DEF LogChunk
<1>2. PICK t \in Nat : LogAt(t)
  BY DEF LogInv
<1>3. Used = laccepted - t /\ Used \in Nat /\ ltail = t % RingMod
  BY <1>2, UsedIs DEF LogInv, LogAt, LogTypeOK, Counters
<1>4. ltail \in Nat
  <2>1. RingMod \in Nat \ {0}
    BY LogAssumption
  <2>2. t % RingMod \in 0 .. RingMod - 1
    BY <2>1, DivMod
  <2>. QED BY <1>3, <2>1, <2>2
<1>5. ltail % RingSize \in 0 .. RingSize - 1 /\ RingSize \in Nat \ {0}
  <2>1. RingSize \in Nat \ {0}
    BY LogAssumption
  <2>. QED BY <1>4, <2>1, DivMod
<1>. DEFINE room == RingSize - (ltail % RingSize)
            len == Min({Used, room})
<1>6. len \in Nat /\ len <= Used
  <2>1. room \in Nat
    BY <1>5
  <2>. HIDE DEF room
  <2>2. len = IF Used <= room THEN Used ELSE room
    BY <1>3, <2>1, MinPair
  <2>. QED BY <1>3, <2>1, <2>2
<1>. HIDE DEF room, len
<1>7. \/ lpc' = "report" /\ emit' = emit
      \/ lpc' = "emit" /\ emit' = [tail |-> ltail, done |-> 0, len |-> len]
  BY <1>1 DEF len, room
<1>8. LogTypeOK'
  BY <1>1, <1>4, <1>6, <1>7 DEF LogInv, LogTypeOK
<1>9. Going = 0 /\ Going' = 0
  BY <1>1, <1>7 DEF Going
<1>10. ChunkOK(t)'
  BY <1>1, <1>3, <1>6, <1>7 DEF ChunkOK
<1>11. Counters(t)' /\ RingHolds(t)'
  BY <1>1, <1>2 DEF LogAt, Counters, RingHolds
<1>12. OutUpTo(t + Going)'
  BY <1>1, <1>2, <1>9 DEF LogAt, OutUpTo
<1>13. OutputInOrder' /\ FlushDrains'
  BY <1>1 DEF LogInv, OutputInOrder, FlushDrains
<1>. QED BY <1>8, <1>10, <1>11, <1>12, <1>13 DEF LogInv, LogAt

\* A byte of the chunk in the ring is the one with the next number.
LEMMA ChunkByte ==
  ASSUME LogInv, lpc = "emit", NEW t \in Nat, LogAt(t), NEW i \in Nat, i < emit.len
  PROVE  ring[(emit.tail + i) % RingSize] = t + i + 1
<1>1. emit.tail = t % RingMod /\ emit.len \in Nat /\ laccepted \in Nat /\ push.done \in Nat
  BY DEF LogInv, LogTypeOK, LogAt, ChunkOK, Counters
<1>a. emit.len <= laccepted - t
  BY DEF LogAt, ChunkOK
<1>2. t + i \in t .. laccepted + push.done - 1
  BY <1>1, <1>a
<1>3. (emit.tail + i) % RingSize = (t + i) % RingSize
  BY <1>1, PlaceOf
<1>4. ring[(t + i) % RingSize] = t + i + 1
  BY <1>2 DEF LogAt, RingHolds
<1>. QED BY <1>3, <1>4

\* The byte that goes out is the next one after those before it.
LEMMA ByteInv == ASSUME LogInv, LogByte PROVE LogInv'
<1>1. /\ lpc = "emit" /\ emit.done < emit.len
      /\ output' = Append(output, ring[(emit.tail + emit.done) % RingSize])
      /\ emit' = [emit EXCEPT !.done = emit.done + 1]
      /\ ring' = ring /\ lhead' = lhead /\ ltail' = ltail /\ push' = push /\ lpc' = lpc
      /\ laccepted' = laccepted /\ cut' = cut /\ flush' = flush /\ flushed' = flushed
  BY DEF LogByte
<1>2. PICK t \in Nat : LogAt(t)
  BY DEF LogInv
<1>. DEFINE u == t + emit.done
<1>3. /\ emit \in [tail : Nat, len : Nat, done : Nat] /\ emit.done \in Nat /\ emit.len \in Nat
      /\ output \in Seq(Nat) /\ Len(output) \in Nat /\ DOMAIN output = 1 .. Len(output)
  BY LenProperties DEF LogInv, LogTypeOK
<1>4. /\ emit' \in [tail : Nat, len : Nat, done : Nat] /\ emit'.done = emit.done + 1
      /\ emit'.tail = emit.tail /\ emit'.len = emit.len
  BY <1>1, <1>3
<1>5. u \in Nat /\ ring[(emit.tail + emit.done) % RingSize] = u + 1
  BY <1>1, <1>2, <1>3, ChunkByte
<1>6. t + Going = u /\ (t + Going)' = u + 1
  BY <1>1, <1>3, <1>4 DEF Going
<1>. HIDE DEF u
<1>7. output' = Append(output, u + 1)
  BY <1>1, <1>5
<1>8. /\ output' \in Seq(Nat) /\ Len(output') = Len(output) + 1
      /\ DOMAIN output' = 1 .. Len(output) + 1
      /\ output'[Len(output) + 1] = u + 1
      /\ \A i \in 1 .. Len(output) : output'[i] = output[i]
  BY <1>3, <1>5, <1>7
<1>9. /\ \A i \in 1 .. Len(output) : output[i] \in Nat /\ output[i] <= u
      /\ \A b \in 1 .. u : b \in cut \/ \E i \in 1 .. Len(output) : output[i] = b
      /\ \A b \in (IF output = <<>> THEN 1 ELSE output[Len(output)] + 1) .. u : b \in cut
  BY <1>2, <1>3, <1>6 DEF LogAt, OutUpTo
<1>10. LogTypeOK'
  BY <1>1, <1>4, <1>8 DEF LogInv, LogTypeOK
<1>11. Counters(t)' /\ RingHolds(t)'
  BY <1>1, <1>2 DEF LogAt, Counters, RingHolds
<1>12. ChunkOK(t)'
  BY <1>1, <1>2, <1>3, <1>4 DEF LogAt, ChunkOK
<1>13. OutUpTo(t + Going)'
  <2>1. \A i \in DOMAIN output' : output'[i] <= u + 1
    <3>. SUFFICES ASSUME NEW i \in 1 .. Len(output) + 1 PROVE output'[i] <= u + 1
      BY <1>8
    <3>1. CASE i = Len(output) + 1
      BY <1>5, <1>8, <3>1
    <3>2. CASE i \in 1 .. Len(output)
      <4>1. output'[i] = output[i] /\ output[i] \in Nat /\ output[i] <= u
        BY <1>8, <1>9, <3>2
      <4>. QED BY <1>5, <4>1
    <3>. QED BY <1>3, <3>1, <3>2
  <2>2. \A b \in 1 .. u + 1 : b \in cut \/ \E i \in DOMAIN output' : output'[i] = b
    <3>. SUFFICES ASSUME NEW b \in 1 .. u + 1, b \notin cut
                  PROVE  \E i \in DOMAIN output' : output'[i] = b
      OBVIOUS
    <3>1. CASE b = u + 1
      BY <1>3, <1>8, <3>1
    <3>2. CASE b \in 1 .. u
      <4>1. PICK i \in 1 .. Len(output) : output[i] = b
        BY <1>9, <3>2
      <4>2. i \in 1 .. Len(output) + 1
        BY <1>3
      <4>. QED BY <1>8, <4>1, <4>2
    <3>. QED BY <1>5, <3>1, <3>2
  <2>3. output' # <<>> /\ output'[Len(output')] = u + 1
    BY <1>3, <1>8
  <2>4. \A b \in (u + 1) + 1 .. u + 1 : b \in cut
    BY <1>5
  <2>. QED BY <1>1, <1>6, <2>1, <2>2, <2>3, <2>4 DEF OutUpTo
<1>14. OutputInOrder'
  <2>1. ASSUME NEW i \in 1 .. Len(output') - 1 PROVE output'[i] < output'[i + 1]
    <3>1. i \in 1 .. Len(output) /\ i + 1 \in 1 .. Len(output) + 1
      BY <1>3, <1>8
    <3>2. CASE i = Len(output)
      BY <1>3, <1>5, <1>8, <1>9, <3>1, <3>2
    <3>3. CASE i < Len(output)
      <4>1. i + 1 \in 1 .. Len(output) /\ i \in 1 .. Len(output) - 1
        BY <1>3, <3>1, <3>3
      <4>2. output[i] < output[i + 1]
        BY <4>1 DEF LogInv, OutputInOrder
      <4>. QED BY <1>8, <3>1, <4>1, <4>2
    <3>4. i = Len(output) \/ i < Len(output)
      <4>1. Len(output) \in Nat
        BY <1>3
      <4>. HIDE <2>1
      <4>. QED BY <3>1, <4>1
    <3>. QED BY <3>2, <3>3, <3>4
  <2>2. ASSUME NEW i \in DOMAIN output',
               NEW b \in (IF i = 1 THEN 1 ELSE output'[i - 1] + 1) .. output'[i] - 1
        PROVE  b \in cut
    <3>1. i \in 1 .. Len(output) + 1
      BY <1>8
    <3>2. CASE i <= Len(output)
      <4>1. i \in DOMAIN output /\ output'[i] = output[i]
        BY <1>3, <1>8, <3>1, <3>2
      <4>a. Len(output) \in Nat
        BY <1>3
      <4>b. i # 1 => i - 1 \in 1 .. Len(output)
        <5>. HIDE <2>2
        <5>. QED BY <3>1, <3>2, <4>a
      <4>2. i # 1 => output'[i - 1] = output[i - 1]
        BY <1>8, <4>b
      <4>3. b \in (IF i = 1 THEN 1 ELSE output[i - 1] + 1) .. output[i] - 1
        BY <2>2, <4>1, <4>2
      <4>. QED BY <4>1, <4>3 DEF LogInv, OutputInOrder
    <3>3. CASE i = Len(output) + 1
      <4>1. output'[i] - 1 = u
        BY <1>5, <1>8, <3>3
      <4>2. CASE i = 1
        BY <1>3, <1>9, <2>2, <3>3, <4>1, <4>2
      <4>3. CASE i # 1
        <5>1. output # <<>> /\ output'[i - 1] = output[Len(output)]
          BY <1>3, <1>8, <3>1, <3>3, <4>3
        <5>. QED BY <1>9, <2>2, <4>1, <4>3, <5>1
      <4>. QED BY <4>2, <4>3
    <3>. QED BY <1>3, <3>1, <3>2, <3>3
  <2>. QED BY <1>1, <2>1, <2>2 DEF OutputInOrder
<1>15. FlushDrains'
  <2>. SUFFICES ASSUME flush = "drained", NEW b \in 1 .. flushed, b \notin cut
                PROVE  \E i \in DOMAIN output' : output'[i] = b
    BY <1>1 DEF FlushDrains
  <2>1. PICK i \in 1 .. Len(output) : output[i] = b
    BY <1>3 DEF LogInv, FlushDrains
  <2>2. i \in 1 .. Len(output) + 1
    BY <1>3
  <2>. QED BY <1>8, <2>1, <2>2
<1>. QED BY <1>10, <1>11, <1>12, <1>13, <1>14, <1>15 DEF LogInv, LogAt

\* The tail moves past the chunk; what the UART did not send of it is cut off.
LEMMA SentInv == ASSUME LogInv, LogSent PROVE LogInv'
<1>1. /\ lpc = "emit" /\ lpc' = "drain" /\ ltail' = (emit.tail + emit.len) % RingMod
      /\ cut' = cut \cup {ring[(emit.tail + i) % RingSize] : i \in emit.done .. emit.len - 1}
      /\ ring' = ring /\ lhead' = lhead /\ push' = push /\ emit' = emit /\ flush' = flush
      /\ laccepted' = laccepted /\ output' = output /\ flushed' = flushed
  BY DEF LogSent
<1>2. PICK t \in Nat : LogAt(t)
  BY DEF LogInv
<1>3. /\ emit.done \in Nat /\ emit.len \in Nat /\ emit.done <= emit.len /\ laccepted \in Nat
      /\ emit.tail = t % RingMod /\ emit.len <= laccepted - t /\ RingSize \in Nat
      /\ push.len \in Nat /\ push.done \in Nat
  BY <1>1, <1>2, LogAssumption DEF LogInv, LogTypeOK, LogAt, ChunkOK, Counters
<1>a. PICK s \in Nat : s = t + emit.len
  BY <1>3
<1>4. s \in Nat /\ s <= laccepted /\ t <= s /\ t + emit.done <= s
  BY <1>3, <1>a
<1>5. ltail' = s % RingMod
  <2>1. RingMod \in Nat \ {0}
    BY LogAssumption
  <2>2. ((t % RingMod) + emit.len) % RingMod = (t + emit.len) % RingMod
    BY <1>3, <2>1, ModPlus
  <2>. QED BY <1>1, <1>3, <1>a, <2>2
<1>6. \A b \in t + emit.done + 1 .. s : b \in cut'
  <2>. SUFFICES ASSUME NEW b \in t + emit.done + 1 .. s PROVE b \in cut'
    OBVIOUS
  <2>. DEFINE i == b - t - 1
  <2>1. i \in emit.done .. emit.len - 1 /\ i \in Nat /\ i < emit.len /\ t + i + 1 = b
    BY <1>3, <1>a
  <2>. HIDE DEF i
  <2>2. ring[(emit.tail + i) % RingSize] = b
    BY <1>1, <1>2, <2>1, ChunkByte
  <2>. QED BY <1>1, <2>1, <2>2
<1>7. cut \subseteq cut'
  BY <1>1
<1>8. t + Going = t + emit.done /\ (s + Going)' = s
  BY <1>1, <1>3 DEF Going
<1>9. Counters(s)'
  <2>1. lhead' = laccepted' % RingMod
    BY <1>1, <1>2 DEF LogAt, Counters
  <2>2. s <= laccepted' /\ laccepted' + push'.len <= s + RingSize
    BY <1>1, <1>2, <1>3, <1>4 DEF LogAt, Counters
  <2>. QED BY <1>5, <2>1, <2>2 DEF Counters
<1>10. RingHolds(s)' /\ ChunkOK(s)'
  <2>1. \A k \in s .. laccepted + push.done - 1 : k \in t .. laccepted + push.done - 1
    BY <1>3, <1>4
  <2>2. RingHolds(s)'
    BY <1>1, <1>2, <2>1 DEF LogAt, RingHolds
  <2>. QED BY <1>1, <2>2 DEF ChunkOK
<1>11. OutUpTo(s + Going)'
  <2>. DEFINE u == t + emit.done
  <2>1. u \in Nat /\ u <= s /\ OutUpTo(u)
    BY <1>2, <1>3, <1>4, <1>8 DEF LogAt
  <2>2. \A b \in u + 1 .. s : b \in cut'
    BY <1>6
  <2>. HIDE DEF u
  <2>3. output \in Seq(Nat) /\ DOMAIN output = 1 .. Len(output) /\ Len(output) \in Nat
        /\ \A i \in DOMAIN output : output[i] \in Nat
    BY LenProperties DEF LogInv, LogTypeOK
  <2>4. \A i \in DOMAIN output : output[i] <= s
    BY <1>4, <2>1, <2>3 DEF OutUpTo
  <2>5. \A b \in 1 .. s : b \in cut' \/ \E i \in DOMAIN output : output[i] = b
    <3>. SUFFICES ASSUME NEW b \in 1 .. s, b \notin cut'
                  PROVE  \E i \in DOMAIN output : output[i] = b
      OBVIOUS
    <3>1. b \in 1 .. u /\ b \notin cut
      BY <1>4, <1>7, <2>1, <2>2
    <3>. QED BY <2>1, <3>1 DEF OutUpTo
  <2>6. ASSUME NEW b \in (IF output = <<>> THEN 1 ELSE output[Len(output)] + 1) .. s
        PROVE  b \in cut'
    <3>1. CASE b <= u
      <4>1. b \in (IF output = <<>> THEN 1 ELSE output[Len(output)] + 1) .. u
        BY <2>1, <2>6, <3>1, <2>3
      <4>. QED BY <1>7, <2>1, <4>1 DEF OutUpTo
    <3>2. CASE b > u
      <4>1. b \in Int /\ b <= s
        <5>1. output # <<>> => output[Len(output)] \in Nat
          BY <2>3
        <5>. QED BY <1>4, <2>6, <5>1
      <4>. QED BY <1>4, <2>1, <2>2, <3>2, <4>1
    <3>. QED BY <1>4, <2>1, <2>6, <3>1, <3>2
  <2>. QED BY <1>1, <1>8, <2>4, <2>5, <2>6 DEF OutUpTo
<1>12. LogTypeOK'
  BY <1>1 DEF LogInv, LogTypeOK
<1>13. OutputInOrder' /\ FlushDrains'
  BY <1>1, <1>7 DEF LogInv, OutputInOrder, FlushDrains
<1>. QED BY <1>4, <1>9, <1>10, <1>11, <1>12, <1>13 DEF LogInv, LogAt

\* Every step of every service preserves the invariant of the log.
LEMMA LogStep == LogInv /\ [ServicesNext]_servicesVars => LogInv'
<1>. SUFFICES ASSUME LogInv, [ServicesNext]_servicesVars PROVE LogInv'
  OBVIOUS
<1>1. CASE UNCHANGED logVars
  <2>1. PICK t \in Nat : LogAt(t)
    BY DEF LogInv
  <2>2. LogAt(t)' /\ LogTypeOK'
    BY <1>1, <2>1 DEF logVars, LogInv, LogAt, LogTypeOK, Counters, RingHolds, ChunkOK, OutUpTo, Going
  <2>3. OutputInOrder' /\ FlushDrains'
    BY <1>1 DEF logVars, LogInv, OutputInOrder, FlushDrains
  <2>. QED BY <2>2, <2>3 DEF LogInv
<1>2. CASE LogNext
  BY <1>2, BeginInv, CopyInv, EndInv, IdleInv, FlushInv, ChunkInv, ByteInv, SentInv
     DEF LogNext, Logger
<1>. QED BY <1>1, <1>2 DEF ServicesNext, servicesVars

\* The log starts empty.
LEMMA LogStart == ServicesInit => LogInv
<1>. SUFFICES ASSUME ServicesInit PROVE LogInv
  OBVIOUS
<1>1. LogInit
  BY DEF ServicesInit
<1>2. LogTypeOK /\ OutputInOrder /\ FlushDrains
  BY <1>1 DEF LogInit, LogTypeOK, NoPush, OutputInOrder, FlushDrains
<1>3. RingMod \in Nat \ {0} /\ RingSize \in Nat
  BY LogAssumption
<1>4. 0 % RingMod = 0
  BY <1>3
<1>5. LogAt(0)
  BY <1>1, <1>3, <1>4
     DEF LogInit, LogAt, Counters, RingHolds, ChunkOK, OutUpTo, Going, NoPush
<1>. QED BY <1>2, <1>5 DEF LogInv

\* For every ring, every traffic and every speed of the UART: the accepted bytes go
\* out in order, none twice, none overwritten while the logger sends it unlocked.
THEOREM LogInOrder == ServicesSpec => []OutputInOrder
<1>1. LogInv => OutputInOrder
  BY DEF LogInv
<1>. QED BY <1>1, LogStart, LogStep, PTL DEF ServicesSpec

\* When log_flush returns before its timeout, every byte accepted before the call is
\* out or was cut off by the UART's timeout.
THEOREM FlushIsComplete == ServicesSpec => []FlushDrains
<1>1. LogInv => FlushDrains
  BY DEF LogInv
<1>. QED BY <1>1, LogStart, LogStep, PTL DEF ServicesSpec

-----------------------------------------------------------------------------
(* The boot loader's rescue                                                *)

Sessions ==
  [active : BOOLEAN, total : 0 .. Slot0Size, written : Nat, confirmed : BOOLEAN,
   installed : BOOLEAN, keys : SUBSET BootKeys, wrong : SUBSET BootKeys]

\* The type of the loader's state, as far as the proofs need it.
BootTypeOK ==
  /\ fifo \in Seq(BootFrames)
  /\ slot0 = [c \in Cells |-> slot0[c]]
  /\ accepted \in Seq(Nat)
  /\ sess \in Sessions
  /\ toErase \in [size : 0 .. Slot0Size, left : SUBSET Nat]

\* Where the session is: none before a host is found, none confirmed while an
\* erase runs, and none installed without being confirmed.
SessionPhases ==
  /\ bpc = "probe" => sess = NoSession
  /\ bpc = "erase" => ~sess.confirmed
  /\ sess.installed => sess.confirmed /\ ~sess.active

\* The sectors under the announced image that are not erased are still to be
\* erased.
EraseProgress ==
  bpc = "erase" =>
    \A c \in Cells : c < toErase.size => SectorOf(c) \in toErase.left \/ slot0[c] = Empty

\* A session does not write beyond the announced size, and one that installed an
\* image wrote all of it.
SizesAgree ==
  /\ sess.active => sess.written <= sess.total
  /\ sess.installed => sess.written = sess.total

BootInv ==
  /\ BootTypeOK /\ SessionPhases /\ EraseProgress /\ SizesAgree /\ RescueMatchesStream

-----------------------------------------------------------------------------
(* What handle_frame may do with a frame                                   *)

\* The sequence q without what precedes a place in it is a sequence of frames.
LEMMA DrainedType ==
  ASSUME NEW q \in Seq(BootFrames) PROVE Drained(q) \in Seq(BootFrames)
<1>1. CASE \E i \in DOMAIN q : q[i].dlc = 0
  <2>. DEFINE A == {j \in DOMAIN q : q[j].dlc = 0}
              Good(j) == j \in DOMAIN q /\ q[j].dlc = 0 /\ \A k \in 1 .. j - 1 : q[k].dlc # 0
              i == CHOOSE j \in DOMAIN q : q[j].dlc = 0 /\ \A k \in 1 .. j - 1 : q[k].dlc # 0
  <2>0. DOMAIN q = 1 .. Len(q) /\ Len(q) \in Nat
    BY LenProperties
  <2>a. A \subseteq Nat /\ A # {}
    BY <1>1, <2>0
  <2>1. PICK d \in A : \A e \in A : d <= e
    BY <2>a, LeastNatural, Zenon
  <2>2. d \in DOMAIN q /\ q[d].dlc = 0 /\ \A k \in 1 .. d - 1 : q[k].dlc # 0
    BY <2>0, <2>1
  <2>3. i \in DOMAIN q
    BY <2>2, Zenon
  <2>. HIDE DEF i
  <2>4. i \in Nat
    BY <2>0, <2>3
  <2>5. SubSeq(q, i + 1, Len(q)) \in Seq(BootFrames)
    BY <2>4, SuffixProperties
  <2>. QED BY <1>1, <2>5 DEF Drained, i
<1>2. CASE ~\E i \in DOMAIN q : q[i].dlc = 0
  BY <1>2 DEF Drained
<1>. QED BY <1>1, <1>2

\* The cells a session has written hold what it accepted, and the rest of the
\* announced size is erased.
Holds(s, flash, acc) ==
  /\ Len(acc) = s.written
  /\ \A i \in 1 .. Len(acc) : flash[i - 1] = acc[i]
  /\ \A c \in Cells : c >= s.written /\ c < s.total => flash[c] = Empty

\* An outcome of handle_frame leaves the loader in a state it can be in.
OutcomeOK(o) ==
  /\ o.s \in Sessions /\ o.acc \in Seq(Nat) /\ o.rest \in Seq(BootFrames)
  /\ o.flash = [c \in Cells |-> o.flash[c]]
  /\ o.erase \in [size : 0 .. Slot0Size, left : SUBSET Nat]
  /\ o.erase # NoErase =>
       /\ ~o.s.confirmed
       /\ \A c \in Cells : c < o.erase.size => SectorOf(c) \in o.erase.left
  /\ o.s.installed => o.s.confirmed /\ ~o.s.active /\ o.s.written = o.s.total
  /\ o.s.active => o.s.written <= o.s.total
  /\ (o.s.active \/ o.s.installed) /\ ~eraseFailed => Holds(o.s, o.flash, o.acc)

\* intflash_write changes the cells of the slot and no other thing.
LEMMA ProgrammedCells ==
  ASSUME NEW off, NEW data
  PROVE  Programmed(off, data) = [c \in Cells |-> Programmed(off, data)[c]]
BY Zenon DEF Programmed

\* A sector number is a natural number.
LEMMA SectorNat == ASSUME NEW c \in Nat PROVE SectorOf(c) \in Nat
<1>. DEFINE M == SectorSz
<1>1. M \in Nat \ {0}
  BY BootCanAssumption
<1>. HIDE DEF M
<1>2. c \div M \in Nat
  BY <1>1, DivMod
<1>. QED BY <1>2 DEF SectorOf, M

\* The state a frame finds, as handle_frame reads it.
LEMMA OutcomeUnchanged ==
  ASSUME BootInv, bpc = "session", fifo # <<>>, ~sess.confirmed
  PROVE  /\ OutcomeOK(Outcome) /\ ~sess.installed
         /\ Outcome = [s |-> sess, flash |-> slot0, acc |-> accepted, erase |-> NoErase,
                       rest |-> Tail(fifo)]
         /\ Tail(fifo) \in Seq(BootFrames) /\ Drained(Tail(fifo)) \in Seq(BootFrames)
         /\ sess.active /\ ~eraseFailed => Holds(sess, slot0, accepted)
<1>1. Tail(fifo) \in Seq(BootFrames)
  BY DEF BootInv, BootTypeOK
<1>2. Drained(Tail(fifo)) \in Seq(BootFrames)
  BY <1>1, DrainedType
<1>3. ~sess.installed
  BY DEF BootInv, SessionPhases
<1>4. sess.active /\ ~eraseFailed => Holds(sess, slot0, accepted)
  BY DEF BootInv, RescueMatchesStream, HoldsImage, Holds
<1>5. NoErase \in [size : 0 .. Slot0Size, left : SUBSET Nat]
  BY BootCanAssumption DEF NoErase
<1>. QED BY <1>1, <1>2, <1>3, <1>4, <1>5
         DEF Outcome, OutcomeOK, BootInv, BootTypeOK, SizesAgree

\* START: with a size in range, the sectors under the image are to be erased.
LEMMA StartOutcome ==
  ASSUME BootInv, bpc = "session", fifo # <<>>, ~sess.confirmed, NEW f
  PROVE  OutcomeOK(OnStart(f))
<1>. DEFINE s == IF sess.keys = BootKeys THEN [sess EXCEPT !.keys = {}] ELSE sess
            e == [size |-> f.arg, left |-> {SectorOf(c) : c \in 0 .. f.arg - 1}]
<1>1. /\ s \in Sessions /\ s.active = sess.active /\ s.confirmed = sess.confirmed
      /\ s.installed = sess.installed /\ s.written = sess.written /\ s.total = sess.total
  BY DEF BootInv, BootTypeOK, Sessions
<1>2. OutcomeOK([Outcome EXCEPT !.s = s])
  BY <1>1, OutcomeUnchanged DEF OutcomeOK, Holds
<1>3. ASSUME f.arg \in MinImage .. Slot0Size
      PROVE  OutcomeOK([Outcome EXCEPT !.s = s, !.erase = e])
  <2>1. f.arg \in 0 .. Slot0Size
    BY <1>3, BootCanAssumption
  <2>2. \A c \in 0 .. f.arg - 1 : SectorOf(c) \in Nat
    BY <2>1, SectorNat, BootCanAssumption
  <2>3. e \in [size : 0 .. Slot0Size, left : SUBSET Nat]
    BY <2>1, <2>2
  <2>4. \A c \in Cells : c < e.size => SectorOf(c) \in e.left
    BY <2>1, BootCanAssumption DEF Cells
  <2>. HIDE DEF e, s
  <2>. QED BY <1>1, <2>3, <2>4, OutcomeUnchanged DEF OutcomeOK, Holds
<1>. QED BY <1>2, <1>3 DEF OnStart

\* CONFIRM installs what is complete, and only that.
LEMMA ConfirmOutcome ==
  ASSUME BootInv, bpc = "session", fifo # <<>>, ~sess.confirmed
  PROVE  OutcomeOK(OnConfirm)
<1>1. CASE ~sess.active
  BY <1>1, OutcomeUnchanged DEF OnConfirm
<1>2. CASE sess.active /\ sess.written # sess.total
  <2>1. /\ SessClosed \in Sessions /\ ~SessClosed.active /\ ~SessClosed.installed
    BY OutcomeUnchanged DEF BootInv, BootTypeOK, Sessions, SessClosed
  <2>2. OutcomeOK([Outcome EXCEPT !.s = SessClosed, !.rest = Drained(Tail(fifo))])
    BY <2>1, OutcomeUnchanged DEF OutcomeOK
  <2>. QED BY <1>2, <2>2 DEF OnConfirm
<1>3. CASE sess.active /\ sess.written = sess.total
  <2>. DEFINE t == [SessClosed EXCEPT !.installed = TRUE, !.confirmed = TRUE]
  <2>1. /\ t \in Sessions /\ ~t.active /\ t.installed /\ t.confirmed
        /\ t.written = sess.written /\ t.total = sess.total
    BY DEF BootInv, BootTypeOK, Sessions, SessClosed
  <2>. HIDE DEF t
  <2>2. OutcomeOK([Outcome EXCEPT !.s = t, !.rest = Drained(Tail(fifo))])
    BY <1>3, <2>1, OutcomeUnchanged DEF OutcomeOK, Holds
  <2>. QED BY <1>3, <2>2 DEF OnConfirm, t
<1>. QED BY <1>1, <1>2, <1>3

\* A frame of the command id.
LEMMA CmdOutcome ==
  ASSUME BootInv, bpc = "session", fifo # <<>>, ~sess.confirmed, NEW f \in BootFrames,
         f.id = "cmd"
  PROVE  OutcomeOK(OnCmd(f))
<1>1. CASE f.dlc # 8 \/ f.cmd = "VERSION"
  BY <1>1, OutcomeUnchanged DEF OnCmd
<1>2. CASE f.dlc = 8 /\ f.cmd = "START"
  BY <1>2, StartOutcome DEF OnCmd
<1>3. CASE f.dlc = 8 /\ f.cmd = "CONFIRM"
  BY <1>3, ConfirmOutcome DEF OnCmd
<1>4. CASE f.dlc = 8 /\ f.cmd = "REBOOT"
  <2>. DEFINE t == [sess EXCEPT !.confirmed = TRUE]
  <2>1. /\ t \in Sessions /\ t.active = sess.active /\ t.installed = sess.installed
        /\ t.written = sess.written /\ t.total = sess.total
    BY DEF BootInv, BootTypeOK, Sessions
  <2>2. [Outcome EXCEPT !.s.confirmed = TRUE] = [Outcome EXCEPT !.s = t]
    BY DEF Outcome
  <2>. HIDE DEF t
  <2>3. OutcomeOK([Outcome EXCEPT !.s = t])
    BY <2>1, OutcomeUnchanged DEF OutcomeOK, Holds
  <2>. QED BY <1>4, <2>2, <2>3 DEF OnCmd
<1>. QED BY <1>1, <1>2, <1>3, <1>4, BootCanAssumption

\* DATA: the bytes go behind what was written, or the session is closed.
LEMMA DataOutcome ==
  ASSUME BootInv, bpc = "session", fifo # <<>>, ~sess.confirmed, NEW f \in BootFrames,
         f.id = "data", NEW o \in OnData(f)
  PROVE  OutcomeOK(o)
<1>. DEFINE written == sess.written + f.dlc
            u == [sess EXCEPT !.written = written]
            flash == Programmed(sess.written, f.data)
            acc == accepted \o f.data
<1>0. /\ f.data \in Seq(Nat) /\ f.dlc = Len(f.data) /\ Len(f.data) \in Nat
      /\ accepted \in Seq(Nat) /\ Len(accepted) \in Nat
      /\ sess.written \in Nat /\ sess.total \in 0 .. Slot0Size /\ Slot0Size \in Nat
  BY BootCanAssumption, LenProperties DEF BootInv, BootTypeOK, Sessions
<1>1. /\ SessClosed \in Sessions /\ ~SessClosed.active /\ ~SessClosed.installed
  BY OutcomeUnchanged DEF BootInv, BootTypeOK, Sessions, SessClosed
<1>2. CASE ~sess.active
  BY <1>2, OutcomeUnchanged DEF OnData
<1>3. CASE sess.active /\ written > sess.total
  <2>1. o = [Outcome EXCEPT !.s = SessClosed]
    BY <1>3 DEF OnData
  <2>. QED BY <1>1, <2>1, OutcomeUnchanged DEF OutcomeOK
<1>4. CASE sess.active /\ ~(written > sess.total)
  <2>1. ASSUME NEW d PROVE OutcomeOK([Outcome EXCEPT !.s = SessClosed, !.flash = Programmed(sess.written, d)])
    <3>. DEFINE w == Programmed(sess.written, d)
    <3>1. w = [c \in Cells |-> w[c]]
      BY ProgrammedCells, Zenon
    <3>. HIDE DEF w
    <3>2. OutcomeOK([Outcome EXCEPT !.s = SessClosed, !.flash = w])
      BY <1>1, <3>1, OutcomeUnchanged DEF OutcomeOK
    <3>. QED BY <3>2 DEF w
  <2>a. written \in Nat
    BY <1>0
  <2>2. /\ u \in Sessions /\ u.active = sess.active /\ u.installed = sess.installed
        /\ u.confirmed = sess.confirmed /\ u.written = written /\ u.total = sess.total
    BY <2>a DEF BootInv, BootTypeOK, Sessions
  <2>3. /\ acc \in Seq(Nat) /\ Len(acc) = Len(accepted) + Len(f.data)
        /\ \A i \in 1 .. Len(accepted) + Len(f.data) :
             acc[i] = IF i <= Len(accepted) THEN accepted[i] ELSE f.data[i - Len(accepted)]
    BY <1>0, ConcatProperties
  <2>4. \A c \in Cells : flash[c] =
            IF c \in sess.written .. sess.written + Len(f.data) - 1
            THEN IF slot0[c] = Empty THEN f.data[c - sess.written + 1] ELSE Bad
            ELSE slot0[c]
    BY DEF Programmed
  <2>5. flash = [c \in Cells |-> flash[c]]
    BY ProgrammedCells, Zenon
  <2>. HIDE DEF u, flash, acc
  <2>6. ASSUME ~eraseFailed PROVE Holds(u, flash, acc)
    <3>1. /\ Len(accepted) = sess.written
          /\ \A i \in 1 .. Len(accepted) : slot0[i - 1] = accepted[i]
          /\ \A c \in Cells : c >= sess.written /\ c < sess.total => slot0[c] = Empty
      BY <1>4, <2>6, OutcomeUnchanged DEF Holds
    <3>2. Len(acc) = u.written
      BY <1>0, <2>2, <2>3, <3>1
    <3>3. ASSUME NEW i \in 1 .. Len(acc) PROVE flash[i - 1] = acc[i]
      <4>1. i \in 1 .. Len(accepted) + Len(f.data) /\ i - 1 \in Cells /\ i - 1 < sess.total
        BY <1>0, <1>4, <2>2, <2>3, <3>1, <3>3 DEF Cells
      <4>2. CASE i <= Len(accepted)
        <5>1. /\ i \in 1 .. Len(accepted)
              /\ i - 1 \notin sess.written .. sess.written + Len(f.data) - 1
          BY <1>0, <3>1, <4>1, <4>2
        <5>2. flash[i - 1] = slot0[i - 1]
          BY <2>4, <4>1, <5>1
        <5>3. acc[i] = accepted[i]
          BY <2>3, <4>1, <4>2
        <5>. QED BY <3>1, <5>1, <5>2, <5>3
      <4>3. CASE i > Len(accepted)
        <5>1. i - 1 \in sess.written .. sess.written + Len(f.data) - 1 /\ i - 1 >= sess.written
          BY <1>0, <3>1, <4>1, <4>3
        <5>2. (i - 1) - sess.written + 1 = i - Len(accepted)
          BY <1>0, <3>1, <4>1
        <5>3. slot0[i - 1] = Empty
          BY <3>1, <4>1, <5>1
        <5>4. flash[i - 1] = f.data[(i - 1) - sess.written + 1]
          BY <2>4, <4>1, <5>1, <5>3
        <5>5. acc[i] = f.data[i - Len(accepted)]
          BY <1>0, <2>3, <4>1, <4>3
        <5>. QED BY <5>2, <5>4, <5>5
      <4>. QED BY <1>0, <4>1, <4>2, <4>3
    <3>4. ASSUME NEW c \in Cells, c >= u.written, c < u.total PROVE flash[c] = Empty
      <4>1. c \in Nat /\ c >= sess.written /\ c < sess.total
            /\ c \notin sess.written .. sess.written + Len(f.data) - 1
        BY <1>0, <2>2, <3>4 DEF Cells
      <4>. QED BY <2>4, <3>1, <4>1
    <3>. QED BY <3>2, <3>3, <3>4 DEF Holds
  <2>7. OutcomeOK([Outcome EXCEPT !.s = u, !.flash = flash, !.acc = acc])
    <3>1. u.written <= u.total
      BY <1>0, <1>4, <2>2
    <3>2. NoErase \in [size : 0 .. Slot0Size, left : SUBSET Nat]
      BY <1>0 DEF NoErase
    <3>. QED BY <2>2, <2>3, <2>5, <2>6, <3>1, <3>2, OutcomeUnchanged DEF OutcomeOK
  <2>8. OutcomeOK([Outcome EXCEPT !.s.written = written, !.flash = flash, !.acc = acc])
    <3>1. [Outcome EXCEPT !.s.written = written, !.flash = flash, !.acc = acc] =
            [Outcome EXCEPT !.s = u, !.flash = flash, !.acc = acc]
      BY DEF Outcome, u
    <3>. QED BY <2>7, <3>1
  <2>9. \/ o = [Outcome EXCEPT !.s.written = written, !.flash = flash, !.acc = acc]
        \/ \E n \in 0 .. Len(f.data) :
             o = [Outcome EXCEPT !.s = SessClosed,
                                 !.flash = Programmed(sess.written, SubSeq(f.data, 1, n))]
    BY <1>4, Zenon DEF OnData, flash, acc
  <2>10. CASE o = [Outcome EXCEPT !.s.written = written, !.flash = flash, !.acc = acc]
    BY <2>8, <2>10, Zenon
  <2>. QED BY <2>1, <2>9, <2>10, Zenon
<1>. QED BY <1>2, <1>3, <1>4

\* A frame of the key hash id touches the key hash only.
LEMMA KeyOutcome ==
  ASSUME BootInv, bpc = "session", fifo # <<>>, ~sess.confirmed, NEW f
  PROVE  OutcomeOK(OnKey(f))
<1>1. CASE f.seq \notin BootKeys \/ ~f.whole
  BY <1>1, OutcomeUnchanged DEF OnKey
<1>2. CASE f.seq \in BootKeys /\ f.whole
  <2>. DEFINE wrong == IF f.good THEN sess.wrong \ {f.seq} ELSE sess.wrong \cup {f.seq}
              t == [sess EXCEPT !.keys = sess.keys \cup {f.seq}, !.wrong = wrong]
  <2>1. /\ t \in Sessions /\ t.active = sess.active /\ t.installed = sess.installed
        /\ t.confirmed = sess.confirmed /\ t.written = sess.written /\ t.total = sess.total
    BY <1>2 DEF BootInv, BootTypeOK, Sessions
  <2>2. [Outcome EXCEPT !.s.keys = @ \cup {f.seq},
                        !.s.wrong = IF f.good THEN @ \ {f.seq} ELSE @ \cup {f.seq}]
          = [Outcome EXCEPT !.s = t]
    BY DEF Outcome
  <2>. HIDE DEF t
  <2>3. OutcomeOK([Outcome EXCEPT !.s = t])
    BY <2>1, OutcomeUnchanged DEF OutcomeOK, Holds
  <2>. QED BY <1>2, <2>2, <2>3 DEF OnKey
<1>. QED BY <1>1, <1>2

\* Whatever frame handle_frame gets, and whatever the flash does with it.
LEMMA FrameOutcome ==
  ASSUME BootInv, bpc = "session", ~sess.confirmed, Alive, NEW o \in HandleFrame(Head(fifo))
  PROVE  OutcomeOK(o)
<1>. DEFINE f == Head(fifo)
<1>1. fifo # <<>> /\ f \in BootFrames
  BY DEF Alive, BootInv, BootTypeOK
<1>. HIDE DEF f
<1>2. CASE f.id = "cmd"
  BY <1>1, <1>2, CmdOutcome DEF HandleFrame, f
<1>3. CASE f.id = "data"
  BY <1>1, <1>3, DataOutcome DEF HandleFrame, f
<1>4. CASE f.id = "key"
  BY <1>1, <1>4, KeyOutcome DEF HandleFrame, f
<1>5. CASE f.id \notin {"cmd", "data", "key"}
  BY <1>1, <1>5, OutcomeUnchanged DEF HandleFrame, f
<1>. QED BY <1>2, <1>3, <1>4, <1>5

-----------------------------------------------------------------------------
(* No step of the loader, the bus or the power breaks the invariant        *)

\* A boot without a session has nothing to hold.
LEMMA NoSessionOK ==
  /\ NoSession \in Sessions /\ ~NoSession.active /\ ~NoSession.installed
  /\ ~NoSession.confirmed
  /\ NoErase \in [size : 0 .. Slot0Size, left : SUBSET Nat]
BY BootCanAssumption DEF NoSession, Sessions, NoErase

\* A frame that arrives stays a frame, also in a full FIFO.
LEMMA ArrivalInv ==
  ASSUME BootInv, NEW f \in BootFrames, FrameArrives(f) PROVE BootInv'
<1>1. fifo \in Seq(BootFrames) /\ FifoDepth \in Nat \ {0}
  BY BootCanAssumption DEF BootInv, BootTypeOK
<1>2. fifo' \in Seq(BootFrames)
  BY <1>1 DEF FrameArrives
<1>. QED BY <1>2 DEF FrameArrives, BootInv, BootTypeOK, SessionPhases, EraseProgress,
                     SizesAgree, RescueMatchesStream, HoldsImage, SectorOf

\* boot_can_wait begins: the session state is cleared.
LEMMA WaitInv == ASSUME BootInv, WaitStart PROVE BootInv'
<1>1. /\ sess' = NoSession /\ accepted' = <<>> /\ bpc' \in {"probe", "done"}
      /\ fifo' = fifo /\ slot0' = slot0 /\ toErase' = toErase
  BY DEF WaitStart
<1>2. BootTypeOK'
  BY <1>1, NoSessionOK DEF BootInv, BootTypeOK
<1>. QED BY <1>1, <1>2, NoSessionOK
         DEF BootInv, SessionPhases, EraseProgress, SizesAgree, RescueMatchesStream

\* The probe window: there is no session yet.
LEMMA ProbeInv == ASSUME BootInv, ProbePoll \/ ProbeTimeout PROVE BootInv'
<1>1. /\ sess = NoSession /\ sess' = sess /\ accepted' = accepted
      /\ bpc' \in {"session", "probe", "done"} /\ slot0' = slot0 /\ toErase' = toErase
  BY DEF ProbePoll, ProbeTimeout, HostFound, StillProbing, BootInv, SessionPhases
<1>2. fifo' \in Seq(BootFrames)
  <2>1. CASE ProbeTimeout
    BY <2>1 DEF ProbeTimeout, BootInv, BootTypeOK
  <2>2. CASE ProbePoll
    <3>1. Tail(fifo) \in Seq(BootFrames)
      BY <2>2 DEF ProbePoll, BootInv, BootTypeOK
    <3>2. Drained(Tail(fifo)) \in Seq(BootFrames)
      BY <3>1, DrainedType
    <3>. QED BY <2>2, <3>1, <3>2 DEF ProbePoll, HostFound, StillProbing
  <2>. QED BY <2>1, <2>2
<1>. QED BY <1>1, <1>2, NoSessionOK DEF BootInv, BootTypeOK, SessionPhases, EraseProgress,
                                         SizesAgree, RescueMatchesStream

\* A frame of the session, with the outcome handle_frame chose.
LEMMA FrameInv == ASSUME BootInv, SessionFrame PROVE BootInv'
<1>1. PICK o \in HandleFrame(Head(fifo)) :
        /\ sess' = o.s /\ slot0' = o.flash /\ accepted' = o.acc
        /\ fifo' = o.rest /\ toErase' = o.erase
        /\ bpc' = IF o.erase = NoErase THEN "session" ELSE "erase"
  BY DEF SessionFrame
<1>2. OutcomeOK(o) /\ eraseFailed' = eraseFailed
  BY FrameOutcome DEF SessionFrame
<1>3. BootTypeOK' /\ SizesAgree' /\ SessionPhases'
  BY <1>1, <1>2 DEF OutcomeOK, BootTypeOK, SizesAgree, SessionPhases
<1>4. EraseProgress'
  BY <1>1, <1>2 DEF OutcomeOK, EraseProgress
<1>5. RescueMatchesStream'
  BY <1>1, <1>2 DEF OutcomeOK, Holds, RescueMatchesStream, HoldsImage
<1>. QED BY <1>3, <1>4, <1>5 DEF BootInv

\* The session goes on without a frame, or ends.
LEMMA PollInv ==
  ASSUME BootInv, SessionPoll \/ SessionConfirmed \/ ClockTick PROVE BootInv'
<1>1. /\ bpc = "session" /\ bpc' \in {"session", "done"} /\ eraseFailed' = eraseFailed
      /\ sess' = sess /\ accepted' = accepted /\ slot0' = slot0 /\ toErase' = toErase
  BY DEF SessionPoll, SessionConfirmed, ClockTick
<1>2. fifo' \in Seq(BootFrames)
  <2>1. fifo \in Seq(BootFrames)
    BY DEF BootInv, BootTypeOK
  <2>2. fifo' = fifo \/ (fifo # <<>> /\ fifo' = Tail(fifo))
    BY DEF SessionPoll, SessionConfirmed, ClockTick
  <2>. QED BY <2>1, <2>2
<1>. QED BY <1>1, <1>2 DEF BootInv, BootTypeOK, SessionPhases, EraseProgress, SizesAgree,
                           RescueMatchesStream, HoldsImage

\* A sector is erased: the cells of the sectors done are empty.
LEMMA EraseInv == ASSUME BootInv, EraseSector PROVE BootInv'
<1>. DEFINE e == FirstSector
<1>1. /\ bpc = "erase" /\ bpc' = "erase" /\ slot0' = ErasedSector(e)
      /\ toErase' = [toErase EXCEPT !.left = toErase.left \ {e}]
      /\ sess' = sess /\ accepted' = accepted /\ fifo' = fifo
  BY DEF EraseSector
<1>. HIDE DEF e
<1>2. BootTypeOK'
  BY <1>1 DEF BootInv, BootTypeOK, ErasedSector
<1>3. EraseProgress'
  <2>1. toErase'.size = toErase.size /\ toErase'.left = toErase.left \ {e}
    BY <1>1 DEF BootInv, BootTypeOK
  <2>2. \A c \in Cells : slot0'[c] = IF SectorOf(c) = e THEN Empty ELSE slot0[c]
    BY <1>1 DEF ErasedSector
  <2>. QED BY <1>1, <2>1, <2>2 DEF BootInv, EraseProgress
<1>. QED BY <1>1, <1>2, <1>3 DEF BootInv, SessionPhases, SizesAgree, RescueMatchesStream

\* The erase fails, which the session remembers.
LEMMA EraseFailsInv == ASSUME BootInv, EraseFails PROVE BootInv'
<1>1. /\ bpc = "erase" /\ bpc' = "session" /\ slot0' \in {slot0, TornSector(FirstSector)}
      /\ toErase' = NoErase /\ eraseFailed' = TRUE
      /\ sess' = sess /\ accepted' = accepted /\ fifo' = fifo
  BY DEF EraseFails
<1>2. BootTypeOK'
  BY <1>1, NoSessionOK DEF BootInv, BootTypeOK, TornSector
<1>. QED BY <1>1, <1>2
         DEF BootInv, SessionPhases, SizesAgree, RescueMatchesStream, EraseProgress

\* The erase is complete: an empty session over erased cells.
LEMMA EraseDoneInv == ASSUME BootInv, EraseDone PROVE BootInv'
<1>. DEFINE t == [sess EXCEPT !.active = TRUE, !.total = toErase.size, !.written = 0]
<1>1. /\ bpc = "erase" /\ toErase.left = {} /\ bpc' = "session" /\ slot0' = slot0
      /\ toErase' = NoErase /\ sess' = t /\ accepted' = <<>> /\ fifo' = fifo
  BY DEF EraseDone
<1>2. /\ t \in Sessions /\ t.active /\ t.total = toErase.size /\ t.written = 0
      /\ t.installed = sess.installed /\ t.confirmed = sess.confirmed
  BY BootCanAssumption DEF BootInv, BootTypeOK, Sessions
<1>. HIDE DEF t
<1>3. BootTypeOK'
  BY <1>1, <1>2, NoSessionOK DEF BootInv, BootTypeOK
<1>4. ~t.installed /\ SessionPhases'
  BY <1>1, <1>2 DEF BootInv, SessionPhases
<1>5. toErase.size \in Nat
  BY BootCanAssumption DEF BootInv, BootTypeOK
<1>6. SizesAgree' /\ EraseProgress'
  BY <1>1, <1>2, <1>4, <1>5 DEF SizesAgree, EraseProgress
<1>7. \A c \in Cells : c < toErase.size => slot0[c] = Empty
  BY <1>1 DEF BootInv, EraseProgress
<1>8. RescueMatchesStream'
  BY <1>1, <1>2, <1>7 DEF RescueMatchesStream, HoldsImage
<1>. QED BY <1>3, <1>4, <1>6, <1>8 DEF BootInv

\* boot_go, the loop around it, and a reset by the application or the power.
LEMMA MainInv ==
  ASSUME BootInv, BootGo \/ RescueAgain \/ AppRestarts \/ BootPowerLoss PROVE BootInv'
<1>1. CASE BootGo
  <2>1. /\ bpc' \in {"app", "enter"} /\ slot0' = [c \in Cells |-> slot0'[c]]
        /\ sess' = sess /\ accepted' = accepted /\ fifo' = fifo /\ toErase' = toErase
    BY <1>1 DEF BootGo, BootInv, BootTypeOK
  <2>2. BootTypeOK'
    BY <2>1 DEF BootInv, BootTypeOK
  <2>. QED BY <2>1, <2>2 DEF BootInv, SessionPhases, SizesAgree, RescueMatchesStream,
                             EraseProgress
<1>2. CASE RescueAgain
  <2>1. /\ bpc' = "enter" /\ slot0' = slot0 /\ fifo' \in {<<>>, fifo}
        /\ sess' = sess /\ accepted' = accepted /\ toErase' = toErase
    BY <1>2 DEF RescueAgain
  <2>a. fifo \in Seq(BootFrames) /\ <<>> \in Seq(BootFrames)
    BY DEF BootInv, BootTypeOK
  <2>2. BootTypeOK'
    <3>1. CASE fifo' = fifo
      BY <2>1, <3>1 DEF BootInv, BootTypeOK
    <3>2. CASE fifo' = <<>>
      BY <2>1, <2>a, <3>2 DEF BootInv, BootTypeOK
    <3>. QED BY <2>1, <3>1, <3>2
  <2>. QED BY <2>1, <2>2 DEF BootInv, SessionPhases, SizesAgree, RescueMatchesStream,
                             EraseProgress
<1>3. CASE AppRestarts \/ BootPowerLoss
  <2>1. /\ bpc' = "enter" /\ sess' = NoSession /\ fifo' = <<>> /\ toErase' = NoErase
        /\ accepted' = accepted
    BY <1>3 DEF AppRestarts, BootPowerLoss, Restarted
  <2>2. slot0' = [c \in Cells |-> slot0'[c]]
    <3>1. CASE slot0' = slot0
      BY <3>1 DEF BootInv, BootTypeOK
    <3>2. CASE slot0' = TornSector(FirstSector)
      BY <3>2 DEF TornSector
    <3>3. CASE /\ bpc = "session" /\ ~sess.confirmed /\ Alive
               /\ \E o \in HandleFrame(Head(fifo)) : slot0' = o.flash
      BY <3>3, FrameOutcome DEF OutcomeOK
    <3>. QED BY <1>3, <3>1, <3>2, <3>3 DEF AppRestarts, BootPowerLoss
  <2>3. BootTypeOK'
    BY <2>1, <2>2, NoSessionOK DEF BootInv, BootTypeOK
  <2>. QED BY <2>1, <2>3, NoSessionOK
           DEF BootInv, SessionPhases, SizesAgree, RescueMatchesStream, EraseProgress
<1>. QED BY <1>1, <1>2, <1>3

\* What the rescue neither reads nor writes does not concern it.
LEMMA BootStutter == ASSUME BootInv, UNCHANGED bootVars PROVE BootInv'
BY DEF bootVars, BootInv, BootTypeOK, SessionPhases, EraseProgress, SizesAgree,
       RescueMatchesStream, HoldsImage

\* Every step of every service preserves the invariant of the rescue.
LEMMA BootStep == BootInv /\ [ServicesNext]_servicesVars => BootInv'
<1>. SUFFICES ASSUME BootInv, [ServicesNext]_servicesVars PROVE BootInv'
  OBVIOUS
<1>1. CASE UNCHANGED bootVars
  BY <1>1, BootStutter
<1>2. CASE BootNext
  <2>1. ASSUME NEW f \in BootFrames, FrameArrives(f) PROVE BootInv'
    BY <2>1, ArrivalInv
  <2>2. CASE GoesQuiet
    BY <2>2 DEF GoesQuiet, BootInv, BootTypeOK, SessionPhases, EraseProgress, SizesAgree,
                RescueMatchesStream, HoldsImage
  <2>. QED BY <1>2, <2>1, <2>2, WaitInv, ProbeInv, FrameInv, PollInv, EraseInv, EraseFailsInv,
              EraseDoneInv, MainInv DEF BootNext, Loader
<1>. QED BY <1>1, <1>2 DEF ServicesNext, servicesVars

\* The loader starts without a session.
LEMMA BootStart == ServicesInit => BootInv
<1>. SUFFICES ASSUME ServicesInit PROVE BootInv
  OBVIOUS
<1>1. BootInit
  BY DEF ServicesInit
<1>2. BootTypeOK
  BY <1>1, NoSessionOK DEF BootInit, BootTypeOK
<1>. QED BY <1>1, <1>2, NoSessionOK
         DEF BootInit, BootInv, SessionPhases, SizesAgree, RescueMatchesStream, EraseProgress

\* For every flash, FIFO and traffic on the bus: what a rescue session accepted
\* is in slot 0, byte for byte, and the rest of the announced size is erased.
THEOREM RescueIsExact == ServicesSpec => []RescueMatchesStream
<1>1. BootInv => RescueMatchesStream
  BY DEF BootInv
<1>. QED BY <1>1, BootStart, BootStep, PTL DEF ServicesSpec

\* An installation that was confirmed is complete, and still in slot 0 when
\* boot_can_wait has returned and boot_go, or the next round, follows.
LEMMA InstalledStays ==
  ASSUME BootInv, [BootNext]_bootVars,
         bpc = "done", bpc' \in {"app", "enter"}, sess.installed, ~eraseFailed, ~pend
  PROVE  Len(accepted) = sess.total /\ \A i \in DOMAIN accepted : slot0'[i - 1] = accepted[i]
<1>1. /\ Len(accepted) = sess.total
      /\ \A i \in 1 .. Len(accepted) : slot0[i - 1] = accepted[i]
  BY DEF BootInv, SizesAgree, RescueMatchesStream, HoldsImage
<1>2. slot0' = slot0
  BY DEF BootNext, Loader, FrameArrives, WaitStart, ProbePoll, ProbeTimeout, SessionFrame,
         SessionPoll, SessionConfirmed, EraseSector, EraseFails, EraseDone, BootGo, RescueAgain,
         ClockTick, AppRestarts, BootPowerLoss, GoesQuiet, bootVars
<1>3. DOMAIN accepted = 1 .. Len(accepted)
  BY LenProperties DEF BootInv, BootTypeOK
<1>. QED BY <1>1, <1>2, <1>3

\* What CONFIRM installed is what boot_go gets to verify and start, unless the
\* application had requested a swap before.
THEOREM InstalledIsStarted == ServicesSpec => ConfirmedIsStarted
<1>1. BootInv /\ [ServicesNext]_servicesVars =>
        [bpc = "done" /\ bpc' \in {"app", "enter"} /\ sess.installed /\ ~eraseFailed /\ ~pend =>
           Len(accepted) = sess.total /\ \A i \in DOMAIN accepted : slot0'[i - 1] = accepted[i]]_bootVars
  <2>1. [ServicesNext]_servicesVars => [BootNext]_bootVars
    BY DEF ServicesNext, servicesVars
  <2>. QED BY <2>1, InstalledStays
<1>. QED BY <1>1, BootStart, BootStep, PTL DEF ServicesSpec, ConfirmedIsStarted

-----------------------------------------------------------------------------
(* The web server's downloads, which share one handle                      *)

HttpTokens == Downloads \cup {"page", "bye", "post", "body", "ws", "bad", "half"}
FileBytes == Downloads \X Nat

\* The values http_conns[i] and the download handle take.
Conns ==
  [up : BOOLEAN, kind : {"none", "mem", "file", "ws"}, rx : Seq(HttpTokens), posted : BOOLEAN,
   total : Nat, written : Nat, acked : Nat, keep : BOOLEAN, file : Downloads, size : Nat,
   read : Nat, chunk : Seq(FileBytes), staleRx : BOOLEAN, staleAck : BOOLEAN]
Handles == {h \in [open : BOOLEAN, file : Downloads, pos : Nat, gone : BOOLEAN] :
              h.open => h.file \in WebFiles}

HttpTypeOK ==
  /\ hconn \in [HConns -> Conns] /\ handle \in Handles /\ body \in [HConns -> Seq(FileBytes)]
  /\ wfiles \subseteq WebFiles /\ shared \in [HConns -> BOOLEAN]

\* A download that has the handle for itself.
Own(r, sh) == r.kind = "file" /\ ~sh

\* With b handed to TCP, connection r has read the file up to the handle's position,
\* and counted right.
Follows(r, b, h) ==
  /\ h.open /\ ~h.gone /\ h.file = r.file /\ h.pos <= WebSize[r.file]
  /\ Len(b \o r.chunk) = h.pos /\ r.read = h.pos /\ Len(r.chunk) <= 1
  /\ \A i \in 1 .. h.pos : (b \o r.chunk)[i] = <<r.file, i>>
  /\ r.size = WebSize[r.file] /\ r.total = 1 + r.size
  /\ IF r.written = 0 THEN b = <<>> /\ r.chunk = <<>> ELSE Len(b) = r.written - 1

HttpInv ==
  /\ HttpTypeOK
  /\ \A c \in HConns : \A d \in HConns \ {c} :
       Own(hconn[c], shared[c]) => ~Own(hconn[d], shared[d])
  /\ \A c \in HConns : Own(hconn[c], shared[c]) => Follows(hconn[c], body[c], handle)

LEMMA HttpFacts ==
  ASSUME HttpInv
  PROVE  /\ hconn \in [HConns -> Conns] /\ handle \in Handles
         /\ body \in [HConns -> Seq(FileBytes)]
         /\ wfiles \subseteq WebFiles /\ shared \in [HConns -> BOOLEAN]
         /\ \A c \in HConns : Own(hconn[c], shared[c]) => Follows(hconn[c], body[c], handle)
BY Zenon DEF HttpInv, HttpTypeOK

\* What a step does to a download d of its own: it stays, or is not d's own any more.
Spares(d) ==
  /\ shared[d] => shared'[d]
  /\ Own(hconn[d], shared'[d]) /\ Follows(hconn[d], body[d], handle) =>
       Follows(hconn[d], body[d], handle')

WebTypeOK == handle \in Handles /\ wfiles \subseteq WebFiles /\ shared \in [HConns -> BOOLEAN]

\* What a step that concerns one connection has to respect.
LEMMA OneConnection ==
  ASSUME HttpInv, NEW c \in HConns, NEW r \in Conns, NEW b \in Seq(FileBytes),
         hconn' = [hconn EXCEPT ![c] = r], body' = [body EXCEPT ![c] = b], WebTypeOK',
         \A d \in HConns \ {c} : Spares(d),
         Own(r, shared'[c]) =>
           /\ Follows(r, b, handle')
           /\ Own(hconn[c], shared[c]) \/ \A d \in HConns \ {c} : ~Own(hconn[d], shared'[d])
  PROVE  HttpInv'
<1>1. /\ hconn \in [HConns -> Conns] /\ body \in [HConns -> Seq(FileBytes)]
      /\ \A e \in HConns : \A d \in HConns \ {e} :
           Own(hconn[e], shared[e]) => ~Own(hconn[d], shared[d])
      /\ \A e \in HConns : Own(hconn[e], shared[e]) => Follows(hconn[e], body[e], handle)
  BY Zenon DEF HttpInv, HttpTypeOK
<1>2. /\ hconn' \in [HConns -> Conns] /\ body' \in [HConns -> Seq(FileBytes)]
      /\ hconn'[c] = r /\ body'[c] = b
      /\ \A d \in HConns \ {c} : hconn'[d] = hconn[d] /\ body'[d] = body[d]
  BY <1>1
<1>3. HttpTypeOK'
  BY <1>2 DEF HttpTypeOK, WebTypeOK
\* What another connection owns now it owned before.
<1>4. ASSUME NEW d \in HConns \ {c}, Own(hconn'[d], shared'[d])
      PROVE  Own(hconn[d], shared[d]) /\ Own(hconn[d], shared'[d])
  BY <1>2, <1>4 DEF Own, Spares
<1>5. \A e \in HConns : \A d \in HConns \ {e} :
        Own(hconn'[e], shared'[e]) => ~Own(hconn'[d], shared'[d])
  <2>1. ASSUME NEW d \in HConns \ {c}, Own(hconn'[d], shared'[d]), Own(r, shared'[c]) PROVE FALSE
    BY <1>1, <1>4, <2>1
  <2>2. ASSUME NEW e \in HConns, NEW d \in HConns \ {e}, Own(hconn'[e], shared'[e]),
               Own(hconn'[d], shared'[d])
        PROVE  FALSE
    <3>1. CASE e = c
      BY <1>2, <2>1, <2>2, <3>1
    <3>2. CASE d = c
      BY <1>2, <2>1, <2>2, <3>2
    <3>3. CASE e # c /\ d # c
      BY <1>1, <1>4, <2>2, <3>3
    <3>. QED BY <3>1, <3>2, <3>3
  <2>. QED BY <2>2
<1>6. ASSUME NEW e \in HConns, Own(hconn'[e], shared'[e]) PROVE Follows(hconn'[e], body'[e], handle')
  <2>1. CASE e = c
    BY <1>2, <1>6, <2>1
  <2>2. CASE e # c
    BY <1>1, <1>2, <1>4, <1>6, <2>2 DEF Spares
  <2>. QED BY <2>1, <2>2
<1>. QED BY <1>3, <1>5, <1>6 DEF HttpInv

\* Steps that leave the files and the handle alone.
LEMMA WebStays ==
  ASSUME HttpInv, UNCHANGED webFs PROVE WebTypeOK' /\ \A d \in HConns : Spares(d)
BY HttpFacts DEF webFs, Spares, WebTypeOK

\* A use of the handle by c is noticed by every other download.
LEMMA WebShared ==
  ASSUME HttpInv, NEW c \in HConns, shared' = Sharing(c)
  PROVE  /\ shared' \in [HConns -> BOOLEAN]
         /\ shared'[c] = shared[c]
         /\ \A d \in HConns \ {c} : Spares(d) /\ ~Own(hconn[d], shared'[d])
<1>1. shared \in [HConns -> BOOLEAN]
  BY HttpFacts
<1>2. /\ shared' \in [HConns -> BOOLEAN] /\ shared'[c] = shared[c]
      /\ \A d \in HConns \ {c} : shared'[d] = (shared[d] \/ hconn[d].kind = "file")
  BY <1>1 DEF Sharing
<1>. QED BY <1>1, <1>2 DEF Spares, Own

\* So is the download that c begins, which nobody has shared yet.
LEMMA WebOpened ==
  ASSUME HttpInv, NEW c \in HConns, shared' = [Sharing(c) EXCEPT ![c] = FALSE]
  PROVE  /\ shared' \in [HConns -> BOOLEAN]
         /\ \A d \in HConns \ {c} : Spares(d) /\ ~Own(hconn[d], shared'[d])
<1>1. shared \in [HConns -> BOOLEAN]
  BY HttpFacts
<1>2. /\ shared' \in [HConns -> BOOLEAN]
      /\ \A d \in HConns \ {c} : shared'[d] = (shared[d] \/ hconn[d].kind = "file")
  BY <1>1 DEF Sharing
<1>. QED BY <1>1, <1>2 DEF Spares, Own

\* A removal is noticed by the downloads of the file.
LEMMA WebRemoved ==
  ASSUME HttpInv, NEW f \in wfiles, WebRemove(f)
  PROVE  WebTypeOK' /\ \A d \in HConns : Spares(d)
<1>1. /\ handle \in Handles /\ wfiles \subseteq WebFiles /\ shared \in [HConns -> BOOLEAN]
  BY HttpFacts
<1>2. handle' \in Handles
  BY <1>1 DEF WebRemove, Handles
<1>3. /\ shared' \in [HConns -> BOOLEAN] /\ wfiles' \subseteq WebFiles
      /\ \A d \in HConns :
           shared'[d] = (shared[d] \/ (hconn[d].kind = "file" /\ hconn[d].file = f))
  BY <1>1 DEF WebRemove
<1>4. ASSUME NEW d \in HConns PROVE Spares(d)
  <2>1. ASSUME Own(hconn[d], shared'[d]), Follows(hconn[d], body[d], handle) PROVE handle' = handle
    <3>1. hconn[d].file # f
      BY <1>3, <2>1 DEF Own
    <3>. QED BY <2>1, <3>1 DEF WebRemove, Follows
  <2>. QED BY <1>3, <2>1 DEF Spares
<1>. QED BY <1>2, <1>3, <1>4 DEF WebTypeOK

\* A connection that is given up is in no download.
LEMMA FreeConn ==
  /\ HFree \in Conns /\ HFree.kind = "none"
  /\ [HFree EXCEPT !.up = TRUE] \in Conns
  /\ [HFree EXCEPT !.up = TRUE].kind = "none" /\ NoHandle \in Handles
<1>1. <<>> \in Seq(HttpTokens) /\ <<>> \in Seq(FileBytes)
  OBVIOUS
<1>. QED BY <1>1 DEF HFree, Conns, NoHandle, Handles, Downloads

\* A step after which the connection is in no download.
LEMMA NoDownload ==
  ASSUME HttpInv, NEW c \in HConns, NEW r \in Conns, r.kind # "file",
         hconn' = [hconn EXCEPT ![c] = r], body' = body, WebTypeOK',
         \A d \in HConns \ {c} : Spares(d)
  PROVE  HttpInv'
<1>1. body' = [body EXCEPT ![c] = body[c]] /\ body[c] \in Seq(FileBytes)
  BY HttpFacts
<1>2. ~Own(r, shared'[c])
  BY DEF Own
<1>. QED BY <1>1, <1>2, OneConnection

\* conn_close and the refusals that close.
LEMMA CloseInv ==
  ASSUME HttpInv, NEW c \in HConns, ConnClose(c) \/ RefuseAndClose(c), body' = body
  PROVE  HttpInv'
<1>1. hconn' = [hconn EXCEPT ![c] = HFree] /\ HFree \in Conns /\ HFree.kind # "file"
  BY FreeConn DEF ConnClose, RefuseAndClose
<1>2. CASE UNCHANGED webFs
  BY <1>1, <1>2, WebStays, NoDownload
<1>3. CASE handle' = NoHandle /\ shared' = Sharing(c) /\ UNCHANGED wfiles
  <2>1. WebTypeOK' /\ \A d \in HConns \ {c} : Spares(d)
    BY <1>3, WebShared, FreeConn, HttpFacts DEF WebTypeOK
  <2>. QED BY <1>1, <2>1, NoDownload
<1>. QED BY <1>2, <1>3 DEF ConnClose, RefuseAndClose, webFs

\* A step that leaves a connection as far as it was with its download.
LEMMA SameConnection ==
  ASSUME HttpInv, NEW c \in HConns, NEW r \in Conns,
         hconn' = [hconn EXCEPT ![c] = r], body' = body, UNCHANGED webFs,
         /\ r.kind = hconn[c].kind /\ r.chunk = hconn[c].chunk /\ r.file = hconn[c].file
         /\ r.size = hconn[c].size /\ r.total = hconn[c].total /\ r.written = hconn[c].written
         /\ r.read = hconn[c].read
  PROVE  HttpInv'
<1>1. body' = [body EXCEPT ![c] = body[c]] /\ body[c] \in Seq(FileBytes)
  BY HttpFacts
<1>2. /\ WebTypeOK' /\ \A d \in HConns \ {c} : Spares(d)
      /\ handle' = handle /\ shared' = shared
  BY WebStays DEF webFs
<1>3. Own(r, shared'[c]) => Own(hconn[c], shared[c]) /\ Follows(r, body[c], handle')
  BY <1>2, HttpFacts DEF Own, Follows
<1>. QED BY <1>1, <1>2, <1>3, OneConnection

\* Taking a request off the buffer, and a second part of it, the body.
Taken(s) == [s EXCEPT !.rx = Tail(@), !.posted = FALSE]
TakenBody(s) == [Taken(s) EXCEPT !.rx = Tail(@)]

LEMMA TakenConn ==
  ASSUME NEW s \in Conns, s.rx # <<>>
  PROVE  /\ Taken(s) \in Conns /\ Taken(s).rx = Tail(s.rx)
         /\ Tail(s.rx) # <<>> => TakenBody(s) \in Conns
<1>1. s.rx \in Seq(HttpTokens)
  BY DEF Conns
<1>2. Tail(s.rx) \in Seq(HttpTokens)
  BY <1>1, HeadTailProperties
<1>3. Taken(s) \in Conns /\ Taken(s).rx = Tail(s.rx)
  BY <1>2 DEF Conns, Taken
<1>4. ASSUME Tail(s.rx) # <<>> PROVE TakenBody(s) \in Conns
  <2>1. Tail(Tail(s.rx)) \in Seq(HttpTokens)
    BY <1>2, <1>4, HeadTailProperties
  <2>. QED BY <1>3, <2>1 DEF Conns, TakenBody
<1>. QED BY <1>3, <1>4

\* rsp_begin on a connection.
LEMMA BegunConn ==
  ASSUME NEW s \in Conns, NEW kind \in {"mem", "file"}, NEW n \in Nat, NEW keep \in BOOLEAN
  PROVE  LET r == Begun(s, kind, n, keep)
         IN r \in Conns /\ r.kind = kind /\ r.total = n /\ r.written = 0
BY DEF Begun, Conns

\* An answer from memory.
LEMMA MemoryInv ==
  ASSUME HttpInv, NEW c \in HConns, NEW s \in Conns, NEW keep \in BOOLEAN,
         hconn' = [hconn EXCEPT ![c] = Begun(s, "mem", 1, keep)], body' = body, WebTypeOK',
         \A d \in HConns \ {c} : Spares(d)
  PROVE  HttpInv'
<1>. DEFINE r == Begun(s, "mem", 1, keep)
<1>1. r \in Conns /\ r.kind = "mem"
  BY BegunConn
<1>2. hconn' = [hconn EXCEPT ![c] = r]
  OBVIOUS
<1>. HIDE DEF r
<1>3. r.kind # "file"
  BY <1>1
<1>. QED BY <1>1, <1>2, <1>3, NoDownload

\* /api/history/download begins at the start of the file, or is refused.
LEMMA DownloadInv ==
  ASSUME HttpInv, NEW c \in HConns, NEW s \in Conns, NEW f, Download(c, f, s) PROVE HttpInv'
<1>0. wfiles' = wfiles /\ wfiles \subseteq WebFiles
  BY HttpFacts DEF Download
<1>1. CASE /\ f \in wfiles
           /\ handle' = [open |-> TRUE, file |-> f, pos |-> 0, gone |-> FALSE]
           /\ hconn' = [hconn EXCEPT ![c] =
                         [Begun(s, "file", 1 + WebSize[f], FALSE) EXCEPT !.file = f,
                            !.size = WebSize[f], !.read = 0, !.chunk = <<>>]]
           /\ body' = [body EXCEPT ![c] = <<>>]
           /\ shared' = [Sharing(c) EXCEPT ![c] = FALSE]
  <2>. DEFINE b == Begun(s, "file", 1 + WebSize[f], FALSE)
              r == [b EXCEPT !.file = f, !.size = WebSize[f], !.read = 0, !.chunk = <<>>]
  <2>1. WebSize[f] \in Nat /\ 1 + WebSize[f] \in Nat /\ <<>> \in Seq(FileBytes) /\ f \in WebFiles
    BY <1>0, <1>1, HttpdAssumption
  <2>2. b \in Conns /\ b.kind = "file" /\ b.total = 1 + WebSize[f] /\ b.written = 0
    BY <2>1, BegunConn
  <2>3. hconn' = [hconn EXCEPT ![c] = r] /\ body' = [body EXCEPT ![c] = <<>>]
    BY <1>1
  <2>. HIDE DEF b
  <2>4. /\ r \in Conns /\ r.kind = "file" /\ r.file = f /\ r.chunk = <<>> /\ r.read = 0
        /\ r.size = WebSize[f] /\ r.total = 1 + WebSize[f] /\ r.written = 0
    BY <2>1, <2>2 DEF Conns, Downloads
  <2>. HIDE DEF r
  <2>5. handle' \in Handles
    BY <1>1, <2>1 DEF Handles, Downloads
  <2>6. <<>> \o r.chunk = <<>> /\ Len(<<>>) = 0
    BY <2>4
  <2>7. Follows(r, <<>>, handle')
    BY <1>1, <2>1, <2>4, <2>6 DEF Follows
  <2>8. /\ shared' \in [HConns -> BOOLEAN]
        /\ \A d \in HConns \ {c} : Spares(d) /\ ~Own(hconn[d], shared'[d])
    BY <1>1, WebOpened
  <2>9. WebTypeOK'
    BY <1>0, <2>5, <2>8 DEF WebTypeOK
  <2>. QED BY <2>1, <2>3, <2>4, <2>7, <2>8, <2>9, OneConnection
<1>2. CASE /\ handle' = NoHandle /\ hconn' = [hconn EXCEPT ![c] = Begun(s, "mem", 1, TRUE)]
           /\ shared' = Sharing(c) /\ UNCHANGED body
  <2>1. WebTypeOK' /\ \A d \in HConns \ {c} : Spares(d)
    BY <1>0, <1>2, WebShared, FreeConn DEF WebTypeOK
  <2>. QED BY <1>2, <2>1, MemoryInv
<1>. QED BY <1>1, <1>2 DEF Download

\* http_process_rx
LEMMA ProcessInv == ASSUME HttpInv, NEW c \in HConns, ProcessRx(c) PROVE HttpInv'
<1>. DEFINE s == hconn[c]
<1>1. /\ hconn \in [HConns -> Conns] /\ s \in Conns /\ s.kind = "none" /\ s.rx \in Seq(HttpTokens)
  BY HttpFacts DEF ProcessRx, Conns
<1>2. CASE UNCHANGED <<hconn, webFs, body>>
  BY <1>2 DEF HttpInv, HttpTypeOK, webFs
<1>3. ASSUME s.rx # <<>>, ~UNCHANGED <<hconn, webFs, body>> PROVE HttpInv'
  <2>1. Taken(s) \in Conns /\ (Tail(s.rx) # <<>> => TakenBody(s) \in Conns)
    BY <1>1, <1>3, TakenConn
  <2>2. ASSUME UNCHANGED webFs PROVE WebTypeOK' /\ \A d \in HConns \ {c} : Spares(d)
    BY <2>2, WebStays
  <2>3. CASE (RefuseAndClose(c) \/ ConnClose(c)) /\ UNCHANGED body
    BY <2>3, CloseInv
  <2>4. CASE hconn' = [hconn EXCEPT ![c].posted = TRUE] /\ UNCHANGED <<webFs, body>>
    <3>. DEFINE r == [s EXCEPT !.posted = TRUE]
    <3>1. hconn' = [hconn EXCEPT ![c] = r]
      BY <1>1, <2>4
    <3>2. r \in Conns /\ r.kind = "none"
      BY <1>1 DEF Conns
    <3>. HIDE DEF r
    <3>3. r.kind # "file"
      BY <3>2
    <3>. QED BY <2>2, <2>4, <3>1, <3>2, <3>3, NoDownload
  <2>5. CASE /\ Len(s.rx) # 1 /\ hconn' = [hconn EXCEPT ![c] = Begun(TakenBody(s), "mem", 1, TRUE)]
             /\ UNCHANGED webFs \/ \E f \in wfiles : WebRemove(f)
             /\ UNCHANGED body
    <3>1. Tail(s.rx) # <<>>
      <4>1. Len(s.rx) \in Nat /\ Len(s.rx) # 0
        BY <1>1, <1>3, EmptySeq, LenProperties
      <4>2. Len(Tail(s.rx)) = Len(s.rx) - 1 /\ Tail(s.rx) \in Seq(HttpTokens)
        BY <1>1, <1>3, HeadTailProperties
      <4>3. Len(Tail(s.rx)) # 0
        BY <2>5, <4>1, <4>2
      <4>. QED BY <4>2, <4>3, EmptySeq
    <3>2. TakenBody(s) \in Conns
      BY <2>1, <3>1
    <3>3. WebTypeOK' /\ \A d \in HConns \ {c} : Spares(d)
      BY <2>2, <2>5, WebRemoved
    <3>. QED BY <2>5, <3>2, <3>3, MemoryInv
  <2>6. ASSUME NEW keep \in BOOLEAN, hconn' = [hconn EXCEPT ![c] = Begun(Taken(s), "mem", 1, keep)],
               UNCHANGED <<webFs, body>>
        PROVE  HttpInv'
    BY <2>1, <2>2, <2>6, MemoryInv
  <2>7. CASE Download(c, Head(s.rx), Taken(s))
    BY <2>1, <2>7, DownloadInv
  <2>8. CASE /\ hconn' = [hconn EXCEPT ![c] = [Taken(s) EXCEPT !.kind = "ws", !.rx = <<>>]]
             /\ UNCHANGED <<webFs, body>>
    <3>. DEFINE q == Taken(s)
                r == [q EXCEPT !.kind = "ws", !.rx = <<>>]
    <3>1. hconn' = [hconn EXCEPT ![c] = r]
      BY <2>8
    <3>2. q \in Conns /\ <<>> \in Seq(HttpTokens)
      BY <2>1
    <3>. HIDE DEF q
    <3>3. r \in Conns /\ r.kind = "ws"
      BY <3>2 DEF Conns
    <3>. HIDE DEF r
    <3>4. r.kind # "file"
      BY <3>3
    <3>. QED BY <2>2, <2>8, <3>1, <3>3, <3>4, NoDownload
  <2>9. /\ (Head(s.rx) = "page") \in BOOLEAN
        /\ \/ (RefuseAndClose(c) \/ ConnClose(c)) /\ UNCHANGED body
           \/ hconn' = [hconn EXCEPT ![c].posted = TRUE] /\ UNCHANGED <<webFs, body>>
           \/ /\ Len(s.rx) # 1
              /\ hconn' = [hconn EXCEPT ![c] = Begun(TakenBody(s), "mem", 1, TRUE)]
              /\ UNCHANGED webFs \/ \E f \in wfiles : WebRemove(f)
              /\ UNCHANGED body
           \/ /\ hconn' = [hconn EXCEPT ![c] = Begun(Taken(s), "mem", 1, Head(s.rx) = "page")]
              /\ UNCHANGED <<webFs, body>>
           \/ Download(c, Head(s.rx), Taken(s))
           \/ /\ hconn' = [hconn EXCEPT ![c] = Begun(Taken(s), "mem", 1, TRUE)]
              /\ UNCHANGED <<webFs, body>>
           \/ /\ hconn' = [hconn EXCEPT ![c] = [Taken(s) EXCEPT !.kind = "ws", !.rx = <<>>]]
              /\ UNCHANGED <<webFs, body>>
    BY <1>3, Zenon DEF ProcessRx, Taken, TakenBody
  <2>. QED BY <2>3, <2>4, <2>5, <2>6, <2>7, <2>8, <2>9
<1>. QED BY <1>2, <1>3 DEF ProcessRx

\* A file byte read follows the bytes before it.
LEMMA NextByte ==
  ASSUME NEW b \in Seq(FileBytes), NEW f \in Downloads, NEW n \in Nat, Len(b) = n,
         \A i \in 1 .. n : b[i] = <<f, i>>
  PROVE  /\ Len(b \o <<(<<f, n + 1>>)>>) = n + 1
         /\ \A i \in 1 .. n + 1 : (b \o <<(<<f, n + 1>>)>>)[i] = <<f, i>>
<1>. DEFINE x == <<f, n + 1>>
            a == b \o <<x>>
<1>1. x \in FileBytes /\ <<x>> \in Seq(FileBytes) /\ Len(<<x>>) = 1 /\ <<x>>[1] = x
  BY DEF FileBytes
<1>. HIDE DEF x
<1>2. /\ Len(a) = n + 1
      /\ \A i \in 1 .. n + 1 : a[i] = IF i <= n THEN b[i] ELSE <<x>>[i - n]
  BY <1>1, ConcatProperties
<1>. HIDE DEF a
<1>3. \A i \in 1 .. n + 1 : a[i] = <<f, i>>
  <2>. SUFFICES ASSUME NEW i \in 1 .. n + 1 PROVE a[i] = <<f, i>>
    OBVIOUS
  <2>1. CASE i <= n
    BY <1>2, <2>1
  <2>2. CASE i = n + 1
    <3>1. i - n = 1 /\ ~(i <= n)
      BY <2>2
    <3>2. a[i] = x
      BY <1>1, <1>2, <3>1
    <3>. QED BY <2>2, <3>2 DEF x
  <2>. QED BY <2>1, <2>2
<1>. QED BY <1>2, <1>3 DEF a, x

\* conn_pump reads on in the file.
LEMMA ReadInv == ASSUME HttpInv, NEW c \in HConns, Reads(c) PROVE HttpInv'
<1>. DEFINE s == hconn[c]
<1>1. /\ hconn \in [HConns -> Conns] /\ s \in Conns /\ s.kind = "file" /\ s.chunk = <<>>
      /\ s.written # 0 /\ s.read < s.size
      /\ body \in [HConns -> Seq(FileBytes)] /\ body' = body /\ handle \in Handles
      /\ ~shared[c] => Follows(s, body[c], handle)
  BY HttpFacts DEF Reads, Own, Conns
<1>2. /\ s.read \in Nat /\ s.size \in Nat /\ s.file \in Downloads /\ handle.pos \in Nat
      /\ handle.file \in Downloads /\ body[c] \in Seq(FileBytes)
      /\ body' = [body EXCEPT ![c] = body[c]]
  BY <1>1 DEF Conns, Handles
<1>3. ASSUME NEW f \in {handle.file} \cup (IF handle.gone THEN {"nofile"} ELSE {}),
             handle.open, handle.pos < WebSize[handle.file],
             hconn' = [hconn EXCEPT ![c].chunk = <<(<<f, handle.pos + 1>>)>>, ![c].read = @ + 1],
             handle' = [handle EXCEPT !.pos = @ + 1], shared' = Sharing(c), wfiles' = wfiles
      PROVE  HttpInv'
  <2>. DEFINE q == <<(<<f, handle.pos + 1>>)>>
              r == [s EXCEPT !.chunk = q, !.read = @ + 1]
  <2>1. q \in Seq(FileBytes) /\ Len(q) = 1 /\ s.read + 1 \in Nat
    <3>1. f \in Downloads
      BY <1>2, <1>3 DEF Downloads
    <3>. QED BY <1>2, <3>1 DEF FileBytes
  <2>2. /\ handle' \in Handles /\ handle'.open = handle.open /\ handle'.file = handle.file
        /\ handle'.pos = handle.pos + 1 /\ handle'.gone = handle.gone
    <3>1. handle \in [open : BOOLEAN, file : Downloads, pos : Nat, gone : BOOLEAN]
      BY <1>1 DEF Handles
    <3>2. handle.pos + 1 \in Nat /\ (handle.open => handle.file \in WebFiles)
      BY <1>1, <1>2 DEF Handles
    <3>3. /\ handle' \in [open : BOOLEAN, file : Downloads, pos : Nat, gone : BOOLEAN]
          /\ handle'.open = handle.open /\ handle'.file = handle.file
          /\ handle'.pos = handle.pos + 1 /\ handle'.gone = handle.gone
      BY <1>3, <3>1, <3>2
    <3>. QED BY <3>2, <3>3 DEF Handles
  <2>3. /\ shared' \in [HConns -> BOOLEAN] /\ shared'[c] = shared[c]
        /\ \A d \in HConns \ {c} : Spares(d) /\ ~Own(hconn[d], shared'[d])
    BY <1>3, WebShared
  <2>4. WebTypeOK'
    BY <1>3, <2>2, <2>3, HttpFacts DEF WebTypeOK
  <2>5. ASSUME ~shared[c]
        PROVE  /\ f = s.file /\ s.file = handle.file /\ s.read = handle.pos
               /\ Len(body[c] \o q) = handle.pos + 1
               /\ \A i \in 1 .. handle.pos + 1 : (body[c] \o q)[i] = <<s.file, i>>
    <3>1. Follows(s, body[c], handle)
      BY <1>1, <2>5
    <3>2. f = handle.file /\ handle.file = s.file /\ s.read = handle.pos
      BY <1>3, <3>1 DEF Follows
    <3>3. body[c] \o s.chunk = body[c]
      BY <1>1, <1>2
    <3>4. Len(body[c]) = handle.pos /\ \A i \in 1 .. handle.pos : body[c][i] = <<s.file, i>>
      BY <3>1, <3>3 DEF Follows
    <3>5. ASSUME NEW g, NEW n, g = s.file, n = handle.pos
          PROVE  /\ Len(body[c] \o <<(<<g, n + 1>>)>>) = n + 1
                 /\ \A i \in 1 .. n + 1 : (body[c] \o <<(<<g, n + 1>>)>>)[i] = <<g, i>>
      <4>. DEFINE b == body[c]
      <4>1. /\ b \in Seq(FileBytes) /\ g \in Downloads /\ n \in Nat /\ Len(b) = n
            /\ \A i \in 1 .. n : b[i] = <<g, i>>
        BY <1>2, <3>4, <3>5
      <4>. HIDE DEF b
      <4>2. /\ Len(b \o <<(<<g, n + 1>>)>>) = n + 1
            /\ \A i \in 1 .. n + 1 : (b \o <<(<<g, n + 1>>)>>)[i] = <<g, i>>
        BY <4>1, NextByte, Zenon
      <4>. QED BY <4>2, Zenon DEF b
    <3>6. f = s.file
      BY <3>2
    <3>. QED BY <3>2, <3>5, <3>6
  <2>. HIDE DEF q
  <2>6. hconn' = [hconn EXCEPT ![c] = r]
    BY <1>1, <1>3 DEF q
  <2>7. /\ r \in Conns /\ r.kind = "file" /\ r.file = s.file /\ r.chunk = q /\ r.read = s.read + 1
        /\ r.size = s.size /\ r.total = s.total /\ r.written = s.written
    BY <1>1, <2>1 DEF Conns
  <2>. HIDE DEF r
  <2>8. ASSUME ~shared[c] PROVE Follows(r, body[c], handle')
    <3>0. Follows(s, body[c], handle)
      BY <1>1, <2>8
    <3>1. handle.pos + 1 <= WebSize[s.file]
      <4>1. handle.file \in WebFiles /\ handle.file = s.file
        BY <1>1, <1>3, <3>0 DEF Handles, Follows
      <4>2. WebSize[s.file] \in Nat
        BY <4>1, HttpdAssumption
      <4>. QED BY <1>2, <1>3, <4>1, <4>2
    <3>2. r.chunk = q /\ Len(q) = 1
      BY <2>1, <2>7
    <3>3. Len(body[c]) = s.written - 1 /\ s.size = WebSize[s.file] /\ s.total = 1 + s.size
          /\ handle.open /\ ~handle.gone
      BY <1>1, <3>0 DEF Follows
    <3>4. r.written # 0
      BY <1>1, <2>7
    <3>. HIDE DEF s
    <3>. QED BY <2>2, <2>5, <2>7, <2>8, <3>1, <3>2, <3>3, <3>4 DEF Follows
  <2>9. Own(r, shared'[c]) => Follows(r, body[c], handle') /\ Own(s, shared[c])
    BY <1>1, <2>3, <2>8 DEF Own
  <2>. QED BY <1>2, <2>3, <2>4, <2>6, <2>7, <2>9, OneConnection
<1>4. CASE /\ handle.open /\ handle.pos >= WebSize[handle.file]
           /\ hconn' = [hconn EXCEPT ![c].size = s.read, ![c].total = 1 + s.read]
           /\ UNCHANGED webFs
  <2>. DEFINE r == [s EXCEPT !.size = s.read, !.total = 1 + s.read]
  <2>1. hconn' = [hconn EXCEPT ![c] = r]
    BY <1>1, <1>4
  <2>2. r \in Conns
    <3>1. s \in Conns /\ s.read \in Nat /\ 1 + s.read \in Nat
      BY <1>1, <1>2
    <3>. HIDE DEF s
    <3>. QED BY <3>1 DEF Conns
  \* With the handle to itself the download does not end early.
  <2>3. shared[c]
    <3>. SUFFICES ASSUME ~shared[c] PROVE FALSE
      OBVIOUS
    <3>1. s.read = handle.pos /\ s.size = WebSize[handle.file]
      BY <1>1 DEF Follows
    <3>. QED BY <1>1, <1>2, <1>4, <3>1
  <2>4. WebTypeOK' /\ (\A d \in HConns \ {c} : Spares(d)) /\ shared' = shared
    BY <1>4, WebStays DEF webFs
  <2>5. ~Own(r, shared'[c])
    BY <2>3, <2>4 DEF Own
  <2>. HIDE DEF r
  <2>. QED BY <1>2, <2>1, <2>2, <2>4, <2>5, OneConnection
<1>5. CASE ConnClose(c)
  BY <1>1, <1>5, CloseInv
<1>. QED BY <1>3, <1>4, <1>5 DEF Reads

\* conn_pump hands a unit to TCP, waits for memory, or gives up.
LEMMA WriteInv == ASSUME HttpInv, NEW c \in HConns, PumpWrites(c) PROVE HttpInv'
<1>. DEFINE s == hconn[c]
<1>1. /\ hconn \in [HConns -> Conns] /\ s \in Conns
      /\ body \in [HConns -> Seq(FileBytes)]
      /\ Own(s, shared[c]) => Follows(s, body[c], handle)
  BY HttpFacts
<1>2. CASE /\ hconn' = [hconn EXCEPT ![c].written = @ + 1, ![c].chunk = <<>>]
           /\ body' = [body EXCEPT ![c] = @ \o s.chunk] /\ UNCHANGED webFs
  <2>. DEFINE r == [s EXCEPT !.written = @ + 1, !.chunk = <<>>]
              b == body[c] \o s.chunk
  <2>1. /\ b \in Seq(FileBytes) /\ s.written \in Nat /\ s.written + 1 \in Nat
        /\ <<>> \in Seq(FileBytes) /\ s.chunk \in Seq(FileBytes) /\ body[c] \in Seq(FileBytes)
    BY <1>1, ConcatProperties DEF Conns
  <2>2. hconn' = [hconn EXCEPT ![c] = r] /\ body' = [body EXCEPT ![c] = b]
    BY <1>1, <1>2
  <2>3. /\ r \in Conns /\ r.kind = s.kind /\ r.file = s.file /\ r.chunk = <<>>
        /\ r.size = s.size /\ r.total = s.total /\ r.written = s.written + 1 /\ r.read = s.read
    BY <1>1, <2>1 DEF Conns
  <2>. HIDE DEF r
  <2>4. b \o r.chunk = b /\ Len(r.chunk) = 0
    BY <2>1, <2>3
  <2>5. ASSUME Follows(s, body[c], handle), s.kind = "file" PROVE Len(b) = s.written
    <3>1. CASE s.written = 0
      <4>1. body[c] = <<>> /\ s.chunk = <<>>
        BY <2>5, <3>1 DEF Follows
      <4>2. b = <<>>
        BY <4>1
      <4>. QED BY <3>1, <4>2
    <3>2. CASE s.written # 0
      <4>1. s.chunk # <<>>
        BY <2>5, <3>2 DEF PumpWrites, MayWrite
      <4>2. Len(s.chunk) \in Nat /\ Len(s.chunk) # 0 /\ Len(body[c]) \in Nat
        BY <2>1, <4>1, EmptySeq, LenProperties
      <4>3. Len(s.chunk) <= 1 /\ Len(body[c]) = s.written - 1
        BY <2>5, <3>2 DEF Follows
      <4>4. Len(b) = Len(body[c]) + Len(s.chunk)
        BY <2>1, ConcatProperties
      <4>. QED BY <2>1, <4>2, <4>3, <4>4
    <3>. QED BY <3>1, <3>2
  <2>6. WebTypeOK' /\ (\A d \in HConns \ {c} : Spares(d)) /\ shared' = shared /\ handle' = handle
    BY <1>2, WebStays DEF webFs
  <2>7. Own(r, shared'[c]) => Follows(r, b, handle') /\ Own(s, shared[c])
    <3>. SUFFICES ASSUME Own(r, shared'[c]) PROVE Follows(r, b, handle') /\ Own(s, shared[c])
      OBVIOUS
    <3>1. Own(s, shared[c]) /\ Follows(s, body[c], handle) /\ s.kind = "file"
      BY <1>1, <2>3, <2>6 DEF Own
    <3>2. Len(b) = s.written /\ r.written # 0 /\ r.written - 1 = s.written
      <4>1. Len(b) = s.written /\ s.written \in Nat
        BY <1>1, <2>5, <3>1 DEF Conns
      <4>2. r.written = s.written + 1
        BY <2>3
      <4>. HIDE DEF b, s, r
      <4>. QED BY <4>1, <4>2
    <3>3. Len(b) = handle.pos /\ \A i \in 1 .. handle.pos : b[i] = <<s.file, i>>
      BY <3>1 DEF Follows
    <3>. HIDE DEF b, s
    <3>4. Follows(r, b, handle)
      BY <2>3, <2>4, <3>1, <3>2, <3>3 DEF Follows
    <3>. QED BY <2>6, <3>1, <3>4
  <2>. HIDE DEF b
  <2>. QED BY <2>1, <2>2, <2>3, <2>6, <2>7, OneConnection
<1>3. CASE UNCHANGED <<hconn, webFs, body>>
  BY <1>3 DEF HttpInv, HttpTypeOK, webFs
<1>4. CASE ConnClose(c) /\ UNCHANGED body
  BY <1>4, CloseInv
<1>. QED BY <1>2, <1>3, <1>4 DEF PumpWrites

\* The end of conn_pump.
LEMMA PumpEndInv == ASSUME HttpInv, NEW c \in HConns, PumpEnds(c) PROVE HttpInv'
<1>. DEFINE s == hconn[c]
<1>1. hconn \in [HConns -> Conns] /\ s \in Conns
  BY HttpFacts
<1>2. CASE hconn' = [hconn EXCEPT ![c].kind = "none"] /\ UNCHANGED <<webFs, body>>
  <2>. DEFINE r == [s EXCEPT !.kind = "none"]
  <2>1. hconn' = [hconn EXCEPT ![c] = r]
    BY <1>1, <1>2
  <2>2. r \in Conns /\ r.kind = "none"
    BY <1>1 DEF Conns
  <2>. HIDE DEF r
  <2>3. r.kind # "file" /\ WebTypeOK' /\ \A d \in HConns \ {c} : Spares(d)
    BY <1>2, <2>2, WebStays
  <2>. QED BY <1>2, <2>1, <2>2, <2>3, NoDownload
<1>3. CASE UNCHANGED <<hconn, webFs, body>>
  BY <1>3 DEF HttpInv, HttpTypeOK, webFs
<1>4. CASE ConnClose(c) /\ UNCHANGED body
  BY <1>4, CloseInv
<1>. QED BY <1>2, <1>3, <1>4 DEF PumpEnds

\* The accept callback gives the first free slot to the new connection.
LEMMA AcceptInv == ASSUME HttpInv, HttpAccept PROVE HttpInv'
<1>. DEFINE free == {c \in HConns : ~hconn[c].up}
            r == [HFree EXCEPT !.up = TRUE]
<1>1. CASE free = {}
  BY <1>1 DEF HttpAccept, HttpInv, HttpTypeOK, webFs
<1>2. CASE free # {}
  <2>1. PICK c \in free : \A d \in free : c <= d
    BY <1>2, LeastNatural, HttpdAssumption
  <2>2. Min(free) \in free
    BY <2>1 DEF Min
  <2>3. /\ hconn' = [hconn EXCEPT ![Min(free)] = r] /\ Min(free) \in HConns
        /\ UNCHANGED webFs /\ body' = body
    BY <1>2, <2>2 DEF HttpAccept
  <2>4. r \in Conns /\ r.kind # "file"
    BY FreeConn
  <2>5. WebTypeOK' /\ \A d \in HConns \ {Min(free)} : Spares(d)
    BY <2>3, WebStays
  <2>. HIDE DEF free, r
  <2>. QED BY <2>3, <2>4, <2>5, NoDownload
<1>. QED BY <1>1, <1>2

\* http_recv_cb: the request is appended, or the buffer is full.
LEMMA RecvInv ==
  ASSUME HttpInv, NEW c \in HConns, NEW t \in HttpTokens, HttpRecv(c, t) PROVE HttpInv'
<1>. DEFINE s == hconn[c]
<1>1. /\ hconn \in [HConns -> Conns] /\ s \in Conns /\ s.rx \in Seq(HttpTokens)
  BY HttpFacts DEF Conns
<1>2. CASE /\ hconn' = [hconn EXCEPT ![c].rx = Append(@, t), ![c].staleRx = FALSE]
           /\ UNCHANGED <<webFs, body>>
  <2>. DEFINE q == Append(s.rx, t)
              r == [s EXCEPT !.rx = q, !.staleRx = FALSE]
  <2>1. q \in Seq(HttpTokens)
    BY <1>1, AppendProperties
  <2>. HIDE DEF q
  <2>2. hconn' = [hconn EXCEPT ![c] = r]
    BY <1>1, <1>2 DEF q
  <2>3. /\ r \in Conns /\ r.kind = s.kind /\ r.file = s.file /\ r.chunk = s.chunk
        /\ r.size = s.size /\ r.total = s.total /\ r.written = s.written /\ r.read = s.read
    BY <1>1, <2>1 DEF Conns
  <2>. HIDE DEF r
  <2>. QED BY <1>2, <2>2, <2>3, SameConnection
<1>3. CASE RefuseAndClose(c) /\ UNCHANGED body
  BY <1>3, CloseInv
<1>. QED BY <1>2, <1>3 DEF HttpRecv

\* Acknowledgements and the passing of time do not touch a download.
LEMMA TimeInv ==
  ASSUME HttpInv, NEW c \in HConns, HttpSent(c) \/ HttpTimeout(c) PROVE HttpInv'
<1>. DEFINE s == hconn[c]
            r1 == [s EXCEPT !.acked = @ + 1, !.staleAck = FALSE]
            r2 == [s EXCEPT !.staleAck = TRUE]
            r3 == [s EXCEPT !.staleRx = TRUE]
<1>1. hconn \in [HConns -> Conns] /\ s \in Conns
  BY HttpFacts
<1>2. /\ UNCHANGED <<webFs, body>>
      /\ \E r \in {r1, r2, r3} : hconn' = [hconn EXCEPT ![c] = r]
  BY <1>1 DEF HttpSent, HttpTimeout
<1>3. ASSUME NEW r \in {r1, r2, r3}
      PROVE  /\ r \in Conns /\ r.kind = s.kind /\ r.file = s.file /\ r.chunk = s.chunk
             /\ r.size = s.size /\ r.total = s.total /\ r.written = s.written /\ r.read = s.read
  <2>1. s \in Conns /\ s.acked + 1 \in Nat
    BY <1>1 DEF Conns
  <2>. HIDE DEF s
  <2>2. /\ r1 \in Conns /\ r1.kind = s.kind /\ r1.file = s.file /\ r1.chunk = s.chunk
        /\ r1.size = s.size /\ r1.total = s.total /\ r1.written = s.written /\ r1.read = s.read
    BY <2>1 DEF Conns
  <2>3. /\ r2 \in Conns /\ r2.kind = s.kind /\ r2.file = s.file /\ r2.chunk = s.chunk
        /\ r2.size = s.size /\ r2.total = s.total /\ r2.written = s.written /\ r2.read = s.read
    BY <2>1 DEF Conns
  <2>4. /\ r3 \in Conns /\ r3.kind = s.kind /\ r3.file = s.file /\ r3.chunk = s.chunk
        /\ r3.size = s.size /\ r3.total = s.total /\ r3.written = s.written /\ r3.read = s.read
    BY <2>1 DEF Conns
  <2>. HIDE DEF r1, r2, r3
  <2>. QED BY <2>2, <2>3, <2>4
<1>. HIDE DEF r1, r2, r3
<1>4. PICK r \in {r1, r2, r3} : hconn' = [hconn EXCEPT ![c] = r]
  BY <1>2
<1>5. /\ r \in Conns /\ r.kind = s.kind /\ r.file = s.file /\ r.chunk = s.chunk
      /\ r.size = s.size /\ r.total = s.total /\ r.written = s.written /\ r.read = s.read
  BY <1>3
<1>. QED BY <1>2, <1>4, <1>5, SameConnection

\* A removal by another task.
LEMMA RemovedInv == ASSUME HttpInv, FileRemoved PROVE HttpInv'
<1>1. UNCHANGED <<hconn, body>> /\ WebTypeOK' /\ \A d \in HConns : Spares(d)
  BY WebRemoved DEF FileRemoved
<1>2. HttpTypeOK'
  BY <1>1, HttpFacts DEF HttpTypeOK, WebTypeOK
<1>3. \A d \in HConns : Own(hconn'[d], shared'[d]) => Own(hconn[d], shared[d])
  BY <1>1 DEF Own, Spares
<1>4. /\ \A e \in HConns : \A d \in HConns \ {e} :
           Own(hconn[e], shared[e]) => ~Own(hconn[d], shared[d])
      /\ \A e \in HConns : Own(hconn[e], shared[e]) => Follows(hconn[e], body[e], handle)
  BY Zenon DEF HttpInv
<1>5. \A d \in HConns : Own(hconn'[d], shared'[d]) => Follows(hconn'[d], body'[d], handle')
  BY <1>1, <1>3, <1>4 DEF Spares
<1>6. \A e \in HConns : \A d \in HConns \ {e} :
        Own(hconn'[e], shared'[e]) => ~Own(hconn'[d], shared'[d])
  BY <1>3, <1>4
<1>. QED BY <1>2, <1>5, <1>6 DEF HttpInv

\* Every step of every service preserves the invariant of the downloads.
LEMMA HttpStep == HttpInv /\ [ServicesNext]_servicesVars => HttpInv'
<1>. SUFFICES ASSUME HttpInv, [ServicesNext]_servicesVars PROVE HttpInv'
  OBVIOUS
<1>1. CASE UNCHANGED httpVars
  BY <1>1 DEF httpVars, HttpInv, HttpTypeOK, webFs
<1>2. CASE HttpNext
  <2>1. ASSUME NEW c \in HConns, ProcessRx(c) \/ Reads(c) \/ PumpWrites(c) \/ PumpEnds(c)
        PROVE  HttpInv'
    BY <2>1, ProcessInv, ReadInv, WriteInv, PumpEndInv
  <2>2. ASSUME NEW c \in HConns, HttpPoll(c) \/ HttpGone(c) PROVE HttpInv'
    BY <2>2, CloseInv DEF HttpPoll, HttpGone
  <2>3. ASSUME NEW c \in HConns, HttpTimeout(c) \/ HttpSent(c) PROVE HttpInv'
    BY <2>3, TimeInv
  <2>4. ASSUME NEW c \in HConns, NEW t \in HttpTokens, HttpRecv(c, t) PROVE HttpInv'
    BY <2>4, RecvInv
  <2>. QED BY <1>2, <2>1, <2>2, <2>3, <2>4, AcceptInv, RemovedInv
           DEF HttpNext, HttpWork, HttpTimers, HttpTokens
<1>. QED BY <1>1, <1>2 DEF ServicesNext, servicesVars

\* The server starts without connections.
LEMMA HttpStart == ServicesInit => HttpInv
<1>. SUFFICES ASSUME HttpInit PROVE HttpInv
  BY DEF ServicesInit
<1>1. /\ hconn = [c \in HConns |-> HFree] /\ handle = NoHandle /\ wfiles = WebFiles
      /\ body = [c \in HConns |-> <<>>] /\ <<>> \in Seq(FileBytes)
      /\ shared = [c \in HConns |-> FALSE]
  BY DEF HttpInit
<1>2. HttpTypeOK
  BY <1>1, FreeConn DEF HttpTypeOK
<1>3. \A c \in HConns : hconn[c].kind # "file"
  BY <1>1, FreeConn
<1>. QED BY <1>2, <1>3 DEF HttpInv, Own

\* For every number of connections and files, every window and buffer, and downloads
\* asked for at any time: what a download that had the handle and its file to itself
\* has handed to TCP is the beginning of the file, and all of it when it is done.
THEOREM DownloadIsFile == ServicesSpec => []DownloadIntact
<1>1. HttpInv => DownloadIntact
  <2>. SUFFICES ASSUME HttpInv, NEW c \in HConns, hconn[c].kind = "file", ~shared[c]
                PROVE  /\ IsPrefix(body[c], Bytes(hconn[c].file))
                       /\ Done(hconn[c]) => body[c] = Bytes(hconn[c].file)
    BY DEF DownloadIntact
  <2>. DEFINE b == body[c]
              q == hconn[c].chunk
              f == hconn[c].file
              w == WebSize[f]
  <2>1. /\ b \in Seq(FileBytes) /\ q \in Seq(FileBytes) /\ Follows(hconn[c], b, handle)
        /\ handle \in Handles
    BY HttpFacts DEF Conns, Own
  <2>2. /\ f \in WebFiles /\ w \in Nat /\ Len(b \o q) <= w
        /\ \A i \in 1 .. Len(b \o q) : (b \o q)[i] = <<f, i>>
    BY <2>1, HttpdAssumption DEF Handles, Follows
  <2>a. ASSUME Done(hconn[c]) PROVE Len(b) >= w
    <3>1. /\ hconn[c].total = 1 + w /\ hconn[c].written >= hconn[c].total
          /\ hconn[c].written \in Nat
      BY <2>1, <2>a, HttpFacts DEF Follows, Done, Conns
    <3>2. hconn[c].written # 0
      BY <2>2, <3>1
    <3>3. Len(b) = hconn[c].written - 1
      BY <2>1, <3>2 DEF Follows
    <3>. QED BY <2>2, <3>1, <3>3
  <2>. HIDE DEF b, q, f
  <2>3. /\ Len(b) \in Nat /\ Len(b \o q) = Len(b) + Len(q) /\ Len(q) \in Nat
        /\ \A i \in 1 .. Len(b) : (b \o q)[i] = b[i]
    BY <2>1, ConcatProperties, LenProperties
  <2>4. Len(b) <= w /\ \A i \in 1 .. Len(b) : b[i] = <<f, i>>
    BY <2>2, <2>3
  <2>5. Bytes(f) \in Seq(FileBytes) /\ Len(Bytes(f)) = w /\ \A i \in 1 .. w : Bytes(f)[i] = <<f, i>>
    <3>1. \A i \in 1 .. w : <<f, i>> \in FileBytes
      BY <2>2 DEF FileBytes, Downloads
    <3>. HIDE DEF w
    <3>2. Bytes(f) = [i \in 1 .. w |-> <<f, i>>]
      BY DEF Bytes, w
    <3>. QED BY <2>2, <3>1, <3>2, IsASeq
  <2>6. Len(b) \in 0 .. Len(b) /\ Len(b) \in 0 .. Len(Bytes(f))
    BY <2>2, <2>3, <2>4, <2>5
  <2>7. /\ SubSeq(b, 1, Len(b)) \in Seq(FileBytes) /\ SubSeq(Bytes(f), 1, Len(b)) \in Seq(FileBytes)
        /\ Len(SubSeq(b, 1, Len(b))) = Len(b) /\ Len(SubSeq(Bytes(f), 1, Len(b))) = Len(b)
        /\ \A i \in 1 .. Len(b) : /\ SubSeq(b, 1, Len(b))[i] = b[i]
                                  /\ SubSeq(Bytes(f), 1, Len(b))[i] = Bytes(f)[i]
    BY <2>1, <2>5, <2>6, PrefixProperties
  <2>8. ASSUME NEW i \in 1 .. Len(b) PROVE b[i] = Bytes(f)[i]
    <3>1. i \in 1 .. w
      BY <2>2, <2>3, <2>4
    <3>. QED BY <2>4, <2>5, <3>1, Zenon
  <2>9. SubSeq(b, 1, Len(b)) = SubSeq(Bytes(f), 1, Len(b))
    BY <2>7, <2>8, SeqEqual
  <2>10. ASSUME Done(hconn[c]) PROVE b = Bytes(f)
    <3>1. Len(b) = w
      BY <2>2, <2>3, <2>4, <2>a, <2>10
    <3>. QED BY <2>1, <2>5, <2>8, <3>1, SeqEqual
  <2>. QED BY <2>4, <2>5, <2>9, <2>10 DEF IsPrefix, b, f
<1>. QED BY <1>1, HttpStart, HttpStep, PTL DEF ServicesSpec

-----------------------------------------------------------------------------
(* The recording, under a clock that does not go back.  s is the record of *)
(* the file variables, b a sample that is yet to be written.               *)

\* Samples on disk, file after file, and those not yet synced are in order.
InOrder(files, cache) ==
  /\ \A m, n \in DOMAIN files : \A i \in DOMAIN files[m], j \in DOMAIN files[n] :
       m < n \/ (m = n /\ i < j) => files[m][i] < files[n][j]
  /\ \A i, j \in DOMAIN cache : i < j => cache[i] < cache[j]
  /\ \A m \in DOMAIN files : \A i \in DOMAIN files[m], j \in DOMAIN cache : files[m][i] < cache[j]

AllBelow(files, cache, b) ==
  /\ \A m \in DOMAIN files : \A i \in DOMAIN files[m] : files[m][i] < b
  /\ \A i \in DOMAIN cache : cache[i] < b

Fun(f) == f = [x \in DOMAIN f |-> f[x]]

\* The fields of the record.
Shaped(s) ==
  s = [files |-> s.files, open |-> s.open, name |-> s.name, size |-> s.size,
       cache |-> s.cache, erred |-> s.erred, removed |-> s.removed]

\* The file in use, or to be taken up again, is the newest one, and the open file is
\* there unless a user removed it.  Names are times up to t.
FsOK(s, t) ==
  /\ Shaped(s)
  /\ Fun(s.files) /\ DOMAIN s.files \subseteq 1 .. t
  /\ \A n \in DOMAIN s.files : s.files[n] \in Seq(Nat)
  /\ s.cache \in Seq(Nat) /\ s.size \in Nat /\ s.name \in 0 .. t
  /\ {s.open, s.erred, s.removed} \subseteq BOOLEAN
  /\ s.open => s.name # 0
  /\ s.name # 0 /\ (s.open \/ s.size < FileMax) => \A n \in DOMAIN s.files : n <= s.name
  /\ s.open /\ ~s.removed => s.name \in DOMAIN s.files
  /\ IsFiniteSet(DOMAIN s.files)
  /\ InOrder(s.files, s.cache)

Below(s, b) == AllBelow(s.files, s.cache, b)

\* Before a file is created: none is open, and none is to be taken up again.
Shut(s) == ~s.open /\ s.cache = <<>> /\ ~s.removed /\ (s.name = 0 \/ s.size >= FileMax)

\* The task has a sample in its hands.
Busy == {"batch", "create", "cleanup", "write"}

\* The samples on their way to the files are in order, and younger than those there.
Ahead ==
  /\ hNext \in Nat /\ hQueue \in Seq(Nat) /\ Below(Fs, hNext)
  /\ \A k \in DOMAIN hQueue : hQueue[k] < hNext /\ Below(Fs, hQueue[k])
  /\ \A k, l \in DOMAIN hQueue : k < l => hQueue[k] < hQueue[l]
  /\ hPc \in Busy => /\ hSample \in Nat /\ Below(Fs, hSample) /\ hSample < hNext
                     /\ \A k \in DOMAIN hQueue : hSample < hQueue[k]

HistInv == /\ hClock \in Nat \ {0} /\ FsOK(Fs, hClock) /\ Ahead
           /\ hPc = "create" => Shut(Fs)

\* What is synced follows what was there: the newest file takes the cache.
LEMMA JoinOrder ==
  ASSUME NEW files, NEW cache \in Seq(Nat), NEW n \in DOMAIN files, NEW new,
         \A m \in DOMAIN files : files[m] \in Seq(Nat) /\ m \in Nat /\ m <= n,
         InOrder(files, cache),
         DOMAIN new = DOMAIN files, new[n] = files[n] \o cache,
         \A m \in DOMAIN files \ {n} : new[m] = files[m]
  PROVE  /\ \A m \in DOMAIN new : new[m] \in Seq(Nat)
         /\ InOrder(new, <<>>)
         /\ \A b : AllBelow(files, cache, b) => AllBelow(new, <<>>, b)
<1>. DEFINE g == files[n] \o cache
            l == Len(files[n])
<1>1. /\ files[n] \in Seq(Nat) /\ l \in Nat /\ DOMAIN files[n] = 1 .. l
      /\ Len(cache) \in Nat /\ DOMAIN cache = 1 .. Len(cache)
  BY LenProperties
<1>2. /\ g \in Seq(Nat) /\ Len(g) = l + Len(cache)
      /\ \A i \in 1 .. l + Len(cache) : g[i] = IF i <= l THEN files[n][i] ELSE cache[i - l]
  BY <1>1, ConcatProperties
<1>3. DOMAIN g = 1 .. l + Len(cache)
  BY <1>2, LenProperties
<1>. HIDE DEF g
<1>4. DOMAIN new = DOMAIN files /\ new[n] = g /\ n \in Nat
  BY DEF g
<1>. HIDE DEF l
\* An entry of the newest file is one it had or one of the cache.
<1>5. ASSUME NEW i \in DOMAIN g
      PROVE  \/ i \in DOMAIN files[n] /\ g[i] = files[n][i]
             \/ i - l \in DOMAIN cache /\ g[i] = cache[i - l] /\ i > l
  <2>1. i \in 1 .. l + Len(cache)
    BY <1>3
  <2>2. CASE i <= l
    <3>1. i \in 1 .. l
      BY <1>1, <2>1, <2>2
    <3>. QED BY <1>1, <1>2, <2>1, <2>2, <3>1
  <2>3. CASE ~(i <= l)
    <3>1. i - l \in 1 .. Len(cache) /\ i > l
      BY <1>1, <2>1, <2>3
    <3>. QED BY <1>1, <1>2, <2>1, <2>3, <3>1
  <2>. QED BY <2>2, <2>3
<1>6. ASSUME NEW m \in DOMAIN files, NEW k \in DOMAIN files, NEW i \in DOMAIN new[m],
             NEW j \in DOMAIN new[k], m < k \/ (m = k /\ i < j)
      PROVE  new[m][i] < new[k][j]
  <2>1. CASE k # n
    <3>1. m # n
      BY <1>6, <2>1
    <3>. QED BY <1>4, <1>6, <2>1, <3>1 DEF InOrder
  <2>2. CASE k = n /\ m # n
    <3>1. new[m] = files[m] /\ new[k] = g /\ m < n
      BY <1>4, <1>6, <2>2
    <3>2. CASE j \in DOMAIN files[n] /\ g[j] = files[n][j]
      BY <3>1, <3>2 DEF InOrder
    <3>3. CASE j - l \in DOMAIN cache /\ g[j] = cache[j - l]
      BY <3>1, <3>3 DEF InOrder
    <3>. QED BY <1>5, <3>1, <3>2, <3>3
  <2>3. CASE k = n /\ m = n
    <3>0. i < j
      BY <1>4, <1>6, <2>3
    <3>1. new[m] = g /\ new[k] = g /\ i \in DOMAIN g /\ j \in DOMAIN g /\ i < j
      BY <1>4, <2>3, <3>0
    <3>2. i \in Nat /\ j \in Nat
      BY <1>1, <1>3, <3>1
    <3>3. CASE i \in DOMAIN files[n] /\ g[i] = files[n][i]
      <4>1. CASE j \in DOMAIN files[n] /\ g[j] = files[n][j]
        BY <3>1, <3>3, <4>1 DEF InOrder
      <4>2. CASE j - l \in DOMAIN cache /\ g[j] = cache[j - l]
        BY <3>1, <3>3, <4>2 DEF InOrder
      <4>. QED BY <1>5, <3>1, <4>1, <4>2
    <3>4. CASE i - l \in DOMAIN cache /\ g[i] = cache[i - l] /\ i > l
      <4>a. ~(j \in DOMAIN files[n])
        BY <1>1, <3>1, <3>2, <3>4
      <4>1. j - l \in DOMAIN cache /\ g[j] = cache[j - l]
        BY <1>5, <3>1, <4>a
      <4>2. i - l < j - l
        BY <1>1, <3>1, <3>2
      <4>. QED BY <3>1, <3>4, <4>1, <4>2 DEF InOrder
    <3>. QED BY <1>5, <3>1, <3>3, <3>4
  <2>. QED BY <2>1, <2>2, <2>3
<1>7. ASSUME NEW b, AllBelow(files, cache, b) PROVE AllBelow(new, <<>>, b)
  <2>. SUFFICES ASSUME NEW m \in DOMAIN files, NEW i \in DOMAIN new[m] PROVE new[m][i] < b
    BY <1>4 DEF AllBelow
  <2>. QED BY <1>4, <1>5, <1>7 DEF AllBelow
<1>8. InOrder(new, <<>>)
  <2>1. DOMAIN <<>> = {}
    OBVIOUS
  <2>2. \A m, k \in DOMAIN new : \A i \in DOMAIN new[m], j \in DOMAIN new[k] :
          m < k \/ (m = k /\ i < j) => new[m][i] < new[k][j]
    BY <1>4, <1>6
  <2>. QED BY <2>1, <2>2 DEF InOrder
<1>9. \A m \in DOMAIN new : new[m] \in Seq(Nat)
  BY <1>2, <1>4
<1>. QED BY <1>4, <1>7, <1>8, <1>9

\* lfs_file_sync, field by field.
LEMMA SyncedIs ==
  ASSUME NEW t, NEW s, FsOK(s, t)
  PROVE  \/ Synced(s) = s
         \/ /\ s.open /\ s.name \in DOMAIN s.files
            /\ Synced(s) = [files |-> [s.files EXCEPT ![s.name] = @ \o s.cache], open |-> s.open,
                            name |-> s.name, size |-> s.size, cache |-> <<>>,
                            erred |-> s.erred, removed |-> s.removed]
<1>1. CASE ~(s.open /\ ~s.erred /\ s.name \in DOMAIN s.files)
  BY <1>1 DEF Synced
<1>2. CASE s.open /\ ~s.erred /\ s.name \in DOMAIN s.files
  <2>1. Synced(s) = [s EXCEPT !.files[s.name] = @ \o s.cache, !.cache = <<>>]
    BY <1>2 DEF Synced
  <2>2. Shaped(s)
    BY DEF FsOK
  <2>. QED BY <1>2, <2>1, <2>2 DEF Shaped
<1>. QED BY <1>1, <1>2

LEMMA SyncOK ==
  ASSUME NEW t \in Nat, NEW s, FsOK(s, t)
  PROVE  /\ FsOK(Synced(s), t) /\ DOMAIN Synced(s).files = DOMAIN s.files
         /\ Synced(s).name = s.name /\ Synced(s).size = s.size /\ Synced(s).open = s.open
         /\ \A b : Below(s, b) => Below(Synced(s), b)
<1>1. CASE Synced(s) = s
  BY <1>1
<1>2. CASE Synced(s) # s
  <2>. DEFINE new == [s.files EXCEPT ![s.name] = @ \o s.cache]
  <2>1. /\ s.open /\ s.name \in DOMAIN s.files
        /\ Synced(s) = [files |-> new, open |-> s.open, name |-> s.name, size |-> s.size,
                        cache |-> <<>>, erred |-> s.erred, removed |-> s.removed]
    BY <1>2, SyncedIs
  <2>2. /\ s.cache \in Seq(Nat) /\ Fun(s.files)
        /\ \A m \in DOMAIN s.files : s.files[m] \in Seq(Nat) /\ m \in Nat /\ m <= s.name
        /\ InOrder(s.files, s.cache)
    BY <2>1 DEF FsOK
  <2>3. /\ DOMAIN new = DOMAIN s.files /\ Fun(new)
        /\ \A m \in DOMAIN new : new[m] \in Seq(Nat)
        /\ InOrder(new, <<>>)
        /\ \A b : AllBelow(s.files, s.cache, b) => AllBelow(new, <<>>, b)
    <3>1. /\ DOMAIN new = DOMAIN s.files /\ new[s.name] = s.files[s.name] \o s.cache
          /\ \A m \in DOMAIN s.files \ {s.name} : new[m] = s.files[m]
          /\ Fun(new)
      BY <2>1, <2>2 DEF Fun
    <3>. HIDE DEF new
    <3>. QED BY <2>1, <2>2, <3>1, JoinOrder
  <2>. HIDE DEF new
  <2>. DEFINE u == Synced(s)
  <2>4. /\ u.files = new /\ u.open = s.open /\ u.name = s.name /\ u.size = s.size
        /\ u.cache = <<>> /\ u.erred = s.erred /\ u.removed = s.removed
        /\ Shaped(u)
    BY <2>1 DEF Shaped
  <2>. HIDE DEF u
  <2>5. u.cache \in Seq(Nat) /\ DOMAIN u.cache = {}
    BY <2>4
  <2>6. FsOK(u, t)
    BY <2>3, <2>4, <2>5 DEF FsOK
  <2>7. \A b : Below(s, b) => Below(u, b)
    BY <2>3, <2>4, <2>5 DEF Below, AllBelow
  <2>. QED BY <2>3, <2>4, <2>6, <2>7 DEF u
<1>. QED BY <1>1, <1>2

\* close_cur_file
LEMMA CloseOK ==
  ASSUME NEW t \in Nat, NEW s, FsOK(s, t)
  PROVE  /\ FsOK(Closed(s), t) /\ DOMAIN Closed(s).files = DOMAIN s.files
         /\ Closed(s).name = s.name /\ Closed(s).size = s.size
         /\ Closed(s).cache = <<>> /\ ~Closed(s).open /\ ~Closed(s).removed
         /\ \A b : Below(s, b) => Below(Closed(s), b)
<1>. DEFINE u == Synced(s)
            v == Closed(s)
<1>1. /\ FsOK(u, t) /\ DOMAIN u.files = DOMAIN s.files /\ u.name = s.name /\ u.size = s.size
      /\ \A b : Below(s, b) => Below(u, b)
  BY SyncOK
<1>2. v = [u EXCEPT !.open = FALSE, !.cache = <<>>, !.erred = FALSE, !.removed = FALSE]
  BY DEF Closed
<1>. HIDE DEF u, v
<1>3. /\ v.files = u.files /\ v.open = FALSE /\ v.name = u.name /\ v.size = u.size
      /\ v.cache = <<>> /\ v.erred = FALSE /\ v.removed = FALSE
      /\ Shaped(v)
  <2>1. Shaped(u)
    BY <1>1 DEF FsOK
  <2>. QED BY <1>2, <2>1 DEF Shaped
<1>4. v.cache \in Seq(Nat) /\ DOMAIN v.cache = {}
  BY <1>3
<1>5. FsOK(v, t)
  BY <1>1, <1>3, <1>4 DEF FsOK, InOrder
<1>6. \A b : Below(u, b) => Below(v, b)
  BY <1>3, <1>4 DEF Below, AllBelow
<1>. QED BY <1>1, <1>3, <1>5, <1>6 DEF v

\* open_append of the newest file.
LEMMA AppendOK ==
  ASSUME NEW t \in Nat, NEW s, FsOK(s, t), s.cache = <<>>, ~s.removed,
         NEW n \in DOMAIN s.files, \A m \in DOMAIN s.files : m <= n
  PROVE  /\ FsOK(Appending(s, n), t) /\ Appending(s, n).open
         /\ \A b : Below(s, b) => Below(Appending(s, n), b)
<1>. DEFINE v == Appending(s, n)
            l == Len(s.files[n])
<1>1. /\ Shaped(s)
      /\ v = [s EXCEPT !.open = TRUE, !.name = n, !.size = l]
  BY DEF FsOK, Appending
<1>2. l \in Nat /\ n \in 1 .. t /\ n # 0
  BY LenProperties DEF FsOK
<1>. HIDE DEF l, v
<1>3. /\ v.files = s.files /\ v.open = TRUE /\ v.name = n /\ v.size = l
      /\ v.cache = s.cache /\ v.erred = s.erred /\ v.removed = s.removed
      /\ Shaped(v)
  BY <1>1 DEF Shaped
<1>4. /\ Fun(s.files) /\ DOMAIN s.files \subseteq 1 .. t
      /\ \A m \in DOMAIN s.files : s.files[m] \in Seq(Nat)
      /\ s.cache \in Seq(Nat) /\ {TRUE, s.erred, s.removed} \subseteq BOOLEAN
      /\ IsFiniteSet(DOMAIN s.files) /\ InOrder(s.files, s.cache)
  BY DEF FsOK
<1>5. FsOK(v, t)
  <2>1. /\ Shaped(v) /\ Fun(v.files)
        /\ DOMAIN v.files \subseteq 1 .. t /\ \A m \in DOMAIN v.files : v.files[m] \in Seq(Nat)
    BY <1>3, <1>4
  <2>2. /\ v.cache \in Seq(Nat) /\ v.size \in Nat /\ v.name \in 0 .. t
        /\ v.name # 0 /\ \A m \in DOMAIN v.files : m <= v.name
    BY <1>2, <1>3, <1>4
  <2>3. {v.open, v.erred, v.removed} \subseteq BOOLEAN
    BY <1>3, <1>4
  <2>4. v.name \in DOMAIN v.files /\ InOrder(v.files, v.cache) /\ IsFiniteSet(DOMAIN v.files)
    BY <1>3, <1>4
  <2>. QED BY <2>1, <2>2, <2>3, <2>4 DEF FsOK
<1>6. \A b : Below(s, b) => Below(v, b)
  BY <1>3 DEF Below, AllBelow
<1>. QED BY <1>3, <1>5, <1>6 DEF v

\* The newest of any number of files is not one cleanup_old_files deletes.
LEMMA NewestStays ==
  ASSUME NEW files, IsFiniteSet(DOMAIN files), DOMAIN files \subseteq Nat,
         NEW n \in DOMAIN files, \A m \in DOMAIN files : m <= n
  PROVE  n \notin Doomed(files)
<1>. DEFINE D == DOMAIN files
            seen == {f \in D : Cardinality({g \in D : g < f}) < NamesCap}
            older == {g \in seen : g < n}
<1>. SUFFICES ASSUME n \in seen, Cardinality(older) < Cardinality(seen) - MaxFiles PROVE FALSE
  BY DEF Doomed
<1>1. seen \subseteq D
  OBVIOUS
<1>. HIDE DEF seen
<1>2. older = seen \ {n}
  <2>1. \A g \in seen : g < n <=> g # n
    <3>. SUFFICES ASSUME NEW g \in seen PROVE g < n <=> g # n
      OBVIOUS
    <3>1. g \in Nat /\ n \in Nat /\ g <= n
      BY <1>1
    <3>. QED BY <3>1
  <2>. QED BY <2>1
<1>. HIDE DEF older
<1>3. IsFiniteSet(seen) /\ Cardinality(seen) \in Nat
  BY <1>1, FS_Subset, FS_CardinalityType
<1>4. Cardinality(older) = Cardinality(seen) - 1
  BY <1>2, <1>3, FS_RemoveElement
<1>5. MaxFiles \in Nat /\ MaxFiles >= 1
  BY HistoryAssumption
<1>. QED BY <1>3, <1>4, <1>5

LEMMA FilesField ==
  ASSUME NEW s, Shaped(s), NEW F, NEW v, v = [s EXCEPT !.files = F]
  PROVE  /\ v.files = F /\ v.open = s.open /\ v.name = s.name /\ v.size = s.size
         /\ v.cache = s.cache /\ v.erred = s.erred /\ v.removed = s.removed /\ Shaped(v)
BY DEF Shaped

\* Files deleted, but not the open one.
LEMMA FewerOK ==
  ASSUME NEW t \in Nat, NEW s, FsOK(s, t), NEW F, Fun(F),
         \A m \in DOMAIN F : m \in DOMAIN s.files /\ F[m] = s.files[m],
         s.open /\ ~s.removed => s.name \in DOMAIN F,
         NEW v, v = [s EXCEPT !.files = F]
  PROVE  FsOK(v, t) /\ \A b : Below(s, b) => Below(v, b)
<1>1. Shaped(s) /\ IsFiniteSet(DOMAIN s.files)
  BY DEF FsOK
<1>2. IsFiniteSet(DOMAIN F)
  <2>1. DOMAIN F \subseteq DOMAIN s.files
    OBVIOUS
  <2>. QED BY <1>1, <2>1, FS_Subset
<1>3. /\ v.files = F /\ v.open = s.open /\ v.name = s.name /\ v.size = s.size
      /\ v.cache = s.cache /\ v.erred = s.erred /\ v.removed = s.removed /\ Shaped(v)
  BY <1>1, FilesField
<1>4. InOrder(F, s.cache)
  BY DEF FsOK, InOrder
<1>5. FsOK(v, t)
  BY <1>2, <1>3, <1>4 DEF FsOK
<1>6. ASSUME NEW b, AllBelow(s.files, s.cache, b) PROVE AllBelow(F, s.cache, b)
  BY <1>6 DEF AllBelow
<1>. QED BY <1>3, <1>5, <1>6 DEF Below

\* The file named after the time, which is not before any name, is the newest.
LEMMA MadeOK ==
  ASSUME NEW t \in Nat \ {0}, NEW s, FsOK(s, t), Shut(s), NEW v, v = Made(s, t)
  PROVE  /\ FsOK(v, t) /\ Shut(v) /\ t \in DOMAIN v.files /\ \A m \in DOMAIN v.files : m <= t
         /\ \A b : Below(s, b) => Below(v, b)
<1>. DEFINE D == DOMAIN s.files \cup {t}
            F == [m \in D |-> IF m \in DOMAIN s.files THEN s.files[m] ELSE <<>>]
<1>1. /\ Shaped(s) /\ DOMAIN s.files \subseteq 1 .. t /\ IsFiniteSet(DOMAIN s.files)
      /\ \A m \in DOMAIN s.files : s.files[m] \in Seq(Nat)
      /\ InOrder(s.files, s.cache)
  BY DEF FsOK
<1>2. D \subseteq 1 .. t /\ t \in D /\ \A m \in D : m <= t
  BY <1>1
<1>3. IsFiniteSet(D)
  BY <1>1, FS_AddElement
<1>4. /\ DOMAIN F = D /\ Fun(F) /\ \A m \in DOMAIN s.files : F[m] = s.files[m]
      /\ \A m \in D : m \in DOMAIN s.files \/ F[m] = <<>>
  BY DEF Fun
<1>5. v = [s EXCEPT !.files = F]
  BY DEF Made
<1>. HIDE DEF D, F
<1>6. /\ v.files = F /\ v.open = s.open /\ v.name = s.name /\ v.size = s.size
      /\ v.cache = s.cache /\ v.erred = s.erred /\ v.removed = s.removed /\ Shaped(v)
  BY <1>1, <1>5, FilesField
<1>7. \A m \in D : /\ F[m] \in Seq(Nat)
                   /\ (m \in DOMAIN s.files /\ F[m] = s.files[m]) \/ DOMAIN F[m] = {}
  <2>1. <<>> \in Seq(Nat) /\ DOMAIN <<>> = {}
    OBVIOUS
  <2>. QED BY <1>1, <1>4, <2>1
<1>8. InOrder(v.files, v.cache)
  <2>1. InOrder(s.files, s.cache)
    BY <1>1
  <2>2. \A m \in DOMAIN F : \A i \in DOMAIN F[m] : m \in DOMAIN s.files /\ F[m] = s.files[m]
    BY <1>4, <1>7
  <2>3. InOrder(F, s.cache)
    BY <2>1, <2>2 DEF InOrder
  <2>. QED BY <1>6, <2>3
<1>9. Shut(v)
  BY <1>6 DEF Shut
<1>10. v.name # 0 /\ (v.open \/ v.size < FileMax) => FALSE
  <2>1. FileMax \in Nat /\ v.size \in Nat
    BY <1>6, HistoryAssumption DEF FsOK
  <2>. QED BY <1>9, <2>1 DEF Shut
<1>11. FsOK(v, t)
  BY <1>2, <1>3, <1>4, <1>6, <1>7, <1>8, <1>9, <1>10 DEF FsOK, Shut
<1>12. \A b : Below(s, b) => Below(v, b)
  BY <1>4, <1>6, <1>7 DEF Below, AllBelow
<1>. QED BY <1>2, <1>4, <1>6, <1>9, <1>11, <1>12

\* The newest file of the directory.
LEMMA LatestIs ==
  ASSUME NEW t \in Nat, NEW s, FsOK(s, t), Latest(s) \in DOMAIN s.files
  PROVE  \A m \in DOMAIN s.files : m <= Latest(s)
<1>. DEFINE D == DOMAIN s.files
            A == {t - m : m \in D}
<1>1. D \subseteq 1 .. t /\ D # {}
  BY DEF FsOK
<1>. HIDE DEF D
<1>2. A \subseteq Nat /\ A # {}
  <2>1. \A m \in D : t - m \in Nat
    BY <1>1
  <2>. QED BY <1>1, <2>1
<1>3. PICK a \in A : \A e \in A : a <= e
  BY <1>2, LeastNatural
<1>4. PICK n \in D : a = t - n
  OBVIOUS
<1>5. \A m \in D : n >= m
  <2>. SUFFICES ASSUME NEW m \in D PROVE n >= m
    OBVIOUS
  <2>1. t - m \in A /\ m \in Nat /\ n \in Nat
    BY <1>1
  <2>. QED BY <1>3, <1>4, <2>1
<1>6. Max(D) \in D /\ \A m \in D : Max(D) >= m
  BY <1>5 DEF Max
<1>7. Latest(s) = Max(D)
  <2>1. Latest(s) # 0
    BY <1>1 DEF D
  <2>. QED BY <2>1 DEF Latest, D
<1>8. \A m \in D : m \in Nat
  BY <1>1
<1>. QED BY <1>6, <1>7, <1>8 DEF D

\* The file variables take the fields of a record.
LEMMA SetFsIs == ASSUME NEW v, Shaped(v), SetFs(v) PROVE Fs' = v
BY DEF SetFs, Fs, Shaped

\* What a step that concerns the files alone has to respect.
LEMMA FilesStep ==
  ASSUME HistInv, NEW v, FsOK(v, hClock), SetFs(v), \A b : Below(Fs, b) => Below(v, b),
         UNCHANGED <<hClock, hNext, hQueue>>,
         hPc' \in Busy => hPc \in Busy /\ hSample' = hSample,
         hPc' = "create" => Shut(v)
  PROVE  HistInv'
<1>1. Fs' = v
  BY SetFsIs DEF FsOK
<1>2. Below(Fs, hNext)' /\ \A k \in DOMAIN hQueue : Below(v, hQueue[k])
  BY <1>1 DEF HistInv, Ahead, Below
<1>3. hPc' \in Busy => /\ hSample \in Nat /\ Below(v, hSample) /\ hSample < hNext
                        /\ \A k \in DOMAIN hQueue : hSample < hQueue[k]
  BY DEF HistInv, Ahead
<1>4. Ahead'
  BY <1>1, <1>2, <1>3 DEF HistInv, Ahead, Below
<1>. QED BY <1>1, <1>4 DEF HistInv, FsOK, Shut

\* Steps that leave the files and the time alone.
LEMMA QueueStep ==
  ASSUME HistInv, UNCHANGED <<hFile, hClock>>, Ahead', hPc' = "create" => hPc = "create"
  PROVE  HistInv'
<1>1. Fs' = Fs
  BY DEF hFile, Fs
<1>. QED BY <1>1 DEF HistInv, FsOK, Shut

\* Facts about the queue when a sample is taken from it or appended.
LEMMA QueueHead ==
  ASSUME NEW q \in Seq(Nat), q # <<>>
  PROVE  /\ Tail(q) \in Seq(Nat) /\ Head(q) = q[1] /\ 1 \in DOMAIN q /\ Head(q) \in Nat
         /\ \A k \in DOMAIN Tail(q) : k \in Nat /\ k + 1 \in DOMAIN q /\ Tail(q)[k] = q[k + 1]
                                      /\ 1 < k + 1
<1>1. /\ Tail(q) \in Seq(Nat) /\ Len(Tail(q)) = Len(q) - 1 /\ Len(q) \in Nat /\ Len(q) # 0
      /\ \A i \in 1 .. Len(q) - 1 : Tail(q)[i] = q[i + 1]
      /\ Head(q) = q[1] /\ q[1] \in Nat
  BY HeadTailProperties, EmptySeq
<1>2. DOMAIN q = 1 .. Len(q) /\ DOMAIN Tail(q) = 1 .. Len(q) - 1
  BY <1>1, LenProperties
<1>. QED BY <1>1, <1>2

\* The next sample of a batch.
LEMMA TakeSample ==
  ASSUME NEW q \in Seq(Nat), q # <<>>, NEW next \in Nat, NEW s,
         Below(s, next), \A k \in DOMAIN q : q[k] < next /\ Below(s, q[k]),
         \A k, l \in DOMAIN q : k < l => q[k] < q[l]
  PROVE  /\ Tail(q) \in Seq(Nat) /\ Head(q) \in Nat /\ Below(s, Head(q)) /\ Head(q) < next
         /\ \A k \in DOMAIN Tail(q) : Tail(q)[k] < next /\ Below(s, Tail(q)[k])
         /\ \A k, l \in DOMAIN Tail(q) : k < l => Tail(q)[k] < Tail(q)[l]
         /\ \A k \in DOMAIN Tail(q) : Head(q) < Tail(q)[k]
<1>1. /\ Tail(q) \in Seq(Nat) /\ Head(q) = q[1] /\ 1 \in DOMAIN q /\ Head(q) \in Nat
      /\ \A k \in DOMAIN Tail(q) : k \in Nat /\ k + 1 \in DOMAIN q /\ Tail(q)[k] = q[k + 1]
                                   /\ 1 < k + 1
  BY QueueHead
<1>2. \A k \in DOMAIN Tail(q) : Tail(q)[k] < next /\ Below(s, Tail(q)[k])
  BY <1>1
<1>3. \A k, l \in DOMAIN Tail(q) : k < l => Tail(q)[k] < Tail(q)[l]
  <2>. SUFFICES ASSUME NEW k \in DOMAIN Tail(q), NEW l \in DOMAIN Tail(q), k < l
                PROVE  Tail(q)[k] < Tail(q)[l]
    OBVIOUS
  <2>1. k + 1 < l + 1 /\ k + 1 \in DOMAIN q /\ l + 1 \in DOMAIN q
    BY <1>1
  <2>. QED BY <1>1, <2>1
<1>4. \A k \in DOMAIN Tail(q) : Head(q) < Tail(q)[k]
  BY <1>1
<1>. QED BY <1>1, <1>2, <1>3, <1>4

\* xQueueReceive
LEMMA ReceiveInv == ASSUME HistInv, Receive PROVE HistInv'
<1>1. /\ hQueue # <<>> /\ hSample' = Head(hQueue) /\ hQueue' = Tail(hQueue) /\ hPc' = "batch"
      /\ UNCHANGED <<hFile, hClock, hNext>> /\ Fs' = Fs
  BY DEF Receive, hRest, hFile, Fs
<1>2. /\ hNext \in Nat /\ hQueue \in Seq(Nat) /\ Below(Fs, hNext)
      /\ \A k \in DOMAIN hQueue : hQueue[k] < hNext /\ Below(Fs, hQueue[k])
      /\ \A k, l \in DOMAIN hQueue : k < l => hQueue[k] < hQueue[l]
  BY DEF HistInv, Ahead
<1>3. /\ hQueue' \in Seq(Nat) /\ hSample' \in Nat /\ Below(Fs, hSample') /\ hSample' < hNext
      /\ \A k \in DOMAIN hQueue' : hQueue'[k] < hNext /\ Below(Fs, hQueue'[k])
      /\ \A k, l \in DOMAIN hQueue' : k < l => hQueue'[k] < hQueue'[l]
      /\ \A k \in DOMAIN hQueue' : hSample' < hQueue'[k]
  BY <1>1, <1>2, TakeSample
<1>4. Ahead'
  BY <1>1, <1>2, <1>3 DEF Ahead, Below
<1>. QED BY <1>1, <1>4, QueueStep

\* A sample appended to the cache of the newest file.
LEMMA CachedOK ==
  ASSUME NEW t, NEW s, FsOK(s, t), NEW x \in Nat, Below(s, x),
         NEW v, v = [s EXCEPT !.cache = Append(@, x), !.size = @ + 1]
  PROVE  FsOK(v, t) /\ \A b \in Nat : Below(s, b) /\ x < b => Below(v, b)
<1>. DEFINE c == s.cache
            q == Append(c, x)
            z == s.size + 1
<1>1. Shaped(s) /\ c \in Seq(Nat) /\ s.size \in Nat /\ z \in Nat
  BY DEF FsOK
<1>2. /\ q \in Seq(Nat) /\ Len(c) \in Nat /\ Len(q) = Len(c) + 1 /\ q[Len(c) + 1] = x
      /\ \A i \in 1 .. Len(c) : q[i] = c[i]
      /\ DOMAIN c = 1 .. Len(c)
  BY <1>1, AppendProperties, LenProperties
<1>3. DOMAIN q = 1 .. Len(c) + 1
  BY <1>2, LenProperties
<1>. HIDE DEF q, z
<1>4. /\ v.files = s.files /\ v.open = s.open /\ v.name = s.name /\ v.size = z
      /\ v.cache = q /\ v.erred = s.erred /\ v.removed = s.removed /\ Shaped(v)
  BY <1>1 DEF Shaped, q, z
<1>. HIDE DEF c
<1>5. \A i \in DOMAIN q : (i \in DOMAIN c /\ q[i] = c[i]) \/ (q[i] = x /\ i = Len(c) + 1)
  BY <1>2, <1>3
<1>6. /\ \A m \in DOMAIN s.files : \A i \in DOMAIN s.files[m] : s.files[m][i] < x
      /\ \A i \in DOMAIN c : c[i] < x
  BY DEF Below, AllBelow, c
<1>7. InOrder(s.files, c)
  BY DEF FsOK, c
<1>8. InOrder(s.files, q)
  <2>1. ASSUME NEW i \in DOMAIN q, NEW j \in DOMAIN q, i < j PROVE q[i] < q[j]
    <3>1. i \in DOMAIN c /\ q[i] = c[i]
      BY <1>2, <1>3, <2>1
    <3>. QED BY <1>5, <1>6, <1>7, <2>1, <3>1 DEF InOrder
  <2>2. ASSUME NEW m \in DOMAIN s.files, NEW i \in DOMAIN s.files[m], NEW j \in DOMAIN q
        PROVE  s.files[m][i] < q[j]
    BY <1>5, <1>6, <1>7 DEF InOrder
  <2>. QED BY <1>7, <2>1, <2>2 DEF InOrder
<1>9. FsOK(v, t)
  <2>1. v.size < FileMax => s.size < FileMax
    BY <1>1, <1>4, HistoryAssumption DEF z
  <2>. QED BY <1>1, <1>2, <1>4, <1>8, <2>1 DEF FsOK
<1>10. \A b \in Nat : Below(s, b) /\ x < b => Below(v, b)
  BY <1>4, <1>5 DEF Below, AllBelow, c
<1>. QED BY <1>9, <1>10

\* The cache emptied and the file given up after a failed write.
LEMMA ErredOK ==
  ASSUME NEW t, NEW s, FsOK(s, t),
         NEW v, v = [s EXCEPT !.erred = TRUE, !.cache = <<>>, !.size = FileMax]
  PROVE  FsOK(v, t) /\ \A b : Below(s, b) => Below(v, b)
<1>1. Shaped(s) /\ FileMax \in Nat /\ <<>> \in Seq(Nat) /\ DOMAIN <<>> = {}
  BY HistoryAssumption DEF FsOK
<1>2. /\ v.files = s.files /\ v.open = s.open /\ v.name = s.name /\ v.size = FileMax
      /\ v.cache = <<>> /\ v.erred = TRUE /\ v.removed = s.removed /\ Shaped(v)
  BY <1>1 DEF Shaped
<1>3. InOrder(v.files, v.cache)
  BY <1>1, <1>2 DEF FsOK, InOrder
<1>4. FsOK(v, t)
  BY <1>1, <1>2, <1>3 DEF FsOK
<1>. QED BY <1>1, <1>2, <1>4 DEF Below, AllBelow

\* The name forgotten.
LEMMA ForgetOK ==
  ASSUME NEW t \in Nat, NEW s, FsOK(s, t), ~s.open, NEW v, v = [s EXCEPT !.name = 0]
  PROVE  FsOK(v, t) /\ \A b : Below(s, b) => Below(v, b)
<1>1. Shaped(s)
  BY DEF FsOK
<1>2. /\ v.files = s.files /\ v.open = s.open /\ v.name = 0 /\ v.size = s.size
      /\ v.cache = s.cache /\ v.erred = s.erred /\ v.removed = s.removed /\ Shaped(v)
  BY <1>1 DEF Shaped
<1>3. FsOK(v, t)
  BY <1>2 DEF FsOK
<1>. QED BY <1>2, <1>3 DEF Below

\* ensure_file, up to the creation of a file.
LEMMA ReopenInv == ASSUME HistInv, ResumeFile \/ ReuseLatest \/ RotateFile PROVE HistInv'
<1>. DEFINE s == Closed(Fs)
<1>1. /\ hClock \in Nat \ {0} /\ FsOK(Fs, hClock) /\ hPc \in Busy
      /\ UNCHANGED <<hClock, hNext, hQueue, hSample>>
      /\ Fs.name = hName /\ Fs.size = hSize
  BY DEF HistInv, ResumeFile, ReuseLatest, RotateFile, hRest, Busy, Fs
<1>2. /\ FsOK(s, hClock) /\ s.cache = <<>> /\ ~s.open /\ ~s.removed
      /\ s.name = hName /\ s.size = hSize
      /\ \A b : Below(Fs, b) => Below(s, b)
  BY <1>1, CloseOK
<1>. HIDE DEF s
\* A file that is the newest is opened.
<1>3. ASSUME NEW n \in DOMAIN s.files, \A m \in DOMAIN s.files : m <= n,
             SetFs(Appending(s, n)), hPc' = "write"
      PROVE  HistInv'
  <2>1. FsOK(Appending(s, n), hClock) /\ \A b : Below(s, b) => Below(Appending(s, n), b)
    BY <1>1, <1>2, <1>3, AppendOK
  <2>2. \A b : Below(Fs, b) => Below(Appending(s, n), b)
    BY <1>2, <2>1
  <2>3. hPc' # "create"
    BY <1>3
  <2>. QED BY <1>1, <1>3, <2>1, <2>2, <2>3, FilesStep
<1>4. CASE ResumeFile
  <2>1. hName # 0 /\ hSize < FileMax /\ hPc = "batch"
    BY <1>4 DEF ResumeFile
  <2>2. CASE Resumable(s, hName) /\ SetFs(Appending(s, hName)) /\ hPc' = "write"
    <3>1. hName \in DOMAIN s.files /\ \A m \in DOMAIN s.files : m <= hName
      BY <1>2, <2>1, <2>2 DEF Resumable, FsOK
    <3>. QED BY <1>3, <2>2, <3>1
  <2>3. CASE SetFs([s EXCEPT !.name = 0]) /\ UNCHANGED hPc
    <3>. DEFINE v == [s EXCEPT !.name = 0]
    <3>1. FsOK(v, hClock) /\ \A b : Below(s, b) => Below(v, b)
      BY <1>1, <1>2, ForgetOK
    <3>2. SetFs(v) /\ hPc' = hPc /\ hPc' # "create"
      BY <2>1, <2>3
    <3>. HIDE DEF v
    <3>3. \A b : Below(Fs, b) => Below(v, b)
      BY <1>2, <3>1
    <3>. QED BY <1>1, <3>1, <3>2, <3>3, FilesStep
  <2>. QED BY <1>4, <2>2, <2>3 DEF ResumeFile, s
\* No file is opened.
<1>5. ASSUME SetFs(s), hPc' = "create", hName = 0 \/ hSize >= FileMax PROVE HistInv'
  <2>1. Shut(s)
    BY <1>2, <1>5 DEF Shut
  <2>. QED BY <1>1, <1>2, <1>5, <2>1, FilesStep
<1>6. CASE ReuseLatest
  <2>1. CASE Resumable(s, Latest(s)) /\ SetFs(Appending(s, Latest(s))) /\ hPc' = "write"
    <3>1. Latest(s) \in DOMAIN s.files
      BY <2>1 DEF Resumable
    <3>2. \A m \in DOMAIN s.files : m <= Latest(s)
      BY <1>1, <1>2, <3>1, LatestIs
    <3>. QED BY <1>3, <2>1, <3>1, <3>2
  <2>2. CASE SetFs(s) /\ hPc' = "create"
    BY <1>5, <1>6, <2>2 DEF ReuseLatest
  <2>. QED BY <1>6, <2>1, <2>2 DEF ReuseLatest, s
<1>7. CASE RotateFile
  BY <1>5, <1>7 DEF RotateFile, s
<1>. QED BY <1>4, <1>6, <1>7

\* A file is created, or not, and others are deleted.
LEMMA CreateInv == ASSUME HistInv, CreateFile PROVE HistInv'
<1>. DEFINE made == Made(Fs, hClock)
            opened == Appending(made, hClock)
<1>1. /\ hClock \in Nat \ {0} /\ FsOK(Fs, hClock) /\ Shut(Fs) /\ hPc \in Busy
      /\ UNCHANGED <<hClock, hNext, hQueue, hSample>>
  BY DEF HistInv, CreateFile, hRest, Busy
<1>2. /\ FsOK(made, hClock) /\ Shut(made) /\ hClock \in DOMAIN made.files
      /\ \A m \in DOMAIN made.files : m <= hClock
      /\ \A b : Below(Fs, b) => Below(made, b)
  BY <1>1, MadeOK
<1>. HIDE DEF made
<1>3. FsOK(opened, hClock) /\ \A b : Below(made, b) => Below(opened, b)
  BY <1>1, <1>2, AppendOK DEF Shut
<1>4. CASE SetFs(opened) /\ hPc' = IF opened.size = 0 THEN "cleanup" ELSE "write"
  <2>1. hPc' # "create"
    BY <1>4
  <2>. HIDE DEF opened
  <2>2. \A b : Below(Fs, b) => Below(opened, b)
    BY <1>2, <1>3
  <2>. QED BY <1>1, <1>3, <1>4, <2>1, <2>2, FilesStep
<1>5. CASE (SetFs(Fs) \/ SetFs(made)) /\ hPc' = "end"
  <2>1. hPc' # "create" /\ hPc' \notin Busy
    BY <1>5 DEF Busy
  <2>. QED BY <1>1, <1>2, <1>5, <2>1, FilesStep
<1>. QED BY <1>4, <1>5 DEF CreateFile, made, opened

LEMMA CleanupInv == ASSUME HistInv, CleanupOldFiles PROVE HistInv'
<1>1. /\ hClock \in Nat /\ FsOK(Fs, hClock) /\ hPc \in Busy /\ hPc' # "create"
      /\ UNCHANGED <<hClock, hNext, hQueue, hSample>> /\ Fs.files = hFiles
  BY DEF HistInv, CleanupOldFiles, hRest, Busy, Fs
<1>2. PICK gone \in SUBSET Doomed(hFiles) :
        SetFs([Fs EXCEPT !.files = Restrict(@, DOMAIN @ \ gone)])
  BY DEF CleanupOldFiles
<1>. DEFINE F == Restrict(Fs.files, DOMAIN Fs.files \ gone)
            v == [Fs EXCEPT !.files = F]
<1>3. SetFs(v)
  BY <1>2
<1>4. DOMAIN F = DOMAIN hFiles \ gone /\ Fun(F) /\ \A m \in DOMAIN F : F[m] = hFiles[m]
  BY <1>1 DEF Restrict, Fun
<1>. HIDE DEF F
<1>5. hOpen /\ ~removed => hName \in DOMAIN F
  <2>. SUFFICES ASSUME hOpen, ~removed PROVE hName \in DOMAIN F
    OBVIOUS
  <2>1. /\ hName \in DOMAIN hFiles /\ \A m \in DOMAIN hFiles : m <= hName
        /\ IsFiniteSet(DOMAIN hFiles) /\ DOMAIN hFiles \subseteq 1 .. hClock
    <3>1. Fs.open = hOpen /\ Fs.removed = removed /\ Fs.name = hName
      BY DEF Fs
    <3>. QED BY <1>1, <3>1 DEF FsOK
  <2>2. DOMAIN hFiles \subseteq Nat
    BY <1>1, <2>1
  <2>3. hName \notin Doomed(hFiles)
    BY <2>1, <2>2, NewestStays
  <2>. QED BY <1>4, <2>1, <2>3
<1>6. /\ \A m \in DOMAIN F : m \in DOMAIN Fs.files /\ F[m] = Fs.files[m]
      /\ Fs.open /\ ~Fs.removed => Fs.name \in DOMAIN F
  BY <1>1, <1>4, <1>5 DEF Fs
<1>7. FsOK(v, hClock) /\ \A b : Below(Fs, b) => Below(v, b)
  BY <1>1, <1>4, <1>6, FewerOK
<1>. HIDE DEF v
<1>. QED BY <1>1, <1>3, <1>7, FilesStep

\* hist_file_write
LEMMA WriteSampleInv == ASSUME HistInv, WriteSample PROVE HistInv'
<1>1. /\ hClock \in Nat \ {0} /\ FsOK(Fs, hClock) /\ hPc \in Busy /\ hSample \in Nat
      /\ Below(Fs, hSample) /\ hSample < hNext /\ \A k \in DOMAIN hQueue : hSample < hQueue[k]
      /\ UNCHANGED <<hClock, hNext>>
  <2>1. hPc \in Busy
    BY DEF WriteSample, Busy
  <2>. QED BY <2>1 DEF HistInv, Ahead, WriteSample, hRest
<1>2. /\ hNext \in Nat /\ hQueue \in Seq(Nat) /\ Below(Fs, hNext)
      /\ \A k \in DOMAIN hQueue : hQueue[k] < hNext /\ Below(Fs, hQueue[k])
      /\ \A k, l \in DOMAIN hQueue : k < l => hQueue[k] < hQueue[l]
  BY DEF HistInv, Ahead
<1>3. CASE /\ SetFs([Fs EXCEPT !.cache = Append(@, hSample), !.size = @ + 1])
           /\ IF hQueue = <<>> THEN hPc' = "end" /\ UNCHANGED <<hQueue, hSample>>
              ELSE hSample' = Head(hQueue) /\ hQueue' = Tail(hQueue) /\ hPc' = "batch"
  <2>. DEFINE v == [Fs EXCEPT !.cache = Append(@, hSample), !.size = @ + 1]
  <2>1. FsOK(v, hClock) /\ \A b \in Nat : Below(Fs, b) /\ hSample < b => Below(v, b)
    BY <1>1, CachedOK
  <2>2. SetFs(v)
    BY <1>3
  <2>. HIDE DEF v
  <2>3. Fs' = v
    BY <2>1, <2>2, SetFsIs DEF FsOK
  <2>4. Below(v, hNext) /\ \A k \in DOMAIN hQueue : hQueue[k] \in Nat /\ Below(v, hQueue[k])
    <3>1. \A k \in DOMAIN hQueue : hQueue[k] \in Nat
      BY <1>2
    <3>. QED BY <1>1, <1>2, <2>1, <3>1
  <2>5. Ahead' /\ hPc' # "create"
    <3>1. CASE hQueue = <<>>
      <4>1. hPc' \notin Busy /\ hPc' # "create" /\ UNCHANGED <<hQueue, hNext>>
        BY <1>1, <1>3, <3>1 DEF Busy
      <4>. QED BY <1>2, <2>3, <2>4, <4>1 DEF Ahead, Below
    <3>2. CASE hQueue # <<>>
      <4>1. /\ hQueue' \in Seq(Nat) /\ hSample' \in Nat /\ Below(v, hSample') /\ hSample' < hNext
            /\ \A k \in DOMAIN hQueue' : hQueue'[k] < hNext /\ Below(v, hQueue'[k])
            /\ \A k, l \in DOMAIN hQueue' : k < l => hQueue'[k] < hQueue'[l]
            /\ \A k \in DOMAIN hQueue' : hSample' < hQueue'[k]
        BY <1>2, <1>3, <2>4, <3>2, TakeSample
      <4>2. hPc' # "create"
        BY <1>3, <3>2
      <4>. QED BY <1>1, <1>2, <2>3, <2>4, <4>1, <4>2 DEF Ahead, Below
    <3>. QED BY <3>1, <3>2
  <2>. QED BY <1>1, <2>1, <2>3, <2>5 DEF HistInv, FsOK
<1>4. CASE /\ SetFs([Fs EXCEPT !.erred = TRUE, !.cache = <<>>, !.size = FileMax])
           /\ hPc' = "end" /\ UNCHANGED <<hQueue, hSample>>
  <2>. DEFINE v == [Fs EXCEPT !.erred = TRUE, !.cache = <<>>, !.size = FileMax]
  <2>1. FsOK(v, hClock) /\ \A b : Below(Fs, b) => Below(v, b)
    BY <1>1, ErredOK
  <2>2. SetFs(v) /\ hPc' \notin Busy /\ hPc' # "create" /\ UNCHANGED hQueue
    BY <1>4 DEF Busy
  <2>. HIDE DEF v
  <2>. QED BY <1>1, <2>1, <2>2, FilesStep
<1>. QED BY <1>3, <1>4 DEF WriteSample

\* The ends of a batch, a close, a sync.
LEMMA CloseSteps ==
  ASSUME HistInv, EndBatch \/ CloseFile \/ ClearRequest \/ HistorySync PROVE HistInv'
<1>1. /\ hClock \in Nat /\ FsOK(Fs, hClock) /\ UNCHANGED <<hClock, hNext, hQueue>>
      /\ hPc' \notin Busy /\ hPc' # "create"
  BY DEF HistInv, EndBatch, CloseFile, ClearRequest, HistorySync, LockFree, hRest, Busy
<1>2. CASE SetFs(Closed(Fs))
  BY <1>1, <1>2, CloseOK, FilesStep
<1>3. CASE SetFs(Synced(Fs))
  BY <1>1, <1>3, SyncOK, FilesStep
<1>4. CASE UNCHANGED hFile
  <2>1. Fs' = Fs
    BY <1>4 DEF hFile, Fs
  <2>2. Ahead'
    BY <1>1, <2>1 DEF HistInv, Ahead, Below
  <2>. QED BY <1>1, <1>4, <2>2, QueueStep
<1>. QED BY <1>2, <1>3, <1>4 DEF EndBatch, CloseFile, ClearRequest, HistorySync

LEMMA WithoutFile ==
  ASSUME NEW s, Shaped(s), NEW F, NEW r, NEW v, v = [s EXCEPT !.files = F, !.removed = r]
  PROVE  /\ v.files = F /\ v.open = s.open /\ v.name = s.name /\ v.size = s.size
         /\ v.cache = s.cache /\ v.erred = s.erred /\ v.removed = r /\ Shaped(v)
BY DEF Shaped

\* A user's removal of a file, the open one included.
LEMMA RemoveInv == ASSUME HistInv, NEW n, RemoveFile(n) PROVE HistInv'
<1>. DEFINE K == DOMAIN hFiles \ {n}
            F == Restrict(hFiles, K)
            r == removed \/ (hOpen /\ n = hName)
            v == [Fs EXCEPT !.files = F, !.removed = r]
<1>1. /\ hClock \in Nat /\ FsOK(Fs, hClock) /\ UNCHANGED <<hClock, hNext, hQueue>>
      /\ hPc' \notin Busy /\ hPc' # "create" /\ SetFs(v)
  BY DEF HistInv, RemoveFile, LockFree, hRest, Fs, Busy
<1>2. /\ DOMAIN F = K /\ Fun(F) /\ \A m \in K : F[m] = hFiles[m]
  BY DEF Restrict, Fun
<1>. HIDE DEF F
<1>3. Shaped(Fs) /\ Fs.files = hFiles /\ Fs.open = hOpen /\ Fs.name = hName /\ Fs.removed = removed
  BY DEF Fs, Shaped
<1>4. /\ hFiles = Fs.files /\ DOMAIN hFiles \subseteq 1 .. hClock
      /\ IsFiniteSet(DOMAIN hFiles)
      /\ removed \in BOOLEAN /\ hOpen \in BOOLEAN
  BY <1>1, <1>3 DEF FsOK
<1>5. IsFiniteSet(K)
  BY <1>4, FS_Subset
<1>6. r \in BOOLEAN
  BY <1>4
<1>7. hOpen /\ ~r => hName # n /\ ~removed
  OBVIOUS
<1>8. K \subseteq DOMAIN hFiles /\ \A m \in DOMAIN hFiles : m # n => m \in K
  OBVIOUS
<1>. HIDE DEF K, r
<1>9. /\ v.files = F /\ v.open = hOpen /\ v.name = hName /\ v.size = Fs.size
      /\ v.cache = Fs.cache /\ v.erred = Fs.erred /\ v.removed = r /\ Shaped(v)
  <2>1. Shaped(Fs)
    BY <1>3
  <2>2. /\ v.files = F /\ v.open = Fs.open /\ v.name = Fs.name /\ v.size = Fs.size
        /\ v.cache = Fs.cache /\ v.erred = Fs.erred /\ v.removed = r /\ Shaped(v)
    BY <2>1, WithoutFile
  <2>. QED BY <1>3, <2>2
<1>. HIDE DEF v
<1>10. InOrder(v.files, v.cache)
  <2>1. InOrder(hFiles, Fs.cache)
    BY <1>1, <1>3 DEF FsOK
  <2>. QED BY <1>2, <1>8, <1>9, <2>1 DEF InOrder
<1>11. FsOK(v, hClock)
  BY <1>1, <1>2, <1>3, <1>5, <1>6, <1>7, <1>8, <1>9, <1>10 DEF FsOK
<1>12. \A b : Below(Fs, b) => Below(v, b)
  BY <1>2, <1>3, <1>8, <1>9 DEF Below, AllBelow
<1>. QED BY <1>1, <1>11, <1>12, FilesStep

\* A new sample is younger than all others.
LEMMA SampleInv == ASSUME HistInv, SendHistoryData PROVE HistInv'
<1>1. /\ hNext \in Nat /\ hQueue \in Seq(Nat) /\ Below(Fs, hNext)
      /\ \A k \in DOMAIN hQueue : hQueue[k] < hNext /\ Below(Fs, hQueue[k])
      /\ \A k, l \in DOMAIN hQueue : k < l => hQueue[k] < hQueue[l]
      /\ hPc \in Busy => /\ hSample \in Nat /\ Below(Fs, hSample) /\ hSample < hNext
                          /\ \A k \in DOMAIN hQueue : hSample < hQueue[k]
      /\ FsOK(Fs, hClock)
  BY DEF HistInv, Ahead
<1>2. /\ hNext' = hNext + 1 /\ UNCHANGED <<hFile, hClock, hPc, hSample>> /\ Fs' = Fs
      /\ hQueue' = hQueue \/ hQueue' = Append(hQueue, hNext)
  BY DEF SendHistoryData, hFile, Fs
<1>3. Below(Fs, hNext + 1)
  <2>1. /\ \A m \in DOMAIN Fs.files : \A i \in DOMAIN Fs.files[m] :
             Fs.files[m][i] \in Nat /\ Fs.files[m][i] < hNext
        /\ \A i \in DOMAIN Fs.cache : Fs.cache[i] \in Nat /\ Fs.cache[i] < hNext
    BY <1>1 DEF Below, AllBelow, FsOK
  <2>. QED BY <1>1, <2>1 DEF Below, AllBelow
<1>4. /\ hQueue' \in Seq(Nat)
      /\ \A k \in DOMAIN hQueue' : \/ k \in DOMAIN hQueue /\ hQueue'[k] = hQueue[k]
                                   \/ hQueue'[k] = hNext /\ \A l \in DOMAIN hQueue' : l <= k
      /\ \A k \in DOMAIN hQueue' : k \in Nat
  <2>1. CASE hQueue' = hQueue
    <3>1. DOMAIN hQueue = 1 .. Len(hQueue) /\ Len(hQueue) \in Nat
      BY <1>1, LenProperties
    <3>2. \A k \in DOMAIN hQueue : k \in Nat
      BY <3>1
    <3>3. \A k \in DOMAIN hQueue' : k \in DOMAIN hQueue /\ hQueue'[k] = hQueue[k]
      BY <2>1
    <3>. QED BY <1>1, <2>1, <3>2, <3>3
  <2>2. CASE hQueue' = Append(hQueue, hNext)
    <3>1. /\ hQueue' \in Seq(Nat) /\ Len(hQueue) \in Nat /\ Len(hQueue') = Len(hQueue) + 1
          /\ hQueue'[Len(hQueue) + 1] = hNext /\ DOMAIN hQueue = 1 .. Len(hQueue)
          /\ \A i \in 1 .. Len(hQueue) : hQueue'[i] = hQueue[i]
      BY <1>1, <2>2, AppendProperties, LenProperties
    <3>2. DOMAIN hQueue' = 1 .. Len(hQueue) + 1
      BY <3>1, LenProperties
    <3>3. \A k \in DOMAIN hQueue' : k \in Nat
      BY <3>1, <3>2
    <3>4. ASSUME NEW k \in DOMAIN hQueue'
          PROVE  \/ k \in DOMAIN hQueue /\ hQueue'[k] = hQueue[k]
                 \/ hQueue'[k] = hNext /\ \A l \in DOMAIN hQueue' : l <= k
      <4>1. CASE k <= Len(hQueue)
        <5>1. k \in 1 .. Len(hQueue)
          BY <3>1, <3>2, <4>1
        <5>. QED BY <3>1, <5>1
      <4>2. CASE k = Len(hQueue) + 1
        BY <3>1, <3>2, <4>2
      <4>. QED BY <3>1, <3>2, <4>1, <4>2
    <3>. QED BY <3>1, <3>3, <3>4
  <2>. QED BY <1>2, <2>1, <2>2
<1>5. \A k \in DOMAIN hQueue' : hQueue'[k] < hNext + 1 /\ Below(Fs, hQueue'[k])
  <2>. SUFFICES ASSUME NEW k \in DOMAIN hQueue'
                PROVE  hQueue'[k] < hNext + 1 /\ Below(Fs, hQueue'[k])
    OBVIOUS
  <2>1. CASE k \in DOMAIN hQueue /\ hQueue'[k] = hQueue[k]
    <3>1. hQueue[k] \in Nat /\ hQueue[k] < hNext /\ Below(Fs, hQueue[k])
      BY <1>1, <2>1
    <3>. QED BY <1>1, <2>1, <3>1
  <2>2. CASE hQueue'[k] = hNext
    BY <1>1, <2>2
  <2>. QED BY <1>4, <2>1, <2>2
<1>6. \A k, l \in DOMAIN hQueue' : k < l => hQueue'[k] < hQueue'[l]
  <2>. SUFFICES ASSUME NEW k \in DOMAIN hQueue', NEW l \in DOMAIN hQueue', k < l
                PROVE  hQueue'[k] < hQueue'[l]
    OBVIOUS
  <2>1. k \in DOMAIN hQueue /\ hQueue'[k] = hQueue[k]
    BY <1>4
  <2>. QED BY <1>1, <1>4, <2>1
<1>7. hPc \in Busy => \A k \in DOMAIN hQueue' : hSample < hQueue'[k]
  BY <1>1, <1>4
<1>8. hNext + 1 \in Nat /\ (hPc \in Busy => hSample < hNext + 1)
  BY <1>1
<1>9. Ahead'
  BY <1>1, <1>2, <1>3, <1>4, <1>5, <1>6, <1>7, <1>8 DEF Ahead, Below
<1>. QED BY <1>2, <1>9, QueueStep

\* The clock goes on, and what was at most the time before is at most the time now.
LEMMA ClockInv ==
  ASSUME HistInv, ~ClockMayGoBack, NEW t \in 1 .. Times, ClockMoves(t) PROVE HistInv'
<1>1. t \in Nat \ {0} /\ hClock \in Nat /\ hClock <= t /\ hClock' = t
  BY HistoryAssumption DEF HistInv, ClockMoves
<1>2. UNCHANGED <<hFile, hQueue, hPc, hSample, hNext>> /\ Fs' = Fs
  BY DEF ClockMoves, hFile, Fs
<1>3. FsOK(Fs, hClock) /\ 1 .. hClock \subseteq 1 .. t /\ 0 .. hClock \subseteq 0 .. t
  BY <1>1 DEF HistInv
<1>4. FsOK(Fs, t)
  BY <1>3 DEF FsOK
<1>5. Ahead'
  BY <1>2 DEF HistInv, Ahead, Below
<1>. QED BY <1>1, <1>2, <1>4, <1>5 DEF HistInv, FsOK, Shut

\* A reset forgets what was not synced.
LEMMA HistResetInv == ASSUME HistInv, HistoryReset PROVE HistInv'
<1>1. /\ UNCHANGED <<hFiles, hClock, hNext>> /\ hQueue' = <<>> /\ hPc' = "receive"
      /\ Fs' = [files |-> hFiles, open |-> FALSE, name |-> 0, size |-> 0, cache |-> <<>>,
                erred |-> FALSE, removed |-> FALSE]
  BY DEF HistoryReset, Fs
<1>. DEFINE v == [files |-> hFiles, open |-> FALSE, name |-> 0, size |-> 0, cache |-> <<>>,
                  erred |-> FALSE, removed |-> FALSE]
<1>2. /\ v.files = Fs.files /\ v.open = FALSE /\ v.name = 0 /\ v.size = 0 /\ v.cache = <<>>
      /\ v.erred = FALSE /\ v.removed = FALSE /\ Shaped(v)
  BY DEF Fs, Shaped
<1>3. Fs' = v
  BY <1>1
<1>. HIDE DEF v
<1>4. <<>> \in Seq(Nat) /\ DOMAIN <<>> = {}
  OBVIOUS
<1>5. FsOK(Fs, hClock) /\ hClock \in Nat /\ hNext \in Nat /\ Below(Fs, hNext)
  BY DEF HistInv, Ahead
<1>6. FsOK(v, hClock)
  <2>1. InOrder(v.files, v.cache)
    BY <1>2, <1>4, <1>5 DEF FsOK, InOrder
  <2>2. /\ Fun(v.files) /\ DOMAIN v.files \subseteq 1 .. hClock
        /\ \A n \in DOMAIN v.files : v.files[n] \in Seq(Nat)
        /\ IsFiniteSet(DOMAIN v.files)
    BY <1>2, <1>5 DEF FsOK
  <2>3. v.cache \in Seq(Nat) /\ v.size \in Nat /\ v.name \in 0 .. hClock /\ v.name = 0
    BY <1>2, <1>4, <1>5
  <2>4. {v.open, v.erred, v.removed} \subseteq BOOLEAN /\ ~v.open
    BY <1>2, Zenon
  <2>. QED BY <1>2, <2>1, <2>2, <2>3, <2>4 DEF FsOK
<1>7. Below(v, hNext)
  BY <1>2, <1>4, <1>5 DEF Below, AllBelow
<1>8. Ahead'
  BY <1>1, <1>3, <1>4, <1>5, <1>7 DEF Ahead, Below, Busy
<1>. QED BY <1>1, <1>3, <1>6, <1>8 DEF HistInv, FsOK

\* Every step of every service preserves the invariant of the recording.
LEMMA HistStep == ASSUME ~ClockMayGoBack PROVE HistInv /\ [ServicesNext]_servicesVars => HistInv'
<1>. SUFFICES ASSUME HistInv, [ServicesNext]_servicesVars PROVE HistInv'
  OBVIOUS
<1>1. CASE UNCHANGED <<hFile, hClock, hQueue, hPc, hSample, hNext>>
  <2>1. Fs' = Fs
    BY <1>1 DEF hFile, Fs
  <2>2. Ahead'
    BY <1>1, <2>1 DEF HistInv, Ahead, Below
  <2>. QED BY <1>1, <2>2, QueueStep
<1>2. CASE HistNext
  <2>1. CASE EnableWrite \/ DisableWrite \/ RequestClose
    BY <1>1, <2>1 DEF EnableWrite, DisableWrite, RequestClose, hRest
  <2>2. ASSUME NEW n \in 1 .. Times, RemoveFile(n) \/ ClockMoves(n) PROVE HistInv'
    BY <2>2, RemoveInv, ClockInv
  <2>. QED BY <1>2, <2>1, <2>2, ReceiveInv, ReopenInv, CreateInv, CleanupInv, WriteSampleInv,
              CloseSteps, SampleInv, HistResetInv
           DEF HistNext, HistTask, EnsureFile
<1>. QED BY <1>1, <1>2 DEF ServicesNext, servicesVars, hVars, hRest

\* The recording starts without files.
LEMMA HistStart == ServicesInit => HistInv
<1>. SUFFICES ASSUME HistInit PROVE HistInv
  BY DEF ServicesInit
<1>1. /\ hClock = 1 /\ hNext = 1 /\ hQueue = <<>> /\ hPc = "receive" /\ <<>> \in Seq(Nat)
      /\ DOMAIN <<>> = {}
  BY DEF HistInit
<1>2. /\ Fs.files = [n \in {} |-> <<>>] /\ Fs.open = FALSE /\ Fs.name = 0 /\ Fs.size = 0
      /\ Fs.cache = <<>> /\ Fs.erred = FALSE /\ Fs.removed = FALSE /\ Shaped(Fs)
  BY DEF HistInit, Fs, Shaped
<1>3. DOMAIN Fs.files = {} /\ Fun(Fs.files)
  BY <1>2 DEF Fun
<1>4. IsFiniteSet(DOMAIN Fs.files)
  BY <1>3, FS_EmptySet
<1>5. FsOK(Fs, hClock)
  <2>1. InOrder(Fs.files, Fs.cache)
    BY <1>1, <1>2, <1>3 DEF InOrder
  <2>2. Fs.cache \in Seq(Nat) /\ Fs.size \in Nat /\ Fs.name \in 0 .. hClock /\ Fs.name = 0
    BY <1>1, <1>2
  <2>3. {Fs.open, Fs.erred, Fs.removed} \subseteq BOOLEAN /\ ~Fs.open
    BY <1>2, Zenon
  <2>. QED BY <1>2, <1>3, <1>4, <2>1, <2>2, <2>3 DEF FsOK
<1>. QED BY <1>1, <1>2, <1>3, <1>5 DEF HistInv, Ahead, Below, AllBelow, Busy

\* For every queue, file size, number of files, and order of samples, writes,
\* failures, switches, removals and resets, with a clock that does not go back:
\* the samples on disk are in the order they were taken.
THEOREM RecordingInOrder == ASSUME ~ClockMayGoBack PROVE ServicesSpec => []Chronological
<1>1. HistInv => Chronological
  <2>1. Fs.files = hFiles
    BY DEF Fs
  <2>2. HistInv => InOrder(hFiles, Fs.cache)
    BY <2>1 DEF HistInv, FsOK
  <2>. QED BY <2>2 DEF InOrder, Chronological
<1>. QED BY <1>1, HistStart, HistStep, PTL DEF ServicesSpec

\* Under the same clock, and for any number of files that resets and failed
\* removals left behind, rotation never deletes the file samples go to.
THEOREM RotationIsSafe == ASSUME ~ClockMayGoBack PROVE ServicesSpec => []RotationSparesCurrent
<1>1. HistInv => RotationSparesCurrent
  <2>1. Fs.files = hFiles /\ Fs.open = hOpen /\ Fs.removed = removed /\ Fs.name = hName
    BY DEF Fs
  <2>. QED BY <2>1 DEF HistInv, FsOK, RotationSparesCurrent
<1>. QED BY <1>1, HistStart, HistStep, PTL DEF ServicesSpec

-----------------------------------------------------------------------------
(* The FTP server.  FlattenSeq joins the sequences of a sequence one after *)
(* the other.                                                              *)

\* g[i] is what the first i sequences joined are.
Joins(g, T, seqs) ==
  /\ g \in [0 .. Len(seqs) -> Seq(T)] /\ g[0] = <<>>
  /\ \A i \in 0 .. Len(seqs) - 1 : g[i + 1] = g[i] \o seqs[i + 1]

LEMMA FlattenJoins ==
  ASSUME NEW T, NEW seqs \in Seq(Seq(T))
  PROVE  \E g : Joins(g, T, seqs) /\ FlattenSeq(seqs) = g[Len(seqs)]
<1>. DEFINE N == Len(seqs)
            U == Seq(T)
            F == [p \in Nat \X U |-> IF p[1] \in 1 .. N THEN p[2] \o seqs[p[1]] ELSE p[2]]
            Is(f) == f = [i \in 1 .. N |-> IF i = 1 THEN seqs[i] ELSE f[i - 1] \o seqs[i]]
            f0 == CHOOSE f : Is(f)
<1>0. N \in Nat /\ \A i \in 1 .. N : seqs[i] \in U
  BY LenProperties, ElementOfSeq
<1>1. F \in [Nat \X U -> U] /\ <<>> \in U
  <2>1. ASSUME NEW p \in Nat \X U
        PROVE  (IF p[1] \in 1 .. N THEN p[2] \o seqs[p[1]] ELSE p[2]) \in U
    <3>1. p[2] \in Seq(T) /\ (p[1] \in 1 .. N => seqs[p[1]] \in Seq(T))
      BY <1>0
    <3>. QED BY <3>1, ConcatProperties
  <2>2. <<>> \in U
    OBVIOUS
  <2>. QED BY <2>1, <2>2
<1>2. \E g : Recursive(g, U, <<>>, F)
  <2>. HIDE DEF F, U
  <2>. QED BY <1>1, Recursion, Zenon
<1>3. PICK g : g \in [Nat -> U] /\ g[0] = <<>> /\ \A i \in Nat : g[i + 1] = F[<<i + 1, g[i]>>]
  BY <1>2 DEF Recursive
<1>4. ASSUME NEW i \in Nat, i + 1 <= N PROVE g[i + 1] = g[i] \o seqs[i + 1]
  <2>1. g[i] \in U /\ i + 1 \in Nat /\ i + 1 \in 1 .. N
    BY <1>0, <1>3, <1>4
  <2>2. F[<<i + 1, g[i]>>] = g[i] \o seqs[i + 1]
    <3>1. <<i + 1, g[i]>> \in Nat \X U
      BY <2>1
    <3>. HIDE DEF N, U
    <3>. QED BY <2>1, <3>1
  <2>. QED BY <1>3, <2>2
<1>. DEFINE e == [i \in 0 .. N |-> g[i]]
<1>5. Joins(e, T, seqs)
  <2>1. e \in [0 .. N -> Seq(T)] /\ e[0] = <<>>
    BY <1>0, <1>3
  <2>2. ASSUME NEW i \in 0 .. N - 1 PROVE e[i + 1] = e[i] \o seqs[i + 1]
    <3>1. i \in Nat /\ i + 1 <= N /\ i \in 0 .. N /\ i + 1 \in 0 .. N
      BY <1>0
    <3>. QED BY <1>4, <3>1
  <2>. HIDE DEF e
  <2>. QED BY <2>1, <2>2 DEF Joins
<1>6. CASE N = 0
  <2>1. seqs = <<>>
    BY <1>6, EmptySeq
  <2>2. FlattenSeq(seqs) = seqs
    BY <1>6 DEF FlattenSeq
  <2>3. e[N] = <<>>
    BY <1>3, <1>6
  <2>. HIDE DEF e
  <2>. QED BY <1>5, <2>1, <2>2, <2>3
<1>7. CASE N # 0
  <2>. DEFINE h == [i \in 1 .. N |-> g[i]]
  <2>1. Is(h)
    <3>1. ASSUME NEW i \in 1 .. N PROVE h[i] = IF i = 1 THEN seqs[i] ELSE h[i - 1] \o seqs[i]
      <4>1. i - 1 \in Nat /\ (i - 1) + 1 = i /\ (i - 1) + 1 <= N
        BY <1>0
      <4>2. g[(i - 1) + 1] = g[i - 1] \o seqs[(i - 1) + 1]
        BY <1>4, <4>1
      <4>3. g[i] = g[i - 1] \o seqs[i]
        BY <4>1, <4>2
      <4>4. CASE i = 1
        <5>1. g[i - 1] = <<>> /\ seqs[i] \in Seq(T)
          BY <1>0, <1>3, <4>4
        <5>2. g[i] = seqs[i]
          BY <4>3, <5>1, ConcatEmptySeq
        <5>. QED BY <4>4, <5>2
      <4>5. CASE i # 1
        <5>1. i - 1 \in 1 .. N
          BY <1>0, <4>5
        <5>. QED BY <4>3, <4>5, <5>1
      <4>. QED BY <4>4, <4>5
    <3>. HIDE DEF N
    <3>. QED BY <3>1
  <2>2. Is(f0)
    <3>. HIDE DEF Is, h
    <3>. QED BY <2>1, Zenon
  <2>3. FlattenSeq(seqs) = f0[N]
    BY <1>7 DEF FlattenSeq
  <2>4. \A i \in Nat : i + 1 <= N => f0[i + 1] = g[i + 1]
    <3>. DEFINE S == {i \in Nat : i + 1 <= N => f0[i + 1] = g[i + 1]}
    <3>. HIDE DEF f0
    <3>0. \A i \in 1 .. N : f0[i] = IF i = 1 THEN seqs[i] ELSE f0[i - 1] \o seqs[i]
      BY <2>2
    <3>1. 0 \in S
      <4>1. 1 \in 1 .. N /\ 0 \in Nat /\ 0 + 1 = 1 /\ 0 + 1 <= N
        BY <1>0, <1>7
      <4>2. f0[1] = seqs[1] /\ g[0] = <<>> /\ seqs[1] \in Seq(T)
        BY <1>0, <1>3, <3>0, <4>1
      <4>3. g[0 + 1] = g[0] \o seqs[0 + 1]
        BY <1>4, <4>1
      <4>4. g[1] = seqs[1]
        BY <4>1, <4>2, <4>3, ConcatEmptySeq
      <4>. QED BY <4>1, <4>2, <4>4
    <3>2. ASSUME NEW i \in S PROVE i + 1 \in S
      <4>0. i \in Nat /\ i + 1 \in Nat
        OBVIOUS
      <4>. SUFFICES ASSUME (i + 1) + 1 <= N PROVE f0[(i + 1) + 1] = g[(i + 1) + 1]
        BY <4>0
      <4>1. i + 1 <= N
        BY <1>0, <4>0
      <4>2. f0[i + 1] = g[i + 1]
        BY <4>1
      <4>3. (i + 1) + 1 \in 1 .. N /\ (i + 1) + 1 # 1 /\ ((i + 1) + 1) - 1 = i + 1
        BY <1>0, <4>0
      <4>4. f0[(i + 1) + 1] = f0[i + 1] \o seqs[(i + 1) + 1]
        BY <3>0, <4>3
      <4>. QED BY <1>4, <4>0, <4>2, <4>4
    <3>3. S \subseteq Nat
      OBVIOUS
    <3>4. S = Nat
      <4>. HIDE DEF S
      <4>. QED BY <3>1, <3>2, <3>3, SetInduction
    <3>. QED BY <3>4
  <2>5. f0[N] = e[N]
    <3>1. N - 1 \in Nat /\ (N - 1) + 1 = N /\ (N - 1) + 1 <= N /\ e[N] = g[N]
      BY <1>0, <1>7
    <3>. HIDE DEF f0, e
    <3>. QED BY <2>4, <3>1
  <2>. HIDE DEF e, f0
  <2>. QED BY <1>5, <2>3, <2>5
<1>. QED BY <1>6, <1>7

LEMMA Regroup ==
  ASSUME NEW T, NEW x \in Seq(T)
  PROVE  \A y \in Seq(T), z \in Seq(T) : (x \o y) \o z = x \o (y \o z)
BY ConcatAssociative

\* What is joined is a sequence, and a part at a time gives the same.
LEMMA FlattenConcat ==
  ASSUME NEW T, NEW s \in Seq(Seq(T)), NEW t \in Seq(Seq(T))
  PROVE  /\ FlattenSeq(s) \in Seq(T)
         /\ FlattenSeq(s \o t) = FlattenSeq(s) \o FlattenSeq(t)
<1>. DEFINE U == Seq(T)
            u == s \o t
<1>0. /\ Len(s) \in Nat /\ Len(t) \in Nat /\ u \in Seq(U) /\ Len(u) = Len(s) + Len(t)
      /\ \A i \in 1 .. Len(s) + Len(t) : u[i] = IF i <= Len(s) THEN s[i] ELSE t[i - Len(s)]
      /\ \A i \in 1 .. Len(t) : t[i] \in U
  BY ConcatProperties, LenProperties, ElementOfSeq
<1>. HIDE DEF u
<1>1. PICK a : Joins(a, T, s) /\ FlattenSeq(s) = a[Len(s)]
  BY FlattenJoins
<1>2. PICK b : Joins(b, T, t) /\ FlattenSeq(t) = b[Len(t)]
  BY FlattenJoins
<1>3. PICK c : Joins(c, T, u) /\ FlattenSeq(u) = c[Len(u)]
  BY <1>0, FlattenJoins
<1>a. /\ a[0] = <<>> /\ \A i \in 0 .. Len(s) : a[i] \in U
      /\ \A i \in 0 .. Len(s) - 1 : a[i + 1] = a[i] \o s[i + 1]
  BY <1>1 DEF Joins
<1>b. /\ b[0] = <<>> /\ \A i \in 0 .. Len(t) : b[i] \in U
      /\ \A i \in 0 .. Len(t) - 1 : b[i + 1] = b[i] \o t[i + 1]
  BY <1>2 DEF Joins
<1>c. /\ c[0] = <<>>
      /\ \A i \in 0 .. Len(s) + Len(t) - 1 : c[i + 1] = c[i] \o u[i + 1]
  BY <1>0, <1>3 DEF Joins
<1>. HIDE DEF U
<1>4. \A i \in Nat : i <= Len(s) => c[i] = a[i]
  <2>. DEFINE S == {i \in Nat : i <= Len(s) => c[i] = a[i]}
  <2>1. 0 \in S
    BY <1>a, <1>c
  <2>2. \A i \in S : i + 1 \in S
    <3>. SUFFICES ASSUME NEW i \in S, i + 1 <= Len(s) PROVE c[i + 1] = a[i + 1]
      BY SMT
    <3>1. /\ i \in Nat /\ i <= Len(s) /\ i \in 0 .. Len(s) - 1 /\ i \in 0 .. Len(s) + Len(t) - 1
          /\ i + 1 \in 1 .. Len(s) + Len(t)
      BY <1>0
    <3>2. c[i] = a[i] /\ u[i + 1] = s[i + 1]
      BY <1>0, <3>1
    <3>. QED BY <1>a, <1>c, <3>1, <3>2
  <2>3. S \subseteq Nat
    OBVIOUS
  <2>4. S = Nat
    <3>. HIDE DEF S
    <3>. QED BY <2>1, <2>2, <2>3, SetInduction
  <2>. QED BY <2>4
<1>. DEFINE x == a[Len(s)]
<1>5. x \in U /\ c[Len(s)] = x
  BY <1>0, <1>4, <1>a
<1>. HIDE DEF x
<1>x. \A y \in Seq(T), z \in Seq(T) : (x \o y) \o z = x \o (y \o z)
  BY <1>5, Regroup DEF U
<1>6. \A i \in Nat : i <= Len(t) => c[Len(s) + i] = x \o b[i]
  <2>. DEFINE S == {i \in Nat : i <= Len(t) => c[Len(s) + i] = x \o b[i]}
  <2>1. 0 \in S
    <3>1. x \o <<>> = x
      BY <1>5, ConcatEmptySeq DEF U
    <3>2. Len(s) + 0 = Len(s)
      BY <1>0
    <3>. QED BY <1>5, <1>b, <3>1, <3>2
  <2>2. ASSUME NEW i \in S PROVE i + 1 \in S
    <3>0. i \in Nat /\ i + 1 \in Nat
      OBVIOUS
    <3>. SUFFICES ASSUME i + 1 <= Len(t) PROVE c[Len(s) + (i + 1)] = x \o b[i + 1]
      BY <3>0
    <3>. DEFINE k == Len(s) + i
    <3>1. /\ i \in Nat /\ i <= Len(t) /\ i \in 0 .. Len(t) - 1 /\ i \in 0 .. Len(t) /\ i + 1 \in 1 .. Len(t)
          /\ k \in 0 .. Len(s) + Len(t) - 1 /\ k + 1 \in 1 .. Len(s) + Len(t)
          /\ ~(k + 1 <= Len(s)) /\ k + 1 - Len(s) = i + 1 /\ k + 1 = Len(s) + (i + 1)
      BY <1>0
    <3>2. c[k] = x \o b[i]
      BY <3>1
    <3>. HIDE DEF k
    <3>3. u[k + 1] = t[i + 1]
      BY <1>0, <3>1
    <3>4. c[k + 1] = (x \o b[i]) \o t[i + 1] /\ b[i + 1] = b[i] \o t[i + 1]
      BY <1>b, <1>c, <3>1, <3>2, <3>3
    <3>5. b[i] \in U /\ t[i + 1] \in U
      BY <1>0, <1>b, <3>1
    <3>. DEFINE y == b[i]
                z == t[i + 1]
    <3>. HIDE DEF y, z
    <3>6. (x \o y) \o z = x \o (y \o z)
      <4>1. x \in Seq(T) /\ y \in Seq(T) /\ z \in Seq(T)
        BY <1>5, <3>5 DEF U, y, z
      <4>. QED BY <1>x, <4>1
    <3>. QED BY <3>1, <3>4, <3>6 DEF y, z
  <2>3. S \subseteq Nat
    OBVIOUS
  <2>4. S = Nat
    <3>. HIDE DEF S
    <3>. QED BY <2>1, <2>2, <2>3, SetInduction
  <2>. QED BY <2>4
<1>7. c[Len(s) + Len(t)] = x \o b[Len(t)]
  BY <1>0, <1>6
<1>. QED BY <1>0, <1>1, <1>2, <1>3, <1>5, <1>7 DEF x, u, U

\* A sequence is the concatenation of two if it has their elements.
LEMMA IsConcat ==
  ASSUME NEW U, NEW x \in Seq(U), NEW y \in Seq(U), NEW z \in Seq(U), Len(z) = Len(x) + Len(y),
         \A i \in 1 .. Len(x) : z[i] = x[i], \A i \in 1 .. Len(y) : z[Len(x) + i] = y[i]
  PROVE  z = x \o y
<1>1. /\ x \o y \in Seq(U) /\ Len(x \o y) = Len(x) + Len(y) /\ Len(x) \in Nat /\ Len(y) \in Nat
      /\ \A i \in 1 .. Len(x) + Len(y) : (x \o y)[i] = IF i <= Len(x) THEN x[i] ELSE y[i - Len(x)]
  BY ConcatProperties, LenProperties
<1>2. ASSUME NEW i \in 1 .. Len(z) PROVE z[i] = (x \o y)[i]
  <2>1. CASE i <= Len(x)
    BY <1>1, <2>1
  <2>2. CASE ~(i <= Len(x))
    <3>1. i - Len(x) \in 1 .. Len(y) /\ Len(x) + (i - Len(x)) = i
      BY <1>1, <2>2
    <3>2. z[Len(x) + (i - Len(x))] = y[i - Len(x)]
      BY <3>1
    <3>. QED BY <1>1, <2>2, <3>1, <3>2
  <2>. QED BY <2>1, <2>2
<1>. DEFINE w == x \o y
<1>3. w \in Seq(U) /\ Len(z) = Len(w) /\ \A i \in 1 .. Len(z) : z[i] = w[i]
  BY <1>1, <1>2
<1>. HIDE DEF w
<1>4. z = w
  BY <1>3, SeqEqual
<1>. QED BY <1>4 DEF w

\* What ascii_crlf makes of a byte.
CrlfOf(c) == IF c = "LF" THEN <<"CR", "LF">> ELSE <<c>>

\* ascii_crlf treats every byte by itself.
LEMMA CrlfConcat ==
  ASSUME NEW a \in Seq(FtpBytes), NEW b \in Seq(FtpBytes)
  PROVE  Crlf(a) \in Seq(FtpBytes) /\ Crlf(a \o b) = Crlf(a) \o Crlf(b)
<1>. DEFINE U == Seq(FtpBytes)
            M(s) == [i \in DOMAIN s |-> CrlfOf(s[i])]
<1>1. ASSUME NEW s \in Seq(FtpBytes) PROVE M(s) \in Seq(U) /\ Len(M(s)) = Len(s) /\ DOMAIN s = 1 .. Len(s)
  <2>1. Len(s) \in Nat /\ DOMAIN s = 1 .. Len(s) /\ \A i \in 1 .. Len(s) : s[i] \in FtpBytes
    BY LenProperties, ElementOfSeq
  <2>2. \A i \in 1 .. Len(s) : CrlfOf(s[i]) \in U
    BY <2>1, FtpdAssumption DEF CrlfOf
  <2>. HIDE DEF U
  <2>3. M(s) = [i \in 1 .. Len(s) |-> CrlfOf(s[i])]
    BY <2>1
  <2>4. M(s) \in Seq(U)
    BY <2>1, <2>2, <2>3, IsASeq
  <2>. QED BY <2>1, <2>3, <2>4, LenProperties
<1>2. /\ a \o b \in Seq(FtpBytes) /\ Len(a \o b) = Len(a) + Len(b) /\ Len(a) \in Nat /\ Len(b) \in Nat
      /\ \A i \in 1 .. Len(a) + Len(b) : (a \o b)[i] = IF i <= Len(a) THEN a[i] ELSE b[i - Len(a)]
  BY ConcatProperties, LenProperties
<1>3. M(a \o b) = M(a) \o M(b)
  <2>. DEFINE ab == a \o b
  <2>1. M(ab) \in Seq(U) /\ Len(M(ab)) = Len(a) + Len(b) /\ DOMAIN ab = 1 .. Len(a) + Len(b)
    BY <1>1, <1>2
  <2>2. /\ M(a) \in Seq(U) /\ M(b) \in Seq(U) /\ Len(M(a)) = Len(a) /\ Len(M(b)) = Len(b)
        /\ DOMAIN a = 1 .. Len(a) /\ DOMAIN b = 1 .. Len(b)
    BY <1>1
  <2>3. ASSUME NEW i \in 1 .. Len(a) PROVE M(ab)[i] = M(a)[i]
    <3>1. i \in 1 .. Len(a) + Len(b) /\ i <= Len(a)
      BY <1>2
    <3>. QED BY <1>2, <2>1, <2>2, <3>1
  <2>4. ASSUME NEW i \in 1 .. Len(b) PROVE M(ab)[Len(a) + i] = M(b)[i]
    <3>. DEFINE k == Len(a) + i
    <3>1. k \in 1 .. Len(a) + Len(b) /\ ~(k <= Len(a)) /\ k - Len(a) = i
      BY <1>2
    <3>. HIDE DEF k
    <3>. QED BY <1>2, <2>1, <2>2, <3>1 DEF k
  <2>. DEFINE x == M(a)
              y == M(b)
              z == M(ab)
  <2>5. /\ x \in Seq(U) /\ y \in Seq(U) /\ z \in Seq(U) /\ Len(z) = Len(x) + Len(y)
        /\ \A i \in 1 .. Len(x) : z[i] = x[i]
        /\ \A i \in 1 .. Len(y) : z[Len(x) + i] = y[i]
    BY <2>1, <2>2, <2>3, <2>4
  <2>. HIDE DEF x, y, z, U
  <2>6. z = x \o y
    BY <2>5, IsConcat
  <2>. QED BY <2>6 DEF x, y, z
<1>4. \A s : Crlf(s) = FlattenSeq(M(s))
  BY DEF Crlf, CrlfOf
<1>5. M(a) \in Seq(Seq(FtpBytes)) /\ M(b) \in Seq(Seq(FtpBytes))
  BY <1>1
<1>. HIDE DEF M
<1>. QED BY <1>3, <1>4, <1>5, FlattenConcat

\* A byte that stays: not the CR of a CRLF.
KeptOf(s, i) == IF s[i] = "CR" /\ i < Len(s) /\ s[i + 1] = "LF" THEN <<>> ELSE <<s[i]>>

\* Removing the CR of each CRLF a block at a time, as long as no block ends in CR.
LEMMA KeptConcat ==
  ASSUME NEW a \in Seq(FtpBytes), NEW b \in Seq(FtpBytes), a = <<>> \/ a[Len(a)] # "CR"
  PROVE  Kept(a \o b, 1) = Kept(a, 1) \o Kept(b, 1)
<1>. DEFINE U == Seq(FtpBytes)
            M(s) == [i \in DOMAIN s |-> KeptOf(s, i)]
<1>1. ASSUME NEW s \in Seq(FtpBytes) PROVE M(s) \in Seq(U) /\ Len(M(s)) = Len(s) /\ DOMAIN s = 1 .. Len(s)
  <2>1. Len(s) \in Nat /\ DOMAIN s = 1 .. Len(s) /\ \A i \in 1 .. Len(s) : s[i] \in FtpBytes
    BY LenProperties, ElementOfSeq
  <2>2. \A i \in 1 .. Len(s) : KeptOf(s, i) \in U
    BY <2>1 DEF KeptOf
  <2>. HIDE DEF U
  <2>3. M(s) = [i \in 1 .. Len(s) |-> KeptOf(s, i)]
    BY <2>1
  <2>4. M(s) \in Seq(U)
    BY <2>1, <2>2, <2>3, IsASeq
  <2>. QED BY <2>1, <2>3, <2>4, LenProperties
<1>2. /\ a \o b \in Seq(FtpBytes) /\ Len(a \o b) = Len(a) + Len(b) /\ Len(a) \in Nat /\ Len(b) \in Nat
      /\ \A i \in 1 .. Len(a) + Len(b) : (a \o b)[i] = IF i <= Len(a) THEN a[i] ELSE b[i - Len(a)]
  BY ConcatProperties, LenProperties
<1>3. M(a \o b) = M(a) \o M(b)
  <2>. DEFINE ab == a \o b
  <2>1. M(ab) \in Seq(U) /\ Len(M(ab)) = Len(a) + Len(b) /\ DOMAIN ab = 1 .. Len(a) + Len(b)
    BY <1>1, <1>2
  <2>2. /\ M(a) \in Seq(U) /\ M(b) \in Seq(U) /\ Len(M(a)) = Len(a) /\ Len(M(b)) = Len(b)
        /\ DOMAIN a = 1 .. Len(a) /\ DOMAIN b = 1 .. Len(b)
    BY <1>1
  <2>3. ASSUME NEW i \in 1 .. Len(a) PROVE M(ab)[i] = M(a)[i]
    <3>1. i \in 1 .. Len(a) + Len(b) /\ i <= Len(a) /\ ab[i] = a[i] /\ i \in Nat
      BY <1>2
    <3>2. CASE i < Len(a)
      <4>1. i + 1 \in 1 .. Len(a) + Len(b) /\ i + 1 <= Len(a) /\ i < Len(ab)
        BY <1>2, <3>2
      <4>2. ab[i + 1] = a[i + 1]
        BY <1>2, <4>1
      <4>3. KeptOf(ab, i) = KeptOf(a, i)
        <5>. HIDE DEF ab
        <5>. QED BY <3>1, <3>2, <4>1, <4>2 DEF KeptOf
      <4>. QED BY <2>1, <2>2, <3>1, <4>3
    <3>3. CASE i = Len(a)
      <4>1. a # <<>>
        BY <1>2, <3>3
      <4>2. a[i] # "CR"
        BY <3>3, <4>1
      <4>3. KeptOf(ab, i) = KeptOf(a, i)
        <5>. HIDE DEF ab
        <5>. QED BY <3>1, <4>2 DEF KeptOf
      <4>. QED BY <2>1, <2>2, <3>1, <4>3
    <3>. QED BY <1>2, <3>1, <3>2, <3>3
  <2>4. ASSUME NEW i \in 1 .. Len(b) PROVE M(ab)[Len(a) + i] = M(b)[i]
    <3>. DEFINE k == Len(a) + i
    <3>1. /\ k \in 1 .. Len(a) + Len(b) /\ ~(k <= Len(a)) /\ k - Len(a) = i
          /\ (k < Len(ab) <=> i < Len(b)) /\ i \in Nat
      BY <1>2
    <3>2. ab[k] = b[i]
      BY <1>2, <3>1
    <3>3. k < Len(ab) => ab[k + 1] = b[i + 1]
      <4>. SUFFICES ASSUME k < Len(ab) PROVE ab[k + 1] = b[i + 1]
        OBVIOUS
      <4>1. k + 1 \in 1 .. Len(a) + Len(b) /\ ~(k + 1 <= Len(a)) /\ k + 1 - Len(a) = i + 1
        BY <1>2, <3>1
      <4>. QED BY <1>2, <4>1
    <3>4. KeptOf(ab, k) = KeptOf(b, i)
      <4>. HIDE DEF k, ab
      <4>. QED BY <3>1, <3>2, <3>3 DEF KeptOf
    <3>. HIDE DEF k
    <3>. QED BY <2>1, <2>2, <3>1, <3>4 DEF k
  <2>. DEFINE x == M(a)
              y == M(b)
              z == M(ab)
  <2>5. /\ x \in Seq(U) /\ y \in Seq(U) /\ z \in Seq(U) /\ Len(z) = Len(x) + Len(y)
        /\ \A i \in 1 .. Len(x) : z[i] = x[i]
        /\ \A i \in 1 .. Len(y) : z[Len(x) + i] = y[i]
    BY <2>1, <2>2, <2>3, <2>4
  <2>. HIDE DEF x, y, z, U
  <2>6. z = x \o y
    BY <2>5, IsConcat
  <2>. QED BY <2>6 DEF x, y, z
<1>4. ASSUME NEW s \in Seq(FtpBytes) PROVE Kept(s, 1) = FlattenSeq(M(s))
  <2>1. ASSUME NEW i \in DOMAIN s
        PROVE  KeptOf(s, i) = IF i < 1 \/ (s[i] = "CR" /\ i < Len(s) /\ s[i + 1] = "LF") THEN <<>> ELSE <<s[i]>>
    <3>1. i \in 1 .. Len(s) /\ Len(s) \in Nat
      BY LenProperties
    <3>2. ~(i < 1)
      BY <3>1
    <3>. QED BY <3>2 DEF KeptOf
  <2>2. M(s) = [i \in DOMAIN s |-> IF i < 1 \/ (s[i] = "CR" /\ i < Len(s) /\ s[i + 1] = "LF")
                                   THEN <<>> ELSE <<s[i]>>]
    BY <2>1
  <2>. HIDE DEF M
  <2>. QED BY <2>2 DEF Kept
<1>5. M(a) \in Seq(Seq(FtpBytes)) /\ M(b) \in Seq(Seq(FtpBytes))
  BY <1>1
<1>6. Kept(a \o b, 1) = FlattenSeq(M(a \o b)) /\ Kept(a, 1) = FlattenSeq(M(a)) /\ Kept(b, 1) = FlattenSeq(M(b))
  BY <1>2, <1>4
<1>. DEFINE x == M(a)
            y == M(b)
<1>. HIDE DEF M, x, y
<1>7. FlattenSeq(x \o y) = FlattenSeq(x) \o FlattenSeq(y)
  <2>1. x \in Seq(Seq(FtpBytes)) /\ y \in Seq(Seq(FtpBytes))
    BY <1>5 DEF x, y
  <2>. QED BY <2>1, FlattenConcat
<1>. QED BY <1>3, <1>6, <1>7 DEF x, y

LEMMA KeptType ==
  ASSUME NEW s \in Seq(FtpBytes), NEW start
  PROVE  Kept(s, start) \in Seq(FtpBytes)
<1>. DEFINE U == Seq(FtpBytes)
            m == [i \in DOMAIN s |->
                    IF i < start \/ (s[i] = "CR" /\ i < Len(s) /\ s[i + 1] = "LF") THEN <<>> ELSE <<s[i]>>]
<1>1. Len(s) \in Nat /\ DOMAIN s = 1 .. Len(s) /\ \A i \in 1 .. Len(s) : s[i] \in FtpBytes
  BY LenProperties, ElementOfSeq
<1>2. \A i \in 1 .. Len(s) : m[i] \in U
  BY <1>1
<1>3. m = [i \in 1 .. Len(s) |-> m[i]]
  BY <1>1
<1>4. Kept(s, start) = FlattenSeq(m)
  BY DEF Kept
<1>. HIDE DEF m
<1>5. m \in Seq(U)
  <2>. HIDE DEF U
  <2>. QED BY <1>1, <1>2, <1>3, IsASeq
<1>. QED BY <1>4, <1>5, FlattenConcat

\* What lfs_file_write leaves of a file, byte by byte.
WrittenLen(d, p, o) == IF Len(o) = 0 \/ p + Len(o) <= Len(d) THEN Len(d) ELSE p + Len(o)
WrittenByte(d, p, o, k) ==
  IF p < k /\ k <= p + Len(o) THEN o[k - p] ELSE IF k <= Len(d) THEN d[k] ELSE "0"

LEMMA WrittenIs ==
  ASSUME NEW d \in Seq(FtpBytes), NEW p \in Nat, NEW o \in Seq(FtpBytes)
  PROVE  /\ Written(d, p, o) \in Seq(FtpBytes)
         /\ Len(Written(d, p, o)) = WrittenLen(d, p, o)
         /\ \A k \in 1 .. WrittenLen(d, p, o) : Written(d, p, o)[k] = WrittenByte(d, p, o, k)
<1>. DEFINE n == IF Len(o) = 0 \/ p + Len(o) <= Len(d) THEN Len(d) ELSE p + Len(o)
            V(k) == IF p < k /\ k <= p + Len(o) THEN o[k - p] ELSE IF k <= Len(d) THEN d[k] ELSE "0"
<1>1. Len(d) \in Nat /\ Len(o) \in Nat /\ p + Len(o) \in Nat /\ (o = <<>> <=> Len(o) = 0)
  BY LenProperties, EmptySeq
<1>2. n = IF o = <<>> THEN Len(d) ELSE Max({Len(d), p + Len(o)})
  BY <1>1, MaxPair
<1>3. ASSUME NEW k \in 1 .. n
      PROVE  /\ V(k) \in FtpBytes
             /\ V(k) = IF k \in p + 1 .. p + Len(o) THEN o[k - p] ELSE IF k <= Len(d) THEN d[k] ELSE "0"
  <2>1. n \in Nat
    BY <1>1
  <2>2. CASE p < k /\ k <= p + Len(o)
    <3>1. k - p \in 1 .. Len(o) /\ k \in p + 1 .. p + Len(o)
      BY <1>1, <2>1, <2>2
    <3>. QED BY <2>2, <3>1, ElementOfSeq
  <2>3. CASE ~(p < k /\ k <= p + Len(o))
    <3>1. k \notin p + 1 .. p + Len(o) /\ (k <= Len(d) => k \in 1 .. Len(d))
      BY <1>1, <2>1, <2>3
    <3>. QED BY <2>3, <3>1, ElementOfSeq, FtpdAssumption
  <2>. QED BY <2>2, <2>3
<1>4. n \in Nat
  BY <1>1
<1>. DEFINE w == [k \in 1 .. n |-> V(k)]
<1>5. Written(d, p, o) = w
  <2>. HIDE DEF n, V
  <2>. QED BY <1>2, <1>3 DEF Written
<1>6. w \in Seq(FtpBytes) /\ Len(w) = n /\ \A k \in 1 .. n : w[k] = V(k)
  <2>. HIDE DEF n, V
  <2>1. w \in Seq(FtpBytes)
    BY <1>3, <1>4, IsASeq
  <2>. QED BY <1>4, <2>1, LenProperties
<1>. QED BY <1>5, <1>6 DEF WrittenLen, WrittenByte

\* Writing nothing, into an empty file and behind a file.
LEMMA WrittenSpecial ==
  ASSUME NEW d \in Seq(FtpBytes), NEW o \in Seq(FtpBytes)
  PROVE  /\ Written(<<>>, 0, o) = o /\ Written(d, Len(d), o) = d \o o
         /\ \A p \in Nat : Written(d, p, <<>>) = d
<1>0. Len(d) \in Nat /\ Len(o) \in Nat /\ <<>> \in Seq(FtpBytes) /\ Len(<<>>) = 0 /\ (o = <<>> <=> Len(o) = 0)
  BY LenProperties, EmptySeq
<1>1. Written(<<>>, 0, o) = o
  <2>. DEFINE w == Written(<<>>, 0, o)
  <2>1. /\ w \in Seq(FtpBytes) /\ Len(w) = Len(o) /\ \A k \in 1 .. Len(o) : w[k] = o[k]
    <3>1. /\ w \in Seq(FtpBytes) /\ Len(w) = WrittenLen(<<>>, 0, o)
          /\ \A k \in 1 .. WrittenLen(<<>>, 0, o) : w[k] = WrittenByte(<<>>, 0, o, k)
      <4>. DEFINE e == <<>>
                  p == 0
      <4>1. e \in Seq(FtpBytes) /\ p \in Nat
        BY <1>0
      <4>. HIDE DEF e, p
      <4>2. /\ Written(e, p, o) \in Seq(FtpBytes)
            /\ Len(Written(e, p, o)) = WrittenLen(e, p, o)
            /\ \A k \in 1 .. WrittenLen(e, p, o) : Written(e, p, o)[k] = WrittenByte(e, p, o, k)
        BY <4>1, WrittenIs
      <4>. QED BY <4>2 DEF e, p
    <3>2. WrittenLen(<<>>, 0, o) = Len(o) /\ \A k \in 1 .. Len(o) : WrittenByte(<<>>, 0, o, k) = o[k]
      BY <1>0 DEF WrittenLen, WrittenByte
    <3>. QED BY <3>1, <3>2
  <2>. HIDE DEF w
  <2>2. w = o
    BY <2>1, SeqEqual
  <2>. QED BY <2>2 DEF w
<1>2. Written(d, Len(d), o) = d \o o
  <2>. DEFINE w == Written(d, Len(d), o)
              n == Len(d) + Len(o)
  <2>1. /\ w \in Seq(FtpBytes) /\ Len(w) = WrittenLen(d, Len(d), o)
        /\ \A k \in 1 .. WrittenLen(d, Len(d), o) : w[k] = WrittenByte(d, Len(d), o, k)
    <3>. DEFINE p == Len(d)
    <3>1. p \in Nat
      BY <1>0
    <3>. HIDE DEF p
    <3>2. /\ Written(d, p, o) \in Seq(FtpBytes)
          /\ Len(Written(d, p, o)) = WrittenLen(d, p, o)
          /\ \A k \in 1 .. WrittenLen(d, p, o) : Written(d, p, o)[k] = WrittenByte(d, p, o, k)
      BY <3>1, WrittenIs
    <3>. QED BY <3>2 DEF p
  <2>. HIDE DEF w
  <2>2. Len(w) = n /\ \A k \in 1 .. n : w[k] = IF Len(d) < k THEN o[k - Len(d)] ELSE d[k]
    BY <1>0, <2>1 DEF WrittenLen, WrittenByte
  <2>3. \A k \in 1 .. Len(d) : w[k] = d[k]
    BY <1>0, <2>2
  <2>4. ASSUME NEW k \in 1 .. Len(o) PROVE w[Len(d) + k] = o[k]
    <3>1. Len(d) + k \in 1 .. n /\ Len(d) < Len(d) + k /\ Len(d) + k - Len(d) = k
      BY <1>0
    <3>. QED BY <2>2, <3>1
  <2>5. w = d \o o
    BY <2>1, <2>2, <2>3, <2>4, IsConcat
  <2>. QED BY <2>5 DEF w
<1>3. ASSUME NEW p \in Nat PROVE Written(d, p, <<>>) = d
  <2>. DEFINE w == Written(d, p, <<>>)
  <2>1. /\ w \in Seq(FtpBytes) /\ Len(w) = WrittenLen(d, p, <<>>)
        /\ \A k \in 1 .. WrittenLen(d, p, <<>>) : w[k] = WrittenByte(d, p, <<>>, k)
    BY <1>0, WrittenIs
  <2>2. Len(w) = Len(d) /\ \A k \in 1 .. Len(d) : w[k] = d[k]
    <3>1. WrittenLen(d, p, <<>>) = Len(d)
      BY <1>0 DEF WrittenLen
    <3>2. ASSUME NEW k \in 1 .. Len(d) PROVE WrittenByte(d, p, <<>>, k) = d[k]
      BY <1>0 DEF WrittenByte
    <3>. HIDE DEF w
    <3>. QED BY <2>1, <3>1, <3>2
  <2>. HIDE DEF w
  <2>3. w = d
    BY <2>1, <2>2, SeqEqual
  <2>. QED BY <2>3 DEF w
<1>. QED BY <1>1, <1>2, <1>3

\* Two blocks written one behind the other are one block written.
LEMMA WrittenTwice ==
  ASSUME NEW d \in Seq(FtpBytes), NEW p \in Nat, NEW a \in Seq(FtpBytes), NEW b \in Seq(FtpBytes)
  PROVE  Written(Written(d, p, a), p + Len(a), b) = Written(d, p, a \o b)
<1>. DEFINE v == Written(d, p, a)
            q == p + Len(a)
            w == Written(v, q, b)
            c == a \o b
            u == Written(d, p, c)
            nv == IF Len(a) = 0 \/ p + Len(a) <= Len(d) THEN Len(d) ELSE p + Len(a)
            nw == IF Len(b) = 0 \/ q + Len(b) <= Len(v) THEN Len(v) ELSE q + Len(b)
            nu == IF Len(c) = 0 \/ p + Len(c) <= Len(d) THEN Len(d) ELSE p + Len(c)
<1>0. /\ Len(d) \in Nat /\ Len(a) \in Nat /\ Len(b) \in Nat /\ q \in Nat
  BY LenProperties
<1>1. /\ c \in Seq(FtpBytes) /\ Len(c) = Len(a) + Len(b)
      /\ \A i \in 1 .. Len(a) + Len(b) : c[i] = IF i <= Len(a) THEN a[i] ELSE b[i - Len(a)]
  BY ConcatProperties
<1>2. Len(c) = Len(a) + Len(b)
  BY <1>1
<1>. HIDE DEF c
<1>3. /\ v \in Seq(FtpBytes) /\ Len(v) = nv
      /\ \A k \in 1 .. nv : v[k] =
           IF p < k /\ k <= p + Len(a) THEN a[k - p] ELSE IF k <= Len(d) THEN d[k] ELSE "0"
  BY WrittenIs DEF WrittenLen, WrittenByte
<1>. HIDE DEF v
<1>4. /\ w \in Seq(FtpBytes) /\ Len(w) = nw
      /\ \A k \in 1 .. nw : w[k] =
           IF q < k /\ k <= q + Len(b) THEN b[k - q] ELSE IF k <= Len(v) THEN v[k] ELSE "0"
  <2>. HIDE DEF q
  <2>. QED BY <1>0, <1>3, WrittenIs DEF WrittenLen, WrittenByte
<1>5. /\ u \in Seq(FtpBytes) /\ Len(u) = nu
      /\ \A k \in 1 .. nu : u[k] =
           IF p < k /\ k <= p + Len(c) THEN c[k - p] ELSE IF k <= Len(d) THEN d[k] ELSE "0"
  BY <1>1, WrittenIs DEF WrittenLen, WrittenByte
<1>. HIDE DEF w, u
<1>6. nw = nu
  <2>. DEFINE la == Len(a)
              lb == Len(b)
              lc == Len(c)
              ld == Len(d)
              lv == Len(v)
  <2>1. /\ la \in Nat /\ lb \in Nat /\ ld \in Nat /\ lc = la + lb
        /\ lv = IF la = 0 \/ p + la <= ld THEN ld ELSE p + la
    BY <1>0, <1>1, <1>3
  <2>. HIDE DEF la, lb, lc, ld, lv
  <2>2. (IF lb = 0 \/ p + la + lb <= lv THEN lv ELSE p + la + lb)
          = IF lc = 0 \/ p + lc <= ld THEN ld ELSE p + lc
    BY <2>1
  <2>. QED BY <2>2 DEF la, lb, lc, ld, lv
<1>7. ASSUME NEW k \in 1 .. nu PROVE w[k] = u[k]
  <2>0. k \in Nat /\ k > 0 /\ nu \in Nat /\ k <= nu
    BY <1>0, <1>1
  <2>1. CASE p < k /\ k <= q
    <3>1. k - p \in 1 .. Len(a) + Len(b) /\ k - p <= Len(a) /\ k <= p + Len(c) /\ ~(q < k)
      BY <1>0, <1>2, <2>0, <2>1
    <3>2. u[k] = a[k - p]
      BY <1>1, <1>5, <2>1, <3>1
    <3>3. Len(a) # 0 /\ k \in 1 .. nv /\ k <= Len(v)
      BY <1>0, <1>3, <2>0, <2>1
    <3>4. v[k] = a[k - p]
      BY <1>3, <2>1, <3>3
    <3>. QED BY <1>4, <1>6, <3>1, <3>2, <3>3, <3>4
  <2>2. CASE q < k /\ k <= q + Len(b)
    <3>1. /\ k - p \in 1 .. Len(a) + Len(b) /\ ~(k - p <= Len(a)) /\ k - p - Len(a) = k - q
          /\ p < k /\ k <= p + Len(c)
      BY <1>0, <1>2, <2>0, <2>2
    <3>2. u[k] = b[k - q]
      BY <1>1, <1>5, <3>1
    <3>. QED BY <1>4, <1>6, <2>2, <3>2
  <2>3. CASE ~(p < k /\ k <= q + Len(b))
    <3>1. /\ ~(p < k /\ k <= p + Len(c)) /\ ~(q < k /\ k <= q + Len(b)) /\ ~(p < k /\ k <= p + Len(a))
      BY <1>0, <1>2, <2>0, <2>3
    <3>2. u[k] = IF k <= Len(d) THEN d[k] ELSE "0"
      BY <1>5, <3>1
    <3>3. w[k] = IF k <= Len(v) THEN v[k] ELSE "0"
      BY <1>4, <1>6, <3>1
    <3>4. CASE k <= Len(v)
      <4>1. k \in 1 .. nv
        BY <1>3, <2>0, <3>4
      <4>. QED BY <1>3, <3>1, <3>2, <3>3, <3>4, <4>1
    <3>5. CASE ~(k <= Len(v))
      <4>1. ~(k <= Len(d))
        BY <1>0, <1>3, <2>0, <3>5
      <4>. QED BY <3>2, <3>3, <3>5, <4>1
    <3>. QED BY <3>4, <3>5
  <2>. QED BY <1>0, <2>0, <2>1, <2>2, <2>3
<1>8. w = u
  <2>1. Len(w) = Len(u) /\ \A k \in 1 .. Len(w) : w[k] = u[k]
    BY <1>4, <1>5, <1>6, <1>7
  <2>. QED BY <1>4, <1>5, <2>1, SeqEqual
<1>. QED BY <1>8 DEF w, u, v, c

\* Of a session the transfers depend on the offset.
FtpSession(s) == "rest" \in DOMAIN s /\ s.rest \in Nat

FtpFilesOK(disk) == \A p \in DOMAIN disk : disk[p] \in Seq(FtpBytes)

FtpTypeOK ==
  /\ fsess = [i \in FSlots |-> fsess[i]] /\ \A i \in FSlots : FtpSession(fsess[i])
  /\ asked \in [FSlots -> Nat] /\ FtpFilesOK(fdisk)

\* The offset a session keeps is the one asked for; a transfer has used it up, and
\* clears it when it ends.
Transferring(i) == ftask.at \in {"retr", "stor"} /\ ftask.s = i
OffsetsAgree ==
  \A i \in FSlots : IF Transferring(i) THEN asked[i] = 0 ELSE fsess[i].rest = asked[i]

Listing ==
  ftask.at \in {"list", "entry"} => ftask = [at |-> ftask.at, s |-> ftask.s, left |-> ftask.left]

\* What a download sends for a piece of the file.
Sends(ascii, d) == IF ascii THEN Crlf(d) ELSE d
SendsFrom(ascii, d, k, n) == Sends(ascii, SubSeq(d, k + 1, n))

\* A download t has sent the file from the offset asked for to its position.
DownloadOK(t, ascii) ==
  /\ t = [at |-> "retr", s |-> t.s, data |-> t.data, pos |-> t.pos, sent |-> t.sent, want |-> t.want]
  /\ t.s \in FSlots /\ t.data \in Seq(FtpBytes) /\ t.pos \in Nat /\ t.want \in Nat /\ t.want <= t.pos
  /\ IF t.pos <= Len(t.data) THEN t.sent = SendsFrom(ascii, t.data, t.want, t.pos)
     ELSE t.sent = <<>>

\* What an upload w is to store, into which file and from where on.
Stores(ascii, raw) == IF ascii THEN Unix(raw) ELSE raw
Into(w) == IF w.appe \/ w.at > 0 THEN w.old ELSE <<>>
From(w) == IF w.appe THEN Len(w.old) ELSE w.at

WantOK(w) ==
  /\ w = [old |-> w.old, appe |-> w.appe, at |-> w.at, raw |-> w.raw]
  /\ w.old \in Seq(FtpBytes) /\ w.appe \in BOOLEAN /\ w.at \in Nat /\ w.raw \in Seq(FtpBytes)

\* An upload t has stored what came so far and stands behind it.
UploadOK(t, ascii) ==
  /\ t = [at |-> "stor", s |-> t.s, path |-> t.path, data |-> t.data, pos |-> t.pos, cr |-> t.cr,
          split |-> t.split, want |-> t.want]
  /\ t.s \in FSlots /\ t.data \in Seq(FtpBytes) /\ t.pos \in Nat /\ WantOK(t.want)
  /\ t.cr \in BOOLEAN /\ t.split \in BOOLEAN
  /\ ~t.split =>
       /\ ~t.cr
       /\ t.data = Written(Into(t.want), From(t.want), Stores(ascii, t.want.raw))
       /\ t.pos = From(t.want) + Len(Stores(ascii, t.want.raw))
       /\ ascii => t.want.raw = <<>> \/ t.want.raw[Len(t.want.raw)] # "CR"

FtpInv ==
  /\ FtpTypeOK /\ OffsetsAgree /\ Listing
  /\ ftask.at = "retr" => DownloadOK(ftask, fsess[ftask.s].ascii)
  /\ ftask.at = "stor" => UploadOK(ftask, fsess[ftask.s].ascii)

\* A command leaves the task waiting for the next one.
LEMMA CommandInv ==
  ASSUME FtpInv, ftask = Selecting, NEW i \in FSlots,
         ftask' = Selecting \/ (ftask'.at \in {"list", "entry"} /\ Listing'),
         fsess' = [j \in FSlots |-> fsess'[j]], asked' = [j \in FSlots |-> asked'[j]],
         \A j \in FSlots : j # i => fsess'[j] = fsess[j] /\ asked'[j] = asked[j],
         FtpSession(fsess'[i]), fsess'[i].rest = asked'[i], FtpFilesOK(fdisk')
  PROVE  FtpInv'
<1>1. ~(ftask.at \in {"retr", "stor"}) /\ ~(ftask'.at \in {"retr", "stor"})
  BY DEF Selecting
<1>2. Listing'
  BY DEF Selecting, Listing
<1>3. ASSUME NEW j \in FSlots PROVE FtpSession(fsess'[j]) /\ fsess'[j].rest = asked'[j] /\ asked'[j] \in Nat
  <2>1. CASE j = i
    BY <2>1 DEF FtpSession
  <2>2. CASE j # i
    BY <1>1, <2>2 DEF FtpInv, FtpTypeOK, OffsetsAgree, Transferring
  <2>. QED BY <2>1, <2>2
<1>4. OffsetsAgree'
  BY <1>1, <1>3 DEF OffsetsAgree, Transferring
<1>5. FtpTypeOK'
  BY <1>3 DEF FtpTypeOK, FtpFilesOK
<1>. QED BY <1>1, <1>2, <1>4, <1>5 DEF FtpInv

\* What a command finds.
LEMMA SessionFacts ==
  ASSUME FtpInv, ftask = Selecting, NEW i \in FSlots
  PROVE  /\ fsess = [j \in FSlots |-> fsess[j]] /\ FtpSession(fsess[i]) /\ FtpSession(NoData(fsess[i]))
         /\ asked \in [FSlots -> Nat] /\ fsess[i].rest = asked[i] /\ NoData(fsess[i]).rest = asked[i]
         /\ FtpFilesOK(fdisk)
<1>1. FtpSession(fsess[i]) /\ fsess[i].rest = asked[i]
  BY DEF FtpInv, FtpTypeOK, OffsetsAgree, Transferring, Selecting
<1>2. FtpSession(NoData(fsess[i])) /\ NoData(fsess[i]).rest = fsess[i].rest
  BY <1>1 DEF NoData, FtpSession
<1>. QED BY <1>1, <1>2 DEF FtpInv, FtpTypeOK

\* A command that puts v in the place of its session.
LEMMA SessionIs ==
  ASSUME FtpInv, ftask = Selecting, ftask' = Selecting, NEW i \in FSlots, NEW v, FtpSession(v),
         fsess' = [fsess EXCEPT ![i] = v], FtpFilesOK(fdisk'),
         \/ v.rest = fsess[i].rest /\ asked' = asked
         \/ asked' = [asked EXCEPT ![i] = v.rest]
  PROVE  FtpInv'
<1>1. /\ fsess = [j \in FSlots |-> fsess[j]] /\ asked \in [FSlots -> Nat] /\ fsess[i].rest = asked[i]
  BY SessionFacts
<1>2. /\ fsess' = [j \in FSlots |-> fsess'[j]] /\ fsess'[i] = v /\ \A j \in FSlots : j # i => fsess'[j] = fsess[j]
  BY <1>1
<1>3. /\ asked' = [j \in FSlots |-> asked'[j]] /\ asked'[i] = v.rest /\ \A j \in FSlots : j # i => asked'[j] = asked[j]
  BY <1>1
<1>. QED BY <1>2, <1>3, CommandInv

\* A command that changes fields of its session.
LEMMA SessionCmdInv ==
  ASSUME FtpInv, ftask = Selecting, NEW i \in FSlots, SessionCmd(i)
  PROVE  FtpInv'
<1>0. /\ ftask' = Selecting /\ FtpFilesOK(fdisk') /\ FtpSession(fsess[i])
      /\ fsess = [j \in FSlots |-> fsess[j]] /\ asked \in [FSlots -> Nat]
      /\ fsess[i].rest = asked[i]
  BY SessionFacts DEF SessionCmd, fFiles
<1>1. ASSUME /\ fsess' = [j \in FSlots |-> fsess'[j]] /\ "rest" \in DOMAIN fsess'[i]
             /\ fsess'[i].rest = fsess[i].rest /\ \A j \in FSlots : j # i => fsess'[j] = fsess[j],
             asked' = asked
      PROVE  FtpInv'
  <2>1. FtpSession(fsess'[i])
    BY <1>0, <1>1 DEF FtpSession
  <2>2. asked' = [j \in FSlots |-> asked'[j]]
    BY <1>0, <1>1
  <2>. QED BY <1>0, <1>1, <2>1, <2>2, CommandInv
<1>2. ASSUME NEW a, fsess' = [fsess EXCEPT ![i].anon = a, ![i].from = NoPath], asked' = asked
      PROVE  FtpInv'
  BY <1>0, <1>1, <1>2 DEF FtpSession
<1>3. ASSUME NEW a, fsess' = [fsess EXCEPT ![i].authed = a], asked' = asked
      PROVE  FtpInv'
  BY <1>0, <1>1, <1>3 DEF FtpSession
<1>4. ASSUME NEW a, fsess' = [fsess EXCEPT ![i].ascii = a], asked' = asked
      PROVE  FtpInv'
  BY <1>0, <1>1, <1>4 DEF FtpSession
<1>5. ASSUME NEW a, fsess' = [fsess EXCEPT ![i].cwd = a], asked' = asked
      PROVE  FtpInv'
  BY <1>0, <1>1, <1>5 DEF FtpSession
<1>6. ASSUME NEW a \in Rests, fsess' = [fsess EXCEPT ![i].rest = a], asked' = [asked EXCEPT ![i] = a]
      PROVE  FtpInv'
  <2>0. a \in Nat
    BY FtpdAssumption
  <2>1. /\ fsess' = [j \in FSlots |-> fsess'[j]] /\ FtpSession(fsess'[i]) /\ fsess'[i].rest = a
        /\ \A j \in FSlots : j # i => fsess'[j] = fsess[j]
    BY <1>0, <1>6, <2>0 DEF FtpSession
  <2>2. /\ asked' = [j \in FSlots |-> asked'[j]] /\ asked'[i] = a
        /\ \A j \in FSlots : j # i => asked'[j] = asked[j]
    BY <1>0, <1>6
  <2>. QED BY <1>0, <2>1, <2>2, CommandInv
<1>. QED BY <1>2, <1>3, <1>4, <1>5, <1>6 DEF SessionCmd

LEMMA QuitInv ==
  ASSUME FtpInv, ftask = Selecting, NEW i \in FSlots, Quit(i)
  PROVE  FtpInv'
<1>1. /\ ftask' = Selecting /\ FtpFilesOK(fdisk') /\ FtpSession(fsess[i])
      /\ fsess = [j \in FSlots |-> fsess[j]] /\ asked \in [FSlots -> Nat]
      /\ fsess[i].rest = asked[i] /\ asked' = asked /\ fsess' = [fsess EXCEPT ![i].up = FALSE]
  BY SessionFacts DEF Quit, fFiles
<1>2. /\ fsess' = [j \in FSlots |-> fsess'[j]] /\ FtpSession(fsess'[i])
      /\ fsess'[i].rest = fsess[i].rest /\ \A j \in FSlots : j # i => fsess'[j] = fsess[j]
  BY <1>1 DEF FtpSession
<1>3. asked' = [j \in FSlots |-> asked'[j]]
  BY <1>1
<1>. QED BY <1>1, <1>2, <1>3, CommandInv

LEMMA DataCmdInv ==
  ASSUME FtpInv, ftask = Selecting, NEW i \in FSlots, DataCmd(i)
  PROVE  FtpInv'
<1>0. /\ ftask' = Selecting /\ FtpFilesOK(fdisk') /\ asked' = asked
      /\ FtpSession(NoData(fsess[i])) /\ NoData(fsess[i]).rest = fsess[i].rest
  BY SessionFacts DEF DataCmd, fFiles
<1>. DEFINE d == NoData(fsess[i])
<1>1. ASSUME NEW r, fsess' = [fsess EXCEPT ![i] = [d EXCEPT !.listen = r]] PROVE FtpInv'
  <2>. DEFINE v == [d EXCEPT !.listen = r]
  <2>1. FtpSession(v) /\ v.rest = fsess[i].rest
    <3>. HIDE DEF d
    <3>. QED BY <1>0 DEF FtpSession, d
  <2>. HIDE DEF v
  <2>. QED BY <1>0, <1>1, <2>1, SessionIs DEF v
<1>2. ASSUME fsess' = [fsess EXCEPT ![i] = [d EXCEPT !.port = TRUE]] PROVE FtpInv'
  <2>. DEFINE v == [d EXCEPT !.port = TRUE]
  <2>1. FtpSession(v) /\ v.rest = fsess[i].rest
    <3>. HIDE DEF d
    <3>. QED BY <1>0 DEF FtpSession, d
  <2>. HIDE DEF v
  <2>. QED BY <1>0, <1>2, <2>1, SessionIs DEF v
<1>. QED BY <1>1, <1>2 DEF DataCmd, Pasv, Port

\* The end of a session, and a new one.
LEMMA FtpCloseInv ==
  ASSUME FtpInv, ftask = Selecting, NEW i \in FSlots, FtpClose(i)
  PROVE  FtpInv'
<1>1. FtpSession(FClosed) /\ FClosed.rest = 0
  BY DEF FClosed, FtpSession
<1>. QED BY <1>1, SessionIs, SessionFacts DEF FtpClose, fFiles

LEMMA FtpAcceptInv ==
  ASSUME FtpInv, ftask = Selecting, FtpAccept
  PROVE  FtpInv'
<1>. DEFINE free == {j \in FSlots : ~fsess[j].up}
            i == Min(free)
            v == [FClosed EXCEPT !.up = TRUE]
<1>1. i \in FSlots
  <2>1. free # {} /\ free \subseteq Nat
    BY FtpdAssumption DEF FtpAccept
  <2>2. i \in free
    <3>. HIDE DEF free
    <3>1. PICK m \in free : \A x \in free : m <= x
      BY <2>1, LeastNatural
    <3>. QED BY <2>1, <3>1 DEF Min
  <2>. QED BY <2>2
<1>2. FtpSession(v) /\ v.rest = 0
  BY DEF FClosed, FtpSession
<1>3. /\ fsess' = [fsess EXCEPT ![i] = v] /\ asked' = [asked EXCEPT ![i] = v.rest] /\ ftask' = Selecting
      /\ FtpFilesOK(fdisk')
  BY <1>1, <1>2, SessionFacts DEF FtpAccept, fFiles
<1>. HIDE DEF i, v
<1>. QED BY <1>1, <1>2, <1>3, SessionIs

LEMMA MoveFiles ==
  ASSUME FtpFilesOK(fdisk), NEW p, NEW q, Move(p, q)
  PROVE  FtpFilesOK(fdisk')
<1>. DEFINE Moved(r) == IF IsPrefix(p, r) THEN q \o SubSeq(r, Len(p) + 1, Len(r)) ELSE r
            from == {r \in DOMAIN fdisk : r = p \/ r # q}
            To == {Moved(x) : x \in from}
            Of(r) == CHOOSE x \in from : Moved(x) = r
<1>1. fdisk' = [r \in To |-> fdisk[Of(r)]]
  BY DEF Move
<1>2. ASSUME NEW r \in To PROVE fdisk[Of(r)] \in Seq(FtpBytes)
  <2>1. \E x \in from : Moved(x) = r
    BY Zenon
  <2>2. Of(r) \in from
    <3>. HIDE DEF from, Moved
    <3>. QED BY <2>1, Zenon
  <2>3. Of(r) \in DOMAIN fdisk
    <3>. HIDE DEF Of
    <3>. QED BY <2>2, Zenon
  <2>. HIDE DEF Of
  <2>. QED BY <2>3 DEF FtpFilesOK
<1>. HIDE DEF To, Of
<1>. QED BY <1>1, <1>2 DEF FtpFilesOK

LEMMA FileCmdInv ==
  ASSUME FtpInv, ftask = Selecting, NEW i \in FSlots, FileCmd(i)
  PROVE  FtpInv'
<1>0. /\ FtpFilesOK(fdisk) /\ FtpSession(fsess[i])
      /\ fsess = [j \in FSlots |-> fsess[j]] /\ asked \in [FSlots -> Nat]
      /\ fsess[i].rest = asked[i]
  BY SessionFacts
<1>1. ftask' = Selecting /\ asked' = asked
  BY DEF FileCmd
<1>2. ASSUME FtpFilesOK(fdisk'), fsess' = fsess \/ \E f : fsess' = [fsess EXCEPT ![i].from = f]
      PROVE  FtpInv'
  <2>1. /\ fsess' = [j \in FSlots |-> fsess'[j]] /\ FtpSession(fsess'[i])
        /\ fsess'[i].rest = fsess[i].rest /\ \A j \in FSlots : j # i => fsess'[j] = fsess[j]
    BY <1>0, <1>2 DEF FtpSession
  <2>2. asked' = [j \in FSlots |-> asked'[j]]
    BY <1>0, <1>1
  <2>. QED BY <1>0, <1>1, <1>2, <2>1, <2>2, CommandInv
<1>3. ASSUME NEW p, fdisk' = Restrict(fdisk, DOMAIN fdisk \ {p}), UNCHANGED fsess PROVE FtpInv'
  <2>1. FtpFilesOK(fdisk')
    BY <1>0, <1>3 DEF Restrict, FtpFilesOK
  <2>. QED BY <1>2, <1>3, <2>1
<1>4. ASSUME UNCHANGED <<fsess, fdisk>> PROVE FtpInv'
  BY <1>0, <1>2, <1>4
<1>5. ASSUME NEW f, fsess' = [fsess EXCEPT ![i].from = f], UNCHANGED fFiles PROVE FtpInv'
  BY <1>0, <1>2, <1>5 DEF fFiles
<1>6. ASSUME NEW p, NEW q, fsess' = [fsess EXCEPT ![i].from = NoPath], Move(p, q) PROVE FtpInv'
  <2>1. FtpFilesOK(fdisk')
    BY <1>0, <1>6, MoveFiles
  <2>. QED BY <1>2, <1>6, <2>1
<1>7. PICK arg \in FtpPaths \cup FtpDirs :
        LET s == fsess[i]
            ok == MayWriteFs(s)
            p == NormPath(s.cwd, arg)
        IN \/ /\ ok /\ p # <<>> /\ Exists(p) /\ EntriesOf(p) = {}
              /\ fdisk' = Restrict(fdisk, DOMAIN fdisk \ {p}) /\ fdirs' = fdirs \ {p}
              /\ UNCHANGED fsess
           \/ /\ ok /\ arg \in FtpDirs /\ ~Exists(p) /\ Parent(p) \in fdirs
              /\ fdirs' = fdirs \cup {p} /\ UNCHANGED <<fsess, fdisk>>
           \/ /\ ok /\ Exists(p)
              /\ fsess' = [fsess EXCEPT ![i].from = p] /\ UNCHANGED fFiles
           \/ /\ s.from # NoPath
              /\ fsess' = [fsess EXCEPT ![i].from = NoPath]
              /\ IF ok /\ MayMove(s.from, p) THEN Move(s.from, p) ELSE UNCHANGED fFiles
  BY Zenon DEF FileCmd
<1>. QED BY <1>3, <1>4, <1>5, <1>6, <1>7

LEMMA ListInv ==
  ASSUME FtpInv, ftask = Selecting, NEW i \in FSlots, NEW arg, List(i, arg)
  PROVE  FtpInv'
<1>0. /\ FtpFilesOK(fdisk) /\ FtpSession(NoData(fsess[i]))
      /\ fsess = [j \in FSlots |-> fsess[j]] /\ asked \in [FSlots -> Nat]
      /\ NoData(fsess[i]).rest = asked[i]
  BY SessionFacts
<1>1. fsess' = [fsess EXCEPT ![i] = NoData(fsess[i])] /\ UNCHANGED <<fdisk, asked>>
  BY DEF List, fFiles
<1>2. ftask' = Selecting \/ (ftask'.at \in {"list", "entry"} /\ Listing')
  <2>1. ASSUME NEW a \in {"list", "entry"}, NEW l, ftask' = [at |-> a, s |-> i, left |-> l]
        PROVE  ftask'.at \in {"list", "entry"} /\ Listing'
    BY <2>1 DEF Listing
  <2>. QED BY <2>1 DEF List
<1>. DEFINE v == NoData(fsess[i])
<1>. HIDE DEF v
<1>3. /\ fsess' = [j \in FSlots |-> fsess'[j]] /\ FtpSession(fsess'[i])
      /\ fsess'[i].rest = asked'[i] /\ \A j \in FSlots : j # i => fsess'[j] = fsess[j]
  BY <1>0, <1>1 DEF v
<1>4. asked' = [j \in FSlots |-> asked'[j]]
  BY <1>0, <1>1
<1>. QED BY <1>0, <1>1, <1>2, <1>3, <1>4, CommandInv

\* A transfer begins: t is what the task does next.
LEMMA BeginsTransfer ==
  ASSUME FtpInv, ftask = Selecting, NEW i \in FSlots, ftask'.s = i, ftask'.at \in {"retr", "stor"},
         fsess' = [fsess EXCEPT ![i] = NoData(fsess[i])], asked' = [asked EXCEPT ![i] = 0],
         FtpFilesOK(fdisk'),
         ftask'.at = "retr" => DownloadOK(ftask', fsess'[i].ascii),
         ftask'.at = "stor" => UploadOK(ftask', fsess'[i].ascii)
  PROVE  FtpInv'
<1>0. /\ FtpSession(NoData(fsess[i])) /\ fsess = [j \in FSlots |-> fsess[j]] /\ asked \in [FSlots -> Nat]
      /\ \A j \in FSlots : FtpSession(fsess[j]) /\ fsess[j].rest = asked[j]
  BY SessionFacts
<1>1. /\ fsess' = [j \in FSlots |-> fsess'[j]] /\ FtpSession(fsess'[i])
      /\ \A j \in FSlots : j # i => fsess'[j] = fsess[j]
  BY <1>0
<1>2. asked' \in [FSlots -> Nat] /\ asked'[i] = 0 /\ \A j \in FSlots : j # i => asked'[j] = asked[j]
  BY <1>0
<1>3. OffsetsAgree'
  BY <1>0, <1>1, <1>2 DEF OffsetsAgree, Transferring
<1>4. FtpTypeOK'
  BY <1>0, <1>1, <1>2 DEF FtpTypeOK, FtpFilesOK
<1>5. Listing'
  BY DEF Listing
<1>. QED BY <1>3, <1>4, <1>5 DEF FtpInv

LEMMA RetrInv ==
  ASSUME FtpInv, ftask = Selecting, NEW i \in FSlots, NEW arg, Retr(i, arg)
  PROVE  FtpInv'
<1>. DEFINE s == fsess[i]
            p == NormPath(s.cwd, arg)
<1>0. /\ FtpFilesOK(fdisk) /\ FtpSession(s) /\ FtpSession(NoData(s)) /\ NoData(s).rest = s.rest
      /\ s.rest = asked[i] /\ asked[i] \in Nat /\ UNCHANGED fdisk
  BY SessionFacts DEF Retr, fFiles
<1>1. CASE ~s.authed
  <2>1. fsess' = [fsess EXCEPT ![i] = NoData(s)] /\ ftask' = Selecting /\ asked' = asked
    BY <1>1 DEF Retr
  <2>. HIDE DEF s
  <2>. QED BY <1>0, <2>1, SessionIs DEF s
<1>2. CASE s.authed
  <2>1. asked' = [asked EXCEPT ![i] = 0]
    BY <1>2 DEF Retr
  <2>2. ASSUME UNCHANGED ftask, fsess' = [fsess EXCEPT ![i] = [NoData(s) EXCEPT !.rest = 0]] PROVE FtpInv'
    <3>. DEFINE n == NoData(s)
                v == [n EXCEPT !.rest = 0]
    <3>1. FtpSession(v) /\ v.rest = 0
      <4>. HIDE DEF n
      <4>. QED BY <1>0 DEF FtpSession, n
    <3>. HIDE DEF v
    <3>. QED BY <1>0, <2>1, <2>2, <3>1, SessionIs DEF v
  <2>3. ASSUME IsFile(p), fsess' = [fsess EXCEPT ![i] = NoData(s)],
               ftask' = [at |-> "retr", s |-> i, data |-> fdisk[p], pos |-> s.rest, sent |-> <<>>,
                         want |-> asked[i]]
        PROVE  FtpInv'
    <3>. DEFINE d == fdisk[p]
                n == asked[i]
    <3>1. d \in Seq(FtpBytes) /\ n \in Nat
      BY <1>0, <2>3 DEF IsFile, FtpFilesOK
    <3>. HIDE DEF d, n, p
    <3>2. ftask' = [at |-> "retr", s |-> i, data |-> d, pos |-> n, sent |-> <<>>, want |-> n]
      BY <1>0, <2>3 DEF d, n
    <3>3. ASSUME NEW a PROVE SendsFrom(a, d, n, n) = <<>>
      <4>1. SubSeq(d, n + 1, n) = <<>>
        BY <3>1, SubSeqEmpty
      <4>2. Crlf(<<>>) = <<>>
        <5>. DEFINE m == [k \in DOMAIN <<>> |-> IF <<>>[k] = "LF" THEN <<"CR", "LF">> ELSE <<<<>>[k]>>]
        <5>1. m = <<>>
          OBVIOUS
        <5>2. Crlf(<<>>) = FlattenSeq(m)
          BY DEF Crlf
        <5>. HIDE DEF m
        <5>. QED BY <5>1, <5>2 DEF FlattenSeq
      <4>. QED BY <4>1, <4>2 DEF Sends, SendsFrom
    <3>4. DownloadOK(ftask', fsess'[i].ascii)
      <4>. DEFINE a == fsess'[i].ascii
      <4>. HIDE DEF a
      <4>1. /\ ftask'.s = i /\ ftask'.data = d /\ ftask'.pos = n /\ ftask'.want = n /\ ftask'.sent = <<>>
            /\ ftask' = [at |-> "retr", s |-> ftask'.s, data |-> ftask'.data, pos |-> ftask'.pos,
                         sent |-> ftask'.sent, want |-> ftask'.want]
        BY <3>2
      <4>2. DownloadOK(ftask', a)
        BY <3>1, <3>3, <4>1 DEF DownloadOK
      <4>. QED BY <4>2 DEF a
    <3>5. ftask'.s = i /\ ftask'.at = "retr" /\ FtpFilesOK(fdisk')
      BY <1>0, <3>2
    <3>. QED BY <2>1, <2>3, <3>4, <3>5, BeginsTransfer
  <2>. QED BY <1>2, <2>2, <2>3 DEF Retr
<1>. QED BY <1>1, <1>2

LEMMA NothingKept == Kept(<<>>, 1) = <<>>
<1>. DEFINE m == [i \in DOMAIN <<>> |-> IF i < 1 \/ (<<>>[i] = "CR" /\ i < Len(<<>>) /\ <<>>[i + 1] = "LF")
                                        THEN <<>> ELSE <<<<>>[i]>>]
<1>1. m = <<>>
  OBVIOUS
<1>2. Kept(<<>>, 1) = FlattenSeq(m)
  BY DEF Kept
<1>. HIDE DEF m
<1>. QED BY <1>1, <1>2 DEF FlattenSeq

\* The upload STOR and APPE begin: nothing has come and the file is what they found.
LEMMA StorBegins ==
  ASSUME NEW t, NEW a, NEW old \in Seq(FtpBytes), NEW appe \in BOOLEAN, NEW at \in Nat, NEW path,
         NEW s \in FSlots, NEW d, NEW p,
         d = IF appe \/ at > 0 THEN old ELSE <<>>, p = IF appe THEN Len(d) ELSE at,
         t = [at |-> "stor", s |-> s, path |-> path, data |-> d, pos |-> p, cr |-> FALSE, split |-> FALSE,
              want |-> [old |-> old, appe |-> appe, at |-> at, raw |-> <<>>]]
  PROVE  UploadOK(t, a)
<1>. DEFINE w == [old |-> old, appe |-> appe, at |-> at, raw |-> <<>>]
<1>0. <<>> \in Seq(FtpBytes) /\ Len(<<>>) = 0 /\ Len(old) \in Nat
  BY LenProperties
<1>1. /\ w.old = old /\ w.appe = appe /\ w.at = at /\ w.raw = <<>> /\ WantOK(w)
  BY <1>0 DEF WantOK
<1>2. d \in Seq(FtpBytes) /\ p \in Nat /\ Into(w) = d /\ From(w) = p
  BY <1>0, <1>1 DEF Into, From
<1>3. Stores(a, w.raw) = <<>>
  BY <1>1, NothingKept DEF Stores, Unix
<1>4. Written(d, p, <<>>) = d
  BY <1>0, <1>2, WrittenSpecial
<1>. HIDE DEF w
<1>5. /\ t.at = "stor" /\ t.s = s /\ t.path = path /\ t.data = d /\ t.pos = p /\ t.cr = FALSE
      /\ t.split = FALSE /\ t.want = w
      /\ t = [at |-> "stor", s |-> t.s, path |-> t.path, data |-> t.data, pos |-> t.pos, cr |-> t.cr,
              split |-> t.split, want |-> t.want]
  BY DEF w
<1>6. t.pos = From(t.want) + Len(Stores(a, t.want.raw))
  BY <1>0, <1>2, <1>3, <1>5
<1>7. t.data = Written(Into(t.want), From(t.want), Stores(a, t.want.raw))
  BY <1>2, <1>3, <1>4, <1>5
<1>. QED BY <1>1, <1>2, <1>5, <1>6, <1>7 DEF UploadOK

LEMMA StorInv ==
  ASSUME FtpInv, ftask = Selecting, NEW i \in FSlots, NEW arg, NEW appe \in BOOLEAN, Stor(i, arg, appe)
  PROVE  FtpInv'
<1>. DEFINE s == fsess[i]
            p == NormPath(s.cwd, arg)
            o == Opened(s, p, appe)
            old == IF IsFile(p) THEN fdisk[p] ELSE <<>>
<1>0. /\ FtpFilesOK(fdisk) /\ FtpSession(s) /\ FtpSession(NoData(s)) /\ NoData(s).rest = s.rest
      /\ s.rest = asked[i] /\ asked[i] \in Nat
  BY SessionFacts
<1>1. old \in Seq(FtpBytes) /\ o = (IF appe \/ asked[i] > 0 THEN old ELSE <<>>) /\ o \in Seq(FtpBytes)
  BY <1>0 DEF Opened, IsFile, FtpFilesOK
<1>2. ASSUME fsess' = [fsess EXCEPT ![i] = NoData(s)], UNCHANGED <<ftask, fdisk, asked>> PROVE FtpInv'
  <2>. HIDE DEF s
  <2>. QED BY <1>0, <1>2, SessionIs DEF s
<1>3. ASSUME fsess' = [fsess EXCEPT ![i] = [NoData(s) EXCEPT !.rest = 0]], asked' = [asked EXCEPT ![i] = 0],
             fdisk' = WithFile(p, o), UNCHANGED ftask
      PROVE  FtpInv'
  <2>. DEFINE n == NoData(s)
              v == [n EXCEPT !.rest = 0]
  <2>1. FtpSession(v) /\ v.rest = 0
    <3>. HIDE DEF n
    <3>. QED BY <1>0 DEF FtpSession, n
  <2>2. FtpFilesOK(fdisk')
    <3>. HIDE DEF p, o
    <3>. QED BY <1>0, <1>1, <1>3 DEF FtpFilesOK, WithFile
  <2>. HIDE DEF v
  <2>. QED BY <1>3, <2>1, <2>2, SessionIs DEF v
<1>4. ASSUME fsess' = [fsess EXCEPT ![i] = NoData(s)], asked' = [asked EXCEPT ![i] = 0],
             fdisk' = (IF IsFile(p) THEN fdisk ELSE WithFile(p, <<>>)),
             ftask' = [at |-> "stor", s |-> i, path |-> p, data |-> o, pos |-> WriteAt(s, p, appe),
                       cr |-> FALSE, split |-> FALSE,
                       want |-> [old |-> old, appe |-> appe, at |-> asked[i], raw |-> <<>>]]
      PROVE  FtpInv'
  <2>1. FtpFilesOK(fdisk')
    <3>. HIDE DEF p
    <3>. QED BY <1>0, <1>4 DEF FtpFilesOK, WithFile
  <2>2. WriteAt(s, p, appe) = IF appe THEN Len(o) ELSE asked[i]
    BY <1>0 DEF WriteAt
  <2>. DEFINE n == asked[i]
              w == WriteAt(s, p, appe)
              a == fsess'[i].ascii
  <2>. HIDE DEF n, w, a, o, old, p
  <2>3. UploadOK(ftask', a)
    BY <1>0, <1>1, <1>4, <2>2, StorBegins DEF n, w
  <2>4. ftask'.at = "stor" /\ ftask'.s = i
    BY <1>4
  <2>. QED BY <1>4, <2>1, <2>3, <2>4, BeginsTransfer DEF a
<1>. QED BY <1>2, <1>3, <1>4 DEF Stor

LEMMA SelectInv == ASSUME FtpInv, FtpSelect PROVE FtpInv'
<1>1. ftask = Selecting
  BY DEF FtpSelect
<1>2. \/ FtpAccept
      \/ \E i \in FSlots :
           \/ SessionCmd(i) \/ DataCmd(i) \/ FileCmd(i) \/ Quit(i) \/ FtpClose(i)
           \/ \E arg \in FtpPaths \cup FtpDirs \cup {Here} : List(i, arg)
           \/ \E arg \in FtpPaths : Retr(i, arg) \/ \E appe \in BOOLEAN : Stor(i, arg, appe)
  BY Zenon DEF FtpSelect
<1>. QED BY <1>1, <1>2, FtpAcceptInv, SessionCmdInv, DataCmdInv, FileCmdInv, QuitInv, FtpCloseInv,
            ListInv, RetrInv, StorInv

LEMMA ListStepInv == ASSUME FtpInv, ListStep PROVE FtpInv'
<1>1. /\ FtpTypeOK /\ Listing /\ ftask.at \in {"list", "entry"} /\ UNCHANGED <<fsess, fdisk, asked>>
      /\ \A i \in FSlots : fsess[i].rest = asked[i]
  BY DEF FtpInv, ListStep, fFiles, OffsetsAgree, Transferring
<1>2. ASSUME NEW l, ftask' = [ftask EXCEPT !.left = l] PROVE ftask'.at \in {"list", "entry"} /\ Listing'
  <2>. DEFINE a == ftask.at
              s == ftask.s
              m == ftask.left
  <2>1. ftask = [at |-> a, s |-> s, left |-> m] /\ a \in {"list", "entry"}
    BY <1>1 DEF Listing
  <2>. HIDE DEF a, s, m
  <2>2. ftask' = [at |-> a, s |-> s, left |-> l]
    BY <1>2, <2>1
  <2>. QED BY <2>1, <2>2 DEF Listing
<1>3. \/ ftask' = Selecting
      \/ ftask'.at \in {"list", "entry"} /\ Listing'
  BY <1>2 DEF ListStep
<1>4. Listing' /\ ~(ftask'.at \in {"retr", "stor"})
  BY <1>3 DEF Listing, Selecting
<1>5. FtpTypeOK' /\ OffsetsAgree'
  BY <1>1, <1>4 DEF FtpTypeOK, FtpFilesOK, OffsetsAgree, Transferring
<1>. QED BY <1>4, <1>5 DEF FtpInv

\* A transfer ends, and with it the offset.
LEMMA EndsTransfer ==
  ASSUME FtpInv, ftask.at \in {"retr", "stor"}, ftask.s \in FSlots, ftask' = Selecting,
         fsess' = [fsess EXCEPT ![ftask.s].rest = 0], asked' = asked, FtpFilesOK(fdisk')
  PROVE  FtpInv'
<1>. DEFINE i == ftask.s
<1>1. /\ fsess = [j \in FSlots |-> fsess[j]] /\ asked \in [FSlots -> Nat] /\ asked[i] = 0
      /\ \A j \in FSlots : FtpSession(fsess[j]) /\ (j # i => fsess[j].rest = asked[j])
  BY DEF FtpInv, FtpTypeOK, OffsetsAgree, Transferring
<1>. HIDE DEF i
<1>2. /\ fsess' = [j \in FSlots |-> fsess'[j]] /\ FtpSession(fsess'[i]) /\ fsess'[i].rest = 0
      /\ \A j \in FSlots : j # i => fsess'[j] = fsess[j]
  BY <1>1 DEF i, FtpSession
<1>3. ~(ftask'.at \in {"retr", "stor"}) /\ Listing'
  BY DEF Selecting, Listing
<1>4. FtpTypeOK'
  BY <1>1, <1>2 DEF FtpTypeOK, FtpFilesOK
<1>5. OffsetsAgree'
  BY <1>1, <1>2, <1>3 DEF OffsetsAgree, Transferring
<1>. QED BY <1>3, <1>4, <1>5 DEF FtpInv

\* A transfer goes on.
LEMMA GoesOn ==
  ASSUME FtpInv, UNCHANGED <<fsess, fdisk, asked>>, ftask.at \in {"retr", "stor"},
         ftask'.at = ftask.at, ftask'.s = ftask.s,
         ftask.at = "retr" => DownloadOK(ftask', fsess[ftask.s].ascii),
         ftask.at = "stor" => UploadOK(ftask', fsess[ftask.s].ascii)
  PROVE  FtpInv'
<1>1. FtpTypeOK' /\ OffsetsAgree' /\ Listing'
  BY DEF FtpInv, FtpTypeOK, FtpFilesOK, OffsetsAgree, Transferring, Listing
<1>. QED BY <1>1 DEF FtpInv

\* A piece of the file at a time is sent as the file is.
LEMMA SendsConcat ==
  ASSUME NEW d \in Seq(FtpBytes), NEW a, NEW k \in Nat, NEW m \in Nat, NEW n \in Nat, k <= m, m <= n, n <= Len(d)
  PROVE  /\ SendsFrom(a, d, k, m) \in Seq(FtpBytes)
         /\ SendsFrom(a, d, m, n) \in Seq(FtpBytes)
         /\ SendsFrom(a, d, k, n) = SendsFrom(a, d, k, m) \o SendsFrom(a, d, m, n)
<1>. DEFINE x == SubSeq(d, k + 1, m)
            y == SubSeq(d, m + 1, n)
<1>0. Len(d) \in Nat
  BY LenProperties
<1>1. x \in Seq(FtpBytes)
  <2>1. k + 1 \in Int /\ m \in Int /\ \A i \in k + 1 .. m : i \in 1 .. Len(d)
    BY <1>0
  <2>2. \A i \in k + 1 .. m : d[i] \in FtpBytes
    BY <2>1, ElementOfSeq
  <2>. QED BY <2>1, <2>2, SubSeqProperties
<1>2. y \in Seq(FtpBytes)
  <2>1. m + 1 \in Int /\ n \in Int /\ \A i \in m + 1 .. n : i \in 1 .. Len(d)
    BY <1>0
  <2>2. \A i \in m + 1 .. n : d[i] \in FtpBytes
    BY <2>1, ElementOfSeq
  <2>. QED BY <2>1, <2>2, SubSeqProperties
<1>3. SubSeq(d, k + 1, n) = x \o y
  <2>1. k + 1 \in 1 .. Len(d) + 1 /\ m \in (k + 1) - 1 .. Len(d) /\ n \in m .. Len(d)
    BY <1>0
  <2>. DEFINE j == k + 1
  <2>. HIDE DEF j
  <2>2. SubSeq(d, j, m) \o SubSeq(d, m + 1, n) = SubSeq(d, j, n)
    BY <2>1, ConcatAdjacentSubSeq DEF j
  <2>. QED BY <2>2 DEF j
<1>. HIDE DEF x, y
<1>4. Sends(a, x) \in Seq(FtpBytes) /\ Sends(a, y) \in Seq(FtpBytes) /\ Sends(a, x \o y) = Sends(a, x) \o Sends(a, y)
  BY <1>1, <1>2, CrlfConcat DEF Sends
<1>. QED BY <1>3, <1>4 DEF SendsFrom, x, y

LEMMA RetrStepInv == ASSUME FtpInv, RetrStep PROVE FtpInv'
<1>. DEFINE a == fsess[ftask.s].ascii
            d == ftask.data
            p == ftask.pos
            n == ftask.sent
            w == ftask.want
            i == ftask.s
            m == Min({p + ReadLen, Len(d)})
            chunk == SubSeq(d, p + 1, m)
<1>0. ftask.at = "retr" /\ UNCHANGED <<fdisk, asked>> /\ DownloadOK(ftask, a) /\ FtpFilesOK(fdisk)
  BY DEF RetrStep, fFiles, FtpInv, FtpTypeOK
<1>1. /\ ftask = [at |-> "retr", s |-> i, data |-> d, pos |-> p, sent |-> n, want |-> w]
      /\ i \in FSlots /\ d \in Seq(FtpBytes) /\ p \in Nat /\ w \in Nat /\ w <= p
      /\ IF p <= Len(d) THEN n = SendsFrom(a, d, w, p) ELSE n = <<>>
  BY <1>0 DEF DownloadOK
<1>2. CASE RetrEnds
  <2>1. FtpFilesOK(fdisk')
    BY <1>0
  <2>2. i \in FSlots
    BY <1>1
  <2>. QED BY <1>0, <1>2, <2>1, <2>2, EndsTransfer DEF RetrEnds
<1>3. CASE /\ chunk # <<>> /\ UNCHANGED fsess
           /\ ftask' = [ftask EXCEPT !.pos = p + Len(chunk), !.sent = n \o Sends(a, chunk)]
  <2>0. Len(d) \in Nat /\ ReadLen \in Nat /\ m = (IF p + ReadLen <= Len(d) THEN p + ReadLen ELSE Len(d))
    <3>1. Len(d) \in Nat /\ ReadLen \in Nat
      BY <1>1, LenProperties, FtpdAssumption
    <3>. DEFINE x == p + ReadLen
                y == Len(d)
    <3>2. x \in Int /\ y \in Int
      BY <1>1, <3>1
    <3>. HIDE DEF x, y
    <3>3. Min({x, y}) = IF x <= y THEN x ELSE y
      BY <3>2, MinPair
    <3>. QED BY <3>1, <3>3 DEF x, y
  <2>. HIDE DEF a, d, p, n, w, i
  <2>1. p < m
    <3>. SUFFICES ASSUME ~(p < m) PROVE FALSE
      OBVIOUS
    <3>1. m \in Int /\ p + 1 \in Int /\ m < p + 1
      BY <1>1, <2>0
    <3>. HIDE DEF m
    <3>. QED BY <1>3, <3>1, SubSeqEmpty
  <2>2. p <= m /\ m <= Len(d) /\ m \in Nat /\ p <= Len(d)
    BY <1>1, <2>0, <2>1
  <2>. HIDE DEF m
  <2>3. Len(chunk) = m - p
    <3>1. \A j \in p + 1 .. m : d[j] \in FtpBytes
      BY <1>1, <2>0, <2>2, ElementOfSeq
    <3>2. p + 1 \in Int /\ m \in Int
      BY <1>1, <2>2
    <3>3. Len(SubSeq(d, p + 1, m)) = IF p + 1 <= m THEN m - (p + 1) + 1 ELSE 0
      BY <3>1, <3>2, SubSeqProperties
    <3>. QED BY <1>1, <2>1, <2>2, <3>3
  <2>4. n \o Sends(a, chunk) = SendsFrom(a, d, w, m)
    <3>1. d \in Seq(FtpBytes) /\ w \in Nat /\ p \in Nat /\ w <= p /\ n = SendsFrom(a, d, w, p)
      BY <1>1, <2>2
    <3>2. SendsFrom(a, d, w, m) = SendsFrom(a, d, w, p) \o SendsFrom(a, d, p, m)
      BY <2>2, <3>1, SendsConcat
    <3>3. SendsFrom(a, d, p, m) = Sends(a, chunk)
      BY DEF SendsFrom
    <3>. QED BY <3>1, <3>2, <3>3
  <2>. DEFINE x == SendsFrom(a, d, w, m)
  <2>. HIDE DEF x, chunk
  <2>5. p + Len(chunk) = m
    BY <1>1, <2>2, <2>3
  <2>6. ftask' = [at |-> "retr", s |-> i, data |-> d, pos |-> m, sent |-> x, want |-> w]
    BY <1>1, <1>3, <2>4, <2>5 DEF x
  <2>7. /\ ftask'.at = "retr" /\ ftask'.s = i /\ ftask'.data = d /\ ftask'.pos = m /\ ftask'.want = w
        /\ ftask'.sent = x
        /\ ftask' = [at |-> "retr", s |-> ftask'.s, data |-> ftask'.data, pos |-> ftask'.pos,
                     sent |-> ftask'.sent, want |-> ftask'.want]
    BY <2>6
  <2>8. w <= m
    BY <1>1, <2>2
  <2>9. DownloadOK(ftask', a)
    BY <1>1, <2>2, <2>7, <2>8 DEF DownloadOK, x
  <2>. QED BY <1>0, <1>3, <2>7, <2>9, GoesOn DEF a, i
<1>. QED BY <1>2, <1>3 DEF RetrStep, Sends

\* What a block of an upload leaves to be written.
LEMMA StripIs ==
  ASSUME NEW b \in Seq(FtpBytes), NEW cr \in BOOLEAN
  PROVE  /\ StripCr(b, cr).out \in Seq(FtpBytes) /\ StripCr(b, cr).cr \in BOOLEAN
         /\ ~cr /\ ~StripCr(b, cr).cr =>
              StripCr(b, cr).out = Kept(b, 1) /\ (b = <<>> \/ b[Len(b)] # "CR")
<1>. DEFINE start == IF cr /\ b # <<>> /\ b[1] = "LF" THEN 2 ELSE 1
            out == Kept(b, start)
            ends == Len(b) >= start /\ b[Len(b)] = "CR"
<1>0. Len(b) \in Nat /\ (b # <<>> => Len(b) >= 1)
  BY LenProperties, EmptySeq
<1>1. out \in Seq(FtpBytes)
  BY KeptType
<1>2. Front(out) \in Seq(FtpBytes)
  <2>. HIDE DEF out
  <2>1. Len(out) \in Nat
    BY <1>1, LenProperties
  <2>2. \A i \in 1 .. Len(out) - 1 : out[i] \in FtpBytes
    BY <1>1, <2>1, ElementOfSeq
  <2>3. 1 \in Int /\ Len(out) - 1 \in Int
    BY <2>1
  <2>4. SubSeq(out, 1, Len(out) - 1) \in Seq(FtpBytes)
    BY <2>2, <2>3, SubSeqProperties
  <2>. QED BY <2>4 DEF Front
<1>3. StripCr(b, cr) = [out |-> IF ends THEN Front(out) ELSE out, cr |-> ends]
  BY DEF StripCr
<1>4. ends \in BOOLEAN
  OBVIOUS
<1>5. ~cr /\ ~ends => out = Kept(b, 1) /\ (b = <<>> \/ b[Len(b)] # "CR")
  BY <1>0
<1>. HIDE DEF out, ends
<1>. QED BY <1>1, <1>2, <1>3, <1>4, <1>5

LEMMA StorBlockInv == ASSUME FtpInv, NEW b \in FtpBlocks, StorBlock(b) PROVE FtpInv'
<1>. DEFINE a == fsess[ftask.s].ascii
            d == ftask.data
            p == ftask.pos
            cr == ftask.cr
            sp == ftask.split
            w == ftask.want
            i == ftask.s
            path == ftask.path
            strip == IF a THEN StripCr(b, cr) ELSE [out |-> b, cr |-> FALSE]
            o == strip.out
            c == strip.cr
<1>0. ftask.at = "stor" /\ UNCHANGED <<fsess, fdisk, asked>> /\ UploadOK(ftask, a)
  BY DEF StorBlock, fFiles, FtpInv
<1>1. /\ ftask = [at |-> "stor", s |-> i, path |-> path, data |-> d, pos |-> p, cr |-> cr, split |-> sp, want |-> w]
      /\ i \in FSlots /\ d \in Seq(FtpBytes) /\ p \in Nat /\ WantOK(w) /\ cr \in BOOLEAN /\ sp \in BOOLEAN
      /\ ~sp => /\ ~cr /\ d = Written(Into(w), From(w), Stores(a, w.raw))
                /\ p = From(w) + Len(Stores(a, w.raw))
                /\ a => w.raw = <<>> \/ w.raw[Len(w.raw)] # "CR"
  BY <1>0 DEF UploadOK
<1>2. b \in Seq(FtpBytes)
  BY FtpdAssumption
<1>3. ftask' = [ftask EXCEPT !.data = Written(@, p, o), !.pos = @ + Len(o), !.cr = c, !.split = @ \/ c,
                             !.want.raw = @ \o b]
  BY DEF StorBlock
<1>. HIDE DEF a, d, p, cr, sp, w, i, path
<1>4. /\ o \in Seq(FtpBytes) /\ c \in BOOLEAN
      /\ ~cr /\ ~c => IF a THEN o = Kept(b, 1) /\ (b = <<>> \/ b[Len(b)] # "CR") ELSE o = b
  BY <1>1, <1>2, StripIs
<1>. HIDE DEF o, c
<1>. DEFINE old == w.old
            appe == w.appe
            at == w.at
            raw == w.raw
            raw2 == raw \o b
            w2 == [old |-> old, appe |-> appe, at |-> at, raw |-> raw2]
            d2 == Written(d, p, o)
            p2 == p + Len(o)
<1>5. /\ w = [old |-> old, appe |-> appe, at |-> at, raw |-> raw]
      /\ old \in Seq(FtpBytes) /\ appe \in BOOLEAN /\ at \in Nat /\ raw \in Seq(FtpBytes)
  BY <1>1 DEF WantOK
<1>. HIDE DEF old, appe, at, raw
<1>6. raw2 \in Seq(FtpBytes) /\ Len(o) \in Nat /\ d2 \in Seq(FtpBytes) /\ p2 \in Nat /\ Len(old) \in Nat
  <2>1. raw2 \in Seq(FtpBytes)
    BY <1>2, <1>5, ConcatProperties
  <2>2. d2 \in Seq(FtpBytes)
    BY <1>1, <1>4, WrittenIs
  <2>3. Len(o) \in Nat /\ Len(old) \in Nat
    BY <1>4, <1>5, LenProperties
  <2>. QED BY <1>1, <2>1, <2>2, <2>3
<1>7. ftask' = [at |-> "stor", s |-> i, path |-> path, data |-> d2, pos |-> p2, cr |-> c, split |-> (sp \/ c),
                want |-> w2]
  <2>. HIDE DEF d2, p2, raw2
  <2>1. [w EXCEPT !.raw = w.raw \o b] = w2
    <3>1. w.raw \o b = raw2
      BY <1>5 DEF raw2
    <3>2. [w EXCEPT !.raw = raw2] = w2
      BY <1>5
    <3>. QED BY <3>1, <3>2
  <2>. HIDE DEF w2
  <2>. QED BY <1>1, <1>3, <2>1 DEF d2, p2
<1>8. Into(w2) = Into(w) /\ From(w2) = From(w) /\ w2.raw = raw2 /\ WantOK(w2)
  <2>. HIDE DEF raw2
  <2>1. w2.old = old /\ w2.appe = appe /\ w2.at = at /\ w2.raw = raw2
    OBVIOUS
  <2>2. w.old = old /\ w.appe = appe /\ w.at = at
    BY DEF old, appe, at
  <2>3. w2 = [old |-> w2.old, appe |-> w2.appe, at |-> w2.at, raw |-> w2.raw]
    BY <2>1
  <2>. HIDE DEF w2
  <2>. QED BY <1>5, <1>6, <2>1, <2>2, <2>3 DEF Into, From, WantOK, raw2
<1>9. ASSUME ~sp, ~c
      PROVE  /\ d2 = Written(Into(w), From(w), Stores(a, raw2)) /\ p2 = From(w) + Len(Stores(a, raw2))
             /\ a => raw2 = <<>> \/ raw2[Len(raw2)] # "CR"
  <2>. DEFINE x == Stores(a, raw)
  <2>1. /\ d = Written(Into(w), From(w), x) /\ p = From(w) + Len(x) /\ ~cr
        /\ a => raw = <<>> \/ raw[Len(raw)] # "CR"
    BY <1>1, <1>9 DEF raw
  <2>2. IF a THEN o = Kept(b, 1) /\ (b = <<>> \/ b[Len(b)] # "CR") ELSE o = b
    BY <1>4, <1>9, <2>1
  <2>3. x \in Seq(FtpBytes) /\ Stores(a, raw2) = x \o o
    <3>1. CASE a
      <4>1. Kept(raw \o b, 1) = Kept(raw, 1) \o Kept(b, 1)
        BY <1>2, <1>5, <2>1, <3>1, KeptConcat
      <4>2. Kept(raw, 1) \in Seq(FtpBytes)
        BY <1>5, KeptType
      <4>. QED BY <2>2, <3>1, <4>1, <4>2 DEF Stores, Unix
    <3>2. CASE ~a
      BY <1>5, <2>2, <3>2 DEF Stores
    <3>. QED BY <3>1, <3>2
  <2>4. Into(w) \in Seq(FtpBytes) /\ From(w) \in Nat
    <3>1. w.old \in Seq(FtpBytes) /\ Len(w.old) \in Nat /\ w.at \in Nat
      BY <1>5, <1>6 DEF old, at
    <3>. QED BY <3>1 DEF Into, From
  <2>. DEFINE f == Into(w)
              g == From(w)
  <2>. HIDE DEF x, f, g
  <2>5. d2 = Written(f, g, x \o o)
    <3>1. f \in Seq(FtpBytes) /\ g \in Nat /\ d = Written(f, g, x) /\ p = g + Len(x)
      BY <2>1, <2>4 DEF f, g, x
    <3>2. Written(Written(f, g, x), g + Len(x), o) = Written(f, g, x \o o)
      BY <1>4, <2>3, <3>1, WrittenTwice
    <3>. QED BY <3>1, <3>2
  <2>6. Len(x \o o) = Len(x) + Len(o) /\ Len(x) \in Nat
    BY <1>4, <2>3, ConcatProperties, LenProperties
  <2>7. p2 = From(w) + Len(x \o o)
    BY <1>6, <2>1, <2>4, <2>6
  <2>8. a => raw2 = <<>> \/ raw2[Len(raw2)] # "CR"
    <3>. SUFFICES ASSUME a PROVE raw2 = <<>> \/ raw2[Len(raw2)] # "CR"
      OBVIOUS
    <3>1. CASE b = <<>>
      <4>1. raw2 = raw
        BY <1>5, <3>1, ConcatEmptySeq
      <4>. QED BY <2>1, <4>1
    <3>2. CASE b # <<>>
      <4>1. /\ Len(raw2) = Len(raw) + Len(b) /\ Len(raw) \in Nat /\ Len(b) \in Nat
            /\ \A k \in 1 .. Len(raw) + Len(b) : raw2[k] = IF k <= Len(raw) THEN raw[k] ELSE b[k - Len(raw)]
        BY <1>2, <1>5, ConcatProperties, LenProperties
      <4>2. Len(b) # 0
        BY <1>2, <3>2, EmptySeq
      <4>3. Len(raw2) \in 1 .. Len(raw) + Len(b) /\ ~(Len(raw2) <= Len(raw)) /\ Len(raw2) - Len(raw) = Len(b)
        BY <4>1, <4>2
      <4>4. raw2[Len(raw2)] = b[Len(b)]
        BY <4>1, <4>3
      <4>. QED BY <2>2, <3>2, <4>4
    <3>. QED BY <3>1, <3>2
  <2>. QED BY <2>3, <2>5, <2>7, <2>8 DEF f, g
<1>. HIDE DEF d2, p2, w2, raw2
<1>10. /\ ftask'.at = "stor" /\ ftask'.s = i /\ ftask'.path = path /\ ftask'.data = d2 /\ ftask'.pos = p2
       /\ ftask'.cr = c /\ ftask'.split = (sp \/ c) /\ ftask'.want = w2
       /\ ftask' = [at |-> "stor", s |-> ftask'.s, path |-> ftask'.path, data |-> ftask'.data,
                    pos |-> ftask'.pos, cr |-> ftask'.cr, split |-> ftask'.split, want |-> ftask'.want]
  BY <1>7
<1>11. UploadOK(ftask', a)
  <2>1. (sp \/ c) \in BOOLEAN
    BY <1>1, <1>4
  <2>2. ~ftask'.split =>
          /\ ~ftask'.cr
          /\ ftask'.data = Written(Into(ftask'.want), From(ftask'.want), Stores(a, ftask'.want.raw))
          /\ ftask'.pos = From(ftask'.want) + Len(Stores(a, ftask'.want.raw))
          /\ a => ftask'.want.raw = <<>> \/ ftask'.want.raw[Len(ftask'.want.raw)] # "CR"
    BY <1>8, <1>9, <1>10
  <2>. QED BY <1>1, <1>4, <1>6, <1>8, <1>10, <2>1, <2>2 DEF UploadOK
<1>. QED BY <1>0, <1>10, <1>11, GoesOn DEF a, i

LEMMA StorEndsInv == ASSUME FtpInv, StorEnds PROVE FtpInv'
<1>1. /\ ftask.at = "stor" /\ ftask' = Selecting /\ UploadOK(ftask, fsess[ftask.s].ascii)
      /\ FtpFilesOK(fdisk) /\ asked' = asked /\ fsess' = [fsess EXCEPT ![ftask.s].rest = 0]
  BY DEF StorEnds, FtpInv, FtpTypeOK
<1>2. ftask.s \in FSlots /\ ftask.data \in Seq(FtpBytes)
  BY <1>1 DEF UploadOK
<1>. DEFINE d == ftask.data
            p == ftask.path
<1>3. fdisk' = [fdisk EXCEPT ![p] = d] \/ fdisk' = fdisk
  BY DEF StorEnds
<1>. HIDE DEF p, d
<1>4. FtpFilesOK(fdisk')
  BY <1>1, <1>2, <1>3 DEF FtpFilesOK, d
<1>. QED BY <1>1, <1>2, <1>4, EndsTransfer

LEMMA FtpStutter == ASSUME FtpInv, UNCHANGED <<fsess, ftask, fdisk, asked>> PROVE FtpInv'
BY DEF FtpInv, FtpTypeOK, FtpFilesOK, OffsetsAgree, Transferring, Listing

LEMMA FtpStep == FtpInv /\ [ServicesNext]_servicesVars => FtpInv'
<1>. SUFFICES ASSUME FtpInv, [ServicesNext]_servicesVars PROVE FtpInv'
  OBVIOUS
<1>1. CASE FtpNext
  <2>1. CASE FtpSelect
    BY <2>1, SelectInv
  <2>2. CASE FtpTransfer
    BY <2>2, ListStepInv, RetrStepInv, StorEndsInv, StorBlockInv DEF FtpTransfer
  <2>3. CASE WebRequest \/ WebProceeds
    BY <2>3, FtpStutter DEF WebRequest, WebProceeds, fFiles
  <2>. QED BY <1>1, <2>1, <2>2, <2>3 DEF FtpNext
<1>2. CASE UNCHANGED ftpVars
  BY <1>2, FtpStutter DEF ftpVars
<1>. QED BY <1>1, <1>2 DEF ServicesNext, servicesVars

LEMMA FtpStart == ServicesInit => FtpInv
<1>. SUFFICES ASSUME ServicesInit PROVE FtpInv
  OBVIOUS
<1>1. /\ fsess = [i \in FSlots |-> FClosed] /\ ftask = Selecting
      /\ fdisk = [p \in {} |-> <<>>] /\ asked = [i \in FSlots |-> 0]
  BY DEF ServicesInit, FtpInit
<1>2. FtpSession(FClosed) /\ FClosed.rest = 0
  BY DEF FtpSession, FClosed
<1>3. FtpTypeOK
  BY <1>1, <1>2 DEF FtpTypeOK, FtpFilesOK
<1>4. ftask.at = "select"
  BY <1>1 DEF Selecting
<1>5. OffsetsAgree /\ Listing
  BY <1>1, <1>2, <1>4 DEF OffsetsAgree, Transferring, Listing
<1>. QED BY <1>3, <1>4, <1>5 DEF FtpInv

\* The invariant says of a transfer under way that it is intact.
LEMMA FtpIntact == FtpInv => TransferIntact
<1>. SUFFICES ASSUME FtpInv PROVE TransferIntact
  OBVIOUS
<1>. DEFINE a == fsess[ftask.s].ascii
            w == ftask.want
<1>1. CASE ftask.at = "stor"
  <2>. DEFINE x == Stores(a, w.raw)
              old == w.old
  <2>1. UploadOK(ftask, a)
    BY <1>1 DEF FtpInv
  <2>2. WantOK(w) /\ (~ftask.split => ftask.data = Written(Into(w), From(w), x))
    BY <2>1 DEF UploadOK
  <2>3. old \in Seq(FtpBytes) /\ w.at \in Nat /\ w.appe \in BOOLEAN /\ w.raw \in Seq(FtpBytes)
    BY <2>2 DEF WantOK
  <2>4. x \in Seq(FtpBytes)
    BY <2>3, KeptType DEF Stores, Unix
  <2>. HIDE DEF x, old, w, a
  <2>5. Written(old, Len(old), x) = old \o x /\ Written(<<>>, 0, x) = x
    BY <2>3, <2>4, WrittenSpecial
  <2>6. Written(Into(w), From(w), x) =
          CASE w.appe -> old \o x
            [] ~w.appe /\ w.at = 0 -> x
            [] OTHER -> Written(old, w.at, x)
    <3>1. CASE w.appe
      BY <2>5, <3>1 DEF Into, From, old
    <3>2. CASE ~w.appe /\ w.at = 0
      <4>1. Into(w) = <<>> /\ From(w) = 0
        BY <3>2 DEF Into, From
      <4>. QED BY <2>5, <3>2, <4>1
    <3>3. CASE ~w.appe /\ w.at # 0
      <4>1. Into(w) = old /\ From(w) = w.at
        BY <2>3, <3>3 DEF Into, From, old
      <4>. QED BY <3>3, <4>1
    <3>. QED BY <3>1, <3>2, <3>3
  <2>. QED BY <1>1, <2>2, <2>6 DEF TransferIntact, x, old, w, a, Stores
<1>2. CASE ftask.at = "retr"
  <2>. DEFINE d == ftask.data
              p == ftask.pos
              n == ftask.sent
              t == SendsFrom(a, d, w, Len(d))
  <2>1. DownloadOK(ftask, a)
    BY <1>2 DEF FtpInv
  <2>2. /\ d \in Seq(FtpBytes) /\ p \in Nat /\ w \in Nat /\ w <= p
        /\ IF p <= Len(d) THEN n = SendsFrom(a, d, w, p) ELSE n = <<>>
    BY <2>1 DEF DownloadOK
  <2>. HIDE DEF d, p, n, w, a
  <2>3. Len(d) \in Nat
    BY <2>2, LenProperties
  <2>4. IsPrefix(n, t)
    <3>1. CASE p <= Len(d)
      <4>. DEFINE x == SendsFrom(a, d, w, p)
                  y == SendsFrom(a, d, p, Len(d))
                  l == Len(d)
      <4>1. l \in Nat /\ l <= Len(d) /\ p <= l
        BY <2>3, <3>1
      <4>2. x \in Seq(FtpBytes) /\ y \in Seq(FtpBytes) /\ t = x \o y
        <5>. HIDE DEF l
        <5>1. /\ SendsFrom(a, d, w, p) \in Seq(FtpBytes) /\ SendsFrom(a, d, p, l) \in Seq(FtpBytes)
              /\ SendsFrom(a, d, w, l) = SendsFrom(a, d, w, p) \o SendsFrom(a, d, p, l)
          BY <2>2, <4>1, SendsConcat
        <5>. QED BY <5>1 DEF l
      <4>. HIDE DEF x, y
      <4>3. SubSeq(x \o y, 1, Len(x)) = x /\ SubSeq(x, 1, Len(x)) = x
        BY <4>2, PrefixOfConcat, SubSeqFull
      <4>4. Len(x \o y) = Len(x) + Len(y) /\ Len(x) \in Nat /\ Len(y) \in Nat
        BY <4>2, ConcatProperties, LenProperties
      <4>5. IsPrefix(x, x \o y)
        BY <4>3, <4>4 DEF IsPrefix
      <4>. QED BY <2>2, <3>1, <4>2, <4>5 DEF x
    <3>2. CASE ~(p <= Len(d))
      <4>1. t \in Seq(FtpBytes)
        <5>. DEFINE v == SubSeq(d, w + 1, Len(d))
        <5>1. v \in Seq(FtpBytes)
          BY <2>2, SuffixProperties
        <5>. HIDE DEF v
        <5>2. Crlf(v) \in Seq(FtpBytes)
          BY <5>1, CrlfConcat
        <5>. QED BY <5>1, <5>2 DEF SendsFrom, Sends, v
      <4>. HIDE DEF t
      <4>2. Len(t) \in Nat /\ n = <<>>
        BY <2>2, <3>2, <4>1, LenProperties
      <4>3. SubSeq(<<>>, 1, 0) = <<>> /\ SubSeq(t, 1, 0) = <<>> /\ Len(<<>>) = 0
        BY SubSeqEmpty
      <4>. QED BY <4>2, <4>3 DEF IsPrefix
    <3>. QED BY <3>1, <3>2
  <2>. QED BY <1>2, <2>4 DEF TransferIntact, a, w, d, n, SendsFrom, Sends
<1>3. CASE ftask.at # "stor" /\ ftask.at # "retr"
  BY <1>3 DEF TransferIntact
<1>. QED BY <1>1, <1>2, <1>3

\* What FTP clients send and ask for is what reaches the file and what they are sent,
\* for every file, every sequence of commands and every division into blocks
\* (cmd_retr, cmd_stor), except an upload in ASCII mode one of whose blocks ends in CR:
\* there the code loses the LF of a line end that is split (ftpd.c:234).
THEOREM TransfersAreIntact == ServicesSpec => []TransferIntact
<1>1. ServicesSpec => []FtpInv
  BY FtpStart, FtpStep, PTL DEF ServicesSpec
<1>. QED BY <1>1, FtpIntact, PTL

=============================================================================
