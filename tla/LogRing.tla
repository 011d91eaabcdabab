------------------------------ MODULE LogRing ------------------------------
(***************************************************************************)
(* The deferred log of src/sys/log.c: tasks push lines into a ring under a *)
(* lock, the logger task sends the ring over the UART without it, and      *)
(* log_flush waits for the ring to drain before a reset.                   *)
(*                                                                         *)
(* A byte of the log is its number among the bytes accepted.  head and     *)
(* tail count modulo a multiple of the ring's size, as 2^32 is.            *)
(***************************************************************************)
EXTENDS Integers, Sequences, FiniteSetsExt

CONSTANTS
  RingSize,     \* LOG_RING_SIZE
  RingMod,      \* head and tail wrap here
  LineLens,     \* lengths of lines
  UartMax,      \* bytes the UART sends within LOG_TMO_MS
  LogBytes,     \* bound: bytes accepted
  LogDrops      \* bound: lines dropped

ASSUME LogAssumption ==
  /\ RingSize \in Nat \ {0} /\ RingMod \in Nat
  /\ RingMod % RingSize = 0 /\ RingMod > RingSize
  /\ LineLens \subseteq Nat \ {0} /\ UartMax \in Nat \ {0}

VARIABLES
  ring,         \* log_ring
  lhead, ltail, \* ring_head, ring_tail
  push,         \* the holder of log_push_lock: its line's length, bytes copied
  lnotified,    \* the logger's task notification
  lpc,          \* log_task_fn: "wait", "drain", "emit", "report", "clear"
  emit,         \* the chunk under way: tail, length, bytes sent
  ldropped,     \* log_dropped
  lcopy,        \* the logger's copy of it
  flush,        \* log_flush: "no", "waiting", "drained" or "timeout"
  laccepted,     \* history: bytes accepted
  output,       \* history: bytes on the UART
  cut,          \* history: bytes lost to a send that timed out
  flushed,      \* history: bytes accepted when log_flush was called
  drops         \* history: lines dropped

logVars == <<ring, lhead, ltail, push, lnotified, lpc, emit, ldropped, lcopy, flush,
             laccepted, output, cut, flushed, drops>>

NoPush == [len |-> 0, done |-> 0]
Used == (lhead - ltail) % RingMod

-----------------------------------------------------------------------------
(* log_push, under log_push_lock                                           *)

\* Variant with a fault: a line of one byte more than there is room for is taken.
PushBeginTight(n) ==
  /\ push = NoPush
  /\ IF n > RingSize - Used + 1
     THEN drops < LogDrops /\ ldropped' = ldropped + 1 /\ drops' = drops + 1
          /\ lnotified' = TRUE /\ UNCHANGED push
     ELSE laccepted + n <= LogBytes /\ push' = [len |-> n, done |-> 0]
          /\ UNCHANGED <<ldropped, drops, lnotified>>
  /\ UNCHANGED <<ring, lhead, ltail, lpc, emit, lcopy, flush, laccepted, output, cut, flushed>>

\* The room is computed from a tail that may advance meanwhile; a line that does
\* not fit is dropped and counted.
PushBegin(n) ==
  /\ push = NoPush
  /\ IF n > RingSize - Used
     THEN drops < LogDrops /\ ldropped' = ldropped + 1 /\ drops' = drops + 1
          /\ lnotified' = TRUE /\ UNCHANGED push
     ELSE laccepted + n <= LogBytes /\ push' = [len |-> n, done |-> 0]
          /\ UNCHANGED <<ldropped, drops, lnotified>>
  /\ UNCHANGED <<ring, lhead, ltail, lpc, emit, lcopy, flush, laccepted, output, cut, flushed>>

\* The copies into the ring, up to its end and from its start.
PushCopy ==
  /\ push.done < push.len
  /\ ring' = [ring EXCEPT ![(lhead + push.done) % RingSize] = laccepted + push.done + 1]
  /\ push' = [push EXCEPT !.done = @ + 1]
  /\ UNCHANGED <<lhead, ltail, lnotified, lpc, emit, ldropped, lcopy, flush, laccepted, output,
                 cut, flushed, drops>>

\* ring_head is published, the lock given back, the logger notified.
PushEnd ==
  /\ push # NoPush /\ push.done = push.len /\ push' = NoPush
  /\ lhead' = (lhead + push.len) % RingMod /\ laccepted' = laccepted + push.len
  /\ lnotified' = TRUE
  /\ UNCHANGED <<ring, ltail, lpc, emit, ldropped, lcopy, flush, output, cut, flushed, drops>>

-----------------------------------------------------------------------------
(* log_task_fn                                                             *)

LogTake ==
  /\ lpc = "wait" /\ lnotified /\ lnotified' = FALSE /\ lpc' = "drain"
  /\ UNCHANGED <<ring, lhead, ltail, push, emit, ldropped, lcopy, flush, laccepted, output, cut,
                 flushed, drops>>

\* A chunk up to the end of the ring or to the head; none when the ring is empty.
LogChunk ==
  /\ lpc = "drain"
  /\ IF Used = 0 THEN lpc' = "report" /\ UNCHANGED emit
     ELSE /\ lpc' = "emit"
          /\ emit' = [tail |-> ltail, done |-> 0,
                      len |-> Min({Used, RingSize - (ltail % RingSize)})]
  /\ UNCHANGED <<ring, lhead, ltail, push, lnotified, ldropped, lcopy, flush, laccepted, output, cut,
                 flushed, drops>>

\* HAL_UART_Transmit sends a byte of the chunk.
LogByte ==
  /\ lpc = "emit" /\ emit.done < emit.len
  /\ output' = Append(output, ring[(emit.tail + emit.done) % RingSize])
  /\ emit' = [emit EXCEPT !.done = @ + 1]
  /\ UNCHANGED <<ring, lhead, ltail, push, lnotified, lpc, ldropped, lcopy, flush, laccepted, cut,
                 flushed, drops>>

\* The send ends, complete or, at UartMax bytes, by its timeout; the tail moves past
\* the chunk in either case.
LogSent ==
  /\ lpc = "emit" /\ (emit.done = emit.len \/ emit.done >= UartMax)
  /\ ltail' = (emit.tail + emit.len) % RingMod /\ lpc' = "drain"
  /\ cut' = cut \cup {ring[(emit.tail + i) % RingSize] : i \in emit.done .. emit.len - 1}
  /\ UNCHANGED <<ring, lhead, push, lnotified, emit, ldropped, lcopy, flush, laccepted, output,
                 flushed, drops>>

\* The count of dropped lines is read, then cleared and reported.
LogReport ==
  /\ lpc = "report" /\ lcopy' = ldropped
  /\ lpc' = IF ldropped = 0 THEN "wait" ELSE "clear"
  /\ UNCHANGED <<ring, lhead, ltail, push, lnotified, emit, ldropped, flush, laccepted, output, cut,
                 flushed, drops>>

LogClear ==
  /\ lpc = "clear" /\ ldropped' = 0 /\ lpc' = "wait"
  /\ UNCHANGED <<ring, lhead, ltail, push, lnotified, emit, lcopy, flush, laccepted, output, cut,
                 flushed, drops>>

Logger == LogTake \/ LogChunk \/ LogByte \/ LogSent \/ LogReport \/ LogClear

-----------------------------------------------------------------------------
(* log_flush                                                               *)

FlushBegin ==
  /\ flush = "no" /\ flush' = "waiting" /\ flushed' = laccepted
  /\ UNCHANGED <<ring, lhead, ltail, push, lnotified, lpc, emit, ldropped, lcopy, laccepted, output,
                 cut, drops>>

\* Variant with a fault: a line being sent is not waited for.
FlushEndEarly ==
  /\ flush = "waiting"
  /\ flush' = IF lpc = "emit" \/ (Used = 0 /\ ldropped = 0) THEN "drained" ELSE "timeout"
  /\ UNCHANGED <<ring, lhead, ltail, push, lnotified, lpc, emit, ldropped, lcopy, laccepted, output,
                 cut, flushed, drops>>

\* The ring is empty and the drops reported; or the time is over.
FlushEnd ==
  /\ flush = "waiting"
  /\ flush' = IF Used = 0 /\ ldropped = 0 THEN "drained" ELSE "timeout"
  /\ UNCHANGED <<ring, lhead, ltail, push, lnotified, lpc, emit, ldropped, lcopy, laccepted, output,
                 cut, flushed, drops>>

LogInit ==
  /\ ring = [i \in 0 .. RingSize - 1 |-> 0]
  /\ lhead = 0 /\ ltail = 0 /\ push = NoPush /\ lnotified = FALSE
  /\ lpc = "wait" /\ emit = [tail |-> 0, len |-> 0, done |-> 0]
  /\ ldropped = 0 /\ lcopy = 0 /\ flush = "no"
  /\ laccepted = 0 /\ output = <<>> /\ cut = {} /\ flushed = 0 /\ drops = 0

LogNext ==
  \/ \E n \in LineLens : PushBegin(n)
  \/ PushCopy \/ PushEnd
  \/ Logger
  \/ FlushBegin \/ FlushEnd

-----------------------------------------------------------------------------
(* Properties                                                              *)

\* The UART shows the accepted bytes in order, none twice and none overwritten in
\* the ring while the logger sends it without the lock: what is missing is what a
\* timeout cut off, never the loss of a lap.
OutputInOrder ==
  /\ \A i \in 1 .. Len(output) - 1 : output[i] < output[i + 1]
  /\ \A i \in DOMAIN output :
       \A b \in (IF i = 1 THEN 1 ELSE output[i - 1] + 1) .. output[i] - 1 : b \in cut

\* When log_flush returns before its timeout, every byte accepted before the call
\* is out, or was cut off by the UART's timeout (log.c:14).
FlushDrains ==
  flush = "drained" => \A b \in 1 .. flushed : b \in cut \/ \E i \in DOMAIN output : output[i] = b

=============================================================================
