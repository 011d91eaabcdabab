----------------------------- MODULE ModbusTcp -----------------------------
(***************************************************************************)
(* Modbus over TCP: the connection slots of src/modbus/tcp.c and the MBAP  *)
(* framing of src/modbus/mbtcp_adu.c.  All callbacks run in the tcpip      *)
(* thread, one at a time; the network cuts the byte stream of a master     *)
(* into segments as it likes, and tcp_write may lack memory or fail.       *)
(*                                                                         *)
(* A frame is a sequence of bytes: protocol id, length, unit, function     *)
(* code, data.  Here each field is one byte, so that the length counts     *)
(* from the third byte where the code's counts from the seventh.           *)
(***************************************************************************)
EXTENDS MbServer, SequencesExt

CONSTANTS
  Conns,        \* connection slots (MB_TCP_MAX_EST)
  TcpFrames,    \* frames masters may send
  TcpSends,     \* bound: frames sent in all
  LenClamp,     \* the length field counts up to this (256)
  ServerSays(_, _) \* what the server makes of a function code and the number of
                   \* bytes behind it: "reply", "exc", "silent" or "clear"

ASSUME TcpAssumption ==
  Conns \subseteq Nat \ {0} /\ LenClamp \in Nat /\ TcpFrames \subseteq Seq(Nat)

Prefix == 2
Header == 4

VARIABLES
  mconn,        \* mb_conns: up, rx, pending (an answer's number, 0 for none), stale
  callback,     \* mb_recv_cb at work: connection and bytes left of the pbuf
  wire,         \* bytes on their way from each master
  sendsLeft,    \* TcpSends minus the frames sent
  got,          \* history: bytes this connection took in
  frames,       \* history: frames this connection processed
  sent          \* history: numbers of the answers handed to TCP

tcpVars == <<mconn, callback, wire, sendsLeft, got, frames, sent>>

Free == [up |-> FALSE, rx |-> <<>>, pending |-> 0, stale |-> FALSE]
Idle == [conn |-> 0, rest |-> <<>>]

-----------------------------------------------------------------------------
(* MBAP framing                                                            *)

MinOf(a, b) == IF a < b THEN a ELSE b

\* Variant with a fault: a length field below two ends the frame in the header.
FrameNeedShort(rx) == IF rx[2] < 2 THEN Prefix + 1 ELSE Prefix + rx[2]

\* frame_need.
FrameNeed(rx) == Prefix + MinOf(rx[2], LenClamp)

\* What the server makes of a frame, its length cut to what is there.
AduSays(f) ==
  LET pdu == IF f[2] >= 2 THEN MinOf(f[2], LenClamp) - 1 ELSE 1
  IN ServerSays(f[4], MinOf(pdu, Len(f) - 3) - 1)

\* What mbtcp_adu_process does with a frame.
AduVerdict(f) ==
  CASE f[1] # 0 -> "failure"
    [] f[1] = 0 /\ f[3] = 0 -> "broadcast"
    [] OTHER -> AduSays(f)

Answers == {"failure", "reply", "exc", "clear"}

\* Variant with a fault: a request left unanswered is not counted.
AduCountsNoSilence(d, f) ==
  CASE AduVerdict(f) = "failure" -> d
    [] AduVerdict(f) = "broadcast" -> Counted(Processed(d, AduSays(f)), {"NO_RESP"})
    [] OTHER -> Processed(d, AduSays(f))

\* The counters d after a frame.
AduCounts(d, f) ==
  CASE AduVerdict(f) = "failure" -> d
    [] AduVerdict(f) \in Answers \ {"failure"} -> Processed(d, AduSays(f))
    [] OTHER -> Counted(Processed(d, AduSays(f)), {"NO_RESP"})

-----------------------------------------------------------------------------
(* Callbacks of the tcpip thread                                           *)

Closes(c) == mconn' = [mconn EXCEPT ![c] = Free]

\* mb_accept_cb: the first free slot; a third master is aborted.
MbAccept ==
  /\ callback = Idle
  /\ LET free == {c \in Conns : ~mconn[c].up}
     IN IF free = {} THEN UNCHANGED <<mconn, wire, got, frames, sent>>
        ELSE LET c == CHOOSE d \in free : \A e \in free : d <= e
             IN /\ mconn' = [mconn EXCEPT ![c] = [Free EXCEPT !.up = TRUE]]
                /\ wire' = [wire EXCEPT ![c] = <<>>]
                /\ got' = [got EXCEPT ![c] = <<>>]
                /\ frames' = [frames EXCEPT ![c] = <<>>]
                /\ sent' = [sent EXCEPT ![c] = <<>>]
  /\ UNCHANGED <<callback, sendsLeft, served, diag>>

\* The stack hands over a segment of any length.
MbRecv(c, n) ==
  /\ callback = Idle /\ mconn[c].up /\ n \in 1 .. Len(wire[c])
  /\ callback' = [conn |-> c, rest |-> SubSeq(wire[c], 1, n)]
  /\ wire' = [wire EXCEPT ![c] = SubSeq(@, n + 1, Len(@))]
  /\ UNCHANGED <<mconn, sendsLeft, got, frames, sent, served, diag>>

\* process_frame at a complete frame f of connection c, rest of the pbuf behind
\* it: an answer tcp_write has no memory for replaces the one kept for the poll.
ProcessFrame(c, f, rest) ==
  LET v == AduVerdict(f)
      n == Len(frames[c]) + 1
      empty == [mconn[c] EXCEPT !.rx = <<>>, !.stale = FALSE]
      go == callback' = [conn |-> IF rest = <<>> THEN 0 ELSE c, rest |-> rest]
  IN /\ diag' = AduCounts(diag, f)
     /\ frames' = [frames EXCEPT ![c] = Append(@, f)]
     /\ served' = IF v = "failure" THEN served ELSE ServedAfter(AduSays(f), v \notin Answers)
     /\ \/ v \notin Answers /\ mconn' = [mconn EXCEPT ![c] = empty] /\ UNCHANGED sent /\ go
        \/ /\ v \in Answers /\ go
           /\ mconn' = [mconn EXCEPT ![c] = empty]
           /\ sent' = [sent EXCEPT ![c] = Append(@, n)]
        \/ /\ v \in Answers /\ go
           /\ mconn' = [mconn EXCEPT ![c] = [empty EXCEPT !.pending = n]]
           /\ UNCHANGED sent
        \/ v \in Answers /\ Closes(c) /\ callback' = Idle /\ UNCHANGED sent

\* One turn of the loop of mb_recv_cb: bytes up to the header, then up to the end
\* of the frame.
RecvStep ==
  /\ callback # Idle
  /\ LET c == callback.conn
         rx == mconn[c].rx
         want == IF Len(rx) < Header THEN Header ELSE FrameNeed(rx)
         n == MinOf(Len(callback.rest), want - Len(rx))
         more == rx \o SubSeq(callback.rest, 1, n)
         rest == SubSeq(callback.rest, n + 1, Len(callback.rest))
     IN /\ got' = [got EXCEPT ![c] = @ \o SubSeq(callback.rest, 1, n)]
        /\ IF Len(more) >= Header /\ Len(more) >= FrameNeed(more)
           THEN ProcessFrame(c, more, rest)
           ELSE /\ mconn' = [mconn EXCEPT ![c].rx = more, ![c].stale = FALSE]
                /\ callback' = [conn |-> IF rest = <<>> THEN 0 ELSE c, rest |-> rest]
                /\ UNCHANGED <<frames, sent, served, diag>>
  /\ UNCHANGED <<wire, sendsLeft>>

\* The master's FIN, or the stack gave the connection up (mb_err_cb).
MbGone(c) ==
  /\ callback = Idle /\ mconn[c].up /\ Closes(c)
  /\ UNCHANGED <<callback, wire, sendsLeft, got, frames, sent, served, diag>>

\* Variant with a fault: the answer stays pending after it was written.
MbPollAgain(c) ==
  /\ callback = Idle /\ mconn[c].up
  /\ \/ /\ mconn[c].pending # 0 /\ sent' = [sent EXCEPT ![c] = Append(@, mconn[c].pending)]
        /\ IF mconn[c].rx # <<>> /\ mconn[c].stale THEN Closes(c) ELSE UNCHANGED mconn
     \/ /\ mconn[c].rx # <<>> /\ mconn[c].stale /\ Closes(c) /\ UNCHANGED sent
  /\ UNCHANGED <<callback, wire, sendsLeft, got, frames, served, diag>>

\* Variant with a fault: only a frame whose header is complete is timed out.
MbPollHeader(c) ==
  /\ callback = Idle /\ mconn[c].up
  /\ Len(mconn[c].rx) >= Header /\ mconn[c].stale /\ Closes(c)
  /\ UNCHANGED <<callback, wire, sendsLeft, got, frames, sent, served, diag>>

\* mb_poll_cb: the pending answer (written, no memory, failed), then the half frame.
MbPoll(c) ==
  /\ callback = Idle /\ mconn[c].up
  /\ LET half == mconn[c].rx # <<>> /\ mconn[c].stale
     IN \/ mconn[c].pending = 0 /\ half /\ Closes(c) /\ UNCHANGED sent
        \/ /\ mconn[c].pending # 0
           /\ sent' = [sent EXCEPT ![c] = Append(@, mconn[c].pending)]
           /\ IF half THEN Closes(c) ELSE mconn' = [mconn EXCEPT ![c].pending = 0]
        \/ mconn[c].pending # 0 /\ half /\ Closes(c) /\ UNCHANGED sent
        \/ mconn[c].pending # 0 /\ Closes(c) /\ UNCHANGED sent
  /\ UNCHANGED <<callback, wire, sendsLeft, got, frames, served, diag>>

-----------------------------------------------------------------------------
(* Masters, network and clock                                              *)

MasterSends(c, f) ==
  /\ mconn[c].up /\ sendsLeft > 0 /\ sendsLeft' = sendsLeft - 1
  /\ wire' = [wire EXCEPT ![c] = @ \o f]
  /\ UNCHANGED <<mconn, callback, got, frames, sent, served, diag>>

\* MB_TCP_FRAME_TMO_MS pass without a byte.
FrameTimeout(c) ==
  /\ callback = Idle /\ mconn[c].rx # <<>> /\ ~mconn[c].stale
  /\ mconn' = [mconn EXCEPT ![c].stale = TRUE]
  /\ UNCHANGED <<callback, wire, sendsLeft, got, frames, sent, served, diag>>

TcpInit ==
  /\ mconn = [c \in Conns |-> Free] /\ callback = Idle
  /\ wire = [c \in Conns |-> <<>>] /\ sendsLeft = TcpSends
  /\ got = [c \in Conns |-> <<>>] /\ frames = [c \in Conns |-> <<>>]
  /\ sent = [c \in Conns |-> <<>>]

TcpNext ==
  \/ MbAccept
  \/ RecvStep
  \/ \E c \in Conns :
       \/ \E n \in 1 .. Len(wire[c]) : MbRecv(c, n)
       \/ MbGone(c) \/ MbPoll(c) \/ FrameTimeout(c)
       \/ \E f \in TcpFrames : MasterSends(c, f)

\* The tcpip thread runs its callbacks, lwIP polls every connection, time passes.
TcpFairness ==
  /\ WF_tcpVars(RecvStep /\ UNCHANGED <<holding, inputs, outs, clock>>)
  /\ \A c \in Conns : WF_tcpVars(mconn[c].stale /\ MbPoll(c)) /\ WF_tcpVars(FrameTimeout(c))

-----------------------------------------------------------------------------
(* Properties                                                              *)

\* Reference: the frames in a byte stream and the rest, from the length fields.
Split(s) ==
  LET step[k \in 0 .. Len(s)] ==
        IF k = 0 THEN [done |-> <<>>, rest |-> s]
        ELSE LET p == step[k - 1]
                 l == IF Len(p.rest) < Header THEN Len(s) + 1
                      ELSE Max({Header, Prefix + Min({p.rest[2], LenClamp})})
             IN IF Len(p.rest) < l THEN p
                ELSE [done |-> Append(p.done, SubSeq(p.rest, 1, l)),
                      rest |-> SubSeq(p.rest, l + 1, Len(p.rest))]
  IN step[Len(s)]

\* However the network cuts the stream into segments, mb_recv_cb processes the
\* frames the length fields delimit and keeps the rest; pipelined frames in one
\* segment and a header split in two included.
SegmentationIrrelevant ==
  \A c \in Conns :
    mconn[c].up => /\ frames[c] = Split(got[c]).done
                   /\ mconn[c].rx = Split(got[c]).rest

\* An answer goes out at most once, to the connection whose frame it answers,
\* and only for a frame that wants one, although it may wait for the poll while
\* later frames are answered, masters leave and slots are taken again.  While the
\* connection lives, an answer is lost only to a later one: whatever tcp_write and
\* the poll did, the answer to the newest frame that wants one is sent or waits.
RepliesOnce ==
  \A c \in Conns :
    LET all == IF mconn[c].pending = 0 THEN sent[c] ELSE Append(sent[c], mconn[c].pending)
    IN /\ IsInjective(all)
       /\ \A i \in DOMAIN all : all[i] <= Len(frames[c]) /\ AduVerdict(frames[c][all[i]]) \in Answers
       /\ \A n \in DOMAIN frames[c] : mconn[c].up /\ AduVerdict(frames[c][n]) \in Answers =>
                                      \E i \in DOMAIN all : all[i] >= n

=============================================================================
