------------------------------ MODULE BootCan ------------------------------
(***************************************************************************)
(* The boot loader's CAN rescue, src/boot/boot_can.c, called from          *)
(* src/boot/boot.c before and after MCUboot's boot_go (external).  The     *)
(* loader is one polling loop; frames arrive in the receive FIFO between   *)
(* any two polls, and the power may fail between any two flash operations. *)
(*                                                                         *)
(* A frame is a record: id ("cmd", "data", "key", "ack", "other", "ext"),  *)
(* dlc, and what the handler reads of it.  Replies, probes and traces are  *)
(* left out: the loader sends them and forgets them.                       *)
(***************************************************************************)
EXTENDS Integers, Sequences, SequencesExt

CONSTANTS
  Images,       \* images MCUboot accepts, as sequences of bytes
  SwapImage,    \* the image of an upgrade request in slot 1, one of Images
  Slot0Size,
  SectorSz,     \* slot 0 is erased in sectors of this many cells
  MinImage,     \* smallest size START takes
  BootFrames,   \* frames hosts may send
  FifoDepth,    \* receive FIFO of the CAN controller
  IdleLimit,    \* IDLE_TIMEOUT_MS in clock ticks
  BootKeys,     \* sequence numbers of the key hash frames
  Empty,        \* an erased cell
  Bad           \* a cell that holds no byte: erased in part or programmed twice

ASSUME BootCanAssumption ==
  /\ SwapImage \in Images
  /\ Slot0Size \in Nat /\ SectorSz \in Nat \ {0} /\ Slot0Size % SectorSz = 0
  /\ MinImage \in Nat /\ FifoDepth \in Nat \ {0} /\ IdleLimit \in Nat \ {0}
  /\ Empty # Bad
  /\ \A f \in BootFrames :
       /\ f.id = "data" => f.data \in Seq(Nat) /\ f.dlc = Len(f.data)
       /\ f.id = "cmd" /\ f.dlc = 8 => f.cmd \in {"VERSION", "START", "CONFIRM", "REBOOT"}

VARIABLES
  bpc,          \* where main() is
  forever,      \* argument of boot_can_wait
  sess,         \* the static session state s
  fifo,         \* receive FIFO
  lastId,       \* id in the probe loop, "undef" before the first standard frame
  idle,         \* ticks since last_activity
  slot0,        \* internal flash
  toErase,      \* sectors intflash_erase still has to erase
  pend,         \* slot 1 holds an image whose swap is requested
  accepted,     \* history: the bytes DATA accepted since the last START
  eraseFailed,  \* history: the erase of a START failed, and none succeeded since
  quiet         \* no frame arrives and no power fails any more

bootVars == <<bpc, forever, sess, fifo, lastId, idle, slot0, toErase, pend, accepted, eraseFailed, quiet>>

NoSession ==
  [active |-> FALSE, total |-> 0, written |-> 0, confirmed |-> FALSE, installed |-> FALSE,
   keys |-> {}, wrong |-> {}]

Cells == 0 .. Slot0Size - 1
Sectors == 0 .. Slot0Size \div SectorSz - 1
SectorOf(c) == c \div SectorSz

-----------------------------------------------------------------------------
(* Internal flash, src/storage/intflash.c                                  *)

ErasedSector(s) == [c \in Cells |-> IF SectorOf(c) = s THEN Empty ELSE slot0[c]]
TornSector(s) == [c \in Cells |-> IF SectorOf(c) = s THEN Bad ELSE slot0[c]]

\* intflash_write at off: programming a cell that is not erased spoils it.
Programmed(off, data) ==
  [c \in Cells |->
     IF c \in off .. off + Len(data) - 1
     THEN IF slot0[c] = Empty THEN data[c - off + 1] ELSE Bad
     ELSE slot0[c]]

HoldsImage(img) == \A i \in 1 .. Len(img) : slot0[i - 1] = img[i]
Bootable == \E img \in Images : HoldsImage(img)

-----------------------------------------------------------------------------
(* The CAN controller                                                      *)

\* A frame arrives; the last one in a full FIFO is overwritten.
FrameArrives(f) ==
  /\ ~quiet /\ bpc # "app"
  /\ fifo' = IF Len(fifo) < FifoDepth THEN Append(fifo, f) ELSE [fifo EXCEPT ![FifoDepth] = f]
  /\ UNCHANGED <<bpc, forever, sess, lastId, idle, slot0, toErase, pend, accepted,
                 eraseFailed, quiet>>

\* can_recv reports a frame without data bytes like an empty FIFO, so that the
\* loops that drain the FIFO stop behind it.
Drained(q) ==
  IF \E i \in DOMAIN q : q[i].dlc = 0
  THEN LET i == CHOOSE j \in DOMAIN q : q[j].dlc = 0 /\ \A k \in 1 .. j - 1 : q[k].dlc # 0
       IN SubSeq(q, i + 1, Len(q))
  ELSE <<>>

-----------------------------------------------------------------------------
(* boot_can_wait: start, probe window                                      *)

WaitStart ==
  /\ bpc = "enter"
  /\ sess' = NoSession
  /\ eraseFailed' = FALSE
  /\ lastId' = "undef"
  /\ accepted' = <<>>
  /\ bpc' \in {"probe", "done"}         \* can_init may fail
  /\ UNCHANGED <<forever, fifo, idle, slot0, toErase, pend, quiet>>

\* What the host's answer to the probe does: the old frames are dropped.
HostFound(rest) == bpc' = "session" /\ fifo' = Drained(rest) /\ idle' = 0 /\ lastId' = "undef"
StillProbing(rest, id) == bpc' = "probe" /\ fifo' = rest /\ lastId' = id /\ UNCHANGED idle

\* An extended frame leaves id as it was: uninitialised or of an older frame.
ProbePoll ==
  /\ bpc = "probe" /\ fifo # <<>>
  /\ LET f == Head(fifo)
         id == IF f.id = "ext" THEN lastId ELSE f.id
     IN \/ /\ f.dlc # 0 /\ id \in {"ack", "undef"}
           /\ HostFound(Tail(fifo))
        \/ /\ f.dlc = 0 \/ id # "ack"
           /\ StillProbing(Tail(fifo), id)
  /\ UNCHANGED <<forever, sess, slot0, toErase, pend, accepted, eraseFailed, quiet>>

ProbeTimeout ==
  /\ bpc = "probe" /\ ~forever
  /\ bpc' = "done" /\ lastId' = "undef"
  /\ UNCHANGED <<forever, sess, fifo, idle, slot0, toErase, pend, accepted,
                 eraseFailed, quiet>>

-----------------------------------------------------------------------------
(* handle_frame: the outcomes a frame may have, each with the session, the *)
(* flash, the bytes accepted, the erase to do and the frames left in the   *)
(* FIFO                                                                    *)

NoErase == [size |-> 0, left |-> {}]
Outcome ==
  [s |-> sess, flash |-> slot0, acc |-> accepted, erase |-> NoErase, rest |-> Tail(fifo)]
SessClosed == [sess EXCEPT !.active = FALSE]

\* START: the key hash counts when all its frames came; then the sectors under
\* the image are erased.
OnStart(f) ==
  LET complete == sess.keys = BootKeys
      wrong == complete /\ sess.wrong # {}
      s == IF complete THEN [sess EXCEPT !.keys = {}] ELSE sess
  IN IF wrong \/ f.arg \notin MinImage .. Slot0Size
     THEN [Outcome EXCEPT !.s = s]
     ELSE [Outcome EXCEPT !.s = s,
             !.erase = [size |-> f.arg, left |-> {SectorOf(c) : c \in 0 .. f.arg - 1}]]

\* Variant with a fault: CONFIRM does not compare the sizes.
OnConfirmUnchecked ==
  IF ~sess.active THEN Outcome
  ELSE [Outcome EXCEPT !.s = [SessClosed EXCEPT !.installed = TRUE, !.confirmed = TRUE],
                       !.rest = Drained(Tail(fifo))]

OnConfirm ==
  CASE ~sess.active -> Outcome
    [] sess.active /\ sess.written # sess.total ->
         [Outcome EXCEPT !.s = SessClosed, !.rest = Drained(Tail(fifo))]
    [] OTHER ->
         [Outcome EXCEPT !.s = [SessClosed EXCEPT !.installed = TRUE, !.confirmed = TRUE],
                         !.rest = Drained(Tail(fifo))]

OnCmd(f) ==
  CASE f.dlc # 8 \/ f.cmd = "VERSION" -> Outcome
    [] f.dlc = 8 /\ f.cmd = "START" -> OnStart(f)
    [] f.dlc = 8 /\ f.cmd = "CONFIRM" -> OnConfirm
    [] f.dlc = 8 /\ f.cmd = "REBOOT" -> [Outcome EXCEPT !.s.confirmed = TRUE]

\* DATA goes to the flash behind what was written before; a write that fails
\* may have programmed some of its cells.
OnData(f) ==
  LET written == sess.written + f.dlc
      done == [Outcome EXCEPT !.s.written = written,
                              !.flash = Programmed(sess.written, f.data),
                              !.acc = accepted \o f.data]
  IN CASE ~sess.active -> {Outcome}
       [] sess.active /\ written > sess.total -> {[Outcome EXCEPT !.s = SessClosed]}
       [] OTHER ->
            {done} \cup
            {[Outcome EXCEPT !.s = SessClosed,
                             !.flash = Programmed(sess.written, SubSeq(f.data, 1, n))] :
               n \in 0 .. Len(f.data)}

\* A frame of the key hash: chunk f.seq, stored when it is whole.
OnKey(f) ==
  IF f.seq \notin BootKeys \/ ~f.whole THEN Outcome
  ELSE [Outcome EXCEPT !.s.keys = @ \cup {f.seq},
                       !.s.wrong = IF f.good THEN @ \ {f.seq} ELSE @ \cup {f.seq}]

HandleFrame(f) ==
  CASE f.id = "cmd" -> {OnCmd(f)}
    [] f.id = "data" -> OnData(f)
    [] f.id = "key" -> {OnKey(f)}
    [] OTHER -> {Outcome}

Refreshing == {"cmd", "data", "key", "ext", "ack"}

-----------------------------------------------------------------------------
(* boot_can_wait: the session                                              *)

\* The head of the FIFO is a frame of the upgrade protocol, or an extended one.
\* A frame without data bytes is not noticed.
Alive == fifo # <<>> /\ Head(fifo).dlc # 0 /\ Head(fifo).id \in Refreshing

SessionFrame ==
  /\ bpc = "session" /\ ~sess.confirmed /\ Alive
  /\ \E o \in HandleFrame(Head(fifo)) :
       /\ sess' = o.s /\ slot0' = o.flash /\ accepted' = o.acc
       /\ fifo' = o.rest /\ toErase' = o.erase
       /\ bpc' = IF o.erase = NoErase THEN "session" ELSE "erase"
  /\ idle' = 0
  /\ UNCHANGED <<forever, lastId, pend, eraseFailed, quiet>>

\* Variant with a fault: the idle time is not looked at.
SessionPollNoTimeout ==
  /\ bpc = "session" /\ ~sess.confirmed /\ ~Alive
  /\ fifo # <<>> /\ fifo' = Tail(fifo)
  /\ UNCHANGED <<bpc, forever, sess, lastId, idle, slot0, toErase, pend, accepted,
                 eraseFailed, quiet>>

\* A round of the loop without such a frame: the idle time is looked at.
SessionPoll ==
  /\ bpc = "session" /\ ~sess.confirmed /\ ~Alive
  /\ fifo # <<>> \/ idle >= IdleLimit
  /\ fifo' = IF fifo = <<>> THEN fifo ELSE Tail(fifo)
  /\ bpc' = IF idle >= IdleLimit THEN "done" ELSE "session"
  /\ UNCHANGED <<forever, sess, lastId, idle, slot0, toErase, pend, accepted,
                 eraseFailed, quiet>>

SessionConfirmed ==
  /\ bpc = "session" /\ sess.confirmed
  /\ bpc' = "done"
  /\ UNCHANGED <<forever, sess, fifo, lastId, idle, slot0, toErase, pend, accepted,
                 eraseFailed, quiet>>

ClockTick ==
  /\ bpc = "session" /\ idle < IdleLimit
  /\ idle' = idle + 1
  /\ UNCHANGED <<bpc, forever, sess, fifo, lastId, slot0, toErase, pend, accepted,
                 eraseFailed, quiet>>

\* intflash_erase, sector by sector from the lowest.
FirstSector == CHOOSE s \in toErase.left : \A t \in toErase.left : s <= t
EraseSector ==
  /\ bpc = "erase" /\ toErase.left # {}
  /\ slot0' = ErasedSector(FirstSector)
  /\ toErase' = [toErase EXCEPT !.left = @ \ {FirstSector}]
  /\ UNCHANGED <<bpc, forever, sess, fifo, lastId, idle, pend, accepted, eraseFailed,
                 quiet>>

\* The erase fails: the session that was open before stays open.
EraseFails ==
  /\ bpc = "erase" /\ toErase.left # {}
  /\ slot0' \in {slot0, TornSector(FirstSector)}
  /\ toErase' = NoErase /\ eraseFailed' = TRUE
  /\ bpc' = "session" /\ idle' = 0
  /\ UNCHANGED <<forever, sess, fifo, lastId, pend, accepted, quiet>>

\* Variant with a fault: the count of the session before is kept.
EraseDoneKeepsWritten ==
  /\ bpc = "erase" /\ toErase.left = {}
  /\ sess' = [sess EXCEPT !.active = TRUE, !.total = toErase.size]
  /\ accepted' = <<>>
  /\ toErase' = NoErase
  /\ bpc' = "session" /\ idle' = 0 /\ eraseFailed' = FALSE
  /\ UNCHANGED <<forever, fifo, lastId, slot0, pend, quiet>>

EraseDone ==
  /\ bpc = "erase" /\ toErase.left = {}
  /\ sess' = [sess EXCEPT !.active = TRUE, !.total = toErase.size, !.written = 0]
  /\ accepted' = <<>>
  /\ toErase' = NoErase
  /\ bpc' = "session" /\ idle' = 0 /\ eraseFailed' = FALSE
  /\ UNCHANGED <<forever, fifo, lastId, slot0, pend, quiet>>

-----------------------------------------------------------------------------
(* main                                                                    *)

\* boot_go (external): a requested swap puts the image of slot 1 into slot 0;
\* an image in slot 0 that verifies is started.
BootGo ==
  /\ bpc = "done" /\ ~forever
  /\ slot0' = IF pend
              THEN [c \in Cells |-> IF c < Len(SwapImage) THEN SwapImage[c + 1] ELSE Empty]
              ELSE slot0
  /\ pend' = FALSE
  /\ IF pend \/ Bootable THEN bpc' = "app" /\ UNCHANGED forever
     ELSE bpc' = "enter" /\ forever' = TRUE
  /\ UNCHANGED <<sess, fifo, lastId, idle, toErase, accepted, eraseFailed, quiet>>

\* Without an image: again, or the reset after an installation.
RescueAgain ==
  /\ bpc = "done" /\ forever
  /\ bpc' = "enter"
  /\ forever' = ~sess.installed
  /\ fifo' = IF sess.installed THEN <<>> ELSE fifo
  /\ UNCHANGED <<sess, lastId, idle, slot0, toErase, pend, accepted, eraseFailed,
                 quiet>>

Restarted ==
  /\ bpc' = "enter" /\ forever' = FALSE
  /\ sess' = NoSession /\ fifo' = <<>> /\ idle' = 0 /\ toErase' = NoErase
  /\ UNCHANGED <<lastId, accepted, eraseFailed, quiet>>

\* The application runs, may request a swap and restarts.
AppRestarts ==
  /\ bpc = "app" /\ ~quiet
  /\ pend' \in {pend, TRUE}
  /\ UNCHANGED slot0
  /\ Restarted

\* The power fails: the flash operation in progress stays half done.
BootPowerLoss ==
  /\ bpc # "app" /\ ~quiet
  /\ \/ UNCHANGED slot0
     \/ bpc = "erase" /\ toErase.left # {} /\ slot0' = TornSector(FirstSector)
     \/ /\ bpc = "session" /\ ~sess.confirmed /\ Alive
        /\ \E o \in HandleFrame(Head(fifo)) : slot0' = o.flash
  /\ UNCHANGED pend
  /\ Restarted

GoesQuiet ==
  /\ ~quiet /\ quiet' = TRUE
  /\ UNCHANGED <<bpc, forever, sess, fifo, lastId, idle, slot0, toErase, pend, accepted,
                 eraseFailed>>

BootInit ==
  /\ bpc = "enter" /\ forever = FALSE
  /\ sess = NoSession /\ fifo = <<>> /\ lastId = "undef" /\ idle = 0
  /\ slot0 = [c \in Cells |-> IF c < Len(SwapImage) THEN SwapImage[c + 1] ELSE Empty]
  /\ toErase = NoErase /\ pend = FALSE
  /\ accepted = <<>> /\ eraseFailed = FALSE /\ quiet = FALSE

Loader ==
  \/ WaitStart \/ ProbePoll \/ ProbeTimeout
  \/ SessionFrame \/ SessionPoll \/ SessionConfirmed
  \/ EraseSector \/ EraseFails \/ EraseDone
  \/ BootGo \/ RescueAgain

BootNext ==
  \/ \E f \in BootFrames : FrameArrives(f)
  \/ Loader \/ ClockTick
  \/ AppRestarts \/ BootPowerLoss \/ GoesQuiet

-----------------------------------------------------------------------------
(* Properties                                                              *)

\* What a rescue session has accepted is in slot 0, byte for byte, and the rest
\* of the announced size is still erased: no byte is programmed over another,
\* whatever frames came before, between and after (boot_can.c:439).  (A START
\* whose erase failed spoils the session that was open before it and stays open;
\* nothing is said of that one until a START succeeds.)
RescueMatchesStream ==
  (sess.active \/ sess.installed) /\ bpc \in {"session", "done"} /\ ~eraseFailed =>
    /\ Len(accepted) = sess.written /\ HoldsImage(accepted)
    /\ \A c \in Cells : c >= sess.written /\ c < sess.total => slot0[c] = Empty

\* An installation that was confirmed covers the whole announced image, and is
\* what runs next, unless the application had requested a swap before
\* (boot.c:95).
ConfirmedIsStarted ==
  [][bpc = "done" /\ bpc' \in {"app", "enter"} /\ sess.installed /\ ~eraseFailed /\ ~pend =>
       Len(accepted) = sess.total /\ \A i \in DOMAIN accepted : slot0'[i - 1] = accepted[i]]_bootVars

\* When hosts fall silent and the power stays on, the loader starts the
\* application, or without an image goes on probing for a host: no session, no
\* erase and no half written slot keeps it from there (boot_can.c:550).
LoaderReturns == quiet ~> (bpc = "app" \/ (forever /\ bpc \in {"enter", "probe"}))

=============================================================================
