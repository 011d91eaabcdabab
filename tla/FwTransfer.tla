----------------------------- MODULE FwTransfer -----------------------------
(***************************************************************************)
(* One upgrade over UDP from end to end: the host tool                     *)
(* tools/firmware_upgrade.py, a network that loses, duplicates, delays and *)
(* reorders datagrams, and the device (FwUdp over FwUpg) with the two-slot *)
(* reply ring its worker shares with the tcpip thread.                     *)
(*                                                                         *)
(* The host sends START, then the image (DATA_V2 in go-back-N windows, or  *)
(* legacy DATA one block at a time), then END.  It reads the answer to     *)
(* START, DATA and END from the first datagram that arrives, whatever that *)
(* datagram answers.                                                       *)
(***************************************************************************)
EXTENDS FwUdp, Functions

CONSTANTS
  Image,        \* the image file
  ChunkSz,      \* v2_chunk, or CHUNK for legacy data
  Window,       \* V2_WINDOW
  MaxRetries,   \* V2_MAX_RETRIES
  CbDepth,      \* callback messages lwIP has (MEMP_NUM_TCPIP_MSG_API)
  LowByte       \* 256: the host reads one byte of an offset as a status

ASSUME FwTransferAssumption ==
  /\ Image \in Seq(Byte)
  /\ ChunkSz \in Nat \ {0}
  /\ Window \in Nat \ {0}
  /\ MaxRetries \in Nat
  /\ CbDepth \in Nat
  /\ LowByte \in Nat \ {0, 1}

VARIABLES
  host,         \* the tool: where it is, and its local variables
  net,          \* the datagrams sent to the device so far
  hostRx,       \* the datagrams sent to the host so far
  replies,      \* replies[2], the worker's reply contexts
  replyIdx,     \* reply_idx & 1
  udpCb         \* tcpip_callback messages not executed yet

hostVars == <<host, net>>
ringVars == <<replies, replyIdx, udpCb>>
xferVars == <<vars, udpVars, hostVars, hostRx, ringVars>>

ImgLen == Len(Image)
Smaller(a, b) == IF a < b THEN a ELSE b

HostAt(label) == host.at = label
HostGoes(label) == host' = [host EXCEPT !.at = label] /\ UNCHANGED hostRx

\* The tool reports success, or exits with one of its errors.
Exits == {"done", "failed"}
HostStopped == host.at \in Exits

\* legacy: the --legacy option.
HostLocals(label, legacy) ==
  [at |-> label, legacy |-> legacy, off |-> 0, confirmed |-> 0, retries |-> 0]

\* The process ends, its variables and its socket are gone.
HostExits(label) == host' = HostLocals(label, host.legacy) /\ hostRx' = {}

-----------------------------------------------------------------------------
(* The device's replies                                                    *)

\* fw_reply: fill the next of the two contexts, hand it to the tcpip thread.  A
\* context no callback refers to is dead; it is kept as NoReply.
PostReply(reply) ==
  IF reply = NoReply
  THEN UNCHANGED ringVars
  ELSE /\ udpCb' = IF Len(udpCb) < CbDepth THEN Append(udpCb, replyIdx) ELSE udpCb
       /\ replies' = [replies EXCEPT ![replyIdx] =
                        IF replyIdx \in Range(udpCb') THEN reply ELSE NoReply]
       /\ replyIdx' = 1 - replyIdx

\* fw_send_reply_cb sends what the context holds by now; once the tool has
\* exited nothing listens there.
SendReply ==
  /\ udpCb # <<>>
  /\ udpCb' = Tail(udpCb)
  /\ hostRx' = IF HostStopped THEN hostRx ELSE hostRx \cup {replies[Head(udpCb)]}
  /\ replies' = [i \in 0 .. 1 |-> IF i \in Range(udpCb') THEN replies[i] ELSE NoReply]
  /\ UNCHANGED <<vars, udpVars, hostVars, replyIdx>>

DeviceWorker ==
  /\ \E reply \in UdpReplies : UdpWorker(reply) /\ PostReply(reply)
  /\ UNCHANGED <<hostVars, hostRx>>

-----------------------------------------------------------------------------
(* The network                                                             *)

\* A datagram that was sent may reach the device at any time, any number of
\* times, or never.
Deliver ==
  /\ \E m \in net : UdpCmd(m)
  /\ UNCHANGED <<hostVars, hostRx, ringVars>>

-----------------------------------------------------------------------------
(* The host tool                                                           *)

HostKeepsDevice == UNCHANGED <<vars, udpVars, ringVars>>

\* r[1] of a reply: a status byte, or the low byte of an offset.
StatusByte(r) == IF r.cmd \in {"START", "END"} THEN r.arg ELSE r.arg % LowByte

HostStart ==
  /\ HostAt("start")
  /\ net' = net \cup {[cmd |-> "START", size |-> ImgLen, kh |-> "good"]}
  /\ HostGoes("waitStart")
  /\ HostKeepsDevice

HostStarted ==
  /\ HostAt("waitStart")
  /\ \E r \in hostRx :
       IF StatusByte(r) = 1 THEN HostGoes("send") ELSE HostExits("failed")
  /\ HostKeepsDevice /\ UNCHANGED net

Block(w) == SubSeq(Image, w + 1, Smaller(w + ChunkSz, ImgLen))

WinEnd == Smaller(host.off + Window * ChunkSz, ImgLen)

\* send_v2: all frames of one window, then collect acknowledgements.
HostSendWindow ==
  /\ HostAt("send") /\ ~host.legacy /\ host.off < ImgLen
  /\ net' = net \cup {[cmd |-> "DATA_V2", off |-> w, data |-> Block(w)] :
                        w \in {host.off + i * ChunkSz : i \in 0 .. Window - 1}
                                \cap 0 .. WinEnd - 1}
  /\ host' = [host EXCEPT !.at = "collect", !.confirmed = host.off]
  /\ HostKeepsDevice /\ UNCHANGED hostRx

\* An acknowledgement beyond the confirmed offset is progress; the window is
\* done once all of it is confirmed.
HostCollect ==
  /\ HostAt("collect")
  /\ \E r \in hostRx :
       LET new == IF r.cmd = "DATA_V2" /\ r.arg > host.confirmed
                  THEN Smaller(r.arg, ImgLen) ELSE host.confirmed
       IN host' = [host EXCEPT
                     !.confirmed = new,
                     !.retries = IF new > host.confirmed THEN 0 ELSE @,
                     !.off = IF new >= WinEnd THEN new ELSE @,
                     !.at = IF new >= WinEnd THEN "send" ELSE @]
  /\ HostKeepsDevice /\ UNCHANGED <<net, hostRx>>

\* Variant with a fault: timeouts are not counted.
HostWindowTimeoutUncounted ==
  /\ HostAt("collect")
  /\ host' = [host EXCEPT !.at = "send", !.off = host.confirmed]
  /\ UNCHANGED hostRx
  /\ HostKeepsDevice /\ UNCHANGED net

\* No full window within V2_ACK_TMO: go back to the confirmed offset.
HostWindowTimeout ==
  /\ HostAt("collect")
  /\ IF host.retries + 1 > MaxRetries
     THEN HostExits("failed")
     ELSE /\ host' = [host EXCEPT !.at = "send", !.off = host.confirmed,
                                  !.retries = @ + 1]
          /\ UNCHANGED hostRx
  /\ HostKeepsDevice /\ UNCHANGED net

\* send_legacy: one block, then its answer.
HostSendBlock ==
  /\ HostAt("send") /\ host.legacy /\ host.off < ImgLen
  /\ net' = net \cup {[cmd |-> "DATA", data |-> Block(host.off)]}
  /\ HostGoes("waitBlock")
  /\ HostKeepsDevice

\* An answer too short to hold an offset ends the tool as well.
HostBlockAnswered ==
  LET next == Smaller(host.off + ChunkSz, ImgLen)
  IN /\ HostAt("waitBlock")
     /\ \E r \in hostRx :
          IF r.cmd \in {"DATA", "DATA_V2"} /\ r.arg = next
          THEN host' = [host EXCEPT !.at = "send", !.off = next] /\ UNCHANGED hostRx
          ELSE HostExits("failed")
     /\ HostKeepsDevice /\ UNCHANGED net

HostEnd ==
  /\ HostAt("send") /\ host.off >= ImgLen
  /\ net' = net \cup {[cmd |-> "END", test |-> FALSE, crc |-> Crc16(0, Image)]}
  /\ HostGoes("waitEnd")
  /\ HostKeepsDevice

HostEnded ==
  /\ HostAt("waitEnd")
  /\ \E r \in hostRx :
       HostExits(IF StatusByte(r) = 1 THEN "done" ELSE "failed")
  /\ HostKeepsDevice /\ UNCHANGED net

\* xfer times out: the exception ends the tool.
HostTimeout ==
  /\ host.at \in {"waitStart", "waitBlock", "waitEnd"}
  /\ HostExits("failed")
  /\ HostKeepsDevice /\ UNCHANGED net

HostNext ==
  \/ HostStart \/ HostStarted \/ HostSendWindow \/ HostCollect
  \/ HostWindowTimeout \/ HostSendBlock \/ HostBlockAnswered
  \/ HostEnd \/ HostEnded \/ HostTimeout

-----------------------------------------------------------------------------
XferInit ==
  /\ Init /\ UdpInit
  /\ \E legacy \in BOOLEAN : host = HostLocals("start", legacy)
  /\ net = {}
  /\ hostRx = {}
  /\ replies = [i \in 0 .. 1 |-> NoReply]
  /\ replyIdx = 0
  /\ udpCb = <<>>

XferNext == HostNext \/ Deliver \/ DeviceWorker \/ SendReply

\* The tool's process runs and its receive timeouts fire.  Nothing is assumed
\* of the network or of the device.
Fairness ==
  /\ WF_xferVars(HostStart \/ HostSendWindow \/ HostSendBlock \/ HostEnd)
  /\ WF_xferVars(HostWindowTimeout)
  /\ WF_xferVars(HostTimeout)

XferSpec == XferInit /\ [][XferNext]_xferVars /\ Fairness

-----------------------------------------------------------------------------
(* Properties                                                              *)

IsPrefixOfImage(s) == Len(s) <= ImgLen /\ \A i \in 1 .. Len(s) : s[i] = Image[i]

\* With DATA_V2 the session holds a prefix of the image, whatever the network
\* does: no gap, no repetition, no block out of place.
V2Prefix == ~host.legacy => IsPrefixOfImage(stream)

\* What an upgrade request in the trailer makes MCUboot install is the image
\* the host holds, all of it.
PendingIsImage ==
  ~host.legacy /\ trailer \in Pending => verified = Image

\* The host never takes more bytes for delivered than the session holds, also
\* when a reply context is overwritten before it is sent.
ConfirmedIsReceived ==
  host.at = "collect" /\ active /\ ~failed => host.confirmed <= Len(stream)

\* Legacy blocks carry no offset.  A repeated or lost block is caught by size
\* and CRC: what a finish accepts agrees with the image in both.
VerifiedAgrees ==
  verified # NoImage => /\ Len(verified) = ImgLen
                        /\ Crc16(0, verified) = Crc16(0, Image)

\* The tool comes to an end: retries are counted from the last progress, and
\* progress is bounded by the image.
HostTerminates == <>HostStopped

=============================================================================
