----------------------------- MODULE FwUpgrade -----------------------------
(***************************************************************************)
(* The upgrade core with its three channels running side by side: the UDP  *)
(* and CAN tasks, the WebSocket worker and the tcpip thread interleave at  *)
(* every call of the core.  Hosts may send any message of their sets at    *)
(* any time, which covers lost, repeated and reordered messages and hosts  *)
(* that give up half way.                                                  *)
(***************************************************************************)
EXTENDS FwUdp, FwCan, FwWs, FiniteSets

CONSTANTS
  ChannelSets,  \* the sets of channels hosts may be using
  UdpMsgs(_),   \* datagrams on the firmware port, by the channels in use
  CanMsgs(_),   \* CAN frames, by the channels in use
  WsSizes,      \* sizes in fw_start
  WsKeys,       \* keyhash in fw_start
  WsBlocks      \* payloads of binary frames

AllChannels == {"udp", "can", "ws"}

\* What hosts send is of the sizes, blocks and checksums the core is given.
ASSUME FwUpgradeAssumption ==
  /\ ChannelSets \subseteq SUBSET AllChannels
  /\ \A chs \in ChannelSets : \A m \in UdpMsgs(chs) :
       /\ m.cmd \in {"START", "DATA", "DATA_V2", "END"}
       /\ m.cmd = "START" => m.size \in Totals /\ m.kh \in KeyHash
       /\ m.cmd \in {"DATA", "DATA_V2"} => m.data \in Chunks
       /\ m.cmd = "END" => m.crc \in CrcValues /\ m.test \in BOOLEAN
  /\ \A chs \in ChannelSets : \A m \in CanMsgs(chs) :
       /\ m.id = "data" => m.data \in Chunks
       /\ m.id = "cmd" /\ m.dlc = 8 /\ m.cmd = "START" => m.arg \in Totals
  /\ WsSizes \subseteq Totals /\ WsKeys \subseteq KeyHash /\ WsBlocks \subseteq Chunks
  /\ 0 \in CrcValues
  /\ \A crc \in CrcValues : \A data \in Chunks : Crc16(crc, data) \in CrcValues

VARIABLES
  channels,     \* the channels in use, fixed at the start
  owner,        \* history: the channel that opened the session
  clean         \* history: all bytes of the session came from that channel, for
                \* the WebSocket over one connection

allVars == <<vars, udpVars, canVars, wsVars, channels, owner, clean>>

-----------------------------------------------------------------------------
\* What a step of channel c means for the two history variables.
Tracks(c) ==
  /\ owner' = IF ~active /\ active' THEN c ELSE owner
  /\ clean' = CASE ~active /\ active' -> TRUE
                [] stream' # stream /\ owner # c -> FALSE
                [] OTHER -> clean

UdpSide ==
  /\ "udp" \in channels
  /\ \/ \E m \in UdpMsgs(channels) : UdpCmd(m)
     \/ \E reply \in UdpReplies : UdpWorker(reply)
  /\ UNCHANGED <<canVars, wsVars>>
  /\ Tracks("udp")

CanIsr ==
  /\ "can" \in channels
  /\ \E m \in CanMsgs(channels) : CanFrameIsr(m)
  /\ UNCHANGED <<udpVars, wsVars, owner, clean>>

CanTask ==
  /\ "can" \in channels
  /\ \E reply \in CanReplies : CanWorker(reply)
  /\ UNCHANGED <<udpVars, wsVars>>
  /\ Tracks("can")

WsConnection ==
  /\ "ws" \in channels
  /\ \/ WsAttach /\ clean' = (clean /\ owner # "ws")
     \/ WsClose /\ UNCHANGED clean
  /\ UNCHANGED <<udpVars, canVars, owner>>

WsThread ==
  /\ "ws" \in channels
  /\ \/ \E size \in WsSizes, kh \in WsKeys : WsFwStart(size, kh)
     \/ WsFwEnd
     \/ \E data \in WsBlocks : WsBinary(data)
  /\ UNCHANGED <<udpVars, canVars>>
  /\ Tracks("ws")

WsTask ==
  /\ "ws" \in channels
  /\ WsWorker
  /\ UNCHANGED <<udpVars, canVars>>
  /\ Tracks("ws")

Restarts ==
  /\ Reboot /\ UdpReset /\ CanReset /\ WsReset
  /\ owner' = "none" /\ clean' = TRUE

\* A reset on command (the heartbeat task acts on the flag within 3 s), and a
\* power failure or watchdog reset at any time.
RebootOnCommand == CanReboots \/ rebootPending
Restart == RebootOnCommand /\ Restarts
PowerLoss == ~RebootOnCommand /\ Restarts

UpgInit ==
  /\ Init /\ UdpInit /\ CanInit /\ WsInit
  /\ channels \in ChannelSets
  /\ owner = "none" /\ clean = TRUE

UpgNext ==
  /\ \/ UdpSide \/ CanIsr \/ CanTask \/ WsConnection \/ WsThread \/ WsTask
     \/ Restart \/ PowerLoss
  /\ UNCHANGED channels

UpgSpec == UpgInit /\ [][UpgNext]_allVars

\* FreeRTOS runs every ready task: the workers get their turn.  Nothing is
\* assumed of the hosts.
UpgFairness ==
  /\ WF_allVars(UdpSide /\ udp' # udp /\ UNCHANGED channels)
  /\ WF_allVars(CanTask /\ UNCHANGED channels)
  /\ WF_allVars(WsTask /\ UNCHANGED channels)

UpgFairSpec == UpgSpec /\ UpgFairness

-----------------------------------------------------------------------------
(* Properties                                                              *)

RequestVerified ==
  trailer' \in Pending /\ trailer \notin Pending => verified # NoImage

\* The upgrade request is written to the trailer only while the slot holds the
\* image that the finish before it verified (boot_set_pending runs after the
\* core's lock was released).
PendingVerified == [][RequestVerified]_allVars

\* With hosts on one channel only, no order of their messages, no fault of the
\* flash and no restart breaks PendingVerified.
PendingVerifiedAlone == [][Cardinality(channels) = 1 => RequestVerified]_allVars

\* ws.c:247: the receiver's CRC handed to fw_end agrees with the CRC of what
\* the session wrote, when all of it came over this connection.
WsCrcMatches ==
  active /\ ~failed /\ owner = "ws" /\ clean /\ wsActive => wsCrc = Crc16(0, stream)

\* fw_upg.h:33: after a failed write the channel ends the session.
FailedSessionEnds == failed ~> ~active

=============================================================================
