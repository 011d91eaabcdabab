------------------------------- MODULE Httpd -------------------------------
(***************************************************************************)
(* The web server of src/web/httpd.c and the one download handle of        *)
(* src/history/history.c that its connections share.  Every callback runs  *)
(* in the tcpip thread; a callback that pumps a response is followed to    *)
(* its end, while the network decides how much tcp_write takes and when a  *)
(* client acknowledges, sends, stops or goes.                              *)
(*                                                                         *)
(* A request is a token: "page" (any answer from memory), "bye" (the same  *)
(* with Connection: close), "post" and its "body", "ws", "bad" (a request  *)
(* line or length that is refused), "half" (a header that never ends), a   *)
(* file name (its download) or "nofile" (a download refused).  Header and  *)
(* memory body are one unit of a response, a byte of a file is another.    *)
(***************************************************************************)
EXTENDS Integers, Sequences, SequencesExt, FiniteSetsExt

CONSTANTS
  HConns,       \* connection slots
  WebFiles,     \* history files
  WebSize,      \* their sizes
  RxMax,        \* tokens the receive buffer holds
  HttpWindow,   \* units in flight at most
  HttpSends     \* bound: tokens clients send

ASSUME HttpdAssumption ==
  /\ HConns \subseteq Nat \ {0}
  /\ WebSize \in [WebFiles -> Nat] /\ HttpWindow \in Nat \ {0}

VARIABLES
  hconn,        \* http_conns
  pumping,      \* the connection conn_pump or http_process_rx is at work for, 0 for none
  handle,       \* web_fp_open, its file and position; gone: the file was removed
  wfiles,       \* the history files there are
  httpLeft,     \* HttpSends minus the tokens sent
  body,         \* history: the bytes of the download under way handed to TCP
  shared        \* history: since it began another one used the handle, or the file went

\* What a request or a removal may change of files.
webFs == <<handle, wfiles, shared>>
httpVars == <<hconn, pumping, webFs, httpLeft, body>>

HFree == [up |-> FALSE, kind |-> "none", rx |-> <<>>, posted |-> FALSE, total |-> 0,
          written |-> 0, acked |-> 0, keep |-> TRUE, file |-> "nofile", size |-> 0, read |-> 0,
          chunk |-> <<>>, staleRx |-> FALSE, staleAck |-> FALSE]
NoHandle == [open |-> FALSE, file |-> "nofile", pos |-> 0, gone |-> FALSE]

Downloads == WebFiles \cup {"nofile"}
Bytes(f) == [i \in 1 .. WebSize[f] |-> <<f, i>>]

-----------------------------------------------------------------------------
(* Answers                                                                 *)

\* rsp_begin: a fresh response of n units.
Begun(s, kind, n, keep) ==
  [s EXCEPT !.kind = kind, !.total = n, !.written = 0, !.acked = 0, !.keep = keep,
            !.staleAck = FALSE]

\* The downloads that notice when c uses the handle.
Sharing(c) == [d \in HConns |-> shared[d] \/ (d # c /\ hconn[d].kind = "file")]

\* conn_close, http_err_cb: the handle goes with a download.
ConnClose(c) ==
  /\ hconn' = [hconn EXCEPT ![c] = HFree]
  /\ IF hconn[c].kind = "file" THEN handle' = NoHandle /\ shared' = Sharing(c)
     ELSE UNCHANGED <<handle, shared>>
  /\ UNCHANGED wfiles

\* An answer written over whatever was under way, pumped once, then closed: the
\* response is one from memory by then, and a download's handle stays open.
RefuseAndClose(c) == hconn' = [hconn EXCEPT ![c] = HFree] /\ UNCHANGED webFs

\* /api/history/download: history_web_open; or it fails, as it does for a handle that
\* is open, which is then closed, and the request is refused.
Download(c, f, s) ==
  /\ UNCHANGED wfiles
  /\ \/ /\ f \in wfiles /\ ~handle.open
        /\ handle' = [open |-> TRUE, file |-> f, pos |-> 0, gone |-> FALSE]
        /\ hconn' = [hconn EXCEPT ![c] =
                       [Begun(s, "file", 1 + WebSize[f], FALSE) EXCEPT !.file = f, !.size = WebSize[f],
                                                                       !.read = 0, !.chunk = <<>>]]
        /\ body' = [body EXCEPT ![c] = <<>>]
        /\ shared' = [Sharing(c) EXCEPT ![c] = FALSE]
     \/ /\ handle' = NoHandle
        /\ hconn' = [hconn EXCEPT ![c] = Begun(s, "mem", 1, TRUE)]
        /\ shared' = Sharing(c)
        /\ UNCHANGED body

\* lfs_remove, also of a file under download.
WebRemove(f) ==
  /\ wfiles' = wfiles \ {f}
  /\ handle' = IF handle.file = f THEN [handle EXCEPT !.gone = TRUE] ELSE handle
  /\ shared' = [d \in HConns |-> shared[d] \/ (hconn[d].kind = "file" /\ hconn[d].file = f)]

WsActive == \E c \in HConns : hconn[c].kind = "ws"

\* http_process_rx, one request: none while a response is under way, nor before its
\* header and body are complete; then it is answered and the answer pumped.
ProcessRx(c) ==
  LET s == hconn[c]
      next == [s EXCEPT !.rx = Tail(@), !.posted = FALSE]
  IN /\ pumping = c /\ s.kind = "none"
     /\ \/ /\ s.rx = <<>> /\ pumping' = 0 /\ UNCHANGED <<hconn, webFs, body>>
        \/ /\ s.rx # <<>> /\ Head(s.rx) \in {"half", "body"} /\ pumping' = 0 /\ UNCHANGED body
           /\ IF Len(s.rx) >= RxMax THEN RefuseAndClose(c) ELSE UNCHANGED <<hconn, webFs>>
        \/ /\ s.rx # <<>> /\ Head(s.rx) = "post"
           /\ IF Len(s.rx) = 1
              THEN /\ hconn' = [hconn EXCEPT ![c].posted = TRUE] /\ pumping' = 0
                   /\ UNCHANGED <<webFs, body>>
              ELSE /\ hconn' = [hconn EXCEPT ![c] =
                                  Begun([next EXCEPT !.rx = Tail(@)], "mem", 1, TRUE)]
                   /\ UNCHANGED webFs \/ \E f \in wfiles : WebRemove(f) \* /api/history/delete
                   /\ UNCHANGED <<pumping, body>>
        \/ /\ s.rx # <<>> /\ Head(s.rx) = "bad" /\ pumping' = 0
           /\ RefuseAndClose(c) /\ UNCHANGED body
        \/ /\ s.rx # <<>> /\ Head(s.rx) \in {"page", "bye"}
           /\ hconn' = [hconn EXCEPT ![c] = Begun(next, "mem", 1, Head(s.rx) = "page")]
           /\ UNCHANGED <<pumping, webFs, body>>
        \/ /\ s.rx # <<>> /\ Head(s.rx) \in Downloads
           /\ Download(c, Head(s.rx), next) /\ UNCHANGED pumping
        \/ /\ s.rx # <<>> /\ Head(s.rx) = "ws" /\ UNCHANGED body
           /\ IF WsActive
              THEN /\ hconn' = [hconn EXCEPT ![c] = Begun(next, "mem", 1, TRUE)]
                   /\ UNCHANGED <<pumping, webFs>>
              ELSE /\ pumping' = 0
                   /\ \/ hconn' = [hconn EXCEPT ![c] = [next EXCEPT !.kind = "ws", !.rx = <<>>]]
                         /\ UNCHANGED webFs
                      \/ ConnClose(c) \* the bytes behind the handshake ended the session
     /\ UNCHANGED httpLeft

-----------------------------------------------------------------------------
(* conn_pump                                                               *)

\* history_web_read of the next chunk of a download that wants more.  The blocks of a
\* removed file may hold something else by now.
Reads(c) ==
  LET s == hconn[c]
  IN /\ pumping = c /\ s.kind = "file" /\ s.chunk = <<>> /\ s.written > 0
     /\ s.read < s.size /\ s.written - s.acked < HttpWindow
     /\ \/ ConnClose(c) /\ pumping' = 0 \* the handle is closed, or the read fails
        \/ /\ handle.open /\ handle.pos < WebSize[handle.file]
           /\ \E f \in {handle.file} \cup (IF handle.gone THEN {"nofile"} ELSE {}) :
                hconn' = [hconn EXCEPT ![c].chunk = <<(<<f, handle.pos + 1>>)>>, ![c].read = @ + 1]
           /\ handle' = [handle EXCEPT !.pos = @ + 1] /\ shared' = Sharing(c)
           /\ UNCHANGED <<wfiles, pumping>>
        \/ /\ handle.open /\ handle.pos >= WebSize[handle.file] \* early end: the length shrinks
           /\ hconn' = [hconn EXCEPT ![c].size = s.read, ![c].total = 1 + s.read]
           /\ UNCHANGED <<webFs, pumping>>
     /\ UNCHANGED <<httpLeft, body>>

MayWrite(s) ==
  CASE s.kind = "mem" -> s.written < s.total
    [] s.kind = "file" -> s.written = 0 \/ (s.chunk # <<>> /\ s.written - s.acked < HttpWindow)
    [] OTHER -> FALSE

\* Variant with a fault: what tcp_write had no memory for is not kept.
PumpWritesDrops(c) ==
  LET s == hconn[c]
  IN /\ pumping = c /\ MayWrite(s)
     /\ \/ /\ hconn' = [hconn EXCEPT ![c].written = @ + 1, ![c].chunk = <<>>]
           /\ body' = [body EXCEPT ![c] = @ \o s.chunk]
           /\ UNCHANGED <<pumping, webFs>>
        \/ pumping' = 0 /\ hconn' = [hconn EXCEPT ![c].chunk = <<>>] /\ UNCHANGED <<webFs, body>>
     /\ UNCHANGED httpLeft

\* tcp_write takes a unit, lacks memory, or fails.
PumpWrites(c) ==
  LET s == hconn[c]
  IN /\ pumping = c /\ MayWrite(s)
     /\ \/ /\ hconn' = [hconn EXCEPT ![c].written = @ + 1, ![c].chunk = <<>>]
           /\ body' = [body EXCEPT ![c] = @ \o s.chunk]
           /\ UNCHANGED <<pumping, webFs>>
        \/ pumping' = 0 /\ UNCHANGED <<hconn, webFs, body>>
        \/ ConnClose(c) /\ pumping' = 0 /\ UNCHANGED body
     /\ UNCHANGED httpLeft

Done(s) == s.kind \in {"mem", "file"} /\ s.written >= s.total /\ s.acked >= s.total

\* The end of conn_pump: the response is complete and acknowledged, or waits for
\* the next acknowledgement.
PumpEnds(c) ==
  LET s == hconn[c]
  IN /\ pumping = c /\ s.kind \in {"mem", "file"} /\ ~MayWrite(s)
     /\ ~(s.kind = "file" /\ s.chunk = <<>> /\ s.read < s.size /\ s.written - s.acked < HttpWindow)
     /\ IF Done(s)
        THEN IF s.keep
             THEN hconn' = [hconn EXCEPT ![c].kind = "none"] /\ UNCHANGED <<webFs, pumping>>
             ELSE ConnClose(c) /\ pumping' = 0
        ELSE pumping' = 0 /\ UNCHANGED <<hconn, webFs>>
     /\ UNCHANGED <<httpLeft, body>>

-----------------------------------------------------------------------------
(* Callbacks                                                               *)

HttpAccept ==
  /\ pumping = 0
  /\ LET free == {c \in HConns : ~hconn[c].up}
     IN hconn' = IF free = {} THEN hconn ELSE [hconn EXCEPT ![Min(free)] = [HFree EXCEPT !.up = TRUE]]
  /\ UNCHANGED <<pumping, webFs, httpLeft, body>>

\* http_recv_cb.  On a WebSocket the bytes go to ws_feed.
HttpRecv(c, t) ==
  LET s == hconn[c]
  IN /\ pumping = 0 /\ s.up /\ s.kind # "ws" /\ httpLeft > 0 /\ httpLeft' = httpLeft - 1
     /\ IF Len(s.rx) >= RxMax
        THEN RefuseAndClose(c) /\ UNCHANGED pumping
        ELSE /\ hconn' = [hconn EXCEPT ![c].rx = Append(@, t), ![c].staleRx = FALSE]
             /\ pumping' = IF s.kind = "none" THEN c ELSE 0
             /\ UNCHANGED webFs
     /\ UNCHANGED body

\* http_sent_cb.
HttpSent(c) ==
  LET s == hconn[c]
  IN /\ pumping = 0 /\ s.up /\ s.kind \in {"mem", "file"} /\ s.acked < s.written
     /\ hconn' = [hconn EXCEPT ![c].acked = @ + 1, ![c].staleAck = FALSE]
     /\ pumping' = c
     /\ UNCHANGED <<webFs, httpLeft, body>>

\* The client's FIN, http_err_cb, or the end of a WebSocket session.
HttpGone(c) ==
  /\ pumping = 0 /\ hconn[c].up /\ ConnClose(c)
  /\ UNCHANGED <<pumping, httpLeft, body>>

\* Variant with a fault: a connection is timed out only while it waits for a request.
HttpPollIdle(c) ==
  /\ pumping = 0 /\ hconn[c].up /\ hconn[c].kind = "none" /\ hconn[c].staleRx
  /\ ConnClose(c) /\ UNCHANGED <<pumping, httpLeft, body>>

\* http_poll_cb: a stalled response, half a request, an idle connection.
HttpPoll(c) ==
  /\ pumping = 0 /\ hconn[c].up
  /\ \/ hconn[c].kind \in {"mem", "file"} /\ hconn[c].staleAck
     \/ hconn[c].kind = "none" /\ hconn[c].staleRx
  /\ ConnClose(c) /\ UNCHANGED <<pumping, httpLeft, body>>

\* The timeout of what the connection waits for passes.
HttpTimeout(c) ==
  LET s == hconn[c]
  IN /\ pumping = 0 /\ s.up
     /\ \/ s.kind \in {"mem", "file"} /\ ~s.staleAck /\ hconn' = [hconn EXCEPT ![c].staleAck = TRUE]
        \/ s.kind = "none" /\ ~s.staleRx /\ hconn' = [hconn EXCEPT ![c].staleRx = TRUE]
     /\ UNCHANGED <<pumping, webFs, httpLeft, body>>

\* Rotation and FTP remove files in tasks of their own.
FileRemoved ==
  /\ \E f \in wfiles : WebRemove(f)
  /\ UNCHANGED <<hconn, pumping, httpLeft, body>>

HttpInit ==
  /\ hconn = [c \in HConns |-> HFree] /\ pumping = 0 /\ handle = NoHandle /\ wfiles = WebFiles
  /\ httpLeft = HttpSends /\ body = [c \in HConns |-> <<>>] /\ shared = [c \in HConns |-> FALSE]

HttpWork == \E c \in HConns : ProcessRx(c) \/ Reads(c) \/ PumpWrites(c) \/ PumpEnds(c)

HttpTimers == \E c \in HConns : HttpPoll(c) \/ HttpTimeout(c)

HttpNext ==
  \/ HttpAccept \/ HttpWork \/ HttpTimers \/ FileRemoved
  \/ \E c \in HConns :
       \/ HttpSent(c) \/ HttpGone(c)
       \/ \E t \in Downloads \cup {"page", "bye", "post", "body", "ws", "bad", "half"} : HttpRecv(c, t)

-----------------------------------------------------------------------------
(* Properties                                                              *)

\* A download is the file, byte after byte from its start, and all of it when it is
\* done: whatever the other connections do, and with a handle that refused requests
\* and broken connections left open, unless another download used the one handle
\* (history.c:137) or the file was removed while it ran.
DownloadIntact ==
  \A c \in HConns : hconn[c].kind = "file" /\ ~shared[c] =>
    /\ IsPrefix(body[c], Bytes(hconn[c].file))
    /\ Done(hconn[c]) => body[c] = Bytes(hconn[c].file)

\* A full server takes connections again: clients that stop reading, send half a
\* request or nothing at all do not keep all slots (httpd.c:810).  A WebSocket may
\* stay, and there is only one.
HttpSlotFreed ==
  (\A c \in HConns : hconn[c].up) /\ ~WsActive ~> (\E c \in HConns : ~hconn[c].up) \/ WsActive

=============================================================================
