-------------------------------- MODULE Ftpd --------------------------------
(***************************************************************************)
(* The FTP server of src/net/ftpd.c: one task, a select loop over the      *)
(* sessions, and a transfer that keeps the task until it ends.  Beside it  *)
(* the tcpip thread, which carries out every socket call of the task and,  *)
(* for web requests, takes the same file lock (history_fs_lock).           *)
(*                                                                         *)
(* A path is a sequence of names.  A byte is "CR", "LF" or another.  Of    *)
(* littlefs, external, the model has that a file changes when it is closed *)
(* and not at all once a write to it failed.                               *)
(***************************************************************************)
EXTENDS Integers, Sequences, SequencesExt, FiniteSetsExt, Functions

CONSTANTS
  FSlots,       \* sessions, numbered from 1
  FtpDirs,      \* arguments of CWD, MKD, RMD
  FtpPaths,     \* arguments of the commands on files
  MaxParts,     \* names in a path at most (parts[16])
  FtpBytes,     \* bytes of a file
  FtpBlocks,    \* what one lwip_recv of an upload may yield
  ReadLen,      \* bytes a download reads at a time
  FtpCap,       \* bound: bytes of a file
  Rests,        \* bound: offsets of REST
  ListenPool    \* listening sockets left for PASV (MEMP_NUM_TCP_PCB_LISTEN)

ASSUME FtpdAssumption ==
  /\ FSlots \subseteq Nat /\ Rests \subseteq Nat
  /\ {MaxParts, ReadLen, ListenPool} \subseteq Nat \ {0}
  /\ {"CR", "LF", "0"} \subseteq FtpBytes /\ FtpBlocks \subseteq Seq(FtpBytes)

VARIABLES
  fsess,        \* sessions
  ftask,        \* what the task does
  fdisk,        \* files: path to content
  fdirs,        \* directories
  leaked,       \* listening sockets no session knows
  webWaits,     \* the tcpip thread waits for the file lock
  asked         \* history: the offset of the last REST not used by a transfer yet

ftpVars == <<fsess, ftask, fdisk, fdirs, leaked, webWaits, asked>>
fFiles == <<fdisk, fdirs>>

NoPath == <<"">>        \* no rename is pending
FClosed == [up |-> FALSE, authed |-> FALSE, anon |-> FALSE, listen |-> FALSE, port |-> FALSE,
            cwd |-> <<>>, ascii |-> FALSE, rest |-> 0, from |-> NoPath]
Selecting == [at |-> "select", s |-> 0]

\* The arguments "" and "..".
Here == [abs |-> FALSE, parts |-> <<>>]
Above == [abs |-> FALSE, parts |-> <<"..">>]

-----------------------------------------------------------------------------
(* Paths and line ends                                                     *)

\* norm_path: a stack of names, clamped at the root and at MaxParts.
NormPath(cwd, arg) ==
  LET tmp == IF arg.abs THEN arg.parts ELSE cwd \o arg.parts
      Push(stack, name) ==
        CASE name = "." -> stack
          [] name = ".." -> SubSeq(stack, 1, Len(stack) - 1)
          [] OTHER -> IF Len(stack) < MaxParts THEN Append(stack, name) ELSE stack
  IN FoldLeft(Push, <<>>, tmp)

\* ascii_crlf.
Crlf(in) == FlattenSeq([i \in DOMAIN in |-> IF in[i] = "LF" THEN <<"CR", "LF">> ELSE <<in[i]>>])

\* The CR of each CRLF removed.
Kept(in, start) ==
  FlattenSeq([i \in DOMAIN in |->
    IF i < start \/ (in[i] = "CR" /\ i < Len(in) /\ in[i + 1] = "LF") THEN <<>> ELSE <<in[i]>>])

\* Variant with a fault: behind a CR that was held back the next byte is dropped,
\* whatever it is.
StripCrDropsNext(in, pendingCr) ==
  LET start == IF pendingCr THEN 2 ELSE 1
      out == Kept(in, start)
      ends == Len(in) >= start /\ in[Len(in)] = "CR"
  IN [out |-> IF ends THEN Front(out) ELSE out, cr |-> ends]

\* ascii_strip_cr: a CR that ends a block is held back, and with the LF that begins
\* the next one dropped.
StripCr(in, pendingCr) ==
  LET start == IF pendingCr /\ in # <<>> /\ in[1] = "LF" THEN 2 ELSE 1
      out == Kept(in, start)
      ends == Len(in) >= start /\ in[Len(in)] = "CR"
  IN [out |-> IF ends THEN Front(out) ELSE out, cr |-> ends]

-----------------------------------------------------------------------------
(* Data connections                                                        *)

Listening == leaked + Cardinality({i \in FSlots : fsess[i].listen})

\* drop_data_listen, and what open_data leaves behind in every case.
NoData(s) == [s EXCEPT !.listen = FALSE, !.port = FALSE]

\* cmd_pasv, cmd_epsv: data_listen_open closes the old listener first.
Pasv(i) ==
  LET s == NoData(fsess[i])
      room == Listening - (IF fsess[i].listen THEN 1 ELSE 0) < ListenPool
  IN fsess' = [fsess EXCEPT ![i] = [s EXCEPT !.listen = room]]

\* cmd_port, cmd_eprt with a good argument.
Port(i) == fsess' = [fsess EXCEPT ![i] = [NoData(fsess[i]) EXCEPT !.port = TRUE]]

-----------------------------------------------------------------------------
(* Commands                                                                *)

MayWriteFs(s) == s.authed /\ ~s.anon
Parent(p) == IF p = <<>> THEN <<>> ELSE Front(p)
IsFile(p) == p \in DOMAIN fdisk
Exists(p) == IsFile(p) \/ p \in fdirs
EntriesOf(p) == {q \in DOMAIN fdisk \cup fdirs : q # <<>> /\ Parent(q) = p}

\* lfs_rename: a file or directory, with all below it, takes the place of nothing, of
\* a file or of an empty directory of its kind.
MayMove(p, q) ==
  /\ Exists(p) /\ <<>> \notin {p, q} /\ Parent(q) \in fdirs /\ ~IsStrictPrefix(p, q)
  /\ Exists(q) => (IsFile(p) <=> IsFile(q)) /\ EntriesOf(q) = {}

Move(p, q) ==
  LET Moved(r) == IF IsPrefix(p, r) THEN q \o SubSeq(r, Len(p) + 1, Len(r)) ELSE r
      from == {r \in DOMAIN fdisk : r = p \/ r # q}
  IN /\ fdisk' = [r \in {Moved(x) : x \in from} |-> fdisk[CHOOSE x \in from : Moved(x) = r]]
     /\ fdirs' = {Moved(d) : d \in fdirs}

\* USER, PASS, TYPE, CWD, CDUP, REST: the session alone changes.
SessionCmd(i) ==
  LET s == fsess[i]
  IN /\ \/ \E a \in BOOLEAN : /\ fsess' = [fsess EXCEPT ![i].anon = a, ![i].from = NoPath]
                              /\ UNCHANGED asked
        \/ \E good \in BOOLEAN : fsess' = [fsess EXCEPT ![i].authed = s.anon \/ good] /\ UNCHANGED asked
        \/ \E a \in BOOLEAN : fsess' = [fsess EXCEPT ![i].ascii = a] /\ UNCHANGED asked
        \/ \E d \in FtpDirs \cup {Above} :
             fsess' = [fsess EXCEPT ![i].cwd = NormPath(s.cwd, d)] /\ UNCHANGED asked
        \/ \E n \in Rests : /\ fsess' = [fsess EXCEPT ![i].rest = n]
                            /\ asked' = [asked EXCEPT ![i] = n]
     /\ UNCHANGED <<ftask, fFiles, leaked>>

DataCmd(i) == (Pasv(i) \/ Port(i)) /\ UNCHANGED <<ftask, fFiles, leaked, asked>>

\* DELE, RMD, MKD, and RNFR with RNTO; lfs_remove takes files and empty directories.
FileCmd(i) ==
  LET s == fsess[i]
      ok == MayWriteFs(s)
  IN /\ \E arg \in FtpPaths \cup FtpDirs :
          LET p == NormPath(s.cwd, arg)
          IN \/ /\ ok /\ p # <<>> /\ Exists(p) /\ EntriesOf(p) = {}
                /\ fdisk' = Restrict(fdisk, DOMAIN fdisk \ {p}) /\ fdirs' = fdirs \ {p}
                /\ UNCHANGED fsess
             \/ /\ ok /\ arg \in FtpDirs /\ ~Exists(p) /\ Parent(p) \in fdirs
                /\ fdirs' = fdirs \cup {p} /\ UNCHANGED <<fsess, fdisk>>
             \/ /\ ok /\ Exists(p)
                /\ fsess' = [fsess EXCEPT ![i].from = p] /\ UNCHANGED fFiles
             \/ /\ s.from # NoPath
                /\ fsess' = [fsess EXCEPT ![i].from = NoPath]
                /\ IF ok /\ MayMove(s.from, p) THEN Move(s.from, p) ELSE UNCHANGED fFiles
     /\ UNCHANGED <<ftask, leaked, asked>>

\* QUIT closes the control connection and nothing else.
Quit(i) ==
  /\ fsess' = [fsess EXCEPT ![i].up = FALSE]
  /\ UNCHANGED <<ftask, fFiles, leaked, asked>>

\* LIST, NLST: with a data connection the directory is walked under the file lock.
\* None is made for a path that does not exist, or the client does not connect.
List(i, arg) ==
  LET p == NormPath(fsess[i].cwd, arg)
  IN /\ fsess' = [fsess EXCEPT ![i] = NoData(@)]
     /\ \/ ftask' = Selecting
        \/ /\ Exists(p) /\ (fsess[i].listen \/ fsess[i].port)
           /\ ftask' = [at |-> IF IsFile(p) THEN "entry" ELSE "list", s |-> i, left |-> EntriesOf(p)]
     /\ UNCHANGED <<fFiles, leaked, asked>>

\* RETR: refused; no data connection; or under way.  The offset is used up.
Retr(i, arg) ==
  LET s == fsess[i]
      p == NormPath(s.cwd, arg)
  IN IF ~s.authed
     THEN /\ fsess' = [fsess EXCEPT ![i] = NoData(s)]
          /\ UNCHANGED <<ftask, fFiles, leaked, asked>>
     ELSE /\ asked' = [asked EXCEPT ![i] = 0]
          /\ \/ UNCHANGED ftask /\ fsess' = [fsess EXCEPT ![i] = [NoData(s) EXCEPT !.rest = 0]]
             \/ /\ IsFile(p) /\ (s.listen \/ s.port)
                /\ fsess' = [fsess EXCEPT ![i] = NoData(s)]
                /\ ftask' = [at |-> "retr", s |-> i, data |-> fdisk[p], pos |-> s.rest, sent |-> <<>>,
                             want |-> asked[i]]
          /\ UNCHANGED <<fFiles, leaked>>

\* The disk with a file of a given content at p.
WithFile(p, data) == [q \in DOMAIN fdisk \cup {p} |-> IF q = p THEN data ELSE fdisk[q]]

\* What STOR and APPE find in the opened file, and where they write.
Opened(s, p, appe) == IF IsFile(p) /\ (appe \/ s.rest > 0) THEN fdisk[p] ELSE <<>>
WriteAt(s, p, appe) == IF appe THEN Len(Opened(s, p, appe)) ELSE s.rest

\* STOR, APPE: refused, and then the offset stays; opened without a data connection,
\* and then the file is created or cut; or under way.
Stor(i, arg, appe) ==
  LET s == fsess[i]
      p == NormPath(s.cwd, arg)
      open == MayWriteFs(s) /\ p # <<>> /\ p \notin fdirs /\ Parent(p) \in fdirs
      want == [old |-> IF IsFile(p) THEN fdisk[p] ELSE <<>>, appe |-> appe, at |-> asked[i], raw |-> <<>>]
  IN /\ UNCHANGED <<fdirs, leaked>>
     /\ \/ /\ fsess' = [fsess EXCEPT ![i] = NoData(s)] \* refused, or lfs_file_open failed
           /\ UNCHANGED <<ftask, fdisk, asked>>
        \/ /\ open
           /\ fsess' = [fsess EXCEPT ![i] = [NoData(s) EXCEPT !.rest = 0]]
           /\ asked' = [asked EXCEPT ![i] = 0]
           /\ fdisk' = WithFile(p, Opened(s, p, appe))
           /\ UNCHANGED ftask
        \/ /\ open /\ (s.listen \/ s.port)
           /\ fsess' = [fsess EXCEPT ![i] = NoData(s)]
           /\ asked' = [asked EXCEPT ![i] = 0]
           /\ fdisk' = IF IsFile(p) THEN fdisk ELSE WithFile(p, <<>>)
           /\ ftask' = [at |-> "stor", s |-> i, path |-> p, data |-> Opened(s, p, appe),
                        pos |-> WriteAt(s, p, appe), cr |-> FALSE, split |-> FALSE, want |-> want]

-----------------------------------------------------------------------------
(* Transfers                                                               *)

\* The directory goes entry by entry to the data connection while the lock is held;
\* lwip_send needs the tcpip thread.  A send that fails ends the walk.
ListStep ==
  /\ ftask.at \in {"list", "entry"}
  /\ \/ ftask.left = {} /\ ftask' = Selecting
     \/ \E e \in ftask.left : ~webWaits /\ ftask' = [ftask EXCEPT !.left = @ \ {e}]
     \/ ~webWaits /\ ftask.left # {} /\ ftask' = Selecting
  /\ UNCHANGED <<fsess, fFiles, leaked, asked>>

\* Variant with a fault: the offset outlives the download.
RetrEndsKeeping == ftask' = Selecting /\ UNCHANGED fsess

RetrEnds == ftask' = Selecting /\ fsess' = [fsess EXCEPT ![ftask.s].rest = 0]

\* One block of a download is read and sent; the end of the file, or a send that fails.
RetrStep ==
  /\ ftask.at = "retr"
  /\ LET chunk == SubSeq(ftask.data, ftask.pos + 1, Min({ftask.pos + ReadLen, Len(ftask.data)}))
     IN \/ /\ chunk # <<>> /\ UNCHANGED fsess
           /\ ftask' = [ftask EXCEPT !.pos = @ + Len(chunk),
                                     !.sent = @ \o IF fsess[ftask.s].ascii THEN Crlf(chunk) ELSE chunk]
        \/ RetrEnds
  /\ UNCHANGED <<fFiles, leaked, asked>>

\* lfs_file_write behind the end fills up with zeros, unless there is nothing to write.
Written(data, pos, out) ==
  LET n == IF out = <<>> THEN Len(data) ELSE Max({Len(data), pos + Len(out)})
  IN [k \in 1 .. n |-> IF k \in pos + 1 .. pos + Len(out) THEN out[k - pos]
                       ELSE IF k <= Len(data) THEN data[k] ELSE "0"]

\* A block of an upload arrives and is written.
StorBlock(b) ==
  LET strip == IF fsess[ftask.s].ascii THEN StripCr(b, ftask.cr) ELSE [out |-> b, cr |-> FALSE]
  IN /\ ftask.at = "stor" /\ ftask.pos + Len(b) <= FtpCap /\ Len(ftask.want.raw) + Len(b) <= FtpCap
     /\ ftask' = [ftask EXCEPT !.data = Written(@, ftask.pos, strip.out), !.pos = @ + Len(strip.out),
                               !.cr = strip.cr, !.split = @ \/ strip.cr, !.want.raw = @ \o b]
     /\ UNCHANGED <<fsess, fFiles, leaked, asked>>

\* The client closes or is silent too long, and the file is closed; or a write fails,
\* and closing changes nothing.
StorEnds ==
  /\ ftask.at = "stor" /\ ftask' = Selecting
  /\ \/ fdisk' = [fdisk EXCEPT ![ftask.path] = ftask.data]
     \/ UNCHANGED fdisk
  /\ fsess' = [fsess EXCEPT ![ftask.s].rest = 0]
  /\ UNCHANGED <<fdirs, leaked, asked>>

-----------------------------------------------------------------------------
(* The task                                                                *)

\* lwip_accept: the first free slot, or 421.  The slot is cleared, and with it the
\* listener a QUIT left there.
FtpAccept ==
  LET free == {i \in FSlots : ~fsess[i].up}
      i == Min(free)
  IN /\ free # {}
     /\ fsess' = [fsess EXCEPT ![i] = [FClosed EXCEPT !.up = TRUE]]
     /\ leaked' = leaked + (IF fsess[i].listen THEN 1 ELSE 0)
     /\ asked' = [asked EXCEPT ![i] = 0]
     /\ UNCHANGED <<ftask, fFiles>>

\* close_session: the client is gone, sent an empty line, or was silent for 120 s.
FtpClose(i) ==
  /\ fsess' = [fsess EXCEPT ![i] = FClosed] /\ asked' = [asked EXCEPT ![i] = 0]
  /\ UNCHANGED <<ftask, fFiles, leaked>>

FtpSelect ==
  /\ ftask = Selecting /\ ~webWaits /\ UNCHANGED webWaits
  /\ \/ FtpAccept
     \/ \E i \in FSlots :
          /\ fsess[i].up
          /\ \/ SessionCmd(i) \/ DataCmd(i) \/ FileCmd(i) \/ Quit(i) \/ FtpClose(i)
             \/ \E arg \in FtpPaths \cup FtpDirs \cup {Here} : List(i, arg)
             \/ \E arg \in FtpPaths :
                  \/ Retr(i, arg)
                  \/ \E appe \in BOOLEAN : Stor(i, arg, appe)

FtpTransfer ==
  /\ UNCHANGED webWaits
  /\ \/ ListStep
     \/ ~webWaits /\ (RetrStep \/ StorEnds \/ \E b \in FtpBlocks : StorBlock(b))

\* A web request of the tcpip thread needs the file lock and waits for it while the
\* task walks a directory; it gets it when the walk is over.
WebRequest ==
  /\ ~webWaits /\ ftask.at = "list" /\ webWaits' = TRUE
  /\ UNCHANGED <<fsess, ftask, fFiles, leaked, asked>>

WebProceeds ==
  /\ webWaits /\ ftask.at # "list" /\ webWaits' = FALSE
  /\ UNCHANGED <<fsess, ftask, fFiles, leaked, asked>>

FtpInit ==
  /\ fsess = [i \in FSlots |-> FClosed] /\ ftask = Selecting
  /\ fdisk = [p \in {} |-> <<>>] /\ fdirs = {<<>>}
  /\ leaked = 0 /\ webWaits = FALSE /\ asked = [i \in FSlots |-> 0]

FtpNext == FtpSelect \/ FtpTransfer \/ WebRequest \/ WebProceeds

-----------------------------------------------------------------------------
(* Properties                                                              *)

\* The whole stream without the CR of its line ends.
Unix(raw) == Kept(raw, 1)

\* An upload puts what the client sent, and nothing else, in place of the file, or
\* from the offset of the REST before it, or behind the file for APPE; a download
\* sends the file from the offset asked for.  Offsets of earlier transfers, other
\* modes and failed transfers do not show.  (In ASCII mode provided no block ends in
\* CR: the LF of a line end that is split there is lost, ftpd.c:235.)
TransferIntact ==
  LET ascii == fsess[ftask.s].ascii
      w == ftask.want
      out == IF ascii THEN Unix(w.raw) ELSE w.raw
  IN CASE ftask.at = "stor" ->
            ~ftask.split =>
              ftask.data = CASE w.appe -> w.old \o out
                             [] ~w.appe /\ w.at = 0 -> out
                             [] OTHER -> Written(w.old, w.at, out)
       [] ftask.at = "retr" ->
            LET tail == SubSeq(ftask.data, w + 1, Len(ftask.data))
            IN IsPrefix(ftask.sent, IF ascii THEN Crlf(tail) ELSE tail)
       [] OTHER -> TRUE

\* However TCP cuts an upload in ASCII mode, line ends are all it can lose: every
\* other byte is stored, once and in order (ftpd.c:228).
TextKept ==
  LET Text(s) == SelectSeq(s, LAMBDA b : b \notin {"CR", "LF"})
  IN ftask.at = "stor" /\ fsess[ftask.s].ascii /\ ~ftask.want.appe /\ ftask.want.at = 0 =>
       Text(ftask.data) = Text(ftask.want.raw)

\* ftpd.c:605: a listing keeps the file lock for a bounded time, as the timeout of
\* the data connection's socket ends it.
FtpReturns == (ftask.at = "list") ~> (ftask.at # "list")

=============================================================================
