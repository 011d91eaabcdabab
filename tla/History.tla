------------------------------ MODULE History ------------------------------
(***************************************************************************)
(* The recording of samples: the queue, the switch and the writer task of  *)
(* src/history/history.c, and the files of src/history/history_file.c on   *)
(* littlefs.  The sampler, the callers of history_enable_write and the     *)
(* writer task interleave; hist_lock is held over a batch.                 *)
(*                                                                         *)
(* A sample is its number and takes one unit of a file.  A file name is    *)
(* the time of its creation.  Of littlefs, external, the model has what    *)
(* the code relies on: what is appended to an open file reaches the disk   *)
(* with a sync or close, and not at all once a write to it failed or the   *)
(* file was removed; removing an open file succeeds.                       *)
(***************************************************************************)
EXTENDS Integers, Sequences, SequencesExt, FiniteSetsExt, Functions

CONSTANTS
  QueueDepth,   \* HIST_QUEUE_DEPTH
  FileMax,      \* HIST_FILE_MAX, in samples
  MaxFiles,     \* HIST_MAX_FILES
  NamesCap,     \* names cleanup_old_files has room for
  Samples,      \* bound: samples taken
  Times,        \* bound: the clock shows 1 .. Times
  Switches,     \* bound: switches off
  Cuts,         \* bound: resets
  ClockMayGoBack \* the clock may be set back, or a year end

ASSUME HistoryAssumption ==
  /\ {QueueDepth, FileMax, MaxFiles} \subseteq Nat \ {0}
  /\ {NamesCap, Samples, Times, Switches, Cuts} \subseteq Nat
  /\ NamesCap > MaxFiles /\ ClockMayGoBack \in BOOLEAN

VARIABLES
  hEnabled,     \* history_enabled
  hCloseReq,    \* hist_close_req
  hQueue,       \* hist_queue
  hPc,          \* hist_task: "receive", "batch", "create", "cleanup", "write", "end", "closed"
  hSample,      \* the sample in the task's hands
  hDisable,     \* a caller of history_enable_write(false) is between its two stores
  hFiles,       \* on disk: file name to samples
  hOpen,        \* his_fp_open
  hName,        \* his_cur_name, 0 for none
  hSize,        \* his_cur_size
  hCache,       \* samples appended since the last sync
  hErred,       \* a write to the open file failed
  hClock,       \* the time
  hNext,        \* the next sample's number
  hLeft,        \* switches and resets left
  removed       \* history: the open file was removed by a user

hSwitch == <<hEnabled, hCloseReq, hDisable>>
hFile == <<hFiles, hOpen, hName, hSize, hCache, hErred, removed>>
hRest == <<hClock, hNext, hLeft>>
hVars == <<hSwitch, hQueue, hPc, hSample, hFile, hRest>>

-----------------------------------------------------------------------------
(* Files, as records of the file variables                                 *)

Fs == [files |-> hFiles, open |-> hOpen, name |-> hName, size |-> hSize,
       cache |-> hCache, erred |-> hErred, removed |-> removed]

SetFs(s) ==
  /\ hFiles' = s.files /\ hOpen' = s.open /\ hName' = s.name /\ hSize' = s.size
  /\ hCache' = s.cache /\ hErred' = s.erred /\ removed' = s.removed

\* lfs_file_sync: external.
Synced(s) ==
  IF s.open /\ ~s.erred /\ s.name \in DOMAIN s.files
  THEN [s EXCEPT !.files[s.name] = @ \o s.cache, !.cache = <<>>] ELSE s

\* close_cur_file, hist_file_close.
Closed(s) ==
  [Synced(s) EXCEPT !.open = FALSE, !.cache = <<>>, !.erred = FALSE, !.removed = FALSE]

\* open_append of a file that exists.
Appending(s, n) == [s EXCEPT !.open = TRUE, !.name = n, !.size = Len(s.files[n])]

\* open_append of the file of the time, created unless it exists.
Made(s, n) ==
  [s EXCEPT !.files = [m \in DOMAIN @ \cup {n} |-> IF m \in DOMAIN @ THEN @[m] ELSE <<>>]]

\* Variant with a fault: the newest files are deleted.
DoomedNewest(files) ==
  {f \in DOMAIN files : Cardinality({g \in DOMAIN files : g > f}) < Cardinality(DOMAIN files) - MaxFiles}

\* The files cleanup_old_files deletes: of the names it has room for, in the order of
\* the directory, the smallest until MaxFiles are left.
Doomed(files) ==
  LET seen == {f \in DOMAIN files : Cardinality({g \in DOMAIN files : g < f}) < NamesCap}
  IN {f \in seen : Cardinality({g \in seen : g < f}) < Cardinality(seen) - MaxFiles}

Unusable(s) == ~(s.open /\ s.size < FileMax)
Resumable(s, n) == n \in DOMAIN s.files /\ Len(s.files[n]) < FileMax

\* Variant with a fault: the first file of the directory is taken up again.
LatestFirst(s) == IF DOMAIN s.files = {} THEN 0 ELSE Min(DOMAIN s.files)

\* The newest file of the directory.
Latest(s) == IF DOMAIN s.files = {} THEN 0 ELSE Max(DOMAIN s.files)

-----------------------------------------------------------------------------
(* hist_task                                                               *)

\* xQueueReceive yields a sample; hist_lock is taken.
Receive ==
  /\ hPc = "receive" /\ hQueue # <<>>
  /\ hSample' = Head(hQueue) /\ hQueue' = Tail(hQueue) /\ hPc' = "batch"
  /\ UNCHANGED <<hSwitch, hFile, hRest>>

\* ensure_file, when the open file cannot be used.  The file last used is taken up
\* again, unless it is full; if it is gone or does not open another is looked for.
ResumeFile ==
  /\ hPc = "batch" /\ Unusable(Fs) /\ hName # 0 /\ hSize < FileMax
  /\ LET s == Closed(Fs)
     IN \/ Resumable(s, hName) /\ SetFs(Appending(s, hName)) /\ hPc' = "write"
        \/ SetFs([s EXCEPT !.name = 0]) /\ UNCHANGED hPc
  /\ UNCHANGED <<hSwitch, hQueue, hSample, hRest>>

\* At the first write, or when the file last used has gone, the newest one is taken
\* up, unless it is full or does not open.
ReuseLatest ==
  /\ hPc = "batch" /\ Unusable(Fs) /\ hName = 0
  /\ LET s == Closed(Fs)
     IN \/ Resumable(s, Latest(s)) /\ SetFs(Appending(s, Latest(s))) /\ hPc' = "write"
        \/ SetFs(s) /\ hPc' = "create"
  /\ UNCHANGED <<hSwitch, hQueue, hSample, hRest>>

\* The file is full, or a write to it failed.
RotateFile ==
  /\ hPc = "batch" /\ Unusable(Fs) /\ hName # 0 /\ hSize >= FileMax
  /\ SetFs(Closed(Fs)) /\ hPc' = "create"
  /\ UNCHANGED <<hSwitch, hQueue, hSample, hRest>>

\* The last case of ensure_file: a file named after the time.  A failure may leave
\* the new file behind, empty.
CreateFile ==
  /\ hPc = "create" /\ UNCHANGED <<hSwitch, hQueue, hSample, hRest>>
  /\ LET made == Made(Fs, hClock)
         opened == Appending(made, hClock)
     IN \/ SetFs(opened) /\ hPc' = IF opened.size = 0 THEN "cleanup" ELSE "write"
        \/ (SetFs(Fs) \/ SetFs(made)) /\ hPc' = "end"

\* cleanup_old_files: the directory may not open, any removal may fail.
CleanupOldFiles ==
  /\ hPc = "cleanup" /\ hPc' = "write"
  /\ \E gone \in SUBSET Doomed(hFiles) :
       SetFs([Fs EXCEPT !.files = Restrict(@, DOMAIN @ \ gone)])
  /\ UNCHANGED <<hSwitch, hQueue, hSample, hRest>>

\* hist_file_write with a file: written, and the next sample follows; or the write
\* failed, and the sample is lost.
WriteSample ==
  /\ hPc = "write" \/ (hPc = "batch" /\ ~Unusable(Fs))
  /\ \/ /\ SetFs([Fs EXCEPT !.cache = Append(@, hSample), !.size = @ + 1])
        /\ IF hQueue = <<>> THEN hPc' = "end" /\ UNCHANGED <<hQueue, hSample>>
           ELSE hSample' = Head(hQueue) /\ hQueue' = Tail(hQueue) /\ hPc' = "batch"
     \/ /\ SetFs([Fs EXCEPT !.erred = TRUE, !.cache = <<>>, !.size = FileMax])
        /\ hPc' = "end" /\ UNCHANGED <<hQueue, hSample>>
  /\ UNCHANGED <<hSwitch, hRest>>

\* Variant with a fault: a batch leaves the file to the request to close it.
EndBatchTrusts ==
  /\ hPc = "end" /\ hPc' = "receive"
  /\ UNCHANGED <<hSwitch, hQueue, hSample, hFile, hRest>>

\* The end of a batch: closed when the recording is off; hist_lock is given back.
EndBatch ==
  /\ hPc = "end" /\ hPc' = "receive"
  /\ IF hEnabled THEN UNCHANGED <<hFile, hCloseReq>> ELSE SetFs(Closed(Fs)) /\ hCloseReq' = FALSE
  /\ UNCHANGED <<hEnabled, hDisable, hQueue, hSample, hRest>>

\* The receive timed out and a close is requested; close, then the request is cleared.
CloseFile ==
  /\ hPc = "receive" /\ hQueue = <<>> /\ hCloseReq
  /\ SetFs(Closed(Fs)) /\ hPc' = "closed"
  /\ UNCHANGED <<hSwitch, hQueue, hSample, hRest>>

ClearRequest ==
  /\ hPc = "closed" /\ hPc' = "receive" /\ hCloseReq' = FALSE
  /\ UNCHANGED <<hEnabled, hDisable, hQueue, hSample, hFile, hRest>>

EnsureFile == ResumeFile \/ ReuseLatest \/ RotateFile \/ CreateFile \/ CleanupOldFiles

HistTask == Receive \/ EnsureFile \/ WriteSample \/ EndBatch \/ CloseFile \/ ClearRequest

-----------------------------------------------------------------------------
(* Callers                                                                 *)

\* send_history_data: dropped when the recording is off or the queue is full.
SendHistoryData ==
  /\ hNext <= Samples /\ hNext' = hNext + 1
  /\ hQueue' = IF hEnabled /\ Len(hQueue) < QueueDepth THEN Append(hQueue, hNext) ELSE hQueue
  /\ UNCHANGED <<hSwitch, hPc, hSample, hFile, hClock, hLeft>>

EnableWrite ==
  /\ ~hEnabled /\ ~hDisable /\ hEnabled' = TRUE
  /\ UNCHANGED <<hCloseReq, hDisable, hQueue, hPc, hSample, hFile, hRest>>

DisableWrite ==
  /\ hEnabled /\ ~hDisable /\ hLeft.switches > 0 /\ hEnabled' = FALSE /\ hDisable' = TRUE
  /\ hLeft' = [hLeft EXCEPT !.switches = @ - 1]
  /\ UNCHANGED <<hCloseReq, hQueue, hPc, hSample, hFile, hClock, hNext>>

RequestClose ==
  /\ hDisable /\ hDisable' = FALSE /\ hCloseReq' = TRUE
  /\ UNCHANGED <<hEnabled, hQueue, hPc, hSample, hFile, hRest>>

\* hist_lock is not held.
LockFree == hPc = "receive"

\* history_sync: before a reboot, a download, a listing.
HistorySync ==
  /\ LockFree /\ hOpen /\ SetFs(Synced(Fs))
  /\ UNCHANGED <<hSwitch, hQueue, hPc, hSample, hRest>>

\* history_web_remove, DELE over FTP: the open file is not spared.
RemoveFile(n) ==
  /\ LockFree /\ n \in DOMAIN hFiles
  /\ SetFs([Fs EXCEPT !.files = Restrict(@, DOMAIN @ \ {n}),
                      !.removed = @ \/ (hOpen /\ n = hName)])
  /\ UNCHANGED <<hSwitch, hQueue, hPc, hSample, hRest>>

\* Time passes; or the clock is set, a year ends, which names do not show, or the time
\* cannot be converted, which gives the first name of a year.  External.
ClockMoves(t) ==
  /\ hClock' = t
  /\ t > hClock \/ (ClockMayGoBack /\ t < hClock)
  /\ UNCHANGED <<hSwitch, hQueue, hPc, hSample, hFile, hNext, hLeft>>

\* A reset: history_init, then history_enable_write as the saved register has it.
HistoryReset ==
  /\ hLeft.cuts > 0 /\ hLeft' = [hLeft EXCEPT !.cuts = @ - 1]
  /\ hEnabled' \in BOOLEAN /\ hCloseReq' = ~hEnabled' /\ hDisable' = FALSE /\ hQueue' = <<>> /\ hPc' = "receive"
  /\ hOpen' = FALSE /\ hName' = 0 /\ hSize' = 0 /\ hCache' = <<>> /\ hErred' = FALSE
  /\ removed' = FALSE
  /\ UNCHANGED <<hSample, hFiles, hClock, hNext>>

HistInit ==
  /\ hEnabled = TRUE /\ hCloseReq = FALSE /\ hDisable = FALSE
  /\ hQueue = <<>> /\ hPc = "receive" /\ hSample = 0
  /\ hFiles = [n \in {} |-> <<>>] /\ hOpen = FALSE /\ hName = 0 /\ hSize = 0
  /\ hCache = <<>> /\ hErred = FALSE /\ removed = FALSE
  /\ hClock = 1 /\ hNext = 1 /\ hLeft = [switches |-> Switches, cuts |-> Cuts]

HistNext ==
  \/ HistTask
  \/ SendHistoryData \/ EnableWrite \/ DisableWrite \/ RequestClose \/ HistorySync
  \/ \E n \in 1 .. Times : RemoveFile(n) \/ ClockMoves(n)
  \/ HistoryReset

-----------------------------------------------------------------------------
(* Properties                                                              *)

\* The samples on disk, file after file in the order of the names, are in the
\* order they were taken, none twice: over rotations, switches off and on, resets
\* and failed writes, as long as the clock does not go back.
Chronological ==
  \A m, n \in DOMAIN hFiles : \A i \in DOMAIN hFiles[m], j \in DOMAIN hFiles[n] :
    m < n \/ (m = n /\ i < j) => hFiles[m][i] < hFiles[n][j]

\* The file samples go to is a file of the directory: rotation deletes old files,
\* never the one just created or taken up, however many earlier resets and failed
\* removals left, also when not all names find room (history_file.c:67).  Only a user
\* may take the open file away.
RotationSparesCurrent == hOpen /\ ~removed => hName \in DOMAIN hFiles

\* Once the recording is switched off for good the file is closed, and with it on
\* disk, however the switch, the samples and the task interleaved.
DisableCloses == <>[]~hEnabled => <>[]~hOpen

=============================================================================
