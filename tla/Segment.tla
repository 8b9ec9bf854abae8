------------------------------- MODULE Segment -------------------------------
(***************************************************************************)
(* One segment of an object-store device (pkg/devices/objstore/segment.go  *)
(* with storeparams.go): a region of the device that lives in a remote     *)
(* object and, while it is in use, in a local cache file.  Reads and       *)
(* writes load the file, flushes upload it, evictions upload and delete    *)
(* it, Close does both, and the process can stop and start again.  The     *)
(* operations run in different goroutines and synchronise on fileMu (the   *)
(* local file) and itemMu (the remote item).                               *)
(*                                                                         *)
(* The segment's contents are one value of Val: a write replaces it.  An   *)
(* eTag is the value it was computed from.                                 *)
(***************************************************************************)
EXTENDS Naturals

CONSTANTS
    Val, Zero,      \* contents, and the all-zero one
    NoVal,          \* no file, no object, no eTag
    WriteVal,       \* the contents the writes write
    IO,             \* goroutines that read and write (ioAt)
    Flusher,        \* goroutines that flush (device.flush)
    Buffered,       \* those of them that got an upload buffer
    Evictor,        \* goroutines that evict (removeLeastRecentUsed)
    Closer,         \* the goroutine that calls Close
    NoThread,
    Persist,        \* persistCache
    Quota,          \* units of quotaSema
    Fault,          \* what may fail: "upload", "etag", "sync", "create", "download"
    CrashAnywhere   \* the process may die at any time, not only after Close

Thread == IO \cup Flusher \cup Evictor \cup {Closer}

ASSUME ValAssumption == /\ Zero \in Val /\ NoVal \notin Val /\ WriteVal \subseteq Val
ASSUME ThreadAssumption ==
    /\ NoThread \notin Thread /\ Buffered \subseteq Flusher
    /\ IO \cap Flusher = {} /\ IO \cap Evictor = {} /\ Flusher \cap Evictor = {}
    /\ Closer \notin IO \cup Flusher \cup Evictor
ASSUME FlagAssumption == Quota \in Nat /\ Persist \in BOOLEAN /\ CrashAnywhere \in BOOLEAN

VARIABLES
    \* on disk and in the store: they outlive the process
    file,       \* the cache file's contents
    etag,       \* what its .etag file says
    object,     \* the remote object's contents
    \* the segment
    opened,     \* localFile # nil (and atomicBacked = 1: they change together)
    item,       \* remoteItem # nil
    dirty,      \* atomicDirty
    claimed,    \* units of quotaSema taken for this segment
    fileW, fileR,   \* fileMu: its writer, its readers
    itemW, itemR,   \* itemMu
    \* the goroutines
    pc, arg,    \* arg: the value to write, NoVal for a read
    buf,        \* what is being uploaded
    closed,     \* Close was called (the device's context is done)
    \* what was promised, for the properties
    truth,      \* what the last write wrote
    dropped,    \* that write was skipped, and something else was there
    safe,       \* what may come back after a crash
    since       \* per flush that runs: the contents since it began

diskVars == <<file, etag, object>>
segVars  == <<opened, item, dirty, claimed>>
lockVars == <<fileW, fileR, itemW, itemR>>
specVars == <<truth, dropped, safe, since>>
vars == <<diskVars, segVars, lockVars, pc, arg, buf, closed, specVars>>

Init ==
    /\ file = NoVal /\ etag = NoVal /\ object = NoVal
    /\ opened = FALSE /\ item = FALSE /\ dirty = FALSE /\ claimed = 0
    /\ fileW = NoThread /\ fileR = {} /\ itemW = NoThread /\ itemR = {}
    /\ pc = [t \in Thread |-> "idle"] /\ arg = [t \in IO |-> NoVal]
    /\ buf = [t \in Thread |-> NoVal] /\ closed = FALSE
    /\ truth = Zero /\ dropped = FALSE /\ safe = {Zero} /\ since = [t \in Flusher \cup {Closer} |-> {}]

-----------------------------------------------------------------------------
(* Locks, and the bookkeeping of what was promised *)

Goto(t, l) == pc' = [pc EXCEPT ![t] = l]

ShareFile(t)  == fileW = NoThread /\ fileR' = fileR \cup {t} /\ UNCHANGED fileW
LockFile(t)   == fileW = NoThread /\ fileR = {} /\ fileW' = t /\ UNCHANGED fileR
UnlockFile(t) == /\ fileR' = fileR \ {t}
                 /\ fileW' = IF fileW = t THEN NoThread ELSE fileW

\* A write of v has been applied.
Wrote(v) == /\ truth' = v /\ safe' = safe \cup {v}
            /\ since' = [t \in DOMAIN since |->
                           IF pc[t] = "idle" THEN since[t] ELSE since[t] \cup {v}]

\* Flush returns nil: it promises that what was there when it began, or
\* something newer, survives.
FlushPromised(t) == /\ safe' = since[t] /\ since' = [since EXCEPT ![t] = {}]
                    /\ UNCHANGED <<truth, dropped>>
FlushFailed(t) == since' = [since EXCEPT ![t] = {}] /\ UNCHANGED <<truth, dropped, safe>>

-----------------------------------------------------------------------------
(* ReadAt and WriteAt *)

\* loadFile(false) finds the file open under the read lock.
ReadShared(t) ==
    /\ pc[t] = "idle" /\ ~closed /\ opened
    /\ ShareFile(t)
    /\ Goto(t, "read")
    /\ UNCHANGED <<diskVars, segVars, itemW, itemR, arg, buf, closed, specVars>>

\* It does not: the read goes on to take the lock.
ReadMisses(t) ==
    /\ pc[t] = "idle" /\ ~closed /\ ~opened
    /\ fileW = NoThread
    /\ Goto(t, "load")
    /\ UNCHANGED <<diskVars, segVars, lockVars, arg, buf, closed, specVars>>

\* A write of zeros looks at localFile first and is done when there is none.
ZeroWriteSkipped(t) ==
    /\ pc[t] = "idle" /\ ~closed /\ ~opened
    /\ Zero \in WriteVal /\ fileW = NoThread
    /\ Wrote(Zero) /\ dropped' = (dropped \/ truth # Zero)
    /\ UNCHANGED <<diskVars, segVars, lockVars, pc, arg, buf, closed>>

WriteBegins(t, v) ==
    /\ pc[t] = "idle" /\ ~closed
    /\ v = Zero => fileW = NoThread /\ opened
    /\ Goto(t, "load") /\ arg' = [arg EXCEPT ![t] = v]
    /\ UNCHANGED <<diskVars, segVars, lockVars, buf, closed, specVars>>

\* loadFile: fileMu.Lock(), and a second look at localFile.
AfterLockNoRecheck == "item"
AfterLock == IF opened THEN "access" ELSE "item"
Load(t) ==
    /\ pc[t] = "load"
    /\ LockFile(t)
    /\ Goto(t, AfterLock)
    /\ UNCHANGED <<diskVars, segVars, itemW, itemR, arg, buf, closed, specVars>>

\* loadFile: itemMu.RLock() and a look at remoteItem.
LoadItem(t) ==
    /\ pc[t] = "item" /\ itemW = NoThread
    /\ IF item THEN itemR' = itemR \cup {t} /\ Goto(t, "download")
       ELSE UNCHANGED itemR /\ Goto(t, IF arg[t] = NoVal THEN "zeros" ELSE "create")
    /\ UNCHANGED <<diskVars, segVars, fileW, fileR, itemW, arg, buf, closed, specVars>>

\* The operation returns, with or without an error.
ReturnKeepsItem(t) ==
    /\ UnlockFile(t) /\ Goto(t, "idle") /\ arg' = [arg EXCEPT ![t] = NoVal]
    /\ UNCHANGED <<itemR, itemW, buf, closed>>
Return(t) == /\ UnlockFile(t) /\ itemR' = itemR \ {t}
             /\ Goto(t, "idle") /\ arg' = [arg EXCEPT ![t] = NoVal]
             /\ UNCHANGED <<itemW, buf, closed>>

\* claimCapacity takes a unit if one is left ...
ClaimCapacity == claimed < Quota /\ claimed' = claimed + 1

\* ... and may fail: the other segments can hold the rest of the quota.
ClaimRefused(t) ==
    /\ pc[t] \in {"create", "download"}
    /\ Return(t)
    /\ UNCHANGED <<diskVars, segVars, specVars>>

\* createFile: an empty file, whatever was there before.
CreateFile(t) ==
    /\ pc[t] = "create"
    /\ ClaimCapacity
    /\ file' = Zero /\ opened' = TRUE
    /\ Goto(t, "access")
    /\ UNCHANGED <<etag, object, item, dirty, lockVars, arg, buf, closed, specVars>>

\* createFile fails after the claim, which is not given back.
CreateFails(t) ==
    /\ pc[t] = "create" /\ "create" \in Fault
    /\ ClaimCapacity
    /\ file' = NoVal
    /\ Return(t)
    /\ UNCHANGED <<etag, object, opened, item, dirty, specVars>>

\* cachedFile: the file on disk can be used again.
Reusable == Persist /\ file # NoVal /\ etag # NoVal /\ etag = object

\* downloadFile: the cached file if it can be used, else a new one.
DownloadFile(t) ==
    /\ pc[t] = "download"
    /\ ClaimCapacity
    /\ opened' = TRUE
    /\ IF Reusable THEN UNCHANGED <<file, etag>>
       ELSE file' = object /\ etag' = NoVal
    /\ itemR' = itemR \ {t}
    /\ Goto(t, "access")
    /\ UNCHANGED <<object, item, dirty, fileW, fileR, itemW, arg, buf, closed, specVars>>

\* downloadFile fails and gives the claim back; a partial file may stay behind,
\* without an eTag.
DownloadFails(t) ==
    /\ pc[t] = "download" /\ "download" \in Fault
    /\ \/ UNCHANGED <<file, etag>>
       \/ ~Reusable /\ file' = Zero /\ etag' = NoVal
    /\ Return(t)
    /\ UNCHANGED <<object, segVars, specVars>>

\* The read itself, under either lock, or of a segment that is not there.
ReadDone(t) ==
    /\ \/ pc[t] \in {"read", "zeros"}
       \/ pc[t] = "access" /\ arg[t] = NoVal
    /\ Return(t)
    /\ UNCHANGED <<diskVars, segVars, specVars>>

\* data.WriteAt, then atomicDirty = 1.
WriteMarksForgotten == UNCHANGED dirty
WriteMarks == dirty' = TRUE
WriteDone(t) ==
    /\ pc[t] = "access" /\ arg[t] # NoVal
    /\ file' = arg[t] /\ WriteMarks
    /\ Wrote(arg[t]) /\ dropped' = FALSE
    /\ Return(t)
    /\ UNCHANGED <<etag, object, opened, item, claimed>>

-----------------------------------------------------------------------------
(* Flush *)

\* Flush returns at once when the segment is not dirty.
FlushClean(t) ==
    /\ pc[t] = "idle" /\ ~closed /\ ~dirty
    /\ safe' = {truth}
    /\ UNCHANGED <<diskVars, segVars, lockVars, pc, arg, buf, closed, truth, dropped, since>>

FlushBegins(t) ==
    /\ pc[t] = "idle" /\ ~closed /\ dirty
    /\ since' = [since EXCEPT ![t] = {truth}]
    /\ Goto(t, "flush")
    /\ UNCHANGED <<diskVars, segVars, lockVars, arg, buf, closed, truth, dropped, safe>>

\* fileMu.RLock()
FlushLocks(t) ==
    /\ pc[t] = "flush" /\ opened
    /\ ShareFile(t)
    /\ Goto(t, "lockItem")
    /\ UNCHANGED <<diskVars, segVars, itemW, itemR, arg, buf, closed, specVars>>

\* "Segment found to be dirty ... but is missing a backing data file".
FlushMissesFile(t) ==
    /\ pc[t] = "flush" /\ ~opened /\ fileW = NoThread
    /\ FlushFailed(t)
    /\ Goto(t, "idle")
    /\ UNCHANGED <<diskVars, segVars, lockVars, arg, buf, closed>>

\* flush: itemMu.Lock(), and the segment counts as clean from here on.
LockItem(t) ==
    /\ pc[t] = "lockItem" /\ itemW = NoThread /\ itemR = {}
    /\ itemW' = t
    /\ dirty' = FALSE
    /\ Goto(t, "sync")
    /\ UNCHANGED <<diskVars, opened, item, claimed, fileW, fileR, itemR, arg, buf, closed, specVars>>

\* syncFile: fsync; with a buffer the file is copied and fileMu released.
SyncFile(t) ==
    /\ pc[t] = "sync"
    /\ buf' = [buf EXCEPT ![t] = file]
    /\ IF t \in Buffered THEN UnlockFile(t) ELSE UNCHANGED <<fileW, fileR>>
    /\ Goto(t, "upload")
    /\ UNCHANGED <<diskVars, segVars, itemW, itemR, arg, closed, specVars>>

\* After a flush that worked: the flush returns, Close goes on to delete the
\* file unless the cache persists, an eviction goes on to remove it.
AfterUpload(t) ==
    CASE t \in Evictor -> /\ Goto(t, "remove") /\ UNCHANGED <<fileW, fileR, specVars>>
      [] t \in Flusher -> /\ Goto(t, "idle") /\ UnlockFile(t) /\ FlushPromised(t)
      [] t = Closer    -> /\ Goto(t, IF Persist THEN "idle" ELSE "evict")
                          /\ UnlockFile(t) /\ FlushPromised(t)

\* The upload leaves the mark alone: a write during the upload has set it again.
UploadMarksClean == dirty' = FALSE
UploadKeepsMark == UNCHANGED dirty

\* container.Put succeeds; persistEtag.
Upload(t) ==
    /\ pc[t] = "upload"
    /\ object' = buf[t] /\ item' = TRUE
    /\ etag' = IF Persist THEN buf[t] ELSE etag
    /\ buf' = [buf EXCEPT ![t] = NoVal]
    /\ itemW' = NoThread
    /\ UploadKeepsMark
    /\ AfterUpload(t)
    /\ UNCHANGED <<file, opened, claimed, itemR, arg, closed>>

\* flush returns an error.  When fsync or Put failed it stores the nil item it
\* got, and the segment still counts as clean; the store may have taken the
\* object all the same.  When only persistEtag failed the new item is stored.
FlushErrs(t) ==
    /\ buf' = [buf EXCEPT ![t] = NoVal]
    /\ itemW' = NoThread /\ UnlockFile(t)
    /\ IF t \in Evictor THEN UNCHANGED specVars ELSE FlushFailed(t)
    /\ Goto(t, "idle")
    /\ UNCHANGED <<file, opened, dirty, claimed, itemR, arg, closed>>

UploadFails(t) ==
    /\ \/ pc[t] = "sync" /\ "sync" \in Fault /\ UNCHANGED object
       \/ pc[t] = "upload" /\ "upload" \in Fault /\ object' \in {object, buf[t]}
    /\ item' = FALSE /\ UNCHANGED etag
    /\ FlushErrs(t)

EtagFails(t) ==
    /\ pc[t] = "upload" /\ Persist /\ "etag" \in Fault
    /\ object' = buf[t] /\ item' = TRUE /\ etag' \in {etag, NoVal}
    /\ FlushErrs(t)

-----------------------------------------------------------------------------
(* DeleteFile, Close, and the end of the process *)

\* DeleteFile: fileMu.Lock(); a dirty segment is flushed first.
DeleteFlushesNever == "remove"
DeleteFlushes == IF dirty THEN "lockItem" ELSE "remove"
DeleteFile(t) ==
    /\ \/ pc[t] = "idle" /\ ~closed /\ t \in Evictor
       \/ pc[t] = "evict"
    /\ opened
    /\ LockFile(t)
    /\ Goto(t, DeleteFlushes)
    /\ UNCHANGED <<diskVars, segVars, itemW, itemR, arg, buf, closed, specVars>>

\* DeleteFile of a segment without a file does nothing.
DeleteNothing ==
    /\ pc[Closer] = "evict" /\ ~opened /\ fileW = NoThread /\ fileR = {}
    /\ Goto(Closer, "idle")
    /\ UNCHANGED <<diskVars, segVars, lockVars, arg, buf, closed, specVars>>

\* removeFile, releaseCapacity.
ReleasedNot == UNCHANGED claimed
ReleasedTwice == claimed' = claimed - 2
Released == claimed' = claimed - 1
RemoveFile(t) ==
    /\ pc[t] = "remove"
    /\ file' = NoVal /\ opened' = FALSE
    /\ etag' = IF Persist THEN NoVal ELSE etag
    /\ Released
    /\ UnlockFile(t)
    /\ Goto(t, "idle")
    /\ UNCHANGED <<object, item, dirty, itemW, itemR, arg, buf, closed, specVars>>

\* Close waits for the operations in flight (pendingOpMu), then flushes.
CloseBegins ==
    /\ ~closed /\ \A t \in Thread : pc[t] = "idle"
    /\ closed' = TRUE
    /\ IF dirty THEN /\ Goto(Closer, "flush")
                     /\ since' = [since EXCEPT ![Closer] = {truth}]
                     /\ UNCHANGED safe
       ELSE /\ Goto(Closer, IF Persist THEN "idle" ELSE "evict")
            /\ safe' = {truth} /\ UNCHANGED since
    /\ UNCHANGED <<diskVars, segVars, lockVars, arg, buf, truth, dropped>>

\* What a new process finds (loadSegments, then downloadFile).
Recovered == IF object = NoVal THEN Zero ELSE IF Reusable THEN file ELSE object

\* The process ends and is started again: only the disk and the store remain.
Restart ==
    /\ CrashAnywhere \/ (closed /\ pc[Closer] = "idle")
    /\ opened' = FALSE /\ dirty' = FALSE /\ claimed' = 0
    /\ item' = (object # NoVal)
    /\ fileW' = NoThread /\ fileR' = {} /\ itemW' = NoThread /\ itemR' = {}
    /\ pc' = [t \in Thread |-> "idle"] /\ arg' = [t \in IO |-> NoVal]
    /\ buf' = [t \in Thread |-> NoVal] /\ closed' = FALSE
    /\ truth' = Recovered /\ dropped' = FALSE /\ safe' = {Recovered}
    /\ since' = [t \in DOMAIN since |-> {}]
    /\ UNCHANGED diskVars

-----------------------------------------------------------------------------
\* The steps that start an operation ...
Begins ==
    \/ \E t \in IO : \/ ReadShared(t) \/ ReadMisses(t) \/ ZeroWriteSkipped(t)
                     \/ \E v \in WriteVal : WriteBegins(t, v)
    \/ \E t \in Flusher : FlushClean(t) \/ FlushBegins(t)
    \/ \E t \in Evictor : pc[t] = "idle" /\ DeleteFile(t)
    \/ CloseBegins

\* ... and the steps that carry one on.
IOContinues(t) ==
    \/ Load(t) \/ LoadItem(t) \/ ClaimRefused(t)
    \/ CreateFile(t) \/ CreateFails(t) \/ DownloadFile(t) \/ DownloadFails(t)
    \/ ReadDone(t) \/ WriteDone(t)
SyncContinues(t) ==
    \/ FlushLocks(t) \/ FlushMissesFile(t)
    \/ LockItem(t) \/ SyncFile(t) \/ Upload(t) \/ UploadFails(t) \/ EtagFails(t)
    \/ (pc[t] = "evict" /\ DeleteFile(t)) \/ RemoveFile(t)

Next == \/ Begins
        \/ \E t \in IO : IOContinues(t)
        \/ \E t \in Thread \ IO : SyncContinues(t)
        \/ DeleteNothing
        \/ Restart

Spec == Init /\ [][Next]_vars

(***************************************************************************)
(* An operation that runs goes on.  Strong fairness for the steps that     *)
(* wait for a lock: sync.RWMutex lets a waiting writer in before later     *)
(* readers and hands a mutex to a waiter that starves.                     *)
(***************************************************************************)
Fairness == /\ \A t \in IO : SF_vars(IOContinues(t))
            /\ \A t \in Thread \ IO : SF_vars(SyncContinues(t))
            /\ WF_vars(DeleteNothing)

FairSpec == Spec /\ Fairness

-----------------------------------------------------------------------------
(* Properties *)

TypeOK ==
    /\ file \in Val \cup {NoVal} /\ etag \in Val \cup {NoVal}
    /\ object \in Val \cup {NoVal}
    /\ opened \in BOOLEAN /\ item \in BOOLEAN /\ dirty \in BOOLEAN
    /\ claimed \in Nat /\ closed \in BOOLEAN
    /\ fileW \in Thread \cup {NoThread} /\ fileR \subseteq Thread
    /\ itemW \in Thread \cup {NoThread} /\ itemR \subseteq Thread
    /\ pc \in [Thread -> {"idle", "read", "load", "item", "zeros", "create",
                          "download", "access", "flush", "lockItem", "sync",
                          "upload", "evict", "remove"}]
    /\ arg \in [IO -> Val \cup {NoVal}] /\ buf \in [Thread -> Val \cup {NoVal}]
    /\ truth \in Val /\ dropped \in BOOLEAN /\ safe \subseteq Val
    /\ since \in [Flusher \cup {Closer} -> SUBSET Val]

\* What the next read returns, once the locks let it through.
Visible == IF opened THEN file
           ELSE IF itemW # NoThread THEN buf[itemW]
           ELSE IF item THEN Recovered
           ELSE Zero

\* The segment reads as what was last written to it, wherever that lives: in
\* the cache file, in an upload whose file was evicted meanwhile, or in the
\* remote object.  (A write of zeros that was skipped is not among the writes
\* this is about.)
ReadsLastWrite == ~dropped => truth = Visible

\* "if write is all zeros and segment is empty write is a noop": no write of zeros
\* is skipped while the segment holds something else.
SkipsOnlyOnEmpty == ~dropped

\* "Dirty returns if the segment has local writes not committed to the remote
\* store": when it does not, and no upload is running, the remote side (no item
\* stands for zeros) holds what the cache file holds.
CleanIsCommitted ==
    opened /\ ~dirty /\ itemW = NoThread => file = IF item THEN object ELSE Zero

\* quotaSema counts the segments that are cached locally: one unit is taken
\* exactly while the segment has its file.
QuotaCountsCachedFile == claimed = IF opened THEN 1 ELSE 0

\* If the process died now, a new one would find what the last Flush that
\* returned nil covered, or something written since.
FlushedSurvives == Recovered \in safe

\* A flush that found the segment dirty finds its file.
DirtyHasFile == \A t \in Thread : pc[t] = "flush" /\ fileW = NoThread => opened

\* The segment is a cell of a durable device: reads, flushes and crashes do what
\* DurableCell allows.
Cell == INSTANCE DurableCell WITH content <- Visible
IsDurableCell == Cell!Spec

\* Every operation returns: no order of the two locks makes the goroutines wait
\* for each other.
OperationsReturn == \A t \in Thread : pc[t] # "idle" ~> pc[t] = "idle"

\* What OperationsReturn rests on, without time: who can go on, from the guards.
Ready(t) ==
    \/ pc[t] \in {"read", "zeros", "create", "download", "access", "sync", "upload", "remove"}
    \/ pc[t] \in {"load", "evict"} /\ fileW = NoThread /\ fileR = {}
    \/ pc[t] = "flush" /\ fileW = NoThread
    \/ pc[t] = "item" /\ itemW = NoThread
    \/ pc[t] = "lockItem" /\ itemW = NoThread /\ itemR = {}

\* While an operation runs, some goroutine can go on: fileMu is taken before
\* itemMu everywhere, and nobody who has itemMu waits for a lock, although a
\* buffered flush gives fileMu back while it keeps itemMu.
NeverStuck == (\E t \in Thread : pc[t] # "idle") => \E t \in Thread : Ready(t)

\* The guards say what they mean.
ReadyCanStep ==
    \A t \in Thread : Ready(t) =>
        IF t \in IO THEN ENABLED IOContinues(t)
        ELSE ENABLED SyncContinues(t) \/ (t = Closer /\ ENABLED DeleteNothing)

\* Nobody's file is changed or taken away while a read or an upload goes on under
\* the read lock of fileMu, and no object while a download goes on under that of
\* itemMu, whoever else comes and goes in between.
LeavesLocked == /\ fileR \cap fileR' # {} => UNCHANGED <<file, opened>>
                /\ itemR \cap itemR' # {} => UNCHANGED <<object, item>>
StableUnderLock == [][LeavesLocked]_vars
=============================================================================
