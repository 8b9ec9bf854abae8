---------------------------- MODULE ObjStoreDevice ----------------------------
(***************************************************************************)
(* An object-store device (pkg/devices/objstore/device.go): an array of    *)
(* segments behind one cache quota.  ioAt cuts a request at the segment    *)
(* boundaries and evicts another segment when the quota refuses one;       *)
(* flush uploads every dirty segment with a few goroutines and a few       *)
(* buffers; Close waits for all of them, flushes and empties the cache.    *)
(*                                                                         *)
(* What happens inside a segment (contents, eTags, restarts, the second    *)
(* look under the lock) is module Segment; here a segment is its marks,    *)
(* its two locks and its remote item, and an operation on it is a step per *)
(* lock it holds across a call to the store.  Writes are of data that is   *)
(* not all zeros, and removeFile succeeds.                                 *)
(***************************************************************************)
EXTENDS Integers, FiniteSets, FiniteSetsExt

CONSTANTS
    TotalBytes, SegBytes,
    Quota,          \* units of quotaSegSema; NSeg of them stand for no quota
    Request,        \* the requests clients make: <<op, pos, len>>
    IO,             \* goroutines in ReadAt and WriteAt
    Flusher,        \* goroutines in Flush, flushWorker among them
    Closer,         \* goroutines in Close: processRequests and NbdStream both call it
    None,
    ConcurFlush,    \* concurFlush
    MaxBufs,        \* maxFlushAlloc \div segmentBytes
    MaxCapTries,    \* maxCapTries (10 in the code)
    MaxTries,       \* maxTries of removeLeastRecentUsed (16 in the code)
    Persist,        \* persistCache
    Stored,         \* the segments that have a remote object at the start
    Fault,          \* what may fail: "upload", "download", "create"
    MaxOps          \* bound on the requests of one behaviour

\* loadSegments: a rest that fills no segment gets none.
NSeg == TotalBytes \div SegBytes
Seg == 0 .. NSeg - 1
Syncer == Flusher \cup Closer
Thread == IO \cup Syncer

ASSUME SizeAssumption == /\ SegBytes \in Nat \ {0} /\ TotalBytes \in Nat
                         /\ SegBytes <= TotalBytes /\ Quota \in 1 .. NSeg
                         /\ Request \subseteq {"read", "write"} \X Nat \X (Nat \ {0})
ASSUME BoundAssumption == /\ ConcurFlush \in Nat \ {0} /\ MaxBufs \in Nat
                          /\ MaxCapTries \in Nat \ {0} /\ MaxTries \in Nat \ {0}
                          /\ MaxOps \in Nat /\ Persist \in BOOLEAN
ASSUME RoleAssumption == /\ IsFiniteSet(IO) /\ IO \cap Syncer = {} /\ Flusher \cap Closer = {}
                         /\ None \notin Thread \cup Seg /\ Stored \subseteq Seg

VARIABLES
    \* the segments
    backed, dirty,  \* atomicBacked, atomicDirty
    item,           \* remoteItem # nil
    fileW, fileR,   \* fileMu: its writer, its readers
    itemW,          \* itemMu: the upload that holds it
    \* the device
    free,           \* units left in quotaSegSema
    cancelled,      \* the device's context is done
    \* the goroutines
    pc,
    io,             \* ioAt: the request and the loop's variables
    lru,            \* removeLeastRecentUsed: its variables
    todo,           \* flush: what is left of flushList
    work,           \* flush: the goroutine of each segment
    hasBuf,         \* the goroutines that got a buffer
    pool, alloc,    \* buffers in bufCh, buffers allocated
    err,            \* an error is in errCh
    \* bounds, and what was promised
    ops,            \* requests so far
    leaked,         \* units that createFile did not give back
    rival,          \* another goroutine moved capacity since the request asked for it
    touched,        \* what the request has transferred: <<segment, offset>>
    due,            \* per flush: segments marked dirty when it began, until they are uploaded
    covers          \* per upload: the flushes it pays for

segVars   == <<backed, dirty, item, fileW, fileR, itemW>>
ioVars    == <<io, lru, ops, touched>>
capVars   == <<free, leaked, rival>>
flushVars == <<todo, work, hasBuf, pool, alloc, err>>
dueVars   == <<due, covers>>
vars == <<segVars, ioVars, capVars, flushVars, dueVars, cancelled, pc>>

NoRequest == [op |-> "none", first |-> 0, len |-> 0, seg |-> 0, pos |-> 0, left |-> 0, tries |-> 0]
NoScan == [i |-> 0, clean |-> None, stale |-> None, tries |-> 0]

Init ==
    /\ backed = [s \in Seg |-> FALSE] /\ dirty = [s \in Seg |-> FALSE]
    /\ item = [s \in Seg |-> s \in Stored]
    /\ fileW = [s \in Seg |-> None] /\ fileR = [s \in Seg |-> {}]
    /\ itemW = [s \in Seg |-> None]
    /\ free = Quota /\ leaked = 0 /\ cancelled = FALSE /\ ops = 0
    /\ pc = [t \in Thread |-> "idle"]
    /\ io = [t \in IO |-> NoRequest] /\ lru = [t \in IO |-> NoScan]
    /\ rival = [t \in IO |-> FALSE] /\ touched = [t \in IO |-> {}]
    /\ todo = [f \in Syncer |-> {}] /\ work = [f \in Syncer |-> [s \in Seg |-> "none"]]
    /\ hasBuf = [f \in Syncer |-> {}] /\ pool = [f \in Syncer |-> 0]
    /\ alloc = [f \in Syncer |-> 0] /\ err = [f \in Syncer |-> FALSE]
    /\ due = [f \in Syncer |-> {}] /\ covers = [s \in Seg |-> {}]

Goto(t, l) == pc' = [pc EXCEPT ![t] = l]

-----------------------------------------------------------------------------
(* Locks and uploads *)

\* pendingOpMu: a Close that waits keeps new operations out.
CloseIsPending == \E c \in Closer : pc[c] \notin {"idle", "closed", "closeErr"}
NoOneInside == \A t \in IO \cup Flusher : pc[t] = "idle"

FileIsFree(s) == fileW[s] = None /\ fileR[s] = {}
UnlockForgotten(s) == UNCHANGED fileW
UnlockFile(s) == fileW' = [fileW EXCEPT ![s] = None]

\* segment.flush with itemMu locked: the mark is cleared before the upload.
UploadBegins(s, t) ==
    /\ itemW[s] = None
    /\ itemW' = [itemW EXCEPT ![s] = t] /\ dirty' = [dirty EXCEPT ![s] = FALSE]
    /\ covers' = [covers EXCEPT ![s] = {f \in Syncer : s \in due[f]}]
    /\ UNCHANGED due

\* The upload is over: remoteItem is what syncFile returned, nil on an error.
\* A flush that relied on another's upload is not told of its failure.
UploadEnds(s, t, ok) ==
    /\ itemW' = [itemW EXCEPT ![s] = None] /\ item' = [item EXCEPT ![s] = ok]
    /\ due' = [f \in Syncer |->
                 IF f \in covers[s] /\ (ok \/ f # t) THEN due[f] \ {s} ELSE due[f]]
    /\ covers' = [covers EXCEPT ![s] = {}]
    /\ UNCHANGED dirty

-----------------------------------------------------------------------------
(* ioAt *)

\* The piece of the request that lies in the current segment.
PieceOverruns(t) == io[t].left
PieceLen(t) == Min({io[t].left, SegBytes - io[t].pos})

IoBegins(t, op, first, len) ==
    /\ pc[t] = "idle" /\ ~CloseIsPending /\ ~cancelled
    /\ ops < MaxOps /\ ops' = ops + 1
    /\ io' = [io EXCEPT ![t] = [op |-> op, first |-> first, len |-> len,
                                seg |-> first \div SegBytes, pos |-> first % SegBytes,
                                left |-> len, tries |-> 0]]
    /\ Goto(t, "piece")
    /\ UNCHANGED <<segVars, lru, touched, capVars, flushVars, dueVars, cancelled>>

\* segID >= maxSegID; a request that begins behind the device ends here too.
IoPastEnd(t) ==
    /\ pc[t] = "piece" /\ io[t].seg >= NSeg
    /\ Goto(t, "eof")
    /\ UNCHANGED <<segVars, ioVars, capVars, flushVars, dueVars, cancelled>>

\* The piece is done: on to the next segment, from its first byte.
NextOffsetKept(t) == io[t].pos
NextOffset(t) == 0
Advance(t) ==
    LET n == PieceLen(t)
        s == io[t].seg IN
    /\ touched' = [touched EXCEPT ![t] =
                     @ \cup {<<s, b>> : b \in io[t].pos .. io[t].pos + n - 1}]
    /\ io' = [io EXCEPT ![t] = [op |-> io[t].op, first |-> io[t].first, len |-> io[t].len,
                                seg |-> s + 1, pos |-> NextOffset(t),
                                left |-> io[t].left - n, tries |-> 0]]
    /\ rival' = [rival EXCEPT ![t] = FALSE]
    /\ Goto(t, IF io[t].left = n THEN "ok" ELSE "piece")
    /\ UNCHANGED <<lru, ops>>

\* WriteAt: the file and the mark.
WriteDone(s, t) ==
    /\ dirty' = IF io[t].op = "write" THEN [dirty EXCEPT ![s] = TRUE] ELSE dirty
    /\ UNCHANGED <<due, covers>>

\* The segment is cached: a read shares fileMu, a write takes it.
IoAccess(t) ==
    LET s == io[t].seg IN
    /\ pc[t] = "piece" /\ s \in Seg /\ backed[s]
    /\ fileW[s] = None /\ (io[t].op = "write" => fileR[s] = {})
    /\ WriteDone(s, t) /\ Advance(t)
    /\ UNCHANGED <<backed, item, fileW, fileR, itemW, free, leaked, flushVars, cancelled>>

\* loadFile locks the file of a segment that is not cached ...
LoadLocks(t) ==
    LET s == io[t].seg IN
    /\ pc[t] = "piece" /\ s \in Seg /\ ~backed[s] /\ FileIsFree(s)
    /\ fileW' = [fileW EXCEPT ![s] = t]
    /\ Goto(t, "load")
    /\ UNCHANGED <<backed, dirty, item, fileR, itemW, ioVars, capVars, flushVars, dueVars, cancelled>>

\* ... and, holding it, waits for itemMu, which an upload from a buffer may still
\* have.  Nobody else waits for itemMu without fileMu: the read lock is implied.
LoadsFile(t) == pc[t] = "load" /\ itemW[io[t].seg] = None

\* A read of a segment that was never stored is a read of zeros.
IoReadsZeros(t) ==
    /\ LoadsFile(t) /\ io[t].op = "read" /\ ~item[io[t].seg]
    /\ UnlockFile(io[t].seg) /\ Advance(t)
    /\ UNCHANGED <<backed, dirty, item, fileR, itemW, free, leaked, flushVars, dueVars, cancelled>>

\* Capacity changed hands: everyone else's search may be out of date.
Moved(t) == rival' = [u \in IO |-> rival[u] \/ u # t]

\* claimCapacity does not wait.
IoClaims(t) ==
    LET s == io[t].seg IN
    /\ LoadsFile(t) /\ (io[t].op = "write" \/ item[s])
    /\ free > 0 /\ free' = free - 1 /\ Moved(t)
    /\ Goto(t, "fetch")
    /\ UNCHANGED <<segVars, ioVars, leaked, flushVars, dueVars, cancelled>>

\* The quota is used up: errCapacityClaim, at most MaxCapTries times.
IoRefused(t) ==
    LET s == io[t].seg IN
    /\ LoadsFile(t) /\ (io[t].op = "write" \/ item[s])
    /\ free = 0 /\ UnlockFile(s)
    /\ Goto(t, IF io[t].tries < MaxCapTries THEN "scan" ELSE "starved")
    /\ lru' = [lru EXCEPT ![t] = NoScan]
    /\ rival' = [rival EXCEPT ![t] = @ \/ \E u \in IO \ {t} : pc[u] \in {"fetch", "release"}]
    /\ UNCHANGED <<backed, dirty, item, fileR, itemW, io, ops, touched, free, leaked, flushVars,
                   dueVars, cancelled>>

\* createFile or downloadFile succeeds; the access happens under the same lock.
IoLoaded(t) ==
    LET s == io[t].seg IN
    /\ pc[t] = "fetch"
    /\ backed' = [backed EXCEPT ![s] = TRUE] /\ UnlockFile(s)
    /\ WriteDone(s, t) /\ Advance(t)
    /\ UNCHANGED <<item, fileR, itemW, free, leaked, flushVars, cancelled>>

\* downloadFile gives its unit back when it fails, createFile does not.
IoLoadFails(t) ==
    LET s == io[t].seg IN
    /\ pc[t] = "fetch"
    /\ IF item[s] THEN "download" \in Fault /\ free' = free + 1 /\ UNCHANGED leaked
       ELSE "create" \in Fault /\ leaked' = leaked + 1 /\ UNCHANGED free
    /\ Moved(t)
    /\ UnlockFile(s)
    /\ Goto(t, "failed")
    /\ UNCHANGED <<backed, dirty, item, fileR, itemW, ioVars, flushVars, dueVars, cancelled>>

IoReturns(t) ==
    /\ pc[t] \in {"ok", "eof", "starved", "failed"}
    /\ Goto(t, "idle")
    /\ io' = [io EXCEPT ![t] = NoRequest] /\ lru' = [lru EXCEPT ![t] = NoScan]
    /\ touched' = [touched EXCEPT ![t] = {}] /\ rival' = [rival EXCEPT ![t] = FALSE]
    /\ UNCHANGED <<segVars, ops, free, leaked, flushVars, dueVars, cancelled>>

-----------------------------------------------------------------------------
(* removeLeastRecentUsed *)

\* One segment of the scan.  Which of two candidates has the older LastOp is
\* module LeastRecent's subject; here either may.
LooksAtClean(t) == lru[t].i # io[t].seg /\ backed[lru[t].i] /\ ~dirty[lru[t].i]
LooksAt(t) == lru[t].i # io[t].seg /\ backed[lru[t].i]
Scan(t) ==
    LET s == lru[t].i
        best == IF dirty[s] THEN lru[t].stale ELSE lru[t].clean IN
    /\ pc[t] = "scan" /\ s < NSeg
    /\ \E taken \in BOOLEAN :
         /\ taken => LooksAt(t)
         /\ LooksAt(t) /\ best = None => taken
         /\ lru' = [lru EXCEPT ![t] =
                      [i |-> s + 1, tries |-> lru[t].tries,
                       clean |-> IF taken /\ ~dirty[s] THEN s ELSE lru[t].clean,
                       stale |-> IF taken /\ dirty[s] THEN s ELSE lru[t].stale]]
    /\ UNCHANGED <<segVars, io, ops, touched, capVars, flushVars, dueVars, cancelled, pc>>

\* A clean segment is preferred.
Victim(t) == IF lru[t].clean # None THEN lru[t].clean ELSE lru[t].stale

\* The victim must still be cached, and not used since it was looked at unless
\* the tries are up; then it is evicted, else the scan starts again.
Choose(t) ==
    LET v == Victim(t) IN
    /\ pc[t] = "scan" /\ lru[t].i = NSeg
    /\ \/ /\ v = None                                   \* "none are backed"
          /\ Goto(t, "starved") /\ lru' = [lru EXCEPT ![t] = NoScan]
       \/ /\ v # None /\ backed[v]
          /\ Goto(t, "evict") /\ lru' = [lru EXCEPT ![t] = [NoScan EXCEPT !.clean = v]]
       \/ /\ v # None /\ (backed[v] => lru[t].tries + 1 < MaxTries)
          /\ lru' = [lru EXCEPT ![t] = [NoScan EXCEPT !.tries = Min({lru[t].tries + 1, MaxTries})]]
          /\ UNCHANGED pc
    /\ UNCHANGED <<segVars, io, ops, touched, capVars, flushVars, dueVars, cancelled>>

\* ioAt tries the segment again.
Retries(t) ==
    /\ Goto(t, "piece") /\ lru' = [lru EXCEPT ![t] = NoScan]
    /\ io' = [io EXCEPT ![t].tries = @ + 1]

\* DeleteFile: someone else was faster ...
EvictNothing(t) ==
    LET v == Victim(t) IN
    /\ pc[t] = "evict" /\ FileIsFree(v) /\ ~backed[v]
    /\ Retries(t)
    /\ UNCHANGED <<segVars, ops, touched, capVars, flushVars, dueVars, cancelled>>

\* ... or the file is locked, and uploaded first if it is dirty ...
EvictLocks(t) ==
    LET v == Victim(t) IN
    /\ pc[t] = "evict" /\ FileIsFree(v) /\ backed[v]
    /\ fileW' = [fileW EXCEPT ![v] = t]
    /\ Goto(t, IF dirty[v] THEN "sync" ELSE "remove")
    /\ UNCHANGED <<backed, dirty, item, fileR, itemW, ioVars, capVars, flushVars, dueVars, cancelled>>

\* ... once an upload from a buffer, which needs no file, has given itemMu back.
EvictUploads(t) ==
    /\ pc[t] = "sync"
    /\ UploadBegins(Victim(t), t)
    /\ Goto(t, "upload")
    /\ UNCHANGED <<backed, item, fileW, fileR, ioVars, capVars, flushVars, cancelled>>

EvictUploaded(t) ==
    /\ pc[t] = "upload"
    /\ UploadEnds(Victim(t), t, TRUE) /\ Goto(t, "remove")
    /\ UNCHANGED <<backed, fileW, fileR, ioVars, capVars, flushVars, cancelled>>

EvictUploadFails(t) ==
    /\ pc[t] = "upload" /\ "upload" \in Fault
    /\ UploadEnds(Victim(t), t, FALSE)
    /\ UnlockFile(Victim(t))
    /\ Goto(t, "failed")
    /\ UNCHANGED <<backed, fileR, ioVars, capVars, flushVars, cancelled>>

\* removeFile; atomicBacked is cleared before the unit is given back.
EvictRemoves(t) ==
    /\ pc[t] = "remove"
    /\ backed' = [backed EXCEPT ![Victim(t)] = FALSE] /\ Moved(t)
    /\ Goto(t, "release")
    /\ UNCHANGED <<dirty, item, fileW, fileR, itemW, ioVars, free, leaked, flushVars, dueVars, cancelled>>

ReleasesNothing == free
ReleasesTwice == free + 2
Releases == free + 1
EvictReleases(t) ==
    /\ pc[t] = "release"
    /\ free' = Releases /\ Moved(t)
    /\ UnlockFile(Victim(t))
    /\ Retries(t)
    /\ UNCHANGED <<backed, dirty, item, fileR, itemW, ops, touched, leaked, flushVars, dueVars, cancelled>>
-----------------------------------------------------------------------------
(* flush *)

\* The list is what is dirty now; with nothing to do flush returns at once.
FlushStarts(f) ==
    /\ todo' = [todo EXCEPT ![f] = {s \in Seg : dirty[s]}]
    /\ due' = [due EXCEPT ![f] = {s \in Seg : dirty[s]}]
    /\ UNCHANGED <<work, hasBuf, pool, alloc, err, covers>>

FlushBegins(f) ==
    /\ pc[f] = "idle" /\ ~CloseIsPending /\ ~cancelled
    /\ \E s \in Seg : dirty[s]
    /\ FlushStarts(f) /\ Goto(f, "flush")
    /\ UNCHANGED <<segVars, ioVars, capVars, cancelled>>

Running(f) == {s \in Seg : work[f][s] # "none"}
Work(f, s, l) == work' = [work EXCEPT ![f][s] = l]

\* flushSema has a place for concurFlush goroutines.
SemaOneMore(f) == Cardinality(Running(f)) <= ConcurFlush
SemaHasPlace(f) == Cardinality(Running(f)) < ConcurFlush

\* The loop looks at the mark again, then waits for flushSema.
FlushSpawns(f) ==
    LET s == Min(todo[f]) IN
    /\ pc[f] = "flush" /\ todo[f] # {}
    /\ todo' = [todo EXCEPT ![f] = @ \ {s}]
    /\ IF dirty[s] THEN SemaHasPlace(f) /\ Work(f, s, "start")
       ELSE UNCHANGED work
    /\ UNCHANGED <<segVars, ioVars, capVars, hasBuf, pool, alloc, err, dueVars, cancelled, pc>>

\* getBuf: a buffer that was given back, or a new one within the limit.
GetBuf(f, s) ==
    IF pool[f] > 0
    THEN pool' = [pool EXCEPT ![f] = @ - 1] /\ UNCHANGED alloc /\ hasBuf' = [hasBuf EXCEPT ![f] = @ \cup {s}]
    ELSE IF alloc[f] < MaxBufs
    THEN alloc' = [alloc EXCEPT ![f] = @ + 1] /\ UNCHANGED pool /\ hasBuf' = [hasBuf EXCEPT ![f] = @ \cup {s}]
    ELSE UNCHANGED <<pool, alloc, hasBuf>>

\* segment.Flush returns nil when the mark is gone.
WorkStarts(f, s) ==
    /\ work[f][s] = "start"
    /\ GetBuf(f, s)
    /\ Work(f, s, IF dirty[s] THEN "lock" ELSE "done")
    /\ UNCHANGED <<segVars, ioVars, capVars, todo, err, dueVars, cancelled, pc>>

WorkLocks(f, s) ==
    /\ work[f][s] = "lock" /\ fileW[s] = None
    /\ IF backed[s] THEN fileR' = [fileR EXCEPT ![s] = @ \cup {f}] /\ Work(f, s, "item") /\ UNCHANGED err
       ELSE err' = [err EXCEPT ![f] = TRUE] /\ Work(f, s, "done") /\ UNCHANGED fileR
    /\ UNCHANGED <<backed, dirty, item, fileW, itemW, ioVars, capVars, todo, hasBuf, pool, alloc, dueVars, cancelled, pc>>

\* With a buffer the file is copied and fileMu given back before the upload.
WorkUploads(f, s) ==
    /\ work[f][s] = "item"
    /\ UploadBegins(s, f)
    /\ fileR' = IF s \in hasBuf[f] THEN [fileR EXCEPT ![s] = @ \ {f}] ELSE fileR
    /\ Work(f, s, "upload")
    /\ UNCHANGED <<backed, item, fileW, ioVars, capVars, todo, hasBuf, pool, alloc, err, cancelled, pc>>

KeepsError(f, ok) == UNCHANGED err
SendsError(f, ok) == err' = [err EXCEPT ![f] = @ \/ ~ok]
WorkUploaded(f, s, ok) ==
    /\ work[f][s] = "upload" /\ (ok \/ "upload" \in Fault)
    /\ UploadEnds(s, f, ok) /\ SendsError(f, ok)
    /\ fileR' = [fileR EXCEPT ![s] = @ \ {f}]
    /\ Work(f, s, "done")
    /\ UNCHANGED <<backed, fileW, ioVars, capVars, todo, hasBuf, pool, alloc, cancelled, pc>>

\* freeBuf, which waits for room in bufCh, then flushSema.V.
FreeBuf(f, s) ==
    IF s \in hasBuf[f]
    THEN pool[f] < ConcurFlush /\ pool' = [pool EXCEPT ![f] = @ + 1] /\ hasBuf' = [hasBuf EXCEPT ![f] = @ \ {s}]
    ELSE UNCHANGED <<pool, hasBuf>>
WorkEnds(f, s) ==
    /\ work[f][s] = "done"
    /\ FreeBuf(f, s) /\ Work(f, s, "none")
    /\ UNCHANGED <<segVars, ioVars, capVars, todo, alloc, err, dueVars, cancelled, pc>>

\* pending.Wait() and a look into errCh.
FlushWaited(f) ==
    /\ pc[f] = "flush" /\ todo[f] = {} /\ Running(f) = {}
    /\ Goto(f, IF err[f] THEN "flushErr" ELSE "flushed")
    /\ UNCHANGED <<segVars, ioVars, capVars, flushVars, dueVars, cancelled>>

\* The call's channels and counters are gone.
FlushForgets(f) ==
    /\ pool' = [pool EXCEPT ![f] = 0] /\ alloc' = [alloc EXCEPT ![f] = 0]
    /\ hasBuf' = [hasBuf EXCEPT ![f] = {}]
    /\ err' = [err EXCEPT ![f] = FALSE] /\ due' = [due EXCEPT ![f] = {}]
    /\ UNCHANGED <<todo, work, covers>>

FlushReturns(f) ==
    /\ pc[f] \in {"flushed", "flushErr"}
    /\ FlushForgets(f) /\ Goto(f, "idle")
    /\ UNCHANGED <<segVars, ioVars, capVars, cancelled>>

-----------------------------------------------------------------------------
(* Close *)

CloseWants(c) ==
    /\ pc[c] = "idle" /\ Goto(c, "want")
    /\ UNCHANGED <<segVars, ioVars, capVars, flushVars, dueVars, cancelled>>

\* pendingOpMu.Lock() waits for the operations in flight; a second Close
\* returns nil.
CloseLocks(c) ==
    /\ pc[c] = "want" /\ NoOneInside
    /\ \A d \in Closer \ {c} : pc[d] \in {"idle", "want", "closed", "closeErr"}
    /\ cancelled' = TRUE
    /\ IF cancelled THEN Goto(c, "closed") /\ UNCHANGED <<flushVars, dueVars>>
       ELSE Goto(c, "flush") /\ FlushStarts(c)
    /\ UNCHANGED <<segVars, ioVars, capVars>>

\* The flush worked: without persistCache the cache is deleted.  Nothing else
\* runs, so the deletions are one step.
CloseEmpties(c) ==
    /\ pc[c] = "flushed"
    /\ IF Persist THEN UNCHANGED <<backed, free>>
       ELSE /\ backed' = [s \in Seg |-> FALSE]
            /\ free' = free + Cardinality({s \in Seg : backed[s]})
    /\ FlushForgets(c) /\ Goto(c, "closed")
    /\ UNCHANGED <<dirty, item, fileW, fileR, itemW, ioVars, leaked, rival, cancelled>>

\* The flush failed: "local cache will be preserved".
CloseFails(c) ==
    /\ pc[c] = "flushErr"
    /\ FlushForgets(c) /\ Goto(c, "closeErr")
    /\ UNCHANGED <<segVars, ioVars, capVars, cancelled>>

-----------------------------------------------------------------------------
IoContinues(t) ==
    \/ IoPastEnd(t) \/ IoAccess(t) \/ LoadLocks(t) \/ IoReadsZeros(t) \/ IoClaims(t) \/ IoRefused(t)
    \/ IoLoaded(t) \/ IoLoadFails(t) \/ IoReturns(t)
    \/ Scan(t) \/ Choose(t) \/ EvictNothing(t) \/ EvictLocks(t) \/ EvictUploads(t)
    \/ EvictUploaded(t) \/ EvictUploadFails(t) \/ EvictRemoves(t) \/ EvictReleases(t)
WorkContinues(f, s) ==
    \/ WorkStarts(f, s) \/ WorkLocks(f, s) \/ WorkUploads(f, s)
    \/ \E ok \in BOOLEAN : WorkUploaded(f, s, ok)
    \/ WorkEnds(f, s)
FlushContinues(f) ==
    \/ FlushSpawns(f) \/ FlushWaited(f)
    \/ (f \in Flusher /\ FlushReturns(f))
    \/ (f \in Closer /\ (CloseLocks(f) \/ CloseEmpties(f) \/ CloseFails(f)))

Begins ==
    \/ \E t \in IO, r \in Request : IoBegins(t, r[1], r[2], r[3])
    \/ \E f \in Flusher : FlushBegins(f)
    \/ \E c \in Closer : CloseWants(c)
Continues ==
    \/ \E t \in IO : IoContinues(t)
    \/ \E f \in Syncer : FlushContinues(f) \/ \E s \in Seg : WorkContinues(f, s)

Next == Begins \/ Continues

Spec == Init /\ [][Next]_vars

-----------------------------------------------------------------------------
(* Properties *)

TypeOK ==
    /\ backed \in [Seg -> BOOLEAN] /\ dirty \in [Seg -> BOOLEAN] /\ item \in [Seg -> BOOLEAN]
    /\ fileW \in [Seg -> IO \cup {None}] /\ fileR \in [Seg -> SUBSET Syncer]
    /\ itemW \in [Seg -> Thread \cup {None}]
    /\ free \in 0 .. Quota /\ leaked \in 0 .. Quota /\ cancelled \in BOOLEAN
    /\ \A t \in IO : /\ io[t].pos \in 0 .. SegBytes - 1 /\ io[t].left \in Nat
                     /\ io[t].tries \in 0 .. MaxCapTries
                     /\ lru[t].i \in 0 .. NSeg /\ lru[t].tries \in 0 .. MaxTries
    /\ todo \in [Syncer -> SUBSET Seg] /\ hasBuf \in [Syncer -> SUBSET Seg]
    /\ pool \in [Syncer -> 0 .. ConcurFlush] /\ alloc \in [Syncer -> 0 .. MaxBufs]

At(l) == {t \in IO : pc[t] = l}

\* Every unit of the quota is free, or held by a cached segment, by a load that
\* runs, or by an eviction between clearing the mark and giving the unit back;
\* only createFile's failures lose one.
QuotaAccounted ==
    free + Cardinality({s \in Seg : backed[s]}) + Cardinality(At("fetch"))
         + Cardinality(At("release")) + leaked = Quota

\* A request fails for want of capacity ("none are backed", or the last of its
\* tries refused) only if another goroutine took or gave back capacity while it
\* searched: alone, one eviction is enough.
OnlyRivalsStarve == \A t \in IO : pc[t] = "starved" /\ leaked = 0 => rival[t]

\* When flush returns nil, in Flush or in Close, every segment that was marked dirty
\* when it began has been uploaded since, or another goroutine is at it or was told
\* that it failed.  A write that has no mark, since an upload that failed or one that
\* still runs has cleared it, is not promised anything.
FlushCommits == \A f \in Syncer : pc[f] = "flushed" => \A s \in due[f] : itemW[s] # None

\* A goroutine that gives its upload buffer back never waits for room in bufCh:
\* it would hold its place in flushSema for ever.
BufferHasRoom == \A f \in Syncer : pool[f] + Cardinality(hasBuf[f]) <= ConcurFlush

\* A request that succeeds has transferred exactly its bytes, one that ends with
\* EOF those of them that lie in a segment, whatever was evicted in between.
TransfersRange ==
    \A t \in IO : LET asked == {<<b \div SegBytes, b % SegBytes>> :
                                    b \in io[t].first .. io[t].first + io[t].len - 1} IN
        /\ pc[t] = "ok" => touched[t] = asked
        /\ pc[t] = "eof" => touched[t] = asked \cap (Seg \X Nat)

\* A cache file is deleted, by an eviction or by Close, only when it holds no write
\* that was not taken for an upload and nobody copies or uploads from it, although
\* writes go on until the file is locked and flushes come and go.
DeletesUnused == \A s \in Seg : backed[s] /\ ~backed'[s] => ~dirty[s] /\ fileR[s] = {}
RemovesOnlyClean == [][DeletesUnused]_vars

\* The locks, flushSema, bufCh and pendingOpMu never make everyone wait: while an
\* operation runs, one can go on.  A behaviour has finitely many steps between
\* two requests, so every operation returns.
Busy == \E t \in Thread : pc[t] \notin {"idle", "closed", "closeErr"}
NeverStuck == Busy => ENABLED Continues

\* What each goroutine has to wait for: fileMu, itemMu, flushSema, room in bufCh, the
\* goroutines of its flush, pendingOpMu.
IoReady(t) ==
    LET s == io[t].seg
        v == Victim(t) IN
    \/ pc[t] \in {"fetch", "ok", "eof", "starved", "failed", "scan", "upload", "remove", "release"}
    \/ pc[t] = "piece" /\ s >= NSeg
    \/ pc[t] = "piece" /\ backed[s] /\ fileW[s] = None /\ (io[t].op = "write" => fileR[s] = {})
    \/ pc[t] = "piece" /\ s < NSeg /\ ~backed[s] /\ FileIsFree(s)
    \/ LoadsFile(t)
    \/ pc[t] = "evict" /\ FileIsFree(v)
    \/ pc[t] = "sync" /\ itemW[v] = None
WorkReady(f, s) ==
    \/ work[f][s] \in {"start", "upload"}
    \/ work[f][s] = "lock" /\ fileW[s] = None
    \/ work[f][s] = "item" /\ itemW[s] = None
    \/ work[f][s] = "done" /\ (s \in hasBuf[f] => pool[f] < ConcurFlush)
SyncReady(f) ==
    \/ pc[f] = "flush" /\ todo[f] # {} /\ (dirty[Min(todo[f])] => SemaHasPlace(f))
    \/ pc[f] = "flush" /\ todo[f] = {} /\ Running(f) = {}
    \/ pc[f] \in {"flushed", "flushErr"}
    \/ pc[f] = "want" /\ NoOneInside /\ \A d \in Closer \ {f} : pc[d] \notin {"flush", "flushed", "flushErr"}
SomeoneReady ==
    \/ \E t \in IO : IoReady(t)
    \/ \E f \in Syncer : SyncReady(f) \/ \E s \in Seg : WorkReady(f, s)

\* While an operation runs, some goroutine has nothing to wait for.
AlwaysReady == Busy => SomeoneReady

\* Who is ready can take a step.
ReadyCanStep == SomeoneReady => ENABLED Continues
=============================================================================
