# A TLA+ model of usbd

usbd serves block devices from user space. The Linux NBD driver sends requests
over a socket; `pkg/usbdlib` decodes them, executes them against a `Device` and
writes the replies; `pkg/devices` implements devices: a RAM disk, a file, a
deduplicating disk, and a disk whose contents live in a remote object store with
a local cache. This directory holds TLA+ models of the concurrent and failing parts of
that program, TLC configurations that check them on small instances, and TLAPS proofs of
nearly all their safety properties, and of the absence of deadlock, for every size.

## Inventory

| Component | State | Operations | Interacts with | What is hard |
|---|---|---|---|---|
| Request processor (`usbdlib/reqproc.go`, `req.go`, `resp.go`) | two object pools, `reqQueue`, `respQueue`, the current flush mutex, a cancellable context | decode and queue, execute, reply, shut down | the kernel's stream, the `Device` | many goroutines share pooled objects and bounded channels; flushes must follow writes that other workers run; shutdown at any moment |
| Object-store segment (`objstore/segment.go`, `storeparams.go`) | cache file, remote item, eTag file, dirty and backed marks, a quota unit | ReadAt, WriteAt, Flush, DeleteFile | the stow container, the file system, the quota semaphore | two locks, uploads that overlap with writes, eviction, faults, crash and restart |
| Sparse copy (`storeparams.go`) | file offset, buffered writer, pending zeros | copy one object | bufio, the file | seeks and buffered writes on one file, boundaries |
| Object-store device (`objstore/device.go`, `options.go`) | the segments, the quota, `pendingOpMu`, the context | ReadAt, WriteAt, Flush, Close, flushWorker, LRU eviction | its segments | retries under a small quota, flush fan-out with few buffers, eviction order, Close from two sides |
| Deduplicating device (`dedupdisk/`, `impls/`) | LUN map, ID store, block file, `optMu` | ReadAt, WriteAt, Flush, Close, reopen | mmap, Pebble, the file | races of equal writes, reads without a lock, nested read locks, restart |
| NBD stream (`nbdstrm.go`) | socket pair, device file, context, `errCh`, two wait groups | set up, Close, ProcessRequests | kernel, processor, device | tear-down from the kernel, from Close and from a signal; two goroutines close the device |
| NBD kernel interface (`nbdkern_linux.go`, `nbdutil_linux.go`, `dev.go`) | none of its own | ioctl numbers, module loading, choice of a node | sysfs | each step of the set-up may fail |
| Compressing and encrypting containers (`objstore/compress`, `encrypt`, `stowutil.go`) | the configured modes, the object's metadata | Put, Items, Item, Size, Open | the store, pipes, codecs | a goroutine per layer, a source or a store that fails half-way, objects stored under other modes |
| LZ4 block store (`impls/lz4blkstore.go`, `lz4.c`) | | not constructed by any program | | |
| RAM disk, file disk | a slice, a file | ReadAt, WriteAt, Flush, Close | | bounds |
| Utilities (`pkg/util`) | none | IsZeros, ZeroFill, stream adapters | | |
| `cmd/usbdsrvd`, test suites | configuration | wiring | | |

What makes each correct: a reply belongs to its request and a request is answered
once; a device flush covers the writes before it; shutdown ends; a segment or a
block reads as what was last written to it; what a flush covered survives; the
quota counts what is cached; a request transfers exactly its bytes although segments
come and go; what is stored is whole and reads back under any mode; a stream that
is closed has released everything; nobody waits for ever.

## Modules

`ReqProcessor` - the reader, the I/O workers, the writer and `processRequests` as
processes with program counters (`rdPc`, `wPc`, `wrPc`, `mainPc`). A request is known by its
handle, the h-th one decoded has handle h; the contents of pooled objects
(`reqObj`, `respObj`) are records, so that an object used after it was recycled
shows another request's fields. A read buffer is the handle it was last sized
for. A flush mutex is a number, and `rlocks` holds who read-locked which.
`processRequests` is only ever called with `context.Background()`, so the context
is cancelled by the reader alone; the tests of `ctx.Err()` in the reader can
then only see its own cancellation and are not separate steps. The writer's test
after `resp.Write` reads an `err` that is never set there: a write may fail at any
time (and does on a stream that is closed), its error is silently dropped and the writer
goes on. The ghost `lost` keeps the handles of such replies, so that `EachRequestOnce` and
`EveryRequestAnswered` account for every request and except none. `LockLost` says that a misaligned
write has left its read lock behind (see below); the liveness properties except it.

`Segment` - one segment with its two RW mutexes, its marks, its quota unit, and
the things that outlive the process: cache file, eTag file, remote object. Each
lock acquisition, file operation and store call is a step of its own, so other
goroutines run in between. The contents are a single value: a write replaces it,
which is the case in which a lost or stale copy shows. An eTag is the value it
was computed from. `Restart` keeps only disk and store, and takes what they hold for the last
write from then on: `ReadsLastWrite` says nothing of what a crash loses, which is what
`FlushedSurvives` and `DurableCell` are about. A download copies the object as it is: the
byte that `sparseCopy` adds to an object that does not end in a zero (`storeparams.go:313`) is
in `SparseCopy`, and that a buffered flush of such a file is refused at `storeparams.go:239`,
with the mark already cleared, in `SparseCopyExtra.cfg`. A failed download claims
and releases its unit in one step, since fileMu is held throughout, and the path of a remote
object of size 0 is left out. `ClaimRefused` stands for
the other segments of the device, which may hold the rest of the quota. The ghost
`dropped` records that a write of zeros was skipped although the segment was not
empty; `ReadsLastWrite` is about everything else.

`DurableCell` - what one region of a block device promises: a read returns the
last write, a flush makes it survive, a crash returns to something that was
flushed or written later. `Segment` is shown to implement it (`IsDurableCell`) with
the contents mapped to what the next read returns (`Visible`).

`SparseCopy` - `sparseCopy` one byte at a time, with the file, its offset and the
`bufio.Writer` in front of it. `CopyOf` is the whole result: the source, with a zero added to
one that does not end in a zero.

`DedupDisk` - LUN map, ID store and block file, writers and readers under the
read lock of `optMu` (with the nested lock of a write of several blocks), Close and
reopening. The lookup in the index, the write of the block and the new index entry may each
fail; after a failure the block keeps its old contents and a longer write goes on with
its next one. Equal contents have equal hashes; different ones differ (SHA-1
collisions are not modelled). A sync.RWMutex blocks new readers while a
writer waits, which is what `RLock` says.

`ObjStoreDevice` - several segments behind one quota: `ioAt` with its pieces and its
tries, `removeLeastRecentUsed`, `flush` with its goroutines, `flushSema`, `bufCh` and
`errCh`, `flushWorker` as one more caller of Flush, and Close by two callers (the
request processor and the NBD stream both call it). A segment is its marks, its two
locks and its remote item. Locks are taken one at a time: a load and an eviction hold
fileMu while they wait for itemMu, which an upload from a buffer keeps after it gave fileMu
back. What happens to the contents of a segment is `Segment`. `FlushCommits` is about what
the flush found marked dirty: a write whose mark an upload has cleared that failed, or
still runs, is promised nothing, as in the code. Any cached segment that
is not excepted may be the least recently used: the order by time is `LeastRecent`.

`LeastRecent` - reads, writes and evictions with their times: whom
`removeLeastRecentUsed` takes, with `LastOp` as written.

`Container` - compression over encryption over a store. A Put starts one goroutine per
layer that changes the stream; the stages pass pieces along pipes and each ends its
output with EOF or an error. Stored data is the contents with the list of
transformations it went through, and the metadata says which; `Items` undoes what the
metadata says, while the item that Put returns is the store's own. `Reopen` is
the device opened with other modes.

`NbdStream` - one stream from the choice of a node (`MakeNbdDev`, `UseNbdDev`, loading the
module) through the steps of `setupSycalls` to its end: the worker in the "do it" ioctl,
the worker that scans the partitions and cleans up, the callers of `NewNbdHandler` and
Close, and the processor at the other end of the socket, of which the reading, draining
and closing are kept (its inside is `ReqProcessor`). Every system call may fail, those that
close the device file and the sockets included; `SecondCloseErrs` says whether a second Close
of the device may be, or must be, an error. The kernel is external: it serves
until it is told to disconnect or stops by itself, and then sends a disconnect request.

How they compose: `ReqProcessor` assumes a device that answers; `ObjStoreDevice` is one,
made of cells that `Segment` shows to be a `DurableCell`; `Segment` assumes a store that
gives back what was put, which is `Container`; `NbdStream` gives the processor its stream
and takes its end.

`MC*` modules give constants to TLC. Each module that waits for something says so a second
time without time or ENABLED: `...Ready` predicates name what each goroutine has to wait for,
`NeverStuck` (`AlwaysReady`, `PutNeverStuck`, `ShutdownNeverStuck`) that somebody
has nothing to wait for, and `ReadyCanStep` ties the predicates to the actions. The theorems about a module are in the module of
the same name with `Proofs`; those about the replies of the request processor are in
`ReqProcessorReplies`, which extends `ReqProcessorProofs`.

## Runs

| Run | Configuration | States | Result |
|---|---|---|---|
| reqproc | 2 workers, one of each way through the processor, queues of 1, 2 requests, device errors, failing writes of replies, fair | 466 000 | pass: pooled objects have one owner, every request is in one place and its reply its own, read locks held when used, flushes cover their epoch, the reader never waits for a flush, the device is closed last; every request is answered or the write of its reply failed, and shutdown ends every goroutine, unless a lock was lost |
| segment | 2 readers/writers (zeros too), 2 flushes (with and without a buffer), 1 eviction, Close, crashes, failing downloads, fair | 40 000 | pass: reads see the last write that was not skipped, a clean segment is committed, the quota is exact, every operation returns |
| segment_durable | 2 readers/writers, 1 flush, Close, crash at any point | | pass: implements `DurableCell`, what a flush covered survives |
| segment_faults | persistent cache, every fault, crashes, no eviction | | pass: reads see the last write |
| sparse_copy | all sources up to 8 bytes, holes from 2 zeros, buffer of 2 | 4 600 | pass: the copy is the source, but for the zero added to one that does not end in a zero |
| objdev | 3 segments of 2 bytes, quota 2, 2 requests (across a boundary, past the end), 1 flush, 2 callers of Close, two buffers and one place in `flushSema`, one retry, failing creates, downloads and uploads | 289 000 | pass: the quota adds up, a request starves only because of a rival, a flush that returns nil has uploaded what it found marked, a buffer always has room to go back, requests transfer exactly their bytes, somebody can always go on |
| container | 2 contents of 2 pieces, 4 modes each (one unknown name), 3 Puts, reopening, failing source and store, fair | 52 000 | pass: what is stored is whole, a listed item reads back under any modes, Put returns |
| dedup | 2 writers, 1 reader, 2 blocks, equal, different and zero contents, writes of one and two blocks, failing block file, index lookup and index entry | 2 031 000 | pass: reads see the last write, the index is right, written blocks do not change |
| dedup_live | 2 writers with writes of one and of two blocks, 1 reader, failing lookups, two openings, fair | 317 000 | pass: Close gets its lock once no write under way has a further block to come |
| nbdstream | 2 nodes, any of them usable, a name given or none, every call failing (`NBD_CLEAR_SOCK` and the closes too), a second Close of the device an error or not, the kernel stopping, Close, a signal, fair | 27 000 | pass: no stream without its scan, a Close that returns nil has released everything and hides no failure, the stream ends unless the kernel is still served after a failed scan or `NBD_CLEAR_SOCK` |
| dedup_reopen | one writer, two openings | | violation of `BlocksAreImmutable` |
| container_item | as `container` | | violation of `ItemReadsBack` |

Bounds. With two workers and queues of one each queue is full at times, a pooled object
is reused and two requests overtake each other. Two requests do not fill both queues
beside a busy worker: three do, in `MCReqProcessorReady.cfg`, and `AnsweredOnce` and
`SomeoneGoesOn` are proved for any numbers. As many objects as requests means that a pool is
never the limit, as with `sync.Pool`. One segment is enough for everything a
segment does by itself, and two values beside zero tell a lost write from a
stale one. In `sparse_copy` the two sizes are scaled from 4096 to 2; what matters
is on which side of them a run or a buffer ends. Three blocks in the dedup
store let both writers store the same contents and one more. Three segments and a
quota of two in `objdev` are the smallest with a segment to evict that is not the one
being loaded; with two requests one can take what the other freed, and with one retry
the limit of ten tries is reached. There are more buffers to allocate (two) than
room in `bufCh` and places in `flushSema` (one), so that it is `flushSema` that keeps a buffer from
having nowhere to go. Bytes
beyond the boundary of a segment and beyond the device are what `TransfersRange` needs.
Two pieces and three stages in `container` let a source fail between two pieces while
the layers hold different ones. A stream has no sizes: `nbdstream` is complete for two
nodes. `segment_durable`
leaves out a second flush, evictions and zero writes, and `segment_faults` evictions, because
of the disagreements below.

Deadlock is checked except where the system really may stop: in `reqproc` a misaligned
write blocks the flush behind it, in `dedup` and `dedup_live` a nested read lock blocks Close (both below),
and `objdev`, `container` and `nbdstream` end when the device is closed or the bound on
requests is reached. `NeverStuck` of `objdev` says instead that while an operation
runs some goroutine can go on.

Fairness. Goroutines that can run do, device calls return, and the closing of
the stream ends; the kernel need not send anything, and nobody has to start an
operation. For `Segment` the steps of an operation are strongly fair: its lock
waits are on `sync.RWMutex`, which admits a waiting writer before later readers. In
`Container` the stages of a Put run, and no source or store has to fail. In `NbdStream`
the program's goroutines run, and the kernel returns from the "do it" ioctl once it has stopped
serving; it need not stop by itself, and nothing is assumed of signals or of who calls
Close. `StreamEnds` excepts what the code cannot end: a kernel that still serves
(`StillServed`) although the partition scan failed, after which nobody tells it to
disconnect (`nbdstrm.go:142`), or although `NBD_CLEAR_SOCK`, the last of the three ioctls, failed
too (`nbdstrm.go:159`). The cleanup then waits at `wgDone`; a caller of Close returns even so, because
the failure is in `errCh`. `ObjStoreDevice` states no
fairness: its retries and evictions are bounded, so `NeverStuck` is enough.

Five further configurations pass; they check what the deadlock proofs below are about, on
instances like those of the runs (`tlc -config X.cfg Module`):

| Configuration | Module | Checks | States |
|---|---|---|---|
| `MCReqProcessorReady.cfg` | `MCReqProcessor` | `FlushWaitsForWorkers`, `NeverStuck`, `ReadyCanStep` | 2 592 000 |
| `MCSegmentReady.cfg` | `MCSegment` | `NeverStuck`, `ReadyCanStep`, `StableUnderLock`, with every fault and crashes | 183 000 |
| `MCObjStoreDeviceReady.cfg` | `MCObjStoreDevice` | `AlwaysReady`, `ReadyCanStep`, `RemovesOnlyClean`; requests that cross more segments, so that an eviction waits for itemMu behind an upload | 2 772 000 |
| `ContainerReady.cfg` | `Container` | `PutNeverStuck`, `ReadyCanStep`, `PutShrinks` | 52 000 |
| `MCNbdStreamReady.cfg` | `MCNbdStream` | `ShutdownNeverStuck`, `ReadyCanStep`, `WorkersFinish` | 27 000 |

## Disagreements between the code and what it says

The two violation runs are findings of PROJECT.json:

* `dedup_reopen`: the block store restores `nextID` but not `nextPos`
  (`fileblkstore.go:45`), so blocks are overwritten after a restart.
* `container_item`: `Put` returns the store's own item (`encrypt/stow.go:88`, and the same in
  `compress/stow.go`), which `Segment.Flush` keeps as `remoteItem`: after an eviction the
  next read downloads the stored bytes, compressed and encrypted, as the segment's
  contents. The package says "transparent encryption and decryption" (`encrypt/stow.go:28`).
  The model has no sizes: with compression the test of the downloaded size would usually
  fail first, and the read with it.

Others were met while modelling; each has a configuration that shows it
(`tlc -config X.cfg Module`):

| Configuration | Property | What the code does |
|---|---|---|
| `MCReqProcessorLeak.cfg` | `ShutdownAlwaysCompletes` | A misaligned write is refused (`reqproc.go:196-199`) before its `RUnlock` is deferred (202): a flush behind it, and the shutdown, wait for ever. |
| `MCReqProcessorPrevious.cfg` | `FlushCoversAllPrevious` | `req.go:21-22` says flushes lock "to ensure all previous writes are committed"; each flush starts a new mutex (`reqproc.go:104`), so a later flush does not wait for writes of earlier epochs. |
| `MCReqProcessorPayload.cfg` | `ErrorReplyHasNoPayload` | `resp.go:49` sends the read buffer for a read that failed too. |
| `MCSegmentZero.cfg` | `SkipsOnlyOnEmpty` | `WriteAt` drops zeros when there is no local file, although the contents may be in the remote object (`segment.go:118`; the comment at 114 speaks of an empty segment). |
| `MCSegmentEarly.cfg` | `FlushedSurvives` | A flush returns nil while another is still uploading the data: the mark is cleared before the upload (`segment.go:176`, `197`). |
| `MCSegmentUpload.cfg` | `CleanIsCommitted` | After a failed upload the segment counts as clean (`segment.go:197-198`), and `remoteItem` is nil. |
| `MCSegmentMissing.cfg` | `DirtyHasFile` | An eviction between `Dirty()` and `RLock` makes a flush fail with "missing a backing data file" (`segment.go:176-191`). |
| `MCSegmentCreate.cfg` | `QuotaCountsCachedFile` | `createFile` does not give its claim back when it fails (`storeparams.go:40-69`). |
| `MCSegmentReuse.cfg` | `ReadsLastWrite` | A cache file written after its last upload passes the eTag test after a crash (`storeparams.go:185`), is read, and is lost with the next eviction. |
| `SparseCopyExtra.cfg` | `DownloadCanBeFlushed` | `pendZeros >= 0` always holds (`storeparams.go:313`): a source that ends in a non-zero byte gives a file one byte too long, which a buffered flush refuses (239). |
| `MCDedupDiskNested.cfg` | `CloseAlwaysReturns` | A write of several blocks takes `optMu.RLock` again inside itself (`dedupdisk.go:145`); a Close that waits in between deadlocks both. |
| `ContainerPlain.cfg` | `NeverCiphertext` | A device reopened without encryption hands out the ciphertext as contents: the identity mode wraps nothing and never looks at the metadata. |
| `ContainerLeft.cfg` | `NothingLeft` | When the store fails early nobody closes the pipes' reading ends, and the layers' goroutines stay blocked (`compress/stow.go:63`). |
| `MCNbdStreamUse.cfg` | `OpsEndBeforeClose` | The cleanup worker closes the device (`nbdstrm.go:126`) while requests of the processor still run. |
| `MCNbdStreamFile.cfg` | `QuietShutdown` | The processor and the stream both close the device; a file disk's second Close is an error, while `testutil/suites.go:97-104` expects nil. |
| `MCNbdStreamLeak.cfg` | `FailureLeavesNothing` | A set-up that fails before the workers are started leaves its descriptors open. |
| `LeastRecent.cfg` | `EvictsLeastRecent` | `LastOp` ("the last time a read or write operation took place", `segment.go:238`) returns the earlier of the two times, so a segment just read but never written goes first. |

## Proofs

Every theorem is proved for every value of the constants that the `ASSUME`s of its
module admit: any sets of goroutines, objects, segments, blocks and values, any
capacities, sizes and bounds, any set of faults. A theorem has a hypothesis only where
the code needs it; each hypothesis below is the complement of a disagreement of the
table above, whose configuration shows that the theorem fails without it, except
`StillServed`, which is a kernel that the code has no way left to stop.

| Module | Theorem | Establishes | Hypothesis |
|---|---|---|---|
| `ReqProcessorProofs` | `TypeCorrect` | `TypeOK`, queues within their capacities | |
| | `RequestsOwned` | `RequestsNotShared` | |
| | `FlushCovers` | `FlushCoversEpoch` | |
| `ReqProcessorReplies` | `ResponsesOwned` | `ResponsesNotShared` | |
| | `AnsweredOnce` | `EachRequestOnce` | |
| | `OwnReplies` | `RepliesAreOwn` | |
| | `UpdatesLocked` | `UpdateHoldsLock` | |
| | `ReaderFree` | `ReaderNeverLocksOut` | |
| | `ClosedIdle` | `ClosedWhenIdle` | |
| | `FlushesWaitForWorkers` | `FlushWaitsForWorkers`: a flush waits for no update that is still queued | |
| | `SomeoneGoesOn` | `NeverStuck` | no read lock was lost (`LockLost`, part of the property; `MCReqProcessorLeak`) |
| `SegmentProofs` | `TypeCorrect` | `TypeOK` | |
| | `QuotaCounted` | `QuotaCountsCachedFile` | creating a cache file does not fail (`MCSegmentCreate`) |
| | `CleanCommitted` | `CleanIsCommitted` | `Dependable`: the cache does not outlive the process, fsync and uploads do not fail (`MCSegmentUpload`) |
| | `LastWriteIsRead` | `ReadsLastWrite` | `Dependable` (`MCSegmentReuse`) |
| | `LastWriteIsKept` | `ReadsLastWrite` | `Kept`: persistent cache and no eviction; any faults (`MCSegmentReuse`) |
| | `FlushesSurvive` | `FlushedSurvives` | `SingleFlush`: `Dependable`, at most one flush, no eviction, no zeros written (`MCSegmentEarly`, `MCSegmentZero`) |
| | `Durable` | `IsDurableCell`: `Segment` implements `DurableCell` | `SingleFlush` |
| | `SomeoneGoesOn` | `NeverStuck` | |
| | `Stable` | `StableUnderLock`, an action property | |
| `SparseCopyProofs` | `Copies` | `CopiesSource` | |
| `ObjStoreDeviceProofs` | `TypeCorrect` | `TypeOK` | |
| | `Accounted` | `QuotaAccounted` | |
| | `AloneNeverStarves` | `OnlyRivalsStarve` | |
| | `Commits` | `FlushCommits` | |
| | `RoomForBuffers` | `BufferHasRoom` | |
| | `TransfersExactly` | `TransfersRange` | |
| | `SomeoneGoesOn` | `AlwaysReady` | |
| | `DeletesClean` | `RemovesOnlyClean`, an action property | |
| `ContainerProofs` | `Wholeness` | `StoredIsWhole` | |
| | `Transparent` | `ListedReadsBack` | |
| | `PutGoesOn` | `PutNeverStuck` | |
| | `PutIsBounded` | `PutShrinks`, an action property: every step of a Put lowers `Remaining` | |
| `DedupDiskProofs` | `TypeCorrect` | `TypeOK` | |
| | `LastWriteIsRead`, `IndexRight`, `ReadsStable`, `NeverWaits` | `ReadsLastWrite`, `IndexIsRight`, `ReadsAreStable`, `NeverWaitsForBlock` | in the states of the first opening (`dedup_reopen`) |
| | `Immutable` | `BlocksAreImmutable`, an action property | one opening (`dedup_reopen`) |
| `NbdStreamProofs` | `TypeCorrect` | `TypeOK`, wait groups not below zero | |
| | `Scanned` | `ReadyIsScanned` | |
| | `Released` | `ReleasedWhenClosed` | |
| | `Reported` | `FailureReported` | |
| | `ShutdownGoesOn` | `ShutdownNeverStuck` | the kernel is not still served after a failed scan or `NBD_CLEAR_SOCK` (`StillServed`, part of the property) |
| | `Finishing` | `WorkersFinish`, an action property: no step adds to what the workers have left | |

The hypotheses are satisfiable: the passing runs satisfy them. `SingleFlush` excludes
evictions for the same reason as a second flush: an eviction clears the mark before its
upload, and a flush that runs then finds nothing to do and returns nil.

### The arguments

Each module has an inductive invariant, `Spec => []IInv` (theorem `Inductive`), with one
lemma per conjunct or per action and one step per action or group of actions that
treat the conjunct alike. None of the properties is inductive alone:

* `ReqProcessorProofs`. That a flush gets its mutex says something about writes only if
  every unfinished update still holds a read lock (`UnfinishedIsLocked`), if the updates of
  the epoch locked the mutex that this flush carries (`EpochSharesMutex`), and if the
  flush's object still holds what the reader put there (`InFlightMatch`), which needs the
  ownership of objects (`RequestsNotShared`): the reader decodes only into an object of
  the pool.
* `ReqProcessorReplies` adds `JInv`: a ledger in which each decoded handle has one entry, an
  unexecuted request, a reply that is built, the wire or a write that failed (`Ledger`, which is stated of
  objects, while `EachRequestOnce` is of sets of handles); the read lock of every update not
  yet executed (`LocksHeld`); the mutexes of flushes behind the reader's (`MutexesBehind`);
  that the buffer a read is executed with is the one sized for it (`WorkersRight`), so that
  a reply is right when it is built and stays so (`BuiltRight`); and the order in which
  the goroutines stop (`StopsInOrder`).
* `SegmentProofs`. `LInv` says what each program counter holds: which locks, and what is
  known of the file under them (`Roles`, `FileLock`, `ItemLock`, `Known`). `Committed` adds that an
  upload of a segment nobody wrote since carries what the file holds; `NeverEvicted` that
  an open file stays open; `Promises` what a running flush will have promised. `Durable`
  is the step simulation: with `Visible` as the contents of the cell, a step of `Segment` is
  a read, write, flush or crash of `DurableCell` or leaves its variables alone.
* `SparseCopyProofs`. `Holds(st, m)`: file, hole and buffer are the first m bytes of the
  source, so that the finished file is `CopyOf` of it. It is stated of a state as a record because a step may flush, seek and buffer
  in one; there is a lemma for each of `Flushed`, the buffered write and the seek. Bytes are
  zero or not zero, which is all the code looks at.
* `ObjStoreDeviceProofs`. `Owners`: who loads or evicts a segment holds its lock, so two
  goroutines never account for one unit. `Workers`: a goroutine of a flush that has a buffer
  runs, and at most `ConcurFlush` run, so the channel of that capacity has room. `Debts`: a
  segment that was dirty when a flush began is dirty and still to come, or being
  uploaded by somebody who knows of it, or the flush has an error. `Searches`: while nobody
  else moves capacity there is a cached segment ahead of the scan or already
  chosen, which needs `QuotaAccounted` (no free unit means that some segment is cached) and
  the finite set of goroutines. `Ranges`: what was transferred is the bytes before the
  position, in terms of \div and % by the segment size. `Alone`: Close runs after everyone
  else.
* `ContainerProofs`. `StagesInOrder`: no stage is ahead of the one before it, and one that
  ended with EOF had the whole stream. `HeaderTells`: the metadata names exactly the
  transformations the stored bytes went through.
* `DedupDiskProofs`. `FirstOpening`: whatever the index, the LUN map, a writer or a reader
  refers to is completely written (`IndexHolds`, `MapHolds`, `WritersHold`, `ReadsHold`), two
  writers never have the same place (`OwnPlaces`), and behind the last ID nothing is
  written (`Unwritten`: `nextPos = nextID`, which reopening breaks).
* `NbdStreamProofs`. How far each goroutine is bounds the others (`Phases`), the wait group
  counts those not done (`WgDoneCounts`), a failed scan stays in `errCh` until `NewNbdHandler`
  has looked (`ScanErrorKept`), and `CleanedUp` says what each step of the cleanup has
  released. `Reported` adds `ErrorsKept`: a failure is in `errCh`, or with one of its receivers,
  or with the processor's caller.

### Deadlock and termination

Liveness itself is outside the prover. What a liveness property rests on is not: that
somebody can always go on, and, where a measure exists, that every step leaves less
to do. `PutGoesOn` with `PutIsBounded` is `PutReturns` but for the fairness that lets a ready stage
run, and `ShutdownGoesOn` with `Finishing` is the cleanup part of `StreamEnds` in the same sense.
`SomeoneGoesOn` of the other modules is the absence of deadlock behind `ShutdownCompletes`,
`OperationsReturn` and the `NeverStuck` of `objdev`. `CloseReturns` of `DedupDisk` is model-checked only.

* `ReqProcessorReplies`. `KInv`: handles in `reqQueue` rise, and what workers hold is older than
  what is queued (`QueueInOrder`); every read lock is of an update not yet executed, or
  lost (`LocksOwned`); an update decoded after a flush has a later mutex (`MutexesRise`); the
  order of the shutdown (`ShutdownOrder`). So the holder of a lock a flush waits for is older
  than the flush, hence not queued, hence with a worker that does not wait for a mutex.
  If all the workers wait otherwise they wait for `respQueue`, whose writer waits for
  nobody.
* `SegmentProofs`. From `LInv`: nobody who holds `itemMu` waits. When nobody can go on `itemMu` is
  free, so nobody who holds `fileMu` waits either, so both are free. `Stable` uses the same
  invariant: the steps that change the file or the item are those of write-lock holders.
* `ObjStoreDeviceProofs`. `Held`: the holder of a segment's lock is at a step that gives it back.
  With all locks free the goroutines of a flush finish (`Workers` gives them room in `bufCh`),
  then the flushes, then everyone `pendingOpMu` waits for. `DeletesClean` needs `RInv`: a locked
  file has no readers (`NoReaders`), the victim of an eviction stays clean once it is locked
  (`CleanVictims`), a closing flush comes to every dirty segment or fails (`CloseSees`), and only one Close
  flushes (`OneCloses`).
* `ContainerProofs`. Backward from the store: the last stage waits for nobody behind it, and a
  stage that waits has one before it that is not finished, down to the first, which
  reads a file. `Remaining` counts the pieces each stage has left and its end.
* `NbdStreamProofs`. `Ending`: while the kernel serves the socket is open, and once the cleanup is
  past the ioctls it is not, unless the scan or `NBD_CLEAR_SOCK` failed, so that the worker that
  waits at `wgDone` waits for one that can go on; Close waits only once the context is done, and
  finds an error in `errCh` when the kernel is still served.

The assumptions on constants are those the code gives: the values of one set of modes or
kinds, positive capacities (`make(chan ..., n)` with n at least 1, `workerCount` at least 1,
`MaxCapTries` and `MaxTries` the constants 10 and 16 of `device.go:168` and `340`), disjoint sets of goroutines, a
segment size not larger than the device, a quota between one and all segments, and model
values (`Nil`, `None`, `NoVal`) outside the sets they extend. `IO` of `ObjStoreDevice` is finite
because the quota counts goroutines. `DevResult` of `ReqProcessor` is not empty: a device call
returns something.

Model-checked only:

* liveness (`EveryRequestAnswered`, `ShutdownCompletes`, `OperationsReturn`, `PutReturns`,
  `CloseReturns`, `StreamEnds`): fairness is outside the prover;
* what is stated with ENABLED: `NeverStuck` of `ObjStoreDevice`, whose counterpart `AlwaysReady` is
  proved, and `ReadyCanStep` of each module, that a goroutine whose wait is over by the `...Ready`
  predicates can take a step of the model;
* the two violation runs and the configurations of the table above: they are
  counterexamples;
* `LeastRecent`, which is there for its counterexample.

## Not modelled

* The LZ4 block store: no program constructs it. RAM disk and file disk: a slice and an
  `os.File` with bounds checks. `pkg/util`: stateless helpers, part of the actions that
  call them. `usbdsrvd` and the test suites: flags and wiring.
* Parsing: of flags, of `/proc/devices` and device numbers, of item names.
* In `Segment` and `ObjStoreDevice`, removing the local file is assumed to succeed; objects
  have the segment's size. Writes of zeros are in `Segment` only.
* In `Container`, keys and initialisation vectors are the right ones and codecs are
  correct: they are libraries.
* In `DedupDisk` a crash without Close (which of the three files keeps what is up to
  Pebble and the page cache), and `Flush`, which changes nothing the model keeps; a
  read of several blocks is several reads of one.

Further hazards were read in the code and have no property: `applyOpts` starts
`flushWorker` (`device.go:119`) before `dev.segments` is assigned (72); a Close after
the parent context was cancelled returns nil without a flush (`device.go:298`); a size that
is not a multiple of the object size leaves a tail no segment serves (`segment.go:47`;
`TransfersRange` expects EOF there); the user's socket is closed twice and the
connection made from it never; the test that a node is not in use looks at a
`stat` size, which is 0 for every block device (`nbdkern_linux.go:126`).

## Plan

1. Done: `ReqProcessor` with its first proofs, `Segment` with `DurableCell`,
   `SparseCopy`, `DedupDisk`, `ObjStoreDevice`, `LeastRecent`, `Container`, `NbdStream`.
2. Done: the safety properties of the passing runs proved, except `NeverStuck` of `objdev`, and
   the refinement of `DurableCell`.
3. Done: the absence of deadlock of each concurrent module proved for every size, bounds on the
   steps of a Put and of a shutdown, and action properties of `Segment` and `ObjStoreDevice`.
4. Left: statements that join two modules, such as what a device flush promises of each of
   its cells.
