------------------------------ MODULE DedupDisk ------------------------------
(***************************************************************************)
(* The deduplicating device (pkg/devices/dedupdisk): a LUN map from blocks *)
(* to dedup IDs (mmaplunmap.go), an ID store from contents to dedup IDs    *)
(* (pebbleidstore.go) and a block store that holds the contents            *)
(* (fileblkstore.go).  Reads and writes run in several goroutines under    *)
(* the read lock of optMu; Close takes its write lock.                     *)
(*                                                                         *)
(* A block's contents are one value of Val, and equal values have equal    *)
(* hashes.  A position in the block file is counted in blocks.             *)
(***************************************************************************)
EXTENDS Naturals, Sequences, FiniteSets

CONSTANTS
    Block,      \* the device's blocks
    Val, Zero,  \* contents, and the all-zero one
    Writer,     \* goroutines that write
    Reader,     \* goroutines that read
    Request,    \* what is written: sequences of [blk, val]
    Fault,      \* what may fail: "getID", "write" (the block file), "putID"
    MaxBlocks,  \* bound: blocks ever put into the store
    MaxOpens    \* bound: how often the device is opened

Thread == Writer \cup Reader
Pos    == 0..(MaxBlocks - 1)    \* positions in the block file, and dedup IDs
ZeroID == MaxBlocks             \* zeroBlockID: the all-zero block
NoID   == MaxBlocks + 1         \* errNotPresent
ID     == Pos \cup {ZeroID}

CONSTANT NoVal                  \* beyond the end of the block file

ASSUME ValAssumption == Zero \in Val /\ NoVal \notin Val
ASSUME ThreadAssumption == Writer \cap Reader = {}
ASSUME RequestAssumption == Request \subseteq Seq([blk : Block, val : Val]) \ {<<>>}
ASSUME BoundAssumption == MaxBlocks \in Nat /\ MaxOpens \in Nat

VARIABLES
    lunMap,     \* Block -> dedup ID
    idStore,    \* contents -> dedup ID, NoID when the hash is not present
    blocks,     \* the block file: position -> contents, NoVal beyond its end
    nextID, nextPos, pending,   \* the block store's write state
    rlocked,    \* read locks of optMu each goroutine holds
    closePc,    \* "open", "waiting" (Close in optMu.Lock()) or "closed"
    pc, todo,   \* todo: the rest of a write, its current block first
    id, at,     \* the dedup ID and the file position in use
    opens,
    \* what was promised, for the properties
    disk,       \* Block -> what was last written
    want        \* what a read that runs has to return

storeVars == <<lunMap, idStore, blocks>>
stateVars == <<nextID, nextPos, pending>>
lockVars  == <<rlocked, closePc>>
vars == <<storeVars, stateVars, lockVars, pc, todo, id, at, opens, disk, want>>

Init ==
    /\ lunMap = [k \in Block |-> ZeroID] /\ idStore = [v \in Val |-> NoID]
    /\ blocks = [p \in Pos |-> NoVal]
    /\ nextID = 0 /\ nextPos = 0 /\ pending = {}
    /\ rlocked = [t \in Thread |-> 0] /\ closePc = "open"
    /\ pc = [t \in Thread |-> "idle"] /\ todo = [t \in Writer |-> <<>>]
    /\ id = [t \in Thread |-> NoID] /\ at = [t \in Writer |-> 0] /\ opens = 1
    /\ disk = [k \in Block |-> Zero] /\ want = [t \in Reader |-> Zero]

-----------------------------------------------------------------------------
Goto(t, l) == pc' = [pc EXCEPT ![t] = l]

\* optMu.RLock() waits for a Close that waits for the lock or has it.
RLock(t) == closePc # "waiting" /\ rlocked' = [rlocked EXCEPT ![t] = @ + 1]

\* The block under way, and its contents.
Blk(t) == Head(todo[t]).blk
New(t) == Head(todo[t]).val

(* WriteAt *)

\* The outer call: RLock, and the device is open.  A write of one block goes on
\* with it, a longer one calls WriteAt for each of its blocks.
WriteBegins(t, r) ==
    /\ pc[t] = "idle" /\ closePc # "closed"
    /\ RLock(t)
    /\ todo' = [todo EXCEPT ![t] = r]
    /\ Goto(t, IF Len(r) = 1 THEN "getID" ELSE "multi")
    /\ UNCHANGED <<storeVars, stateVars, closePc, id, at, opens, disk, want>>

\* The inner call takes the read lock a second time.
WriteNext(t) ==
    /\ pc[t] = "multi" /\ todo[t] # <<>>
    /\ RLock(t)
    /\ Goto(t, "getID")
    /\ UNCHANGED <<storeVars, stateVars, closePc, todo, id, at, opens, disk, want>>

\* idStore.GetID: zeros have an ID of their own, other contents are looked up.
Lookup(v) == IF v = Zero THEN ZeroID ELSE idStore[v]

GetID(t) ==
    /\ pc[t] = "getID"
    /\ id' = [id EXCEPT ![t] = Lookup(New(t))]
    /\ Goto(t, IF Lookup(New(t)) = NoID THEN "putBlock" ELSE "putMap")
    /\ UNCHANGED <<storeVars, stateVars, lockVars, todo, at, opens, disk, want>>

\* PutBlock: an ID and a position are taken, and the ID is pending.
AdvanceIDOnly == nextID' = nextID + 1 /\ UNCHANGED nextPos
Advance == nextID' = nextID + 1 /\ nextPos' = nextPos + 1

PutBlockPublishes(t) ==
    /\ pc[t] = "putBlock" /\ nextID < MaxBlocks
    /\ id' = [id EXCEPT ![t] = nextID] /\ at' = [at EXCEPT ![t] = nextPos]
    /\ Advance
    /\ pending' = pending \cup {nextID}
    /\ idStore' = [idStore EXCEPT ![New(t)] = nextID]
    /\ Goto(t, "write")
    /\ UNCHANGED <<lunMap, blocks, lockVars, todo, opens, disk, want>>
PutBlock(t) ==
    /\ pc[t] = "putBlock" /\ nextID < MaxBlocks
    /\ id' = [id EXCEPT ![t] = nextID] /\ at' = [at EXCEPT ![t] = nextPos]
    /\ Advance
    /\ pending' = pending \cup {nextID}
    /\ Goto(t, "write")
    /\ UNCHANGED <<storeVars, lockVars, todo, opens, disk, want>>

\* The write outside the lock, after which the ID is no longer pending.
WriteBlock(t) ==
    /\ pc[t] = "write"
    /\ blocks' = [blocks EXCEPT ![at[t]] = New(t)]
    /\ pending' = pending \ {id[t]}
    /\ Goto(t, "putID")
    /\ UNCHANGED <<lunMap, idStore, nextID, nextPos, lockVars, todo, id, at,
                   opens, disk, want>>

\* This call of WriteAt returns: its read lock is released, and with the last
\* block the outer one too.
Rest(t) == Tail(todo[t])
CallReturnsLocked(t) ==
    /\ todo' = [todo EXCEPT ![t] = Rest(t)]
    /\ id' = [id EXCEPT ![t] = NoID] /\ at' = [at EXCEPT ![t] = 0]
    /\ Goto(t, IF Rest(t) = <<>> THEN "idle" ELSE "multi")
    /\ UNCHANGED rlocked
CallReturns(t) ==
    /\ todo' = [todo EXCEPT ![t] = Rest(t)]
    /\ id' = [id EXCEPT ![t] = NoID] /\ at' = [at EXCEPT ![t] = 0]
    /\ IF Rest(t) = <<>>
       THEN rlocked' = [rlocked EXCEPT ![t] = 0] /\ Goto(t, "idle")
       ELSE rlocked' = [rlocked EXCEPT ![t] = 1] /\ Goto(t, "multi")

\* The index cannot be read: the block keeps its old contents, a longer write goes
\* on with its next one.  Zeros are not looked up.
GetIDFails(t) ==
    /\ pc[t] = "getID" /\ "getID" \in Fault /\ New(t) # Zero
    /\ CallReturns(t)
    /\ UNCHANGED <<storeVars, stateVars, closePc, opens, disk, want>>

\* The block file cannot be written: the same, and the ID is never used.
WriteBlockFailsIgnored(t) ==
    /\ pc[t] = "write" /\ "write" \in Fault
    /\ pending' = pending \ {id[t]}
    /\ Goto(t, "putID")
    /\ UNCHANGED <<storeVars, nextID, nextPos, lockVars, todo, id, at, opens, disk, want>>
WriteBlockFails(t) ==
    /\ pc[t] = "write" /\ "write" \in Fault
    /\ pending' = pending \ {id[t]}
    /\ CallReturns(t)
    /\ UNCHANGED <<storeVars, nextID, nextPos, closePc, opens, disk, want>>

\* idStore.PutID, whose error is ignored.
PutID(t) ==
    /\ pc[t] = "putID"
    /\ \/ idStore' = [idStore EXCEPT ![New(t)] = id[t]]
       \/ "putID" \in Fault /\ UNCHANGED idStore
    /\ Goto(t, "putMap")
    /\ UNCHANGED <<lunMap, blocks, stateVars, lockVars, todo, id, at, opens, disk, want>>

\* lunMap.PutID: the block reads as the new contents from here on.
PutMap(t) ==
    /\ pc[t] = "putMap"
    /\ lunMap' = [lunMap EXCEPT ![Blk(t)] = id[t]]
    /\ disk' = [disk EXCEPT ![Blk(t)] = New(t)]
    /\ CallReturns(t)
    /\ UNCHANGED <<idStore, blocks, stateVars, closePc, opens, want>>

-----------------------------------------------------------------------------
(* ReadAt *)

\* lunMap.GetID
ReadBegins(t, k) ==
    /\ pc[t] = "idle" /\ closePc # "closed"
    /\ RLock(t)
    /\ id' = [id EXCEPT ![t] = lunMap[k]]
    /\ want' = [want EXCEPT ![t] = disk[k]]
    /\ Goto(t, "read")
    /\ UNCHANGED <<storeVars, stateVars, closePc, todo, at, opens, disk>>

\* blockStore.GetBlock: the zero block is not stored.
Contents(d) == IF d = ZeroID THEN Zero ELSE blocks[d]

ReadUnlocksNot(t) == UNCHANGED rlocked
ReadUnlocks(t) == rlocked' = [rlocked EXCEPT ![t] = @ - 1]

ReadDone(t) ==
    /\ pc[t] = "read"
    /\ ReadUnlocks(t)
    /\ id' = [id EXCEPT ![t] = NoID] /\ want' = [want EXCEPT ![t] = Zero]
    /\ Goto(t, "idle")
    /\ UNCHANGED <<storeVars, stateVars, closePc, todo, at, opens, disk>>

-----------------------------------------------------------------------------
(* Close, and the next NewFileBlockStore *)

\* Close calls optMu.Lock() ...
CloseBegins ==
    /\ closePc = "open"
    /\ closePc' = "waiting"
    /\ UNCHANGED <<storeVars, stateVars, rlocked, pc, todo, id, at, opens, disk, want>>

\* ... gets it when no read lock is left, cancels the context, flushes and
\* closes the three stores.
CloseDone ==
    /\ closePc = "waiting" /\ \A t \in Thread : rlocked[t] = 0
    /\ closePc' = "closed"
    /\ UNCHANGED <<storeVars, stateVars, rlocked, pc, todo, id, at, opens, disk, want>>

\* The block file's size, in blocks.
FileSize == Cardinality({p \in Pos : \E q \in Pos : q >= p /\ blocks[q] # NoVal})

\* The device is opened again: nextID starts behind the blocks in the file,
\* nextPos at its beginning.
Reopen ==
    /\ closePc = "closed" /\ opens < MaxOpens
    /\ opens' = opens + 1 /\ closePc' = "open"
    /\ nextID' = FileSize /\ nextPos' = 0 /\ pending' = {}
    /\ UNCHANGED <<storeVars, rlocked, pc, todo, id, at, disk, want>>

\* The device stays closed.
StaysClosed == closePc = "closed" /\ opens = MaxOpens /\ UNCHANGED vars

WriteContinues(t) ==
    \/ WriteNext(t) \/ GetID(t) \/ GetIDFails(t) \/ PutBlock(t)
    \/ WriteBlock(t) \/ WriteBlockFails(t) \/ PutID(t) \/ PutMap(t)

Next ==
    \/ \E t \in Writer : WriteContinues(t) \/ \E r \in Request : WriteBegins(t, r)
    \/ \E t \in Reader : ReadDone(t) \/ \E k \in Block : ReadBegins(t, k)
    \/ CloseBegins \/ CloseDone \/ Reopen \/ StaysClosed

Spec == Init /\ [][Next]_vars

\* Operations that have begun go on; nobody has to begin one.
Fairness == /\ \A t \in Writer : WF_vars(WriteContinues(t))
            /\ \A t \in Reader : WF_vars(ReadDone(t))
            /\ WF_vars(CloseDone)

FairSpec == Spec /\ Fairness

-----------------------------------------------------------------------------
(* Properties *)

TypeOK ==
    /\ lunMap \in [Block -> ID] /\ idStore \in [Val -> Pos \cup {NoID}]
    /\ blocks \in [Pos -> Val \cup {NoVal}]
    /\ nextID \in 0..MaxBlocks /\ nextPos \in 0..MaxBlocks /\ pending \subseteq Pos
    /\ rlocked \in [Thread -> 0..2] /\ closePc \in {"open", "waiting", "closed"}
    /\ pc \in [Thread -> {"idle", "multi", "getID", "putBlock", "write", "putID",
                          "putMap", "read"}]
    /\ todo \in [Writer -> Seq([blk : Block, val : Val])]
    /\ id \in [Thread -> ID \cup {NoID}] /\ at \in [Writer -> Nat]
    /\ opens \in Nat
    /\ disk \in [Block -> Val] /\ want \in [Reader -> Val]

\* Every block reads as what was last written to it, however many blocks share
\* its contents and however the writes of equal contents raced.
ReadsLastWrite == \A k \in Block : Contents(lunMap[k]) = disk[k]

\* The ID store is right: contents that are found there are in the block store
\* under that ID, completely written.
IndexIsRight ==
    \A v \in Val : idStore[v] # NoID =>
        blocks[idStore[v]] = v /\ idStore[v] \notin pending

\* A read that has looked up its ID still finds what the block held then,
\* although it holds no lock that keeps writers out.
ReadsAreStable == \A t \in Reader : pc[t] = "read" => Contents(id[t]) = want[t]

\* GetBlock never meets an ID whose write is pending: it would call Wait on a
\* condition whose lock it holds only for reading.
NeverWaitsForBlock == \A t \in Reader : pc[t] = "read" => id[t] \notin pending

\* "once written, blocks are immutable"
BlocksAreImmutable ==
    [][\A p \in Pos : blocks[p] # NoVal => blocks'[p] = blocks[p]]_vars

\* A Close that was called gets its lock, unless a longer write has blocks to come:
\* its next WriteAt asks for the read lock a second time, behind the Close that
\* waits for the first.  A write that is at its last block, and has the read lock
\* twice, gives both back.
LocksAgain(t) == pc[t] = "multi" \/ Len(todo[t]) > 1
CloseReturns ==
    closePc = "waiting" /\ (\A t \in Writer : ~LocksAgain(t)) ~> closePc = "closed"

\* The same whatever writes are under way, which the code does not provide.
CloseAlwaysReturns == closePc = "waiting" ~> closePc = "closed"
=============================================================================
