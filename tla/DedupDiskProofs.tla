--------------------------- MODULE DedupDiskProofs ---------------------------
(***************************************************************************)
(* Proofs about DedupDisk, for any blocks, contents, goroutines and        *)
(* requests, and a block store of any size.  What the device promises is   *)
(* proved for its first opening: the block store of a device that is       *)
(* opened again starts writing at the beginning of its file.               *)
(***************************************************************************)
EXTENDS DedupDisk, SequenceTheorems, FiniteSetTheorems, TLAPS

Item == [blk : Block, val : Val]

\* Where a goroutine is, which read locks it holds and what it has left to do.
Places ==
    /\ \A t \in Writer :
          /\ pc[t] # "read"
          /\ pc[t] = "idle" => rlocked[t] = 0
          /\ pc[t] = "multi" => rlocked[t] = 1
          /\ pc[t] # "idle" => todo[t] # <<>>
          /\ pc[t] \in {"write", "putID"} => id[t] \in Pos
          /\ pc[t] = "putMap" => id[t] \in ID
    /\ \A t \in Reader : \/ pc[t] = "idle" /\ rlocked[t] = 0
                         \/ pc[t] = "read" /\ rlocked[t] = 1 /\ id[t] \in ID
    /\ nextPos <= nextID

\* ID d stands for contents v that are completely written.
Holds(d, v) == d \in ID /\ d \notin pending /\ Contents(d) = v

\* Nothing was written behind the last ID that was given away.
Unwritten == nextPos = nextID /\ \A p \in Pos : p >= nextID => blocks[p] = NoVal

\* A writer has its place in the file for itself until it has written there, and
\* then an ID that stands for what it writes.
WriterHolds(t) ==
    /\ pc[t] = "write" => /\ id[t] = at[t] /\ id[t] < nextID /\ id[t] \in pending
                          /\ blocks[id[t]] = NoVal
    /\ pc[t] \in {"putID", "putMap"} => Holds(id[t], New(t))
WritersHold == \A t \in Writer : WriterHolds(t)
OwnPlaces == \A t, u \in Writer : pc[t] = "write" /\ pc[u] = "write" /\ id[t] = id[u] => t = u

\* What the index, the LUN map and the reads that run refer to is written.
IndexHolds == \A v \in Val : idStore[v] # NoID => Holds(idStore[v], v)
MapHolds == \A k \in Block : Holds(lunMap[k], disk[k])
ReaderHolds(t) == pc[t] = "read" => Holds(id[t], want[t])
ReadsHold == \A t \in Reader : ReaderHolds(t)

FirstOpening == /\ Unwritten /\ WritersHold /\ OwnPlaces
                /\ IndexHolds /\ MapHolds /\ ReadsHold

IInv == TypeOK /\ Places /\ (opens = 1 => FirstOpening) /\ opens >= 1

-----------------------------------------------------------------------------
\* The bounds of the IDs.
LEMMA IDs == /\ ZeroID \notin Pos /\ NoID \notin ID /\ ZeroID \in ID /\ Pos \subseteq ID
             /\ Pos \subseteq Nat /\ ID \subseteq Nat
BY BoundAssumption DEF ZeroID, NoID, Pos, ID

\* The block a write is at, and the ones after it.
LEMMA Current ==
    ASSUME TypeOK, NEW t \in Writer, todo[t] # <<>>
    PROVE  /\ Head(todo[t]) \in Item
           /\ Blk(t) \in Block /\ New(t) \in Val /\ Rest(t) \in Seq(Item)
<1>1. todo[t] \in Seq(Item)
  BY DEF TypeOK, Item
<1>2. Head(todo[t]) \in Item /\ Rest(t) \in Seq(Item)
  BY <1>1, HeadTailProperties DEF Rest
<1> QED BY <1>2 DEF Blk, New, Item

\* The size of the block file is within its bound.
LEMMA FileSizeType == FileSize \in 0 .. MaxBlocks
<1> DEFINE used == {p \in Pos : \E q \in Pos : q >= p /\ blocks[q] # NoVal}
<1>1. IsFiniteSet(Pos) /\ Cardinality(Pos) = MaxBlocks
  <2>1. 0 \in Int /\ MaxBlocks - 1 \in Int
    BY BoundAssumption
  <2>2. /\ IsFiniteSet(0 .. (MaxBlocks - 1))
        /\ Cardinality(0 .. (MaxBlocks - 1))
             = IF 0 > MaxBlocks - 1 THEN 0 ELSE (MaxBlocks - 1) - 0 + 1
    BY <2>1, FS_Interval
  <2> QED BY <2>2, BoundAssumption DEF Pos
<1>2. used \in SUBSET Pos
  OBVIOUS
<1> HIDE DEF used
<1>3. Cardinality(used) \in Nat /\ Cardinality(used) <= Cardinality(Pos)
  BY <1>1, <1>2, FS_Subset, FS_CardinalityType
<1> QED BY <1>1, <1>3, BoundAssumption DEF FileSize, used

\* A new device is empty.
LEMMA InitInv == Init => IInv
<1> SUFFICES ASSUME Init PROVE IInv
    OBVIOUS
<1> USE BoundAssumption, ValAssumption, ThreadAssumption
<1>1. TypeOK
  <2>1. /\ lunMap \in [Block -> ID] /\ idStore \in [Val -> Pos \cup {NoID}]
        /\ blocks \in [Pos -> Val \cup {NoVal}]
    BY IDs DEF Init
  <2>2. nextID \in 0..MaxBlocks /\ nextPos \in 0..MaxBlocks /\ pending \subseteq Pos
    BY DEF Init
  <2>3. /\ rlocked \in [Thread -> 0..2] /\ closePc \in {"open", "waiting", "closed"}
        /\ pc \in [Thread -> {"idle", "multi", "getID", "putBlock", "write", "putID",
                              "putMap", "read"}]
    BY DEF Init
  <2>4. <<>> \in Seq([blk : Block, val : Val])
    BY EmptySeq
  <2>5. todo \in [Writer -> Seq([blk : Block, val : Val])]
    BY <2>4 DEF Init
  <2>6. id \in [Thread -> ID \cup {NoID}] /\ at \in [Writer -> Nat] /\ opens \in Nat
    BY DEF Init
  <2>7. disk \in [Block -> Val] /\ want \in [Reader -> Val]
    BY DEF Init
  <2> QED BY <2>1, <2>2, <2>3, <2>5, <2>6, <2>7 DEF TypeOK
<1>2. Places
  BY DEF Init, Places, Thread
<1>3. FirstOpening
  BY IDs DEF Init, FirstOpening, Unwritten, WritersHold, WriterHolds, OwnPlaces, IndexHolds,
             MapHolds, ReadsHold, ReaderHolds, Holds, Contents, Thread, Pos
<1> QED BY <1>1, <1>2, <1>3 DEF IInv, Init

-----------------------------------------------------------------------------
\* One step, by the operation that takes it.
LEMMA NextSplits ==
    ASSUME [Next]_vars
    PROVE  \/ \E t \in Writer : \/ WriteNext(t) \/ GetID(t) \/ GetIDFails(t) \/ PutBlock(t)
                               \/ WriteBlock(t) \/ WriteBlockFails(t) \/ PutID(t) \/ PutMap(t)
           \/ \E t \in Writer, r \in Request : WriteBegins(t, r)
           \/ \E t \in Reader : ReadDone(t)
           \/ \E t \in Reader, k \in Block : ReadBegins(t, k)
           \/ CloseBegins \/ CloseDone \/ Reopen
           \/ UNCHANGED vars
BY DEF Next, WriteContinues, StaysClosed

\* The types, and the places of the goroutines, when a write takes a step.
LEMMA WriteTypes ==
    ASSUME TypeOK, Places, NEW t \in Writer, WriteContinues(t)
    PROVE  TypeOK' /\ Places'
<1> USE ThreadAssumption, BoundAssumption, IDs
<1>1. t \in Thread /\ pc[t] \in {"idle", "multi", "getID", "putBlock", "write", "putID", "putMap"}
  BY DEF Thread, TypeOK, Places
<1>2. CASE WriteNext(t)
  <2>1. rlocked'[t] = 2 /\ rlocked' \in [Thread -> 0..2]
    BY <1>1, <1>2 DEF WriteNext, RLock, TypeOK, Places
  <2>2. TypeOK'
    BY <1>1, <1>2, <2>1 DEF WriteNext, Goto, TypeOK, storeVars, stateVars
  <2>3. Places'
    BY <1>1, <1>2, <2>1 DEF WriteNext, RLock, Goto, TypeOK, Places, stateVars, Thread
  <2> QED BY <2>2, <2>3
<1>3. CASE GetID(t)
  <2>1. New(t) \in Val /\ Lookup(New(t)) \in ID \cup {NoID}
    BY <1>3, Current DEF GetID, Lookup, TypeOK, Places
  <2>2. TypeOK'
    BY <1>1, <1>3, <2>1 DEF GetID, Goto, TypeOK, storeVars, stateVars, lockVars
  <2>3. Places'
    BY <1>1, <1>3, <2>1 DEF GetID, Goto, TypeOK, Places, stateVars, lockVars, Thread
  <2> QED BY <2>2, <2>3
<1>4. CASE PutBlock(t)
  <2>1. nextID \in Pos /\ nextID + 1 \in 0..MaxBlocks /\ nextPos + 1 \in 0..MaxBlocks
    BY <1>4 DEF PutBlock, Pos, TypeOK, Places
  <2>2. TypeOK'
    <3>1. /\ nextID' \in 0..MaxBlocks /\ nextPos' \in 0..MaxBlocks /\ pending' \subseteq Pos
          /\ nextPos \in Nat
      BY <1>4, <2>1 DEF PutBlock, Advance, TypeOK
    <3>2. id' \in [Thread -> ID \cup {NoID}] /\ at' \in [Writer -> Nat]
      BY <1>4, <2>1, <3>1 DEF PutBlock, TypeOK
    <3> QED BY <1>4, <3>1, <3>2 DEF PutBlock, Goto, TypeOK, storeVars, lockVars
  <2>3. Places'
    BY <1>1, <1>4, <2>1 DEF PutBlock, Advance, Goto, TypeOK, Places, lockVars, Thread
  <2> QED BY <2>2, <2>3
<1>5. CASE WriteBlock(t)
  <2>1. New(t) \in Val
    BY <1>5, Current DEF WriteBlock, Places
  <2>2. TypeOK'
    BY <1>1, <1>5, <2>1 DEF WriteBlock, Goto, TypeOK, lockVars
  <2>3. Places'
    BY <1>1, <1>5 DEF WriteBlock, Goto, TypeOK, Places, lockVars, Thread
  <2> QED BY <2>2, <2>3
<1>6. ASSUME CallReturns(t), todo[t] # <<>>
      PROVE  /\ todo' \in [Writer -> Seq([blk : Block, val : Val])]
             /\ id' \in [Thread -> ID \cup {NoID}] /\ at' \in [Writer -> Nat]
             /\ rlocked' \in [Thread -> 0..2]
             /\ pc' \in [Thread -> {"idle", "multi", "getID", "putBlock", "write", "putID",
                                    "putMap", "read"}]
             /\ \A u \in Thread : u # t => /\ pc'[u] = pc[u] /\ rlocked'[u] = rlocked[u]
                                          /\ id'[u] = id[u]
             /\ \A u \in Writer : u # t => todo'[u] = todo[u]
             /\ \/ pc'[t] = "idle" /\ rlocked'[t] = 0
                \/ pc'[t] = "multi" /\ rlocked'[t] = 1 /\ todo'[t] # <<>>
  <2>1. Rest(t) \in Seq([blk : Block, val : Val])
    BY <1>6, Current DEF Item
  <2>2. /\ todo' \in [Writer -> Seq([blk : Block, val : Val])]
        /\ \A u \in Writer : u # t => todo'[u] = todo[u]
        /\ todo'[t] = Rest(t)
    BY <1>6, <2>1 DEF CallReturns, TypeOK
  <2>3. /\ id' \in [Thread -> ID \cup {NoID}] /\ at' \in [Writer -> Nat]
        /\ \A u \in Thread : u # t => id'[u] = id[u]
    BY <1>6 DEF CallReturns, TypeOK
  <2>4. CASE Rest(t) = <<>>
    <3>1. rlocked' = [rlocked EXCEPT ![t] = 0] /\ pc' = [pc EXCEPT ![t] = "idle"]
      BY <1>6, <2>4 DEF CallReturns, Goto
    <3>2. /\ rlocked' \in [Thread -> 0..2] /\ rlocked'[t] = 0
          /\ \A u \in Thread : u # t => rlocked'[u] = rlocked[u]
      BY <1>1, <3>1 DEF TypeOK
    <3>3. /\ pc' \in [Thread -> {"idle", "multi", "getID", "putBlock", "write", "putID",
                                 "putMap", "read"}]
          /\ pc'[t] = "idle" /\ \A u \in Thread : u # t => pc'[u] = pc[u]
      BY <1>1, <3>1 DEF TypeOK
    <3> QED BY <2>2, <2>3, <3>2, <3>3
  <2>5. CASE Rest(t) # <<>>
    <3>1. rlocked' = [rlocked EXCEPT ![t] = 1] /\ pc' = [pc EXCEPT ![t] = "multi"]
      BY <1>6, <2>5 DEF CallReturns, Goto
    <3>2. /\ rlocked' \in [Thread -> 0..2] /\ rlocked'[t] = 1
          /\ \A u \in Thread : u # t => rlocked'[u] = rlocked[u]
      BY <1>1, <3>1 DEF TypeOK
    <3>3. /\ pc' \in [Thread -> {"idle", "multi", "getID", "putBlock", "write", "putID",
                                 "putMap", "read"}]
          /\ pc'[t] = "multi" /\ \A u \in Thread : u # t => pc'[u] = pc[u]
      BY <1>1, <3>1 DEF TypeOK
    <3> QED BY <2>2, <2>3, <2>5, <3>2, <3>3
  <2> QED BY <2>4, <2>5
<1>7. ASSUME CallReturns(t), todo[t] # <<>>, nextPos' <= nextID'
      PROVE  Places'
  <2>1. ASSUME NEW u \in Writer, u # t
        PROVE  /\ u \in Thread /\ pc'[u] = pc[u] /\ rlocked'[u] = rlocked[u]
               /\ id'[u] = id[u] /\ todo'[u] = todo[u]
    BY <1>6, <1>7, <2>1 DEF Thread
  <2>2. ASSUME NEW u \in Reader
        PROVE  pc'[u] = pc[u] /\ rlocked'[u] = rlocked[u] /\ id'[u] = id[u]
    BY <1>6, <1>7 DEF Thread
  <2>3. \/ pc'[t] = "idle" /\ rlocked'[t] = 0
        \/ pc'[t] = "multi" /\ rlocked'[t] = 1 /\ todo'[t] # <<>>
    BY <1>6, <1>7
  <2> QED BY <1>7, <2>1, <2>2, <2>3 DEF Places
<1>8. CASE WriteBlockFails(t)
  <2>1. todo[t] # <<>> /\ CallReturns(t)
    BY <1>8 DEF WriteBlockFails, Places
  <2>2. TypeOK'
    BY <1>6, <1>8, <2>1 DEF WriteBlockFails, TypeOK, storeVars
  <2>3. nextPos' <= nextID'
    BY <1>8 DEF WriteBlockFails, Places
  <2> QED BY <1>7, <2>1, <2>2, <2>3
<1>8a. CASE GetIDFails(t)
  <2>1. todo[t] # <<>> /\ CallReturns(t)
    BY <1>8a DEF GetIDFails, Places
  <2>2. TypeOK'
    BY <1>6, <1>8a, <2>1 DEF GetIDFails, TypeOK, storeVars, stateVars
  <2>3. nextPos' <= nextID'
    BY <1>8a DEF GetIDFails, Places, stateVars
  <2> QED BY <1>7, <2>1, <2>2, <2>3
<1>9. CASE PutID(t)
  <2>1. New(t) \in Val /\ id[t] \in Pos
    BY <1>9, Current DEF PutID, Places
  <2>2. TypeOK'
    BY <1>1, <1>9, <2>1 DEF PutID, Goto, TypeOK, stateVars, lockVars
  <2>3. Places'
    BY <1>1, <1>9, <2>1 DEF PutID, Goto, TypeOK, Places, stateVars, lockVars, Thread
  <2> QED BY <2>2, <2>3
<1>10. CASE PutMap(t)
  <2>1. todo[t] # <<>> /\ CallReturns(t) /\ id[t] \in ID
    BY <1>10 DEF PutMap, Places
  <2>2. New(t) \in Val /\ Blk(t) \in Block
    BY <2>1, Current
  <2>3. TypeOK'
    BY <1>6, <1>10, <2>1, <2>2 DEF PutMap, TypeOK, stateVars
  <2>4. nextPos' <= nextID'
    BY <1>10 DEF PutMap, Places, stateVars
  <2> QED BY <1>7, <2>1, <2>3, <2>4
<1> QED BY <1>2, <1>3, <1>4, <1>5, <1>8, <1>8a, <1>9, <1>10 DEF WriteContinues

\* The same for any step, which never undoes an opening.
LEMMA TypeStep ==
    ASSUME TypeOK, Places, [Next]_vars
    PROVE  TypeOK' /\ Places'
<1> USE ThreadAssumption, BoundAssumption, IDs
<1>1. ASSUME NEW t \in Writer, NEW r \in Request, WriteBegins(t, r)
      PROVE  TypeOK' /\ Places'
  <2>1. r \in Seq([blk : Block, val : Val]) /\ r # <<>>
    BY RequestAssumption
  <2>2. rlocked'[t] = 1 /\ rlocked' \in [Thread -> 0..2] /\ t \in Thread
    BY <1>1 DEF WriteBegins, RLock, TypeOK, Places, Thread
  <2>3. TypeOK'
    BY <1>1, <2>1, <2>2 DEF WriteBegins, Goto, TypeOK, storeVars, stateVars
  <2>4. Places'
    BY <1>1, <2>1, <2>2 DEF WriteBegins, RLock, Goto, TypeOK, Places, stateVars, Thread
  <2> QED BY <2>3, <2>4
<1>2. ASSUME NEW t \in Reader, ReadDone(t)
      PROVE  TypeOK' /\ Places'
  <2>1. rlocked'[t] = 0 /\ rlocked' \in [Thread -> 0..2] /\ t \in Thread
    BY <1>2 DEF ReadDone, ReadUnlocks, TypeOK, Places, Thread
  <2>2. TypeOK'
    BY <1>2, <2>1, ValAssumption DEF ReadDone, Goto, TypeOK, storeVars, stateVars
  <2>3. Places'
    BY <1>2, <2>1 DEF ReadDone, ReadUnlocks, Goto, TypeOK, Places, stateVars, Thread
  <2> QED BY <2>2, <2>3
<1>3. ASSUME NEW t \in Reader, NEW k \in Block, ReadBegins(t, k)
      PROVE  TypeOK' /\ Places'
  <2>1. rlocked'[t] = 1 /\ rlocked' \in [Thread -> 0..2] /\ t \in Thread
    <3>1. rlocked[t] = 0 /\ t \in Thread
      BY <1>3 DEF ReadBegins, Places, Thread
    <3> QED BY <1>3, <3>1 DEF ReadBegins, RLock, TypeOK
  <2>2. TypeOK'
    <3>1. lunMap[k] \in ID /\ disk[k] \in Val
      BY DEF TypeOK
    <3>2. id' \in [Thread -> ID \cup {NoID}] /\ want' \in [Reader -> Val]
      BY <1>3, <3>1 DEF ReadBegins, TypeOK
    <3> QED BY <1>3, <2>1, <3>2 DEF ReadBegins, Goto, TypeOK, storeVars, stateVars
  <2>3. Places'
    BY <1>3, <2>1 DEF ReadBegins, RLock, Goto, TypeOK, Places, stateVars, Thread
  <2> QED BY <2>2, <2>3
<1>4. CASE CloseBegins
  BY <1>4 DEF CloseBegins, TypeOK, Places, storeVars, stateVars
<1>5. CASE CloseDone
  BY <1>5 DEF CloseDone, TypeOK, Places, storeVars, stateVars
<1>6. CASE Reopen
  <2>1. /\ nextID' \in 0..MaxBlocks /\ nextPos' \in 0..MaxBlocks /\ pending' \subseteq Pos
        /\ nextPos' <= nextID'
    BY <1>6, FileSizeType DEF Reopen
  <2>2. opens' \in Nat /\ closePc' \in {"open", "waiting", "closed"}
    BY <1>6 DEF Reopen, TypeOK
  <2>3. TypeOK'
    <3>1. UNCHANGED <<lunMap, idStore, blocks, rlocked, pc, todo, id, at, disk, want>>
      BY <1>6 DEF Reopen, storeVars
    <3> QED BY <2>1, <2>2, <3>1 DEF TypeOK
  <2>4. Places'
    BY <1>6, <2>1 DEF Reopen, Places
  <2> QED BY <2>3, <2>4
<1>7. CASE UNCHANGED vars
  BY <1>7 DEF vars, TypeOK, Places, storeVars, stateVars, lockVars
<1> QED BY <1>1, <1>2, <1>3, <1>4, <1>5, <1>6, <1>7, WriteTypes, NextSplits DEF WriteContinues

-----------------------------------------------------------------------------
\* Goroutine u takes no part in a step.
WriterStays(u) == pc'[u] = pc[u] /\ id'[u] = id[u] /\ at'[u] = at[u] /\ todo'[u] = todo[u]
ReaderStays(u) == pc'[u] = pc[u] /\ id'[u] = id[u] /\ want'[u] = want[u]

\* No operation but the opening changes how often the device was opened.
LEMMA OpensStep ==
    ASSUME TypeOK, [Next]_vars, opens >= 1
    PROVE  opens' >= 1 /\ (opens' = 1 => opens = 1 /\ ~Reopen)
BY NextSplits DEF WriteNext, GetID, GetIDFails, PutBlock, WriteBlock, WriteBlockFails,
    PutID, PutMap, WriteBegins, ReadDone, ReadBegins, CloseBegins, CloseDone, Reopen, vars, TypeOK

\* What an ID stands for is never written over: the next ID given away stands for
\* nothing yet, and a write goes to a place whose ID is pending.
LEMMA HoldsKept ==
    ASSUME TypeOK, Places, FirstOpening, [Next]_vars, ~Reopen,
           NEW d \in ID, NEW v \in Val, Holds(d, v)
    PROVE  Holds(d, v)'
<1> USE BoundAssumption, ValAssumption, IDs
<1>1. ASSUME UNCHANGED <<blocks, pending>>
      PROVE  Holds(d, v)'
  BY <1>1 DEF Holds, Contents
<1>2. ASSUME NEW t \in Writer, PutBlock(t)
      PROVE  Holds(d, v)'
  <2>1. nextID \in Pos /\ blocks[nextID] = NoVal
    BY <1>2 DEF PutBlock, FirstOpening, Unwritten, TypeOK, Pos
  <2>2. d # nextID
    BY <2>1 DEF Holds, Contents
  <2> QED BY <1>2, <2>2 DEF PutBlock, Holds, Contents, storeVars
<1>3. ASSUME NEW t \in Writer, WriteBlock(t)
      PROVE  Holds(d, v)'
  <2>1. at[t] = id[t] /\ id[t] \in pending
    BY <1>3 DEF WriteBlock, FirstOpening, WritersHold, WriterHolds
  <2>2. d # at[t]
    BY <2>1 DEF Holds
  <2>3. d = ZeroID \/ blocks'[d] = blocks[d]
    BY <1>3, <2>2 DEF WriteBlock, TypeOK, ID
  <2> QED BY <1>3, <2>3 DEF WriteBlock, Holds, Contents
<1>4. ASSUME NEW t \in Writer, WriteBlockFails(t)
      PROVE  Holds(d, v)'
  BY <1>4 DEF WriteBlockFails, Holds, Contents, storeVars
<1> QED BY <1>1, <1>2, <1>3, <1>4, NextSplits DEF WriteNext, GetID, GetIDFails, PutID, PutMap,
        WriteBegins, ReadDone, ReadBegins, CloseBegins, CloseDone, vars, storeVars, stateVars

\* A step without the block store's write state leaves the places that writers have.
LEMMA WriterKept ==
    ASSUME TypeOK, Places, FirstOpening, [Next]_vars, ~Reopen, NEW u \in Writer, WriterStays(u),
           pc[u] = "write" => /\ id[u] \in pending' /\ blocks'[id[u]] = NoVal
                              /\ nextID' >= nextID /\ nextID' \in Nat
    PROVE  WriterHolds(u)'
<1>1. WriterHolds(u)
  BY DEF FirstOpening, WritersHold
<1>2. CASE pc[u] = "write"
  <2>1. id[u] \in Nat /\ nextID \in Nat
    <3>1. id[u] \in Pos
      BY <1>2 DEF Places
    <3>2. nextID \in Nat
      BY BoundAssumption DEF TypeOK
    <3> QED BY <3>1, <3>2, IDs
  <2> QED BY <1>1, <1>2, <2>1 DEF WriterHolds, WriterStays
<1>3. CASE pc[u] \in {"putID", "putMap"}
  <2>1. id[u] \in ID /\ New(u) \in Val
    BY <1>3, IDs, Current DEF Places
  <2>2. Holds(id[u], New(u))
    BY <1>1, <1>3 DEF WriterHolds
  <2>3. \A d \in ID, v \in Val : Holds(d, v) => Holds(d, v)'
    BY HoldsKept
  <2>4. id'[u] = id[u] /\ New(u)' = New(u) /\ pc'[u] # "write"
    BY <1>3 DEF New, WriterStays
  <2> QED BY <2>1, <2>2, <2>3, <2>4 DEF WriterHolds, Holds, Contents
<1>4. CASE pc[u] \notin {"write", "putID", "putMap"}
  BY <1>4 DEF WriterHolds, WriterStays
<1> QED BY <1>2, <1>3, <1>4

\* A read that has its ID keeps what it refers to.
LEMMA ReaderKept ==
    ASSUME TypeOK, Places, FirstOpening, [Next]_vars, ~Reopen, NEW u \in Reader, ReaderStays(u)
    PROVE  ReaderHolds(u)'
<1>1. CASE pc[u] = "read"
  <2>1. id[u] \in ID /\ want[u] \in Val /\ Holds(id[u], want[u])
    BY <1>1 DEF Places, TypeOK, FirstOpening, ReadsHold, ReaderHolds
  <2>2. \A d \in ID, v \in Val : Holds(d, v) => Holds(d, v)'
    BY HoldsKept
  <2> QED BY <2>1, <2>2 DEF ReaderStays, ReaderHolds, Holds, Contents
<1>2. CASE pc[u] # "read"
  BY <1>2 DEF ReaderStays, ReaderHolds
<1> QED BY <1>1, <1>2

\* The index and the LUN map keep what they refer to.
LEMMA EntriesKept ==
    ASSUME TypeOK, Places, FirstOpening, [Next]_vars, ~Reopen
    PROVE  /\ \A v \in Val : idStore'[v] = idStore[v] /\ idStore[v] # NoID => Holds(idStore[v], v)'
           /\ \A k \in Block : lunMap'[k] = lunMap[k] /\ disk'[k] = disk[k]
                                => Holds(lunMap[k], disk[k])'
<1>1. \A d \in ID, v \in Val : Holds(d, v) => Holds(d, v)'
  BY HoldsKept
<1>2. ASSUME NEW v \in Val, idStore'[v] = idStore[v], idStore[v] # NoID
      PROVE  Holds(idStore[v], v)'
  <2>1. Holds(idStore[v], v) /\ idStore[v] \in ID
    BY <1>2 DEF FirstOpening, IndexHolds, Holds
  <2> QED BY <1>1, <1>2, <2>1 DEF Holds, Contents
<1>3. ASSUME NEW k \in Block, lunMap'[k] = lunMap[k], disk'[k] = disk[k]
      PROVE  Holds(lunMap[k], disk[k])'
  <2>1. Holds(lunMap[k], disk[k]) /\ lunMap[k] \in ID /\ disk[k] \in Val
    BY DEF FirstOpening, MapHolds, Holds, TypeOK
  <2> QED BY <1>1, <1>3, <2>1 DEF Holds, Contents
<1> QED BY <1>2, <1>3

-----------------------------------------------------------------------------
\* The first opening, when the block store is left alone.
LEMMA QuietStep ==
    ASSUME TypeOK, Places, FirstOpening, [Next]_vars, ~Reopen, TypeOK',
           UNCHANGED <<blocks, stateVars>>,
           \A u \in Writer : WriterStays(u) \/ (pc'[u] # "write" /\ WriterHolds(u)'),
           \A u \in Reader : ReaderStays(u) \/ ReaderHolds(u)',
           \A v \in Val : idStore'[v] = idStore[v] \/ Holds(idStore[v], v)',
           \A k \in Block : \/ lunMap'[k] = lunMap[k] /\ disk'[k] = disk[k]
                            \/ Holds(lunMap[k], disk[k])'
    PROVE  FirstOpening'
<1>1. Unwritten'
  BY DEF FirstOpening, Unwritten, stateVars
<1>2. WritersHold'
  <2>1. ASSUME NEW u \in Writer, WriterStays(u)
        PROVE  WriterHolds(u)'
    <3>1. pc[u] = "write" => /\ id[u] \in pending' /\ blocks'[id[u]] = NoVal
                             /\ nextID' >= nextID /\ nextID' \in Nat
      BY BoundAssumption DEF FirstOpening, WritersHold, WriterHolds, TypeOK, stateVars
    <3> QED BY <2>1, <3>1, WriterKept
  <2> QED BY <2>1 DEF WritersHold
<1>3. OwnPlaces'
  <2>1. \A u \in Writer : pc'[u] = "write" => pc[u] = "write" /\ id'[u] = id[u]
    BY DEF WriterStays
  <2> QED BY <2>1 DEF FirstOpening, OwnPlaces
<1>4. IndexHolds' /\ MapHolds'
  BY EntriesKept DEF IndexHolds, MapHolds
<1>5. ReadsHold'
  BY ReaderKept DEF ReadsHold
<1> QED BY <1>1, <1>2, <1>3, <1>4, <1>5 DEF FirstOpening

\* A new ID is given away, behind all the ones in use.
LEMMA PutBlockStep ==
    ASSUME TypeOK, Places, FirstOpening, ~Reopen, NEW t \in Writer, PutBlock(t)
    PROVE  FirstOpening'
<1> USE BoundAssumption, ThreadAssumption, IDs
<1>1. [Next]_vars /\ t \in Thread
  BY DEF Next, WriteContinues, Thread
<1>2. /\ nextID \in Pos /\ nextID \in Nat /\ nextID' = nextID + 1 /\ nextPos' = nextPos + 1
      /\ pending' = pending \cup {nextID} /\ blocks' = blocks
      /\ nextPos = nextID /\ blocks[nextID] = NoVal
  BY DEF PutBlock, Advance, storeVars, FirstOpening, Unwritten, TypeOK, Pos
<1>3. pc'[t] = "write" /\ id'[t] = nextID /\ at'[t] = nextID
  BY <1>1, <1>2 DEF PutBlock, Goto, TypeOK
<1>4. /\ \A u \in Writer : u # t => WriterStays(u)
      /\ \A u \in Reader : ReaderStays(u)
  BY <1>1 DEF PutBlock, Goto, WriterStays, ReaderStays, TypeOK, Thread
<1>5. Unwritten'
  <2>1. ASSUME NEW p \in Pos, p >= nextID'
        PROVE  blocks'[p] = NoVal
    <3>1. p >= nextID
      BY <1>2, <2>1
    <3> QED BY <1>2, <3>1 DEF FirstOpening, Unwritten
  <2> QED BY <1>2, <2>1 DEF Unwritten
<1>6. WritersHold'
  <2>1. WriterHolds(t)'
    BY <1>2, <1>3 DEF WriterHolds
  <2>2. ASSUME NEW u \in Writer, u # t
        PROVE  WriterHolds(u)'
    <3>1. pc[u] = "write" => id[u] \in pending' /\ blocks'[id[u]] = NoVal
      BY <1>2 DEF FirstOpening, WritersHold, WriterHolds
    <3>2. nextID' >= nextID /\ nextID' \in Nat
      BY <1>2
    <3> QED BY <1>1, <1>4, <2>2, <3>1, <3>2, WriterKept
  <2> QED BY <2>1, <2>2 DEF WritersHold
<1>7. OwnPlaces'
  <2>1. \A u \in Writer : pc[u] = "write" => id[u] < nextID /\ id[u] \in Nat
    BY DEF FirstOpening, WritersHold, WriterHolds, Places
  <2>2. \A u \in Writer : pc[u] = "write" => id[u] # nextID
    BY <1>2, <2>1
  <2> QED BY <1>3, <1>4, <2>2 DEF FirstOpening, OwnPlaces, WriterStays
<1>8. IndexHolds' /\ MapHolds'
  BY <1>1, EntriesKept DEF IndexHolds, MapHolds, PutBlock, storeVars
<1>9. ReadsHold'
  BY <1>1, <1>4, ReaderKept DEF ReadsHold
<1> QED BY <1>5, <1>6, <1>7, <1>8, <1>9 DEF FirstOpening

\* The contents reach the file: the ID stands for them from here on.
LEMMA WriteBlockStep ==
    ASSUME TypeOK, Places, FirstOpening, ~Reopen, NEW t \in Writer, WriteBlock(t)
    PROVE  FirstOpening'
<1> USE BoundAssumption, ThreadAssumption, IDs
<1>1. [Next]_vars /\ t \in Thread
  BY DEF Next, WriteContinues, Thread
<1>2. /\ id[t] \in Pos /\ at[t] = id[t] /\ id[t] < nextID /\ nextID \in Nat
      /\ New(t) \in Val
  <2>1. pc[t] = "write" /\ todo[t] # <<>>
    BY DEF WriteBlock, Places
  <2>2. New(t) \in Val
    BY <2>1, Current
  <2>3. id[t] \in Pos /\ at[t] = id[t] /\ id[t] < nextID
    BY <2>1 DEF Places, FirstOpening, WritersHold, WriterHolds
  <2>4. nextID \in Nat
    BY DEF TypeOK
  <2> QED BY <2>2, <2>3, <2>4
<1>3. /\ blocks' = [blocks EXCEPT ![id[t]] = New(t)] /\ pending' = pending \ {id[t]}
      /\ nextID' = nextID /\ nextPos' = nextPos /\ id' = id /\ todo' = todo
      /\ pc'[t] = "putID"
  BY <1>1, <1>2 DEF WriteBlock, Goto, TypeOK
<1>4. /\ \A u \in Writer : u # t => WriterStays(u)
      /\ \A u \in Reader : ReaderStays(u)
  BY <1>1 DEF WriteBlock, Goto, WriterStays, ReaderStays, TypeOK, Thread
<1>5. Unwritten'
  <2>1. ASSUME NEW p \in Pos, p >= nextID
        PROVE  blocks'[p] = NoVal
    <3>1. blocks[p] = NoVal
      BY <2>1 DEF FirstOpening, Unwritten
    <3>2. id[t] \in Nat /\ p \in Nat
      BY <1>2
    <3>3. p # id[t]
      BY <1>2, <2>1, <3>2
    <3> QED BY <1>3, <3>1, <3>3 DEF TypeOK
  <2> QED BY <1>3, <2>1 DEF FirstOpening, Unwritten
<1>6. WritersHold'
  <2>1. WriterHolds(t)'
    <3>1. Contents(id[t])' = New(t)
      <4>1. blocks'[id[t]] = New(t) /\ id'[t] = id[t] /\ id[t] # ZeroID
        BY <1>2, <1>3 DEF TypeOK
      <4> QED BY <4>1 DEF Contents
    <3>2. New(t)' = New(t) /\ id'[t] \in ID /\ id'[t] \notin pending'
      BY <1>2, <1>3 DEF New
    <3>3. Holds(id[t], New(t))'
      BY <3>1, <3>2 DEF Holds
    <3> QED BY <1>3, <3>3 DEF WriterHolds
  <2>2. ASSUME NEW u \in Writer, u # t
        PROVE  WriterHolds(u)'
    <3>1. pc[u] = "write" => id[u] \in pending' /\ blocks'[id[u]] = NoVal
      <4> SUFFICES ASSUME pc[u] = "write" PROVE id[u] \in pending' /\ blocks'[id[u]] = NoVal
          OBVIOUS
      <4>1. id[u] # id[t]
        BY <2>2 DEF FirstOpening, OwnPlaces, WriteBlock
      <4>2. id[u] \in pending /\ blocks[id[u]] = NoVal /\ id[u] \in Pos
        BY DEF FirstOpening, WritersHold, WriterHolds, Places
      <4> QED BY <1>3, <4>1, <4>2 DEF TypeOK
    <3>2. nextID' >= nextID /\ nextID' \in Nat
      BY <1>2, <1>3
    <3> QED BY <1>1, <1>4, <2>2, <3>1, <3>2, WriterKept
  <2> QED BY <2>1, <2>2 DEF WritersHold
<1>7. OwnPlaces'
  BY <1>3, <1>4 DEF FirstOpening, OwnPlaces, WriterStays
<1>8. IndexHolds' /\ MapHolds'
  BY <1>1, EntriesKept DEF IndexHolds, MapHolds, WriteBlock
<1>9. ReadsHold'
  BY <1>1, <1>4, ReaderKept DEF ReadsHold
<1> QED BY <1>5, <1>6, <1>7, <1>8, <1>9 DEF FirstOpening

\* The contents do not reach the file: nothing refers to the ID any more.
LEMMA WriteBlockFailsStep ==
    ASSUME TypeOK, Places, FirstOpening, ~Reopen, NEW t \in Writer, WriteBlockFails(t)
    PROVE  FirstOpening'
<1> USE BoundAssumption, ThreadAssumption, IDs
<1>1. [Next]_vars /\ t \in Thread
  BY DEF Next, WriteContinues, Thread
<1>2. /\ blocks' = blocks /\ pending' = pending \ {id[t]} /\ nextID' = nextID
      /\ nextPos' = nextPos /\ pc[t] = "write"
  BY DEF WriteBlockFails, storeVars
<1>3. pc'[t] \in {"idle", "multi"}
  BY <1>1 DEF WriteBlockFails, CallReturns, Goto, TypeOK
<1>4. \A u \in Thread : u # t => pc'[u] = pc[u] /\ id'[u] = id[u]
  BY <1>1 DEF WriteBlockFails, CallReturns, Goto, TypeOK
<1>5. \A u \in Writer : u # t => todo'[u] = todo[u] /\ at'[u] = at[u]
  BY <1>1 DEF WriteBlockFails, CallReturns, TypeOK
<1>6. /\ \A u \in Writer : u # t => WriterStays(u)
      /\ \A u \in Reader : ReaderStays(u)
  BY <1>4, <1>5 DEF WriteBlockFails, WriterStays, ReaderStays, Thread
<1>7. Unwritten'
  BY <1>2 DEF FirstOpening, Unwritten
<1>8. WritersHold'
  <2>1. WriterHolds(t)'
    BY <1>3 DEF WriterHolds
  <2>2. ASSUME NEW u \in Writer, u # t
        PROVE  WriterHolds(u)'
    <3>1. pc[u] = "write" => id[u] \in pending' /\ blocks'[id[u]] = NoVal
      BY <1>2, <2>2 DEF FirstOpening, OwnPlaces, WritersHold, WriterHolds
    <3>2. nextID' >= nextID /\ nextID' \in Nat
      BY <1>2 DEF TypeOK
    <3> QED BY <1>1, <1>6, <2>2, <3>1, <3>2, WriterKept
  <2> QED BY <2>1, <2>2 DEF WritersHold
<1>9. OwnPlaces'
  BY <1>3, <1>6 DEF FirstOpening, OwnPlaces, WriterStays
<1>10. IndexHolds' /\ MapHolds'
  BY <1>1, EntriesKept DEF IndexHolds, MapHolds, WriteBlockFails, storeVars
<1>11. ReadsHold'
  BY <1>1, <1>6, ReaderKept DEF ReadsHold
<1> QED BY <1>7, <1>8, <1>9, <1>10, <1>11 DEF FirstOpening

\* The steps of a write that leave the block store alone.
LEMMA WriteQuietStep ==
    ASSUME TypeOK, Places, FirstOpening, ~Reopen, TypeOK', NEW t \in Writer,
           WriteNext(t) \/ GetID(t) \/ GetIDFails(t) \/ PutID(t) \/ PutMap(t)
    PROVE  FirstOpening'
<1> USE ThreadAssumption, IDs
<1>1. [Next]_vars /\ t \in Thread
  BY DEF Next, WriteContinues, Thread
<1>2. ASSUME pc'[t] # "write", WriterHolds(t)', UNCHANGED <<blocks, stateVars, want>>,
             \A u \in Thread : u # t => pc'[u] = pc[u] /\ id'[u] = id[u],
             \A u \in Writer : u # t => todo'[u] = todo[u] /\ at'[u] = at[u],
             \A v \in Val : idStore'[v] = idStore[v] \/ Holds(idStore[v], v)',
             \A k \in Block : \/ lunMap'[k] = lunMap[k] /\ disk'[k] = disk[k]
                              \/ Holds(lunMap[k], disk[k])'
      PROVE  FirstOpening'
  <2>1. \A u \in Writer : WriterStays(u) \/ (pc'[u] # "write" /\ WriterHolds(u)')
    BY <1>2 DEF WriterStays, Thread
  <2>2. \A u \in Reader : ReaderStays(u)
    BY <1>2 DEF ReaderStays, Thread
  <2> QED BY <1>1, <1>2, <2>1, <2>2, QuietStep
<1>3. CASE WriteNext(t)
  <2>1. pc'[t] = "getID" /\ \A u \in Thread : u # t => pc'[u] = pc[u] /\ id'[u] = id[u]
    BY <1>1, <1>3 DEF WriteNext, Goto, TypeOK
  <2> QED BY <1>2, <1>3, <2>1 DEF WriteNext, storeVars, stateVars, WriterHolds
<1>4. CASE GetID(t)
  <2>1. /\ UNCHANGED <<blocks, stateVars, want, idStore, lunMap, disk, todo, at, pending>>
        /\ todo[t] # <<>>
    BY <1>4 DEF GetID, storeVars, stateVars, Places
  <2>2. New(t) \in Val /\ New(t)' = New(t)
    BY <2>1, Current DEF New
  <2>3. /\ id'[t] = Lookup(New(t))
        /\ pc'[t] = IF Lookup(New(t)) = NoID THEN "putBlock" ELSE "putMap"
        /\ \A u \in Thread : u # t => pc'[u] = pc[u] /\ id'[u] = id[u]
    BY <1>1, <1>4 DEF GetID, Goto, TypeOK
  <2>4. ASSUME Lookup(New(t)) # NoID
        PROVE  Holds(Lookup(New(t)), New(t))
    <3>1. CASE New(t) = Zero
      <4>1. ZeroID \notin pending
        BY DEF TypeOK
      <4> QED BY <3>1, <4>1 DEF Lookup, Holds, Contents
    <3>2. CASE New(t) # Zero
      BY <2>2, <2>4, <3>2 DEF Lookup, FirstOpening, IndexHolds
    <3> QED BY <3>1, <3>2
  <2>5. WriterHolds(t)'
    <3>1. CASE Lookup(New(t)) = NoID
      BY <2>3, <3>1 DEF WriterHolds
    <3>2. CASE Lookup(New(t)) # NoID
      <4>1. Holds(id[t], New(t))'
        BY <2>1, <2>2, <2>3, <2>4, <3>2 DEF Holds, Contents
      <4> QED BY <2>3, <3>2, <4>1 DEF WriterHolds
    <3> QED BY <3>1, <3>2
  <2> QED BY <1>2, <2>1, <2>3, <2>5
<1>5. CASE PutID(t)
  <2>1. /\ UNCHANGED <<blocks, stateVars, want, lunMap, disk, todo, id, at, pending>>
        /\ todo[t] # <<>> /\ pc[t] = "putID"
    BY <1>5 DEF PutID, stateVars, Places
  <2>2. New(t) \in Val /\ New(t)' = New(t)
    BY <2>1, Current DEF New
  <2>3. Holds(id[t], New(t))
    BY <2>1 DEF FirstOpening, WritersHold, WriterHolds
  <2>4. Holds(id[t], New(t))'
    BY <2>1, <2>2, <2>3 DEF Holds, Contents
  <2>5. pc'[t] = "putMap" /\ \A u \in Thread : u # t => pc'[u] = pc[u]
    BY <1>1, <1>5 DEF PutID, Goto, TypeOK
  <2>6. WriterHolds(t)'
    BY <2>4, <2>5 DEF WriterHolds
  <2>7. ASSUME NEW v \in Val, idStore'[v] # idStore[v]
        PROVE  Holds(idStore[v], v)'
    <3>1. v = New(t) /\ idStore'[v] = id[t]
      BY <1>5, <2>2, <2>7 DEF PutID, TypeOK
    <3> QED BY <2>1, <2>2, <2>4, <3>1 DEF Holds, Contents
  <2> QED BY <1>2, <2>1, <2>5, <2>6, <2>7
<1>6. CASE PutMap(t)
  <2>1. /\ UNCHANGED <<blocks, stateVars, want, idStore, pending>>
        /\ todo[t] # <<>> /\ pc[t] = "putMap" /\ CallReturns(t)
    BY <1>6 DEF PutMap, stateVars, Places
  <2>2. New(t) \in Val /\ Blk(t) \in Block
    BY <2>1, Current
  <2>3. Holds(id[t], New(t))
    BY <2>1 DEF FirstOpening, WritersHold, WriterHolds
  <2>4. pc'[t] \in {"idle", "multi"}
    BY <1>1, <2>1 DEF CallReturns, Goto, TypeOK
  <2>5. \A u \in Thread : u # t => pc'[u] = pc[u] /\ id'[u] = id[u]
    BY <1>1, <2>1 DEF CallReturns, Goto, TypeOK
  <2>6. \A u \in Writer : u # t => todo'[u] = todo[u] /\ at'[u] = at[u]
    BY <1>1, <2>1 DEF CallReturns, TypeOK
  <2>7. WriterHolds(t)'
    BY <2>4 DEF WriterHolds
  <2>8. ASSUME NEW k \in Block, ~(lunMap'[k] = lunMap[k] /\ disk'[k] = disk[k])
        PROVE  Holds(lunMap[k], disk[k])'
    <3>1. k = Blk(t)
      BY <1>6, <2>2, <2>8 DEF PutMap, TypeOK
    <3>2. lunMap'[k] = id[t] /\ disk'[k] = New(t)
      BY <1>6, <2>2, <3>1 DEF PutMap, TypeOK
    <3> QED BY <2>1, <2>3, <3>2 DEF Holds, Contents
  <2> QED BY <1>2, <2>1, <2>4, <2>5, <2>6, <2>7, <2>8
<1>7. CASE GetIDFails(t)
  <2>1. UNCHANGED <<blocks, stateVars, want, idStore, lunMap, disk>> /\ CallReturns(t)
    BY <1>7 DEF GetIDFails, storeVars
  <2>2. pc'[t] \in {"idle", "multi"}
    BY <1>1, <2>1 DEF CallReturns, Goto, TypeOK
  <2>3. \A u \in Thread : u # t => pc'[u] = pc[u] /\ id'[u] = id[u]
    BY <1>1, <2>1 DEF CallReturns, Goto, TypeOK
  <2>4. \A u \in Writer : u # t => todo'[u] = todo[u] /\ at'[u] = at[u]
    BY <1>1, <2>1 DEF CallReturns, TypeOK
  <2>5. WriterHolds(t)'
    BY <2>2 DEF WriterHolds
  <2> QED BY <1>2, <2>1, <2>2, <2>3, <2>4, <2>5
<1> QED BY <1>3, <1>4, <1>5, <1>6, <1>7

\* A read takes the ID its block has, which stands for what was last written to it.
LEMMA ReadStep ==
    ASSUME TypeOK, Places, FirstOpening, ~Reopen, TypeOK', NEW t \in Reader,
           ReadDone(t) \/ \E k \in Block : ReadBegins(t, k)
    PROVE  FirstOpening'
<1> USE ThreadAssumption
<1>1. [Next]_vars /\ t \in Thread
  BY DEF Next, Thread
<1>2. ASSUME ReaderHolds(t)', \A u \in Thread : u # t => pc'[u] = pc[u] /\ id'[u] = id[u],
             \A u \in Reader : u # t => want'[u] = want[u],
             UNCHANGED <<blocks, stateVars, todo, at, idStore, lunMap, disk>>
      PROVE  FirstOpening'
  <2>1. \A u \in Writer : WriterStays(u)
    BY <1>2 DEF WriterStays, Thread
  <2>2. \A u \in Reader : ReaderStays(u) \/ ReaderHolds(u)'
    BY <1>2 DEF ReaderStays, Thread
  <2> QED BY <1>1, <1>2, <2>1, <2>2, QuietStep
<1>3. CASE ReadDone(t)
  <2>1. pc'[t] = "idle" /\ \A u \in Thread : u # t => pc'[u] = pc[u] /\ id'[u] = id[u]
    BY <1>1, <1>3 DEF ReadDone, Goto, TypeOK
  <2>2. \A u \in Reader : u # t => want'[u] = want[u]
    BY <1>3 DEF ReadDone, TypeOK
  <2> QED BY <1>2, <1>3, <2>1, <2>2 DEF ReadDone, storeVars, stateVars, ReaderHolds
<1>4. ASSUME NEW k \in Block, ReadBegins(t, k)
      PROVE  FirstOpening'
  <2>1. UNCHANGED <<blocks, stateVars, todo, at, idStore, lunMap, disk, pending>>
    BY <1>4 DEF ReadBegins, storeVars, stateVars
  <2>2. id'[t] = lunMap[k] /\ \A u \in Thread : u # t => pc'[u] = pc[u] /\ id'[u] = id[u]
    BY <1>1, <1>4 DEF ReadBegins, Goto, TypeOK
  <2>3. want'[t] = disk[k] /\ \A u \in Reader : u # t => want'[u] = want[u]
    BY <1>4 DEF ReadBegins, TypeOK
  <2>4. Holds(lunMap[k], disk[k])
    BY DEF FirstOpening, MapHolds
  <2>5. ReaderHolds(t)'
    BY <2>1, <2>2, <2>3, <2>4 DEF ReaderHolds, Holds, Contents
  <2> QED BY <1>2, <2>1, <2>2, <2>3, <2>5
<1> QED BY <1>3, <1>4

\* The rest: a write begins, Close, a step of something else.
LEMMA FirstOpeningStep ==
    ASSUME TypeOK, Places, FirstOpening, [Next]_vars, ~Reopen, TypeOK'
    PROVE  FirstOpening'
<1> USE ThreadAssumption
<1>1. ASSUME NEW t \in Writer, NEW r \in Request, WriteBegins(t, r)
      PROVE  FirstOpening'
  <2>1. pc'[t] \in {"getID", "multi"} /\ \A u \in Thread : u # t => pc'[u] = pc[u]
    BY <1>1 DEF WriteBegins, Goto, TypeOK, Thread
  <2>2. \A u \in Writer : u # t => todo'[u] = todo[u]
    BY <1>1 DEF WriteBegins, TypeOK
  <2>3. UNCHANGED <<blocks, stateVars, id, at, idStore, lunMap, disk, want>>
    BY <1>1 DEF WriteBegins, storeVars
  <2>4. \A u \in Writer : WriterStays(u) \/ (pc'[u] # "write" /\ WriterHolds(u)')
    BY <2>1, <2>2, <2>3 DEF WriterStays, WriterHolds, Thread
  <2>5. \A u \in Reader : ReaderStays(u)
    BY <2>1, <2>3 DEF ReaderStays, Thread
  <2> QED BY <2>3, <2>4, <2>5, QuietStep
<1>2. CASE CloseBegins \/ CloseDone \/ UNCHANGED vars
  <2>1. UNCHANGED <<blocks, stateVars, pc, todo, id, at, idStore, lunMap, disk, want>>
    BY <1>2 DEF CloseBegins, CloseDone, vars, storeVars
  <2> QED BY <2>1, QuietStep DEF WriterStays, ReaderStays
<1> QED BY <1>1, <1>2, NextSplits, PutBlockStep, WriteBlockStep, WriteBlockFailsStep,
           WriteQuietStep, ReadStep

-----------------------------------------------------------------------------
\* The inductive invariant: the types, the places of the goroutines, and, as long
\* as the device was not opened again, what every ID in use stands for.
THEOREM Inductive == Spec => []IInv
<1>1. IInv /\ [Next]_vars => IInv'
  <2> SUFFICES ASSUME IInv, [Next]_vars PROVE IInv'
      OBVIOUS
  <2>1. TypeOK /\ Places /\ opens >= 1
    BY DEF IInv
  <2>2. TypeOK' /\ Places'
    BY <2>1, TypeStep
  <2>3. opens' >= 1 /\ (opens' = 1 => opens = 1 /\ ~Reopen)
    BY <2>1, OpensStep
  <2>4. opens' = 1 => FirstOpening'
    BY <2>1, <2>2, <2>3, FirstOpeningStep DEF IInv
  <2> QED BY <2>2, <2>3, <2>4 DEF IInv
<1> QED BY <1>1, InitInv, PTL DEF Spec

\* Every state has the types of TypeOK: no write or read ever leaves the range of
\* dedup IDs, and no goroutine holds the read lock more than twice.
THEOREM TypeCorrect == Spec => []TypeOK
<1>1. IInv => TypeOK
  BY DEF IInv
<1> QED BY <1>1, Inductive, PTL

\* As long as the device was not opened again, every block reads as what was last
\* written to it, however the writes of equal contents raced and whichever failed.
THEOREM LastWriteIsRead == Spec => [](opens = 1 => ReadsLastWrite)
<1>1. IInv => (opens = 1 => ReadsLastWrite)
  BY DEF IInv, FirstOpening, MapHolds, Holds, ReadsLastWrite
<1> QED BY <1>1, Inductive, PTL

\* ... the ID store only knows contents that are completely written,
THEOREM IndexRight == Spec => [](opens = 1 => IndexIsRight)
<1>1. IInv => (opens = 1 => IndexIsRight)
  <2> SUFFICES ASSUME IInv, opens = 1, NEW v \in Val, idStore[v] # NoID
               PROVE  blocks[idStore[v]] = v /\ idStore[v] \notin pending
      BY DEF IndexIsRight
  <2>1. idStore[v] \in Pos /\ Holds(idStore[v], v)
    BY DEF IInv, TypeOK, FirstOpening, IndexHolds
  <2> QED BY <2>1, IDs DEF Holds, Contents
<1> QED BY <1>1, Inductive, PTL

\* ... a read that has its ID finds what its block held when it looked, without a
\* lock that keeps writers out,
THEOREM ReadsStable == Spec => [](opens = 1 => ReadsAreStable)
<1>1. IInv => (opens = 1 => ReadsAreStable)
  BY DEF IInv, FirstOpening, ReadsHold, ReaderHolds, Holds, ReadsAreStable
<1> QED BY <1>1, Inductive, PTL

\* ... and never meets an ID whose write is pending.
THEOREM NeverWaits == Spec => [](opens = 1 => NeverWaitsForBlock)
<1>1. IInv => (opens = 1 => NeverWaitsForBlock)
  BY DEF IInv, FirstOpening, ReadsHold, ReaderHolds, Holds, NeverWaitsForBlock
<1> QED BY <1>1, Inductive, PTL

\* "once written, blocks are immutable": true of a device that is opened once.
THEOREM Immutable == MaxOpens = 1 /\ Spec => BlocksAreImmutable
<1> SUFFICES ASSUME MaxOpens = 1 PROVE Spec => BlocksAreImmutable
    OBVIOUS
<1> DEFINE Once == opens = 1
<1>1. Init => Once
  BY DEF Init
<1>2. Once /\ [Next]_vars => Once'
  BY NextSplits DEF WriteNext, GetID, GetIDFails, PutBlock, WriteBlock, WriteBlockFails,
      PutID, PutMap, WriteBegins, ReadDone, ReadBegins, CloseBegins, CloseDone, Reopen, vars
<1>3. IInv /\ Once /\ Once' /\ [Next]_vars
        => [\A p \in Pos : blocks[p] # NoVal => blocks'[p] = blocks[p]]_vars
  <2> SUFFICES ASSUME IInv, Once, Once', [Next]_vars, NEW p \in Pos, blocks[p] # NoVal
               PROVE  blocks'[p] = blocks[p]
      OBVIOUS
  <2>1. TypeOK /\ FirstOpening
    BY DEF IInv
  <2>2. ASSUME NEW t \in Writer, WriteBlock(t)
        PROVE  blocks'[p] = blocks[p]
    <3>1. at[t] # p
      BY <2>1, <2>2 DEF WriteBlock, FirstOpening, WritersHold, WriterHolds
    <3> QED BY <2>1, <2>2, <3>1 DEF WriteBlock, TypeOK
  <2> QED BY <2>2, NextSplits DEF WriteNext, GetID, GetIDFails, PutBlock, WriteBlockFails, PutID,
      PutMap, WriteBegins, ReadDone, ReadBegins, CloseBegins, CloseDone, Reopen, vars, storeVars
<1> QED BY <1>1, <1>2, <1>3, Inductive, PTL DEF Spec, BlocksAreImmutable

=============================================================================
