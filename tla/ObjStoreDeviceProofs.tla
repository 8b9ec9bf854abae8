------------------------ MODULE ObjStoreDeviceProofs ------------------------
(***************************************************************************)
(* Proofs about ObjStoreDevice, for any number of segments and goroutines, *)
(* any quota and any requests, and whatever fails.                         *)
(***************************************************************************)
EXTENDS ObjStoreDevice, FiniteSetTheorems, TLAPS

-----------------------------------------------------------------------------
(* The inductive invariant *)

IoRec == [op : {"none", "read", "write"}, first : Nat, len : Nat, seg : Nat,
          pos : 0 .. SegBytes - 1, left : Nat, tries : 0 .. MaxCapTries]
LruRec == [i : 0 .. NSeg, clean : Seg \cup {None}, stale : Seg \cup {None}, tries : 0 .. MaxTries]

Searching == {"scan", "evict", "sync", "upload", "remove", "release"}
IoLabels == {"idle", "piece", "load", "fetch", "ok", "eof", "starved", "failed"} \cup Searching
WorkLabels == {"none", "start", "lock", "item", "upload", "done"}

SegTypes ==
    /\ backed \in [Seg -> BOOLEAN] /\ dirty \in [Seg -> BOOLEAN] /\ item \in [Seg -> BOOLEAN]
    /\ fileW \in [Seg -> IO \cup {None}] /\ fileR \in [Seg -> SUBSET Syncer]
    /\ itemW \in [Seg -> Thread \cup {None}]
    /\ covers \in [Seg -> SUBSET Syncer]
IoTypes ==
    /\ io \in [IO -> IoRec] /\ lru \in [IO -> LruRec]
    /\ rival \in [IO -> BOOLEAN] /\ free \in Nat /\ leaked \in Nat
    /\ touched \in [IO -> SUBSET (Nat \X Nat)]
FlushTypes ==
    /\ todo \in [Syncer -> SUBSET Seg] /\ due \in [Syncer -> SUBSET Seg]
    /\ hasBuf \in [Syncer -> SUBSET Seg] /\ work \in [Syncer -> [Seg -> WorkLabels]]
    /\ pool \in [Syncer -> Nat] /\ alloc \in [Syncer -> 0 .. MaxBufs] /\ err \in [Syncer -> BOOLEAN]
PcTypes ==
    /\ pc \in [Thread -> IoLabels \cup {"flush", "flushed", "flushErr", "want", "closed",
                                        "closeErr"}]
    /\ \A t \in IO : pc[t] \in IoLabels
    /\ \A f \in Flusher : pc[f] \in {"idle", "flush", "flushed", "flushErr"}
    /\ \A c \in Closer : pc[c] \in {"idle", "want", "flush", "flushed", "flushErr", "closed",
                                    "closeErr"}
    /\ cancelled \in BOOLEAN
Types == SegTypes /\ IoTypes /\ FlushTypes /\ PcTypes

\* Close has waited for everyone else and lets nobody in again.
Alone == /\ cancelled => NoOneInside
         /\ \A c \in Closer : pc[c] \in {"flush", "flushed", "flushErr"} => cancelled

\* What a goroutine in ioAt knows of the segment it loads or evicts.
Owns(t) ==
    /\ pc[t] \in Searching => io[t].tries < MaxCapTries
    /\ pc[t] \in {"load", "fetch"} =>
          LET s == io[t].seg IN s \in Seg /\ fileW[s] = t /\ ~backed[s]
    /\ pc[t] = "evict" => Victim(t) \in Seg
    /\ pc[t] \in {"sync", "upload", "remove"} =>
          Victim(t) \in Seg /\ fileW[Victim(t)] = t /\ backed[Victim(t)]
    /\ pc[t] = "release" => Victim(t) \in Seg /\ fileW[Victim(t)] = t
Owners == \A t \in IO : Owns(t)

\* While nobody else moves capacity and none was lost: there is a segment to evict, and
\* the search that has evicted one has its unit.
Finds(t) ==
    leaked = 0 /\ ~rival[t] =>
        /\ pc[t] = "scan" => \E s \in Seg : /\ s # io[t].seg /\ backed[s]
                                            /\ lru[t].i <= s \/ Victim(t) # None
        /\ pc[t] = "evict" => backed[Victim(t)]
        /\ pc[t] \in {"piece", "load"} /\ io[t].tries > 0 => free > 0
        /\ pc[t] # "starved"
Searches == \A t \in IO : Finds(t)

\* The goroutines of a flush, and its buffers.
Works(f) ==
    /\ pc[f] # "flush" => todo[f] = {} /\ Running(f) = {}
    /\ todo[f] \cap Running(f) = {}
    /\ hasBuf[f] \subseteq Running(f)
    /\ \A s \in Seg : work[f][s] = "start" => s \notin hasBuf[f]
    /\ Cardinality(Running(f)) <= ConcurFlush
    /\ pool[f] + Cardinality(hasBuf[f]) <= ConcurFlush
Workers == \A f \in Syncer : Works(f)

\* What a flush still owes a segment: it has failed, an upload pays for it, or it will
\* come to it.
Owed(f, s) ==
    \/ err[f]
    \/ itemW[s] # None /\ f \in covers[s]
    \/ dirty[s] /\ (s \in todo[f] \/ work[f][s] \in {"start", "lock", "item"})
Owes(f) ==
    /\ pc[f] = "flushed" => ~err[f]
    /\ pc[f] \in {"flush", "flushed"} => \A s \in due[f] : Owed(f, s)
Debts == \A f \in Syncer : Owes(f)

\* How far a request is, and what it has transferred: the bytes before that.
Reached(t) == io[t].seg * SegBytes + io[t].pos
Bytes(from, to) == {<<b \div SegBytes, b % SegBytes>> : b \in from .. to - 1}
Transfers(t) ==
    /\ pc[t] \in {"piece", "load", "fetch", "eof"} \cup Searching =>
          /\ Reached(t) + io[t].left = io[t].first + io[t].len
          /\ io[t].left > 0 /\ io[t].left <= io[t].len
          /\ touched[t] = Bytes(io[t].first, Reached(t)) /\ touched[t] \subseteq Seg \X Nat
    /\ pc[t] = "eof" => io[t].seg >= NSeg
    /\ pc[t] = "ok" => touched[t] = Bytes(io[t].first, io[t].first + io[t].len)
    /\ pc[t] = "idle" => touched[t] = {}
Ranges == \A t \in IO : Transfers(t)

\* Who holds a lock is on the way to give it back.
HeldFile(s) ==
    LET t == fileW[s] IN
    t # None => \/ pc[t] \in {"load", "fetch"} /\ io[t].seg = s
                \/ pc[t] \in {"sync", "upload", "remove", "release"} /\ Victim(t) = s
HeldItem(s) ==
    LET t == itemW[s] IN
    t # None => \/ t \in IO /\ pc[t] = "upload" /\ Victim(t) = s
                \/ t \in Syncer /\ work[t][s] = "upload"
Held == \A s \in Seg : /\ HeldFile(s) /\ HeldItem(s)
                       /\ \A f \in fileR[s] : work[f][s] \in {"item", "upload"}

\* The segments that hold a unit.
Cached == {s \in Seg : backed[s]}

-----------------------------------------------------------------------------
(* Numbers and finite sets *)

\* A device has a segment, and a segment a byte.
LEMMA Sizes == NSeg \in Nat \ {0} /\ SegBytes \in Nat \ {0}
BY SizeAssumption DEF NSeg

\* The smaller of two numbers.
LEMMA MinOfTwo ==
    ASSUME NEW a \in Int, NEW b \in Int
    PROVE  Min({a, b}) = IF a <= b THEN a ELSE b
BY DEF Min

\* A piece ends with the request or with the segment.
LEMMA PieceIs ==
    ASSUME IoTypes, NEW t \in IO
    PROVE  /\ PieceLen(t) = IF io[t].left <= SegBytes - io[t].pos THEN io[t].left
                            ELSE SegBytes - io[t].pos
           /\ PieceLen(t) \in Nat /\ io[t].left - PieceLen(t) \in Nat
<1>1. io[t].left \in Nat /\ io[t].pos \in 0 .. SegBytes - 1  BY DEF IoTypes, IoRec
<1>2. SegBytes - io[t].pos \in Nat  BY <1>1, Sizes
<1>. QED  BY <1>1, <1>2, MinOfTwo DEF PieceLen

\* There are finitely many segments and goroutines.
LEMMA Finite ==
    /\ \A S \in SUBSET Seg : IsFiniteSet(S) /\ Cardinality(S) \in Nat
    /\ \A T \in SUBSET IO : IsFiniteSet(T) /\ Cardinality(T) \in Nat
<1>1. IsFiniteSet(Seg)  BY Sizes, FS_Interval DEF Seg
<1>. QED  BY <1>1, RoleAssumption, FS_Subset, FS_CardinalityType

\* Requests are what ReadAt and WriteAt are called with.
LEMMA RequestTypes ==
    \A r \in Request : r[1] \in {"read", "write"} /\ r[2] \in Nat /\ r[3] \in Nat \ {0}
BY SizeAssumption

\* Adding a segment to a set of them adds at most one, and exactly one if it is new.
LEMMA AddSeg ==
    ASSUME NEW S \in SUBSET Seg, NEW s
    PROVE  /\ IsFiniteSet(S \cup {s}) /\ Cardinality(S \cup {s}) \in Nat
           /\ Cardinality(S \cup {s}) <= Cardinality(S) + 1
           /\ s \notin S => Cardinality(S \cup {s}) = Cardinality(S) + 1
<1>1. IsFiniteSet(S) /\ Cardinality(S) \in Nat  BY Finite
<1>2. /\ IsFiniteSet(S \cup {s})
      /\ Cardinality(S \cup {s}) = IF s \in S THEN Cardinality(S) ELSE Cardinality(S) + 1
  BY <1>1, FS_AddElement
<1>. QED  BY <1>1, <1>2

\* Removing one that is there removes one.
LEMMA RemoveSeg ==
    ASSUME NEW S \in SUBSET Seg, NEW s \in S
    PROVE  Cardinality(S \ {s}) = Cardinality(S) - 1
<1>1. IsFiniteSet(S)  BY Finite
<1>. QED  BY <1>1, FS_RemoveElement

\* Fewer segments, a smaller number.
LEMMA FewerSegs ==
    ASSUME NEW S \in SUBSET Seg, NEW T \in SUBSET S
    PROVE  Cardinality(T) <= Cardinality(S)
<1>1. IsFiniteSet(S)  BY Finite
<1>. QED  BY <1>1, FS_Subset

\* A set of segments that is not empty has a first one.
LEMMA FirstSeg == ASSUME NEW S \in SUBSET Seg, S # {} PROVE Min(S) \in S
<1>1. S \subseteq Nat  BY Sizes DEF Seg
<1>2. PICK x \in S : \A y \in S : ~ (<<y, x>> \in OpToRel(<, Nat))
  BY <1>1, WFMin, NatLessThanWellFounded
<1>3. ASSUME NEW y \in S PROVE x <= y
  <2>1. <<y, x>> \in Nat \X Nat => ~ (y < x)  BY <1>2 DEF OpToRel
  <2>. QED  BY <1>1, <2>1
<1>. QED  BY <1>3 DEF Min

-----------------------------------------------------------------------------
(* Types *)

\* The steps that several actions share.
LEMMA AdvanceTypes ==
    ASSUME IoTypes, NEW t \in IO, Advance(t)
    PROVE  /\ io' \in [IO -> IoRec] /\ rival' \in [IO -> BOOLEAN] /\ lru' = lru
           /\ touched' \in [IO -> SUBSET (Nat \X Nat)]
<1>1. io[t] \in IoRec  BY DEF IoTypes
<1>2. io[t].left - PieceLen(t) \in Nat  BY PieceIs
<1>3. 0 \in 0 .. SegBytes - 1 /\ 0 \in 0 .. MaxCapTries  BY Sizes, BoundAssumption
<1>4. [op |-> io[t].op, first |-> io[t].first, len |-> io[t].len, seg |-> io[t].seg + 1,
       pos |-> NextOffset(t), left |-> io[t].left - PieceLen(t), tries |-> 0] \in IoRec
  BY <1>1, <1>2, <1>3 DEF IoRec, NextOffset
<1>5. io' \in [IO -> IoRec]  BY <1>4 DEF IoTypes, Advance
<1>6. rival' \in [IO -> BOOLEAN]  BY DEF IoTypes, Advance
<1>7. lru' = lru  BY DEF Advance
<1>8. touched' \in [IO -> SUBSET (Nat \X Nat)]
  <2>1. \A b \in io[t].pos .. io[t].pos + PieceLen(t) - 1 : <<io[t].seg, b>> \in Nat \X Nat
    BY <1>1, PieceIs DEF IoRec
  <2>. QED  BY <2>1 DEF IoTypes, Advance
<1>. QED  BY <1>5, <1>6, <1>7, <1>8

\* ioAt's counter of tries stays within maxCapTries.
LEMMA RetriesTypes ==
    ASSUME IoTypes, NEW t \in IO, io[t].tries < MaxCapTries, Retries(t)
    PROVE  io' \in [IO -> IoRec] /\ lru' \in [IO -> LruRec]
<1>1. NoScan \in LruRec  BY Sizes, BoundAssumption DEF NoScan, LruRec
<1>2. lru' \in [IO -> LruRec]  BY <1>1 DEF IoTypes, Retries
<1>3. io[t].tries + 1 \in 0 .. MaxCapTries  BY BoundAssumption DEF IoTypes, IoRec
<1>4. io' \in [IO -> IoRec]  BY <1>3 DEF IoTypes, IoRec, Retries
<1>. QED  BY <1>2, <1>4

\* A goroutine of a flush goes to one of its places.
LEMMA WorkTypes ==
    ASSUME FlushTypes, NEW f \in Syncer, NEW s, NEW l \in WorkLabels, Work(f, s, l)
    PROVE  work' \in [Syncer -> [Seg -> WorkLabels]]
BY DEF FlushTypes, Work

\* A flush begins with sets of segments.
LEMMA FlushStartsTypes ==
    ASSUME FlushTypes, NEW f \in Syncer, FlushStarts(f)
    PROVE  FlushTypes'
<1>1. todo' \in [Syncer -> SUBSET Seg]  BY DEF FlushTypes, FlushStarts
<1>2. due' \in [Syncer -> SUBSET Seg]  BY DEF FlushTypes, FlushStarts
<1>. QED  BY <1>1, <1>2 DEF FlushTypes, FlushStarts

\* Every variable keeps its type.
LEMMA TypesStep == Types /\ Owners /\ [Next]_vars => Types'
<1>. SUFFICES ASSUME Types, Owners, [Next]_vars PROVE Types'  OBVIOUS
<1>. USE Sizes, SizeAssumption, BoundAssumption, RoleAssumption DEF Types, Thread, Syncer,
       segVars, ioVars, capVars, flushVars, dueVars
<1>1. ASSUME NEW t \in IO, NEW op \in {"read", "write"}, NEW first \in Nat,
       NEW len \in Nat \ {0}, IoBegins(t, op, first, len) PROVE Types'
  <2>. USE <1>1 DEF IoBegins, Goto
  <2>1. SegTypes'  BY DEF SegTypes, IoTypes, PcTypes, IoLabels, Searching, Owners, Owns
  <2>2. IoTypes'
    <3>1. first \div SegBytes \in Nat /\ first % SegBytes \in 0 .. SegBytes - 1  OBVIOUS
    <3>2. io' \in [IO -> IoRec]  BY <3>1 DEF IoTypes, IoRec
    <3>. QED  BY <3>2 DEF IoTypes
  <2>3. FlushTypes'  BY DEF FlushTypes, WorkLabels, SegTypes
  <2>4. PcTypes'  BY DEF PcTypes, IoLabels, Searching
  <2>. QED  BY <2>1, <2>2, <2>3, <2>4
<1>2. ASSUME NEW t \in IO, IoPastEnd(t) PROVE Types'
  <2>. USE <1>2 DEF IoPastEnd, Goto
  <2>1. SegTypes'  BY DEF SegTypes, IoTypes, PcTypes, IoLabels, Searching, Owners, Owns
  <2>2. IoTypes'  BY DEF IoTypes, IoRec, LruRec, Seg, SegTypes, PcTypes, Owners, Owns, Searching
  <2>3. FlushTypes'  BY DEF FlushTypes, WorkLabels, SegTypes
  <2>4. PcTypes'  BY DEF PcTypes, IoLabels, Searching
  <2>. QED  BY <2>1, <2>2, <2>3, <2>4
<1>3. ASSUME NEW t \in IO, IoAccess(t) PROVE Types'
  <2>. USE <1>3 DEF IoAccess, WriteDone, Advance, NextOffset, Goto
  <2>1. SegTypes'  BY DEF SegTypes, IoTypes, PcTypes, IoLabels, Searching, Owners, Owns
  <2>2. IoTypes'  BY AdvanceTypes DEF IoTypes
  <2>3. FlushTypes'  BY DEF FlushTypes, WorkLabels, SegTypes
  <2>4. PcTypes'  BY DEF PcTypes, IoLabels, Searching
  <2>. QED  BY <2>1, <2>2, <2>3, <2>4
<1>3a. ASSUME NEW t \in IO, LoadLocks(t) PROVE Types'
  <2>. USE <1>3a DEF LoadLocks, FileIsFree, Goto
  <2>1. SegTypes'  BY DEF SegTypes, IoTypes, PcTypes, IoLabels, Searching, Owners, Owns
  <2>2. IoTypes'  BY DEF IoTypes, IoRec, LruRec, Seg, SegTypes, PcTypes, Owners, Owns, Searching
  <2>3. FlushTypes'  BY DEF FlushTypes, WorkLabels, SegTypes
  <2>4. PcTypes'  BY DEF PcTypes, IoLabels, Searching
  <2>. QED  BY <2>1, <2>2, <2>3, <2>4
<1>4. ASSUME NEW t \in IO, IoReadsZeros(t) PROVE Types'
  <2>. USE <1>4 DEF IoReadsZeros, LoadsFile, UnlockFile, Advance, NextOffset, Goto
  <2>1. SegTypes'  BY DEF SegTypes, IoTypes, PcTypes, IoLabels, Searching, Owners, Owns
  <2>2. IoTypes'  BY AdvanceTypes DEF IoTypes
  <2>3. FlushTypes'  BY DEF FlushTypes, WorkLabels, SegTypes
  <2>4. PcTypes'  BY DEF PcTypes, IoLabels, Searching
  <2>. QED  BY <2>1, <2>2, <2>3, <2>4
<1>5. ASSUME NEW t \in IO, IoClaims(t) PROVE Types'
  <2>. USE <1>5 DEF IoClaims, LoadsFile, Moved, Goto
  <2>1. SegTypes'  BY DEF SegTypes, IoTypes, PcTypes, IoLabels, Searching, Owners, Owns
  <2>2. IoTypes'  BY DEF IoTypes, IoRec, LruRec, Seg, SegTypes, PcTypes, Owners, Owns, Searching
  <2>3. FlushTypes'  BY DEF FlushTypes, WorkLabels, SegTypes
  <2>4. PcTypes'  BY DEF PcTypes, IoLabels, Searching
  <2>. QED  BY <2>1, <2>2, <2>3, <2>4
<1>6. ASSUME NEW t \in IO, IoRefused(t) PROVE Types'
  <2>. USE <1>6 DEF IoRefused, LoadsFile, UnlockFile, NoScan, Goto
  <2>1. SegTypes'  BY DEF SegTypes, IoTypes, PcTypes, IoLabels, Searching, Owners, Owns
  <2>2. IoTypes'  BY DEF IoTypes, IoRec, LruRec, Seg, SegTypes, PcTypes, Owners, Owns, Searching
  <2>3. FlushTypes'  BY DEF FlushTypes, WorkLabels, SegTypes
  <2>4. PcTypes'  BY DEF PcTypes, IoLabels, Searching
  <2>. QED  BY <2>1, <2>2, <2>3, <2>4
<1>7. ASSUME NEW t \in IO, IoLoaded(t) PROVE Types'
  <2>. USE <1>7 DEF IoLoaded, UnlockFile, WriteDone, Advance, NextOffset, Goto
  <2>1. SegTypes'  BY DEF SegTypes, IoTypes, PcTypes, IoLabels, Searching, Owners, Owns
  <2>2. IoTypes'  BY AdvanceTypes DEF IoTypes
  <2>3. FlushTypes'  BY DEF FlushTypes, WorkLabels, SegTypes
  <2>4. PcTypes'  BY DEF PcTypes, IoLabels, Searching
  <2>. QED  BY <2>1, <2>2, <2>3, <2>4
<1>8. ASSUME NEW t \in IO, IoLoadFails(t) PROVE Types'
  <2>. USE <1>8 DEF IoLoadFails, Moved, UnlockFile, Goto
  <2>1. SegTypes'  BY DEF SegTypes, IoTypes, PcTypes, IoLabels, Searching, Owners, Owns
  <2>2. IoTypes'
    <3>1. rival' \in [IO -> BOOLEAN]  BY DEF IoTypes
    <3>2. free' \in Nat /\ leaked' \in Nat
      <4>1. CASE item[io[t].seg]  BY <4>1 DEF IoTypes
      <4>2. CASE ~item[io[t].seg]  BY <4>2 DEF IoTypes
      <4>. QED  BY <4>1, <4>2
    <3>3. io' = io /\ lru' = lru  OBVIOUS
    <3>. QED  BY <3>1, <3>2, <3>3 DEF IoTypes
  <2>3. FlushTypes'  BY DEF FlushTypes, WorkLabels, SegTypes
  <2>4. PcTypes'  BY DEF PcTypes, IoLabels, Searching
  <2>. QED  BY <2>1, <2>2, <2>3, <2>4
<1>9. ASSUME NEW t \in IO, IoReturns(t) PROVE Types'
  <2>. USE <1>9 DEF IoReturns, NoRequest, NoScan, Goto
  <2>1. SegTypes'  BY DEF SegTypes, IoTypes, PcTypes, IoLabels, Searching, Owners, Owns
  <2>2. IoTypes'  BY DEF IoTypes, IoRec, LruRec, Seg, SegTypes, PcTypes, Owners, Owns, Searching
  <2>3. FlushTypes'  BY DEF FlushTypes, WorkLabels, SegTypes
  <2>4. PcTypes'  BY DEF PcTypes, IoLabels, Searching
  <2>. QED  BY <2>1, <2>2, <2>3, <2>4
<1>10. ASSUME NEW t \in IO, Scan(t) PROVE Types'
  <2>. USE <1>10 DEF Scan, LooksAt
  <2>1. SegTypes'  BY DEF SegTypes, IoTypes, PcTypes, IoLabels, Searching, Owners, Owns
  <2>2. IoTypes'
    <3>1. lru[t] \in LruRec  BY DEF IoTypes
    <3>2. lru[t].i \in Seg /\ lru[t].i + 1 \in 0 .. NSeg  BY <3>1 DEF LruRec, Seg
    <3>3. PICK taken \in BOOLEAN :
             lru' = [lru EXCEPT ![t] =
                       [i |-> lru[t].i + 1, tries |-> lru[t].tries,
                        clean |-> IF taken /\ ~dirty[lru[t].i] THEN lru[t].i ELSE lru[t].clean,
                        stale |-> IF taken /\ dirty[lru[t].i] THEN lru[t].i ELSE lru[t].stale]]
      OBVIOUS
    <3>4. [i |-> lru[t].i + 1, tries |-> lru[t].tries,
           clean |-> IF taken /\ ~dirty[lru[t].i] THEN lru[t].i ELSE lru[t].clean,
           stale |-> IF taken /\ dirty[lru[t].i] THEN lru[t].i ELSE lru[t].stale] \in LruRec
      BY <3>1, <3>2 DEF LruRec
    <3>5. lru' \in [IO -> LruRec]  BY <3>3, <3>4 DEF IoTypes
    <3>. QED  BY <3>5 DEF IoTypes
  <2>3. FlushTypes'  BY DEF FlushTypes, WorkLabels, SegTypes
  <2>4. PcTypes'  BY DEF PcTypes, IoLabels, Searching
  <2>. QED  BY <2>1, <2>2, <2>3, <2>4
<1>11. ASSUME NEW t \in IO, Choose(t) PROVE Types'
  <2>. USE <1>11 DEF Choose, Victim, NoScan, Goto
  <2>1. SegTypes'  BY DEF SegTypes, IoTypes, PcTypes, IoLabels, Searching, Owners, Owns
  <2>2. IoTypes'
    <3>1. lru[t] \in LruRec /\ lru[t].tries \in 0 .. MaxTries  BY DEF IoTypes, LruRec
    <3>2. Victim(t) \in Seg \cup {None}  BY <3>1 DEF LruRec
    <3>3. NoScan \in LruRec  BY DEF LruRec
    <3>4. Victim(t) # None => [NoScan EXCEPT !.clean = Victim(t)] \in LruRec
      BY <3>2 DEF LruRec
    <3>5. [NoScan EXCEPT !.tries = Min({lru[t].tries + 1, MaxTries})] \in LruRec
      <4>1. lru[t].tries + 1 \in Int /\ MaxTries \in Int  BY <3>1
      <4>2. Min({lru[t].tries + 1, MaxTries}) =
               IF lru[t].tries + 1 <= MaxTries THEN lru[t].tries + 1 ELSE MaxTries
        BY <4>1, MinOfTwo
      <4>3. Min({lru[t].tries + 1, MaxTries}) \in 0 .. MaxTries  BY <3>1, <4>2
      <4>. QED  BY <4>3 DEF LruRec
    <3>. HIDE DEF NoScan, Victim
    <3>6. lru' \in [IO -> LruRec]  BY <3>3, <3>4, <3>5 DEF IoTypes
    <3>. QED  BY <3>6 DEF IoTypes
  <2>3. FlushTypes'  BY DEF FlushTypes, WorkLabels, SegTypes
  <2>4. PcTypes'  BY DEF PcTypes, IoLabels, Searching
  <2>. QED  BY <2>1, <2>2, <2>3, <2>4
<1>12. ASSUME NEW t \in IO, EvictNothing(t) PROVE Types'
  <2>. USE <1>12 DEF EvictNothing, Retries, NoScan, FileIsFree, Goto
  <2>1. SegTypes'  BY DEF SegTypes, IoTypes, PcTypes, IoLabels, Searching, Owners, Owns
  <2>2. IoTypes'
    <3>1. io[t].tries < MaxCapTries  BY DEF Owners, Owns, Searching
    <3>2. io' \in [IO -> IoRec] /\ lru' \in [IO -> LruRec]
      <4>1. Retries(t)  BY DEF EvictNothing
      <4>. QED  BY <3>1, <4>1, RetriesTypes
    <3>. QED  BY <3>2 DEF IoTypes
  <2>3. FlushTypes'  BY DEF FlushTypes, WorkLabels, SegTypes
  <2>4. PcTypes'  BY DEF PcTypes, IoLabels, Searching
  <2>. QED  BY <2>1, <2>2, <2>3, <2>4
<1>13. ASSUME NEW t \in IO, EvictLocks(t) PROVE Types'
  <2>. USE <1>13 DEF EvictLocks, FileIsFree, Goto
  <2>1. SegTypes'  BY DEF SegTypes, IoTypes, PcTypes, IoLabels, Searching, Owners, Owns
  <2>2. IoTypes'  BY DEF IoTypes, IoRec, LruRec, Seg, SegTypes, PcTypes, Owners, Owns, Searching
  <2>3. FlushTypes'  BY DEF FlushTypes, WorkLabels, SegTypes
  <2>4. PcTypes'  BY DEF PcTypes, IoLabels, Searching
  <2>. QED  BY <2>1, <2>2, <2>3, <2>4
<1>13a. ASSUME NEW t \in IO, EvictUploads(t) PROVE Types'
  <2>. USE <1>13a DEF EvictUploads, UploadBegins, Goto
  <2>1. SegTypes'
    <3>1. Victim(t) \in Seg  BY DEF Owners, Owns
    <3>. HIDE DEF Victim
    <3>2. itemW' \in [Seg -> Thread \cup {None}]  BY DEF SegTypes
    <3>3. dirty' \in [Seg -> BOOLEAN]  BY ZenonT(60) DEF SegTypes
    <3>4. covers' \in [Seg -> SUBSET Syncer]  BY DEF SegTypes
    <3>. QED  BY <3>2, <3>3, <3>4 DEF SegTypes
  <2>2. IoTypes'  BY DEF IoTypes, IoRec, LruRec, Seg, SegTypes, PcTypes, Owners, Owns, Searching
  <2>3. FlushTypes'  BY DEF FlushTypes, WorkLabels, SegTypes
  <2>4. PcTypes'  BY DEF PcTypes, IoLabels, Searching
  <2>. QED  BY <2>1, <2>2, <2>3, <2>4
<1>14. ASSUME NEW t \in IO, EvictUploaded(t) PROVE Types'
  <2>. USE <1>14 DEF EvictUploaded, UploadEnds, Goto
  <2>1. SegTypes'  BY DEF SegTypes, IoTypes, PcTypes, IoLabels, Searching, Owners, Owns
  <2>2. IoTypes'  BY DEF IoTypes, IoRec, LruRec, Seg, SegTypes, PcTypes, Owners, Owns, Searching
  <2>3. FlushTypes'  BY DEF FlushTypes, WorkLabels, SegTypes
  <2>4. PcTypes'  BY DEF PcTypes, IoLabels, Searching
  <2>. QED  BY <2>1, <2>2, <2>3, <2>4
<1>15. ASSUME NEW t \in IO, EvictUploadFails(t) PROVE Types'
  <2>. USE <1>15 DEF EvictUploadFails, UploadEnds, UnlockFile, Goto
  <2>1. SegTypes'  BY DEF SegTypes, IoTypes, PcTypes, IoLabels, Searching, Owners, Owns
  <2>2. IoTypes'  BY DEF IoTypes, IoRec, LruRec, Seg, SegTypes, PcTypes, Owners, Owns, Searching
  <2>3. FlushTypes'  BY DEF FlushTypes, WorkLabels, SegTypes
  <2>4. PcTypes'  BY DEF PcTypes, IoLabels, Searching
  <2>. QED  BY <2>1, <2>2, <2>3, <2>4
<1>16. ASSUME NEW t \in IO, EvictRemoves(t) PROVE Types'
  <2>. USE <1>16 DEF EvictRemoves, Moved, Goto
  <2>1. SegTypes'  BY DEF SegTypes, IoTypes, PcTypes, IoLabels, Searching, Owners, Owns
  <2>2. IoTypes'  BY DEF IoTypes, IoRec, LruRec, Seg, SegTypes, PcTypes, Owners, Owns, Searching
  <2>3. FlushTypes'  BY DEF FlushTypes, WorkLabels, SegTypes
  <2>4. PcTypes'  BY DEF PcTypes, IoLabels, Searching
  <2>. QED  BY <2>1, <2>2, <2>3, <2>4
<1>17. ASSUME NEW t \in IO, EvictReleases(t) PROVE Types'
  <2>. USE <1>17 DEF EvictReleases, Releases, Moved, UnlockFile, Retries, NoScan, Goto
  <2>1. SegTypes'  BY DEF SegTypes, IoTypes, PcTypes, IoLabels, Searching, Owners, Owns
  <2>2. IoTypes'
    <3>1. io[t].tries < MaxCapTries  BY DEF Owners, Owns, Searching
    <3>2. io' \in [IO -> IoRec] /\ lru' \in [IO -> LruRec]
      <4>1. Retries(t)  BY DEF EvictReleases
      <4>. QED  BY <3>1, <4>1, RetriesTypes
    <3>3. rival' \in [IO -> BOOLEAN] /\ free' \in Nat  BY DEF IoTypes
    <3>. QED  BY <3>2, <3>3 DEF IoTypes
  <2>3. FlushTypes'  BY DEF FlushTypes, WorkLabels, SegTypes
  <2>4. PcTypes'  BY DEF PcTypes, IoLabels, Searching
  <2>. QED  BY <2>1, <2>2, <2>3, <2>4
<1>18. ASSUME NEW f \in Flusher, FlushBegins(f) PROVE Types'
  <2>. USE <1>18 DEF FlushBegins, FlushStarts, Goto
  <2>1. SegTypes'  BY DEF SegTypes, IoTypes, PcTypes, IoLabels, Searching, Owners, Owns
  <2>2. IoTypes'  BY DEF IoTypes, IoRec, LruRec, Seg, SegTypes, PcTypes, Owners, Owns, Searching
  <2>3. FlushTypes'  BY FlushStartsTypes
  <2>4. PcTypes'  BY DEF PcTypes, IoLabels, Searching
  <2>. QED  BY <2>1, <2>2, <2>3, <2>4
<1>19. ASSUME NEW f \in Syncer, FlushSpawns(f) PROVE Types'
  <2>. USE <1>19 DEF FlushSpawns, Work
  <2>1. SegTypes'  BY DEF SegTypes, IoTypes, PcTypes, IoLabels, Searching, Owners, Owns
  <2>2. IoTypes'  BY DEF IoTypes, IoRec, LruRec, Seg, SegTypes, PcTypes, Owners, Owns, Searching
  <2>3. FlushTypes'
    <3>1. todo' \in [Syncer -> SUBSET Seg]  BY DEF FlushTypes
    <3>2. work' \in [Syncer -> [Seg -> WorkLabels]]  BY WorkTypes DEF FlushTypes, WorkLabels
    <3>. QED  BY <3>1, <3>2 DEF FlushTypes
  <2>4. PcTypes'  BY DEF PcTypes, IoLabels, Searching
  <2>. QED  BY <2>1, <2>2, <2>3, <2>4
<1>20. ASSUME NEW f \in Syncer, FlushWaited(f) PROVE Types'
  <2>. USE <1>20 DEF FlushWaited, Goto
  <2>1. SegTypes'  BY DEF SegTypes, IoTypes, PcTypes, IoLabels, Searching, Owners, Owns
  <2>2. IoTypes'  BY DEF IoTypes, IoRec, LruRec, Seg, SegTypes, PcTypes, Owners, Owns, Searching
  <2>3. FlushTypes'  BY DEF FlushTypes, WorkLabels, SegTypes
  <2>4. PcTypes'  BY DEF PcTypes, IoLabels, Searching
  <2>. QED  BY <2>1, <2>2, <2>3, <2>4
<1>21. ASSUME NEW f \in Flusher, FlushReturns(f) PROVE Types'
  <2>. USE <1>21 DEF FlushReturns, FlushForgets, Goto
  <2>1. SegTypes'  BY DEF SegTypes, IoTypes, PcTypes, IoLabels, Searching, Owners, Owns
  <2>2. IoTypes'  BY DEF IoTypes, IoRec, LruRec, Seg, SegTypes, PcTypes, Owners, Owns, Searching
  <2>3. FlushTypes'  BY DEF FlushTypes, WorkLabels, SegTypes
  <2>4. PcTypes'  BY DEF PcTypes, IoLabels, Searching
  <2>. QED  BY <2>1, <2>2, <2>3, <2>4
<1>22. ASSUME NEW f \in Closer, CloseWants(f) PROVE Types'
  <2>. USE <1>22 DEF CloseWants, Goto
  <2>1. SegTypes'  BY DEF SegTypes, IoTypes, PcTypes, IoLabels, Searching, Owners, Owns
  <2>2. IoTypes'  BY DEF IoTypes, IoRec, LruRec, Seg, SegTypes, PcTypes, Owners, Owns, Searching
  <2>3. FlushTypes'  BY DEF FlushTypes, WorkLabels, SegTypes
  <2>4. PcTypes'  BY DEF PcTypes, IoLabels, Searching
  <2>. QED  BY <2>1, <2>2, <2>3, <2>4
<1>23. ASSUME NEW f \in Closer, CloseLocks(f) PROVE Types'
  <2>. USE <1>23 DEF CloseLocks, FlushStarts, Goto
  <2>1. SegTypes'  BY DEF SegTypes, IoTypes, PcTypes, IoLabels, Searching, Owners, Owns
  <2>2. IoTypes'  BY DEF IoTypes, IoRec, LruRec, Seg, SegTypes, PcTypes, Owners, Owns, Searching
  <2>3. FlushTypes'
    <3>1. CASE cancelled  BY <3>1 DEF FlushTypes
    <3>2. CASE ~cancelled
      <4>1. FlushStarts(f)  BY <3>2
      <4>. QED  BY <4>1, FlushStartsTypes
    <3>. QED  BY <3>1, <3>2
  <2>4. PcTypes'  BY DEF PcTypes, IoLabels, Searching
  <2>. QED  BY <2>1, <2>2, <2>3, <2>4
<1>24. ASSUME NEW f \in Closer, CloseEmpties(f) PROVE Types'
  <2>. USE <1>24 DEF CloseEmpties, FlushForgets, Goto
  <2>1. SegTypes'
    <3>1. backed' \in [Seg -> BOOLEAN]
      <4>1. CASE Persist  BY <4>1 DEF SegTypes
      <4>2. CASE ~Persist  BY <4>2
      <4>. QED  BY <4>1, <4>2
    <3>. QED  BY <3>1 DEF SegTypes
  <2>2. IoTypes'
    <3>1. Cardinality({s \in Seg : backed[s]}) \in Nat  BY Finite
    <3>2. free' \in Nat  BY <3>1 DEF IoTypes
    <3>. QED  BY <3>2 DEF IoTypes
  <2>3. FlushTypes'  BY DEF FlushTypes, WorkLabels, SegTypes
  <2>4. PcTypes'  BY DEF PcTypes, IoLabels, Searching
  <2>. QED  BY <2>1, <2>2, <2>3, <2>4
<1>25. ASSUME NEW f \in Closer, CloseFails(f) PROVE Types'
  <2>. USE <1>25 DEF CloseFails, FlushForgets, Goto
  <2>1. SegTypes'  BY DEF SegTypes, IoTypes, PcTypes, IoLabels, Searching, Owners, Owns
  <2>2. IoTypes'  BY DEF IoTypes, IoRec, LruRec, Seg, SegTypes, PcTypes, Owners, Owns, Searching
  <2>3. FlushTypes'  BY DEF FlushTypes, WorkLabels, SegTypes
  <2>4. PcTypes'  BY DEF PcTypes, IoLabels, Searching
  <2>. QED  BY <2>1, <2>2, <2>3, <2>4
<1>26. ASSUME NEW f \in Syncer, NEW s \in Seg, WorkStarts(f, s) PROVE Types'
  <2>. USE <1>26 DEF WorkStarts, GetBuf, Work
  <2>1. SegTypes'  BY DEF SegTypes, IoTypes, PcTypes, IoLabels, Searching, Owners, Owns
  <2>2. IoTypes'  BY DEF IoTypes, IoRec, LruRec, Seg, SegTypes, PcTypes, Owners, Owns, Searching
  <2>3. FlushTypes'
    <3>1. work' \in [Syncer -> [Seg -> WorkLabels]]  BY WorkTypes DEF WorkLabels
    <3>2. CASE pool[f] > 0
      <4>1. pool[f] - 1 \in Nat  BY <3>2 DEF FlushTypes
      <4>2. pool' \in [Syncer -> Nat]  BY <3>2, <4>1 DEF FlushTypes
      <4>3. hasBuf' \in [Syncer -> SUBSET Seg]  BY <3>2 DEF FlushTypes
      <4>. QED  BY <3>1, <3>2, <4>2, <4>3 DEF FlushTypes
    <3>3. CASE ~(pool[f] > 0) /\ alloc[f] < MaxBufs
      <4>1. alloc' \in [Syncer -> 0 .. MaxBufs]  BY <3>3 DEF FlushTypes
      <4>2. hasBuf' \in [Syncer -> SUBSET Seg]  BY <3>3 DEF FlushTypes
      <4>. QED  BY <3>1, <3>3, <4>1, <4>2 DEF FlushTypes
    <3>4. CASE ~(pool[f] > 0) /\ ~(alloc[f] < MaxBufs)  BY <3>1, <3>4 DEF FlushTypes
    <3>. QED  BY <3>2, <3>3, <3>4
  <2>4. PcTypes'  BY DEF PcTypes, IoLabels, Searching
  <2>. QED  BY <2>1, <2>2, <2>3, <2>4
<1>27. ASSUME NEW f \in Syncer, NEW s \in Seg, WorkLocks(f, s) PROVE Types'
  <2>. USE <1>27 DEF WorkLocks, Work
  <2>1. SegTypes'  BY DEF SegTypes, IoTypes, PcTypes, IoLabels, Searching, Owners, Owns
  <2>2. IoTypes'  BY DEF IoTypes, IoRec, LruRec, Seg, SegTypes, PcTypes, Owners, Owns, Searching
  <2>3. FlushTypes'
    <3>1. work' \in [Syncer -> [Seg -> WorkLabels]]  BY WorkTypes DEF WorkLabels
    <3>2. err' \in [Syncer -> BOOLEAN]  BY DEF FlushTypes
    <3>. QED  BY <3>1, <3>2 DEF FlushTypes
  <2>4. PcTypes'  BY DEF PcTypes, IoLabels, Searching
  <2>. QED  BY <2>1, <2>2, <2>3, <2>4
<1>28. ASSUME NEW f \in Syncer, NEW s \in Seg, WorkUploads(f, s) PROVE Types'
  <2>. USE <1>28 DEF WorkUploads, UploadBegins, Work
  <2>1. SegTypes'  BY DEF SegTypes, IoTypes, PcTypes, IoLabels, Searching, Owners, Owns
  <2>2. IoTypes'  BY DEF IoTypes, IoRec, LruRec, Seg, SegTypes, PcTypes, Owners, Owns, Searching
  <2>3. FlushTypes'  BY DEF FlushTypes, WorkLabels, SegTypes
  <2>4. PcTypes'  BY DEF PcTypes, IoLabels, Searching
  <2>. QED  BY <2>1, <2>2, <2>3, <2>4
<1>29. ASSUME NEW f \in Syncer, NEW s \in Seg, NEW ok \in BOOLEAN, WorkUploaded(f, s,
       ok) PROVE Types'
  <2>. USE <1>29 DEF WorkUploaded, UploadEnds, SendsError, Work
  <2>1. SegTypes'  BY DEF SegTypes, IoTypes, PcTypes, IoLabels, Searching, Owners, Owns
  <2>2. IoTypes'  BY DEF IoTypes, IoRec, LruRec, Seg, SegTypes, PcTypes, Owners, Owns, Searching
  <2>3. FlushTypes'  BY DEF FlushTypes, WorkLabels, SegTypes
  <2>4. PcTypes'  BY DEF PcTypes, IoLabels, Searching
  <2>. QED  BY <2>1, <2>2, <2>3, <2>4
<1>30. ASSUME NEW f \in Syncer, NEW s \in Seg, WorkEnds(f, s) PROVE Types'
  <2>. USE <1>30 DEF WorkEnds, FreeBuf, Work
  <2>1. SegTypes'  BY DEF SegTypes, IoTypes, PcTypes, IoLabels, Searching, Owners, Owns
  <2>2. IoTypes'  BY DEF IoTypes, IoRec, LruRec, Seg, SegTypes, PcTypes, Owners, Owns, Searching
  <2>3. FlushTypes'
    <3>1. work' \in [Syncer -> [Seg -> WorkLabels]]  BY WorkTypes DEF WorkLabels
    <3>2. pool' \in [Syncer -> Nat] /\ hasBuf' \in [Syncer -> SUBSET Seg]
      <4>1. CASE s \in hasBuf[f]
        <5>1. pool' \in [Syncer -> Nat]  BY <4>1 DEF FlushTypes
        <5>2. hasBuf' \in [Syncer -> SUBSET Seg]  BY <4>1 DEF FlushTypes
        <5>. QED  BY <5>1, <5>2
      <4>2. CASE s \notin hasBuf[f]  BY <4>2 DEF FlushTypes
      <4>. QED  BY <4>1, <4>2
    <3>. QED  BY <3>1, <3>2 DEF FlushTypes
  <2>4. PcTypes'  BY DEF PcTypes, IoLabels, Searching
  <2>. QED  BY <2>1, <2>2, <2>3, <2>4
<1>31. CASE UNCHANGED vars  BY <1>31 DEF SegTypes, IoTypes, FlushTypes, PcTypes, vars
<1>. QED
    BY ZenonT(60), <1>1, <1>2, <1>3, <1>3a, <1>4, <1>5, <1>6, <1>7, <1>8, <1>9, <1>10, <1>11, <1>12,
       <1>13, <1>13a, <1>14, <1>15, <1>16, <1>17, <1>18, <1>19, <1>20, <1>21, <1>22, <1>23, <1>24, <1>25,
       <1>26, <1>27, <1>28, <1>29, <1>30, <1>31, RequestTypes DEF Next, Begins, Continues,
       IoContinues, FlushContinues, WorkContinues

-----------------------------------------------------------------------------
(* Who steps, and what stays *)

\* What goroutines in ioAt leave to the flushes, and flushes to them.
LEMMA IoFrame ==
    ASSUME PcTypes, NEW t \in IO,
           IoContinues(t) \/ \E r \in Request : IoBegins(t, r[1], r[2], r[3])
    PROVE  /\ UNCHANGED <<flushVars, cancelled>>
           /\ \A f \in Syncer : pc'[f] = pc[f]
<1>. USE RoleAssumption DEF PcTypes, Thread, Goto, flushVars
<1>1. CASE \E r \in Request : IoBegins(t, r[1], r[2], r[3])  BY <1>1 DEF IoBegins
<1>2. CASE IoPastEnd(t) \/ IoReturns(t) \/ Scan(t) \/ Choose(t)
  BY <1>2 DEF IoPastEnd, IoReturns, Scan, Choose
<1>3. CASE IoAccess(t) \/ IoReadsZeros(t) \/ IoLoaded(t)
  BY <1>3 DEF IoAccess, IoReadsZeros, IoLoaded, Advance
<1>4. CASE LoadLocks(t) \/ IoClaims(t) \/ IoRefused(t) \/ IoLoadFails(t)
  BY <1>4 DEF LoadLocks, IoClaims, IoRefused, IoLoadFails
<1>5. CASE EvictNothing(t) \/ EvictReleases(t)  BY <1>5 DEF EvictNothing, EvictReleases, Retries
<1>6. CASE EvictLocks(t) \/ EvictUploads(t) \/ EvictUploaded(t) \/ EvictUploadFails(t)
           \/ EvictRemoves(t)
  BY <1>6 DEF EvictLocks, EvictUploads, EvictUploaded, EvictUploadFails, EvictRemoves
<1>. QED  BY Zenon, <1>1, <1>2, <1>3, <1>4, <1>5, <1>6 DEF IoContinues

\* And what flushes leave to them: only Close, with nobody inside, empties the cache.
LEMMA FlushFrame ==
    ASSUME PcTypes, NEW f \in Syncer,
           \/ FlushContinues(f) \/ FlushBegins(f) \/ CloseWants(f)
           \/ \E s \in Seg : WorkContinues(f, s)
    PROVE  /\ UNCHANGED <<io, lru, ops, touched, rival, leaked, fileW>>
           /\ \A t \in IO : pc'[t] = pc[t]
           /\ UNCHANGED <<backed, free>> \/ (f \in Closer /\ CloseEmpties(f))
<1>. USE RoleAssumption DEF PcTypes, Thread, Goto, segVars, ioVars, capVars
<1>1. CASE FlushBegins(f) \/ CloseWants(f)  BY <1>1 DEF FlushBegins, CloseWants
<1>2. CASE FlushSpawns(f) \/ FlushWaited(f) \/ FlushReturns(f)
  BY <1>2 DEF FlushSpawns, FlushWaited, FlushReturns
<1>3. CASE CloseLocks(f) \/ (f \in Closer /\ CloseEmpties(f)) \/ CloseFails(f)
  BY <1>3 DEF CloseLocks, CloseEmpties, CloseFails
<1>4. ASSUME NEW s \in Seg, WorkContinues(f, s)
      PROVE  UNCHANGED <<io, lru, ops, touched, rival, leaked, fileW, backed, free, pc>>
  <2>1. CASE WorkStarts(f, s) \/ WorkLocks(f, s) \/ WorkUploads(f, s)
    BY <2>1 DEF WorkStarts, WorkLocks, WorkUploads
  <2>2. CASE \E ok \in BOOLEAN : WorkUploaded(f, s, ok)  BY <2>2 DEF WorkUploaded
  <2>3. CASE WorkEnds(f, s)  BY <2>3 DEF WorkEnds
  <2>. QED  BY <1>4, <2>1, <2>2, <2>3 DEF WorkContinues
<1>. QED  BY Zenon, <1>1, <1>2, <1>3, <1>4 DEF FlushContinues

\* What a goroutine in ioAt leaves to the others there.
LEMMA IoOthers ==
    ASSUME Types, NEW t \in IO, NEW u \in IO \ {t},
           IoContinues(t) \/ \E r \in Request : IoBegins(t, r[1], r[2], r[3])
    PROVE  /\ io'[u] = io[u] /\ lru'[u] = lru[u] /\ pc'[u] = pc[u] /\ touched'[u] = touched[u]
           /\ \/ rival'[u]
              \/ /\ rival'[u] = rival[u] /\ leaked' = leaked /\ free' >= free
                 /\ \A s \in Seg : backed[s] => backed'[s]
<1>. USE DEF Types, IoTypes, SegTypes, PcTypes, Thread, segVars, ioVars, capVars, Goto
<1>1. CASE \E r \in Request : IoBegins(t, r[1], r[2], r[3])  BY <1>1 DEF IoBegins
<1>2. CASE IoPastEnd(t)  BY <1>2 DEF IoPastEnd
<1>3. CASE IoAccess(t)  BY <1>3 DEF IoAccess, Advance
<1>3a. CASE LoadLocks(t)  BY <1>3a DEF LoadLocks
<1>4. CASE IoReadsZeros(t)  BY <1>4 DEF IoReadsZeros, Advance
<1>5. CASE IoClaims(t)  BY <1>5 DEF IoClaims, Moved
<1>6. CASE IoRefused(t)  BY <1>6 DEF IoRefused
<1>7. CASE IoLoaded(t)  BY <1>7 DEF IoLoaded, Advance
<1>8. CASE IoLoadFails(t)  BY <1>8 DEF IoLoadFails, Moved
<1>9. CASE IoReturns(t)  BY <1>9 DEF IoReturns
<1>10. CASE Scan(t)  BY <1>10 DEF Scan
<1>11. CASE Choose(t)  BY <1>11 DEF Choose
<1>12. CASE EvictNothing(t)  BY <1>12 DEF EvictNothing, Retries
<1>13. CASE EvictLocks(t)  BY <1>13 DEF EvictLocks
<1>13a. CASE EvictUploads(t)  BY <1>13a DEF EvictUploads
<1>14. CASE EvictUploaded(t)  BY <1>14 DEF EvictUploaded
<1>15. CASE EvictUploadFails(t)  BY <1>15 DEF EvictUploadFails
<1>16. CASE EvictRemoves(t)  BY <1>16 DEF EvictRemoves, Moved
<1>17. CASE EvictReleases(t)  BY <1>17 DEF EvictReleases, Retries, Moved
<1>. QED
  BY Zenon, <1>1, <1>2, <1>3, <1>3a, <1>4, <1>5, <1>6, <1>7, <1>8, <1>9, <1>10, <1>11, <1>12,
     <1>13, <1>13a, <1>14, <1>15, <1>16, <1>17 DEF IoContinues

-----------------------------------------------------------------------------
(* Close alone, and the owners of segments *)

\* A Close that holds pendingOpMu stays alone.
LEMMA AloneStep == Types /\ Alone /\ [Next]_vars => Alone'
<1>. SUFFICES ASSUME Types, Alone, [Next]_vars PROVE Alone'  OBVIOUS
<1>. USE RoleAssumption DEF Types, PcTypes, Thread, Syncer, Alone, NoOneInside, Goto
<1>1. ASSUME NEW t \in IO, IoContinues(t) \/ \E r \in Request : IoBegins(t, r[1], r[2], r[3])
      PROVE  Alone'
  <2>1. UNCHANGED cancelled /\ \A f \in Syncer : pc'[f] = pc[f]  BY <1>1, IoFrame
  <2>2. ~cancelled
    <3>1. pc[t] # "idle" \/ ~cancelled
      BY <1>1
      DEF IoContinues, IoPastEnd, IoAccess, LoadLocks, IoReadsZeros, IoClaims, IoRefused, LoadsFile,
          IoLoaded, IoLoadFails, IoReturns, Scan, Choose, EvictNothing, EvictLocks, EvictUploads, EvictUploaded,
          EvictUploadFails, EvictRemoves, EvictReleases, IoBegins
    <3>. QED  BY <3>1
  <2>. QED  BY <2>1, <2>2
<1>2. ASSUME NEW f \in Flusher, FlushBegins(f) \/ FlushReturns(f) PROVE Alone'
  BY <1>2 DEF FlushBegins, FlushReturns
<1>3. ASSUME NEW f \in Syncer, FlushSpawns(f) \/ FlushWaited(f) PROVE Alone'
  BY <1>3 DEF FlushSpawns, FlushWaited
<1>4. ASSUME NEW c \in Closer, CloseWants(c) \/ CloseEmpties(c) \/ CloseFails(c) PROVE Alone'
  BY <1>4 DEF CloseWants, CloseEmpties, CloseFails
<1>5. ASSUME NEW c \in Closer, CloseLocks(c) PROVE Alone'  BY <1>5 DEF CloseLocks
<1>6. ASSUME NEW f \in Syncer, NEW s \in Seg, WorkContinues(f, s) PROVE Alone'
  <2>1. UNCHANGED <<pc, cancelled>>
    BY <1>6 DEF WorkContinues, WorkStarts, WorkLocks, WorkUploads, WorkUploaded, WorkEnds
  <2>. QED  BY <2>1
<1>7. CASE UNCHANGED vars  BY <1>7 DEF vars
<1>. QED  BY Zenon, <1>1, <1>2, <1>3, <1>4, <1>5, <1>6, <1>7
          DEF Next, Begins, Continues, FlushContinues

\* The segment a goroutine in ioAt loads or evicts is its own.
LEMMA OwnersStep == Types /\ Types' /\ Alone /\ Owners /\ [Next]_vars => Owners'
<1>. SUFFICES ASSUME Types, Types', Alone, Owners, [Next]_vars PROVE Owners'  OBVIOUS
<1>. USE Sizes, BoundAssumption, RoleAssumption
     DEF Types, Thread, Syncer, segVars, ioVars, capVars, flushVars, dueVars, Goto, Owners, Owns,
         Victim, Searching, IoLabels, PcTypes, SegTypes, IoTypes, IoRec, LruRec
<1>1. ASSUME NEW t \in IO, NEW r \in Request, IoBegins(t, r[1], r[2], r[3]) PROVE Owners'
  BY <1>1 DEF IoBegins
<1>2. ASSUME NEW t \in IO, IoPastEnd(t) PROVE Owners'
  BY <1>2 DEF IoPastEnd
<1>3. ASSUME NEW t \in IO, IoAccess(t) PROVE Owners'
  BY <1>3 DEF IoAccess, WriteDone, Advance, NextOffset
<1>3a. ASSUME NEW t \in IO, LoadLocks(t) PROVE Owners'
  BY <1>3a DEF LoadLocks, FileIsFree
<1>4. ASSUME NEW t \in IO, IoReadsZeros(t) PROVE Owners'
  BY <1>4 DEF IoReadsZeros, LoadsFile, UnlockFile, Advance, NextOffset
<1>5. ASSUME NEW t \in IO, IoClaims(t) PROVE Owners'
  BY <1>5 DEF IoClaims, LoadsFile, Moved
<1>6. ASSUME NEW t \in IO, IoRefused(t) PROVE Owners'
  BY <1>6 DEF IoRefused, LoadsFile, UnlockFile, NoScan
<1>7. ASSUME NEW t \in IO, IoLoaded(t) PROVE Owners'
  BY <1>7 DEF IoLoaded, UnlockFile, WriteDone, Advance, NextOffset
<1>8. ASSUME NEW t \in IO, IoLoadFails(t) PROVE Owners'
  BY <1>8 DEF IoLoadFails, Moved, UnlockFile
<1>9. ASSUME NEW t \in IO, IoReturns(t) PROVE Owners'
  BY <1>9 DEF IoReturns, NoRequest, NoScan
<1>10. ASSUME NEW t \in IO, Scan(t) PROVE Owners'
  <2>1. pc[t] = "scan" /\ UNCHANGED <<segVars, io, pc>> /\ \A u \in IO \ {t} : lru'[u] = lru[u]
    BY <1>10 DEF Scan
  <2>. QED  BY <2>1
<1>11. ASSUME NEW t \in IO, Choose(t) PROVE Owners'
  BY <1>11 DEF Choose, NoScan
<1>12. ASSUME NEW t \in IO, EvictNothing(t) PROVE Owners'
  BY <1>12 DEF EvictNothing, Retries, NoScan, FileIsFree
<1>13. ASSUME NEW t \in IO, EvictLocks(t) PROVE Owners'
  BY <1>13 DEF EvictLocks, FileIsFree
<1>13a. ASSUME NEW t \in IO, EvictUploads(t) PROVE Owners'
  BY <1>13a DEF EvictUploads, UploadBegins
<1>14. ASSUME NEW t \in IO, EvictUploaded(t) PROVE Owners'
  BY <1>14 DEF EvictUploaded, UploadEnds
<1>15. ASSUME NEW t \in IO, EvictUploadFails(t) PROVE Owners'
  BY SMTT(30), <1>15 DEF EvictUploadFails, UploadEnds, UnlockFile
<1>16. ASSUME NEW t \in IO, EvictRemoves(t) PROVE Owners'
  BY <1>16 DEF EvictRemoves, Moved
<1>17. ASSUME NEW t \in IO, EvictReleases(t) PROVE Owners'
  BY SMTT(30), <1>17 DEF EvictReleases, Releases, Moved, UnlockFile, Retries, NoScan
<1>18. ASSUME NEW f \in Syncer,
              \/ FlushContinues(f) \/ FlushBegins(f) \/ CloseWants(f)
              \/ \E s \in Seg : WorkContinues(f, s)
       PROVE  Owners'
  <2>1. /\ UNCHANGED <<io, lru, fileW>> /\ \A t \in IO : pc'[t] = pc[t]
        /\ UNCHANGED <<backed, free>> \/ (f \in Closer /\ CloseEmpties(f))
    BY <1>18, FlushFrame
  <2>2. CASE UNCHANGED backed  BY <2>1, <2>2
  <2>3. CASE f \in Closer /\ CloseEmpties(f)
    <3>1. \A t \in IO : pc'[t] = "idle"  BY <2>1, <2>3 DEF CloseEmpties, Alone, NoOneInside
    <3>. QED  BY <3>1
  <2>. QED  BY <2>1, <2>2, <2>3
<1>19. CASE UNCHANGED vars  BY <1>19 DEF vars
<1>. QED
  BY Zenon, <1>1, <1>2, <1>3, <1>3a, <1>4, <1>5, <1>6, <1>7, <1>8, <1>9, <1>10, <1>11, <1>12,
     <1>13, <1>13a, <1>14, <1>15, <1>16, <1>17, <1>18, <1>19
  DEF Next, Begins, Continues, IoContinues, Syncer

-----------------------------------------------------------------------------
(* The goroutines and buffers of a flush *)

\* A step of one flush leaves the others alone.
LEMMA OtherWorks ==
    ASSUME FlushTypes, NEW f \in Syncer, Workers,
           \A g \in Syncer \ {f} : /\ work'[g] = work[g] /\ hasBuf'[g] = hasBuf[g]
                                   /\ pool'[g] = pool[g] /\ todo'[g] = todo[g] /\ pc'[g] = pc[g],
           Works(f)'
    PROVE  Workers'
<1>1. ASSUME NEW g \in Syncer \ {f} PROVE Works(g)'
  <2>1. Running(g)' = Running(g)  BY DEF Running
  <2>. QED  BY <2>1 DEF Workers, Works
<1>. QED  BY <1>1 DEF Workers

\* A goroutine that goes on is still the same goroutine, and one of them.
LEMMA WorkGoesOn ==
    ASSUME Types, Workers, NEW f \in Syncer, NEW s \in Seg, work[f][s] # "none",
           NEW l \in WorkLabels \ {"none", "start"}, Work(f, s, l), UNCHANGED <<todo, pc>>
    PROVE  /\ Running(f)' = Running(f) /\ todo'[f] \cap Running(f)' = {}
           /\ pc'[f] # "flush" => todo'[f] = {} /\ Running(f)' = {}
           /\ \A r \in Seg : work'[f][r] = "start" => work[f][r] = "start" /\ r # s
           /\ \A g \in Syncer \ {f} : work'[g] = work[g] /\ todo'[g] = todo[g] /\ pc'[g] = pc[g]
<1>1. work \in [Syncer -> [Seg -> WorkLabels]]  BY DEF Types, FlushTypes
<1>2. work'[f] = [work[f] EXCEPT ![s] = l] /\ \A g \in Syncer \ {f} : work'[g] = work[g]
  BY <1>1 DEF Work
<1>3. Running(f)' = Running(f)  BY <1>1, <1>2 DEF Running
<1>. QED  BY <1>1, <1>2, <1>3 DEF Workers, Works

\* The buffers of a flush always find room.
LEMMA WorkersStep == Types /\ Types' /\ Workers /\ [Next]_vars => Workers'
<1>. SUFFICES ASSUME Types, Types', Workers, [Next]_vars PROVE Workers'  OBVIOUS
<1>. USE BoundAssumption DEF Types
<1>0. ASSUME UNCHANGED <<todo, work, hasBuf, pool>>, \A f \in Syncer : pc'[f] = pc[f]
      PROVE  Workers'
  BY <1>0 DEF Workers, Works, Running
<1>1. ASSUME NEW t \in IO, IoContinues(t) \/ \E r \in Request : IoBegins(t, r[1], r[2], r[3])
      PROVE  Workers'
  BY <1>0, <1>1, IoFrame DEF flushVars
<1>2. ASSUME NEW f \in Syncer, pc[f] # "flush", FlushStarts(f), Goto(f, "flush") PROVE Workers'
  <2>. USE <1>2 DEF FlushStarts, Goto, PcTypes, FlushTypes, Thread
  <2>1. \A g \in Syncer \ {f} : todo'[g] = todo[g] /\ pc'[g] = pc[g]  OBVIOUS
  <2>2. Running(f)' = Running(f)  BY DEF Running
  <2>3. Running(f) = {} /\ hasBuf[f] = {}  BY DEF Workers, Works
  <2>4. pc'[f] = "flush" /\ UNCHANGED <<work, hasBuf, pool>>  BY DEF Syncer
  <2>. HIDE DEF FlushStarts, Goto, PcTypes, FlushTypes, Thread
  <2>5. Works(f)
    BY DEF Workers
  <2>6. Works(f)'  BY <2>2, <2>3, <2>4, <2>5 DEF Works
  <2>. QED  BY <2>1, <2>4, <2>6, OtherWorks
<1>3. ASSUME NEW f \in Syncer, FlushSpawns(f) PROVE Workers'
  <2>. DEFINE s == Min(todo[f])
  <2>1. s \in todo[f] /\ s \in Seg  BY <1>3, FirstSeg DEF FlushSpawns, FlushTypes
  <2>2. UNCHANGED <<hasBuf, pool, pc>> /\ todo' = [todo EXCEPT ![f] = @ \ {s}] /\ pc[f] = "flush"
    BY <1>3 DEF FlushSpawns
  <2>3. CASE ~dirty[s]
    <3>1. work' = work  BY <1>3, <2>3 DEF FlushSpawns
    <3>2. Works(f)'  BY ZenonT(60), <2>2, <3>1 DEF Workers, Works, Running, FlushTypes
    <3>. QED  BY <2>2, <3>1, <3>2, OtherWorks DEF FlushTypes
  <2>4. CASE dirty[s]
    <3>1. Work(f, s, "start") /\ Cardinality(Running(f)) < ConcurFlush
      BY <1>3, <2>4 DEF FlushSpawns, SemaHasPlace
    <3>. HIDE DEF s
    <3>2. work'[f] = [work[f] EXCEPT ![s] = "start"] /\ \A g \in Syncer \ {f} : work'[g] = work[g]
      BY <3>1 DEF Work, FlushTypes
    <3>3. Running(f)' = Running(f) \cup {s}  BY <2>1, <3>2 DEF Running, FlushTypes
    <3>4. Cardinality(Running(f)') <= ConcurFlush
      <4>1. Running(f) \in SUBSET Seg  BY DEF Running
      <4>2. Cardinality(Running(f)) \in Nat  BY <4>1, Finite
      <4>. QED  BY SMTT(30), <3>1, <3>3, <4>1, <4>2, AddSeg
    <3>5. s \notin hasBuf[f]  BY <2>1 DEF Workers, Works
    <3>6. Works(f)'
      <4>1. todo'[f] = todo[f] \ {s}  BY <2>2 DEF FlushTypes
      <4>2. \A r \in Seg : work'[f][r] = "start" => r \notin hasBuf'[f]
        BY <2>2, <3>2, <3>5 DEF Workers, Works, FlushTypes
      <4>3. todo'[f] \cap Running(f)' = {} /\ hasBuf'[f] \subseteq Running(f)'
        BY <2>2, <3>3, <4>1 DEF Workers, Works
      <4>. QED  BY <2>2, <3>4, <4>2, <4>3 DEF Workers, Works
    <3>. QED  BY <2>2, <3>2, <3>6, OtherWorks DEF FlushTypes
  <2>. QED  BY <2>3, <2>4
<1>4. ASSUME NEW f \in Syncer, pc'[f] # "flush", \A g \in Syncer \ {f} : pc'[g] = pc[g],
             todo[f] = {}, Running(f) = {}, UNCHANGED <<todo, work>>,
             \A g \in Syncer : hasBuf'[g] = hasBuf[g] \/ (g = f /\ hasBuf'[g] = {}),
             \A g \in Syncer : pool'[g] = pool[g] \/ (g = f /\ pool'[g] = 0)
      PROVE  Workers'
  <2>1. Running(f)' = {} /\ hasBuf[f] = {} /\ hasBuf'[f] = {}  BY <1>4 DEF Workers, Works, Running
  <2>2. Cardinality(hasBuf[f]) = 0 /\ Cardinality(hasBuf'[f]) = 0  BY <2>1, FS_EmptySet
  <2>3. pool'[f] + Cardinality(hasBuf'[f]) <= ConcurFlush
    <3>1. pool[f] \in Nat /\ pool[f] + Cardinality(hasBuf[f]) <= ConcurFlush
      BY DEF Workers, Works, FlushTypes
    <3>2. pool'[f] = pool[f] \/ pool'[f] = 0  BY <1>4
    <3>. QED  BY <1>4, <2>2, <3>1, <3>2
  <2>4. Cardinality(Running(f)') <= ConcurFlush  BY <2>1, FS_EmptySet
  <2>5. Works(f)'  BY <1>4, <2>1, <2>3, <2>4, SMT DEF Workers, Works
  <2>. QED  BY <1>4, <2>5, OtherWorks
<1>5. ASSUME NEW f \in Flusher, FlushBegins(f) PROVE Workers'
  BY <1>2, <1>5 DEF FlushBegins, Syncer
<1>6. ASSUME NEW f \in Syncer, FlushWaited(f) PROVE Workers'
  BY <1>4, <1>6 DEF FlushWaited, flushVars, Goto, PcTypes, Thread
<1>7. ASSUME NEW f \in Flusher, FlushReturns(f) PROVE Workers'
  <2>1. f \in Syncer /\ todo[f] = {} /\ Running(f) = {}
    BY <1>7 DEF FlushReturns, Workers, Works, Syncer
  <2>. QED  BY <1>4, <1>7, <2>1 DEF FlushReturns, FlushForgets, FlushTypes, Goto, PcTypes, Thread
<1>8. ASSUME NEW c \in Closer, CloseWants(c) PROVE Workers'
  <2>1. c \in Syncer /\ todo[c] = {} /\ Running(c) = {}
    BY <1>8 DEF CloseWants, Workers, Works, Syncer
  <2>. QED  BY <1>4, <1>8, <2>1 DEF CloseWants, flushVars, Goto, PcTypes, Thread
<1>9. ASSUME NEW c \in Closer, CloseLocks(c) PROVE Workers'
  <2>1. c \in Syncer /\ pc[c] # "flush" /\ todo[c] = {} /\ Running(c) = {}
    BY <1>9 DEF CloseLocks, Workers, Works, Syncer
  <2>2. CASE cancelled  BY <1>4, <1>9, <2>1, <2>2
    DEF CloseLocks, flushVars, Goto, PcTypes, Thread
  <2>3. CASE ~cancelled  BY <1>2, <1>9, <2>1, <2>3 DEF CloseLocks
  <2>. QED  BY <2>2, <2>3
<1>10. ASSUME NEW c \in Closer, CloseEmpties(c) \/ CloseFails(c) PROVE Workers'
  <2>1. c \in Syncer /\ todo[c] = {} /\ Running(c) = {}
    BY <1>10 DEF CloseEmpties, CloseFails, Workers, Works, Syncer
  <2>2. FlushForgets(c) /\ (Goto(c, "closed") \/ Goto(c, "closeErr"))
    BY <1>10 DEF CloseEmpties, CloseFails
  <2>. QED  BY <1>4, <2>1, <2>2 DEF FlushForgets, FlushTypes, Goto, PcTypes, Thread
<1>11. ASSUME NEW f \in Syncer, NEW s \in Seg, WorkStarts(f, s) PROVE Workers'
  <2>1. PICK l \in WorkLabels \ {"none", "start"} : Work(f, s, l)
    BY <1>11 DEF WorkStarts, WorkLabels
  <2>2. work[f][s] = "start" /\ s \notin hasBuf[f] /\ GetBuf(f, s) /\ UNCHANGED <<todo, pc>>
    BY <1>11 DEF WorkStarts, Workers, Works
  <2>3. /\ Running(f)' = Running(f) /\ todo'[f] \cap Running(f)' = {}
        /\ pc'[f] # "flush" => todo'[f] = {} /\ Running(f)' = {}
        /\ \A r \in Seg : work'[f][r] = "start" => work[f][r] = "start" /\ r # s
        /\ \A g \in Syncer \ {f} : work'[g] = work[g] /\ todo'[g] = todo[g] /\ pc'[g] = pc[g]
    BY <2>1, <2>2, WorkGoesOn
  <2>4. hasBuf[f] \cup {s} \subseteq Running(f)  BY <2>2 DEF Running, Workers, Works
  <2>5. /\ Cardinality(hasBuf[f] \cup {s}) <= ConcurFlush
        /\ Cardinality(hasBuf[f] \cup {s}) = Cardinality(hasBuf[f]) + 1
        /\ Cardinality(hasBuf[f]) \in Nat /\ pool[f] \in Nat
    <3>1. Running(f) \in SUBSET Seg /\ hasBuf[f] \in SUBSET Seg  BY DEF Running, FlushTypes
    <3>2. Cardinality(hasBuf[f] \cup {s}) <= Cardinality(Running(f))  BY <2>4, <3>1, FewerSegs
    <3>3. Cardinality(Running(f)) <= ConcurFlush  BY DEF Workers, Works
    <3>4. Cardinality(Running(f)) \in Nat /\ Cardinality(hasBuf[f] \cup {s}) \in Nat
      BY <3>1, Finite, AddSeg
    <3>5. Cardinality(hasBuf[f] \cup {s}) = Cardinality(hasBuf[f]) + 1
      BY <2>2, <3>1, AddSeg
    <3>. QED  BY <3>1, <3>2, <3>3, <3>4, <3>5, Finite DEF FlushTypes
  <2>6. \A g \in Syncer \ {f} : hasBuf'[g] = hasBuf[g] /\ pool'[g] = pool[g]
    <3>1. CASE pool[f] > 0  BY <2>2, <3>1 DEF GetBuf, FlushTypes
    <3>2. CASE ~(pool[f] > 0) /\ alloc[f] < MaxBufs  BY <2>2, <3>2 DEF GetBuf, FlushTypes
    <3>3. CASE ~(pool[f] > 0) /\ ~(alloc[f] < MaxBufs)  BY <2>2, <3>3 DEF GetBuf, FlushTypes
    <3>. QED  BY <3>1, <3>2, <3>3
  <2>7. /\ hasBuf'[f] \subseteq hasBuf[f] \cup {s}
        /\ pool'[f] + Cardinality(hasBuf'[f]) <= ConcurFlush
    <3>1. CASE pool[f] > 0
      <4>1. hasBuf'[f] = hasBuf[f] \cup {s} /\ pool'[f] = pool[f] - 1
        BY <2>2, <3>1 DEF GetBuf, FlushTypes
      <4>2. pool[f] + Cardinality(hasBuf[f]) <= ConcurFlush  BY DEF Workers, Works
      <4>. QED  BY <2>5, <4>1, <4>2
    <3>2. CASE ~(pool[f] > 0) /\ alloc[f] < MaxBufs
      <4>1. hasBuf'[f] = hasBuf[f] \cup {s} /\ pool'[f] = pool[f] /\ pool[f] = 0
        BY <2>2, <2>5, <3>2 DEF GetBuf, FlushTypes
      <4>. QED  BY <2>5, <4>1
    <3>3. CASE ~(pool[f] > 0) /\ ~(alloc[f] < MaxBufs)
      BY <2>2, <3>3 DEF GetBuf, Workers, Works
    <3>. QED  BY <3>1, <3>2, <3>3
  <2>8. Works(f)'
    <3>1. Cardinality(Running(f)') <= ConcurFlush  BY <2>3 DEF Workers, Works
    <3>2. \A r \in Seg : work'[f][r] = "start" => r \notin hasBuf'[f]
      BY <2>3, <2>7 DEF Workers, Works
    <3>. QED  BY <2>3, <2>4, <2>7, <3>1, <3>2 DEF Works
  <2>. QED  BY <2>3, <2>6, <2>8, OtherWorks
<1>12. ASSUME NEW f \in Syncer, NEW s \in Seg, NEW l \in WorkLabels \ {"none", "start"},
              work[f][s] # "none", Work(f, s, l), UNCHANGED <<todo, pc, hasBuf, pool>>
       PROVE  Workers'
  <2>1. /\ Running(f)' = Running(f) /\ todo'[f] \cap Running(f)' = {}
        /\ pc'[f] # "flush" => todo'[f] = {} /\ Running(f)' = {}
        /\ \A r \in Seg : work'[f][r] = "start" => work[f][r] = "start" /\ r # s
        /\ \A g \in Syncer \ {f} : work'[g] = work[g] /\ todo'[g] = todo[g] /\ pc'[g] = pc[g]
    BY <1>12, WorkGoesOn
  <2>2. Works(f)'  BY <1>12, <2>1 DEF Workers, Works
  <2>. QED  BY <1>12, <2>1, <2>2, OtherWorks
<1>13. ASSUME NEW f \in Syncer, NEW s \in Seg, WorkLocks(f, s) PROVE Workers'
  <2>1. PICK l \in WorkLabels \ {"none", "start"} : Work(f, s, l)
    BY <1>13 DEF WorkLocks, WorkLabels
  <2>. QED  BY <1>12, <1>13, <2>1 DEF WorkLocks
<1>14. ASSUME NEW f \in Syncer, NEW s \in Seg, WorkUploads(f, s) PROVE Workers'
  BY <1>12, <1>14 DEF WorkUploads, WorkLabels
<1>15. ASSUME NEW f \in Syncer, NEW s \in Seg, NEW ok \in BOOLEAN, WorkUploaded(f, s, ok)
       PROVE  Workers'
  BY <1>12, <1>15 DEF WorkUploaded, WorkLabels
<1>16. ASSUME NEW f \in Syncer, NEW s \in Seg, WorkEnds(f, s) PROVE Workers'
  <2>. USE <1>16 DEF WorkEnds
  <2>1. work'[f] = [work[f] EXCEPT ![s] = "none"] /\ \A g \in Syncer \ {f} : work'[g] = work[g]
    BY DEF Work, FlushTypes
  <2>2. Running(f)' = Running(f) \ {s} /\ s \in Running(f)  BY <2>1 DEF Running, FlushTypes
  <2>3. Cardinality(Running(f)') <= ConcurFlush
    <3>1. Running(f) \in SUBSET Seg  BY DEF Running
    <3>2. Cardinality(Running(f)') <= Cardinality(Running(f))  BY <2>2, <3>1, FewerSegs
    <3>3. Cardinality(Running(f)) \in Nat /\ Cardinality(Running(f)') \in Nat
      BY <2>2, <3>1, Finite
    <3>. QED  BY <3>2, <3>3 DEF Workers, Works
  <2>4. /\ \A g \in Syncer \ {f} : hasBuf'[g] = hasBuf[g] /\ pool'[g] = pool[g]
        /\ hasBuf'[f] = hasBuf[f] \ {s}
        /\ pool'[f] + Cardinality(hasBuf'[f]) <= ConcurFlush
    <3>1. hasBuf[f] \in SUBSET Seg /\ pool[f] \in Nat /\ Cardinality(hasBuf[f]) \in Nat
      BY Finite DEF FlushTypes
    <3>2. CASE s \in hasBuf[f]
      <4>1. /\ \A g \in Syncer \ {f} : hasBuf'[g] = hasBuf[g] /\ pool'[g] = pool[g]
            /\ hasBuf'[f] = hasBuf[f] \ {s} /\ pool'[f] = pool[f] + 1
        BY <3>2 DEF FreeBuf, FlushTypes
      <4>2. Cardinality(hasBuf[f] \ {s}) = Cardinality(hasBuf[f]) - 1
        BY <3>1, <3>2, RemoveSeg
      <4>3. pool[f] + Cardinality(hasBuf[f]) <= ConcurFlush  BY DEF Workers, Works
      <4>. QED  BY <3>1, <4>1, <4>2, <4>3
    <3>3. CASE s \notin hasBuf[f]
      <4>1. hasBuf[f] \ {s} = hasBuf[f]  BY <3>3
      <4>. QED  BY <3>3, <4>1 DEF FreeBuf, Workers, Works
    <3>. QED  BY <3>2, <3>3
  <2>5. Works(f)'
    <3>1. \A r \in Seg : work'[f][r] = "start" => r \notin hasBuf'[f]
      BY <2>1, <2>4 DEF Workers, Works, FlushTypes
    <3>2. todo'[f] \cap Running(f)' = {} /\ hasBuf'[f] \subseteq Running(f)'
      BY <2>2, <2>4 DEF Workers, Works
    <3>3. pc'[f] # "flush" => todo'[f] = {} /\ Running(f)' = {}  BY <2>2 DEF Workers, Works
    <3>. QED  BY <2>3, <2>4, <3>1, <3>2, <3>3 DEF Works
  <2>. QED  BY <2>1, <2>4, <2>5, OtherWorks
<1>17. CASE UNCHANGED vars  BY <1>0, <1>17 DEF vars, flushVars
<1>. QED
    BY Zenon, <1>1, <1>3, <1>5, <1>6, <1>7, <1>8, <1>9, <1>10, <1>11, <1>13, <1>14, <1>15, <1>16,
       <1>17 DEF Next, Begins, Continues, FlushContinues, WorkContinues

-----------------------------------------------------------------------------
(* What a flush owes *)

\* An upload begins: it pays for every flush that the segment is due to.
LEMMA UploadBeginsDebts ==
    ASSUME Types, Debts, NEW v \in Seg, NEW t \in Thread, UploadBegins(v, t),
           UNCHANGED <<todo, err>>, \A f \in Syncer : pc'[f] = pc[f],
           \A f \in Syncer, s \in Seg \ {v} : work'[f][s] = work[f][s]
    PROVE  Debts'
<1>1. t # None /\ \A f \in Syncer : due[f] \subseteq Seg
  BY RoleAssumption DEF Types, FlushTypes
<1>3. ASSUME NEW f \in Syncer, NEW s \in due[f], Owed(f, s) PROVE Owed(f, s)'
  <2>1. CASE s = v
    <3>1. itemW'[v] = t /\ f \in covers'[v]  BY <1>1, <2>1 DEF UploadBegins, Types, SegTypes
    <3>. QED  BY <1>1, <2>1, <3>1 DEF Owed
  <2>2. CASE s # v
    <3>1. itemW'[s] = itemW[s] /\ covers'[s] = covers[s] /\ dirty'[s] = dirty[s]
      BY <1>1, <2>2 DEF UploadBegins, Types, SegTypes
    <3>2. work'[f][s] = work[f][s]  BY <1>1, <2>2
    <3>. QED  BY <1>3, <3>1, <3>2 DEF Owed
  <2>. QED  BY <2>1, <2>2
<1>. QED  BY <1>3 DEF Debts, Owes, UploadBegins

\* An upload ends: paid, or the flush that made it has its error.
LEMMA UploadEndsDebts ==
    ASSUME Types, Debts, NEW v \in Seg, NEW t \in Thread, NEW ok \in BOOLEAN, UploadEnds(v, t, ok),
           UNCHANGED todo, \A f \in Syncer : pc'[f] = pc[f],
           \A f \in Syncer : err'[f] = (err[f] \/ (f = t /\ ~ok)),
           \A f \in Syncer, s \in Seg : work'[f][s] = work[f][s] \/ work[f][s] = "upload",
           t \in Syncer => pc[t] # "flushed"
    PROVE  Debts'
<1>1. \A f \in Syncer : due[f] \subseteq Seg /\ due'[f] \subseteq due[f]
  BY DEF Types, FlushTypes, UploadEnds
<1>3. ASSUME NEW f \in Syncer, NEW s \in due'[f], Owed(f, s) PROVE Owed(f, s)'
  <2>1. s \in Seg /\ (work'[f][s] = work[f][s] \/ work[f][s] = "upload")  BY <1>1
  <2>2. CASE s = v
    <3>1. f \notin covers[v] \/ (f = t /\ ~ok)  BY <2>2 DEF UploadEnds
    <3>. QED  BY <1>3, <2>1, <2>2, <3>1 DEF Owed, UploadEnds
  <2>3. CASE s # v
    <3>1. itemW'[s] = itemW[s] /\ covers'[s] = covers[s] /\ dirty'[s] = dirty[s]
      BY <2>1, <2>3 DEF UploadEnds, Types, SegTypes
    <3>. QED  BY <1>3, <2>1, <3>1 DEF Owed
  <2>. QED  BY <2>2, <2>3
<1>. QED  BY <1>1, <1>3 DEF Debts, Owes

\* A flush that starts lists what is dirty.
LEMMA FlushStartsDebts ==
    ASSUME Types, Debts, NEW f \in Syncer, FlushStarts(f), Goto(f, "flush"),
           UNCHANGED <<dirty, itemW>>
    PROVE  Debts'
<1>. USE DEF FlushStarts, Goto, Types, FlushTypes, PcTypes, Thread
<1>1. ASSUME NEW g \in Syncer \ {f} PROVE Owes(g)'
  BY DEF Debts, Owes, Owed
<1>2. pc'[f] = "flush" /\ due'[f] = {s \in Seg : dirty[s]} /\ todo'[f] = {s \in Seg : dirty[s]}
  OBVIOUS
<1>3. Owes(f)'  BY <1>2 DEF Debts, Owes, Owed
<1>. QED  BY <1>1, <1>3 DEF Debts

\* A flush that has returned owes nothing.
LEMMA FlushForgetsDebts ==
    ASSUME Types, Debts, NEW f \in Syncer, FlushForgets(f),
           NEW l \in {"idle", "closed", "closeErr"},
           Goto(f, l), UNCHANGED <<dirty, itemW>>
    PROVE  Debts'
<1>. USE DEF FlushForgets, Goto, Types, FlushTypes, PcTypes, Thread
<1>1. ASSUME NEW g \in Syncer \ {f} PROVE Owes(g)'
  BY DEF Debts, Owes, Owed
<1>2. Owes(f)'  BY DEF Owes
<1>. QED  BY <1>1, <1>2 DEF Debts

\* A flush forgets no segment.
LEMMA DebtsStep == Types /\ Types' /\ Owners /\ Workers /\ Debts /\ [Next]_vars => Debts'
<1>. SUFFICES ASSUME Types, Types', Owners, Workers, Debts, [Next]_vars PROVE Debts'  OBVIOUS
<1>. USE DEF Types
<1>1. ASSUME UNCHANGED <<due, covers, itemW, todo, work, err>>, \A f \in Syncer : pc'[f] = pc[f],
             \A s \in Seg : dirty[s] => dirty'[s]
      PROVE  Debts'
  BY <1>1 DEF Debts, Owes, Owed, FlushTypes
<1>2. ASSUME NEW t \in IO, IoAccess(t) \/ IoLoaded(t) PROVE Debts'
  <2>1. WriteDone(io[t].seg, t) /\ itemW' = itemW  BY <1>2 DEF IoAccess, IoLoaded
  <2>2. UNCHANGED flushVars /\ \A f \in Syncer : pc'[f] = pc[f]
    BY <1>2, IoFrame DEF IoContinues
  <2>3. \A s \in Seg : dirty[s] => dirty'[s]
    BY <2>1 DEF WriteDone, SegTypes, Debts
  <2>. QED  BY <1>1, <2>1, <2>2, <2>3 DEF WriteDone, flushVars
<1>3. ASSUME NEW t \in IO, UNCHANGED <<dirty, itemW, dueVars>>,
             IoContinues(t) \/ \E r \in Request : IoBegins(t, r[1], r[2], r[3])
      PROVE  Debts'
  <2>1. UNCHANGED flushVars /\ \A f \in Syncer : pc'[f] = pc[f]  BY <1>3, IoFrame
  <2>. QED  BY <1>1, <1>3, <2>1 DEF flushVars, dueVars, Debts
<1>4. ASSUME NEW t \in IO, EvictUploads(t) PROVE Debts'
  <2>1. UNCHANGED flushVars /\ \A f \in Syncer : pc'[f] = pc[f]
    BY <1>4, IoFrame DEF IoContinues
  <2>2. Victim(t) \in Seg /\ t \in Thread  BY <1>4 DEF Owners, Owns, EvictUploads, Thread
  <2>. QED  BY <1>4, <2>1, <2>2, UploadBeginsDebts DEF EvictUploads, flushVars
<1>5. ASSUME NEW t \in IO, EvictUploaded(t) \/ EvictUploadFails(t) PROVE Debts'
  <2>1. UNCHANGED flushVars /\ \A f \in Syncer : pc'[f] = pc[f]
    BY <1>5, IoFrame DEF IoContinues
  <2>2. Victim(t) \in Seg /\ t \in Thread /\ t \notin Syncer
    BY <1>5, RoleAssumption DEF Owners, Owns, EvictUploaded, EvictUploadFails, Thread
  <2>3. PICK ok \in BOOLEAN : UploadEnds(Victim(t), t, ok)
    BY <1>5 DEF EvictUploaded, EvictUploadFails
  <2>4. \A f \in Syncer : err'[f] = (err[f] \/ (f = t /\ ~ok))
    BY <2>1, <2>2 DEF flushVars, FlushTypes
  <2>. QED  BY <2>1, <2>2, <2>3, <2>4, UploadEndsDebts DEF flushVars
<1>6. ASSUME NEW t \in IO, IoContinues(t) PROVE Debts'
  <2>1. CASE \/ IoPastEnd(t) \/ LoadLocks(t) \/ IoReadsZeros(t) \/ IoClaims(t) \/ IoRefused(t)
             \/ IoLoadFails(t) \/ IoReturns(t) \/ Scan(t) \/ Choose(t)
    BY <1>3, <1>6, <2>1
    DEF IoPastEnd, LoadLocks, IoReadsZeros, IoClaims, IoRefused, IoLoadFails, IoReturns, Scan, Choose, segVars
  <2>2. CASE EvictNothing(t) \/ EvictLocks(t) \/ EvictRemoves(t) \/ EvictReleases(t)
    BY <1>3, <1>6, <2>2 DEF EvictNothing, EvictLocks, EvictRemoves, EvictReleases, segVars
  <2>. QED  BY Zenon, <1>2, <1>4, <1>5, <1>6, <2>1, <2>2 DEF IoContinues
<1>7. ASSUME NEW t \in IO, NEW r \in Request, IoBegins(t, r[1], r[2], r[3]) PROVE Debts'
  BY <1>3, <1>7 DEF IoBegins, segVars
<1>8. ASSUME NEW f \in Flusher, FlushBegins(f) PROVE Debts'
  BY <1>8, FlushStartsDebts DEF FlushBegins, segVars, Syncer
<1>9. ASSUME NEW f \in Syncer, FlushSpawns(f) PROVE Debts'
  <2>. DEFINE s == Min(todo[f])
  <2>1. s \in Seg /\ s \in todo[f]  BY <1>9, FirstSeg DEF FlushSpawns, FlushTypes
  <2>2. /\ UNCHANGED <<dirty, itemW, err, due, covers, pc>>
        /\ todo' = [todo EXCEPT ![f] = @ \ {s}]
    BY <1>9 DEF FlushSpawns, segVars, dueVars
  <2>3. IF dirty[s] THEN Work(f, s, "start") ELSE UNCHANGED work  BY <1>9 DEF FlushSpawns
  <2>. HIDE DEF s
  <2>4. ASSUME NEW g \in Syncer, NEW r \in Seg, Owed(g, r) PROVE Owed(g, r)'
    <3>1. CASE ~dirty[s]  BY <2>2, <2>3, <2>4, <3>1 DEF Owed, FlushTypes
    <3>2. CASE dirty[s] /\ (r # s \/ g # f)
      <4>1. work'[g][r] = work[g][r]  BY <2>3, <3>2 DEF Work, FlushTypes
      <4>2. r \in todo'[g] <=> r \in todo[g]  BY <2>2, <3>2 DEF FlushTypes
      <4>. QED  BY <2>2, <2>4, <4>1, <4>2 DEF Owed
    <3>3. CASE dirty[s] /\ r = s /\ g = f
      <4>1. work'[g][r] = "start"  BY <2>3, <3>3 DEF Work, FlushTypes
      <4>. QED  BY <2>2, <3>3, <4>1 DEF Owed
    <3>. QED  BY <3>1, <3>2, <3>3
  <2>. QED  BY <2>2, <2>4 DEF Debts, Owes, FlushTypes
<1>10. ASSUME NEW f \in Syncer, FlushWaited(f) PROVE Debts'
  <2>1. UNCHANGED <<dirty, itemW, todo, work, err, due, covers>>
    BY <1>10 DEF FlushWaited, segVars, flushVars, dueVars
  <2>2. \A g \in Syncer \ {f} : pc'[g] = pc[g]  BY <1>10 DEF FlushWaited, Goto, PcTypes, Thread
  <2>3. pc[f] = "flush" /\ pc'[f] = IF err[f] THEN "flushErr" ELSE "flushed"
    BY <1>10 DEF FlushWaited, Goto, PcTypes, Thread
  <2>. QED  BY <2>1, <2>2, <2>3 DEF Debts, Owes, Owed
<1>11. ASSUME NEW f \in Flusher, FlushReturns(f) PROVE Debts'
  BY <1>11, FlushForgetsDebts DEF FlushReturns, segVars, Syncer
<1>12. ASSUME NEW c \in Closer, CloseEmpties(c) \/ CloseFails(c) PROVE Debts'
  BY <1>12, FlushForgetsDebts DEF CloseEmpties, CloseFails, segVars, Syncer
<1>13. ASSUME NEW c \in Closer, NEW l \in {"want", "closed"}, Goto(c, l),
              UNCHANGED <<segVars, flushVars, dueVars>>
       PROVE  Debts'
  <2>1. \A g \in Syncer : pc'[g] = pc[g] \/ pc'[g] \in {"want", "closed"}
    BY <1>13 DEF Goto, PcTypes, Thread, Syncer
  <2>. QED  BY <1>13, <2>1 DEF Debts, Owes, Owed, segVars, flushVars, dueVars
<1>14. ASSUME NEW c \in Closer, CloseWants(c) PROVE Debts'
  BY <1>13, <1>14 DEF CloseWants
<1>15. ASSUME NEW c \in Closer, CloseLocks(c) PROVE Debts'
  <2>1. CASE cancelled  BY <1>13, <1>15, <2>1 DEF CloseLocks
  <2>2. CASE ~cancelled
    BY <1>15, <2>2, FlushStartsDebts DEF CloseLocks, segVars, Syncer
  <2>. QED  BY <2>1, <2>2
<1>16. ASSUME NEW f \in Syncer, NEW s \in Seg, UNCHANGED <<dirty, itemW, todo, dueVars, pc>>,
              NEW l \in WorkLabels, Work(f, s, l),
              \A g \in Syncer : err'[g] = err[g] \/ (g = f /\ err'[g]),
              \/ ~dirty[s] \/ err'[f] \/ l \in {"start", "lock", "item"}
              \/ work[f][s] \notin {"start", "lock", "item"} /\ err' = err,
              pc[f] = "flush"
       PROVE  Debts'
  <2>1. work'[f][s] = l /\ \A g \in Syncer, r \in Seg : g # f \/ r # s => work'[g][r] = work[g][r]
    BY <1>16 DEF Work, FlushTypes
  <2>2. ASSUME NEW g \in Syncer, NEW r \in due[g], Owed(g, r) PROVE Owed(g, r)'
    <3>1. r \in Seg  BY DEF FlushTypes
    <3>2. CASE g = f /\ r = s
      <4>1. CASE s \in todo[f]  BY <1>16, <2>2, <3>2, <4>1 DEF Owed, dueVars
      <4>2. CASE s \notin todo[f]  BY <1>16, <2>1, <2>2, <3>2, <4>2 DEF Owed, dueVars
      <4>. QED  BY <4>1, <4>2
    <3>3. CASE ~(g = f /\ r = s)
      BY <1>16, <2>1, <2>2, <3>1, <3>3 DEF Owed, dueVars
    <3>. QED  BY <3>2, <3>3
  <2>. QED  BY <1>16, <2>2 DEF Debts, Owes, dueVars
<1>17. ASSUME NEW f \in Syncer, NEW s \in Seg, work[f][s] # "none" PROVE pc[f] = "flush"
  BY <1>17 DEF Workers, Works, Running
<1>18. ASSUME NEW f \in Syncer, NEW s \in Seg, WorkStarts(f, s) PROVE Debts'
  <2>1. PICK l \in WorkLabels : Work(f, s, l) /\ (~dirty[s] \/ l = "lock")
    BY <1>18 DEF WorkStarts, WorkLabels
  <2>2. pc[f] = "flush" /\ UNCHANGED <<dirty, itemW, todo, dueVars, pc, err>>
    BY <1>17, <1>18 DEF WorkStarts, segVars
  <2>. QED  BY <1>16, <2>1, <2>2
<1>19. ASSUME NEW f \in Syncer, NEW s \in Seg, WorkLocks(f, s) PROVE Debts'
  <2>1. pc[f] = "flush" /\ UNCHANGED <<dirty, itemW, todo, dueVars, pc>>
    BY <1>17, <1>19 DEF WorkLocks
  <2>2. CASE backed[s]
    BY <1>16, <1>19, <2>1, <2>2 DEF WorkLocks, WorkLabels
  <2>3. CASE ~backed[s]
    <3>1. err'[f] /\ (\A g \in Syncer \ {f} : err'[g] = err[g]) /\ Work(f, s, "done")
      BY <1>19, <2>3 DEF WorkLocks, FlushTypes
    <3>. QED  BY <1>16, <2>1, <3>1 DEF WorkLabels
  <2>. QED  BY <2>2, <2>3
<1>20. ASSUME NEW f \in Syncer, NEW s \in Seg, WorkUploads(f, s) PROVE Debts'
  <2>1. \A g \in Syncer, r \in Seg \ {s} : work'[g][r] = work[g][r]
    BY <1>20 DEF WorkUploads, Work, FlushTypes
  <2>2. f \in Thread  BY DEF Thread
  <2>. QED  BY <1>20, <2>1, <2>2, UploadBeginsDebts DEF WorkUploads
<1>21. ASSUME NEW f \in Syncer, NEW s \in Seg, NEW ok \in BOOLEAN, WorkUploaded(f, s, ok)
       PROVE  Debts'
  <2>1. \A g \in Syncer, r \in Seg : work'[g][r] = work[g][r] \/ work[g][r] = "upload"
    BY <1>21 DEF WorkUploaded, Work, FlushTypes
  <2>2. \A g \in Syncer : err'[g] = (err[g] \/ (g = f /\ ~ok))
    BY <1>21 DEF WorkUploaded, SendsError, FlushTypes
  <2>3. f \in Thread /\ pc[f] # "flushed"  BY <1>17, <1>21 DEF Thread, WorkUploaded
  <2>4. UploadEnds(s, f, ok) /\ UNCHANGED <<todo, pc>>  BY <1>21 DEF WorkUploaded
  <2>. QED  BY <2>1, <2>2, <2>3, <2>4, UploadEndsDebts
<1>22. ASSUME NEW f \in Syncer, NEW s \in Seg, WorkEnds(f, s) PROVE Debts'
  <2>1. pc[f] = "flush" /\ UNCHANGED <<dirty, itemW, todo, dueVars, pc, err>>
    BY <1>17, <1>22 DEF WorkEnds, segVars
  <2>. QED  BY <1>16, <1>22, <2>1 DEF WorkEnds, WorkLabels
<1>23. CASE UNCHANGED vars  BY <1>1, <1>23 DEF vars, segVars, flushVars, dueVars, Debts
<1>. QED
    BY Zenon, <1>6, <1>7, <1>8, <1>9, <1>10, <1>11, <1>12, <1>14, <1>15, <1>18, <1>19, <1>20,
       <1>21, <1>22, <1>23 DEF Next, Begins, Continues, FlushContinues, WorkContinues

-----------------------------------------------------------------------------
(* The quota *)

\* One goroutine more or less at a place.
LEMMA Arrives ==
    ASSUME PcTypes, NEW t \in IO, NEW l, NEW m, l # m, pc[t] = l, Goto(t, m)
    PROVE  /\ \A k : k # l /\ k # m => At(k)' = At(k)
           /\ At(l)' = At(l) \ {t} /\ At(m)' = At(m) \cup {t}
           /\ Cardinality(At(l)') = Cardinality(At(l)) - 1
           /\ Cardinality(At(m)') = Cardinality(At(m)) + 1
<1>1. /\ \A k : k # l /\ k # m => At(k)' = At(k)
      /\ At(l)' = At(l) \ {t} /\ At(m)' = At(m) \cup {t}
  BY DEF PcTypes, Goto, At, Thread
<1>2. IsFiniteSet(At(l)) /\ IsFiniteSet(At(m)) /\ t \in At(l) /\ t \notin At(m)
  BY Finite DEF At
<1>3. Cardinality(At(l) \ {t}) = Cardinality(At(l)) - 1  BY <1>2, FS_RemoveElement
<1>4. Cardinality(At(m) \cup {t}) = Cardinality(At(m)) + 1  BY <1>2, FS_AddElement
<1>. QED  BY <1>1, <1>3, <1>4

\* The counts are numbers.
LEMMA Counts ==
    Cardinality(Cached) \in Nat /\ \A l : Cardinality(At(l)) \in Nat
BY Finite DEF Cached, At

\* No unit appears, and only a failed createFile loses one.
LEMMA QuotaStep == Types /\ Types' /\ Owners /\ QuotaAccounted /\ [Next]_vars => QuotaAccounted'
<1>. SUFFICES ASSUME Types, Types', Owners, QuotaAccounted, [Next]_vars PROVE QuotaAccounted'
  OBVIOUS
<1>. USE DEF Types
<1>1. /\ Cardinality(Cached) \in Nat /\ Cardinality(At("fetch")) \in Nat
      /\ Cardinality(At("release")) \in Nat /\ free \in Nat /\ leaked \in Nat
      /\ free + Cardinality(Cached) + Cardinality(At("fetch"))
              + Cardinality(At("release")) + leaked = Quota
  BY Counts DEF IoTypes, QuotaAccounted, Cached
<1>2. ASSUME free' + Cardinality(Cached') + Cardinality(At("fetch")')
                 + Cardinality(At("release")') + leaked' = Quota
      PROVE  QuotaAccounted'
  BY <1>2 DEF QuotaAccounted, Cached
<1>3. ASSUME UNCHANGED <<backed, free, leaked>>, At("fetch")' = At("fetch"),
             At("release")' = At("release")
      PROVE  QuotaAccounted'
  BY <1>1, <1>2, <1>3 DEF Cached
<1>4. ASSUME NEW t \in IO, NEW m, Goto(t, m), pc[t] \notin {"fetch", "release"},
             m \notin {"fetch", "release"}, UNCHANGED <<backed, free, leaked>>
      PROVE  QuotaAccounted'
  <2>1. At("fetch")' = At("fetch") /\ At("release")' = At("release")
    BY <1>4 DEF At, Goto, PcTypes, Thread
  <2>. QED  BY <1>3, <1>4, <2>1
<1>5. ASSUME NEW t \in IO, NEW r \in Request, IoBegins(t, r[1], r[2], r[3]) PROVE QuotaAccounted'
  BY <1>4, <1>5 DEF IoBegins, segVars, capVars
<1>6. ASSUME NEW t \in IO, IoPastEnd(t) PROVE QuotaAccounted'
  BY <1>4, <1>6 DEF IoPastEnd, segVars, capVars
<1>7. ASSUME NEW t \in IO, IoAccess(t) \/ LoadLocks(t) \/ IoReadsZeros(t) PROVE QuotaAccounted'
  BY <1>4, <1>7 DEF IoAccess, LoadLocks, capVars, IoReadsZeros, LoadsFile, Advance, segVars
<1>8. ASSUME NEW t \in IO, IoClaims(t) PROVE QuotaAccounted'
  <2>1. pc[t] = "load" /\ Goto(t, "fetch") /\ UNCHANGED <<backed, leaked>> /\ free' = free - 1
    BY <1>8 DEF IoClaims, LoadsFile, segVars
  <2>2. /\ Cardinality(At("fetch")') = Cardinality(At("fetch")) + 1
        /\ At("release")' = At("release")
    BY <2>1, Arrives
  <2>3. Cached' = Cached  BY <2>1 DEF Cached
  <2>. QED  BY <1>1, <1>2, <2>1, <2>2, <2>3
<1>9. ASSUME NEW t \in IO, IoRefused(t) PROVE QuotaAccounted'
  BY <1>4, <1>9 DEF IoRefused, LoadsFile, segVars
<1>10. ASSUME NEW t \in IO, IoLoaded(t) PROVE QuotaAccounted'
  <2>. DEFINE s == io[t].seg
  <2>1. s \in Seg /\ ~backed[s]  BY <1>10 DEF IoLoaded, Owners, Owns
  <2>2. PICK m \in {"ok", "piece"} : Goto(t, m)  BY <1>10 DEF IoLoaded, Advance
  <2>3. /\ Cardinality(At("fetch")') = Cardinality(At("fetch")) - 1
        /\ At("release")' = At("release")
    <3>1. pc[t] = "fetch" /\ m # "fetch" /\ m # "release"  BY <1>10 DEF IoLoaded
    <3>. QED  BY <2>2, <3>1, Arrives
  <2>4. Cached' = Cached \cup {s}  BY <1>10, <2>1 DEF IoLoaded, Cached, SegTypes
  <2>5. Cardinality(Cached') = Cardinality(Cached) + 1
    BY <2>1, <2>4, AddSeg DEF Cached
  <2>6. UNCHANGED <<free, leaked>>  BY <1>10 DEF IoLoaded
  <2>. QED  BY <1>1, <1>2, <2>3, <2>5, <2>6
<1>11. ASSUME NEW t \in IO, IoLoadFails(t) PROVE QuotaAccounted'
  <2>1. pc[t] = "fetch" /\ Goto(t, "failed") /\ UNCHANGED backed  BY <1>11 DEF IoLoadFails
  <2>2. /\ Cardinality(At("fetch")') = Cardinality(At("fetch")) - 1
        /\ At("release")' = At("release")
    BY <2>1, Arrives
  <2>3. Cached' = Cached  BY <2>1 DEF Cached
  <2>4. CASE item[io[t].seg]
    <3>1. free' = free + 1 /\ leaked' = leaked  BY <1>11, <2>4 DEF IoLoadFails
    <3>. QED  BY <1>1, <1>2, <2>2, <2>3, <3>1
  <2>5. CASE ~item[io[t].seg]
    <3>1. free' = free /\ leaked' = leaked + 1  BY <1>11, <2>5 DEF IoLoadFails
    <3>2. ASSUME NEW c \in Nat, NEW x \in Nat, NEW r \in Nat, free + c + x + r + leaked = Quota
          PROVE  free + c + (x - 1) + r + (leaked + 1) = Quota
      BY <1>1, <3>2
    <3>3. free + Cardinality(Cached) + (Cardinality(At("fetch")) - 1)
             + Cardinality(At("release")) + (leaked + 1) = Quota
      BY <1>1, <3>2
    <3>4. free' + Cardinality(Cached') + Cardinality(At("fetch")')
              + Cardinality(At("release")') + leaked' = Quota
      BY <2>2, <2>3, <3>1, <3>3
    <3>. QED  BY <1>2, <3>4
  <2>. QED  BY <2>4, <2>5
<1>12. ASSUME NEW t \in IO, IoReturns(t) PROVE QuotaAccounted'
  BY <1>4, <1>12 DEF IoReturns, segVars
<1>13. ASSUME NEW t \in IO, Scan(t) PROVE QuotaAccounted'
  BY <1>3, <1>13 DEF Scan, segVars, capVars, At
<1>14. ASSUME NEW t \in IO, Choose(t) PROVE QuotaAccounted'
  <2>1. UNCHANGED pc \/ Goto(t, "starved") \/ Goto(t, "evict")  BY <1>14 DEF Choose
  <2>2. pc[t] = "scan" /\ UNCHANGED <<backed, free, leaked>>  BY <1>14 DEF Choose, segVars, capVars
  <2>3. CASE UNCHANGED pc  BY <1>3, <2>2, <2>3 DEF At
  <2>. QED  BY <1>4, <2>1, <2>2, <2>3
<1>15. ASSUME NEW t \in IO, EvictNothing(t) PROVE QuotaAccounted'
  BY <1>4, <1>15 DEF EvictNothing, Retries, segVars, capVars
<1>16. ASSUME NEW t \in IO, EvictLocks(t) PROVE QuotaAccounted'
  <2>1. Goto(t, "sync") \/ Goto(t, "remove")  BY <1>16 DEF EvictLocks
  <2>. QED  BY <1>4, <1>16, <2>1 DEF EvictLocks, capVars
<1>17. ASSUME NEW t \in IO, EvictUploads(t) \/ EvictUploaded(t) \/ EvictUploadFails(t)
       PROVE  QuotaAccounted'
  BY <1>4, <1>17 DEF EvictUploads, EvictUploaded, EvictUploadFails, capVars
<1>18. ASSUME NEW t \in IO, EvictRemoves(t) PROVE QuotaAccounted'
  <2>. DEFINE v == Victim(t)
  <2>1. v \in Seg /\ backed[v]  BY <1>18 DEF EvictRemoves, Owners, Owns
  <2>2. /\ At("fetch")' = At("fetch")
        /\ Cardinality(At("release")') = Cardinality(At("release")) + 1
    BY <1>18, Arrives DEF EvictRemoves
  <2>3. backed' = [backed EXCEPT ![v] = FALSE]  BY <1>18 DEF EvictRemoves
  <2>. HIDE DEF v
  <2>4. Cached' = Cached \ {v} /\ v \in Cached  BY <2>1, <2>3 DEF Cached, SegTypes
  <2>5. Cardinality(Cached') = Cardinality(Cached) - 1
    BY <2>4, RemoveSeg DEF Cached
  <2>6. UNCHANGED <<free, leaked>>  BY <1>18 DEF EvictRemoves
  <2>. QED  BY <1>1, <1>2, <2>2, <2>5, <2>6
<1>19. ASSUME NEW t \in IO, EvictReleases(t) PROVE QuotaAccounted'
  <2>1. pc[t] = "release" /\ Goto(t, "piece") /\ UNCHANGED <<backed, leaked>> /\ free' = free + 1
    BY <1>19 DEF EvictReleases, Retries, Releases
  <2>2. /\ Cardinality(At("release")') = Cardinality(At("release")) - 1
        /\ At("fetch")' = At("fetch")
    BY <2>1, Arrives
  <2>3. Cached' = Cached  BY <2>1 DEF Cached
  <2>. QED  BY <1>1, <1>2, <2>1, <2>2, <2>3
<1>20. ASSUME NEW f \in Syncer,
              \/ FlushContinues(f) \/ FlushBegins(f) \/ CloseWants(f)
              \/ \E s \in Seg : WorkContinues(f, s)
       PROVE  QuotaAccounted'
  <2>1. /\ leaked' = leaked /\ \A t \in IO : pc'[t] = pc[t]
        /\ UNCHANGED <<backed, free>> \/ (f \in Closer /\ CloseEmpties(f))
    BY <1>20, FlushFrame
  <2>2. At("fetch")' = At("fetch") /\ At("release")' = At("release")  BY <2>1 DEF At
  <2>3. CASE UNCHANGED <<backed, free>>  BY <1>3, <2>1, <2>2, <2>3
  <2>4. CASE CloseEmpties(f) /\ ~Persist
    <3>1. Cached' = {}  BY <2>4 DEF CloseEmpties, Cached
    <3>2. Cardinality(Cached') = 0  BY <3>1, FS_EmptySet
    <3>3. free' = free + Cardinality(Cached)  BY <2>4 DEF CloseEmpties, Cached
    <3>. QED  BY <1>1, <1>2, <2>1, <2>2, <3>2, <3>3
  <2>. QED  BY <2>1, <2>3, <2>4 DEF CloseEmpties
<1>21. CASE UNCHANGED vars  BY <1>3, <1>21 DEF vars, segVars, capVars, At
<1>22. ASSUME NEW t \in IO, IoContinues(t) PROVE QuotaAccounted'
  BY Zenon, <1>6, <1>7, <1>8, <1>9, <1>10, <1>11, <1>12, <1>13, <1>14, <1>15, <1>16, <1>17,
     <1>18, <1>19, <1>22 DEF IoContinues
<1>. QED  BY Zenon, <1>5, <1>20, <1>21, <1>22 DEF Next, Begins, Continues, Syncer

-----------------------------------------------------------------------------
(* The search for capacity *)

\* A search that others do not disturb stays where it is.
LEMMA StillFinds ==
    ASSUME Types, Types', Owners, NEW u \in IO, Finds(u),
           io'[u] = io[u], lru'[u] = lru[u], pc'[u] = pc[u],
           \/ rival'[u]
           \/ /\ rival'[u] = rival[u] /\ leaked' = leaked /\ free' >= free
              /\ \A s \in Seg : backed[s] => backed'[s]
    PROVE  Finds(u)'
<1>. SUFFICES ASSUME ~rival'[u], leaked' = 0 PROVE Finds(u)'  BY DEF Finds
<1>1. /\ ~rival[u] /\ leaked = 0 /\ free' >= free /\ \A s \in Seg : backed[s] => backed'[s]
      /\ Victim(u)' = Victim(u) /\ free \in Nat /\ free' \in Nat
  BY DEF Victim, Types, IoTypes
<1>2. pc[u] = "evict" => Victim(u) \in Seg  BY DEF Owners, Owns
<1>. QED  BY <1>1, <1>2 DEF Finds

\* Alone, a request that is refused once finds a victim: the cache holds all the quota.
LEMMA RefusedFinds ==
    ASSUME Types, QuotaAccounted, NEW t \in IO, pc[t] = "load", free = 0, leaked = 0,
           \A u \in IO \ {t} : pc[u] \notin {"fetch", "release"}
    PROVE  \E s \in Seg : backed[s]
<1>1. At("fetch") = {} /\ At("release") = {}  BY DEF At
<1>2. Cardinality(At("fetch")) = 0 /\ Cardinality(At("release")) = 0  BY <1>1, FS_EmptySet
<1>3. Cardinality(Cached) \in Nat  BY Counts
<1>4. Cardinality(Cached) = Quota  BY <1>2, <1>3 DEF QuotaAccounted, Cached
<1>5. Quota \in Nat \ {0}  BY SizeAssumption, Sizes
<1>6. Cached # {}  BY <1>4, <1>5, FS_EmptySet
<1>. QED  BY <1>6 DEF Cached

\* A look at a segment does not lose a candidate.
LEMMA ScanFinds ==
    ASSUME Types, NEW t \in IO, Scan(t), Finds(t)
    PROVE  Finds(t)'
<1>. SUFFICES ASSUME ~rival'[t], leaked' = 0 PROVE Finds(t)'  BY DEF Finds
<1>. DEFINE i == lru[t].i
<1>1. /\ pc[t] = "scan" /\ ~rival[t] /\ leaked = 0
      /\ UNCHANGED <<pc, io, backed, dirty, rival, leaked>>
  BY DEF Scan, capVars, segVars
<1>2. i \in Seg /\ i # None /\ lru[t] \in LruRec
  BY Sizes, RoleAssumption DEF Scan, Types, IoTypes, LruRec, Seg
<1>3. PICK s \in Seg : s # io[t].seg /\ backed[s] /\ (i <= s \/ Victim(t) # None)
  BY <1>1 DEF Finds
<1>4. PICK taken \in BOOLEAN :
        /\ taken => LooksAt(t)
        /\ LooksAt(t) /\ (IF dirty[i] THEN lru[t].stale ELSE lru[t].clean) = None => taken
        /\ lru' = [lru EXCEPT ![t] =
                     [i |-> i + 1, tries |-> lru[t].tries,
                      clean |-> IF taken /\ ~dirty[i] THEN i ELSE lru[t].clean,
                      stale |-> IF taken /\ dirty[i] THEN i ELSE lru[t].stale]]
  BY DEF Scan
<1>5. /\ lru'[t].i = i + 1
      /\ lru'[t].clean = IF taken /\ ~dirty[i] THEN i ELSE lru[t].clean
      /\ lru'[t].stale = IF taken /\ dirty[i] THEN i ELSE lru[t].stale
  BY <1>4 DEF Types, IoTypes
<1>. HIDE DEF i
<1>6. Victim(t) # None => Victim(t)' # None  BY <1>2, <1>5 DEF Victim
<1>7. i + 1 <= s \/ Victim(t)' # None
  <2>1. CASE Victim(t) # None  BY <1>6, <2>1
  <2>2. CASE i < s  BY <1>2, <2>2, Sizes DEF Seg
  <2>3. CASE i = s
    <3>1. LooksAt(t)  BY <1>3, <2>3 DEF LooksAt, i
    <3>2. CASE taken  BY <1>2, <1>5, <3>2 DEF Victim
    <3>3. CASE ~taken
      <4>1. lru[t].stale # None \/ lru[t].clean # None  BY <1>4, <3>1, <3>3
      <4>. QED  BY <1>6, <4>1 DEF Victim
    <3>. QED  BY <3>2, <3>3
  <2>. QED  BY <1>2, <1>3, <2>1, <2>2, <2>3, Sizes DEF Seg
<1>8. Finds(t)'  BY <1>1, <1>3, <1>5, <1>7 DEF Finds
<1>. QED  BY <1>8

\* The search of a goroutine that nobody disturbs succeeds.
LEMMA SearchesStep ==
    Types /\ Types' /\ Alone /\ Owners /\ QuotaAccounted /\ Searches /\ [Next]_vars => Searches'
<1>. SUFFICES ASSUME Types, Types', Alone, Owners, QuotaAccounted, Searches, [Next]_vars
              PROVE  Searches'
  OBVIOUS
<1>1. ASSUME NEW t \in IO, Finds(t)',
             IoContinues(t) \/ \E r \in Request : IoBegins(t, r[1], r[2], r[3])
      PROVE  Searches'
  <2>1. ASSUME NEW u \in IO \ {t} PROVE Finds(u)'
    BY <1>1, IoOthers, StillFinds DEF Searches
  <2>. QED  BY <1>1, <2>1 DEF Searches
<1>2. ASSUME NEW t \in IO, pc'[t] \notin {"scan", "evict", "piece", "load", "starved"} PROVE Finds(t)'
  BY <1>2 DEF Finds
<1>3. ASSUME NEW t \in IO, Goto(t, "piece"), io'[t].tries = 0 \/ free' > 0 PROVE Finds(t)'
  <2>1. pc'[t] = "piece"  BY <1>3 DEF Goto, Types, PcTypes, Thread
  <2>. QED  BY <1>3, <2>1 DEF Finds
<1>4. ASSUME NEW t \in IO, Advance(t) PROVE Finds(t)'
  <2>1. io'[t].tries = 0  BY <1>4 DEF Advance, Types, IoTypes
  <2>2. CASE Goto(t, "ok")  BY <1>2, <2>2 DEF Goto, Types, PcTypes, Thread
  <2>3. CASE Goto(t, "piece")  BY <1>3, <2>1, <2>3
  <2>. QED  BY <1>4, <2>2, <2>3 DEF Advance
<1>5. ASSUME NEW t \in IO, NEW r \in Request, IoBegins(t, r[1], r[2], r[3]) PROVE Searches'
  <2>1. io'[t].tries = 0 /\ Goto(t, "piece")  BY <1>5 DEF IoBegins, Types, IoTypes
  <2>. QED  BY <1>1, <1>3, <1>5, <2>1
<1>6. ASSUME NEW t \in IO, IoContinues(t) PROVE Finds(t)'
  <2>1. CASE IoAccess(t) \/ IoReadsZeros(t) \/ IoLoaded(t)
    BY <1>4, <2>1 DEF IoAccess, IoReadsZeros, IoLoaded
  <2>2. CASE IoPastEnd(t) \/ IoClaims(t) \/ IoLoadFails(t) \/ IoReturns(t) \/ EvictUploads(t)
             \/ EvictUploaded(t) \/ EvictUploadFails(t) \/ EvictRemoves(t)
    BY <1>2, <2>2
    DEF IoPastEnd, IoClaims, IoLoadFails, IoReturns, EvictUploads, EvictUploaded, EvictUploadFails,
        EvictRemoves, Goto, Types, PcTypes, Thread
  <2>3. CASE EvictLocks(t)
    <3>1. Goto(t, "sync") \/ Goto(t, "remove")  BY <2>3 DEF EvictLocks
    <3>. QED  BY <1>2, <3>1 DEF Goto, Types, PcTypes, Thread
  <2>4. CASE Scan(t)  BY <2>4, ScanFinds DEF Searches
  <2>5. CASE IoRefused(t)
    <3>. SUFFICES ASSUME ~rival'[t], leaked' = 0 PROVE Finds(t)'  BY DEF Finds
    <3>1. /\ pc[t] = "load" /\ free = 0 /\ ~backed[io[t].seg] /\ lru'[t] = NoScan
          /\ leaked = 0 /\ UNCHANGED <<io, backed>>
      BY <2>5 DEF IoRefused, LoadsFile, Types, IoTypes, segVars, Owners, Owns
    <3>2. ~rival[t] /\ \A u \in IO \ {t} : pc[u] \notin {"fetch", "release"}
      BY <2>5 DEF IoRefused, Types, IoTypes
    <3>3. io[t].tries = 0
      <4>1. ~(io[t].tries > 0)  BY <3>1, <3>2 DEF Searches, Finds
      <4>. QED  BY <4>1, BoundAssumption DEF Types, IoTypes, IoRec
    <3>4. pc'[t] = "scan"
      BY <2>5, <3>3, BoundAssumption DEF IoRefused, Goto, Types, PcTypes, Thread
    <3>5. PICK s \in Seg : backed[s]  BY <3>1, <3>2, RefusedFinds
    <3>6. s # io'[t].seg /\ backed'[s] /\ lru'[t].i <= s
      BY <3>1, <3>5, Sizes DEF NoScan, Seg
    <3>. QED  BY <3>4, <3>6 DEF Finds
  <2>6. CASE Choose(t)
    <3>. SUFFICES ASSUME ~rival'[t], leaked' = 0 PROVE Finds(t)'  BY DEF Finds
    <3>1. /\ pc[t] = "scan" /\ lru[t].i = NSeg /\ ~rival[t] /\ leaked = 0
          /\ UNCHANGED <<io, backed>>
      BY <2>6 DEF Choose, capVars, segVars
    <3>2. PICK s \in Seg : s # io[t].seg /\ backed[s] /\ (lru[t].i <= s \/ Victim(t) # None)
      BY <3>1 DEF Searches, Finds
    <3>3. Victim(t) # None  BY <3>1, <3>2, Sizes DEF Seg
    <3>4. CASE Goto(t, "evict") /\ backed[Victim(t)]
               /\ lru' = [lru EXCEPT ![t] = [NoScan EXCEPT !.clean = Victim(t)]]
      <4>1. pc'[t] = "evict" /\ lru'[t].clean = Victim(t)
        BY <3>4 DEF Goto, Types, PcTypes, IoTypes, Thread, NoScan
      <4>2. Victim(t)' = Victim(t)  BY <3>3, <4>1 DEF Victim
      <4>. QED  BY <3>1, <3>4, <4>1, <4>2 DEF Finds
    <3>5. CASE UNCHANGED pc /\ lru'[t].i = 0
      BY <3>1, <3>2, <3>5, Sizes DEF Finds, Seg
    <3>6. \/ Goto(t, "evict") /\ backed[Victim(t)]
             /\ lru' = [lru EXCEPT ![t] = [NoScan EXCEPT !.clean = Victim(t)]]
          \/ UNCHANGED pc /\ lru'[t].i = 0
      BY <2>6, <3>3 DEF Choose, Types, IoTypes, NoScan
    <3>. QED  BY <3>4, <3>5, <3>6
  <2>7. CASE EvictNothing(t)
    <3>1. rival'[t] \/ leaked' # 0
      BY <2>7 DEF EvictNothing, Searches, Finds, capVars
    <3>. QED  BY <3>1 DEF Finds
  <2>8. CASE EvictReleases(t)
    BY <1>3, <2>8 DEF EvictReleases, Retries, Releases, Types, IoTypes
  <2>9. CASE LoadLocks(t)
    <3>1. pc[t] = "piece" /\ pc'[t] = "load" /\ UNCHANGED <<io, rival, leaked, free>>
      BY <2>9 DEF LoadLocks, Goto, Types, PcTypes, Thread, ioVars, capVars
    <3>. QED  BY <3>1 DEF Searches, Finds
  <2>. QED  BY Zenon, <1>6, <2>1, <2>2, <2>3, <2>4, <2>5, <2>6, <2>7, <2>8, <2>9 DEF IoContinues
<1>7. ASSUME NEW f \in Syncer,
             \/ FlushContinues(f) \/ FlushBegins(f) \/ CloseWants(f)
             \/ \E s \in Seg : WorkContinues(f, s)
      PROVE  Searches'
  <2>1. /\ UNCHANGED <<io, lru, rival, leaked>> /\ \A t \in IO : pc'[t] = pc[t]
        /\ UNCHANGED <<backed, free>> \/ (f \in Closer /\ CloseEmpties(f))
    BY <1>7, FlushFrame DEF Types
  <2>2. CASE UNCHANGED <<backed, free>>
    BY <2>1, <2>2, StillFinds DEF Searches, Types, IoTypes
  <2>3. CASE f \in Closer /\ CloseEmpties(f)
    <3>1. \A t \in IO : pc'[t] = "idle"  BY <2>1, <2>3 DEF CloseEmpties, Alone, NoOneInside
    <3>. QED  BY <1>2, <3>1 DEF Searches
  <2>. QED  BY <2>1, <2>2, <2>3
<1>8. CASE UNCHANGED vars
  BY <1>8, StillFinds DEF vars, segVars, ioVars, capVars, Searches, Types, IoTypes
<1>. QED  BY Zenon, <1>1, <1>5, <1>6, <1>7, <1>8 DEF Next, Begins, Continues, Syncer

-----------------------------------------------------------------------------
(* The bytes of a request *)

\* Where a byte lies.
LEMMA ByteOf ==
    ASSUME NEW s \in Nat, NEW b \in 0 .. SegBytes - 1
    PROVE  (s * SegBytes + b) \div SegBytes = s /\ (s * SegBytes + b) % SegBytes = b
BY Sizes

\* And which byte lies there.
LEMMA ByteAt ==
    ASSUME NEW c \in Nat
    PROVE  /\ c \div SegBytes \in Nat /\ c % SegBytes \in 0 .. SegBytes - 1
           /\ c = (c \div SegBytes) * SegBytes + (c % SegBytes)
BY Sizes

\* The members of a range of bytes.
LEMMA InBytes ==
    ASSUME NEW from \in Nat, NEW to \in Nat
    PROVE  /\ \A x \in from .. to - 1 : <<x \div SegBytes, x % SegBytes>> \in Bytes(from, to)
           /\ \A y \in Bytes(from, to) :
                 \E x \in from .. to - 1 : y = <<x \div SegBytes, x % SegBytes>>
BY DEF Bytes

\* The bytes of a piece, which lies in one segment.
LEMMA PieceBytes ==
    ASSUME NEW s \in Nat, NEW p \in Nat, NEW n \in Nat, p + n <= SegBytes
    PROVE  {<<s, b>> : b \in p .. p + n - 1} = Bytes(s * SegBytes + p, s * SegBytes + p + n)
<1>. DEFINE base == s * SegBytes
<1>0. base \in Nat  BY Sizes
<1>1. ASSUME NEW b \in p .. p + n - 1
      PROVE  <<s, b>> \in Bytes(base + p, base + p + n)
  <2>1. b \in 0 .. SegBytes - 1  BY Sizes
  <2>2. <<s, b>> = <<(base + b) \div SegBytes, (base + b) % SegBytes>>  BY <2>1, ByteOf
  <2>. HIDE DEF base
  <2>3. base + b \in base + p .. base + p + n - 1  BY <1>0
  <2>4. <<(base + b) \div SegBytes, (base + b) % SegBytes>> \in Bytes(base + p, base + p + n)
    BY <1>0, <2>3, InBytes
  <2>. QED  BY <2>2, <2>4
<1>2. ASSUME NEW c \in base + p .. base + p + n - 1
      PROVE  <<c \div SegBytes, c % SegBytes>> \in {<<s, b>> : b \in p .. p + n - 1}
  <2>. HIDE DEF base
  <2>1. c - base \in p .. p + n - 1 /\ c - base \in 0 .. SegBytes - 1  BY <1>0, Sizes
  <2>2. c = base + (c - base)  BY <1>0
  <2>. USE DEF base
  <2>3. c \div SegBytes = s /\ c % SegBytes = c - base  BY <2>1, <2>2, ByteOf
  <2>. QED  BY <2>1, <2>3
<1>3. \A x \in Bytes(base + p, base + p + n) : x \in {<<s, b>> : b \in p .. p + n - 1}
  <2>. TAKE x \in Bytes(base + p, base + p + n)
  <2>. HIDE DEF base
  <2>1. PICK c \in base + p .. base + p + n - 1 : x = <<c \div SegBytes, c % SegBytes>>
    BY <1>0, InBytes
  <2>. QED  BY <1>2, <2>1
<1>4. \A x \in {<<s, b>> : b \in p .. p + n - 1} : x \in Bytes(base + p, base + p + n)
  BY <1>1
<1>. QED  BY <1>3, <1>4

\* Two ranges that meet.
LEMMA JoinBytes ==
    ASSUME NEW a \in Nat, NEW b \in Nat, NEW c \in Nat, a <= b, b <= c
    PROVE  Bytes(a, b) \cup Bytes(b, c) = Bytes(a, c)
<1>1. (a .. b - 1) \cup (b .. c - 1) = a .. c - 1  OBVIOUS
<1>. QED  BY <1>1 DEF Bytes

\* An empty range.
LEMMA NoBytes == ASSUME NEW a \in Nat PROVE Bytes(a, a) = {}
BY DEF Bytes

\* Of the bytes up to a place behind the last segment, those in a segment come before it.
LEMMA BytesInSegs ==
    ASSUME NEW a \in Nat, NEW b \in Nat, NEW c \in Nat, b <= c, NSeg * SegBytes <= b,
           Bytes(a, b) \subseteq Seg \X Nat
    PROVE  Bytes(a, c) \cap (Seg \X Nat) = Bytes(a, b)
<1>1. Bytes(a, b) \subseteq Bytes(a, c)  BY DEF Bytes
<1>2. ASSUME NEW x \in a .. c - 1, x \div SegBytes \in Seg PROVE x \in a .. b - 1
  <2>1. x \div SegBytes < NSeg /\ x \in Nat  BY <1>2, Sizes DEF Seg
  <2>2. x < NSeg * SegBytes  BY <2>1, Sizes
  <2>. QED  BY <2>2, Sizes
<1>3. Bytes(a, c) \cap (Seg \X Nat) \subseteq Bytes(a, b)
  <2>. SUFFICES ASSUME NEW x \in a .. c - 1, <<x \div SegBytes, x % SegBytes>> \in Seg \X Nat
                PROVE  <<x \div SegBytes, x % SegBytes>> \in Bytes(a, b)
    BY DEF Bytes
  <2>1. x \in a .. b - 1  BY <1>2
  <2>. QED  BY <2>1 DEF Bytes
<1>. QED  BY <1>1, <1>3

\* A piece that is done is added to what the request has transferred.
LEMMA AdvanceTransfers ==
    ASSUME Types, NEW t \in IO, Transfers(t), Advance(t), io[t].seg \in Seg,
           pc[t] \in {"piece", "load", "fetch"}
    PROVE  Transfers(t)'
<1>. DEFINE r == io[t]
            n == PieceLen(t)
<1>1. /\ r.first \in Nat /\ r.len \in Nat /\ r.seg \in Nat /\ r.pos \in 0 .. SegBytes - 1
      /\ r.left \in Nat
  BY DEF Types, IoTypes, IoRec
<1>2. n = (IF r.left <= SegBytes - r.pos THEN r.left ELSE SegBytes - r.pos) /\ n \in Nat
  BY PieceIs DEF Types
<1>3. /\ Reached(t) + r.left = r.first + r.len /\ r.left > 0 /\ r.left <= r.len
      /\ touched[t] = Bytes(r.first, Reached(t)) /\ touched[t] \subseteq Seg \X Nat
  BY DEF Transfers
<1>4. /\ touched'[t] = touched[t] \cup {<<r.seg, b>> : b \in r.pos .. r.pos + n - 1}
      /\ io'[t] = [op |-> r.op, first |-> r.first, len |-> r.len, seg |-> r.seg + 1, pos |-> 0,
                   left |-> r.left - n, tries |-> 0]
      /\ pc'[t] = IF r.left = n THEN "ok" ELSE "piece"
  BY DEF Advance, NextOffset, Goto, Types, IoTypes, PcTypes, Thread
<1>. HIDE DEF n, r
<1>5. Reached(t) = r.seg * SegBytes + r.pos /\ Reached(t) \in Nat /\ r.first <= Reached(t)
  <2>1. Reached(t) = r.seg * SegBytes + r.pos  BY DEF Reached, r
  <2>2. r.seg * SegBytes \in Nat  BY <1>1, Sizes
  <2>. QED  BY <1>1, <1>3, <2>1, <2>2
<1>6. r.pos \in Nat /\ r.pos + n <= SegBytes  BY <1>1, <1>2, Sizes
<1>7. {<<r.seg, b>> : b \in r.pos .. r.pos + n - 1} = Bytes(Reached(t), Reached(t) + n)
  <2>1. {<<r.seg, b>> : b \in r.pos .. r.pos + n - 1}
           = Bytes(r.seg * SegBytes + r.pos, r.seg * SegBytes + r.pos + n)
    <3>1. r.seg \in Nat /\ r.pos \in Nat /\ n \in Nat /\ r.pos + n <= SegBytes  BY <1>1, <1>2, <1>6
    <3>. QED  BY ZenonT(60), <3>1, PieceBytes
  <2>. QED  BY <1>5, <2>1
<1>8. touched'[t] = Bytes(r.first, Reached(t) + n)
  <2>1. Bytes(r.first, Reached(t)) \cup Bytes(Reached(t), Reached(t) + n)
           = Bytes(r.first, Reached(t) + n)
    BY <1>1, <1>2, <1>5, JoinBytes
  <2>. QED  BY <1>3, <1>4, <1>7, <2>1
<1>9. touched'[t] \subseteq Seg \X Nat
  <2>1. \A b \in r.pos .. r.pos + n - 1 : <<r.seg, b>> \in Seg \X Nat  BY <1>2, <1>6 DEF r
  <2>. QED  BY <1>3, <1>4, <2>1
<1>10. CASE r.left = n
  <2>1. pc'[t] = "ok" /\ io'[t].first = r.first /\ io'[t].len = r.len  BY <1>4, <1>10
  <2>2. Reached(t) + n = r.first + r.len  BY <1>3, <1>10
  <2>. QED  BY <1>8, <2>1, <2>2 DEF Transfers, Searching
<1>11. CASE r.left # n
  <2>1. n = SegBytes - r.pos /\ n < r.left  BY <1>1, <1>2, <1>11, Sizes
  <2>2. /\ pc'[t] = "piece" /\ io'[t].first = r.first /\ io'[t].len = r.len
        /\ io'[t].left = r.left - n
    BY <1>4, <1>11
  <2>3. Reached(t)' = Reached(t) + n
    <3>1. Reached(t)' = (r.seg + 1) * SegBytes + 0  BY <1>4 DEF Reached
    <3>2. (r.seg + 1) * SegBytes = r.seg * SegBytes + SegBytes  BY <1>1, Sizes
    <3>3. r.seg * SegBytes \in Nat  BY <1>1, Sizes
    <3>. QED  BY <1>1, <1>5, <2>1, <3>1, <3>2, <3>3, Sizes
  <2>4. /\ Reached(t)' + io'[t].left = r.first + r.len
        /\ io'[t].left > 0 /\ io'[t].left <= io'[t].len
    BY <1>1, <1>2, <1>3, <1>5, <2>1, <2>2, <2>3
  <2>. QED  BY <1>8, <1>9, <2>2, <2>3, <2>4 DEF Transfers, Searching
<1>. QED  BY <1>10, <1>11

\* Nothing else changes what a request asked for and how far it is.
LEMMA StillTransfers ==
    ASSUME NEW t \in IO, Transfers(t), touched'[t] = touched[t],
           \/ io'[t] = io[t]
           \/ /\ io'[t].first = io[t].first /\ io'[t].len = io[t].len /\ io'[t].left = io[t].left
              /\ io'[t].seg = io[t].seg /\ io'[t].pos = io[t].pos,
           \/ pc'[t] = pc[t] \/ pc'[t] \in {"starved", "failed"}
           \/ /\ pc[t] \in {"piece", "load", "fetch"} \cup Searching
              /\ pc'[t] \in {"piece", "load", "fetch"} \cup Searching
    PROVE  Transfers(t)'
<1>1. Reached(t)' = Reached(t)  BY DEF Reached
<1>. QED  BY <1>1 DEF Transfers, Searching

\* A request never leaves a byte out and never takes one twice or too much.
LEMMA RangesStep == Types /\ Types' /\ Owners /\ Ranges /\ [Next]_vars => Ranges'
<1>. SUFFICES ASSUME Types, Types', Owners, Ranges, [Next]_vars PROVE Ranges'  OBVIOUS
<1>. USE DEF Types
<1>1. ASSUME NEW t \in IO, Transfers(t)',
             IoContinues(t) \/ \E r \in Request : IoBegins(t, r[1], r[2], r[3])
      PROVE  Ranges'
  <2>1. ASSUME NEW u \in IO \ {t} PROVE Transfers(u)'
    <3>1. io'[u] = io[u] /\ pc'[u] = pc[u] /\ touched'[u] = touched[u]  BY <1>1, IoOthers
    <3>. QED  BY <3>1, StillTransfers DEF Ranges
  <2>. QED  BY <1>1, <2>1 DEF Ranges
<1>2. ASSUME NEW t \in IO, NEW r \in Request, IoBegins(t, r[1], r[2], r[3]) PROVE Ranges'
  <2>. DEFINE a == r[2]
              q == io'[t]
  <2>1. a \in Nat /\ r[3] \in Nat \ {0}  BY RequestTypes
  <2>2. /\ q.first = a /\ q.len = r[3] /\ q.left = r[3] /\ q.seg = a \div SegBytes
        /\ q.pos = a % SegBytes
    BY <1>2 DEF IoBegins, IoTypes
  <2>3. pc[t] = "idle" /\ pc'[t] = "piece" /\ touched'[t] = touched[t]
    BY <1>2 DEF IoBegins, Goto, PcTypes, Thread
  <2>4. touched'[t] = {}  BY <2>3 DEF Ranges, Transfers
  <2>5. Reached(t)' = a  BY <2>1, <2>2, ByteAt DEF Reached
  <2>6. Bytes(a, a) = {}  BY <2>1, NoBytes
  <2>. HIDE DEF a
  <2>7. Transfers(t)'  BY <2>1, <2>2, <2>3, <2>4, <2>5, <2>6 DEF Transfers, Searching
  <2>. QED  BY <1>1, <1>2, <2>7
<1>3. ASSUME NEW t \in IO, IoContinues(t) PROVE Transfers(t)'
  <2>1. CASE IoAccess(t) \/ IoReadsZeros(t)
    <3>1. io[t].seg \in Seg  BY <2>1 DEF IoAccess, IoReadsZeros, LoadsFile, Owners, Owns
    <3>. QED  BY <2>1, <3>1, AdvanceTransfers DEF IoAccess, IoReadsZeros, LoadsFile, Ranges
  <2>2. CASE IoLoaded(t)
    <3>1. io[t].seg \in Seg  BY <2>2 DEF IoLoaded, Owners, Owns
    <3>. QED  BY <2>2, <3>1, AdvanceTransfers DEF IoLoaded, Ranges
  <2>3. CASE IoPastEnd(t)
    <3>1. /\ pc[t] = "piece" /\ pc'[t] = "eof" /\ io[t].seg >= NSeg
          /\ UNCHANGED <<io, touched>>
      BY <2>3 DEF IoPastEnd, Goto, PcTypes, Thread, ioVars
    <3>. QED  BY <3>1 DEF Ranges, Transfers, Reached
  <2>4. CASE IoReturns(t)
    <3>1. pc'[t] = "idle" /\ touched'[t] = {}
      BY <2>4 DEF IoReturns, Goto, PcTypes, Thread, IoTypes
    <3>. QED  BY <3>1 DEF Transfers, Searching
  <2>5. CASE LoadLocks(t) \/ IoClaims(t) \/ IoLoadFails(t)
    BY <2>5, StillTransfers
    DEF LoadLocks, IoClaims, LoadsFile, IoLoadFails, Goto, PcTypes, Thread, ioVars, Ranges, Searching
  <2>6. CASE IoRefused(t) \/ Scan(t) \/ Choose(t)
    BY <2>6, StillTransfers
    DEF IoRefused, LoadsFile, Scan, Choose, Goto, PcTypes, Thread, Ranges, Searching
  <2>7. CASE EvictLocks(t) \/ EvictUploads(t) \/ EvictUploaded(t) \/ EvictUploadFails(t)
             \/ EvictRemoves(t)
    BY <2>7, StillTransfers
    DEF EvictLocks, EvictUploads, EvictUploaded, EvictUploadFails, EvictRemoves, Goto, PcTypes, Thread,
        ioVars, Ranges, Searching
  <2>8. CASE EvictNothing(t) \/ EvictReleases(t)
    <3>1. /\ pc[t] \in Searching /\ pc'[t] = "piece" /\ touched' = touched
          /\ io' = [io EXCEPT ![t].tries = @ + 1]
      BY <2>8 DEF EvictNothing, EvictReleases, Retries, Goto, PcTypes, Thread, Searching
    <3>2. io[t] \in IoRec  BY DEF IoTypes
    <3>3. io'[t] = [io[t] EXCEPT !.tries = @ + 1]  BY <3>1 DEF IoTypes
    <3>4. /\ io'[t].first = io[t].first /\ io'[t].len = io[t].len /\ io'[t].left = io[t].left
          /\ io'[t].seg = io[t].seg /\ io'[t].pos = io[t].pos
      BY <3>2, <3>3 DEF IoRec
    <3>. QED  BY <3>1, <3>4, StillTransfers DEF Ranges
  <2>. QED  BY Zenon, <1>3, <2>1, <2>2, <2>3, <2>4, <2>5, <2>6, <2>7, <2>8 DEF IoContinues
<1>4. ASSUME UNCHANGED <<io, touched>>, \A t \in IO : pc'[t] = pc[t] PROVE Ranges'
  BY <1>4, StillTransfers DEF Ranges
<1>5. ASSUME NEW f \in Syncer,
             \/ FlushContinues(f) \/ FlushBegins(f) \/ CloseWants(f)
             \/ \E s \in Seg : WorkContinues(f, s)
      PROVE  Ranges'
  BY <1>4, <1>5, FlushFrame
<1>6. CASE UNCHANGED vars  BY <1>4, <1>6 DEF vars, ioVars
<1>. QED  BY Zenon, <1>1, <1>2, <1>3, <1>5, <1>6 DEF Next, Begins, Continues, Syncer

-----------------------------------------------------------------------------
(* The holders of locks *)

\* A goroutine that is elsewhere holds no lock.
LEMMA HoldsNothing ==
    ASSUME Held, NEW t \in IO,
           pc[t] \notin {"load", "fetch", "sync", "upload", "remove", "release"}
    PROVE  \A s \in Seg : fileW[s] # t /\ itemW[s] # t
BY RoleAssumption DEF Held, HeldFile, HeldItem, Thread

\* A flush goes on with its own goroutines.
LEMMA WorkHeld ==
    ASSUME Types, Held, NEW f \in Syncer, NEW s \in Seg, WorkContinues(f, s)
    PROVE  Held'
<1>. DEFINE Others == \A g \in Syncer, r \in Seg : <<g, r>> # <<f, s>> => work'[g][r] = work[g][r]
<1>. USE RoleAssumption DEF Types, FlushTypes, SegTypes, Thread, Syncer, segVars, ioVars, Work
<1>0. UNCHANGED <<io, lru, fileW, pc>>
  BY DEF WorkContinues, WorkStarts, WorkLocks, WorkUploads, WorkUploaded, WorkEnds
<1>1. \A r \in Seg : HeldFile(r)'  BY <1>0 DEF Held, HeldFile, Victim
<1>2. ASSUME Others, work[f][s] \notin {"item", "upload"}, UNCHANGED <<fileR, itemW>> PROVE Held'
  <2>1. \A r \in Seg : HeldItem(r)'  BY SMTT(30), <1>0, <1>2 DEF Held, HeldItem, Victim
  <2>2. \A r \in Seg : \A g \in fileR'[r] : work'[g][r] \in {"item", "upload"}  BY <1>2 DEF Held
  <2>. QED  BY <1>1, <2>1, <2>2 DEF Held
<1>3. CASE WorkStarts(f, s) \/ WorkEnds(f, s)
  BY <1>2, <1>3 DEF WorkStarts, WorkEnds
<1>4. CASE WorkLocks(f, s)
  <2>1. Others /\ UNCHANGED itemW /\ work[f][s] = "lock"  BY <1>4 DEF WorkLocks
  <2>2. CASE backed[s]
    <3>1. work'[f][s] = "item" /\ fileR' = [fileR EXCEPT ![s] = @ \cup {f}]
      BY <1>4, <2>2 DEF WorkLocks
    <3>2. \A r \in Seg : HeldItem(r)'  BY <1>0, <2>1 DEF Held, HeldItem, Victim
    <3>3. \A r \in Seg : \A g \in fileR'[r] : work'[g][r] \in {"item", "upload"}
      BY <2>1, <3>1 DEF Held
    <3>. QED  BY <1>1, <3>2, <3>3 DEF Held
  <2>3. CASE ~backed[s]  BY <1>2, <1>4, <2>1, <2>3 DEF WorkLocks
  <2>. QED  BY <2>2, <2>3
<1>5. CASE WorkUploads(f, s)
  <2>1. /\ Others /\ work'[f][s] = "upload" /\ itemW' = [itemW EXCEPT ![s] = f]
        /\ \A r \in Seg : fileR'[r] \subseteq fileR[r]
    BY <1>5 DEF WorkUploads, UploadBegins
  <2>2. \A r \in Seg : HeldItem(r)'  BY <1>0, <2>1 DEF Held, HeldItem, Victim
  <2>3. \A r \in Seg : \A g \in fileR'[r] : work'[g][r] \in {"item", "upload"}
    BY SMTT(30), <2>1 DEF Held
  <2>. QED  BY <1>1, <2>2, <2>3 DEF Held
<1>6. ASSUME NEW ok \in BOOLEAN, WorkUploaded(f, s, ok) PROVE Held'
  <2>1. /\ Others /\ itemW' = [itemW EXCEPT ![s] = None]
        /\ fileR' = [fileR EXCEPT ![s] = @ \ {f}]
    BY <1>6 DEF WorkUploaded, UploadEnds
  <2>2. \A r \in Seg : HeldItem(r)'  BY <1>0, <2>1 DEF Held, HeldItem, Victim
  <2>3. \A r \in Seg : \A g \in fileR'[r] : work'[g][r] \in {"item", "upload"}
    BY SMTT(30), <2>1 DEF Held
  <2>. QED  BY <1>1, <2>2, <2>3 DEF Held
<1>. QED  BY <1>3, <1>4, <1>5, <1>6 DEF WorkContinues

\* What flushes and Close do with locks, their goroutines do.
LEMMA SyncHeld ==
    ASSUME Types, Workers, Held, NEW f \in Syncer,
           \/ FlushContinues(f) \/ FlushBegins(f) \/ CloseWants(f)
           \/ \E s \in Seg : WorkContinues(f, s)
    PROVE  Held'
<1>1. CASE \E s \in Seg : WorkContinues(f, s)  BY <1>1, WorkHeld
<1>2. CASE FlushContinues(f) \/ FlushBegins(f) \/ CloseWants(f)
  <2>1. UNCHANGED <<io, lru, fileW>> /\ \A t \in IO : pc'[t] = pc[t]
    BY <1>2, FlushFrame DEF Types
  <2>2. UNCHANGED <<fileR, itemW>>
    BY <1>2 DEF FlushContinues, FlushBegins, CloseWants, FlushSpawns, FlushWaited, FlushReturns,
                CloseLocks, CloseEmpties, CloseFails, segVars
  <2>3. \A g \in Syncer, r \in Seg : work[g][r] \in {"item", "upload"} => work'[g][r] = work[g][r]
    <3>1. CASE UNCHANGED work  BY <3>1
    <3>2. CASE FlushSpawns(f)
      <4>1. todo[f] \in SUBSET Seg /\ todo[f] # {}  BY <3>2 DEF FlushSpawns, Types, FlushTypes
      <4>2. Min(todo[f]) \in todo[f]  BY <4>1, FirstSeg
      <4>3. work[f][Min(todo[f])] = "none"  BY <4>1, <4>2 DEF Workers, Works, Running
      <4>4. UNCHANGED work \/ work' = [work EXCEPT ![f][Min(todo[f])] = "start"]
        BY <3>2 DEF FlushSpawns, Work
      <4>. QED  BY SMTT(30), <4>3, <4>4 DEF Types, FlushTypes
    <3>. QED  BY <1>2, <3>1, <3>2
              DEF FlushContinues, FlushBegins, CloseWants, FlushWaited, FlushReturns, CloseLocks,
                  CloseEmpties, CloseFails, FlushStarts, FlushForgets, flushVars
  <2>4. \A r \in Seg : HeldFile(r)' /\ HeldItem(r)'
    BY <2>1, <2>2, <2>3, RoleAssumption DEF Held, HeldFile, HeldItem, Victim, Types, SegTypes
  <2>5. \A r \in Seg : \A g \in fileR'[r] : work'[g][r] \in {"item", "upload"}
    BY <2>2, <2>3 DEF Held, Types, SegTypes
  <2>. QED  BY <2>4, <2>5 DEF Held
<1>. QED  BY <1>1, <1>2

\* An eviction gives back the locks of its victim and of no other segment.
LEMMA LeavesVictim ==
    ASSUME Types, Held, NEW t \in IO, pc[t] \in {"upload", "release"},
           NEW v \in Seg, v = Victim(t), fileW[v] = t, UNCHANGED <<fileR, work>>,
           \A u \in IO \ {t} : io'[u] = io[u] /\ lru'[u] = lru[u] /\ pc'[u] = pc[u],
           \/ fileW' = [fileW EXCEPT ![v] = None]
           \/ fileW' = fileW /\ pc'[t] = "remove" /\ lru'[t] = lru[t],
           \/ itemW' = [itemW EXCEPT ![v] = None]
           \/ itemW' = itemW /\ pc[t] # "upload"
    PROVE  Held'
<1>1. \A u \in IO \ {t} : Victim(u)' = Victim(u)  BY DEF Victim
<1>2. /\ \A s \in Seg : fileW[s] \in IO \cup {None}
      /\ \A s \in Seg : itemW[s] # None => itemW[s] \in Thread
      /\ fileW \in [Seg -> IO \cup {None}] /\ itemW \in [Seg -> Thread \cup {None}]
  BY DEF Types, SegTypes
<1>3. \A s \in Seg \ {v} : fileW'[s] = fileW[s] /\ itemW'[s] = itemW[s]  BY <1>2
<1>4. \A s \in Seg \ {v} : fileW[s] # t /\ itemW[s] # t
  BY RoleAssumption DEF Held, HeldFile, HeldItem, Thread
<1>5. ASSUME NEW s \in Seg \ {v} PROVE HeldFile(s)' /\ HeldItem(s)'
  <2>1. HeldFile(s) /\ HeldItem(s)  BY DEF Held
  <2>2. HeldFile(s)'  BY <1>1, <1>2, <1>3, <1>4, <2>1 DEF HeldFile
  <2>3. HeldItem(s)'  BY <1>1, <1>2, <1>3, <1>4, <2>1 DEF HeldItem
  <2>. QED  BY <2>2, <2>3
<1>6. HeldFile(v)'
  <2>1. CASE fileW' = [fileW EXCEPT ![v] = None]  BY <1>2, <2>1 DEF HeldFile
  <2>2. CASE fileW' = fileW /\ pc'[t] = "remove" /\ lru'[t] = lru[t]
    BY <2>2 DEF HeldFile, Victim
  <2>. QED  BY <2>1, <2>2
<1>7. HeldItem(v)'
  <2>1. CASE itemW' = [itemW EXCEPT ![v] = None]  BY <1>2, <2>1 DEF HeldItem
  <2>2. CASE itemW' = itemW /\ pc[t] # "upload"
    <3>1. HeldItem(v) /\ itemW[v] # t  BY <2>2, RoleAssumption DEF Held, HeldItem, Thread
    <3>. QED  BY <1>1, <1>2, <2>2, <3>1 DEF HeldItem
  <2>. QED  BY <2>1, <2>2
<1>8. \A s \in Seg : HeldFile(s)' /\ HeldItem(s)'  BY <1>5, <1>6, <1>7
<1>. QED  BY <1>8 DEF Held

\* A lock is given back in the step that takes its holder elsewhere.
LEMMA HeldStep == Types /\ Types' /\ Owners /\ Workers /\ Held /\ [Next]_vars => Held'
<1>. SUFFICES ASSUME Types, Types', Owners, Workers, Held, [Next]_vars PROVE Held'  OBVIOUS
<1>. USE RoleAssumption
     DEF Types, Thread, Syncer, segVars, ioVars, capVars, flushVars, dueVars, Goto, Held, HeldFile,
         HeldItem, Victim, PcTypes, SegTypes, IoTypes, IoRec, LruRec
<1>1. ASSUME NEW t \in IO, NEW r \in Request, IoBegins(t, r[1], r[2], r[3]) PROVE Held'
  BY <1>1 DEF IoBegins
<1>2. ASSUME NEW t \in IO, IoPastEnd(t) PROVE Held'
  BY <1>2 DEF IoPastEnd
<1>3. ASSUME NEW t \in IO, IoAccess(t) PROVE Held'
  BY <1>3 DEF IoAccess, WriteDone, Advance
<1>3a. ASSUME NEW t \in IO, LoadLocks(t) PROVE Held'
  BY <1>3a DEF LoadLocks, FileIsFree
<1>4. ASSUME NEW t \in IO, IoReadsZeros(t) PROVE Held'
  BY <1>4 DEF IoReadsZeros, LoadsFile, UnlockFile, Advance, Owners, Owns
<1>5. ASSUME NEW t \in IO, IoClaims(t) PROVE Held'
  BY <1>5 DEF IoClaims, LoadsFile
<1>6. ASSUME NEW t \in IO, IoRefused(t) PROVE Held'
  BY <1>6 DEF IoRefused, LoadsFile, UnlockFile, Owners, Owns
<1>7. ASSUME NEW t \in IO, IoLoaded(t) PROVE Held'
  BY <1>7 DEF IoLoaded, UnlockFile, WriteDone, Advance, Owners, Owns
<1>8. ASSUME NEW t \in IO, IoLoadFails(t) PROVE Held'
  BY <1>8 DEF IoLoadFails, UnlockFile, Owners, Owns
<1>9. ASSUME NEW t \in IO, IoReturns(t) PROVE Held'
  BY <1>9 DEF IoReturns
<1>10. ASSUME NEW t \in IO, Scan(t) PROVE Held'
  BY <1>10 DEF Scan
<1>11. ASSUME NEW t \in IO, Choose(t) PROVE Held'
  <2>1. /\ pc[t] = "scan" /\ pc'[t] \in {"scan", "starved", "evict"}
        /\ \A u \in Thread \ {t} : pc'[u] = pc[u] /\ (u \in IO => lru'[u] = lru[u])
        /\ UNCHANGED <<segVars, io, flushVars>>
    BY <1>11 DEF Choose
  <2>2. \A s \in Seg : HeldFile(s)'
    <3>1. \A s \in Seg : fileW[s] # t  BY ZenonT(60), <2>1, HoldsNothing
    <3>2. fileW' = fileW /\ io' = io  BY <2>1
    <3>3. \A s \in Seg : fileW[s] # None => fileW[s] \in IO \ {t}  BY <3>1
    <3>. QED  BY <2>1, <3>2, <3>3
  <2>3. \A s \in Seg : HeldItem(s)'  BY <2>1
  <2>. QED  BY <2>1, <2>2, <2>3
<1>12. ASSUME NEW t \in IO, EvictNothing(t) PROVE Held'
  BY <1>12 DEF EvictNothing, Retries
<1>13. ASSUME NEW t \in IO, EvictLocks(t) PROVE Held'
  <2>1. Victim(t) \in Seg /\ pc[t] = "evict"  BY <1>13 DEF EvictLocks, Owners, Owns
  <2>2. /\ pc'[t] \in {"sync", "remove"} /\ \A u \in Thread \ {t} : pc'[u] = pc[u]
        /\ fileW' = [fileW EXCEPT ![Victim(t)] = t]
        /\ UNCHANGED <<io, lru, fileR, itemW, work>>
    BY <1>13 DEF EvictLocks
  <2>. \A u \in IO : Victim(u)' = Victim(u)  BY <2>2
  <2>. HIDE DEF Victim
  <2>3. \A s \in Seg : HeldFile(s)'  BY SMTT(30), <2>1, <2>2
  <2>4. \A s \in Seg : HeldItem(s)'  BY SMTT(30), <2>1, <2>2
  <2>. HIDE DEF HeldFile, HeldItem
  <2>. QED  BY <2>2, <2>3, <2>4
<1>13a. ASSUME NEW t \in IO, EvictUploads(t) PROVE Held'
  <2>1. Victim(t) \in Seg /\ pc[t] = "sync"  BY <1>13a DEF EvictUploads, Owners, Owns
  <2>2. /\ pc'[t] = "upload" /\ \A u \in Thread \ {t} : pc'[u] = pc[u]
        /\ itemW' = [itemW EXCEPT ![Victim(t)] = t]
        /\ UNCHANGED <<io, lru, fileR, fileW, work>>
    BY <1>13a DEF EvictUploads, UploadBegins
  <2>. \A u \in IO : Victim(u)' = Victim(u)  BY <2>2
  <2>. HIDE DEF Victim
  <2>3. ASSUME NEW s \in Seg PROVE HeldFile(s)'
    <3>1. HeldFile(s) /\ fileW'[s] = fileW[s] /\ io' = io  BY <2>2
    <3>2. CASE fileW[s] = t  BY <2>1, <2>2, <3>1, <3>2
    <3>3. CASE fileW[s] # t
      <4>1. fileW[s] # None => fileW[s] \in IO /\ fileW[s] \in Thread \ {t}  BY <3>3
      <4>. QED  BY <2>2, <3>1, <4>1
    <3>. QED  BY <3>2, <3>3
  <2>4. \A s \in Seg : HeldItem(s)'  BY SMTT(30), <2>1, <2>2
  <2>. HIDE DEF HeldFile, HeldItem
  <2>. QED  BY <2>2, <2>3, <2>4
<1>14. ASSUME NEW t \in IO, EvictUploaded(t) PROVE Held'
  <2>1. PICK v \in Seg : v = Victim(t) /\ fileW[v] = t /\ pc[t] = "upload"
    BY <1>14 DEF EvictUploaded, Owners, Owns
  <2>2. /\ pc'[t] = "remove" /\ \A u \in IO \ {t} : pc'[u] = pc[u]
        /\ itemW' = [itemW EXCEPT ![v] = None] /\ UNCHANGED <<io, lru, fileW, fileR, work>>
    BY <1>14, <2>1 DEF EvictUploaded, UploadEnds
  <2>. HIDE DEF Types, Held, HeldFile, HeldItem, Victim
  <2>. QED  BY <2>1, <2>2, LeavesVictim
<1>15. ASSUME NEW t \in IO, EvictUploadFails(t) PROVE Held'
  <2>1. PICK v \in Seg : v = Victim(t) /\ fileW[v] = t /\ pc[t] = "upload"
    BY <1>15 DEF EvictUploadFails, Owners, Owns
  <2>2. /\ pc'[t] = "failed" /\ \A u \in IO \ {t} : pc'[u] = pc[u]
        /\ itemW' = [itemW EXCEPT ![v] = None] /\ UNCHANGED <<io, lru, fileR, work>>
        /\ fileW' = [fileW EXCEPT ![v] = None]
    BY <1>15, <2>1 DEF EvictUploadFails, UploadEnds, UnlockFile
  <2>. HIDE DEF Types, Held, HeldFile, HeldItem, Victim
  <2>. QED  BY <2>1, <2>2, LeavesVictim
<1>16. ASSUME NEW t \in IO, EvictRemoves(t) PROVE Held'
  BY <1>16 DEF EvictRemoves
<1>17. ASSUME NEW t \in IO, EvictReleases(t) PROVE Held'
  <2>1. PICK v \in Seg : v = Victim(t) /\ fileW[v] = t /\ pc[t] = "release"
    BY <1>17 DEF EvictReleases, Owners, Owns
  <2>2. /\ pc'[t] = "piece" /\ UNCHANGED <<itemW, fileR, work>>
        /\ \A u \in IO \ {t} : io'[u] = io[u] /\ lru'[u] = lru[u] /\ pc'[u] = pc[u]
        /\ fileW' = [fileW EXCEPT ![v] = None]
    BY <1>17, <2>1 DEF EvictReleases, UnlockFile, Retries
  <2>. HIDE DEF Types, Held, HeldFile, HeldItem, Victim
  <2>. QED  BY <2>1, <2>2, LeavesVictim
<1>18. ASSUME NEW f \in Syncer,
              \/ FlushContinues(f) \/ FlushBegins(f) \/ CloseWants(f)
              \/ \E s \in Seg : WorkContinues(f, s)
       PROVE  Held'
  BY <1>18, SyncHeld
<1>19. CASE UNCHANGED vars  BY <1>19 DEF vars
<1>. QED
  BY Zenon, <1>1, <1>2, <1>3, <1>3a, <1>4, <1>5, <1>6, <1>7, <1>8, <1>9, <1>10, <1>11, <1>12,
     <1>13, <1>13a, <1>14, <1>15, <1>16, <1>17, <1>18, <1>19
  DEF Next, Begins, Continues, IoContinues, Syncer

-----------------------------------------------------------------------------
(* The theorems *)

IInv == /\ Types /\ Alone /\ Owners /\ Workers /\ Debts
        /\ QuotaAccounted /\ Searches /\ Ranges /\ Held

\* loadSegments has returned: nothing is cached and nobody has called.
LEMMA InitInv == Init => IInv
<1>. SUFFICES ASSUME Init PROVE IInv  OBVIOUS
<1>. USE Sizes, SizeAssumption, BoundAssumption, RoleAssumption DEF Init
<1>1. Types
  <2>1. SegTypes  BY DEF SegTypes
  <2>2. IoTypes
    <3>1. NoRequest \in IoRec  BY DEF NoRequest, IoRec
    <3>2. NoScan \in LruRec  BY DEF NoScan, LruRec
    <3>. QED  BY <3>1, <3>2 DEF IoTypes
  <2>3. FlushTypes  BY DEF FlushTypes, WorkLabels
  <2>4. PcTypes  BY DEF PcTypes, IoLabels, Thread, Syncer
  <2>. QED  BY <2>1, <2>2, <2>3, <2>4 DEF Types
<1>2. Alone /\ Owners  BY DEF Alone, NoOneInside, Owners, Owns, Searching, Thread, Syncer
<1>3. Workers
  <2>1. ASSUME NEW f \in Syncer PROVE Works(f)
    <3>1. Running(f) = {} /\ hasBuf[f] = {} /\ todo[f] = {} /\ pool[f] = 0  BY DEF Running
    <3>2. Cardinality(Running(f)) = 0 /\ Cardinality(hasBuf[f]) = 0  BY <3>1, FS_EmptySet
    <3>. QED  BY <3>1, <3>2 DEF Works
  <2>. QED  BY <2>1 DEF Workers
<1>4. Debts  BY DEF Debts, Owes, Thread
<1>5. QuotaAccounted
  <2>1. Cached = {} /\ At("fetch") = {} /\ At("release") = {}  BY DEF Cached, At, Thread
  <2>2. /\ Cardinality(Cached) = 0 /\ Cardinality(At("fetch")) = 0
        /\ Cardinality(At("release")) = 0
    BY <2>1, FS_EmptySet
  <2>. QED  BY <2>2 DEF QuotaAccounted, Cached
<1>6. Searches  BY DEF Searches, Finds, Thread
<1>7. Ranges  BY DEF Ranges, Transfers, Searching, Thread
<1>8. Held  BY DEF Held, HeldFile, HeldItem
<1>. QED  BY <1>1, <1>2, <1>3, <1>4, <1>5, <1>6, <1>7, <1>8 DEF IInv

\* Each step keeps the invariant.
LEMMA StepInv == IInv /\ [Next]_vars => IInv'
<1>. SUFFICES ASSUME IInv, [Next]_vars PROVE IInv'  OBVIOUS
<1>. USE DEF IInv
<1>1. Types'  BY TypesStep
<1>2. Alone' /\ Owners'  BY <1>1, AloneStep, OwnersStep
<1>3. Workers' /\ Debts'  BY <1>1, WorkersStep, DebtsStep
<1>4. QuotaAccounted' /\ Searches'  BY <1>1, QuotaStep, SearchesStep
<1>5. Ranges' /\ Held'  BY <1>1, RangesStep, HeldStep
<1>. QED  BY <1>1, <1>2, <1>3, <1>4, <1>5

\* What device.go keeps true of the segments' marks and locks, of the requests in ioAt and
\* of the goroutines of flush, after every step.
THEOREM Inductive == Spec => []IInv
<1>1. Init => IInv  BY InitInv
<1>2. IInv /\ [Next]_vars => IInv'  BY StepInv
<1>. QED  BY <1>1, <1>2, PTL DEF Spec

\* The variables of device.go stay in their ranges: no more units than the quota has,
\* no more tries than allowed, no more buffers in bufCh than it has room for.
THEOREM TypeCorrect == Spec => []TypeOK
<1>1. IInv => TypeOK
  <2>. SUFFICES ASSUME IInv PROVE TypeOK  OBVIOUS
  <2>. USE DEF IInv, Types
  <2>1. free \in 0 .. Quota /\ leaked \in 0 .. Quota
    <3>1. /\ Cardinality(Cached) \in Nat /\ Cardinality(At("fetch")) \in Nat
          /\ Cardinality(At("release")) \in Nat /\ free \in Nat /\ leaked \in Nat
          /\ free + Cardinality(Cached) + Cardinality(At("fetch"))
                  + Cardinality(At("release")) + leaked = Quota
      BY Counts DEF IoTypes, QuotaAccounted, Cached
    <3>2. Quota \in Nat  BY SizeAssumption, Sizes
    <3>3. \A a, b, c, d, e \in Nat :
             a + b + c + d + e \in Nat => a <= a + b + c + d + e /\ e <= a + b + c + d + e
      OBVIOUS
    <3>4. free <= Quota /\ leaked <= Quota  BY Zenon, <3>1, <3>2, <3>3
    <3>. QED  BY <3>1, <3>2, <3>4
  <2>2. \A t \in IO : /\ io[t].pos \in 0 .. SegBytes - 1 /\ io[t].left \in Nat
                      /\ io[t].tries \in 0 .. MaxCapTries
                      /\ lru[t].i \in 0 .. NSeg /\ lru[t].tries \in 0 .. MaxTries
    BY DEF IoTypes, IoRec, LruRec
  <2>3. pool \in [Syncer -> 0 .. ConcurFlush]
    <3>1. ASSUME NEW f \in Syncer PROVE pool[f] \in 0 .. ConcurFlush
      <4>1. /\ pool[f] \in Nat /\ Cardinality(hasBuf[f]) \in Nat
            /\ pool[f] + Cardinality(hasBuf[f]) <= ConcurFlush
        BY Finite DEF FlushTypes, Workers, Works
      <4>. QED  BY <4>1, BoundAssumption
    <3>. QED  BY <3>1 DEF FlushTypes
  <2>. QED  BY <2>1, <2>2, <2>3 DEF TypeOK, SegTypes, FlushTypes, PcTypes
<1>. QED  BY <1>1, Inductive, PTL

\* Every unit of quotaSegSema is free, held by a cached segment, by a load or by an
\* eviction, or was lost by createFile, however claims, loads, evictions and Close
\* interleave.
THEOREM Accounted == Spec => []QuotaAccounted
<1>1. IInv => QuotaAccounted  BY DEF IInv
<1>. QED  BY <1>1, Inductive, PTL

\* ioAt gives up for want of capacity only when another goroutine moved capacity while it
\* searched, whatever the quota and the number of segments.
THEOREM AloneNeverStarves == Spec => []OnlyRivalsStarve
<1>1. IInv => OnlyRivalsStarve  BY DEF IInv, Searches, Finds, OnlyRivalsStarve
<1>. QED  BY <1>1, Inductive, PTL

\* A flush that returns nil has uploaded all that was marked dirty when it began, however many
\* flushes and evictions share the segments and whichever of them fail.
THEOREM Commits == Spec => []FlushCommits
<1>1. IInv => FlushCommits
  <2>. SUFFICES ASSUME IInv, NEW f \in Syncer, pc[f] = "flushed", NEW s \in due[f]
                PROVE  itemW[s] # None
    BY DEF FlushCommits
  <2>1. s \in Seg  BY DEF IInv, Types, FlushTypes
  <2>2. todo[f] = {} /\ work[f][s] = "none" /\ ~err[f]
    BY <2>1 DEF IInv, Workers, Works, Running, Debts, Owes
  <2>3. Owed(f, s)  BY DEF IInv, Debts, Owes
  <2>. QED  BY <2>2, <2>3 DEF Owed
<1>. QED  BY <1>1, Inductive, PTL

\* freeBuf never waits for room in bufCh, for any limits on goroutines and buffers.
THEOREM RoomForBuffers == Spec => []BufferHasRoom
<1>1. IInv => BufferHasRoom  BY DEF IInv, Workers, Works, BufferHasRoom
<1>. QED  BY <1>1, Inductive, PTL

\* ioAt transfers exactly the bytes of its request, or those that lie in a segment, for
\* any size of segments and device and any request.
THEOREM TransfersExactly == Spec => []TransfersRange
<1>1. IInv => TransfersRange
  <2>. SUFFICES ASSUME IInv, NEW t \in IO
                PROVE  LET asked == {<<b \div SegBytes, b % SegBytes>> :
                                        b \in io[t].first .. io[t].first + io[t].len - 1} IN
                       /\ pc[t] = "ok" => touched[t] = asked
                       /\ pc[t] = "eof" => touched[t] = asked \cap (Seg \X Nat)
    BY DEF TransfersRange
  <2>1. Transfers(t)  BY DEF IInv, Ranges
  <2>2. /\ io[t].first \in Nat /\ io[t].len \in Nat /\ io[t].seg \in Nat
        /\ io[t].pos \in 0 .. SegBytes - 1 /\ io[t].left \in Nat
    BY DEF IInv, Types, IoTypes, IoRec
  <2>3. {<<b \div SegBytes, b % SegBytes>> : b \in io[t].first .. io[t].first + io[t].len - 1}
           = Bytes(io[t].first, io[t].first + io[t].len)
    BY <2>2 DEF Bytes
  <2>4. ASSUME pc[t] = "eof"
        PROVE  touched[t] = Bytes(io[t].first, io[t].first + io[t].len) \cap (Seg \X Nat)
    <3>1. /\ Reached(t) + io[t].left = io[t].first + io[t].len /\ io[t].seg >= NSeg
          /\ touched[t] = Bytes(io[t].first, Reached(t)) /\ touched[t] \subseteq Seg \X Nat
      BY <2>1, <2>4 DEF Transfers
    <3>2. NSeg * SegBytes <= io[t].seg * SegBytes /\ io[t].seg * SegBytes \in Nat
          /\ NSeg * SegBytes \in Nat
      BY <2>2, <3>1, Sizes
    <3>3. Reached(t) \in Nat /\ NSeg * SegBytes <= Reached(t)  BY <2>2, <3>2 DEF Reached
    <3>4. Reached(t) <= io[t].first + io[t].len /\ io[t].first + io[t].len \in Nat
      BY <2>2, <3>1, <3>3
    <3>. QED  BY <2>2, <3>1, <3>3, <3>4, BytesInSegs
  <2>. QED  BY <2>1, <2>3, <2>4 DEF Transfers
<1>. QED  BY <1>1, Inductive, PTL

\* A goroutine of a flush that waits is waiting for a lock.
LEMMA WorkersGoOn ==
    ASSUME IInv, NEW f \in Syncer, NEW s \in Seg, work[f][s] # "none",
           fileW[s] = None, itemW[s] = None
    PROVE  WorkReady(f, s)
<1>1. work[f][s] \in WorkLabels  BY DEF IInv, Types, FlushTypes
<1>2. ASSUME s \in hasBuf[f] PROVE pool[f] < ConcurFlush
  <2>1. hasBuf[f] \in SUBSET Seg /\ pool[f] \in Nat  BY DEF IInv, Types, FlushTypes
  <2>2. /\ Cardinality(hasBuf[f]) \in Nat /\ Cardinality(hasBuf[f] \ {s}) \in Nat
        /\ Cardinality(hasBuf[f] \ {s}) = Cardinality(hasBuf[f]) - 1
    BY <1>2, <2>1, Finite, RemoveSeg
  <2>3. pool[f] + Cardinality(hasBuf[f]) <= ConcurFlush  BY DEF IInv, Workers, Works
  <2>. QED  BY <2>1, <2>2, <2>3, BoundAssumption
<1>. QED  BY <1>1, <1>2 DEF WorkReady, WorkLabels

\* A goroutine in ioAt that waits is waiting for a lock.
LEMMA IoGoesOn ==
    ASSUME IInv, \A s \in Seg : fileW[s] = None /\ itemW[s] = None /\ fileR[s] = {},
           NEW t \in IO, pc[t] # "idle"
    PROVE  IoReady(t)
<1>1. pc[t] \in IoLabels /\ io[t].seg \in Nat /\ backed \in [Seg -> BOOLEAN]
  BY DEF IInv, Types, PcTypes, IoTypes, IoRec, SegTypes
<1>2. CASE pc[t] = "piece"
  <2>1. CASE io[t].seg >= NSeg  BY <1>2, <2>1 DEF IoReady
  <2>2. CASE ~(io[t].seg >= NSeg)
    <3>1. io[t].seg \in Seg  BY <1>1, <2>2, Sizes DEF Seg
    <3>2. CASE backed[io[t].seg]  BY <1>2, <3>1, <3>2 DEF IoReady
    <3>3. CASE ~backed[io[t].seg]  BY <1>1, <1>2, <2>2, <3>1, <3>3, Sizes DEF IoReady, FileIsFree
    <3>. QED  BY <3>2, <3>3
  <2>. QED  BY <2>1, <2>2
<1>3. CASE pc[t] = "evict"
  <2>1. Victim(t) \in Seg  BY <1>3 DEF IInv, Owners, Owns
  <2>. QED  BY <1>3, <2>1 DEF IoReady, FileIsFree
<1>4. CASE pc[t] = "load"
  <2>1. io[t].seg \in Seg  BY <1>4 DEF IInv, Owners, Owns
  <2>. QED  BY <1>4, <2>1 DEF IoReady, LoadsFile
<1>5. CASE pc[t] = "sync"
  <2>1. Victim(t) \in Seg  BY <1>5 DEF IInv, Owners, Owns
  <2>. QED  BY <1>5, <2>1 DEF IoReady
<1>6. CASE pc[t] \notin {"piece", "evict", "load", "sync"}
  BY <1>1, <1>6 DEF IoReady, IoLabels, Searching
<1>. QED  BY <1>2, <1>3, <1>4, <1>5, <1>6

\* The locks, flushSema, bufCh and pendingOpMu never make everyone wait: while an
\* operation runs, one can go on, whatever the numbers of segments, goroutines and buffers.
THEOREM SomeoneGoesOn == Spec => []AlwaysReady
<1>1. IInv => AlwaysReady
  <2>. SUFFICES ASSUME IInv, Busy, ~SomeoneReady PROVE FALSE  BY DEF AlwaysReady
  <2>1. /\ \A t \in IO : ~IoReady(t)
        /\ \A f \in Syncer : ~SyncReady(f) /\ \A s \in Seg : ~WorkReady(f, s)
    BY DEF SomeoneReady
  <2>2. \A s \in Seg : itemW[s] = None
    <3>1. \A t \in IO : pc[t] # "upload"  BY <2>1 DEF IoReady
    <3>2. \A f \in Syncer, s \in Seg : work[f][s] # "upload"  BY <2>1 DEF WorkReady
    <3>. QED  BY <3>1, <3>2 DEF IInv, Held, HeldItem
  <2>3. \A s \in Seg : fileW[s] = None
    <3>1. \A s \in Seg : fileW[s] \in IO \cup {None}  BY DEF IInv, Types, SegTypes
    <3>2. \A t \in IO : pc[t] \notin {"fetch", "upload", "remove", "release"}
      BY <2>1 DEF IoReady
    <3>3. \A t \in IO : pc[t] # "load"
      BY <2>1, <2>2 DEF IoReady, LoadsFile, IInv, Owners, Owns
    <3>4. \A t \in IO : pc[t] # "sync"  BY <2>1, <2>2 DEF IoReady, IInv, Owners, Owns
    <3>. QED  BY <3>1, <3>2, <3>3, <3>4 DEF IInv, Held, HeldFile
  <2>4. \A f \in Syncer, s \in Seg : work[f][s] = "none"  BY <2>1, <2>2, <2>3, WorkersGoOn
  <2>5. \A s \in Seg : fileR[s] = {}
    <3>1. \A s \in Seg : fileR[s] \subseteq Syncer  BY DEF IInv, Types, SegTypes
    <3>. QED  BY <2>4, <3>1 DEF IInv, Held
  <2>6. \A t \in IO : pc[t] = "idle"  BY <2>1, <2>2, <2>3, <2>5, IoGoesOn
  <2>7. \A f \in Syncer : pc[f] # "flush"
    <3>. SUFFICES ASSUME NEW f \in Syncer, pc[f] = "flush" PROVE FALSE  OBVIOUS
    <3>1. Running(f) = {}  BY <2>4 DEF Running
    <3>2. SemaHasPlace(f)  BY <3>1, FS_EmptySet, BoundAssumption DEF SemaHasPlace
    <3>. QED  BY <2>1, <3>1, <3>2 DEF SyncReady
  <2>8. \A f \in Syncer : pc[f] \notin {"flushed", "flushErr"}  BY <2>1 DEF SyncReady
  <2>9. NoOneInside
    BY <2>6, <2>7, <2>8 DEF IInv, Types, PcTypes, NoOneInside, Syncer
  <2>10. PICK c \in Thread : pc[c] \notin {"idle", "closed", "closeErr"}  BY DEF Busy
  <2>11. c \in Closer /\ pc[c] = "want"
    <3>1. c \in Closer  BY <2>9, <2>10 DEF NoOneInside, Thread, Syncer
    <3>2. c \in Syncer  BY <3>1 DEF Syncer
    <3>. QED  BY <2>7, <2>8, <2>10, <3>1, <3>2 DEF IInv, Types, PcTypes
  <2>12. SyncReady(c)
    BY <2>7, <2>8, <2>9, <2>11 DEF SyncReady, Syncer
  <2>. QED  BY <2>1, <2>11, <2>12 DEF Syncer
<1>. QED  BY <1>1, Inductive, PTL

-----------------------------------------------------------------------------
(* Deleting cache files *)

\* One Close flushes, the others return at once.
Closing(c) == pc[c] \in {"flush", "flushed", "flushErr"}
OneCloses == \A c, d \in Closer : Closing(c) /\ Closing(d) => c = d

\* Who locks a cache file for itself has it alone, and an eviction has it clean.
NoReaders == \A s \in Seg : fileW[s] # None => fileR[s] = {}
CleanVictims == \A t \in IO : pc[t] \in {"upload", "remove"} => ~dirty[Victim(t)]

\* Close comes to every dirty segment, or has failed.
Sees(c, s) == err[c] \/ s \in todo[c] \/ work[c][s] \in {"start", "lock", "item"}
CloseSees == \A c \in Closer : pc[c] \in {"flush", "flushed"} =>
                 \A s \in Seg : dirty[s] => Sees(c, s)

RInv == OneCloses /\ NoReaders /\ CleanVictims /\ CloseSees

\* A goroutine in ioAt locks a file nobody reads, and a write marks no file that another
\* one has locked.
LEMMA IoKeepsClean ==
    ASSUME Types, Owners, NoReaders, CleanVictims, NEW t \in IO,
           IoContinues(t) \/ \E r \in Request : IoBegins(t, r[1], r[2], r[3])
    PROVE  NoReaders' /\ CleanVictims'
<1>. USE RoleAssumption
     DEF Types, Thread, segVars, ioVars, capVars, flushVars, dueVars, Goto, Victim, PcTypes, SegTypes,
         IoTypes, IoRec, LruRec, NoReaders, CleanVictims
<1>1. ASSUME NEW r \in Request, IoBegins(t, r[1], r[2], r[3]) PROVE NoReaders' /\ CleanVictims'
  BY <1>1 DEF IoBegins
<1>2. CASE IoPastEnd(t)  BY <1>2 DEF IoPastEnd
<1>3. CASE IoAccess(t)  BY <1>3 DEF IoAccess, WriteDone, Advance, Owners, Owns
<1>3a. CASE LoadLocks(t)  BY <1>3a DEF LoadLocks, FileIsFree
<1>4. CASE IoReadsZeros(t)  BY <1>4 DEF IoReadsZeros, LoadsFile, UnlockFile, Advance
<1>5. CASE IoClaims(t)  BY <1>5 DEF IoClaims, LoadsFile
<1>6. CASE IoRefused(t)  BY <1>6 DEF IoRefused, LoadsFile, UnlockFile
<1>7. CASE IoLoaded(t)  BY <1>7 DEF IoLoaded, UnlockFile, WriteDone, Advance, Owners, Owns
<1>8. CASE IoLoadFails(t)  BY <1>8 DEF IoLoadFails, UnlockFile
<1>9. CASE IoReturns(t)  BY <1>9 DEF IoReturns
<1>10. CASE Scan(t)  BY <1>10 DEF Scan
<1>11. CASE Choose(t)  BY SMTT(30), <1>11 DEF Choose
<1>12. CASE EvictNothing(t)  BY <1>12 DEF EvictNothing, Retries
<1>13. CASE EvictLocks(t)  BY <1>13 DEF EvictLocks, FileIsFree, Owners, Owns
<1>13a. CASE EvictUploads(t)  BY <1>13a DEF EvictUploads, UploadBegins, Owners, Owns
<1>14. CASE EvictUploaded(t)  BY <1>14 DEF EvictUploaded, UploadEnds
<1>15. CASE EvictUploadFails(t)  BY <1>15 DEF EvictUploadFails, UploadEnds, UnlockFile
<1>16. CASE EvictRemoves(t)  BY <1>16 DEF EvictRemoves
<1>17. CASE EvictReleases(t)  BY <1>17 DEF EvictReleases, UnlockFile, Retries
<1>. QED
  BY Zenon, <1>1, <1>2, <1>3, <1>3a, <1>4, <1>5, <1>6, <1>7, <1>8, <1>9, <1>10, <1>11, <1>12,
     <1>13, <1>13a, <1>14, <1>15, <1>16, <1>17 DEF IoContinues

\* A flush reads no file that is locked, and marks none.
LEMMA SyncKeepsClean ==
    ASSUME Types, Owners, NoReaders, CleanVictims, NEW f \in Syncer,
           \/ FlushContinues(f) \/ FlushBegins(f) \/ CloseWants(f)
           \/ \E s \in Seg : WorkContinues(f, s)
    PROVE  /\ NoReaders' /\ CleanVictims'
           /\ \A s \in Seg : dirty'[s] => dirty[s]
<1>1. UNCHANGED <<lru, fileW>> /\ \A t \in IO : pc'[t] = pc[t]  BY FlushFrame DEF Types
<1>2. \A s \in Seg : /\ fileW[s] # None => fileR'[s] \subseteq fileR[s]
                     /\ dirty'[s] => dirty[s]
  <2>. USE DEF Types, SegTypes, segVars
  <2>1. CASE FlushContinues(f) \/ FlushBegins(f) \/ CloseWants(f)
    BY <2>1 DEF FlushContinues, FlushBegins, CloseWants, FlushSpawns, FlushWaited, FlushReturns,
                CloseLocks, CloseEmpties, CloseFails
  <2>2. ASSUME NEW r \in Seg, WorkContinues(f, r)
        PROVE  \A s \in Seg : /\ fileW[s] # None => fileR'[s] \subseteq fileR[s]
                              /\ dirty'[s] => dirty[s]
    <3>1. CASE WorkStarts(f, r) \/ WorkEnds(f, r)  BY <3>1 DEF WorkStarts, WorkEnds
    <3>2. CASE WorkLocks(f, r)  BY <3>2 DEF WorkLocks
    <3>3. CASE WorkUploads(f, r)  BY <3>3 DEF WorkUploads, UploadBegins
    <3>4. CASE \E ok \in BOOLEAN : WorkUploaded(f, r, ok)  BY <3>4 DEF WorkUploaded, UploadEnds
    <3>. QED  BY Zenon, <2>2, <3>1, <3>2, <3>3, <3>4 DEF WorkContinues
  <2>. QED  BY <2>1, <2>2
<1>3. NoReaders'  BY <1>1, <1>2 DEF NoReaders
<1>4. CleanVictims'
  <2>1. \A t \in IO : Victim(t)' = Victim(t)  BY <1>1 DEF Victim
  <2>2. \A t \in IO : Victim(t) \in Seg \/ pc[t] \notin {"upload", "remove"}
    BY DEF Owners, Owns
  <2>. QED  BY <1>1, <1>2, <2>1, <2>2 DEF CleanVictims
<1>. QED  BY <1>2, <1>3, <1>4

\* A Close begins alone and stays the one that flushes.
LEMMA OneClosesStep == Types /\ Alone /\ OneCloses /\ [Next]_vars => OneCloses'
<1>. SUFFICES ASSUME Types, Alone, OneCloses, [Next]_vars PROVE OneCloses'  OBVIOUS
<1>. USE RoleAssumption DEF Types, PcTypes, Thread, Syncer, Alone, Goto, OneCloses, Closing
<1>1. ASSUME NEW t \in IO, IoContinues(t) \/ \E r \in Request : IoBegins(t, r[1], r[2], r[3])
      PROVE  OneCloses'
  BY <1>1, IoFrame
<1>2. ASSUME NEW f \in Flusher, FlushBegins(f) \/ FlushReturns(f) PROVE OneCloses'
  BY <1>2 DEF FlushBegins, FlushReturns
<1>3. ASSUME NEW f \in Syncer, FlushSpawns(f) \/ FlushWaited(f) PROVE OneCloses'
  BY <1>3 DEF FlushSpawns, FlushWaited
<1>4. ASSUME NEW c \in Closer, CloseWants(c) \/ CloseEmpties(c) \/ CloseFails(c) PROVE OneCloses'
  BY <1>4 DEF CloseWants, CloseEmpties, CloseFails
<1>5. ASSUME NEW c \in Closer, CloseLocks(c) PROVE OneCloses'  BY <1>5 DEF CloseLocks
<1>6. ASSUME NEW f \in Syncer, NEW s \in Seg, WorkContinues(f, s) PROVE OneCloses'
  <2>1. UNCHANGED pc
    BY <1>6 DEF WorkContinues, WorkStarts, WorkLocks, WorkUploads, WorkUploaded, WorkEnds
  <2>. QED  BY <2>1
<1>7. CASE UNCHANGED vars  BY <1>7 DEF vars
<1>. QED  BY Zenon, <1>1, <1>2, <1>3, <1>4, <1>5, <1>6, <1>7
          DEF Next, Begins, Continues, FlushContinues

\* A goroutine of a flush leaves its segment clean, or reports an error.
LEMMA WorkSees ==
    ASSUME Types, NEW f \in Syncer, NEW s \in Seg, WorkContinues(f, s),
           NEW c \in Closer, NEW r \in Seg, dirty'[r], dirty[r] => Sees(c, r)
    PROVE  Sees(c, r)'
<1>. USE DEF Types, FlushTypes, SegTypes, Syncer, Sees, Work, segVars
<1>1. CASE WorkStarts(f, s)  BY <1>1 DEF WorkStarts
<1>2. CASE WorkLocks(f, s)  BY SMTT(30), <1>2 DEF WorkLocks
<1>3. CASE WorkUploads(f, s)  BY <1>3 DEF WorkUploads, UploadBegins
<1>4. CASE \E ok \in BOOLEAN : WorkUploaded(f, s, ok)
  BY <1>4 DEF WorkUploaded, UploadEnds, SendsError
<1>5. CASE WorkEnds(f, s)  BY <1>5 DEF WorkEnds
<1>. QED  BY Zenon, <1>1, <1>2, <1>3, <1>4, <1>5 DEF WorkContinues

\* Close begins with every dirty segment and leaves none out.
LEMMA CloseSeesStep ==
    Types /\ Alone /\ Workers /\ CloseSees /\ [Next]_vars => CloseSees'
<1>. SUFFICES ASSUME Types, Alone, Workers, CloseSees, [Next]_vars PROVE CloseSees'  OBVIOUS
<1>. USE RoleAssumption DEF Types, PcTypes, SegTypes, FlushTypes, Thread, Syncer
<1>1. ASSUME NEW t \in IO, IoContinues(t) \/ \E r \in Request : IoBegins(t, r[1], r[2], r[3])
      PROVE  CloseSees'
  <2>1. UNCHANGED cancelled /\ \A f \in Syncer : pc'[f] = pc[f]  BY <1>1, IoFrame
  <2>2. ~cancelled
    <3>1. pc[t] # "idle" \/ ~cancelled
      BY <1>1
      DEF IoContinues, IoPastEnd, IoAccess, LoadLocks, IoReadsZeros, IoClaims, IoRefused, LoadsFile,
          IoLoaded, IoLoadFails, IoReturns, Scan, Choose, EvictNothing, EvictLocks, EvictUploads, EvictUploaded,
          EvictUploadFails, EvictRemoves, EvictReleases, IoBegins
    <3>. QED  BY <3>1 DEF Alone, NoOneInside
  <2>. QED  BY <2>1, <2>2 DEF Alone, CloseSees
<1>2. ASSUME NEW f \in Flusher, FlushBegins(f) \/ FlushReturns(f) PROVE CloseSees'
  BY <1>2 DEF FlushBegins, FlushReturns, FlushStarts, FlushForgets, segVars, Goto, CloseSees, Sees
<1>3. ASSUME NEW f \in Syncer, FlushSpawns(f) PROVE CloseSees'
  <2>. DEFINE s == Min(todo[f])
  <2>1. s \in Seg /\ s \in todo[f]  BY <1>3, FirstSeg DEF FlushSpawns
  <2>2. /\ UNCHANGED <<dirty, err, pc>> /\ todo' = [todo EXCEPT ![f] = @ \ {s}]
        /\ IF dirty[s] THEN work' = [work EXCEPT ![f][s] = "start"] ELSE UNCHANGED work
    BY <1>3 DEF FlushSpawns, segVars, Work
  <2>. HIDE DEF s
  <2>. QED  BY <2>1, <2>2 DEF CloseSees, Sees
<1>4. ASSUME NEW f \in Syncer, FlushWaited(f) PROVE CloseSees'
  BY <1>4 DEF FlushWaited, segVars, flushVars, Goto, CloseSees, Sees
<1>5. ASSUME NEW c \in Closer, CloseWants(c) \/ CloseEmpties(c) \/ CloseFails(c) PROVE CloseSees'
  BY <1>5 DEF CloseWants, CloseEmpties, CloseFails, FlushForgets, segVars, flushVars, Goto,
              CloseSees, Sees
<1>6. ASSUME NEW c \in Closer, CloseLocks(c) PROVE CloseSees'
  BY <1>6 DEF CloseLocks, FlushStarts, segVars, flushVars, Goto, CloseSees, Sees
<1>7. ASSUME NEW f \in Syncer, NEW s \in Seg, WorkContinues(f, s) PROVE CloseSees'
  <2>1. UNCHANGED pc
    BY <1>7 DEF WorkContinues, WorkStarts, WorkLocks, WorkUploads, WorkUploaded, WorkEnds
  <2>2. ASSUME NEW c \in Closer, pc'[c] \in {"flush", "flushed"}, NEW r \in Seg, dirty'[r]
        PROVE  Sees(c, r)'
    <3>1. dirty[r] => Sees(c, r)  BY <2>1, <2>2 DEF CloseSees
    <3>. QED  BY <1>7, <2>2, <3>1, WorkSees
  <2>. QED  BY <2>2 DEF CloseSees
<1>8. CASE UNCHANGED vars
  BY <1>8 DEF vars, segVars, flushVars, CloseSees, Sees
<1>. QED  BY Zenon, <1>1, <1>2, <1>3, <1>4, <1>5, <1>6, <1>7, <1>8
          DEF Next, Begins, Continues, FlushContinues

\* Together with the invariant above it is kept by each step.
LEMMA RInvStep == IInv /\ RInv /\ [Next]_vars => RInv'
<1>. SUFFICES ASSUME IInv, RInv, [Next]_vars PROVE RInv'  OBVIOUS
<1>. USE DEF IInv, RInv
<1>1. OneCloses' /\ CloseSees'  BY OneClosesStep, CloseSeesStep
<1>2. ASSUME NEW t \in IO, IoContinues(t) \/ \E r \in Request : IoBegins(t, r[1], r[2], r[3])
      PROVE  NoReaders' /\ CleanVictims'
  BY <1>2, IoKeepsClean
<1>3. ASSUME NEW f \in Syncer,
             \/ FlushContinues(f) \/ FlushBegins(f) \/ CloseWants(f)
             \/ \E s \in Seg : WorkContinues(f, s)
      PROVE  NoReaders' /\ CleanVictims'
  BY <1>3, SyncKeepsClean
<1>4. ASSUME UNCHANGED vars PROVE NoReaders' /\ CleanVictims'
  BY <1>4 DEF vars, segVars, ioVars, NoReaders, CleanVictims, Victim
<1>5. NoReaders' /\ CleanVictims'
  BY Zenon, <1>2, <1>3, <1>4 DEF Next, Begins, Continues, Syncer
<1>. QED  BY <1>1, <1>5

\* When Close empties the cache nothing is dirty and nobody reads a file.
LEMMA EmptiesUnused ==
    ASSUME IInv, RInv, NEW c \in Closer, pc[c] = "flushed", NEW s \in Seg
    PROVE  ~dirty[s] /\ fileR[s] = {}
<1>. USE DEF IInv
<1>1. c \in Syncer  BY DEF Syncer
<1>2. ~err[c] /\ todo[c] = {} /\ Running(c) = {}  BY <1>1 DEF Workers, Works, Debts, Owes
<1>3. work[c][s] = "none"  BY <1>2 DEF Running
<1>4. ~dirty[s]  BY <1>2, <1>3 DEF RInv, CloseSees, Sees
<1>5. ASSUME NEW f \in fileR[s] PROVE FALSE
  <2>1. f \in Syncer /\ work[f][s] # "none"  BY DEF Types, SegTypes, Held
  <2>2. pc[f] = "flush"  BY <2>1 DEF Workers, Works, Running
  <2>3. f \notin Flusher  BY <2>2 DEF Alone, NoOneInside
  <2>4. f \in Closer  BY <2>1, <2>3 DEF Syncer
  <2>. QED  BY <2>2, <2>4 DEF RInv, OneCloses, Closing
<1>. QED  BY <1>4, <1>5

\* A file is deleted by the eviction that has locked it, or by Close.
LEMMA DeletesOnlyUnused == IInv /\ RInv /\ [Next]_vars => [DeletesUnused]_vars
<1>. SUFFICES ASSUME IInv, RInv, [Next]_vars, NEW s \in Seg, backed[s], ~backed'[s]
              PROVE  ~dirty[s] /\ fileR[s] = {}
  BY DEF DeletesUnused
<1>. USE DEF IInv, Types, SegTypes
<1>1. ASSUME NEW t \in IO, IoContinues(t) \/ \E r \in Request : IoBegins(t, r[1], r[2], r[3])
      PROVE  ~dirty[s] /\ fileR[s] = {}
  <2>1. EvictRemoves(t)
    <3>1. IoLoaded(t) => backed'[s]  BY DEF IoLoaded
    <3>. QED
      BY <1>1, <3>1
      DEF IoContinues, IoPastEnd, IoAccess, LoadLocks, IoReadsZeros, IoClaims, IoRefused, IoLoadFails,
          IoReturns, Scan, Choose, EvictNothing, EvictLocks, EvictUploads, EvictUploaded, EvictUploadFails, EvictReleases,
          IoBegins, segVars
  <2>2. pc[t] = "remove" /\ s = Victim(t)  BY <2>1 DEF EvictRemoves
  <2>3. fileW[s] = t /\ t # None  BY <2>2, RoleAssumption DEF Owners, Owns, Thread
  <2>. QED  BY <2>2, <2>3 DEF RInv, NoReaders, CleanVictims
<1>2. ASSUME NEW f \in Syncer,
             \/ FlushContinues(f) \/ FlushBegins(f) \/ CloseWants(f)
             \/ \E r \in Seg : WorkContinues(f, r)
      PROVE  ~dirty[s] /\ fileR[s] = {}
  <2>1. f \in Closer /\ CloseEmpties(f)  BY <1>2, FlushFrame
  <2>. QED  BY <2>1, EmptiesUnused DEF CloseEmpties
<1>3. CASE UNCHANGED vars  BY <1>3 DEF vars, segVars
<1>. QED  BY Zenon, <1>1, <1>2, <1>3 DEF Next, Begins, Continues, Syncer

\* removeLeastRecentUsed and Close delete a cache file only when every write in it was
\* taken for an upload and nobody reads it, whatever is written and flushed meanwhile.
THEOREM DeletesClean == Spec => RemovesOnlyClean
<1>1. Init => RInv
  BY RoleAssumption DEF Init, RInv, OneCloses, Closing, NoReaders, CleanVictims, CloseSees, Thread, Syncer
<1>2. IInv /\ RInv /\ [Next]_vars => RInv'  BY RInvStep
<1>3. IInv /\ RInv /\ [Next]_vars => [DeletesUnused]_vars  BY DeletesOnlyUnused
<1>. QED  BY <1>1, <1>2, <1>3, Inductive, PTL DEF Spec, RemovesOnlyClean
=============================================================================
