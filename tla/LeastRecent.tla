----------------------------- MODULE LeastRecent -----------------------------
(***************************************************************************)
(* Which segment removeLeastRecentUsed evicts                              *)
(* (pkg/devices/objstore/device.go, LastOp in segment.go): the times of    *)
(* the last read and the last write of each cached segment, and the scan   *)
(* over them.  One goroutine; the races are module ObjStoreDevice's.       *)
(***************************************************************************)
EXTENDS Naturals, FiniteSets, FiniteSetsExt

CONSTANTS
    NSeg,       \* segments of the device
    Quota,      \* segments that fit in the cache
    MaxTime     \* bound on the reads and writes of one behaviour

Seg == 1 .. NSeg

VARIABLES
    backed, dirty,  \* the segments with a cache file, and those ahead of the store
    lastR, lastW,   \* atomicLastReadUnixNano, atomicLastWriteUnixNano (0: never)
    now,
    evicted         \* the segment the last operation evicted (0: none)

vars == <<backed, dirty, lastR, lastW, now, evicted>>

Init == /\ backed = {} /\ dirty = {}
        /\ lastR = [s \in Seg |-> 0] /\ lastW = [s \in Seg |-> 0]
        /\ now = 0 /\ evicted = 0

LastOp(s) == Min({lastR[s], lastW[s]})

\* lastOp.Before(best) || best.IsZero()
Takes(op, best) == op < best \/ best = 0

\* The scan: the best candidate of a class among segments 1 .. i (0: none yet).
Best(class) ==
    LET best[i \in 0 .. NSeg] ==
          IF i = 0 THEN 0
          ELSE LET b == best[i - 1] IN
               IF i \in class /\ (b = 0 \/ Takes(LastOp(i), LastOp(b))) THEN i ELSE b
    IN best[NSeg]

\* A clean segment is preferred.
Victim(for) == LET clean == Best(backed \ (dirty \cup {for})) IN
               IF clean # 0 THEN clean ELSE Best((backed \cap dirty) \ {for})

\* ReadAt and WriteAt of a segment note the time, load its file if they must,
\* and evict a victim first when the quota is used up.
Use(s, isWrite) ==
    LET full == s \notin backed /\ Cardinality(backed) = Quota
        v == Victim(s) IN
    /\ now < MaxTime /\ now' = now + 1
    /\ lastR' = IF isWrite THEN lastR ELSE [lastR EXCEPT ![s] = now + 1]
    /\ lastW' = IF isWrite THEN [lastW EXCEPT ![s] = now + 1] ELSE lastW
    /\ evicted' = IF full THEN v ELSE 0
    /\ backed' = (IF full THEN backed \ {v} ELSE backed) \cup {s}
    /\ dirty' = (IF full THEN dirty \ {v} ELSE dirty) \cup (IF isWrite THEN {s} ELSE {})

Next == \E s \in Seg, isWrite \in BOOLEAN : Use(s, isWrite)

Spec == Init /\ [][Next]_vars

-----------------------------------------------------------------------------
(* Property *)

LastUsed(s) == Max({lastR[s], lastW[s]})

\* "LastOp returns the last time a read or write operation took place": of the
\* cached segments that are as clean as the victim, the victim is the one whose
\* last read or write lies furthest back.
EvictsLeastRecent ==
    [][evicted' # 0 =>
         \A s \in backed : (s \in dirty <=> evicted' \in dirty) =>
                           LastUsed(evicted') <= LastUsed(s)]_vars
=============================================================================
