---------------------------- MODULE SegmentProofs ----------------------------
(***************************************************************************)
(* Proofs about Segment, for any contents and any number of goroutines.    *)
(* Types and locks are proved without further assumptions; the properties  *)
(* name the failures they cannot bear.                                     *)
(***************************************************************************)
EXTENDS Segment, TLAPS

\* Where a goroutine can be, by what it does.
Roles ==
    /\ \A t \in IO : pc[t] \in {"idle", "read", "load", "item", "zeros", "create", "download",
                                "access"}
    /\ \A t \in Flusher : pc[t] \in {"idle", "flush", "lockItem", "sync", "upload"}
    /\ \A t \in Evictor : pc[t] \in {"idle", "lockItem", "sync", "upload", "remove"}
    /\ pc[Closer] \in {"idle", "flush", "lockItem", "sync", "upload", "evict", "remove"}

\* Who holds fileMu: a buffered upload has given it back.
Loading == {"item", "zeros", "create", "download", "access"}
FileLock ==
    /\ fileW # NoThread => fileR = {}
    /\ \A t \in IO : /\ fileW = t <=> pc[t] \in Loading
                     /\ t \in fileR <=> pc[t] = "read"
    /\ \A t \in Flusher : /\ fileW # t
                          /\ t \in fileR <=> \/ pc[t] \in {"lockItem", "sync"}
                                             \/ pc[t] = "upload" /\ t \notin Buffered
    /\ \A t \in Evictor : t \notin fileR /\ (fileW = t <=> pc[t] # "idle")
    /\ pc[Closer] \in {"lockItem", "sync", "upload"} => Closer \in fileR \/ fileW = Closer
    /\ pc[Closer] = "remove" => fileW = Closer
    /\ pc[Closer] \in {"idle", "flush", "evict"} => Closer \notin fileR /\ fileW # Closer

\* Who holds itemMu.
ItemLock ==
    /\ itemW # NoThread => itemR = {}
    /\ \A t \in Thread : /\ itemW = t <=> pc[t] \in {"sync", "upload"}
                         /\ t \in itemR <=> pc[t] = "download"

\* What the holder of a lock knows about the file and the item.
Known ==
    /\ fileR # {} => opened
    /\ opened => file # NoVal /\ claimed >= 1
    /\ item => object # NoVal
    /\ \A t \in Thread \ IO : fileW = t => opened
    /\ \A t \in IO : /\ pc[t] \in Loading => (opened <=> pc[t] = "access")
                     /\ pc[t] \in {"zeros", "create", "download"} =>
                          itemW = NoThread /\ (item <=> pc[t] = "download")
    /\ \A t \in Thread : pc[t] = "upload" => buf[t] # NoVal

LInv == TypeOK /\ Roles /\ FileLock /\ ItemLock /\ Known

\* Every step keeps the types and the locks.
LEMMA LocksStep == LInv /\ [Next]_vars => LInv'
<1>. SUFFICES ASSUME LInv, [Next]_vars PROVE LInv'  OBVIOUS
<1>. USE ValAssumption, ThreadAssumption, FlagAssumption DEF LInv, Thread, diskVars,
         segVars, lockVars, specVars
<1>1. ASSUME NEW t \in IO, ReadShared(t) PROVE LInv'
  <2>. USE <1>1 DEF ReadShared, ShareFile, Goto
  <2>1. TypeOK'  BY DEF TypeOK, Roles, FileLock, Known
  <2>2. Roles'  BY DEF TypeOK, Roles
  <2>3. FileLock'  BY DEF TypeOK, Roles, FileLock, Loading
  <2>4. ItemLock'  BY DEF TypeOK, Roles, ItemLock
  <2>5. Known'  BY DEF TypeOK, Roles, FileLock, ItemLock, Known, Loading
  <2>. QED  BY <2>1, <2>2, <2>3, <2>4, <2>5
<1>2. ASSUME NEW t \in IO, ReadMisses(t) PROVE LInv'
  <2>. USE <1>2 DEF ReadMisses, Goto
  <2>1. TypeOK'  BY DEF TypeOK, Roles, FileLock, Known
  <2>2. Roles'  BY DEF TypeOK, Roles
  <2>3. FileLock'  BY DEF TypeOK, Roles, FileLock, Loading
  <2>4. ItemLock'  BY DEF TypeOK, Roles, ItemLock
  <2>5. Known'  BY DEF TypeOK, Roles, FileLock, ItemLock, Known, Loading
  <2>. QED  BY <2>1, <2>2, <2>3, <2>4, <2>5
<1>3. ASSUME NEW t \in IO, ZeroWriteSkipped(t) PROVE LInv'
  <2>. USE <1>3 DEF ZeroWriteSkipped, Wrote
  <2>1. TypeOK'  BY DEF TypeOK, Roles, FileLock, Known
  <2>2. Roles'  BY DEF TypeOK, Roles
  <2>3. FileLock'  BY DEF TypeOK, Roles, FileLock, Loading
  <2>4. ItemLock'  BY DEF TypeOK, Roles, ItemLock
  <2>5. Known'  BY DEF TypeOK, Roles, FileLock, ItemLock, Known, Loading
  <2>. QED  BY <2>1, <2>2, <2>3, <2>4, <2>5
<1>4. ASSUME NEW t \in IO, NEW v \in WriteVal, WriteBegins(t, v) PROVE LInv'
  <2>. USE <1>4 DEF WriteBegins, Goto
  <2>1. TypeOK'  BY DEF TypeOK, Roles, FileLock, Known
  <2>2. Roles'  BY DEF TypeOK, Roles
  <2>3. FileLock'  BY DEF TypeOK, Roles, FileLock, Loading
  <2>4. ItemLock'  BY DEF TypeOK, Roles, ItemLock
  <2>5. Known'  BY DEF TypeOK, Roles, FileLock, ItemLock, Known, Loading
  <2>. QED  BY <2>1, <2>2, <2>3, <2>4, <2>5
<1>5. ASSUME NEW t \in IO, Load(t) PROVE LInv'
  <2>. USE <1>5 DEF Load, LockFile, Goto, AfterLock
  <2>1. TypeOK'  BY DEF TypeOK, Roles, FileLock, Known
  <2>2. Roles'  BY DEF TypeOK, Roles
  <2>3. FileLock'  BY DEF TypeOK, Roles, FileLock, Loading
  <2>4. ItemLock'  BY DEF TypeOK, Roles, ItemLock
  <2>5. Known'  BY DEF TypeOK, Roles, FileLock, ItemLock, Known, Loading
  <2>. QED  BY <2>1, <2>2, <2>3, <2>4, <2>5
<1>6. ASSUME NEW t \in IO, LoadItem(t) PROVE LInv'
  <2>. USE <1>6 DEF LoadItem, Goto
  <2>1. TypeOK'  BY DEF TypeOK, Roles, FileLock, Known
  <2>2. Roles'  BY DEF TypeOK, Roles
  <2>3. FileLock'  BY DEF TypeOK, Roles, FileLock, Loading
  <2>4. ItemLock'  BY DEF TypeOK, Roles, ItemLock
  <2>5. Known'  BY DEF TypeOK, Roles, FileLock, ItemLock, Known, Loading
  <2>. QED  BY <2>1, <2>2, <2>3, <2>4, <2>5
<1>7. ASSUME NEW t \in IO, ClaimRefused(t) PROVE LInv'
  <2>. USE <1>7 DEF ClaimRefused, Return, UnlockFile, Goto
  <2>1. TypeOK'  BY DEF TypeOK, Roles, FileLock, Known
  <2>2. Roles'  BY DEF TypeOK, Roles
  <2>3. FileLock'  BY DEF TypeOK, Roles, FileLock, Loading
  <2>4. ItemLock'  BY DEF TypeOK, Roles, ItemLock
  <2>5. Known'  BY DEF TypeOK, Roles, FileLock, ItemLock, Known, Loading
  <2>. QED  BY <2>1, <2>2, <2>3, <2>4, <2>5
<1>8. ASSUME NEW t \in IO, CreateFile(t) PROVE LInv'
  <2>. USE <1>8 DEF CreateFile, ClaimCapacity, Goto
  <2>1. TypeOK'  BY DEF TypeOK, Roles, FileLock, Known
  <2>2. Roles'  BY DEF TypeOK, Roles
  <2>3. FileLock'  BY DEF TypeOK, Roles, FileLock, Loading
  <2>4. ItemLock'  BY DEF TypeOK, Roles, ItemLock
  <2>5. Known'  BY DEF TypeOK, Roles, FileLock, ItemLock, Known, Loading
  <2>. QED  BY <2>1, <2>2, <2>3, <2>4, <2>5
<1>9. ASSUME NEW t \in IO, CreateFails(t) PROVE LInv'
  <2>. USE <1>9 DEF CreateFails, ClaimCapacity, Return, UnlockFile, Goto
  <2>1. TypeOK'  BY DEF TypeOK, Roles, FileLock, Known
  <2>2. Roles'  BY DEF TypeOK, Roles
  <2>3. FileLock'  BY DEF TypeOK, Roles, FileLock, Loading
  <2>4. ItemLock'  BY DEF TypeOK, Roles, ItemLock
  <2>5. Known'  BY DEF TypeOK, Roles, FileLock, ItemLock, Known, Loading
  <2>. QED  BY <2>1, <2>2, <2>3, <2>4, <2>5
<1>10. ASSUME NEW t \in IO, DownloadFile(t) PROVE LInv'
  <2>. USE <1>10 DEF DownloadFile, ClaimCapacity, Reusable, Goto
  <2>1. TypeOK'  BY DEF TypeOK, Roles, FileLock, Known
  <2>2. Roles'  BY DEF TypeOK, Roles
  <2>3. FileLock'  BY DEF TypeOK, Roles, FileLock, Loading
  <2>4. ItemLock'  BY DEF TypeOK, Roles, ItemLock
  <2>5. Known'  BY DEF TypeOK, Roles, FileLock, ItemLock, Known, Loading
  <2>. QED  BY <2>1, <2>2, <2>3, <2>4, <2>5
<1>11. ASSUME NEW t \in IO, DownloadFails(t) PROVE LInv'
  <2>. USE <1>11 DEF DownloadFails, Return, UnlockFile, Goto
  <2>1. TypeOK'  BY DEF TypeOK, Roles, FileLock, Known
  <2>2. Roles'  BY DEF TypeOK, Roles
  <2>3. FileLock'  BY DEF TypeOK, Roles, FileLock, Loading
  <2>4. ItemLock'  BY DEF TypeOK, Roles, ItemLock
  <2>5. Known'  BY DEF TypeOK, Roles, FileLock, ItemLock, Known, Loading
  <2>. QED  BY <2>1, <2>2, <2>3, <2>4, <2>5
<1>12. ASSUME NEW t \in IO, ReadDone(t) PROVE LInv'
  <2>. USE <1>12 DEF ReadDone, Return, UnlockFile, Goto
  <2>1. TypeOK'  BY DEF TypeOK, Roles, FileLock, Known
  <2>2. Roles'  BY DEF TypeOK, Roles
  <2>3. FileLock'  BY DEF TypeOK, Roles, FileLock, Loading
  <2>4. ItemLock'  BY DEF TypeOK, Roles, ItemLock
  <2>5. Known'  BY DEF TypeOK, Roles, FileLock, ItemLock, Known, Loading
  <2>. QED  BY <2>1, <2>2, <2>3, <2>4, <2>5
<1>13. ASSUME NEW t \in IO, WriteDone(t) PROVE LInv'
  <2>. USE <1>13 DEF WriteDone, WriteMarks, Wrote, Return, UnlockFile, Goto
  <2>1. TypeOK'
    <3>1. arg[t] \in Val  BY DEF TypeOK
    <3>2. (file \in Val \cup {NoVal} /\ etag \in Val \cup {NoVal} /\ object \in Val \cup {NoVal})'
      BY <3>1 DEF TypeOK
    <3>3. (/\ opened \in BOOLEAN /\ item \in BOOLEAN /\ dirty \in BOOLEAN
         /\ closed \in BOOLEAN /\ dropped \in BOOLEAN)'
      BY DEF TypeOK
    <3>4. (claimed \in Nat)'  BY <3>1 DEF TypeOK
    <3>5. (/\ fileW \in Thread \cup {NoThread} /\ fileR \subseteq Thread
         /\ itemW \in Thread \cup {NoThread} /\ itemR \subseteq Thread)'
      BY DEF TypeOK
    <3>6. pc' \in [Thread -> {"idle", "read", "load", "item", "zeros", "create",
          "download", "access", "flush", "lockItem", "sync", "upload", "evict", "remove"}]
      BY DEF TypeOK
    <3>7. (arg \in [IO -> Val \cup {NoVal}] /\ buf \in [Thread -> Val \cup {NoVal}])'  BY DEF TypeOK
    <3>8. (truth \in Val /\ safe \subseteq Val)'  BY <3>1 DEF TypeOK
    <3>9. (since \in [Flusher \cup {Closer} -> SUBSET Val])'  BY <3>1 DEF TypeOK
    <3>. QED  BY <3>1, <3>2, <3>3, <3>4, <3>5, <3>6, <3>7, <3>8, <3>9 DEF TypeOK
  <2>2. Roles'  BY DEF TypeOK, Roles
  <2>3. FileLock'  BY DEF TypeOK, Roles, FileLock, Loading
  <2>4. ItemLock'  BY DEF TypeOK, Roles, ItemLock
  <2>5. Known'  BY DEF TypeOK, Roles, FileLock, ItemLock, Known, Loading
  <2>. QED  BY <2>1, <2>2, <2>3, <2>4, <2>5
<1>14. ASSUME NEW t \in Flusher, FlushClean(t) PROVE LInv'
  <2>. USE <1>14 DEF FlushClean
  <2>1. TypeOK'  BY DEF TypeOK, Roles, FileLock, Known
  <2>2. Roles'  BY DEF TypeOK, Roles
  <2>3. FileLock'  BY DEF TypeOK, Roles, FileLock, Loading
  <2>4. ItemLock'  BY DEF TypeOK, Roles, ItemLock
  <2>5. Known'  BY DEF TypeOK, Roles, FileLock, ItemLock, Known, Loading
  <2>. QED  BY <2>1, <2>2, <2>3, <2>4, <2>5
<1>15. ASSUME NEW t \in Flusher, FlushBegins(t) PROVE LInv'
  <2>. USE <1>15 DEF FlushBegins, Goto
  <2>1. TypeOK'  BY DEF TypeOK, Roles, FileLock, Known
  <2>2. Roles'  BY DEF TypeOK, Roles
  <2>3. FileLock'  BY DEF TypeOK, Roles, FileLock, Loading
  <2>4. ItemLock'  BY DEF TypeOK, Roles, ItemLock
  <2>5. Known'  BY DEF TypeOK, Roles, FileLock, ItemLock, Known, Loading
  <2>. QED  BY <2>1, <2>2, <2>3, <2>4, <2>5
<1>16. ASSUME NEW t \in Thread \ IO, FlushLocks(t) PROVE LInv'
  <2>. USE <1>16 DEF FlushLocks, ShareFile, Goto
  <2>1. TypeOK'  BY DEF TypeOK, Roles, FileLock, Known
  <2>2. Roles'  BY DEF TypeOK, Roles
  <2>3. FileLock'  BY DEF TypeOK, Roles, FileLock, Loading
  <2>4. ItemLock'  BY DEF TypeOK, Roles, ItemLock
  <2>5. Known'  BY DEF TypeOK, Roles, FileLock, ItemLock, Known, Loading
  <2>. QED  BY <2>1, <2>2, <2>3, <2>4, <2>5
<1>17. ASSUME NEW t \in Thread \ IO, FlushMissesFile(t) PROVE LInv'
  <2>. USE <1>17 DEF FlushMissesFile, FlushFailed, Goto
  <2>1. TypeOK'  BY DEF TypeOK, Roles, FileLock, Known
  <2>2. Roles'  BY DEF TypeOK, Roles
  <2>3. FileLock'  BY DEF TypeOK, Roles, FileLock, Loading
  <2>4. ItemLock'  BY DEF TypeOK, Roles, ItemLock
  <2>5. Known'  BY DEF TypeOK, Roles, FileLock, ItemLock, Known, Loading
  <2>. QED  BY <2>1, <2>2, <2>3, <2>4, <2>5
<1>18. ASSUME NEW t \in Thread \ IO, LockItem(t) PROVE LInv'
  <2>. USE <1>18 DEF LockItem, Goto
  <2>1. TypeOK'  BY ZenonT(60) DEF TypeOK, Roles, FileLock, Known
  <2>2. Roles'  BY DEF TypeOK, Roles
  <2>3. FileLock'  BY DEF TypeOK, Roles, FileLock, Loading
  <2>4. ItemLock'  BY DEF TypeOK, Roles, ItemLock
  <2>5. Known'  BY DEF TypeOK, Roles, FileLock, ItemLock, Known, Loading
  <2>. QED  BY <2>1, <2>2, <2>3, <2>4, <2>5
<1>19. ASSUME NEW t \in Thread \ IO, SyncFile(t) PROVE LInv'
  <2>. USE <1>19 DEF SyncFile, UnlockFile, Goto
  <2>1. TypeOK'  BY DEF TypeOK, Roles, FileLock, Known
  <2>2. Roles'  BY DEF TypeOK, Roles
  <2>3. FileLock'  BY DEF TypeOK, Roles, FileLock, Loading
  <2>4. ItemLock'  BY DEF TypeOK, Roles, ItemLock
  <2>5. Known'  BY DEF TypeOK, Roles, FileLock, ItemLock, Known, Loading
  <2>. QED  BY <2>1, <2>2, <2>3, <2>4, <2>5
<1>20. ASSUME NEW t \in Thread \ IO, Upload(t) PROVE LInv'
  <2>. USE <1>20 DEF Upload, UploadKeepsMark
  <2>1. CASE t \in Evictor
    <3>0. Goto(t, "remove") /\ UNCHANGED <<fileW, fileR, specVars>>  BY <2>1 DEF AfterUpload
    <3>. USE <2>1, <3>0 DEF Goto
    <3>1. TypeOK'  BY DEF TypeOK, Roles, FileLock, Known
    <3>2. Roles'  BY DEF TypeOK, Roles
    <3>3. FileLock'  BY DEF TypeOK, Roles, FileLock, Loading
    <3>4. ItemLock'  BY DEF TypeOK, Roles, ItemLock
    <3>5. Known'  BY DEF TypeOK, Roles, FileLock, ItemLock, Known, Loading
    <3>. QED  BY <3>1, <3>2, <3>3, <3>4, <3>5
  <2>2. CASE t \in Flusher
    <3>0. Goto(t, "idle") /\ UnlockFile(t) /\ FlushPromised(t)  BY <2>2 DEF AfterUpload
    <3>. USE <2>2, <3>0 DEF Goto, FlushPromised, UnlockFile
    <3>1. TypeOK'  BY DEF TypeOK, Roles, FileLock, Known
    <3>2. Roles'  BY DEF TypeOK, Roles
    <3>3. FileLock'  BY DEF TypeOK, Roles, FileLock, Loading
    <3>4. ItemLock'  BY DEF TypeOK, Roles, ItemLock
    <3>5. Known'  BY DEF TypeOK, Roles, FileLock, ItemLock, Known, Loading
    <3>. QED  BY <3>1, <3>2, <3>3, <3>4, <3>5
  <2>3. CASE t = Closer
    <3>0. Goto(t, IF Persist THEN "idle" ELSE "evict") /\ UnlockFile(t) /\ FlushPromised(t)
          BY <2>3 DEF AfterUpload
    <3>. USE <2>3, <3>0 DEF Goto, FlushPromised, UnlockFile
    <3>1. TypeOK'  BY DEF TypeOK, Roles, FileLock, Known
    <3>2. Roles'  BY DEF TypeOK, Roles
    <3>3. FileLock'  BY DEF TypeOK, Roles, FileLock, Loading
    <3>4. ItemLock'  BY DEF TypeOK, Roles, ItemLock
    <3>5. Known'  BY DEF TypeOK, Roles, FileLock, ItemLock, Known, Loading
    <3>. QED  BY <3>1, <3>2, <3>3, <3>4, <3>5
  <2>. QED  BY <2>1, <2>2, <2>3
<1>21. ASSUME NEW t \in Thread \ IO, UploadFails(t) PROVE LInv'
  <2>. USE <1>21 DEF UploadFails, FlushErrs, FlushFailed, UnlockFile, Goto
  <2>1. TypeOK'
    <3>1. t \in Thread  OBVIOUS
    <3>2. (file \in Val \cup {NoVal} /\ etag \in Val \cup {NoVal} /\ object \in Val \cup {NoVal})'
      BY <3>1 DEF TypeOK
    <3>3. (/\ opened \in BOOLEAN /\ item \in BOOLEAN /\ dirty \in BOOLEAN
         /\ closed \in BOOLEAN /\ dropped \in BOOLEAN)'
      BY DEF TypeOK
    <3>4. (claimed \in Nat)'  BY <3>1 DEF TypeOK
    <3>5. (/\ fileW \in Thread \cup {NoThread} /\ fileR \subseteq Thread
         /\ itemW \in Thread \cup {NoThread} /\ itemR \subseteq Thread)'
      BY DEF TypeOK
    <3>6. pc' \in [Thread -> {"idle", "read", "load", "item", "zeros", "create",
          "download", "access", "flush", "lockItem", "sync", "upload", "evict", "remove"}]
      BY DEF TypeOK
    <3>7. (arg \in [IO -> Val \cup {NoVal}] /\ buf \in [Thread -> Val \cup {NoVal}])'  BY DEF TypeOK
    <3>8. (truth \in Val /\ safe \subseteq Val)'  BY <3>1 DEF TypeOK
    <3>9. (since \in [Flusher \cup {Closer} -> SUBSET Val])'  BY <3>1 DEF TypeOK
    <3>. QED  BY <3>1, <3>2, <3>3, <3>4, <3>5, <3>6, <3>7, <3>8, <3>9 DEF TypeOK
  <2>2. Roles'  BY DEF TypeOK, Roles
  <2>3. FileLock'  BY DEF TypeOK, Roles, FileLock, Loading
  <2>4. ItemLock'  BY DEF TypeOK, Roles, ItemLock
  <2>5. Known'  BY DEF TypeOK, Roles, FileLock, ItemLock, Known, Loading
  <2>. QED  BY <2>1, <2>2, <2>3, <2>4, <2>5
<1>22. ASSUME NEW t \in Thread \ IO, EtagFails(t) PROVE LInv'
  <2>. USE <1>22 DEF EtagFails, FlushErrs, FlushFailed, UnlockFile, Goto
  <2>1. TypeOK'  BY DEF TypeOK, Roles, FileLock, Known
  <2>2. Roles'  BY DEF TypeOK, Roles
  <2>3. FileLock'  BY DEF TypeOK, Roles, FileLock, Loading
  <2>4. ItemLock'  BY DEF TypeOK, Roles, ItemLock
  <2>5. Known'  BY DEF TypeOK, Roles, FileLock, ItemLock, Known, Loading
  <2>. QED  BY <2>1, <2>2, <2>3, <2>4, <2>5
<1>23. ASSUME NEW t \in Thread \ IO, DeleteFile(t) PROVE LInv'
  <2>. USE <1>23 DEF DeleteFile, LockFile, DeleteFlushes, Goto
  <2>1. TypeOK'  BY DEF TypeOK, Roles, FileLock, Known
  <2>2. Roles'  BY DEF TypeOK, Roles
  <2>3. FileLock'  BY DEF TypeOK, Roles, FileLock, Loading
  <2>4. ItemLock'  BY DEF TypeOK, Roles, ItemLock
  <2>5. Known'  BY DEF TypeOK, Roles, FileLock, ItemLock, Known, Loading
  <2>. QED  BY <2>1, <2>2, <2>3, <2>4, <2>5
<1>24. ASSUME NEW t \in Thread \ IO, RemoveFile(t) PROVE LInv'
  <2>. USE <1>24 DEF RemoveFile, Released, UnlockFile, Goto
  <2>1. TypeOK'
    <3>1. claimed \in Nat /\ claimed >= 1  BY DEF TypeOK, Roles, FileLock, Known
    <3>2. (file \in Val \cup {NoVal} /\ etag \in Val \cup {NoVal} /\ object \in Val \cup {NoVal})'
      BY <3>1 DEF TypeOK
    <3>3. (/\ opened \in BOOLEAN /\ item \in BOOLEAN /\ dirty \in BOOLEAN
         /\ closed \in BOOLEAN /\ dropped \in BOOLEAN)'
      BY DEF TypeOK
    <3>4. (claimed \in Nat)'  BY <3>1 DEF TypeOK
    <3>5. (/\ fileW \in Thread \cup {NoThread} /\ fileR \subseteq Thread
         /\ itemW \in Thread \cup {NoThread} /\ itemR \subseteq Thread)'
      BY DEF TypeOK
    <3>6. pc' \in [Thread -> {"idle", "read", "load", "item", "zeros", "create",
          "download", "access", "flush", "lockItem", "sync", "upload", "evict", "remove"}]
      BY DEF TypeOK
    <3>7. (arg \in [IO -> Val \cup {NoVal}] /\ buf \in [Thread -> Val \cup {NoVal}])'  BY DEF TypeOK
    <3>8. (truth \in Val /\ safe \subseteq Val)'  BY <3>1 DEF TypeOK
    <3>9. (since \in [Flusher \cup {Closer} -> SUBSET Val])'  BY <3>1 DEF TypeOK
    <3>. QED  BY <3>1, <3>2, <3>3, <3>4, <3>5, <3>6, <3>7, <3>8, <3>9 DEF TypeOK
  <2>2. Roles'  BY DEF TypeOK, Roles
  <2>3. FileLock'  BY DEF TypeOK, Roles, FileLock, Loading
  <2>4. ItemLock'  BY DEF TypeOK, Roles, ItemLock
  <2>5. Known'  BY DEF TypeOK, Roles, FileLock, ItemLock, Known, Loading
  <2>. QED  BY <2>1, <2>2, <2>3, <2>4, <2>5
<1>25. ASSUME CloseBegins PROVE LInv'
  <2>. USE <1>25 DEF CloseBegins, Goto
  <2>1. TypeOK'  BY DEF TypeOK, Roles, FileLock, Known
  <2>2. Roles'  BY DEF TypeOK, Roles
  <2>3. FileLock'  BY DEF TypeOK, Roles, FileLock, Loading
  <2>4. ItemLock'  BY DEF TypeOK, Roles, ItemLock
  <2>5. Known'  BY DEF TypeOK, Roles, FileLock, ItemLock, Known, Loading
  <2>. QED  BY <2>1, <2>2, <2>3, <2>4, <2>5
<1>26. ASSUME DeleteNothing PROVE LInv'
  <2>. USE <1>26 DEF DeleteNothing, Goto
  <2>1. TypeOK'  BY DEF TypeOK, Roles, FileLock, Known
  <2>2. Roles'  BY DEF TypeOK, Roles
  <2>3. FileLock'  BY DEF TypeOK, Roles, FileLock, Loading
  <2>4. ItemLock'  BY DEF TypeOK, Roles, ItemLock
  <2>5. Known'  BY DEF TypeOK, Roles, FileLock, ItemLock, Known, Loading
  <2>. QED  BY <2>1, <2>2, <2>3, <2>4, <2>5
<1>27. ASSUME Restart PROVE LInv'
  <2>. USE <1>27 DEF Restart, Recovered, Reusable
  <2>1. TypeOK'  BY ZenonT(60) DEF TypeOK, Roles, FileLock, Known
  <2>2. Roles'  BY DEF TypeOK, Roles
  <2>3. FileLock'  BY DEF TypeOK, Roles, FileLock, Loading
  <2>4. ItemLock'  BY DEF TypeOK, Roles, ItemLock
  <2>5. Known'  BY DEF TypeOK, Roles, FileLock, ItemLock, Known, Loading
  <2>. QED  BY <2>1, <2>2, <2>3, <2>4, <2>5
<1>28. CASE UNCHANGED vars
  BY <1>28 DEF TypeOK, Roles, FileLock, ItemLock, Known, Loading, vars
<1>. QED
      BY Zenon, <1>1, <1>2, <1>3, <1>4, <1>5, <1>6, <1>7, <1>8, <1>9, <1>10, <1>11, <1>12,
         <1>13, <1>14, <1>15, <1>16, <1>17, <1>18, <1>19, <1>20, <1>21, <1>22, <1>23,
         <1>24, <1>25, <1>26, <1>27, <1>28 DEF Next, Begins, IOContinues, SyncContinues

\* The types and the locks hold in every configuration.
THEOREM Inductive == Spec => []LInv
<1>1. Init => LInv
  <2>. SUFFICES ASSUME Init PROVE LInv  OBVIOUS
  <2>. USE ValAssumption, ThreadAssumption, FlagAssumption DEF Init, Thread
  <2>1. TypeOK  BY DEF TypeOK
  <2>2. Roles /\ FileLock /\ ItemLock /\ Known
    BY DEF Roles, FileLock, ItemLock, Known, Loading
  <2>. QED  BY <2>1, <2>2 DEF LInv
<1>. QED  BY <1>1, LocksStep, PTL DEF Spec

\* Every variable keeps its type, in any configuration and whatever fails.
THEOREM TypeCorrect == Spec => []TypeOK
<1>1. LInv => TypeOK  BY DEF LInv
<1>. QED  BY <1>1, Inductive, PTL

-----------------------------------------------------------------------------
\* Nobody who has itemMu waits; so when nobody can go on it is free, and whoever
\* has fileMu, waiting for it, can go on; so fileMu is free too.  With any number
\* of goroutines of every kind, and whatever fails.
THEOREM SomeoneGoesOn == Spec => []NeverStuck
<1>1. LInv => NeverStuck
  <2>. SUFFICES ASSUME LInv, NEW t \in Thread, pc[t] # "idle", \A u \in Thread : ~Ready(u)
                PROVE  FALSE
    BY DEF NeverStuck
  <2>1. itemW = NoThread /\ itemR = {}
    BY DEF LInv, TypeOK, ItemLock, Ready
  <2>2. \A u \in Thread : pc[u] \in {"idle", "load", "evict", "flush"}
    BY <2>1 DEF LInv, TypeOK, Ready
  <2>3. fileW = NoThread
    <3>1. \A u \in IO : fileW # u
      BY <2>2 DEF LInv, FileLock, Loading, Thread
    <3>2. \A u \in Evictor : fileW # u
      BY <2>2 DEF LInv, FileLock, Roles, Thread
    <3>3. fileW # Closer
      BY <2>2 DEF LInv, FileLock, Roles, Thread
    <3>. QED  BY <3>1, <3>2, <3>3 DEF LInv, TypeOK, FileLock, Thread
  <2>4. fileR = {}
    <3>1. \A u \in IO : u \notin fileR
      BY <2>2 DEF LInv, FileLock, Thread
    <3>2. \A u \in Flusher \cup Evictor : u \notin fileR
      BY <2>2 DEF LInv, FileLock, Thread
    <3>3. Closer \notin fileR
      BY <2>2 DEF LInv, FileLock, Roles, Thread
    <3>. QED  BY <3>1, <3>2, <3>3 DEF LInv, TypeOK, Thread
  <2>. QED  BY <2>2, <2>3, <2>4 DEF Ready
<1>. QED  BY <1>1, Inductive, PTL

\* A read, an upload and a download have what they work on to themselves or share
\* it with others that leave it alone: only the holder of a write lock changes
\* the file or the object, and no step passes from a read lock to a write lock.
THEOREM Stable == Spec => StableUnderLock
<1>1. ASSUME LInv, [Next]_vars PROVE LeavesLocked
  <2>. USE <1>1, ThreadAssumption DEF LInv, TypeOK, Thread, diskVars, segVars, lockVars, specVars,
      LeavesLocked
  <2>1. CASE UNCHANGED <<file, opened, object, item>>
    BY <2>1
  <2>2. ASSUME NEW t \in IO, IOContinues(t) PROVE LeavesLocked
    <3>1. UNCHANGED <<object, item>>
      BY <2>2 DEF IOContinues, Load, LoadItem, ClaimRefused, CreateFile, CreateFails, DownloadFile,
                  DownloadFails, ReadDone, WriteDone
    <3>2. CASE pc[t] \in Loading
      BY <3>1, <3>2 DEF FileLock
    <3>3. CASE pc[t] \notin Loading
      BY <2>1, <2>2, <3>1, <3>3
         DEF IOContinues, Load, LoadItem, ClaimRefused, CreateFile, CreateFails, DownloadFile,
             DownloadFails, ReadDone, WriteDone, Loading
    <3>. QED  BY <3>2, <3>3
  <2>3. ASSUME NEW t \in Thread \ IO, SyncContinues(t) PROVE LeavesLocked
    <3>1. CASE RemoveFile(t)
      <4>1. fileR = {}
        BY <3>1 DEF RemoveFile, Roles, FileLock
      <4>. QED  BY <3>1, <4>1 DEF RemoveFile
    <3>2. CASE Upload(t) \/ UploadFails(t) \/ EtagFails(t)
      <4>1. itemR = {}
        BY <3>2 DEF Upload, UploadFails, EtagFails, ItemLock
      <4>2. UNCHANGED <<file, opened>>
        BY <3>2 DEF Upload, UploadFails, EtagFails, FlushErrs
      <4>. QED  BY <4>1, <4>2
    <3>3. CASE FlushLocks(t) \/ FlushMissesFile(t) \/ LockItem(t) \/ SyncFile(t) \/ DeleteFile(t)
      BY <2>1, <3>3 DEF FlushLocks, FlushMissesFile, LockItem, SyncFile, DeleteFile
    <3>. QED  BY <2>3, <3>1, <3>2, <3>3 DEF SyncContinues
  <2>4. CASE Restart
    BY <2>4 DEF Restart
  <2>5. CASE Begins \/ DeleteNothing \/ UNCHANGED vars
    BY <2>1, <2>5
       DEF Begins, ReadShared, ReadMisses, ZeroWriteSkipped, WriteBegins, FlushClean,
           FlushBegins, DeleteFile, CloseBegins, DeleteNothing, vars
  <2>. QED  BY <2>2, <2>3, <2>4, <2>5 DEF Next
<1>2. LInv /\ [Next]_vars => [LeavesLocked]_vars
  BY <1>1
<1>. QED  BY <1>2, Inductive, PTL DEF Spec, StableUnderLock

-----------------------------------------------------------------------------
\* The quota is exact as long as createFile does not fail after its claim.
LEMMA QuotaStep ==
    "create" \notin Fault /\ LInv /\ QuotaCountsCachedFile /\ [Next]_vars
        => QuotaCountsCachedFile'
<1>. SUFFICES ASSUME "create" \notin Fault, LInv, QuotaCountsCachedFile, [Next]_vars
             PROVE  QuotaCountsCachedFile'
  OBVIOUS
<1>. USE ThreadAssumption DEF LInv, TypeOK, Thread, QuotaCountsCachedFile
<1>1. ASSUME NEW t \in IO, CreateFile(t) \/ DownloadFile(t) PROVE QuotaCountsCachedFile'
  <2>1. ~opened  BY <1>1 DEF Known, Loading, CreateFile, DownloadFile
  <2>. QED  BY <1>1, <2>1 DEF CreateFile, DownloadFile, ClaimCapacity
<1>2. ASSUME NEW t \in Thread \ IO, RemoveFile(t) PROVE QuotaCountsCachedFile'
  <2>1. opened  BY <1>2 DEF Roles, FileLock, Known, RemoveFile
  <2>. QED  BY <1>2, <2>1 DEF RemoveFile, Released
<1>3. CASE UNCHANGED <<opened, claimed>>
  BY <1>3
<1>4. CASE Restart
  BY <1>4 DEF Restart
<1>5. ASSUME NEW t \in IO, IOContinues(t) PROVE QuotaCountsCachedFile'
  BY <1>1, <1>3, <1>5
     DEF IOContinues, Load, LoadItem, ClaimRefused, CreateFails, DownloadFails, ReadDone,
         WriteDone, segVars
<1>6. ASSUME NEW t \in Thread \ IO, SyncContinues(t) PROVE QuotaCountsCachedFile'
  BY <1>2, <1>3, <1>6
     DEF SyncContinues, FlushLocks, FlushMissesFile, LockItem, SyncFile, Upload, UploadFails,
         EtagFails, FlushErrs, DeleteFile, segVars
<1>7. CASE Begins \/ DeleteNothing \/ UNCHANGED vars
  BY <1>3, <1>7
     DEF Begins, ReadShared, ReadMisses, ZeroWriteSkipped, WriteBegins, FlushClean,
         FlushBegins, DeleteFile, CloseBegins, DeleteNothing, vars, segVars
<1>. QED  BY <1>4, <1>5, <1>6, <1>7 DEF Next

\* quotaSema counts exactly the cached files, whatever else fails: every load claims one
\* unit and gives it back when it fails, every removal releases one.
THEOREM QuotaCounted == "create" \notin Fault /\ Spec => []QuotaCountsCachedFile
<1>. SUFFICES ASSUME "create" \notin Fault PROVE Spec => []QuotaCountsCachedFile  OBVIOUS
<1>1. Init => QuotaCountsCachedFile  BY DEF Init, QuotaCountsCachedFile
<1>2. LInv /\ QuotaCountsCachedFile /\ [Next]_vars => QuotaCountsCachedFile'  BY QuotaStep
<1>. QED  BY <1>1, <1>2, Inductive, PTL DEF Spec

-----------------------------------------------------------------------------
(* Without persistCache, while no fsync and no upload fails *)

Dependable == ~Persist /\ {"sync", "upload"} \cap Fault = {}

\* What is not dirty is in the store, or on its way there.
Committed ==
    /\ CleanIsCommitted
    /\ \A t \in Thread : pc[t] = "upload" /\ opened /\ ~dirty => file = buf[t]
    /\ \A t \in Thread \ IO : pc[t] = "remove" => ~dirty
    /\ \A t \in Thread \ IO : fileW = t /\ pc[t] \in {"sync", "upload"} => ~dirty
    /\ item <=> object # NoVal

\* Every step keeps it, and the last write with it.
LEMMA CommittedStep ==
    Dependable /\ LInv /\ Committed /\ ReadsLastWrite /\ [Next]_vars
        => Committed' /\ ReadsLastWrite'
<1>. SUFFICES ASSUME Dependable, LInv, Committed, ReadsLastWrite, [Next]_vars
             PROVE  Committed' /\ ReadsLastWrite'
  OBVIOUS
<1>. USE ValAssumption, ThreadAssumption DEF LInv, TypeOK, Roles, FileLock, ItemLock,
         Known, Loading,
         Dependable, Committed, CleanIsCommitted, ReadsLastWrite, Visible, Recovered,
                  Reusable,
         Thread, diskVars, segVars, lockVars, specVars
<1>1. ASSUME NEW t \in IO, ReadShared(t) PROVE Committed' /\ ReadsLastWrite'
  BY <1>1 DEF ReadShared, ShareFile, Goto
<1>2. ASSUME NEW t \in IO, ReadMisses(t) PROVE Committed' /\ ReadsLastWrite'
  BY <1>2 DEF ReadMisses, Goto
<1>3. ASSUME NEW t \in IO, ZeroWriteSkipped(t) PROVE Committed' /\ ReadsLastWrite'
  BY <1>3 DEF ZeroWriteSkipped, Wrote
<1>4. ASSUME NEW t \in IO, NEW v \in WriteVal, WriteBegins(t,
         v) PROVE Committed' /\ ReadsLastWrite'
  BY <1>4 DEF WriteBegins, Goto
<1>5. ASSUME NEW t \in IO, Load(t) PROVE Committed' /\ ReadsLastWrite'
  BY <1>5 DEF Load, LockFile, Goto, AfterLock
<1>6. ASSUME NEW t \in IO, LoadItem(t) PROVE Committed' /\ ReadsLastWrite'
  BY <1>6 DEF LoadItem, Goto
<1>7. ASSUME NEW t \in IO, ClaimRefused(t) PROVE Committed' /\ ReadsLastWrite'
  BY <1>7 DEF ClaimRefused, Return, UnlockFile, Goto
<1>8. ASSUME NEW t \in IO, CreateFile(t) PROVE Committed' /\ ReadsLastWrite'
  BY <1>8 DEF CreateFile, ClaimCapacity, Goto
<1>9. ASSUME NEW t \in IO, CreateFails(t) PROVE Committed' /\ ReadsLastWrite'
  BY <1>9 DEF CreateFails, ClaimCapacity, Return, UnlockFile, Goto
<1>10. ASSUME NEW t \in IO, DownloadFile(t) PROVE Committed' /\ ReadsLastWrite'
  BY <1>10 DEF DownloadFile, ClaimCapacity, Goto
<1>11. ASSUME NEW t \in IO, DownloadFails(t) PROVE Committed' /\ ReadsLastWrite'
  BY <1>11 DEF DownloadFails, Return, UnlockFile, Goto
<1>12. ASSUME NEW t \in IO, ReadDone(t) PROVE Committed' /\ ReadsLastWrite'
  BY <1>12 DEF ReadDone, Return, UnlockFile, Goto
<1>13. ASSUME NEW t \in IO, WriteDone(t) PROVE Committed' /\ ReadsLastWrite'
  BY <1>13 DEF WriteDone, WriteMarks, Wrote, Return, UnlockFile, Goto
<1>14. ASSUME NEW t \in Flusher, FlushClean(t) PROVE Committed' /\ ReadsLastWrite'
  BY <1>14 DEF FlushClean
<1>15. ASSUME NEW t \in Flusher, FlushBegins(t) PROVE Committed' /\ ReadsLastWrite'
  BY <1>15 DEF FlushBegins, Goto
<1>16. ASSUME NEW t \in Thread \ IO, FlushLocks(t) PROVE Committed' /\ ReadsLastWrite'
  BY <1>16 DEF FlushLocks, ShareFile, Goto
<1>17. ASSUME NEW t \in Thread \ IO, FlushMissesFile(t) PROVE Committed' /\ ReadsLastWrite'
  BY <1>17 DEF FlushMissesFile, FlushFailed, Goto
<1>18. ASSUME NEW t \in Thread \ IO, LockItem(t) PROVE Committed' /\ ReadsLastWrite'
  BY <1>18 DEF LockItem, Goto
<1>19. ASSUME NEW t \in Thread \ IO, SyncFile(t) PROVE Committed' /\ ReadsLastWrite'
  BY <1>19 DEF SyncFile, UnlockFile, Goto
<1>20. ASSUME NEW t \in Thread \ IO, Upload(t) PROVE Committed' /\ ReadsLastWrite'
  <2>. USE <1>20 DEF Upload, UploadKeepsMark, Goto
  <2>1. CASE t \in Evictor
    <3>1. Goto(t, "remove") /\ UNCHANGED <<fileW, fileR, specVars>>
      BY ZenonT(60), <2>1 DEF AfterUpload
    <3>. QED  BY <2>1, <3>1
  <2>2. CASE t \in Flusher
    <3>1. Goto(t, "idle") /\ UnlockFile(t) /\ FlushPromised(t)
      BY <2>2 DEF AfterUpload
    <3>. QED  BY <2>2, <3>1 DEF FlushPromised, UnlockFile
  <2>3. CASE t = Closer
    <3>1. Goto(t, IF Persist THEN "idle" ELSE "evict") /\ UnlockFile(t) /\ FlushPromised(t)
      BY <2>3 DEF AfterUpload
    <3>. QED  BY <2>3, <3>1 DEF FlushPromised, UnlockFile
  <2>. QED  BY <2>1, <2>2, <2>3
<1>21. ASSUME NEW t \in Thread \ IO, UploadFails(t) PROVE Committed' /\ ReadsLastWrite'
  BY <1>21 DEF UploadFails, FlushErrs, FlushFailed, UnlockFile, Goto
<1>22. ASSUME NEW t \in Thread \ IO, EtagFails(t) PROVE Committed' /\ ReadsLastWrite'
  BY <1>22 DEF EtagFails, FlushErrs, FlushFailed, UnlockFile, Goto
<1>23. ASSUME NEW t \in Thread \ IO, DeleteFile(t) PROVE Committed' /\ ReadsLastWrite'
  BY <1>23 DEF DeleteFile, LockFile, DeleteFlushes, Goto
<1>24. ASSUME NEW t \in Thread \ IO, RemoveFile(t) PROVE Committed' /\ ReadsLastWrite'
  BY <1>24 DEF RemoveFile, Released, UnlockFile, Goto
<1>25. ASSUME CloseBegins PROVE Committed' /\ ReadsLastWrite'
  BY <1>25 DEF CloseBegins, Goto
<1>26. ASSUME DeleteNothing PROVE Committed' /\ ReadsLastWrite'
  BY <1>26 DEF DeleteNothing, Goto
<1>27. ASSUME Restart PROVE Committed' /\ ReadsLastWrite'
  BY <1>27 DEF Restart
<1>28. CASE UNCHANGED vars  BY <1>28 DEF vars
<1>. QED
      BY Zenon, <1>1, <1>2, <1>3, <1>4, <1>5, <1>6, <1>7, <1>8, <1>9, <1>10, <1>11, <1>12,
         <1>13, <1>14, <1>15, <1>16, <1>17, <1>18, <1>19, <1>20, <1>21, <1>22, <1>23,
         <1>24, <1>25, <1>26, <1>27, <1>28 DEF Next, Begins, IOContinues, SyncContinues

\* Both are invariants.
LEMMA CommittedHolds == Dependable /\ Spec => [](Committed /\ ReadsLastWrite)
<1>. SUFFICES ASSUME Dependable PROVE Spec => [](Committed /\ ReadsLastWrite)  OBVIOUS
<1>1. Init => Committed /\ ReadsLastWrite
  BY ThreadAssumption DEF Init, Committed, CleanIsCommitted, ReadsLastWrite, Visible, Thread
<1>2. LInv /\ Committed /\ ReadsLastWrite /\ [Next]_vars => Committed' /\ ReadsLastWrite'
  BY CommittedStep
<1>. QED  BY <1>1, <1>2, Inductive, PTL DEF Spec

\* A segment that is not dirty, and is not being uploaded, is committed.
THEOREM CleanCommitted == Dependable /\ Spec => []CleanIsCommitted
<1>1. Committed /\ ReadsLastWrite => CleanIsCommitted  BY DEF Committed
<1>. QED  BY <1>1, CommittedHolds, PTL

\* The segment reads as its last write, through loads, flushes, evictions, Close and
\* restarts, for any number of goroutines of each kind.
THEOREM LastWriteIsRead == Dependable /\ Spec => []ReadsLastWrite
<1>1. Committed /\ ReadsLastWrite => ReadsLastWrite  OBVIOUS
<1>. QED  BY <1>1, CommittedHolds, PTL

-----------------------------------------------------------------------------
(* With persistCache and nobody who evicts, whatever fails *)

Kept == Persist /\ Evictor = {}

\* Once open, the file stays open until the process ends.
NeverEvicted ==
    /\ ~opened => itemW = NoThread /\ (item <=> object # NoVal)
    /\ \A t \in Thread : pc[t] \notin {"evict", "remove"}

\* Every step keeps it, and the last write with it.
LEMMA NeverEvictedStep ==
    Kept /\ LInv /\ NeverEvicted /\ ReadsLastWrite /\ [Next]_vars
        => NeverEvicted' /\ ReadsLastWrite'
<1>. SUFFICES ASSUME Kept, LInv, NeverEvicted, ReadsLastWrite, [Next]_vars
             PROVE  NeverEvicted' /\ ReadsLastWrite'
  OBVIOUS
<1>. USE ValAssumption, ThreadAssumption DEF LInv, TypeOK, Roles, FileLock, ItemLock,
         Known, Loading,
         Kept, NeverEvicted, ReadsLastWrite, Visible, Recovered, Reusable, Thread,
         diskVars, segVars, lockVars, specVars
<1>1. ASSUME NEW t \in IO, ReadShared(t) PROVE NeverEvicted' /\ ReadsLastWrite'
  BY <1>1 DEF ReadShared, ShareFile, Goto
<1>2. ASSUME NEW t \in IO, ReadMisses(t) PROVE NeverEvicted' /\ ReadsLastWrite'
  BY <1>2 DEF ReadMisses, Goto
<1>3. ASSUME NEW t \in IO, ZeroWriteSkipped(t) PROVE NeverEvicted' /\ ReadsLastWrite'
  BY <1>3 DEF ZeroWriteSkipped, Wrote
<1>4. ASSUME NEW t \in IO, NEW v \in WriteVal, WriteBegins(t,
         v) PROVE NeverEvicted' /\ ReadsLastWrite'
  BY <1>4 DEF WriteBegins, Goto
<1>5. ASSUME NEW t \in IO, Load(t) PROVE NeverEvicted' /\ ReadsLastWrite'
  BY <1>5 DEF Load, LockFile, Goto, AfterLock
<1>6. ASSUME NEW t \in IO, LoadItem(t) PROVE NeverEvicted' /\ ReadsLastWrite'
  BY <1>6 DEF LoadItem, Goto
<1>7. ASSUME NEW t \in IO, ClaimRefused(t) PROVE NeverEvicted' /\ ReadsLastWrite'
  BY <1>7 DEF ClaimRefused, Return, UnlockFile, Goto
<1>8. ASSUME NEW t \in IO, CreateFile(t) PROVE NeverEvicted' /\ ReadsLastWrite'
  BY <1>8 DEF CreateFile, ClaimCapacity, Goto
<1>9. ASSUME NEW t \in IO, CreateFails(t) PROVE NeverEvicted' /\ ReadsLastWrite'
  BY <1>9 DEF CreateFails, ClaimCapacity, Return, UnlockFile, Goto
<1>10. ASSUME NEW t \in IO, DownloadFile(t) PROVE NeverEvicted' /\ ReadsLastWrite'
  BY <1>10 DEF DownloadFile, ClaimCapacity, Goto
<1>11. ASSUME NEW t \in IO, DownloadFails(t) PROVE NeverEvicted' /\ ReadsLastWrite'
  BY <1>11 DEF DownloadFails, Return, UnlockFile, Goto
<1>12. ASSUME NEW t \in IO, ReadDone(t) PROVE NeverEvicted' /\ ReadsLastWrite'
  BY <1>12 DEF ReadDone, Return, UnlockFile, Goto
<1>13. ASSUME NEW t \in IO, WriteDone(t) PROVE NeverEvicted' /\ ReadsLastWrite'
  BY <1>13 DEF WriteDone, WriteMarks, Wrote, Return, UnlockFile, Goto
<1>14. ASSUME NEW t \in Flusher, FlushClean(t) PROVE NeverEvicted' /\ ReadsLastWrite'
  BY <1>14 DEF FlushClean
<1>15. ASSUME NEW t \in Flusher, FlushBegins(t) PROVE NeverEvicted' /\ ReadsLastWrite'
  BY <1>15 DEF FlushBegins, Goto
<1>16. ASSUME NEW t \in Thread \ IO, FlushLocks(t) PROVE NeverEvicted' /\ ReadsLastWrite'
  BY <1>16 DEF FlushLocks, ShareFile, Goto
<1>17. ASSUME NEW t \in Thread \ IO,
         FlushMissesFile(t) PROVE NeverEvicted' /\ ReadsLastWrite'
  BY <1>17 DEF FlushMissesFile, FlushFailed, Goto
<1>18. ASSUME NEW t \in Thread \ IO, LockItem(t) PROVE NeverEvicted' /\ ReadsLastWrite'
  BY <1>18 DEF LockItem, Goto
<1>19. ASSUME NEW t \in Thread \ IO, SyncFile(t) PROVE NeverEvicted' /\ ReadsLastWrite'
  BY <1>19 DEF SyncFile, UnlockFile, Goto
<1>20. ASSUME NEW t \in Thread \ IO, Upload(t) PROVE NeverEvicted' /\ ReadsLastWrite'
  <2>. USE <1>20 DEF Upload, UploadKeepsMark, Goto
  <2>1. CASE t \in Evictor
    <3>1. Goto(t, "remove") /\ UNCHANGED <<fileW, fileR, specVars>>
      BY <2>1 DEF AfterUpload
    <3>. QED  BY <2>1, <3>1
  <2>2. CASE t \in Flusher
    <3>1. Goto(t, "idle") /\ UnlockFile(t) /\ FlushPromised(t)
      BY <2>2 DEF AfterUpload
    <3>. QED  BY <2>2, <3>1 DEF FlushPromised, UnlockFile
  <2>3. CASE t = Closer
    <3>1. Goto(t, IF Persist THEN "idle" ELSE "evict") /\ UnlockFile(t) /\ FlushPromised(t)
      BY <2>3 DEF AfterUpload
    <3>. QED  BY <2>3, <3>1 DEF FlushPromised, UnlockFile
  <2>. QED  BY <2>1, <2>2, <2>3
<1>21. ASSUME NEW t \in Thread \ IO, UploadFails(t) PROVE NeverEvicted' /\ ReadsLastWrite'
  BY <1>21 DEF UploadFails, FlushErrs, FlushFailed, UnlockFile, Goto
<1>22. ASSUME NEW t \in Thread \ IO, EtagFails(t) PROVE NeverEvicted' /\ ReadsLastWrite'
  BY <1>22 DEF EtagFails, FlushErrs, FlushFailed, UnlockFile, Goto
<1>23. ASSUME NEW t \in Thread \ IO, DeleteFile(t) PROVE NeverEvicted' /\ ReadsLastWrite'
  BY <1>23 DEF DeleteFile, LockFile, DeleteFlushes, Goto
<1>24. ASSUME NEW t \in Thread \ IO, RemoveFile(t) PROVE NeverEvicted' /\ ReadsLastWrite'
  BY <1>24 DEF RemoveFile, Released, UnlockFile, Goto
<1>25. ASSUME CloseBegins PROVE NeverEvicted' /\ ReadsLastWrite'
  BY <1>25 DEF CloseBegins, Goto
<1>26. ASSUME DeleteNothing PROVE NeverEvicted' /\ ReadsLastWrite'
  BY <1>26 DEF DeleteNothing, Goto
<1>27. ASSUME Restart PROVE NeverEvicted' /\ ReadsLastWrite'
  BY <1>27 DEF Restart
<1>28. CASE UNCHANGED vars  BY <1>28 DEF vars
<1>. QED
      BY Zenon, <1>1, <1>2, <1>3, <1>4, <1>5, <1>6, <1>7, <1>8, <1>9, <1>10, <1>11, <1>12,
         <1>13, <1>14, <1>15, <1>16, <1>17, <1>18, <1>19, <1>20, <1>21, <1>22, <1>23,
         <1>24, <1>25, <1>26, <1>27, <1>28 DEF Next, Begins, IOContinues, SyncContinues

\* The segment reads as its last write, and after a restart as what the cache and the
\* store recovered, even though flushes fail at any of their steps.
THEOREM LastWriteIsKept == Kept /\ Spec => []ReadsLastWrite
<1>. SUFFICES ASSUME Kept PROVE Spec => []ReadsLastWrite  OBVIOUS
<1>1. Init => NeverEvicted /\ ReadsLastWrite
  BY ThreadAssumption DEF Init, NeverEvicted, ReadsLastWrite, Visible, Thread
<1>2. LInv /\ NeverEvicted /\ ReadsLastWrite /\ [Next]_vars => NeverEvicted' /\ ReadsLastWrite'
  BY NeverEvictedStep
<1>. QED  BY <1>1, <1>2, Inductive, PTL DEF Spec

-----------------------------------------------------------------------------
(* What one flush at a time promises *)

SingleFlush == /\ Dependable /\ Evictor = {} /\ Zero \notin WriteVal
               /\ \A f, g \in Flusher : f = g

\* What a flush that runs will promise, and why Close leaves nothing dirty behind.
Flushes == {"flush", "lockItem", "sync", "upload"}
Promises ==
    /\ ~dropped
    /\ closed => \A t \in Thread \ {Closer} : pc[t] = "idle"
    /\ pc[Closer] # "idle" => closed
    /\ pc[Closer] \in {"sync", "upload", "evict"} => ~dirty
    /\ truth \in safe /\ Recovered \in safe
    /\ \A t \in Flusher \cup {Closer} : pc[t] \in Flushes =>
          /\ truth \in since[t] /\ since[t] \subseteq safe
          /\ pc[t] = "upload" => buf[t] \in since[t]

\* Every step keeps it.
LEMMA PromisesStep ==
    SingleFlush /\ LInv /\ Committed /\ ReadsLastWrite /\ Promises /\ [Next]_vars
        => Promises'
<1>. SUFFICES ASSUME SingleFlush, LInv, Committed, ReadsLastWrite, Promises, [Next]_vars
             PROVE  Promises'
  OBVIOUS
<1>. USE ValAssumption, ThreadAssumption DEF LInv, TypeOK, Roles, FileLock, ItemLock,
         Known, Loading,
         SingleFlush, Dependable, Committed, CleanIsCommitted, ReadsLastWrite, Visible,
         Recovered, Reusable, Promises, Flushes, Thread, diskVars, segVars, lockVars,
                  specVars
<1>1. ASSUME NEW t \in IO, ReadShared(t) PROVE Promises'
  BY <1>1 DEF ReadShared, ShareFile, Goto
<1>2. ASSUME NEW t \in IO, ReadMisses(t) PROVE Promises'
  BY <1>2 DEF ReadMisses, Goto
<1>3. ASSUME NEW t \in IO, ZeroWriteSkipped(t) PROVE Promises'
  BY <1>3 DEF ZeroWriteSkipped, Wrote
<1>4. ASSUME NEW t \in IO, NEW v \in WriteVal, WriteBegins(t, v) PROVE Promises'
  BY <1>4 DEF WriteBegins, Goto
<1>5. ASSUME NEW t \in IO, Load(t) PROVE Promises'
  BY <1>5 DEF Load, LockFile, Goto, AfterLock
<1>6. ASSUME NEW t \in IO, LoadItem(t) PROVE Promises'
  BY <1>6 DEF LoadItem, Goto
<1>7. ASSUME NEW t \in IO, ClaimRefused(t) PROVE Promises'
  BY <1>7 DEF ClaimRefused, Return, UnlockFile, Goto
<1>8. ASSUME NEW t \in IO, CreateFile(t) PROVE Promises'
  BY <1>8 DEF CreateFile, ClaimCapacity, Goto
<1>9. ASSUME NEW t \in IO, CreateFails(t) PROVE Promises'
  BY <1>9 DEF CreateFails, ClaimCapacity, Return, UnlockFile, Goto
<1>10. ASSUME NEW t \in IO, DownloadFile(t) PROVE Promises'
  BY <1>10 DEF DownloadFile, ClaimCapacity, Goto
<1>11. ASSUME NEW t \in IO, DownloadFails(t) PROVE Promises'
  BY <1>11 DEF DownloadFails, Return, UnlockFile, Goto
<1>12. ASSUME NEW t \in IO, ReadDone(t) PROVE Promises'
  BY <1>12 DEF ReadDone, Return, UnlockFile, Goto
<1>13. ASSUME NEW t \in IO, WriteDone(t) PROVE Promises'
  BY <1>13 DEF WriteDone, WriteMarks, Wrote, Return, UnlockFile, Goto
<1>14. ASSUME NEW t \in Flusher, FlushClean(t) PROVE Promises'
  BY <1>14 DEF FlushClean
<1>15. ASSUME NEW t \in Flusher, FlushBegins(t) PROVE Promises'
  BY <1>15 DEF FlushBegins, Goto
<1>16. ASSUME NEW t \in Thread \ IO, FlushLocks(t) PROVE Promises'
  BY <1>16 DEF FlushLocks, ShareFile, Goto
<1>17. ASSUME NEW t \in Thread \ IO, FlushMissesFile(t) PROVE Promises'
  BY <1>17 DEF FlushMissesFile, FlushFailed, Goto
<1>18. ASSUME NEW t \in Thread \ IO, LockItem(t) PROVE Promises'
  BY <1>18 DEF LockItem, Goto
<1>19. ASSUME NEW t \in Thread \ IO, SyncFile(t) PROVE Promises'
  BY <1>19 DEF SyncFile, UnlockFile, Goto
<1>20. ASSUME NEW t \in Thread \ IO, Upload(t) PROVE Promises'
  <2>. USE <1>20 DEF Upload, UploadKeepsMark, Goto
  <2>1. CASE t \in Evictor
    <3>1. Goto(t, "remove") /\ UNCHANGED <<fileW, fileR, specVars>>
      BY <2>1 DEF AfterUpload
    <3>. QED  BY <2>1, <3>1
  <2>2. CASE t \in Flusher
    <3>1. Goto(t, "idle") /\ UnlockFile(t) /\ FlushPromised(t)
      BY ZenonT(60), <2>2 DEF AfterUpload
    <3>. QED  BY <2>2, <3>1 DEF FlushPromised, UnlockFile
  <2>3. CASE t = Closer
    <3>1. Goto(t, IF Persist THEN "idle" ELSE "evict") /\ UnlockFile(t) /\ FlushPromised(t)
      BY <2>3 DEF AfterUpload
    <3>. QED  BY <2>3, <3>1 DEF FlushPromised, UnlockFile
  <2>. QED  BY <2>1, <2>2, <2>3
<1>21. ASSUME NEW t \in Thread \ IO, UploadFails(t) PROVE Promises'
  BY <1>21 DEF UploadFails, FlushErrs, FlushFailed, UnlockFile, Goto
<1>22. ASSUME NEW t \in Thread \ IO, EtagFails(t) PROVE Promises'
  BY <1>22 DEF EtagFails, FlushErrs, FlushFailed, UnlockFile, Goto
<1>23. ASSUME NEW t \in Thread \ IO, DeleteFile(t) PROVE Promises'
  BY <1>23 DEF DeleteFile, LockFile, DeleteFlushes, Goto
<1>24. ASSUME NEW t \in Thread \ IO, RemoveFile(t) PROVE Promises'
  BY <1>24 DEF RemoveFile, Released, UnlockFile, Goto
<1>25. ASSUME CloseBegins PROVE Promises'
  BY <1>25 DEF CloseBegins, Goto
<1>26. ASSUME DeleteNothing PROVE Promises'
  BY <1>26 DEF DeleteNothing, Goto
<1>27. ASSUME Restart PROVE Promises'
  BY <1>27 DEF Restart
<1>28. CASE UNCHANGED vars  BY <1>28 DEF vars
<1>. QED
      BY Zenon, <1>1, <1>2, <1>3, <1>4, <1>5, <1>6, <1>7, <1>8, <1>9, <1>10, <1>11, <1>12,
         <1>13, <1>14, <1>15, <1>16, <1>17, <1>18, <1>19, <1>20, <1>21, <1>22, <1>23,
         <1>24, <1>25, <1>26, <1>27, <1>28 DEF Next, Begins, IOContinues, SyncContinues

PInv == LInv /\ Committed /\ ReadsLastWrite /\ Promises

\* All of it holds of a device that flushes once at a time.
LEMMA PromisesHold == SingleFlush /\ Spec => []PInv
<1>. SUFFICES ASSUME SingleFlush PROVE Spec => []PInv  OBVIOUS
<1>1. Init => Promises
  BY ThreadAssumption DEF Init, Promises, Recovered, Flushes, Thread
<1>2. LInv /\ Committed /\ ReadsLastWrite /\ Promises /\ [Next]_vars => Promises'
  BY PromisesStep
<1>3. Dependable  BY DEF SingleFlush
<1>. QED  BY <1>1, <1>2, <1>3, Inductive, CommittedHolds, PTL DEF Spec, PInv

\* Were the process to die at any moment, the next one would find what the last Flush
\* that returned nil covered, or something written since.
THEOREM FlushesSurvive == SingleFlush /\ Spec => []FlushedSurvives
<1>1. PInv => FlushedSurvives  BY DEF PInv, Promises, FlushedSurvives
<1>. QED  BY <1>1, PromisesHold, PTL

\* What is visible is what was last written, and each step does to it, and to what may
\* come back, what DurableCell allows.
LEMMA CellStep == SingleFlush /\ PInv /\ PInv' /\ [Next]_vars => [Cell!Next]_<<Visible, safe>>
<1>. SUFFICES ASSUME SingleFlush, PInv, PInv', [Next]_vars
             PROVE  [Cell!Next]_<<Visible, safe>>
  OBVIOUS
<1>1. Visible = truth /\ Visible' = truth'
  BY DEF PInv, ReadsLastWrite, Promises
<1>2. Thread \ IO = Flusher \cup {Closer}
  BY ThreadAssumption DEF SingleFlush, Thread
<1>3. CASE UNCHANGED <<truth, safe>>
  BY <1>1, <1>3
<1>4. ASSUME NEW t \in IO, WriteDone(t) PROVE Cell!Next
  <2>1. arg[t] \in Val  BY <1>4 DEF PInv, LInv, TypeOK, WriteDone
  <2>2. Cell!Write(arg[t])  BY <1>1, <1>4 DEF WriteDone, Wrote, Cell!Write
  <2>. QED  BY <2>1, <2>2 DEF Cell!Next
<1>5. ASSUME NEW t \in Flusher \cup {Closer}, Upload(t) PROVE Cell!Next
  <2>1. safe' = since[t] /\ truth' = truth
    BY <1>5, ThreadAssumption DEF Upload, AfterUpload, FlushPromised
  <2>2. truth \in since[t] /\ since[t] \subseteq safe
    BY <1>5 DEF PInv, Promises, Flushes, Upload
  <2>3. Cell!Flush  BY <1>1, <2>1, <2>2 DEF Cell!Flush
  <2>. QED  BY <2>3 DEF Cell!Next
<1>6. ASSUME safe' = {truth}, truth' = truth PROVE Cell!Next
  <2>1. Cell!Flush  BY <1>1, <1>6 DEF PInv, Promises, Cell!Flush
  <2>. QED  BY <2>1 DEF Cell!Next
<1>7. ASSUME Restart PROVE Cell!Next
  <2>1. Cell!Crash  BY <1>1, <1>7 DEF PInv, Promises, Restart, Cell!Crash
  <2>. QED  BY <2>1 DEF Cell!Next
<1>8. CASE Begins
  BY <1>3, <1>6, <1>8
     DEF Begins, ReadShared, ReadMisses, ZeroWriteSkipped, WriteBegins, FlushClean,
         FlushBegins, DeleteFile, CloseBegins, SingleFlush, specVars
<1>9. ASSUME NEW t \in IO, IOContinues(t) PROVE [Cell!Next]_<<Visible, safe>>
  BY <1>3, <1>4, <1>9
     DEF IOContinues, Load, LoadItem, ClaimRefused, CreateFile, CreateFails, DownloadFile,
         DownloadFails, ReadDone, specVars
<1>10. ASSUME NEW t \in Thread \ IO, SyncContinues(t) PROVE [Cell!Next]_<<Visible, safe>>
  BY <1>2, <1>3, <1>5, <1>10
     DEF SyncContinues, FlushLocks, FlushMissesFile, LockItem, SyncFile, UploadFails,
         EtagFails, FlushErrs, FlushFailed, DeleteFile, RemoveFile, specVars
<1>11. CASE DeleteNothing \/ UNCHANGED vars
  BY <1>3, <1>11 DEF DeleteNothing, vars, specVars
<1>. QED  BY <1>7, <1>8, <1>9, <1>10, <1>11 DEF Next

\* The segment implements a cell of a durable device: a read returns the last write, a
\* flush promises the current contents, and a crash brings back what was promised.
THEOREM Durable == SingleFlush /\ Spec => IsDurableCell
<1>. SUFFICES ASSUME SingleFlush PROVE Spec => IsDurableCell  OBVIOUS
<1>1. Init => Cell!Init  BY DEF Init, Cell!Init, Visible
<1>2. PInv /\ PInv' /\ [Next]_vars => [Cell!Next]_<<Visible, safe>>  BY CellStep
<1>3. Spec => []PInv  BY PromisesHold
<1>. QED  BY <1>1, <1>2, <1>3, PTL DEF Spec, IsDurableCell, Cell!Spec
==============================================================================
