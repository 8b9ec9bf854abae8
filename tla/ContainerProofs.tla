--------------------------- MODULE ContainerProofs ---------------------------
(***************************************************************************)
(* Proofs about Container, for any contents, any number of pieces and any  *)
(* sets of configured modes.                                               *)
(***************************************************************************)
EXTENDS Container, SequenceTheorems, TLAPS

\* The modes a device can have: ParseArgs and applyOpts refuse the others.
ModesAccepted ==
    /\ cmode \in {"Identity", "S2", "Gzip"}
    /\ emode \in {"Identity", "AESCTR", "AESCFB", "AESOFB"}
    /\ Accepted(cmode, emode)

\* The pieces a stream has when it is whole: the segment's, and the compressor's
\* last block.
Whole == Chunks + (IF cmode = "Identity" THEN 0 ELSE 1)

\* The stages of a Put that runs: none is ahead of the one before it, one that
\* ended its output with EOF has received the whole stream, and the store, which
\* has no output, has ended none.
StagesInOrder ==
    putting # NoObject =>
        /\ got \in [1 .. Last -> Nat]
        /\ end \in [1 .. Last -> {"open", "eof", "err"}]
        /\ got[1] <= Whole
        /\ \A i \in 2 .. Last : got[i] <= got[i - 1]
        /\ \A i \in 1 .. Last : end[i] = "eof" => got[i] = Whole
        /\ end[Last] = "open"

\* What is stored, and what its headers say about it.
HeaderTells ==
    object # NoObject =>
        \E c \in {"Identity", "S2", "Gzip"}, e \in {"Identity", "AESCTR", "AESCFB", "AESOFB"} :
            /\ Accepted(c, e)
            /\ object.wraps = (IF c = "Identity" THEN <<>> ELSE <<c>>)
                              \o (IF e = "Identity" THEN <<>> ELSE <<e>>)
            /\ object.header =
                 [cmp |-> IF c = "Identity" THEN NoHeader ELSE CompressAlgo(c),
                  cmpSize |-> SegBytes,
                  enc |-> IF e = "Identity" THEN NoHeader ELSE EncryptAlgo(e),
                  encSize |-> IF c = "Identity" THEN SegBytes ELSE SizeUnknown]

IInv == ModesAccepted /\ StagesInOrder /\ HeaderTells /\ StoredIsWhole

-----------------------------------------------------------------------------
\* The layers that change the stream: compression comes first, if there is any.
LEMMA ActiveLayers ==
    ASSUME ModesAccepted
    PROVE  /\ Last \in 1 .. 3
           /\ \A i \in 1 .. Last : Compresses(i) <=> i = 1 /\ cmode # "Identity"
           /\ cmode # "Identity" => Last > 1
<1> USE DEF ModesAccepted, Active, Last, Compresses
<1>1. CASE cmode = "Identity" /\ emode = "Identity"
  BY <1>1
<1>2. CASE cmode = "Identity" /\ emode # "Identity"
  BY <1>2
<1>3. CASE cmode # "Identity" /\ emode = "Identity"
  BY <1>3
<1>4. CASE cmode # "Identity" /\ emode # "Identity"
  BY <1>4
<1> QED BY <1>1, <1>2, <1>3, <1>4

\* A device starts with nothing stored and accepted modes.
LEMMA InitInv == Init => IInv
<1> SUFFICES ASSUME Init PROVE IInv
    OBVIOUS
<1>1. ModesAccepted
  BY DEF Init, ModesAccepted, Accepted, CompressMode, EncryptMode, CompressFromName,
         EncryptFromName
<1> QED BY <1>1 DEF Init, IInv, StagesInOrder, HeaderTells, StoredIsWhole

\* Only Reopen changes the modes, and it accepts no others.
LEMMA ModesStep ==
    ASSUME ModesAccepted, [Next]_vars
    PROVE  /\ ModesAccepted'
           /\ \/ UNCHANGED <<cmode, emode>>
              \/ \E c \in CompressMode, e \in EncryptMode : Reopen(c, e)
<1>1. ASSUME NEW c \in CompressMode, NEW e \in EncryptMode, Reopen(c, e)
      PROVE  ModesAccepted'
  BY <1>1 DEF Reopen, ModesAccepted, Accepted, CompressMode, EncryptMode,
              CompressFromName, EncryptFromName, SupportsMetaData
<1>2. CASE UNCHANGED <<cmode, emode>>
  BY <1>2 DEF ModesAccepted, Accepted, SupportsMetaData
<1>3. ASSUME ~ \E c \in CompressMode, e \in EncryptMode : Reopen(c, e)
      PROVE  UNCHANGED <<cmode, emode>>
  BY <1>3 DEF Next, PutContinues, PutBegins, Receives, WritesTail, Closes, CopyFails,
              Stored, PutFails, StoreFails, Returns, vars
<1> QED BY <1>1, <1>2, <1>3

\* The pieces pass from stage to stage in order: a stage that ends well has had
\* the end of a stage that ended well.
LEMMA StagesStep ==
    ASSUME IInv, [Next]_vars
    PROVE  StagesInOrder'
<1> USE ChunkAssumption
<1>0a. ModesAccepted
  BY DEF IInv
<1>0. /\ Last \in 1 .. 3 /\ Whole \in Nat
      /\ \A i \in 1 .. Last : Compresses(i) <=> i = 1 /\ cmode # "Identity"
      /\ cmode # "Identity" => Last > 1
  BY <1>0a, ActiveLayers DEF Whole
<1>1. ASSUME putting' = NoObject PROVE StagesInOrder'
  BY <1>1 DEF StagesInOrder
<1>2. UNCHANGED <<cmode, emode>> => Last' = Last /\ Whole' = Whole
  BY DEF Last, Active, Whole
<1>3. ASSUME NEW v \in Val, PutBegins(v) PROVE StagesInOrder'
  BY <1>0, <1>2, <1>3 DEF PutBegins, StagesInOrder
<1> DEFINE Runs == /\ putting # NoObject /\ putting' = putting
                   /\ UNCHANGED <<cmode, emode>>
<1>4. ASSUME NEW i \in DOMAIN got, Receives(i) \/ WritesTail(i) PROVE StagesInOrder'
  <2>1. Runs /\ end' = end /\ end[i] = "open" /\ got' = [got EXCEPT ![i] = @ + 1]
        /\ HandedOn(i)
    BY <1>4 DEF Receives, WritesTail
  <2>2. /\ got \in [1 .. Last -> Nat] /\ end \in [1 .. Last -> {"open", "eof", "err"}]
        /\ got[1] <= Whole /\ i \in 1 .. Last
        /\ \A j \in 2 .. Last : got[j] <= got[j - 1]
        /\ \A j \in 1 .. Last : end[j] = "eof" => got[j] = Whole
        /\ end[Last] = "open"
    BY <2>1 DEF IInv, StagesInOrder
  <2>3. i = 1 => got[1] < Whole
    BY <1>0, <1>4, <2>1, <2>2 DEF Receives, WritesTail, Whole, TailWritten
  <2>4. i # 1 => got[i] < got[i - 1]
    BY <1>0, <1>4, <2>1, <2>2 DEF Receives, WritesTail
  <2>5. got' \in [1 .. Last -> Nat] /\ got'[1] <= Whole
    BY <1>0, <2>1, <2>2, <2>3
  <2>6. \A j \in 2 .. Last : got'[j] <= got'[j - 1]
    BY SMTT(30), <1>0, <2>1, <2>2, <2>4 DEF HandedOn
  <2> QED BY <1>2, <2>1, <2>2, <2>5, <2>6 DEF StagesInOrder
<1>5. ASSUME NEW i \in DOMAIN got, Closes(i) \/ CopyFails(i) PROVE StagesInOrder'
  <2>1. Runs /\ got' = got /\ i < Last
    BY <1>5 DEF Closes, CopyFails
  <2>2. /\ got \in [1 .. Last -> Nat] /\ end \in [1 .. Last -> {"open", "eof", "err"}]
        /\ got[1] <= Whole /\ i \in 1 .. Last
        /\ \A j \in 2 .. Last : got[j] <= got[j - 1]
        /\ \A j \in 1 .. Last : end[j] = "eof" => got[j] = Whole
        /\ end[Last] = "open"
    BY <2>1 DEF IInv, StagesInOrder
  <2>3. CASE Closes(i)
    <3>1. got[i] = Whole
      <4>1. CASE i = 1
        BY <1>0, <2>2, <2>3, <4>1 DEF Closes, SourceEnded, TailDue, TailWritten, Whole
      <4>2. CASE i # 1
        <5>1. i - 1 \in 1 .. Last /\ end[i - 1] = "eof" /\ got[i] >= got[i - 1]
          BY <1>0, <2>2, <2>3, <4>2 DEF Closes, SourceEnded
        <5>2. got[i] <= got[i - 1] /\ got[i - 1] = Whole
          BY <1>0, <2>2, <4>2, <5>1
        <5> QED BY <1>0, <2>2, <5>1, <5>2
      <4> QED BY <4>1, <4>2
    <3>2. end' = [end EXCEPT ![i] = "eof"]
      BY <2>3 DEF Closes
    <3> QED BY <1>2, <2>1, <2>2, <3>1, <3>2 DEF StagesInOrder
  <2>4. CASE CopyFails(i)
    <3>1. end' = [end EXCEPT ![i] = "err"]
      BY <2>4 DEF CopyFails, ClosedWithError
    <3> QED BY <1>2, <2>1, <2>2, <3>1 DEF StagesInOrder
  <2> QED BY <1>5, <2>3, <2>4
<1>6. CASE Stored \/ PutFails \/ StoreFails
  BY <1>1, <1>6 DEF Stored, PutFails, StoreFails, Returns
<1>7. ASSUME NEW c \in CompressMode, NEW e \in EncryptMode, Reopen(c, e)
      PROVE  StagesInOrder'
  BY <1>1, <1>7 DEF Reopen
<1>8. CASE UNCHANGED vars
  BY <1>2, <1>8 DEF vars, IInv, StagesInOrder
<1> QED BY <1>3, <1>4, <1>5, <1>6, <1>7, <1>8 DEF Next, PutContinues

\* Only the end of a good Put changes the object.
LEMMA OnlyStored ==
    ASSUME [Next]_vars
    PROVE  Stored \/ object' = object
BY DEF Next, PutContinues, PutBegins, Receives, WritesTail, Closes, CopyFails, PutFails,
       StoreFails, Reopen, vars

\* The store saw the end of a stream that was whole.
LEMMA WholeStep ==
    ASSUME IInv, [Next]_vars
    PROVE  StoredIsWhole'
<1>1. CASE Stored
  <2>1. /\ object'.pieces = got[Last] /\ object'.header = Header
        /\ putting # NoObject /\ SourceEnded(Last)
    BY <1>1 DEF Stored
  <2>0. ModesAccepted
    BY DEF IInv
  <2>2. /\ Last \in 1 .. 3 /\ Whole \in Nat
        /\ cmode # "Identity" => Last > 1
    BY <2>0, ActiveLayers, ChunkAssumption DEF Whole
  <2>3. got[Last] = Whole
    <3>1. /\ got \in [1 .. Last -> Nat] /\ got[1] <= Whole
          /\ \A j \in 2 .. Last : got[j] <= got[j - 1]
          /\ \A j \in 1 .. Last : end[j] = "eof" => got[j] = Whole
      BY <2>1 DEF IInv, StagesInOrder
    <3>2. CASE Last = 1
      BY <2>1, <2>2, <3>1, <3>2, ChunkAssumption DEF SourceEnded, Whole
    <3>3. CASE Last # 1
      <4>1. Last - 1 \in 1 .. Last /\ end[Last - 1] = "eof" /\ got[Last] >= got[Last - 1]
        BY <2>1, <2>2, <3>3 DEF SourceEnded
      <4>2. got[Last] <= got[Last - 1] /\ got[Last - 1] = Whole
        BY <2>2, <3>1, <3>3, <4>1
      <4> QED BY <2>2, <3>1, <4>1, <4>2
    <3> QED BY <3>2, <3>3
  <2>4. Header.cmp = NoHeader <=> cmode = "Identity"
    BY <2>0 DEF Header, CompressHeader, NoHeader, CompressAlgo, ModesAccepted
  <2> QED BY <2>1, <2>3, <2>4 DEF StoredIsWhole, Whole, NoHeader
<1>2. CASE object' = object
  BY <1>2 DEF IInv, StoredIsWhole, NoHeader
<1> QED BY <1>1, <1>2, OnlyStored

\* The headers name the layers that changed the stream.
LEMMA HeaderStep ==
    ASSUME IInv, [Next]_vars
    PROVE  HeaderTells'
<1> USE DEF HeaderTells, Accepted, SupportsMetaData, NoHeader, SegBytes, SizeUnknown
<1>1. CASE Stored
  BY <1>1 DEF Stored, Header, CompressHeader, EncryptHeader, Active, IInv, ModesAccepted
<1>2. CASE object' = object
  BY ZenonT(60), <1>2 DEF IInv
<1> QED BY <1>1, <1>2, OnlyStored

\* What holds in every state, and is kept by every step.
THEOREM Inductive == Spec => []IInv
<1>1. IInv /\ [Next]_vars => IInv'
  BY ModesStep, StagesStep, WholeStep, HeaderStep DEF IInv
<1> QED BY <1>1, InitInv, PTL DEF Spec

\* A source that fails half-way is never stored as if it had ended: whatever the
\* modes and the number of pieces, an object that was stored is whole.
THEOREM Wholeness == Spec => []StoredIsWhole
<1>1. IInv => StoredIsWhole
  BY DEF IInv
<1> QED BY <1>1, Inductive, PTL

\* The layers are transparent to a device that lists its items, in whatever modes
\* they were stored and it was opened.
THEOREM Transparent == Spec => []ListedReadsBack
<1>1. IInv => ListedReadsBack
  <2> SUFFICES ASSUME IInv, object # NoObject, object.header.enc # NoHeader => emode # "Identity"
               PROVE  Size("wrapped") = SegBytes /\ Opened("wrapped") = <<>>
      BY DEF ListedReadsBack
  <2>1. PICK c \in {"Identity", "S2", "Gzip"}, e \in {"Identity", "AESCTR", "AESCFB", "AESOFB"} :
            /\ Accepted(c, e)
            /\ object.wraps = (IF c = "Identity" THEN <<>> ELSE <<c>>)
                              \o (IF e = "Identity" THEN <<>> ELSE <<e>>)
            /\ object.header =
                 [cmp |-> IF c = "Identity" THEN NoHeader ELSE CompressAlgo(c),
                  cmpSize |-> SegBytes,
                  enc |-> IF e = "Identity" THEN NoHeader ELSE EncryptAlgo(e),
                  encSize |-> IF c = "Identity" THEN SegBytes ELSE SizeUnknown]
    BY DEF IInv, HeaderTells
  <2>1a. /\ object.header.cmp = IF c = "Identity" THEN NoHeader ELSE CompressAlgo(c)
         /\ object.header.enc = IF e = "Identity" THEN NoHeader ELSE EncryptAlgo(e)
         /\ object.header.cmpSize = SegBytes
         /\ object.header.encSize = IF c = "Identity" THEN SegBytes ELSE SizeUnknown
    BY <2>1
  <2>2. DecryptMode = e
    BY <2>1a DEF DecryptMode, EncryptAlgo, EncryptFromName, NoHeader
  <2>3. DecompressMode = c
    BY <2>1, <2>1a DEF DecompressMode, CompressAlgo, CompressFromName, NoHeader, Accepted
  <2>4. Size("wrapped") = SegBytes
    BY <2>1a, <2>2, <2>3 DEF Size, RawSize, NoHeader
  <2>5. Decrypted(object.wraps, e) = IF c = "Identity" THEN <<>> ELSE <<c>>
    <3>1. CASE c = "Identity" /\ e = "Identity"
      BY <2>1, <3>1 DEF Decrypted
    <3>2. CASE c = "Identity" /\ e # "Identity"
      BY <2>1, <3>2 DEF Decrypted
    <3>3. CASE c # "Identity" /\ e = "Identity"
      BY <2>1, <3>3 DEF Decrypted
    <3>4. CASE c # "Identity" /\ e # "Identity"
      <4> DEFINE s == <<c>>
                 t == <<e>>
      <4>1. object.wraps = s \o t /\ s \in Seq({c, e}) /\ t \in Seq({c, e})
        <5>1. object.wraps = <<c>> \o <<e>>
          BY <2>1, <3>4, Zenon
        <5> QED BY <5>1
      <4>2. Len(s) = 1 /\ Len(t) = 1 /\ t[1] = e
        OBVIOUS
      <4> HIDE DEF s, t
      <4>3. Len(s \o t) = 2 /\ (s \o t)[2] = e
        BY <4>1, <4>2, ConcatProperties
      <4>4. SubSeq(s \o t, 1, 1) = s
        <5>1. SubSeq(s \o t, 1, 1) = SubSeq(s, 1, 1)
          BY <4>1, <4>2, SubSeqOfConcat1
        <5> QED BY <4>1, <4>2, <5>1, SubSeqFull
      <4>5. s \o t # <<>>
        BY <4>3
      <4> QED BY <3>4, <4>1, <4>3, <4>4, <4>5 DEF Decrypted, s
    <3> QED BY <3>1, <3>2, <3>3, <3>4
  <2>6. Opened("wrapped") = <<>>
    BY <2>2, <2>3, <2>5 DEF Opened, Decompressed
  <2> QED BY <2>4, <2>6
<1> QED BY <1>1, Inductive, PTL

-----------------------------------------------------------------------------
\* What is known of the stages while a Put runs.
LEMMA Stages ==
    ASSUME IInv, putting # NoObject
    PROVE  /\ Last \in 1 .. 3 /\ Whole \in Nat /\ Whole <= Chunks + 1
           /\ got \in [1 .. Last -> Nat] /\ end \in [1 .. Last -> {"open", "eof", "err"}]
           /\ \A i \in 2 .. Last : got[i] <= got[i - 1]
           /\ \A i \in 1 .. Last : got[i] <= Whole
           /\ end[Last] = "open"
<1>1. Last \in 1 .. 3 /\ Whole \in Nat /\ Whole <= Chunks + 1
  BY ActiveLayers, ChunkAssumption DEF IInv, Whole
<1>2. /\ got \in [1 .. Last -> Nat] /\ end \in [1 .. Last -> {"open", "eof", "err"}]
      /\ got[1] <= Whole
      /\ \A i \in 2 .. Last : got[i] <= got[i - 1]
      /\ end[Last] = "open"
  BY DEF IInv, StagesInOrder
<1>3. ASSUME NEW i \in 1 .. Last PROVE got[i] <= Whole
  <2>1. CASE i = 1
    BY <1>2, <2>1
  <2>2. CASE i = 2
    BY <1>1, <1>2, <2>2
  <2>3. CASE i = 3
    <3>1. got[3] <= got[2] /\ got[2] <= got[1]
      BY <1>1, <1>2, <2>3
    <3> QED BY <1>1, <1>2, <2>3, <3>1
  <2> QED BY <1>1, <2>1, <2>2, <2>3
<1> QED BY <1>1, <1>2, <1>3

\* From the store back to the file: the last stage that is not waiting for the one
\* before it can go on, and the first one waits for nobody.
THEOREM PutGoesOn == Spec => []PutNeverStuck
<1>1. IInv => PutNeverStuck
  <2> SUFFICES ASSUME IInv, putting # NoObject, ~ StoreReady
               PROVE  \E i \in DOMAIN got : StageReady(i)
      BY DEF PutNeverStuck, PutReady
  <2>1. /\ Last \in 1 .. 3 /\ DOMAIN got = 1 .. Last
        /\ got \in [1 .. Last -> Nat] /\ end \in [1 .. Last -> {"open", "eof", "err"}]
        /\ \A i \in 2 .. Last : got[i] <= got[i - 1]
        /\ end[Last] = "open"
    BY Stages
  <2>2. Chunks \in Nat
    BY ChunkAssumption
  \* A stage whose output is open and taken, and that has the one before it open.
  <2>3. ASSUME NEW i \in 1 .. Last, end[i] = "open", HandedOn(i), ~ StageReady(i)
        PROVE  i = Last \/ (i > 1 /\ end[i - 1] = "open")
    BY <2>1, <2>2, <2>3 DEF StageReady, SourceEnded
  <2>4. ASSUME NEW i \in 2 .. Last, end[i] = "open", HandedOn(i), ~ StageReady(i)
        PROVE  HandedOn(i - 1)
    BY <2>1, <2>4 DEF StageReady, HandedOn
  <2>5. HandedOn(Last) /\ end[Last] = "open"
    BY <2>1 DEF HandedOn
  <2>6. CASE Last = 1
    BY <2>1, <2>2, <2>5, <2>6 DEF StoreReady, SourceEnded, StageReady
  <2>7. CASE Last # 1 /\ \A i \in 1 .. Last : ~ StageReady(i)
    <3>1. HandedOn(Last - 1) /\ got[Last] = got[Last - 1]
      BY <2>1, <2>4, <2>5, <2>7 DEF HandedOn
    <3>2. end[Last - 1] = "open"
      BY <2>1, <2>7, <3>1 DEF StoreReady, SourceEnded
    <3>3. Last - 1 > 1 /\ end[Last - 2] = "open"
      BY <2>1, <2>3, <2>7, <3>1, <3>2
    <3>4. Last = 3 /\ end[2] = "open" /\ end[1] = "open" /\ HandedOn(2)
      BY <2>1, <3>1, <3>2, <3>3
    <3>5. HandedOn(1)
      BY <2>4, <2>7, <3>4
    <3> QED BY <2>1, <2>3, <2>7, <3>4, <3>5
  <2> QED BY <2>1, <2>6, <2>7
<1> QED BY <1>1, Inductive, PTL

\* What a stage has left is a number, and it has nothing left where there is none.
LEMMA RestNat ==
    ASSUME IInv, putting # NoObject
    PROVE  \A i \in 1 .. 3 :
               /\ Rest(i) \in Nat
               /\ Rest(i) = IF i <= Last
                            THEN Chunks + 1 - got[i] + (IF end[i] = "open" THEN 1 ELSE 0)
                            ELSE 0
<1> SUFFICES ASSUME NEW i \in 1 .. 3
             PROVE  /\ Rest(i) \in Nat
                    /\ Rest(i) = IF i <= Last
                                 THEN Chunks + 1 - got[i] + (IF end[i] = "open" THEN 1 ELSE 0)
                                 ELSE 0
    OBVIOUS
<1>1. /\ Last \in 1 .. 3 /\ Whole \in Nat /\ Whole <= Chunks + 1
      /\ got \in [1 .. Last -> Nat] /\ \A j \in 1 .. Last : got[j] <= Whole
  BY Stages
<1>2. Chunks \in Nat
  BY ChunkAssumption
<1> QED BY <1>1, <1>2 DEF Rest

\* A stage that received a piece, or ended its output, has less left, and the
\* others have what they had.
LEMMA StageShrinks ==
    ASSUME IInv, putting # NoObject, putting' = putting, NEW i \in 1 .. Last,
           \/ got' = [got EXCEPT ![i] = @ + 1] /\ end' = end
           \/ /\ got' = got /\ end[i] = "open"
              /\ end' = [end EXCEPT ![i] = "eof"] \/ end' = [end EXCEPT ![i] = "err"]
    PROVE  Remaining' < Remaining
<1>1. /\ Last \in 1 .. 3 /\ got \in [1 .. Last -> Nat]
      /\ end \in [1 .. Last -> {"open", "eof", "err"}]
  BY Stages
<1>2. Chunks \in Nat
  BY ChunkAssumption
<1>3. \A j \in 1 .. 3 :
          /\ Rest(j) \in Nat
          /\ Rest(j) = IF j <= Last
                       THEN Chunks + 1 - got[j] + (IF end[j] = "open" THEN 1 ELSE 0)
                       ELSE 0
  BY RestNat
<1> DEFINE left1(j) == Rest(j)'
<1>4. ASSUME NEW j \in 1 .. 3
      PROVE  left1(j) = IF j <= Last
                        THEN Chunks + 1 - got'[j] + (IF end'[j] = "open" THEN 1 ELSE 0)
                        ELSE 0
  <2>1. DOMAIN got' = 1 .. Last
    BY <1>1
  <2> QED BY <1>1, <2>1 DEF Rest
<1>5. ASSUME NEW j \in 1 .. 3
      PROVE  left1(j) = IF j = i THEN Rest(j) - 1 ELSE Rest(j)
  <2> HIDE DEF left1
  <2>1. CASE j > Last
    BY <1>1, <1>3, <1>4, <2>1
  <2>2. CASE j <= Last /\ j # i
    <3>1. got'[j] = got[j] /\ end'[j] = end[j]
      BY <1>1, <2>2
    <3> QED BY <1>1, <1>3, <1>4, <2>2, <3>1
  <2>3. CASE j = i
    <3>1. \/ got'[j] = got[j] + 1 /\ end'[j] = end[j]
          \/ got'[j] = got[j] /\ end[j] = "open" /\ end'[j] # "open"
      BY <1>1, <2>3
    <3>2. got[j] \in Nat /\ j <= Last
      BY <1>1, <2>3
    <3>3. /\ Rest(j) = Chunks + 1 - got[j] + (IF end[j] = "open" THEN 1 ELSE 0)
          /\ left1(j) = Chunks + 1 - got'[j] + (IF end'[j] = "open" THEN 1 ELSE 0)
      BY <1>3, <1>4, <3>2
    <3> QED BY <1>2, <2>3, <3>1, <3>2, <3>3
  <2> QED BY <1>1, <2>1, <2>2, <2>3
<1>6. /\ Remaining = 1 + Rest(1) + Rest(2) + Rest(3)
      /\ Remaining' = 1 + left1(1) + left1(2) + left1(3)
  BY DEF Remaining
<1>7. /\ Rest(1) \in Nat /\ Rest(2) \in Nat /\ Rest(3) \in Nat
      /\ i \in {1, 2, 3}
  BY <1>1, <1>3
<1>8. /\ left1(1) = IF 1 = i THEN Rest(1) - 1 ELSE Rest(1)
      /\ left1(2) = IF 2 = i THEN Rest(2) - 1 ELSE Rest(2)
      /\ left1(3) = IF 3 = i THEN Rest(3) - 1 ELSE Rest(3)
  BY <1>5
<1> HIDE DEF left1
<1> QED BY <1>6, <1>7, <1>8

\* A Put takes a bounded number of steps: each of them, and each failure, leaves
\* less to do, whatever the number of pieces and whichever layers are there.
THEOREM PutIsBounded == Spec => PutShrinks
<1>1. ASSUME IInv, [Next]_vars, putting # NoObject
      PROVE  UNCHANGED vars \/ (Remaining \in Nat /\ Remaining' < Remaining)
  <2>1. Remaining = 1 + Rest(1) + Rest(2) + Rest(3) /\ Remaining \in Nat /\ 0 < Remaining
    <3>1. Rest(1) \in Nat /\ Rest(2) \in Nat /\ Rest(3) \in Nat
      BY <1>1, RestNat
    <3> QED BY <1>1, <3>1 DEF Remaining
  <2>2. DOMAIN got = 1 .. Last
    BY <1>1, Stages
  <2>3. ASSUME NEW i \in DOMAIN got, Receives(i) \/ WritesTail(i)
        PROVE  Remaining' < Remaining
    <3>1. got' = [got EXCEPT ![i] = @ + 1] /\ end' = end /\ putting' = putting
      BY <2>3 DEF Receives, WritesTail
    <3> QED BY <1>1, <2>2, <3>1, StageShrinks
  <2>4. ASSUME NEW i \in DOMAIN got, Closes(i) \/ CopyFails(i)
        PROVE  Remaining' < Remaining
    <3>1. /\ got' = got /\ putting' = putting /\ end[i] = "open"
          /\ end' = [end EXCEPT ![i] = "eof"] \/ end' = [end EXCEPT ![i] = "err"]
      BY <2>4 DEF Closes, CopyFails, ClosedWithError
    <3> QED BY <1>1, <2>2, <3>1, StageShrinks
  <2>5. CASE Stored \/ PutFails \/ StoreFails
    <3>1. putting' = NoObject
      BY <2>5 DEF Stored, PutFails, StoreFails, Returns
    <3> QED BY <2>1, <3>1 DEF Remaining
  <2>6. ~ \E v \in Val : PutBegins(v)
    BY <1>1 DEF PutBegins
  <2>7. ~ \E c \in CompressMode, e \in EncryptMode : Reopen(c, e)
    BY <1>1 DEF Reopen
  <2> QED BY <1>1, <2>1, <2>3, <2>4, <2>5, <2>6, <2>7 DEF Next, PutContinues
<1>2. IInv /\ [Next]_vars => [putting # NoObject => Remaining \in Nat /\ Remaining' < Remaining]_vars
  BY <1>1
<1> QED BY <1>2, Inductive, PTL DEF Spec, PutShrinks
=============================================================================
