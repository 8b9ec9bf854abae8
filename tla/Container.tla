------------------------------ MODULE Container ------------------------------
(***************************************************************************)
(* The containers an object-store device puts its segments in              *)
(* (pkg/devices/objstore/compress and encrypt): compression over           *)
(* encryption over the store.  A Put that changes the stream starts one    *)
(* goroutine per layer, joined by pipes, and notes what it did in the      *)
(* object's metadata; an item that is opened later undoes what the         *)
(* metadata says, whatever the container's own mode is by then.            *)
(*                                                                         *)
(* One object.  Its plain contents are a value of Val that is read in      *)
(* Chunks pieces; stored data is that value with the transformations it    *)
(* has been through, so compressing and encrypting are never the identity. *)
(***************************************************************************)
EXTENDS Naturals, Sequences

CONSTANTS
    Val,
    Chunks,         \* pieces a segment is read in
    CompressName, EncryptName,  \* the mode names a device may be configured with
    StoreKind,      \* the kind of the store
    NoObject,
    Fault,          \* what may fail: "source", "store"
    MaxPuts         \* bound on the Puts of one behaviour

ASSUME ValAssumption == NoObject \notin Val
ASSUME ChunkAssumption == Chunks \in Nat \ {0} /\ MaxPuts \in Nat

\* ModeFromName and AlgoName of the two packages.  "aes-rec" is a second name for
\* the recommended mode, which is recorded under its own.
CompressFromName(name) ==
    CASE name \in {"", "identity"} -> "Identity" [] name = "s2" -> "S2"
      [] name = "gzip" -> "Gzip" [] OTHER -> "Unknown"
CompressAlgo(mode) == CASE mode = "Identity" -> "identity" [] mode = "S2" -> "s2"
                        [] mode = "Gzip" -> "gzip" [] OTHER -> "unknown"
EncryptFromName(name) ==
    CASE name \in {"", "identity"} -> "Identity" [] name \in {"aes-ctr", "aes-rec"} -> "AESCTR"
      [] name = "aes-cfb" -> "AESCFB" [] name = "aes-ofb" -> "AESOFB" [] OTHER -> "Unknown"
EncryptAlgo(mode) == CASE mode = "Identity" -> "identity" [] mode = "AESCTR" -> "aes-ctr"
                       [] mode = "AESCFB" -> "aes-cfb" [] mode = "AESOFB" -> "aes-ofb"
                       [] OTHER -> "unknown"
CompressMode == {CompressFromName(n) : n \in CompressName}
EncryptMode == {EncryptFromName(n) : n \in EncryptName}

SegBytes == "segment"       \* sizes: a segment's, a compressed segment's,
Smaller == "smaller"        \* and stow.SizeUnknown
SizeUnknown == "unknown"

VARIABLES
    cmode, emode,   \* the modes of the device's containers
    object,         \* what the store holds
    item,           \* remoteItem: "nil", "wrapped" (Items), "raw" (Put)
    \* a Put that runs
    putting,        \* the value, or NoObject
    got,            \* pieces each stage has received; the store is the last stage
    end,            \* per stage: what it has made of its output: "open", "eof", "err"
    puts,
    left            \* a goroutine of a Put that has returned is still there

vars == <<cmode, emode, object, item, putting, got, end, puts, left>>

SupportsMetaData == StoreKind \notin {"local", "sftp"}

\* ParseArgs refuses an unknown mode; applyOpts refuses any but the identity when
\* the store keeps no metadata.
Accepted(c, e) == /\ c # "Unknown" /\ e # "Unknown"
                  /\ ~SupportsMetaData => c = "Identity" /\ e = "Identity"

Init == /\ cmode \in CompressMode /\ emode \in EncryptMode /\ Accepted(cmode, emode)
        /\ object = NoObject /\ item = "nil"
        /\ putting = NoObject /\ got = <<>> /\ end = <<>> /\ puts = 0 /\ left = FALSE

-----------------------------------------------------------------------------
(* Put *)

\* The layers that change the stream, outermost first.
Active == (IF cmode = "Identity" THEN <<>> ELSE <<cmode>>)
          \o (IF emode = "Identity" THEN <<>> ELSE <<emode>>)
Last == Len(Active) + 1
Compresses(i) == i <= Len(Active) /\ Active[i] = cmode /\ cmode # "Identity"

PutBegins(v) ==
    /\ putting = NoObject /\ puts < MaxPuts
    /\ putting' = v /\ puts' = puts + 1
    /\ got' = [i \in 1 .. Last |-> 0] /\ end' = [i \in 1 .. Last |-> "open"]
    /\ UNCHANGED <<cmode, emode, object, item, left>>

\* A stage takes a piece from the one before it, having passed on its own: the
\* pipes hold nothing.
HandedOn(i) == IF i = Last THEN TRUE ELSE got[i + 1] = got[i]
Receives(i) ==
    /\ putting # NoObject /\ end[i] = "open" /\ HandedOn(i)
    /\ IF i = 1 THEN got[i] < Chunks ELSE got[i] < got[i - 1]
    /\ got' = [got EXCEPT ![i] = @ + 1]
    /\ UNCHANGED <<cmode, emode, object, item, putting, end, puts, left>>

\* io.Copy saw EOF.  wtr.Close() may still write: a compressor's last block.
SourceEnded(i) == IF i = 1 THEN got[i] >= Chunks ELSE end[i - 1] = "eof" /\ got[i] >= got[i - 1]
TailWritten(i) == got[i] > (IF i = 1 THEN Chunks ELSE got[i - 1])
WritesTail(i) ==
    /\ putting # NoObject /\ i < Last /\ end[i] = "open" /\ HandedOn(i)
    /\ SourceEnded(i) /\ Compresses(i) /\ ~TailWritten(i)
    /\ got' = [got EXCEPT ![i] = @ + 1]
    /\ UNCHANGED <<cmode, emode, object, item, putting, end, puts, left>>

\* pipeWtr.Close()
TailSkipped(i) == TRUE
TailDue(i) == Compresses(i) => TailWritten(i)
ClosesNever(i) == FALSE
Closes(i) ==
    /\ putting # NoObject /\ i < Last /\ end[i] = "open" /\ HandedOn(i)
    /\ SourceEnded(i) /\ TailDue(i)
    /\ end' = [end EXCEPT ![i] = "eof"]
    /\ UNCHANGED <<cmode, emode, object, item, putting, got, puts, left>>

\* io.Copy failed: pipeWtr.CloseWithError.
ClosedPlainly == "eof"
ClosedWithError == "err"
CopyFails(i) ==
    /\ putting # NoObject /\ i < Last /\ end[i] = "open" /\ HandedOn(i)
    /\ IF i = 1 THEN "source" \in Fault /\ got[i] <= Chunks ELSE end[i - 1] = "err"
    /\ end' = [end EXCEPT ![i] = ClosedWithError]
    /\ UNCHANGED <<cmode, emode, object, item, putting, got, puts, left>>

Returns(raw) == /\ putting' = NoObject /\ item' = raw /\ got' = <<>> /\ end' = <<>>
                /\ UNCHANGED <<cmode, emode, puts>>

\* The headers each layer adds; encryption records the size it was given.
NoHeader == ""
CompressHeader == IF cmode = "Identity" THEN NoHeader ELSE CompressAlgo(cmode)
EncryptHeader == IF emode = "Identity" THEN NoHeader ELSE EncryptAlgo(emode)
Header == [cmp |-> CompressHeader, cmpSize |-> SegBytes, enc |-> EncryptHeader,
           encSize |-> IF cmode = "Identity" THEN SegBytes ELSE SizeUnknown]

\* The store's own Put saw the end of the stream.  Its item comes back through
\* the layers as it is.
PutItem == "raw"
Stored ==
    /\ putting # NoObject /\ SourceEnded(Last)
    /\ object' = [val |-> putting, wraps |-> Active, pieces |-> got[Last], header |-> Header]
    /\ UNCHANGED left
    /\ Returns(PutItem)

\* It got the error of the layer above it.
PutFails ==
    /\ putting # NoObject
    /\ IF Last = 1 THEN FALSE ELSE end[Last - 1] = "err"
    /\ UNCHANGED <<object, left>>
    /\ Returns("nil")

\* It failed by itself, or reading the file: the goroutines that still have
\* something to write stay.
StoreFails ==
    /\ putting # NoObject
    /\ "store" \in Fault \/ ("source" \in Fault /\ Last = 1)
    /\ left' = (left \/ \E i \in 1 .. Last - 1 : end[i] = "open")
    /\ UNCHANGED object
    /\ Returns("nil")

-----------------------------------------------------------------------------
(* Items *)

\* NewDevice on the same store, with whatever modes: loadSegments lists the items
\* through the containers.
Reopen(c, e) ==
    /\ putting = NoObject /\ Accepted(c, e)
    /\ cmode' = c /\ emode' = e
    /\ item' = IF object = NoObject THEN "nil" ELSE "wrapped"
    /\ UNCHANGED <<object, putting, got, end, puts, left>>

\* encryptedItem: there only when the device encrypts.
DecryptByConfig == emode
DecryptMode == IF emode = "Identity" THEN "Identity" ELSE EncryptFromName(object.header.enc)
\* compressedItem: always there, if the store keeps metadata.
DecompressMode == IF SupportsMetaData THEN CompressFromName(object.header.cmp) ELSE "Identity"

\* mode.NewReader over data with these transformations: the last one is undone if
\* it is this mode's; a stream cipher makes something of anything, a decompressor
\* fails.
Garbage == <<"garbage">>
Decrypted(wraps, mode) ==
    IF mode = "Identity" THEN wraps
    ELSE IF wraps # <<>> /\ wraps[Len(wraps)] = mode THEN SubSeq(wraps, 1, Len(wraps) - 1)
    ELSE Garbage
Decompressed(wraps, mode) ==
    IF mode = "Identity" THEN wraps
    ELSE IF wraps = <<mode>> THEN <<>> ELSE <<"error">>

\* Open: what is left of the transformations.  The store's own item undoes none.
Opened(handle) ==
    IF handle = "raw" THEN object.wraps
    ELSE Decompressed(Decrypted(object.wraps, DecryptMode), DecompressMode)

RawSize == IF object.header.cmp = NoHeader THEN SegBytes ELSE Smaller

\* Size: the outermost layer that changed the stream answers from its header.
Size(handle) ==
    IF handle = "wrapped" /\ DecompressMode # "Identity" THEN object.header.cmpSize
    ELSE IF handle = "wrapped" /\ DecryptMode # "Identity" THEN object.header.encSize
    ELSE RawSize

-----------------------------------------------------------------------------
PutContinues ==
    \/ \E i \in DOMAIN got : Receives(i) \/ WritesTail(i) \/ Closes(i) \/ (i > 1 /\ CopyFails(i))
    \/ Stored \/ PutFails

Next == \/ \E v \in Val : PutBegins(v)
        \/ PutContinues
        \/ 1 \in DOMAIN got /\ CopyFails(1)
        \/ StoreFails
        \/ \E c \in CompressMode, e \in EncryptMode : Reopen(c, e)

Spec == Init /\ [][Next]_vars

\* The goroutines of a Put and the store run; nothing has to fail.
FairSpec == Spec /\ WF_vars(PutContinues)

-----------------------------------------------------------------------------
(* Properties *)

\* An object that was stored is whole: every piece of the segment and what the
\* compressor held back are in it.  A source that failed half-way never looks
\* like the end of the stream.
StoredIsWhole ==
    object # NoObject =>
        object.pieces = Chunks + (IF object.header.cmp = NoHeader THEN 0 ELSE 1)

\* The layers are transparent: an item listed through the containers has the
\* segment's size and contents, whatever modes it was stored with and whatever
\* the device's modes are now, as long as the device still has a key for it.
ListedReadsBack ==
    object # NoObject /\ (object.header.enc # NoHeader => emode # "Identity") =>
        Size("wrapped") = SegBytes /\ Opened("wrapped") = <<>>

\* A Put returns, with the object stored or with an error: the stages hand every
\* piece on, and each end of a stream, good or bad, reaches the store.
PutReturns == putting # NoObject ~> putting = NoObject

\* What PutReturns rests on, without time.  First, who can go on, from the guards
\* of the steps: a stage that has handed on what it has and finds a piece, the end
\* of its source or the error of the stage before it, ...
StageReady(i) ==
    /\ end[i] = "open" /\ HandedOn(i)
    /\ \/ got[i] < (IF i = 1 THEN Chunks ELSE got[i - 1])
       \/ i < Last /\ SourceEnded(i)
       \/ i < Last /\ i > 1 /\ end[i - 1] = "err"
\* ... or the store, which finds the end of the stream or an error.
StoreReady == SourceEnded(Last) \/ (Last > 1 /\ end[Last - 1] = "err")
PutReady == (\E i \in DOMAIN got : StageReady(i)) \/ StoreReady

\* The stages of a Put never all wait for one another: none of the pipes between
\* them is left open, unread or unwritten by both of its ends.
PutNeverStuck == putting # NoObject => PutReady

\* The guards say what they mean.
ReadyCanStep == putting # NoObject /\ PutReady => ENABLED PutContinues

\* Second, what is left to do: the pieces each stage may still receive, the ends
\* that are still open, and the return.
Rest(i) == IF i \in DOMAIN got
           THEN Chunks + 1 - got[i] + (IF end[i] = "open" THEN 1 ELSE 0) ELSE 0
Remaining == IF putting = NoObject THEN 0 ELSE 1 + Rest(1) + Rest(2) + Rest(3)

\* Every step of a Put, failures included, leaves less to do: no stage can go round
\* in circles or send a piece twice.
PutShrinks == [][putting # NoObject => Remaining \in Nat /\ Remaining' < Remaining]_vars

\* The same of the item the device holds, which after a flush is the one that Put
\* returned: "transparent encryption and decryption".
ItemReadsBack ==
    item # "nil" /\ (object.header.enc # NoHeader => emode # "Identity") =>
        Size(item) = SegBytes /\ Opened(item) = <<>>

\* An encrypted object is never handed out as if it were plain.
NeverCiphertext ==
    object # NoObject /\ Size("wrapped") = SegBytes => Opened("wrapped") \in {<<>>, <<"error">>}

\* A Put that has returned leaves no goroutine behind.
NothingLeft == ~left
=============================================================================
