----------------------------- MODULE SparseCopy -----------------------------
(***************************************************************************)
(* sparseCopy of pkg/devices/objstore/storeparams.go: downloads an object  *)
(* into a cache file byte by byte, seeking over long runs of zeros so that *)
(* the file system leaves holes.  Bytes are 0 and 1: the code tells only   *)
(* zero from non-zero.  The writes go through a bufio.Writer (out), the    *)
(* seeks go to the file directly.                                          *)
(***************************************************************************)
EXTENDS Naturals, Sequences

CONSTANTS
    MinSeqSparseZeros,  \* the shortest run that is seeked over (4096 in the code)
    OutSize,            \* the bufio.Writer's buffer (4096 in the code)
    MaxLen              \* bound: length of the source

ASSUME SizeAssumption == /\ MinSeqSparseZeros \in Nat \ {0} /\ OutSize \in Nat \ {0}
                         /\ MaxLen \in Nat

VARIABLES
    src,        \* the object's bytes
    i,          \* how many of them have been read
    pendZeros,  \* zeros read and not yet written
    out,        \* the bufio.Writer's buffer
    file, pos,  \* the file and its offset
    n,          \* the count returned
    pc          \* "copy", "done"

vars == <<src, i, pendZeros, out, file, pos, n, pc>>

Source == UNION {[1..k -> {0, 1}] : k \in 0..MaxLen}

Init == /\ src \in Source
        /\ i = 0 /\ pendZeros = 0 /\ out = <<>> /\ file = <<>> /\ pos = 0 /\ n = 0
        /\ pc = "copy"

Zeros(k) == [j \in 1..k |-> 0]

\* write(2) at offset p: what lies between the end of the file and p reads as
\* zeros.
WrittenAt(f, p, s) ==
    LET end == IF p + Len(s) > Len(f) THEN p + Len(s) ELSE Len(f) IN
    IF s = <<>> THEN f
    ELSE [k \in 1..end |-> IF k \in (p + 1)..(p + Len(s)) THEN s[k - p]
                           ELSE IF k <= Len(f) THEN f[k] ELSE 0]

\* bufio.Writer: bytes s are appended one by one, and the buffer goes to the
\* file whenever it is full.  st is [file, pos, out].
Buffered(st, s) ==
    LET all  == st.out \o s
        kept == IF Len(all) = 0 THEN 0 ELSE ((Len(all) - 1) % OutSize) + 1
        gone == SubSeq(all, 1, Len(all) - kept)
    IN  [file |-> WrittenAt(st.file, st.pos, gone), pos |-> st.pos + Len(gone),
         out |-> SubSeq(all, Len(all) - kept + 1, Len(all))]

Flushed(st) == [file |-> WrittenAt(st.file, st.pos, st.out),
                pos |-> st.pos + Len(st.out), out |-> <<>>]

\* out.Flush(), then file.Seek(k, SEEK_CUR).
Seeked(st, k) == [Flushed(st) EXCEPT !.pos = @ + k]

Now == [file |-> file, pos |-> pos, out |-> out]
Become(st) == file' = st.file /\ pos' = st.pos /\ out' = st.out

ReadZero ==
    /\ pc = "copy" /\ i < Len(src) /\ src[i + 1] = 0
    /\ pendZeros' = pendZeros + 1 /\ i' = i + 1
    /\ UNCHANGED <<src, out, file, pos, n, pc>>

\* A non-zero byte: the pending zeros first, as a hole or byte by byte.
ReadByte ==
    /\ pc = "copy" /\ i < Len(src) /\ src[i + 1] # 0
    /\ LET st == IF pendZeros >= MinSeqSparseZeros THEN Seeked(Now, pendZeros)
                 ELSE Buffered(Now, Zeros(pendZeros))
       IN  Become(Buffered(st, <<src[i + 1]>>))
    /\ n' = n + pendZeros + 1
    /\ pendZeros' = 0 /\ i' = i + 1
    /\ UNCHANGED <<src, pc>>

\* The bytes sought over before the last zero is written.
TailHoleWhole == pendZeros
TailHole == IF pendZeros - 1 > 0 THEN pendZeros - 1 ELSE 0

\* io.EOF: a zero is written after the pending ones but one.  The test
\* "pendZeros >= 0" always holds, so this happens with no zero pending too.
EndOfSource ==
    /\ pc = "copy" /\ i = Len(src)
    /\ LET st == Seeked(Now, TailHole)
       IN  Become([st EXCEPT !.file = WrittenAt(st.file, st.pos, <<0>>), !.pos = @ + 1])
    /\ n' = n + pendZeros
    /\ pc' = "done"
    /\ UNCHANGED <<src, i, pendZeros>>

Done == pc = "done" /\ UNCHANGED vars

Next == ReadZero \/ ReadByte \/ EndOfSource \/ Done

Spec == Init /\ [][Next]_vars

-----------------------------------------------------------------------------
(* Properties *)

\* What sparseCopy makes of s: the last zero it writes is the source's own if the
\* source ends in one, and is one byte too many if it does not.
CopyOf(s) == IF s # <<>> /\ s[Len(s)] = 0 THEN s ELSE Append(s, 0)

\* Buffered bytes, holes and pending zeros together are what was read so far:
\* no seek overtakes the buffer.  When the copy is done the file is the source,
\* byte by byte and not longer, but for the zero added to a source that does not
\* end in one, and the returned count is the source's length.
CopiesSource ==
    LET flat == Flushed(Now)
        shown == flat.file \o Zeros(flat.pos - Len(flat.file)) \o Zeros(pendZeros)
    IN  /\ pc = "copy" => shown = SubSeq(src, 1, i)
        /\ pc = "done" => file = CopyOf(src) /\ n = Len(src)

\* A downloaded segment can be flushed again: syncFile reads back exactly the
\* segment's bytes ("Flush will persist a dirty segment to the backing store").
DownloadCanBeFlushed == pc = "done" /\ Len(src) > 0 => Len(file) = Len(src)
=============================================================================
