-------------------------- MODULE SparseCopyProofs --------------------------
(***************************************************************************)
(* What sparseCopy copies, for any length, any shortest hole and any       *)
(* size of the bufio.Writer's buffer.                                      *)
(***************************************************************************)
EXTENDS SparseCopy, SequenceTheorems, TLAPS

Bit == {0, 1}

\* The file, the hole behind it and the buffer hold the first m bytes of the source.
Holds(st, m) ==
    /\ st.file \in Seq(Bit) /\ st.out \in Seq(Bit) /\ st.pos \in Nat
    /\ Len(st.file) <= st.pos /\ st.pos + Len(st.out) = m
    /\ \A k \in 1 .. Len(st.file) : st.file[k] = src[k]
    /\ \A k \in Len(st.file) + 1 .. st.pos : src[k] = 0
    /\ \A k \in 1 .. Len(st.out) : st.out[k] = src[st.pos + k]

\* What has been read: all but the pending zeros is held.
Copying ==
    /\ pendZeros \in 0 .. i /\ i <= Len(src) /\ n = i - pendZeros
    /\ Holds(Now, i - pendZeros)
    /\ \A k \in i - pendZeros + 1 .. i : src[k] = 0
    /\ pendZeros = 0 /\ i > 0 => src[i] # 0

\* The byte behind the source, if the source does not end in a zero.
Extra == IF src # <<>> /\ src[Len(src)] = 0 THEN 0 ELSE 1

Copied ==
    /\ n = Len(src) /\ file \in Seq(Bit) /\ Len(file) = Len(src) + Extra
    /\ \A k \in 1 .. Len(src) : file[k] = src[k]
    /\ Extra = 1 => file[Len(src) + 1] = 0

IInv == /\ src \in Seq(Bit) /\ i \in Nat /\ pc \in {"copy", "done"}
        /\ pc = "copy" => Copying
        /\ pc = "done" => Copied

-----------------------------------------------------------------------------
(* The operators *)

\* A function on 1..len is a sequence of that length.
LEMMA FunctionIsSeq ==
    ASSUME NEW len \in Nat, NEW S, NEW f \in [1 .. len -> S]
    PROVE  f \in Seq(S) /\ Len(f) = len
<1>1. f \in Seq(S)  BY SeqDef
<1>2. DOMAIN f = 1 .. Len(f) /\ Len(f) \in Nat  BY <1>1, LenProperties
<1>. QED  BY <1>1, <1>2

\* Zeros(k) is k zeros.
LEMMA ZerosAre ==
    ASSUME NEW k \in Nat
    PROVE  /\ Zeros(k) \in Seq(Bit) /\ Len(Zeros(k)) = k
           /\ \A j \in 1 .. k : Zeros(k)[j] = 0
<1>1. Zeros(k) \in [1 .. k -> Bit]  BY DEF Zeros, Bit
<1>2. Zeros(k) \in Seq(Bit) /\ Len(Zeros(k)) = k  BY <1>1, FunctionIsSeq
<1>3. \A j \in 1 .. k : Zeros(k)[j] = 0  BY DEF Zeros
<1>. QED  BY <1>2, <1>3

\* A write behind the end of the file leaves a hole that reads as zeros.
LEMMA WriteBehind ==
    ASSUME NEW f \in Seq(Bit), NEW p \in Nat, Len(f) <= p, NEW s \in Seq(Bit), s # <<>>
    PROVE  /\ WrittenAt(f, p, s) \in Seq(Bit)
           /\ Len(WrittenAt(f, p, s)) = p + Len(s)
           /\ \A k \in 1 .. p + Len(s) :
                 WrittenAt(f, p, s)[k] = IF k > p THEN s[k - p]
                                         ELSE IF k <= Len(f) THEN f[k] ELSE 0
<1>. DEFINE w == [k \in 1 .. p + Len(s) |->
                    IF k \in (p + 1)..(p + Len(s)) THEN s[k - p]
                    ELSE IF k <= Len(f) THEN f[k] ELSE 0]
<1>1. Len(f) \in Nat /\ Len(s) \in Nat \ {0}  BY LenProperties, EmptySeq
<1>2. WrittenAt(f, p, s) = w
  <2>1. p + Len(s) > Len(f)  BY <1>1
  <2>. QED  BY <2>1 DEF WrittenAt
<1>3. w \in [1 .. p + Len(s) -> Bit]
  <2>. SUFFICES ASSUME NEW k \in 1 .. p + Len(s)
                PROVE  (IF k \in (p + 1)..(p + Len(s)) THEN s[k - p]
                        ELSE IF k <= Len(f) THEN f[k] ELSE 0) \in Bit
    OBVIOUS
  <2>1. CASE k \in (p + 1)..(p + Len(s))
    <3>1. k - p \in 1 .. Len(s)  BY <1>1, <2>1
    <3>2. s[k - p] \in Bit  BY <3>1, ElementOfSeq
    <3>. QED  BY <2>1, <3>2
  <2>2. CASE k \notin (p + 1)..(p + Len(s)) /\ k <= Len(f)
    <3>1. f[k] \in Bit  BY <1>1, <2>2, ElementOfSeq
    <3>. QED  BY <2>2, <3>1
  <2>3. CASE k \notin (p + 1)..(p + Len(s)) /\ ~(k <= Len(f))
    BY <2>3 DEF Bit
  <2>. QED  BY <2>1, <2>2, <2>3
<1>4. p + Len(s) \in Nat  BY <1>1
<1>5. w \in Seq(Bit) /\ Len(w) = p + Len(s)
  <2>. HIDE DEF w
  <2>. QED  BY <1>3, <1>4, FunctionIsSeq
<1>6. \A k \in 1 .. p + Len(s) :
         w[k] = IF k > p THEN s[k - p] ELSE IF k <= Len(f) THEN f[k] ELSE 0
  BY <1>1
<1>. HIDE DEF w
<1>. QED  BY <1>2, <1>5, <1>6

\* A write of nothing changes nothing.
LEMMA WriteNothing == ASSUME NEW f, NEW p PROVE WrittenAt(f, p, <<>>) = f
BY DEF WrittenAt

\* The first g bytes of the buffer go to the file: the same bytes are held.
LEMMA Spill ==
    ASSUME NEW st, NEW m \in Nat, Holds(st, m), NEW g \in 0 .. Len(st.out)
    PROVE  Holds([file |-> WrittenAt(st.file, st.pos, SubSeq(st.out, 1, g)),
                  pos |-> st.pos + g,
                  out |-> SubSeq(st.out, g + 1, Len(st.out))], m)
<1>. DEFINE gone == SubSeq(st.out, 1, g)
            kept == SubSeq(st.out, g + 1, Len(st.out))
            f == WrittenAt(st.file, st.pos, gone)
<1>1. /\ st.file \in Seq(Bit) /\ st.out \in Seq(Bit) /\ st.pos \in Nat
      /\ Len(st.file) \in Nat /\ Len(st.out) \in Nat /\ g \in Nat
  BY LenProperties DEF Holds
<1>2. \A k \in 1 .. Len(st.out) : st.out[k] \in Bit  BY <1>1, ElementOfSeq
<1>3. /\ gone \in Seq(Bit) /\ Len(gone) = g
      /\ \A k \in 1 .. g : gone[k] = st.out[k]
  <2>1. \A k \in 1 .. g : st.out[k] \in Bit  BY <1>1, <1>2
  <2>2. /\ gone \in Seq(Bit) /\ Len(gone) = IF 1 <= g THEN g - 1 + 1 ELSE 0
        /\ \A k \in 1 .. g - 1 + 1 : gone[k] = st.out[1 + k - 1]
    BY <1>1, <2>1, SubSeqProperties
  <2>. QED  BY <1>1, <2>2
<1>4. /\ kept \in Seq(Bit) /\ Len(kept) = Len(st.out) - g
      /\ \A k \in 1 .. Len(st.out) - g : kept[k] = st.out[g + k]
  <2>1. \A k \in g + 1 .. Len(st.out) : st.out[k] \in Bit  BY <1>1, <1>2
  <2>2. /\ kept \in Seq(Bit)
        /\ Len(kept) = IF g + 1 <= Len(st.out) THEN Len(st.out) - (g + 1) + 1 ELSE 0
        /\ \A k \in 1 .. Len(st.out) - (g + 1) + 1 : kept[k] = st.out[g + 1 + k - 1]
    BY <1>1, <2>1, SubSeqProperties
  <2>. QED  BY <1>1, <2>2
<1>5. CASE g = 0
  <2>1. gone = <<>>  BY <1>5, SubSeqEmpty
  <2>2. f = st.file  BY <2>1, WriteNothing
  <2>. HIDE DEF gone, kept, f
  <2>3. Holds([file |-> f, pos |-> st.pos + g, out |-> kept], m)
    BY <1>1, <1>4, <1>5, <2>2 DEF Holds
  <2>. QED  BY <2>3 DEF f, kept, gone
<1>6. CASE g # 0
  <2>1. gone # <<>>
    <3>. HIDE DEF gone
    <3>. QED  BY <1>3, <1>6, EmptySeq
  <2>2. Len(st.file) <= st.pos  BY DEF Holds
  <2>. HIDE DEF gone, kept
  <2>3. /\ f \in Seq(Bit) /\ Len(f) = st.pos + g
        /\ \A k \in 1 .. st.pos + g :
              f[k] = IF k > st.pos THEN gone[k - st.pos]
                     ELSE IF k <= Len(st.file) THEN st.file[k] ELSE 0
    BY <1>1, <1>3, <2>1, <2>2, WriteBehind
  <2>. HIDE DEF f
  <2>4. \A k \in 1 .. st.pos + g : f[k] = src[k]
    <3>. TAKE k \in 1 .. st.pos + g
    <3>1. CASE k > st.pos
      <4>1. PICK j \in 1 .. g : k = st.pos + j /\ k - st.pos = j
        <5>1. k - st.pos \in 1 .. g /\ k = st.pos + (k - st.pos)  BY <1>1, <3>1
        <5>. QED  BY <5>1
      <4>2. j \in 1 .. Len(st.out)  BY <1>1
      <4>3. st.out[j] = src[st.pos + j]  BY <4>2 DEF Holds
      <4>. QED  BY <1>3, <2>3, <3>1, <4>1, <4>3
    <3>2. CASE ~(k > st.pos)
      BY SMTT(30), <1>1, <2>3, <3>2 DEF Holds
    <3>. QED  BY <3>1, <3>2
  <2>5. \A k \in 1 .. Len(kept) : kept[k] = src[st.pos + g + k]
    <3>. TAKE k \in 1 .. Len(kept)
    <3>1. g + k \in 1 .. Len(st.out) /\ st.pos + (g + k) = st.pos + g + k  BY <1>1, <1>4
    <3>2. st.out[g + k] = src[st.pos + (g + k)]  BY <3>1 DEF Holds
    <3>. QED  BY <1>4, <3>1, <3>2
  <2>6. st.pos + g + Len(kept) = m  BY <1>1, <1>4 DEF Holds
  <2>7. Holds([file |-> f, pos |-> st.pos + g, out |-> kept], m)
    <3>1. st.pos + g \in Nat /\ Len(f) <= st.pos + g  BY <1>1, <2>3
    <3>2. \A k \in 1 .. Len(f) : f[k] = src[k]  BY <2>3, <2>4
    <3>3. \A k \in Len(f) + 1 .. st.pos + g : src[k] = 0  BY <1>1, <2>3
    <3>. QED  BY <1>4, <2>3, <2>5, <2>6, <3>1, <3>2, <3>3 DEF Holds
  <2>. QED  BY <2>7 DEF f, kept, gone
<1>. QED  BY <1>1, <1>5, <1>6

\* out.Flush() empties the buffer.
LEMMA FlushedHolds ==
    ASSUME NEW st, NEW m \in Nat, Holds(st, m)
    PROVE  Holds(Flushed(st), m) /\ Flushed(st).out = <<>> /\ Flushed(st).pos = m
<1>1. st.out \in Seq(Bit) /\ Len(st.out) \in Nat  BY LenProperties DEF Holds
<1>2. Len(st.out) \in 0 .. Len(st.out)  BY <1>1
<1>3. SubSeq(st.out, 1, Len(st.out)) = st.out  BY <1>1, SubSeqFull
<1>4. SubSeq(st.out, Len(st.out) + 1, Len(st.out)) = <<>>
  <2>1. Len(st.out) + 1 \in Int /\ Len(st.out) \in Int /\ Len(st.out) < Len(st.out) + 1
    BY <1>1
  <2>. QED  BY <2>1, SubSeqEmpty
<1>5. Holds(Flushed(st), m)  BY <1>2, <1>3, <1>4, Spill DEF Flushed
<1>6. Flushed(st).out = <<>> /\ Flushed(st).pos = m  BY DEF Flushed, Holds
<1>. QED  BY <1>5, <1>6

\* Seeking over z bytes holds them when they are zeros.
LEMMA SeekedHolds ==
    ASSUME NEW st, NEW m \in Nat, Holds(st, m),
           NEW z \in Nat, \A k \in m + 1 .. m + z : src[k] = 0
    PROVE  Holds(Seeked(st, z), m + z) /\ Seeked(st, z).out = <<>> /\ Seeked(st, z).pos = m + z
<1>1. Holds(Flushed(st), m) /\ Flushed(st).out = <<>> /\ Flushed(st).pos = m
  BY FlushedHolds
<1>2. /\ Seeked(st, z).file = Flushed(st).file /\ Seeked(st, z).out = Flushed(st).out
      /\ Seeked(st, z).pos = Flushed(st).pos + z
  BY DEF Seeked, Flushed
<1>3. Len(Flushed(st).file) \in Nat  BY <1>1, LenProperties DEF Holds
<1>4. \A k \in Len(Flushed(st).file) + 1 .. m + z : src[k] = 0
  <2>. TAKE k \in Len(Flushed(st).file) + 1 .. m + z
  <2>1. CASE k <= m  BY <1>1, <1>3, <2>1 DEF Holds
  <2>2. CASE ~(k <= m)  BY <1>3, <2>2
  <2>. QED  BY <2>1, <2>2
<1>5. Len(<<>>) = 0  BY EmptySeq
<1>. QED  BY <1>1, <1>2, <1>3, <1>4, <1>5 DEF Holds

\* A remainder is at most what was divided.
LEMMA RemainderAtMost == \A a \in Nat, b \in Nat \ {0} : a % b \in Nat /\ a % b <= a
OBVIOUS

\* Writing s through the buffer holds it when s is what comes next in the source.
LEMMA BufferedHolds ==
    ASSUME NEW st, NEW m \in Nat, Holds(st, m),
           NEW s \in Seq(Bit), \A k \in 1 .. Len(s) : s[k] = src[m + k]
    PROVE  Holds(Buffered(st, s), m + Len(s))
<1>. DEFINE all == st.out \o s
            st2 == [file |-> st.file, pos |-> st.pos, out |-> all]
            kept == IF Len(all) = 0 THEN 0 ELSE ((Len(all) - 1) % OutSize) + 1
            g == Len(all) - kept
<1>1. /\ st.file \in Seq(Bit) /\ st.out \in Seq(Bit) /\ st.pos \in Nat
      /\ Len(st.out) \in Nat /\ Len(s) \in Nat
  BY LenProperties DEF Holds
<1>2. /\ all \in Seq(Bit) /\ Len(all) = Len(st.out) + Len(s)
      /\ \A k \in 1 .. Len(st.out) + Len(s) :
            all[k] = IF k <= Len(st.out) THEN st.out[k] ELSE s[k - Len(st.out)]
  BY <1>1, ConcatProperties
<1>. HIDE DEF all
<1>3. \A k \in 1 .. Len(all) : all[k] = src[st.pos + k]
  <2>. TAKE k \in 1 .. Len(all)
  <2>1. CASE k <= Len(st.out)
    <3>1. k \in 1 .. Len(st.out)  BY <1>1, <1>2, <2>1
    <3>2. st.out[k] = src[st.pos + k]  BY <3>1 DEF Holds
    <3>. QED  BY <1>2, <2>1, <3>2
  <2>2. CASE ~(k <= Len(st.out))
    <3>1. PICK j \in 1 .. Len(s) : k - Len(st.out) = j /\ m + j = st.pos + k
      <4>1. /\ k - Len(st.out) \in 1 .. Len(s)
            /\ m + (k - Len(st.out)) = st.pos + k
        BY SMTT(30), <1>1, <1>2, <2>2 DEF Holds
      <4>. QED  BY <4>1
    <3>2. s[j] = src[m + j]  OBVIOUS
    <3>. QED  BY <1>2, <2>2, <3>1, <3>2
  <2>. QED  BY <2>1, <2>2
<1>4. Holds(st2, m + Len(s))
  <2>1. st.pos + Len(all) = m + Len(s)
    <3>1. st.pos + Len(st.out) = m  BY DEF Holds
    <3>2. st.pos + (Len(st.out) + Len(s)) = (st.pos + Len(st.out)) + Len(s)
      <4>1. \A a, b, c \in Nat : a + (b + c) = (a + b) + c  OBVIOUS
      <4>. QED  BY Zenon, <1>1, <4>1
    <3>. QED  BY Zenon, <1>2, <3>1, <3>2
  <2>2. st2.file = st.file /\ st2.pos = st.pos /\ st2.out = all  OBVIOUS
  <2>. HIDE DEF st2
  <2>. QED  BY <1>1, <1>2, <1>3, <2>1, <2>2 DEF Holds
<1>5. g \in 0 .. Len(all)
  <2>1. CASE Len(all) = 0  BY <2>1
  <2>2. CASE Len(all) # 0
    <3>1. Len(all) - 1 \in Nat  BY <1>1, <1>2, <2>2
    <3>2. (Len(all) - 1) % OutSize \in Nat /\ (Len(all) - 1) % OutSize <= Len(all) - 1
      BY <3>1, SizeAssumption, RemainderAtMost
    <3>. QED  BY SMTT(30), <1>1, <1>2, <2>2, <3>2
  <2>. QED  BY <2>1, <2>2
<1>6. Len(all) - kept + 1 = g + 1  OBVIOUS
<1>7. /\ SubSeq(all, 1, g) \in Seq(Bit) /\ Len(SubSeq(all, 1, g)) = g
  <2>1. Len(all) \in Nat /\ g \in Nat  BY <1>1, <1>2, <1>5
  <2>. HIDE DEF g
  <2>2. \A k \in 1 .. g : all[k] \in Bit  BY <1>2, <1>5, <2>1, ElementOfSeq
  <2>3. /\ SubSeq(all, 1, g) \in Seq(Bit)
        /\ Len(SubSeq(all, 1, g)) = IF 1 <= g THEN g - 1 + 1 ELSE 0
    BY <2>1, <2>2, SubSeqProperties
  <2>. QED  BY <2>1, <2>3
<1>8. Buffered(st, s) = [file |-> WrittenAt(st2.file, st2.pos, SubSeq(st2.out, 1, g)),
                         pos |-> st2.pos + g,
                         out |-> SubSeq(st2.out, g + 1, Len(st2.out))]
  BY <1>7 DEF Buffered, all
<1>9. m + Len(s) \in Nat  BY <1>1
<1>10. g \in 0 .. Len(st2.out)  BY <1>5
<1>. HIDE DEF g, kept, st2
<1>. QED  BY <1>4, <1>8, <1>9, <1>10, Spill

-----------------------------------------------------------------------------
(* The steps *)

\* Before the first call nothing is copied and nothing is pending.
LEMMA InitHolds == Init => IInv
<1>. SUFFICES ASSUME Init PROVE IInv  OBVIOUS
<1>1. src \in Seq(Bit)
  <2>1. PICK len \in 0 .. MaxLen : src \in [1 .. len -> {0, 1}]  BY DEF Init, Source
  <2>. QED  BY <2>1, SizeAssumption, FunctionIsSeq DEF Bit
<1>2. Len(src) \in Nat  BY <1>1, LenProperties
<1>3. <<>> \in Seq(Bit) /\ Len(<<>>) = 0  BY EmptySeq
<1>4. Holds(Now, 0)  BY <1>3 DEF Init, Now, Holds
<1>5. Copying  BY <1>2, <1>4 DEF Init, Copying
<1>. QED  BY <1>1, <1>5 DEF Init, IInv

\* A zero is left pending.
LEMMA ReadZeroStep == IInv /\ ReadZero => IInv'
<1>. SUFFICES ASSUME IInv, ReadZero PROVE IInv'  OBVIOUS
<1>. USE DEF ReadZero
<1>1. src \in Seq(Bit) /\ i \in Nat /\ Copying /\ pc = "copy"  BY DEF IInv
<1>2. Len(src) \in Nat  BY <1>1, LenProperties
<1>3. pendZeros \in Nat /\ pendZeros <= i  BY <1>1 DEF Copying
<1>4. Now' = Now /\ src' = src  BY DEF Now
<1>5. i' - pendZeros' = i - pendZeros  BY <1>1, <1>3
<1>6. Holds(Now, i - pendZeros)'  BY <1>1, <1>4, <1>5 DEF Copying, Holds
<1>7. \A k \in i' - pendZeros' + 1 .. i' : src'[k] = 0
  <2>. TAKE k \in i' - pendZeros' + 1 .. i'
  <2>1. CASE k = i + 1  BY <2>1
  <2>2. CASE k # i + 1
    <3>1. k \in i - pendZeros + 1 .. i  BY <1>1, <1>3, <1>5, <2>2
    <3>. QED  BY <1>1, <3>1 DEF Copying
  <2>. QED  BY <2>1, <2>2
<1>8. Copying'
  <2>1. (pendZeros \in 0 .. i)' /\ (i <= Len(src))'  BY <1>1, <1>2, <1>3
  <2>2. n' = i' - pendZeros'  BY <1>1, <1>5 DEF Copying
  <2>3. pendZeros' # 0  BY <1>3
  <2>. QED  BY <1>6, <1>7, <2>1, <2>2, <2>3 DEF Copying
<1>. QED  BY <1>1, <1>8 DEF IInv

\* A byte is written behind the pending zeros, whichever way they go.
LEMMA ReadByteStep == IInv /\ ReadByte => IInv'
<1>. SUFFICES ASSUME IInv, ReadByte PROVE IInv'  OBVIOUS
<1>. DEFINE st == IF pendZeros >= MinSeqSparseZeros THEN Seeked(Now, pendZeros)
                  ELSE Buffered(Now, Zeros(pendZeros))
            one == <<src[i + 1]>>
            m == i - pendZeros
<1>1. src \in Seq(Bit) /\ i \in Nat /\ Copying /\ pc = "copy"  BY DEF IInv, ReadByte
<1>2. Len(src) \in Nat /\ i < Len(src)  BY <1>1, LenProperties DEF ReadByte
<1>3. pendZeros \in Nat /\ pendZeros <= i /\ m \in Nat /\ m + pendZeros = i
  BY <1>1 DEF Copying
<1>4. Holds(Now, m)  BY <1>1 DEF Copying
<1>5. \A k \in m + 1 .. i : src[k] = 0  BY <1>1 DEF Copying
<1>6. Holds(st, i)
  <2>. HIDE DEF m
  <2>1. Holds(Seeked(Now, pendZeros), i)
    <3>1. \A k \in m + 1 .. m + pendZeros : src[k] = 0  BY <1>3, <1>5
    <3>2. Holds(Seeked(Now, pendZeros), m + pendZeros)
      BY <1>3, <1>4, <3>1, SeekedHolds
    <3>. QED  BY <1>3, <3>2
  <2>2. Holds(Buffered(Now, Zeros(pendZeros)), i)
    <3>1. /\ Zeros(pendZeros) \in Seq(Bit) /\ Len(Zeros(pendZeros)) = pendZeros
          /\ \A k \in 1 .. pendZeros : Zeros(pendZeros)[k] = 0
      BY <1>3, ZerosAre
    <3>2. \A k \in 1 .. pendZeros : src[m + k] = 0  BY <1>3, <1>5
    <3>3. \A k \in 1 .. Len(Zeros(pendZeros)) : Zeros(pendZeros)[k] = src[m + k]
      BY <3>1, <3>2
    <3>4. Holds(Buffered(Now, Zeros(pendZeros)), m + Len(Zeros(pendZeros)))
      BY <1>3, <1>4, <3>1, <3>3, BufferedHolds
    <3>. QED  BY <1>3, <3>1, <3>4
  <2>. QED  BY <2>1, <2>2
<1>7. Holds(Buffered(st, one), i + 1)
  <2>1. src[i + 1] \in Bit  BY <1>1, <1>2, ElementOfSeq
  <2>2. one \in Seq(Bit) /\ Len(one) = 1 /\ one[1] = src[i + 1]  BY <2>1
  <2>. HIDE DEF one, st
  <2>3. \A k \in 1 .. Len(one) : one[k] = src[i + k]  BY <2>2
  <2>4. Holds(Buffered(st, one), i + Len(one))  BY <1>1, <1>6, <2>2, <2>3, BufferedHolds
  <2>. QED  BY <2>2, <2>4
<1>8. Become(Buffered(st, one))  BY DEF ReadByte
<1>. HIDE DEF st, one
<1>9. src' = src /\ i' = i + 1 /\ pendZeros' = 0 /\ n' = n + pendZeros + 1 /\ pc' = pc
  BY DEF ReadByte
<1>10. Holds(Now, i - pendZeros)'
  <2>1. /\ Now'.file = Buffered(st, one).file /\ Now'.pos = Buffered(st, one).pos
        /\ Now'.out = Buffered(st, one).out
    BY <1>8 DEF Now, Become
  <2>2. i' - pendZeros' = i + 1  BY <1>1, <1>9
  <2>. QED  BY <1>7, <1>9, <2>1, <2>2 DEF Holds
<1>11. Copying'
  <2>1. n = m  BY <1>1 DEF Copying
  <2>2. (pendZeros \in 0 .. i)' /\ (i <= Len(src))' /\ n' = i' - pendZeros'
    BY <1>1, <1>2, <1>3, <1>9, <2>1
  <2>3. \A k \in i' - pendZeros' + 1 .. i' : src'[k] = 0  BY <1>1, <1>9
  <2>4. src'[i'] # 0  BY <1>9 DEF ReadByte
  <2>. QED  BY <1>10, <2>2, <2>3, <2>4 DEF Copying
<1>. QED  BY <1>1, <1>9, <1>11 DEF IInv

\* The last zero is written behind a hole: the file holds the source, and one more byte
\* when no zero was pending.
LEMMA EndOfSourceStep == IInv /\ EndOfSource => IInv'
<1>. SUFFICES ASSUME IInv, EndOfSource PROVE IInv'  OBVIOUS
<1>. DEFINE st == Seeked(Now, TailHole)
            m == i - pendZeros
<1>1. src \in Seq(Bit) /\ i \in Nat /\ Copying /\ i = Len(src)  BY DEF IInv, EndOfSource
<1>2. /\ pendZeros \in Nat /\ pendZeros <= i /\ m \in Nat /\ m + pendZeros = i
      /\ TailHole \in Nat /\ m + TailHole <= i /\ i <= m + TailHole + 1
  BY <1>1 DEF Copying, TailHole
<1>3. \A k \in m + 1 .. i : src[k] = 0  BY <1>1 DEF Copying
<1>4. Holds(st, m + TailHole) /\ st.out = <<>> /\ st.pos = m + TailHole
  <2>1. Holds(Now, m)  BY <1>1 DEF Copying
  <2>. HIDE DEF m
  <2>2. \A k \in m + 1 .. m + TailHole : src[k] = 0  BY <1>1, <1>2, <1>3
  <2>. QED  BY <1>2, <2>1, <2>2, SeekedHolds
<1>5. file' = WrittenAt(st.file, st.pos, <<0>>)
  BY DEF EndOfSource, Become
<1>. HIDE DEF st, m
<1>6. /\ st.file \in Seq(Bit) /\ Len(st.file) \in Nat /\ Len(st.file) <= st.pos /\ st.pos \in Nat
  BY <1>4, LenProperties DEF Holds
<1>7. /\ file' \in Seq(Bit) /\ Len(file') = st.pos + 1
      /\ \A k \in 1 .. st.pos + 1 :
            file'[k] = IF k > st.pos THEN 0 ELSE IF k <= Len(st.file) THEN st.file[k] ELSE 0
  <2>1. <<0>> \in Seq(Bit) /\ <<0>> # <<>> /\ Len(<<0>>) = 1 /\ <<0>>[1] = 0  BY DEF Bit
  <2>2. /\ file' \in Seq(Bit) /\ Len(file') = st.pos + Len(<<0>>)
        /\ \A k \in 1 .. st.pos + Len(<<0>>) :
              file'[k] = IF k > st.pos THEN <<0>>[k - st.pos]
                         ELSE IF k <= Len(st.file) THEN st.file[k] ELSE 0
    BY <1>5, <1>6, <2>1, WriteBehind
  <2>3. \A k \in 1 .. st.pos + 1 : k > st.pos => k - st.pos = 1  BY <1>6
  <2>. QED  BY <2>1, <2>2, <2>3
<1>8. \A k \in 1 .. i : file'[k] = src[k]
  <2>. TAKE k \in 1 .. i
  <2>0. k \in 1 .. st.pos + 1  BY <1>1, <1>2, <1>4
  <2>1. CASE k > st.pos
    <3>1. src[k] = 0  BY <1>1, <1>2, <1>3, <1>4, <2>1
    <3>. QED  BY <1>7, <2>0, <2>1, <3>1
  <2>2. CASE ~(k > st.pos) /\ k <= Len(st.file)
    BY <1>4, <1>6, <1>7, <2>0, <2>2 DEF Holds
  <2>3. CASE ~(k > st.pos) /\ ~(k <= Len(st.file))
    <3>1. src[k] = 0  BY <1>4, <1>6, <2>3 DEF Holds
    <3>. QED  BY <1>7, <2>0, <2>3, <3>1
  <2>. QED  BY <2>1, <2>2, <2>3
<1>9. src' = src /\ i' = i /\ pc' = "done" /\ n' = n + pendZeros  BY DEF EndOfSource
<1>10. n' = i  BY <1>1, <1>2, <1>9 DEF Copying, m
<1>11. Len(file') = i + Extra /\ (Extra = 1 => file'[i + 1] = 0)
  <2>1. CASE pendZeros = 0
    <3>1. Extra = 1
      <4>1. CASE i = 0
        BY <1>1, <4>1, EmptySeq DEF Extra
      <4>2. CASE i # 0
        BY <1>1, <2>1, <4>2 DEF Copying, Extra
      <4>. QED  BY <4>1, <4>2
    <3>2. st.pos = i  BY <1>1, <1>2, <1>4, <2>1 DEF TailHole
    <3>. QED  BY <1>1, <1>7, <3>1, <3>2
  <2>2. CASE pendZeros # 0
    <3>1. src[i] = 0  BY <1>1, <1>2, <1>3, <2>2
    <3>2. Extra = 0
      <4>1. i # 0  BY <1>1, <1>2, <2>2
      <4>. QED  BY <1>1, <3>1, <4>1, EmptySeq DEF Extra
    <3>3. st.pos + 1 = i  BY <1>1, <1>2, <1>4, <2>2 DEF TailHole
    <3>. QED  BY <1>1, <1>7, <3>2, <3>3
  <2>. QED  BY <2>1, <2>2
<1>12. Copied'
  <2>1. Extra' = Extra  BY <1>9 DEF Extra
  <2>. QED  BY <1>1, <1>7, <1>8, <1>9, <1>10, <1>11, <2>1 DEF Copied
<1>. QED  BY <1>1, <1>9, <1>12 DEF IInv

\* Every call of the copy keeps the invariant.
LEMMA Step == IInv /\ [Next]_vars => IInv'
<1>. SUFFICES ASSUME IInv, [Next]_vars PROVE IInv'  OBVIOUS
<1>1. CASE UNCHANGED vars
  BY <1>1 DEF IInv, Copying, Copied, Extra, Holds, Now, vars
<1>. QED  BY <1>1, ReadZeroStep, ReadByteStep, EndOfSourceStep DEF Next, Done

\* What is held, with the pending zeros behind it, is what has been read.
LEMMA HeldIsRead == IInv => CopiesSource
<1>. SUFFICES ASSUME IInv PROVE CopiesSource  OBVIOUS
<1>. DEFINE flat == Flushed(Now)
            hole == Zeros(flat.pos - Len(flat.file))
            m == i - pendZeros
<1>1. src \in Seq(Bit) /\ Len(src) \in Nat /\ i \in Nat  BY LenProperties DEF IInv
<1>2. ASSUME pc = "copy" PROVE flat.file \o hole \o Zeros(pendZeros) = SubSeq(src, 1, i)
  <2>1. Copying /\ Holds(Now, m)  BY <1>2 DEF IInv, Copying
  <2>2. pendZeros \in Nat /\ m \in Nat /\ m + pendZeros = i /\ i <= Len(src)
    BY <1>1, <2>1 DEF Copying
  <2>3. \A k \in m + 1 .. i : src[k] = 0  BY <2>1 DEF Copying
  <2>. HIDE DEF m
  <2>4. Holds(flat, m) /\ flat.pos = m  BY <2>1, <2>2, FlushedHolds
  <2>. HIDE DEF flat
  <2>5. flat.file \in Seq(Bit) /\ Len(flat.file) \in Nat /\ Len(flat.file) <= m
    BY <2>4, LenProperties DEF Holds
  <2>6. m - Len(flat.file) \in Nat  BY <2>2, <2>5
  <2>7. /\ hole \in Seq(Bit) /\ Len(hole) = m - Len(flat.file)
        /\ \A k \in 1 .. m - Len(flat.file) : hole[k] = 0
    BY <2>4, <2>6, ZerosAre
  <2>8. /\ Zeros(pendZeros) \in Seq(Bit) /\ Len(Zeros(pendZeros)) = pendZeros
        /\ \A k \in 1 .. pendZeros : Zeros(pendZeros)[k] = 0
    BY <2>2, ZerosAre
  <2>. HIDE DEF hole
  <2>9. /\ flat.file \o hole \in Seq(Bit)
        /\ Len(flat.file \o hole) = Len(flat.file) + Len(hole)
        /\ \A k \in 1 .. Len(flat.file) + Len(hole) : (flat.file \o hole)[k] =
              IF k <= Len(flat.file) THEN flat.file[k] ELSE hole[k - Len(flat.file)]
    BY <2>5, <2>7, ConcatProperties
  <2>10. Len(flat.file \o hole) = m  BY <2>2, <2>5, <2>7, <2>9
  <2>11. \A k \in 1 .. m : (flat.file \o hole)[k] = src[k]
    <3>. TAKE k \in 1 .. m
    <3>1. CASE k <= Len(flat.file)  BY <2>2, <2>4, <2>5, <2>7, <2>9, <3>1 DEF Holds
    <3>2. CASE ~(k <= Len(flat.file))
      <4>1. src[k] = 0  BY <2>2, <2>4, <2>5, <3>2 DEF Holds
      <4>2. k - Len(flat.file) \in 1 .. m - Len(flat.file)  BY <2>2, <2>5, <3>2
      <4>3. hole[k - Len(flat.file)] = 0  BY <2>7, <4>2
      <4>4. k \in 1 .. Len(flat.file) + Len(hole)  BY <2>2, <2>5, <2>7
      <4>. QED  BY <2>9, <3>2, <4>1, <4>3, <4>4
    <3>. QED  BY <3>1, <3>2
  <2>. DEFINE held == flat.file \o hole
              shown == held \o Zeros(pendZeros)
  <2>. HIDE DEF held
  <2>12. held \in Seq(Bit) /\ Len(held) = m /\ \A k \in 1 .. m : held[k] = src[k]
    BY <2>9, <2>10, <2>11 DEF held
  <2>13. /\ shown \in Seq(Bit) /\ Len(shown) = m + pendZeros
         /\ \A k \in 1 .. m + pendZeros : shown[k] =
               IF k <= m THEN held[k] ELSE Zeros(pendZeros)[k - m]
    <3>1. /\ shown \in Seq(Bit) /\ Len(shown) = Len(held) + Len(Zeros(pendZeros))
          /\ \A k \in 1 .. Len(held) + Len(Zeros(pendZeros)) : shown[k] =
                IF k <= Len(held) THEN held[k] ELSE Zeros(pendZeros)[k - Len(held)]
      BY <2>8, <2>12, ConcatProperties
    <3>. HIDE DEF shown
    <3>. QED  BY <2>8, <2>12, <3>1
  <2>. HIDE DEF shown
  <2>14. \A k \in 1 .. i : shown[k] = src[k]
    <3>. TAKE k \in 1 .. i
    <3>1. CASE k <= m  BY <2>2, <2>12, <2>13, <3>1
    <3>2. CASE ~(k <= m)
      <4>1. src[k] = 0  BY <1>1, <2>2, <2>3, <3>2
      <4>2. k - m \in 1 .. pendZeros  BY <1>1, <2>2, <3>2
      <4>3. Zeros(pendZeros)[k - m] = 0  BY <2>8, <4>2
      <4>. QED  BY <2>2, <2>13, <3>2, <4>1, <4>3
    <3>. QED  BY <3>1, <3>2
  <2>15. /\ SubSeq(src, 1, i) \in Seq(Bit) /\ Len(SubSeq(src, 1, i)) = i
         /\ \A k \in 1 .. i : SubSeq(src, 1, i)[k] = src[k]
    <3>1. \A k \in 1 .. i : src[k] \in Bit  BY <1>1, <2>2, ElementOfSeq
    <3>2. /\ SubSeq(src, 1, i) \in Seq(Bit)
          /\ Len(SubSeq(src, 1, i)) = IF 1 <= i THEN i - 1 + 1 ELSE 0
          /\ \A k \in 1 .. i - 1 + 1 : SubSeq(src, 1, i)[k] = src[1 + k - 1]
      BY <1>1, <3>1, SubSeqProperties
    <3>. QED  BY <1>1, <3>2
  <2>16. shown = SubSeq(src, 1, i)
    <3>1. Len(shown) = Len(SubSeq(src, 1, i))  BY <2>2, <2>13, <2>15
    <3>2. \A k \in 1 .. Len(shown) : shown[k] = SubSeq(src, 1, i)[k]
      BY <2>2, <2>13, <2>14, <2>15
    <3>. QED  BY <2>13, <2>15, <3>1, <3>2, SeqEqual
  <2>. QED  BY <2>16 DEF shown, held
<1>3. ASSUME pc = "done" PROVE file = CopyOf(src) /\ n = Len(src)
  <2>1. /\ n = Len(src) /\ file \in Seq(Bit) /\ Len(file) = Len(src) + Extra
        /\ \A k \in 1 .. Len(src) : file[k] = src[k]
        /\ Extra = 1 => file[Len(src) + 1] = 0
    BY <1>3 DEF IInv, Copied
  <2>2. CASE Extra = 0
    <3>1. CopyOf(src) = src  BY <2>2 DEF Extra, CopyOf
    <3>2. Len(file) = Len(src)  BY <1>1, <2>1, <2>2
    <3>. QED  BY <1>1, <2>1, <3>1, <3>2, SeqEqual
  <2>3. CASE Extra = 1
    <3>1. CopyOf(src) = Append(src, 0)  BY <2>3 DEF Extra, CopyOf
    <3>2. 0 \in Bit  BY DEF Bit
    <3>3. /\ Append(src, 0) \in Seq(Bit) /\ Len(Append(src, 0)) = Len(src) + 1
          /\ \A k \in 1 .. Len(src) : Append(src, 0)[k] = src[k]
          /\ Append(src, 0)[Len(src) + 1] = 0
      BY <1>1, <3>2, AppendProperties
    <3>4. Len(file) = Len(Append(src, 0))  BY <2>1, <2>3, <3>3
    <3>5. \A k \in 1 .. Len(file) : file[k] = Append(src, 0)[k]
      <4>. TAKE k \in 1 .. Len(file)
      <4>1. k \in 1 .. Len(src) \/ k = Len(src) + 1  BY <1>1, <2>1, <2>3
      <4>. QED  BY <2>1, <2>3, <3>3, <4>1
    <3>6. file = Append(src, 0)  BY <2>1, <3>3, <3>4, <3>5, SeqEqual
    <3>. QED  BY <2>1, <3>1, <3>6
  <2>4. Extra \in {0, 1}  BY DEF Extra
  <2>. QED  BY <2>2, <2>3, <2>4
<1>. QED  BY <1>2, <1>3 DEF CopiesSource

\* sparseCopy neither loses nor moves a byte: whatever the runs of zeros, no seek
\* overtakes the buffer, and at the end the file is the source, with one zero more
\* exactly when the source does not end in one.
THEOREM Copies == Spec => []CopiesSource
BY InitHolds, Step, HeldIsRead, PTL DEF Spec
=============================================================================
