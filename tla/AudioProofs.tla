----------------------------- MODULE AudioProofs ----------------------------
(***************************************************************************)
(* What the two ends of the rings of Audio may rely on, for rings and      *)
(* chunks of every size: the types, the recordings, and that the output    *)
(* ring is a Playout.                                                      *)
(***************************************************************************)
EXTENDS Audio, SequenceTheorems, TLAPS

-----------------------------------------------------------------------------
(* The invariant                                                           *)

\* The engine's place is where the samples in the output ring end, and what it
\* found free is still free, for only it fills the ring; the chunk being read
\* is still there, for only the worklet takes from it.
OutOK ==
    /\ asked = "no" => pc = "off"
    /\ At(OutSize, outRpos, outAvail) = wpos
    /\ pc # "wait" => toWrite <= OutSize - outAvail
    /\ pc = "mixing" => toWrite # 0
    /\ step = "reading" => outAvail >= OutChunk

\* The input ring holds the last samples that were spoken, in order, and what
\* either end found there, or found free, stays so until it comes to use it.
InOK ==
    /\ At(InSize, rpos, inAvail) = inWpos
    /\ inAvail <= spoken
    /\ \A i \in 0 .. inAvail - 1 :
           inBuf[At(InSize, rpos, i)] = spoken - inAvail + i + 1
    /\ pc \in {"capture", "capturing"} => toRead <= inAvail
    /\ step = "recording" => inAvail + InChunk <= InSize

AudioInv == TypeOK /\ OutOK /\ InOK

-----------------------------------------------------------------------------
(* Rings                                                                   *)

\* At without the remainder: a position may also be the end of the buffer, where
\* RingBuffer.read leaves it if a chunk just fits.
LEMMA Wrapped ==
    ASSUME NEW s \in Nat \ {0}, NEW p \in 0 .. s, NEW i \in 0 .. s
    PROVE  At(s, p, i) = IF p + i < s THEN p + i
                      ELSE IF p + i < s + s THEN p + i - s ELSE 0
<1>0. s \in Nat \ {0}
  OBVIOUS
<1>1. CASE p + i < s
  BY <1>0, <1>1 DEF At
<1>2. CASE p + i >= s /\ p + i < s + s
  BY <1>0, <1>2 DEF At
<1>3. CASE p + i >= s + s
  <2>1. p + i = s + s
    BY <1>0, <1>3
  <2>2. (s + s) % s = 0
    BY <1>0
  <2> QED
    BY <1>0, <1>3, <2>1, <2>2 DEF At
<1> QED
  BY <1>0, <1>1, <1>2, <1>3

LEMMA AtInCell ==
    ASSUME NEW s \in Nat \ {0}, NEW p \in 0 .. s, NEW i \in 0 .. s
    PROVE  At(s, p, i) \in Cells(s)
BY Wrapped DEF Cells

\* After a read, the i-th cell is the one that was n further.
LEMMA AtPlaces ==
    ASSUME NEW s \in Nat \ {0}, NEW p \in 0 .. s, NEW n \in 0 .. s,
           NEW i \in 0 .. s - n
    PROVE  /\ AfterRead(s, p, n) \in 0 .. s
           /\ At(s, AfterRead(s, p, n), i) = At(s, p, n + i)
<1>0. s \in Nat \ {0}
  OBVIOUS
<1>1. AfterRead(s, p, n) \in 0 .. s
  BY <1>0 DEF AfterRead
<1>2. n + i \in 0 .. s /\ i \in 0 .. s
  BY <1>0
<1>3. At(s, AfterRead(s, p, n), i) =
         IF AfterRead(s, p, n) + i < s THEN AfterRead(s, p, n) + i
         ELSE IF AfterRead(s, p, n) + i < s + s
              THEN AfterRead(s, p, n) + i - s ELSE 0
  BY <1>1, <1>2, Wrapped
<1>4. At(s, p, n + i) = IF p + (n + i) < s THEN p + (n + i)
                     ELSE IF p + (n + i) < s + s
                          THEN p + (n + i) - s ELSE 0
  BY <1>2, Wrapped
<1> QED
  BY <1>0, <1>1, <1>3, <1>4 DEF AfterRead

\* The same after a write, whose position is never the end of the buffer; and if
\* it was written where the samples of a ring end, it is where they end now.
LEMMA AfterWriting ==
    ASSUME NEW s \in Nat \ {0}, NEW p \in Cells(s), NEW n \in 0 .. s
    PROVE  /\ AfterWrite(s, p, n) \in Cells(s)
           /\ \A i \in 0 .. s - n :
                  At(s, AfterWrite(s, p, n), i) = At(s, p, n + i)
           /\ \A q \in 0 .. s, a \in 0 .. s - n :
                  At(s, q, a) = p => At(s, q, a + n) = AfterWrite(s, p, n)
<1>0. s \in Nat \ {0}
  OBVIOUS
<1>1. AfterWrite(s, p, n) \in Cells(s)
  BY <1>0 DEF AfterWrite, Cells
<1>2. ASSUME NEW i \in 0 .. s - n
      PROVE  At(s, AfterWrite(s, p, n), i) = At(s, p, n + i)
  <2>1. /\ n + i \in 0 .. s /\ i \in 0 .. s /\ p \in 0 .. s
        /\ AfterWrite(s, p, n) \in 0 .. s
    BY <1>0, <1>1 DEF Cells
  <2>2. At(s, AfterWrite(s, p, n), i) =
           IF AfterWrite(s, p, n) + i < s THEN AfterWrite(s, p, n) + i
           ELSE IF AfterWrite(s, p, n) + i < s + s
                THEN AfterWrite(s, p, n) + i - s ELSE 0
    BY <2>1, Wrapped
  <2>3. At(s, p, n + i) = IF p + (n + i) < s THEN p + (n + i)
                       ELSE IF p + (n + i) < s + s
                            THEN p + (n + i) - s ELSE 0
    BY <2>1, Wrapped
  <2> QED
    BY <1>0, <2>1, <2>2, <2>3 DEF AfterWrite, Cells
<1>3. ASSUME NEW q \in 0 .. s, NEW a \in 0 .. s - n, At(s, q, a) = p
      PROVE  At(s, q, a + n) = AfterWrite(s, p, n)
  <2>1. a + n \in 0 .. s /\ a \in 0 .. s
    BY <1>0
  <2>2. p = IF q + a < s THEN q + a
            ELSE IF q + a < s + s THEN q + a - s ELSE 0
    BY <1>3, <2>1, Wrapped
  <2>3. At(s, q, a + n) = IF q + (a + n) < s THEN q + (a + n)
                       ELSE IF q + (a + n) < s + s
                            THEN q + (a + n) - s ELSE 0
    BY <2>1, Wrapped
  <2> QED
    BY <1>0, <2>1, <2>2, <2>3 DEF AfterWrite, Cells
<1> QED
  BY <1>1, <1>2, <1>3

\* How far the cells with samples, and those behind them, are from the end of
\* the samples: nothing of the former is in reach of a write that finds room.
LEMMA Apart ==
    ASSUME NEW s \in Nat \ {0}, NEW p \in 0 .. s, NEW a \in 0 .. s,
           NEW n \in 0 .. s - a
    PROVE  /\ \A i \in 0 .. a - 1 : Offset(s, At(s, p, a), At(s, p, i)) >= n
           /\ \A j \in 0 .. n - 1 : Offset(s, At(s, p, a), At(s, p, a + j)) = j
<1>0. s \in Nat \ {0}
  OBVIOUS
<1>1. At(s, p, a) = IF p + a < s THEN p + a
                 ELSE IF p + a < s + s THEN p + a - s ELSE 0
  BY Wrapped
<1>2. ASSUME NEW i \in 0 .. a - 1
      PROVE  Offset(s, At(s, p, a), At(s, p, i)) >= n
  <2>1. i \in 0 .. s
    BY <1>0
  <2>2. At(s, p, i) = IF p + i < s THEN p + i
                   ELSE IF p + i < s + s THEN p + i - s ELSE 0
    BY <2>1, Wrapped
  <2> QED
    BY <1>0, <1>1, <2>1, <2>2 DEF Offset
<1>3. ASSUME NEW j \in 0 .. n - 1
      PROVE  Offset(s, At(s, p, a), At(s, p, a + j)) = j
  <2>1. a + j \in 0 .. s
    BY <1>0
  <2>2. At(s, p, a + j) = IF p + (a + j) < s THEN p + (a + j)
                       ELSE IF p + (a + j) < s + s
                            THEN p + (a + j) - s ELSE 0
    BY <2>1, Wrapped
  <2> QED
    BY <1>0, <1>1, <2>1, <2>2 DEF Offset
<1> QED
  BY <1>2, <1>3

LEMMA OffsetInCell ==
    ASSUME NEW s \in Nat \ {0}, NEW p \in Cells(s), NEW c \in Cells(s)
    PROVE  Offset(s, p, c) \in Cells(s)
BY DEF Cells, Offset

\* n cells get the samples after number k: those before them stay what they are.
LEMMA FilledCells ==
    ASSUME NEW s \in Nat \ {0},
           NEW buf \in [Cells(s) -> Sample], NEW k \in Nat,
           NEW p \in 0 .. s, NEW a \in 0 .. s, NEW n \in 0 .. s - a,
           NEW new, new = Filled(s, buf, At(s, p, a), n, k)
    PROVE  /\ new \in [Cells(s) -> Sample]
           /\ \A i \in 0 .. a - 1 : new[At(s, p, i)] = buf[At(s, p, i)]
           /\ \A j \in 0 .. n - 1 : new[At(s, p, a + j)] = k + j + 1
<1>1. s \in Nat \ {0} /\ At(s, p, a) \in Cells(s)
  BY AtInCell
<1>2. ASSUME NEW c \in Cells(s)
      PROVE  k + Offset(s, At(s, p, a), c) + 1 \in Sample
  <2>0. Offset(s, At(s, p, a), c) \in Cells(s)
    BY <1>1, OffsetInCell
  <2>1. Offset(s, At(s, p, a), c) \in Nat
    BY <1>1, <2>0 DEF Cells
  <2> QED
    BY <2>1 DEF Sample
<1>3. ASSUME NEW i \in 0 .. a - 1
      PROVE  /\ At(s, p, i) \in Cells(s)
             /\ ~ (Offset(s, At(s, p, a), At(s, p, i)) < n)
  <2>1. i \in 0 .. s /\ n \in Int
    BY <1>1
  <2>2. At(s, p, i) \in Cells(s)
    BY <2>1, AtInCell
  <2>3. Offset(s, At(s, p, a), At(s, p, i)) \in Int
    BY <1>1, <2>2, OffsetInCell DEF Cells
  <2>4. Offset(s, At(s, p, a), At(s, p, i)) >= n
    BY Apart
  <2> QED
    BY <2>1, <2>2, <2>3, <2>4
<1>4. ASSUME NEW j \in 0 .. n - 1
      PROVE  /\ At(s, p, a + j) \in Cells(s) /\ j < n
             /\ Offset(s, At(s, p, a), At(s, p, a + j)) = j
  <2>1. a + j \in 0 .. s /\ j < n
    BY <1>1
  <2> QED
    BY <2>1, AtInCell, Apart
<1> QED
  BY <1>2, <1>3, <1>4 DEF Filled

\* The same while they are being written.
LEMMA BlurredCells ==
    ASSUME NEW s \in Nat \ {0}, NEW buf \in [Cells(s) -> Sample],
           NEW p \in 0 .. s, NEW a \in 0 .. s, NEW n \in 0 .. s - a
    PROVE  LET new == Blurred(s, buf, At(s, p, a), n) IN
           /\ new \in [Cells(s) -> Sample]
           /\ \A i \in 0 .. a - 1 : new[At(s, p, i)] = buf[At(s, p, i)]
<1>1. s \in Nat \ {0} /\ At(s, p, a) \in Cells(s)
  BY AtInCell
<1>2. ASSUME NEW i \in 0 .. a - 1
      PROVE  /\ At(s, p, i) \in Cells(s)
             /\ ~ (Offset(s, At(s, p, a), At(s, p, i)) < n)
  <2>1. i \in 0 .. s /\ n \in Int
    BY <1>1
  <2>2. At(s, p, i) \in Cells(s)
    BY <2>1, AtInCell
  <2>3. Offset(s, At(s, p, a), At(s, p, i)) \in Int
    BY <1>1, <2>2, OffsetInCell DEF Cells
  <2>4. Offset(s, At(s, p, a), At(s, p, i)) >= n
    BY Apart
  <2> QED
    BY <2>1, <2>2, <2>3, <2>4
<1> QED
  BY <1>2 DEF Blurred, Sample

\* A sequence given by a function on its places.
LEMMA AsSequence ==
    ASSUME NEW S, NEW n \in Nat, NEW f \in [1 .. n -> S]
    PROVE  f \in Seq(S) /\ Len(f) = n
OBVIOUS

\* What a copy out of a ring is.
LEMMA Copied ==
    ASSUME NEW s \in Nat \ {0}, NEW buf \in [Cells(s) -> Sample],
           NEW p \in 0 .. s, NEW n \in 0 .. s
    PROVE  /\ Copy(s, buf, p, n) \in Seq(Sample)
           /\ Len(Copy(s, buf, p, n)) = n
           /\ \A i \in 1 .. n : Copy(s, buf, p, n)[i] = buf[At(s, p, i - 1)]
<1>1. n \in Nat /\ \A i \in 1 .. n : At(s, p, i - 1) \in Cells(s)
  BY AtInCell
<1>2. Copy(s, buf, p, n) \in [1 .. n -> Sample]
  BY <1>1 DEF Copy
<1>3. Copy(s, buf, p, n) \in Seq(Sample) /\ Len(Copy(s, buf, p, n)) = n
  BY <1>1, <1>2, AsSequence
<1> QED
  BY <1>3 DEF Copy

LEMMA SameCells ==
    ASSUME NEW s \in Nat \ {0}, NEW buf, NEW new,
           NEW p \in 0 .. s, NEW a \in 0 .. s,
           \A i \in 0 .. a - 1 : new[At(s, p, i)] = buf[At(s, p, i)]
    PROVE  Copy(s, new, p, a) = Copy(s, buf, p, a)
<1>1. s \in Nat
  OBVIOUS
<1>2. \A i \in 1 .. a : i - 1 \in 0 .. a - 1
  BY <1>1
<1>3. \A i \in 1 .. a : new[At(s, p, i - 1)] = buf[At(s, p, i - 1)]
  BY <1>2
<1> QED
  BY <1>3 DEF Copy

\* The n samples after number k.
After(k, n) == [i \in 1 .. n |-> k + i]

\* What is written behind the samples of a ring comes after them.
LEMMA QueueGrows ==
    ASSUME NEW s \in Nat \ {0},
           NEW buf \in [Cells(s) -> Sample], NEW k \in Nat,
           NEW p \in 0 .. s, NEW a \in 0 .. s, NEW n \in 0 .. s - a
    PROVE  Copy(s, Filled(s, buf, At(s, p, a), n, k), p, a + n)
               = Copy(s, buf, p, a) \o After(k, n)
<1> DEFINE new  == Filled(s, buf, At(s, p, a), n, k)
           old  == Copy(s, buf, p, a)
           more == [i \in 1 .. n |-> k + i]
<1>0. /\ s \in Nat /\ n \in 0 .. s /\ n \in Nat
      /\ a + n \in 0 .. s /\ a \in Nat
  OBVIOUS
<1>1. /\ new \in [Cells(s) -> Sample]
      /\ \A i \in 0 .. a - 1 : new[At(s, p, i)] = buf[At(s, p, i)]
      /\ \A j \in 0 .. n - 1 : new[At(s, p, a + j)] = k + j + 1
  <2> HIDE DEF new
  <2>1. new = Filled(s, buf, At(s, p, a), n, k)
    BY DEF new
  <2>2. new \in [Cells(s) -> Sample]
    BY <2>1, FilledCells
  <2>3. \A i \in 0 .. a - 1 : new[At(s, p, i)] = buf[At(s, p, i)]
    BY <2>1, FilledCells
  <2>4. \A j \in 0 .. n - 1 : new[At(s, p, a + j)] = k + j + 1
    BY <2>1, FilledCells
  <2> QED
    BY <2>2, <2>3, <2>4
<1>2. /\ Copy(s, new, p, a + n) \in Seq(Sample)
      /\ Len(Copy(s, new, p, a + n)) = a + n
      /\ \A i \in 1 .. a + n : Copy(s, new, p, a + n)[i] = new[At(s, p, i - 1)]
  BY <1>0, <1>1, Copied
<1>3. /\ old \in Seq(Sample)
      /\ Len(old) = a
      /\ \A i \in 1 .. a : old[i] = buf[At(s, p, i - 1)]
  BY Copied
<1>4. more \in [1 .. n -> Sample]
  <2>1. \A i \in 1 .. n : k + i \in Sample
    BY DEF Sample
  <2> QED
    BY <2>1
<1>5. more \in Seq(Sample) /\ Len(more) = n
  BY <1>0, <1>4, AsSequence
<1>6. /\ old \o more \in Seq(Sample)
      /\ Len(old \o more) = a + n
      /\ \A i \in 1 .. a + n :
             (old \o more)[i] = IF i <= a THEN old[i] ELSE more[i - a]
  <2> HIDE DEF new, old, more
  <2> QED
    BY <1>3, <1>5, ConcatProperties
<1>7. ASSUME NEW i \in 1 .. a + n
      PROVE  Copy(s, new, p, a + n)[i] = (old \o more)[i]
  <2>1. CASE i <= a
    <3>1. i \in 1 .. a /\ i - 1 \in 0 .. a - 1
      BY <1>0, <2>1
    <3> HIDE DEF new, old, more
    <3> QED
      BY <1>1, <1>2, <1>3, <1>6, <2>1, <3>1
  <2>2. CASE i > a
    <3>1. /\ i - a - 1 \in 0 .. n - 1
          /\ i - 1 = a + (i - a - 1)
          /\ i - a \in 1 .. n
          /\ ~ (i <= a)
          /\ k + (i - a - 1) + 1 = k + (i - a)
      BY <1>0, <2>2
    <3>2. more[i - a] = k + (i - a)
      BY <3>1
    <3>3. new[At(s, p, i - 1)] = k + (i - a - 1) + 1
      <4> HIDE DEF new
      <4> QED
        BY <1>1, <3>1
    <3> HIDE DEF new, old, more
    <3> QED
      BY <1>2, <1>6, <3>1, <3>2, <3>3
  <2>3. i <= a \/ i > a
    BY <1>0
  <2> QED
    BY <2>1, <2>2, <2>3
<1> HIDE DEF new, old, more
<1>8. Copy(s, new, p, a + n) = old \o more
  BY <1>2, <1>6, <1>7, SeqEqual
<1> QED
  BY <1>8 DEF new, old, more, After

\* What is read is the front of the ring, and the rest is what is left.
LEMMA QueueShrinks ==
    ASSUME NEW s \in Nat \ {0}, NEW buf \in [Cells(s) -> Sample],
           NEW p \in 0 .. s, NEW a \in 0 .. s, NEW n \in 1 .. a
    PROVE  LET queue == Copy(s, buf, p, a) IN
           /\ Copy(s, buf, p, n) = SubSeq(queue, 1, n)
           /\ Copy(s, buf, AfterRead(s, p, n), a - n)
                  = SubSeq(queue, n + 1, Len(queue))
<1> DEFINE queue == Copy(s, buf, p, a)
           rest  == Copy(s, buf, AfterRead(s, p, n), a - n)
<1>0. /\ s \in Nat /\ n \in 0 .. s /\ a - n \in 0 .. s
      /\ n \in Nat /\ a \in Nat
  OBVIOUS
<1>1. /\ queue \in Seq(Sample) /\ Len(queue) = a
      /\ \A i \in 1 .. a : queue[i] = buf[At(s, p, i - 1)]
  BY Copied
<1>2. /\ Copy(s, buf, p, n) \in Seq(Sample) /\ Len(Copy(s, buf, p, n)) = n
      /\ \A i \in 1 .. n : Copy(s, buf, p, n)[i] = buf[At(s, p, i - 1)]
  BY <1>0, Copied
<1>3. AfterRead(s, p, n) \in 0 .. s
      /\ \A i \in 0 .. s - n : At(s, AfterRead(s, p, n), i) = At(s, p, n + i)
  <2>1. 0 \in 0 .. s - n
    BY <1>0
  <2> QED
    BY <1>0, <2>1, AtPlaces
<1>4. /\ rest \in Seq(Sample) /\ Len(rest) = a - n
      /\ \A i \in 1 .. a - n : rest[i] = buf[At(s, AfterRead(s, p, n), i - 1)]
  BY <1>0, <1>3, Copied
<1> HIDE DEF queue, rest
<1>5. \A i \in 1 .. a : queue[i] \in Sample
  BY <1>1, ElementOfSeq
<1>6. Copy(s, buf, p, n) = SubSeq(queue, 1, n)
  <2>1. \A i \in 1 .. n : queue[i] \in Sample
    BY <1>0, <1>5
  <2>2. /\ SubSeq(queue, 1, n) \in Seq(Sample)
        /\ Len(SubSeq(queue, 1, n)) = n
        /\ \A i \in 1 .. n : SubSeq(queue, 1, n)[i] = queue[i]
    <3>1. 1 <= n /\ n - 1 + 1 = n /\ 1 \in Int /\ n \in Int
          /\ \A i \in 1 .. n : 1 + i - 1 = i
      BY <1>0
    <3> QED
      BY <2>1, <3>1, SubSeqProperties
  <2>3. \A i \in 1 .. n : i \in 1 .. a
    BY <1>0
  <2>4. \A i \in 1 .. n : Copy(s, buf, p, n)[i] = SubSeq(queue, 1, n)[i]
    BY <1>1, <1>2, <2>2, <2>3
  <2> QED
    BY <1>2, <2>2, <2>4, SeqEqual
<1>7. rest = SubSeq(queue, n + 1, a)
  <2>1. \A i \in n + 1 .. a : queue[i] \in Sample
    BY <1>0, <1>5
  <2>2. /\ SubSeq(queue, n + 1, a) \in Seq(Sample)
        /\ Len(SubSeq(queue, n + 1, a)) = a - n
        /\ \A i \in 1 .. a - n : SubSeq(queue, n + 1, a)[i] = queue[n + i]
    <3>1. /\ n + 1 \in Int /\ a \in Int /\ a - (n + 1) + 1 = a - n
          /\ n + 1 <= a \/ a - n = 0
          /\ \A i \in 1 .. a - n : n + 1 + i - 1 = n + i
      BY <1>0
    <3>2. /\ SubSeq(queue, n + 1, a) \in Seq(Sample)
          /\ Len(SubSeq(queue, n + 1, a))
                 = IF n + 1 <= a THEN a - (n + 1) + 1 ELSE 0
          /\ \A i \in 1 .. a - (n + 1) + 1 :
                 SubSeq(queue, n + 1, a)[i] = queue[n + 1 + i - 1]
      BY <2>1, <3>1, SubSeqProperties
    <3> QED
      BY <3>1, <3>2
  <2>3. ASSUME NEW i \in 1 .. a - n
        PROVE  rest[i] = SubSeq(queue, n + 1, a)[i]
    <3>1. /\ i - 1 \in 0 .. s - n /\ n + i \in 1 .. a
          /\ n + (i - 1) = n + i - 1
      BY <1>0
    <3>2. rest[i] = buf[At(s, p, n + i - 1)]
      BY <1>3, <1>4, <3>1
    <3>3. queue[n + i] = buf[At(s, p, n + i - 1)]
      BY <1>1, <3>1
    <3> QED
      BY <2>2, <3>2, <3>3
  <2> QED
    BY <1>4, <2>2, <2>3, SeqEqual
<1>8. n \in 1 .. a
  OBVIOUS
<1> QED
  BY <1>1, <1>6, <1>7 DEF queue, rest

-----------------------------------------------------------------------------
(* Types                                                                   *)

LEMMA Sizes ==
    /\ OutSize \in Nat \ {0} /\ OutChunk \in 1 .. OutSize
    /\ InSize \in Nat \ {0}  /\ InChunk \in 1 .. InSize
BY AudioConstants

\* The room there is for what is about to be written to the output ring.
LEMMA RoomToMix ==
    ASSUME AudioInv, pc \in {"mix", "mixing"}
    PROVE  /\ toWrite \in 0 .. OutSize - outAvail
           /\ wpos = At(OutSize, outRpos, outAvail)
           /\ pc = "mixing" => toWrite # 0
BY Sizes DEF AudioInv, TypeOK, OutOK

LEMMA TypesInit == Init => TypeOK
<1> SUFFICES ASSUME Init PROVE TypeOK
  OBVIOUS
<1>1. /\ 0 \in Cells(OutSize) /\ 0 \in Cells(InSize) /\ 0 \in Sample
      /\ 0 \in 0 .. OutSize /\ OutSize \in 0 .. OutSize /\ 0 \in 0 .. InSize
  BY Sizes DEF Cells, Sample
<1> QED
  BY <1>1 DEF Init, TypeOK

LEMMA TypesStep ==
    ASSUME AudioInv, [Next]_vars
    PROVE  TypeOK'
<1> DEFINE Goal == TypeOK'
<1>a. TypeOK
  BY DEF AudioInv
<1>b. /\ OutSize \in Nat \ {0} /\ OutChunk \in 1 .. OutSize
      /\ InSize \in Nat \ {0} /\ InChunk \in 1 .. InSize
  BY Sizes
<1>c. /\ toWorklet \in Seq({"start", "stop"})
      /\ toWorklet # <<>> => Tail(toWorklet) \in Seq({"start", "stop"})
  BY <1>a, HeadTailProperties DEF TypeOK
<1> USE DEF workletVars, outRing, inRing, engineVars, pageVars, historyVars
<1>1. ASSUME Start PROVE Goal
  <2>1. toWorklet' \in Seq({"start", "stop"})
    BY <1>1, <1>c, AppendProperties DEF Start
  <2> QED
    BY <1>1, <1>a, <2>1 DEF Start, TypeOK
<1>2. ASSUME Stop PROVE Goal
  <2>1. toWorklet' \in Seq({"start", "stop"})
    BY <1>2, <1>c, AppendProperties DEF Stop
  <2> QED
    BY <1>2, <1>a, <2>1 DEF Stop, TypeOK
<1>3. ASSUME ParseStart PROVE Goal
  BY <1>3, <1>a, <1>c DEF ParseStart, Handle, TypeOK
<1>4. ASSUME ParseStop PROVE Goal
  BY <1>4, <1>a, <1>c DEF ParseStop, Handle, TypeOK
<1>5. ASSUME BeginRecord PROVE Goal
  <2>1. inBuf' = Blurred(InSize, inBuf, inWpos, InChunk)
    BY <1>5 DEF BeginRecord
  <2>2. inBuf' \in [Cells(InSize) -> Sample]
    BY <1>a, <2>1 DEF Blurred, Sample, TypeOK
  <2> QED
    BY <1>5, <1>a, <2>2 DEF BeginRecord, TypeOK
<1>6. ASSUME EndRecord PROVE Goal
  <2>1. /\ inBuf' = Filled(InSize, inBuf, At(InSize, rpos, inAvail), InChunk,
                           spoken)
        /\ inWpos' = AfterWrite(InSize, inWpos, InChunk)
        /\ inAvail' = inAvail + InChunk
        /\ spoken' = spoken + InChunk
        /\ inAvail + InChunk <= InSize
    BY <1>6 DEF EndRecord, AudioInv, InOK
  <2>2. /\ InChunk \in 0 .. InSize - inAvail /\ InChunk \in 0 .. InSize
        /\ rpos \in 0 .. InSize
        /\ inAvail' \in 0 .. InSize /\ spoken' \in Nat
    BY <1>a, <1>b, <2>1 DEF TypeOK, Cells
  <2>3. inBuf' \in [Cells(InSize) -> Sample]
    BY <1>a, <1>b, <2>1, <2>2, FilledCells DEF TypeOK
  <2>4. inWpos' \in Cells(InSize)
    BY <1>a, <1>b, <2>1, <2>2, AfterWriting DEF TypeOK
  <2> QED
    BY <1>6, <1>a, <2>2, <2>3, <2>4 DEF EndRecord, TypeOK
<1>7. ASSUME SkipRecord PROVE Goal
  BY <1>7, <1>a DEF SkipRecord, TypeOK
<1>8. ASSUME BeginRead PROVE Goal
  BY <1>8, <1>a DEF BeginRead, TypeOK
<1>9. ASSUME SkipRead PROVE Goal
  BY <1>9, <1>a DEF SkipRead, TypeOK
<1>10. ASSUME EndRead PROVE Goal
  <2>1. /\ outAvail >= OutChunk /\ outRpos \in 0 .. OutSize
        /\ OutChunk \in 0 .. OutSize /\ 0 \in 0 .. OutSize - OutChunk
    BY <1>10, <1>a, <1>b DEF EndRead, AudioInv, OutOK, TypeOK
  <2>2. out' \in Seq(Sample)
    BY <1>10, <1>a, <1>b, <2>1, Copied DEF EndRead, TypeOK
  <2>3. outRpos' \in 0 .. OutSize
    BY <1>10, <1>b, <2>1, AtPlaces DEF EndRead
  <2>4. outAvail' \in 0 .. OutSize /\ played' \in Nat
    BY <1>10, <1>a, <1>b, <2>1 DEF EndRead, TypeOK
  <2> QED
    BY <1>10, <1>a, <2>2, <2>3, <2>4 DEF EndRead, TypeOK
<1>11. ASSUME BeginCapture PROVE Goal
  BY <1>11, <1>a DEF BeginCapture, TypeOK
<1>12. ASSUME EndCapture PROVE Goal
  <2>1. toRead <= inAvail
    BY <1>12 DEF EndCapture, AudioInv, InOK
  <2>2. inAvail' \in 0 .. InSize /\ rpos \in 0 .. InSize
    BY <1>12, <1>a, <1>b, <2>1 DEF EndCapture, TypeOK, Cells
  <2>3. captured' \in Seq(Sample)
    BY <1>12, <1>a, <1>b, <2>2, Copied DEF EndCapture, TypeOK
  <2>4. rpos' \in Cells(InSize)
    BY <1>12, <1>a, <1>b, AfterWriting DEF EndCapture, TypeOK
  <2> QED
    BY <1>12, <1>a, <2>2, <2>3, <2>4 DEF EndCapture, TypeOK
<1>13. ASSUME BeginMix PROVE Goal
  <2>1. outBuf' = Blurred(OutSize, outBuf, wpos, toWrite)
    BY <1>13 DEF BeginMix
  <2>2. outBuf' \in [Cells(OutSize) -> Sample]
    BY <1>a, <2>1 DEF Blurred, Sample, TypeOK
  <2> QED
    BY <1>13, <1>a, <2>2 DEF BeginMix, TypeOK
<1>14. ASSUME EndMix PROVE Goal
  <2>1. /\ toWrite \in 0 .. OutSize - outAvail
        /\ wpos = At(OutSize, outRpos, outAvail)
    BY <1>14, RoomToMix DEF EndMix
  <2>2. outBuf' \in [Cells(OutSize) -> Sample]
    BY <1>14, <1>a, <1>b, <2>1, FilledCells DEF EndMix, TypeOK
  <2>3. wpos' \in Cells(OutSize)
    BY <1>14, <1>a, <1>b, AfterWriting DEF EndMix, TypeOK
  <2>4. outAvail' \in 0 .. OutSize /\ mixed' \in Nat
    BY <1>14, <1>a, <1>b, <2>1 DEF EndMix, TypeOK
  <2> QED
    BY <1>14, <1>a, <2>2, <2>3, <2>4 DEF EndMix, TypeOK
<1>15. ASSUME Wait PROVE Goal
  <2>1. toWrite' \in 0 .. OutSize
    BY <1>15, <1>a, <1>b DEF Wait, TypeOK
  <2> QED
    BY <1>15, <1>a, <2>1 DEF Wait, TypeOK
<1>16. ASSUME Peek PROVE Goal
  BY <1>16, <1>a DEF Peek, TypeOK
<1>17. CASE UNCHANGED vars
  BY <1>17, <1>a DEF vars, TypeOK
<1> QED
  BY <1>1, <1>2, <1>3, <1>4, <1>5, <1>6, <1>7, <1>8, <1>9, <1>10, <1>11,
     <1>12, <1>13, <1>14, <1>15, <1>16, <1>17 DEF Next, Worklet, Engine

-----------------------------------------------------------------------------
(* The output ring                                                         *)

\* What a read leaves: the end of the samples stays where it was.
LEMMA ReadKeepsEnd ==
    ASSUME AudioInv, EndRead
    PROVE  /\ outAvail >= OutChunk /\ outAvail' = outAvail - OutChunk
           /\ At(OutSize, outRpos', outAvail') = At(OutSize, outRpos, outAvail)
<1>1. /\ outAvail >= OutChunk /\ outAvail' = outAvail - OutChunk
      /\ outRpos' = AfterRead(OutSize, outRpos, OutChunk)
      /\ outAvail \in 0 .. OutSize /\ outRpos \in 0 .. OutSize
  BY DEF EndRead, AudioInv, OutOK, TypeOK
<1>2. /\ OutSize \in Nat \ {0} /\ OutChunk \in 0 .. OutSize
      /\ outAvail - OutChunk \in 0 .. OutSize - OutChunk
      /\ OutChunk + (outAvail - OutChunk) = outAvail
  BY <1>1, Sizes
<1>3. At(OutSize, AfterRead(OutSize, outRpos, OutChunk), outAvail - OutChunk)
          = At(OutSize, outRpos, OutChunk + (outAvail - OutChunk))
  BY <1>1, <1>2, AtPlaces
<1> QED
  BY <1>1, <1>2, <1>3

LEMMA OutStep ==
    ASSUME AudioInv, [Next]_vars
    PROVE  OutOK'
<1> DEFINE Goal == OutOK'
<1>a. TypeOK /\ OutOK
  BY DEF AudioInv
<1>b. /\ OutSize \in Nat \ {0} /\ OutChunk \in 1 .. OutSize
      /\ outAvail \in 0 .. OutSize /\ toWrite \in 0 .. OutSize
  BY <1>a, Sizes DEF TypeOK
<1> USE DEF workletVars, outRing, inRing, engineVars, pageVars, historyVars
<1>1. ASSUME Start PROVE Goal
  <2>1. /\ pc = "off" /\ pc' = "mix" /\ asked' = "start"
        /\ UNCHANGED <<outRpos, outAvail, wpos, toWrite, step>>
    BY <1>1, <1>a DEF Start, OutOK
  <2> QED
    BY <1>a, <2>1 DEF OutOK
<1>2. ASSUME Stop \/ ParseStart \/ ParseStop PROVE Goal
  <2>1. /\ UNCHANGED <<outRpos, outAvail, wpos, toWrite, step, pc>>
        /\ asked' = "no" => asked = "no"
    BY <1>2 DEF Stop, ParseStart, ParseStop
  <2> QED
    BY <1>a, <2>1 DEF OutOK
<1>3. ASSUME BeginRecord \/ EndRecord \/ SkipRecord \/ SkipRead PROVE Goal
  <2>1. /\ UNCHANGED <<outRpos, outAvail, wpos, toWrite, pc, asked>>
        /\ step' # "reading"
    BY <1>3 DEF BeginRecord, EndRecord, SkipRecord, SkipRead
  <2> QED
    BY <1>a, <2>1 DEF OutOK
<1>4. ASSUME BeginRead PROVE Goal
  <2>1. /\ UNCHANGED <<outRpos, outAvail, wpos, toWrite, pc, asked>>
        /\ outAvail >= OutChunk
    BY <1>4 DEF BeginRead
  <2> QED
    BY <1>a, <2>1 DEF OutOK
<1>5. ASSUME EndRead PROVE Goal
  <2>1. /\ outAvail' = outAvail - OutChunk
        /\ At(OutSize, outRpos', outAvail') = At(OutSize, outRpos, outAvail)
    BY <1>5, ReadKeepsEnd
  <2>2. UNCHANGED <<wpos, toWrite, pc, asked>> /\ step' = "idle"
    BY <1>5 DEF EndRead
  <2>3. toWrite <= OutSize - outAvail => toWrite' <= OutSize - outAvail'
    BY <1>b, <2>1, <2>2
  <2> QED
    BY <1>a, <2>1, <2>2, <2>3 DEF OutOK
<1>6. ASSUME EndMix PROVE Goal
  <2>1. /\ toWrite \in 0 .. OutSize - outAvail
        /\ wpos = At(OutSize, outRpos, outAvail) /\ wpos \in Cells(OutSize)
        /\ outRpos \in 0 .. OutSize
    BY <1>6, <1>a, RoomToMix DEF EndMix, TypeOK
  <2>2. toWrite \in 0 .. OutSize /\ outAvail \in 0 .. OutSize - toWrite
    BY <1>b, <2>1
  <2>3. At(OutSize, outRpos, outAvail + toWrite)
            = AfterWrite(OutSize, wpos, toWrite)
    BY <1>b, <2>1, <2>2, AfterWriting
  <2>4. /\ pc' = "wait" /\ asked' # "no" /\ outAvail' = outAvail + toWrite
        /\ wpos' = AfterWrite(OutSize, wpos, toWrite)
        /\ UNCHANGED <<outRpos, step>>
    BY <1>6, <1>a DEF EndMix, OutOK
  <2>5. step' = "reading" => outAvail' >= OutChunk
    BY <1>a, <1>b, <2>4 DEF OutOK
  <2> QED
    BY <2>3, <2>4, <2>5 DEF OutOK
<1>7. ASSUME Wait PROVE Goal
  <2>1. /\ toWrite' <= OutSize - outAvail' /\ pc' = "peek" /\ asked' # "no"
        /\ UNCHANGED <<outRpos, outAvail, wpos, step>>
    BY <1>7, <1>a, <1>b DEF Wait, OutOK
  <2> QED
    BY <1>a, <2>1 DEF OutOK
<1>8. ASSUME BeginCapture \/ EndCapture \/ BeginMix \/ Peek PROVE Goal
  <2>1. /\ UNCHANGED <<outRpos, outAvail, wpos, toWrite, asked, step>>
        /\ pc # "off" /\ pc # "wait"
        /\ pc' = "mixing" => toWrite # 0
    BY <1>8, <1>b DEF BeginCapture, EndCapture, BeginMix, Peek
  <2> QED
    BY <1>a, <2>1 DEF OutOK
<1>9. CASE UNCHANGED vars
  BY <1>9, <1>a DEF vars, OutOK
<1> QED
  BY <1>1, <1>2, <1>3, <1>4, <1>5, <1>6, <1>7, <1>8, <1>9
     DEF Next, Worklet, Engine

-----------------------------------------------------------------------------
(* The input ring                                                          *)

LEMMA InKept ==
    ASSUME InOK, UNCHANGED <<rpos, inAvail, inWpos, spoken, inBuf, toRead>>,
           pc' \in {"capture", "capturing"} => pc \in {"capture", "capturing"},
           step' = "recording" => step = "recording"
    PROVE  InOK'
BY DEF InOK

LEMMA InStep ==
    ASSUME AudioInv, [Next]_vars
    PROVE  InOK'
<1> DEFINE Goal == InOK'
<1>a. TypeOK /\ InOK
  BY DEF AudioInv
<1>b. /\ InSize \in Nat \ {0} /\ InChunk \in 1 .. InSize
      /\ rpos \in Cells(InSize) /\ rpos \in 0 .. InSize
      /\ inAvail \in 0 .. InSize /\ toRead \in 0 .. InSize
      /\ inWpos \in Cells(InSize) /\ spoken \in Nat
      /\ inBuf \in [Cells(InSize) -> Sample]
  BY <1>a, Sizes DEF TypeOK, Cells
<1>c. /\ At(InSize, rpos, inAvail) = inWpos /\ inAvail <= spoken
      /\ \A i \in 0 .. inAvail - 1 :
             inBuf[At(InSize, rpos, i)] = spoken - inAvail + i + 1
  BY <1>a DEF InOK
<1> USE DEF workletVars, outRing, inRing, engineVars, pageVars, historyVars
<1>1. ASSUME Start \/ Stop \/ ParseStart \/ ParseStop PROVE Goal
  <2>1. /\ UNCHANGED <<rpos, inAvail, inWpos, spoken, inBuf, toRead, step>>
        /\ pc' \in {pc, "mix"}
    BY <1>1 DEF Start, Stop, ParseStart, ParseStop
  <2> QED
    BY <1>a, <2>1, InKept
<1>2. ASSUME SkipRecord \/ BeginRead \/ SkipRead \/ EndRead PROVE Goal
  <2>1. /\ UNCHANGED <<rpos, inAvail, inWpos, spoken, inBuf, toRead, pc>>
        /\ step' # "recording"
    BY <1>2 DEF SkipRecord, BeginRead, SkipRead, EndRead
  <2> QED
    BY <1>a, <2>1, InKept
<1>3. ASSUME BeginRecord PROVE Goal
  <2>1. /\ UNCHANGED <<rpos, inAvail, inWpos, spoken, toRead, pc>>
        /\ inBuf' = Blurred(InSize, inBuf, At(InSize, rpos, inAvail), InChunk)
        /\ inAvail + InChunk <= InSize
    BY <1>3, <1>b, <1>c DEF BeginRecord
  <2>2. InChunk \in 0 .. InSize - inAvail
    BY <1>b, <2>1
  <2>3. \A i \in 0 .. inAvail - 1 :
            inBuf'[At(InSize, rpos, i)] = inBuf[At(InSize, rpos, i)]
    BY <1>b, <2>1, <2>2, BlurredCells
  <2>4. \A i \in 0 .. inAvail - 1 :
            inBuf'[At(InSize, rpos, i)] = spoken - inAvail + i + 1
    BY <1>c, <2>3
  <2> QED
    BY <1>a, <1>c, <2>1, <2>4 DEF InOK
<1>4. ASSUME EndRecord PROVE Goal
  <2>1. /\ UNCHANGED <<rpos, toRead, pc>> /\ step' = "output"
        /\ inBuf' = Filled(InSize, inBuf, At(InSize, rpos, inAvail), InChunk,
                           spoken)
        /\ inWpos' = AfterWrite(InSize, inWpos, InChunk)
        /\ inAvail' = inAvail + InChunk /\ spoken' = spoken + InChunk
        /\ inAvail + InChunk <= InSize
    BY <1>4, <1>a, <1>c DEF EndRecord, InOK
  <2>2. /\ InChunk \in 0 .. InSize /\ InChunk \in 0 .. InSize - inAvail
        /\ inAvail \in 0 .. InSize - InChunk
    BY <1>b, <2>1
  <2>3. At(InSize, rpos, inAvail + InChunk)
            = AfterWrite(InSize, inWpos, InChunk)
    BY <1>b, <1>c, <2>2, AfterWriting
  <2>4. /\ \A i \in 0 .. inAvail - 1 :
               inBuf'[At(InSize, rpos, i)] = inBuf[At(InSize, rpos, i)]
        /\ \A j \in 0 .. InChunk - 1 :
               inBuf'[At(InSize, rpos, inAvail + j)] = spoken + j + 1
    BY <1>b, <2>1, <2>2, FilledCells
  <2>5. ASSUME NEW i \in 0 .. inAvail' - 1
        PROVE  inBuf'[At(InSize, rpos', i)] = spoken' - inAvail' + i + 1
    <3>1. spoken' - inAvail' = spoken - inAvail
      BY <1>b, <2>1
    <3>2. CASE i < inAvail
      <4>1. i \in 0 .. inAvail - 1
        BY <1>b, <3>2
      <4>2. inBuf'[At(InSize, rpos, i)] = spoken - inAvail + i + 1
        BY <1>c, <2>4, <4>1
      <4> QED
        BY <2>1, <3>1, <4>2
    <3>3. CASE i >= inAvail
      <4>1. /\ i - inAvail \in 0 .. InChunk - 1
            /\ inAvail + (i - inAvail) = i
            /\ spoken + (i - inAvail) + 1 = spoken - inAvail + i + 1
        BY <1>b, <2>1, <3>3
      <4>2. inBuf'[At(InSize, rpos, inAvail + (i - inAvail))]
                = spoken + (i - inAvail) + 1
        BY <2>4, <4>1
      <4> QED
        BY <2>1, <3>1, <4>1, <4>2
    <3> QED
      BY <1>b, <3>2, <3>3
  <2>6. inAvail' <= spoken' /\ At(InSize, rpos', inAvail') = inWpos'
    BY <1>b, <1>c, <2>1, <2>3
  <2>7. pc' \in {"capture", "capturing"} => toRead' <= inAvail'
    BY <1>a, <1>b, <2>1 DEF InOK
  <2> QED
    BY <2>1, <2>5, <2>6, <2>7 DEF InOK
<1>5. ASSUME EndCapture PROVE Goal
  <2>1. /\ UNCHANGED <<inBuf, inWpos, spoken, step>> /\ pc' = "mix"
        /\ inAvail' = inAvail - toRead /\ toRead <= inAvail
        /\ rpos' = AfterWrite(InSize, rpos, toRead)
    BY <1>5, <1>a DEF EndCapture, InOK
  <2>2. \A i \in 0 .. InSize - toRead :
            At(InSize, rpos', i) = At(InSize, rpos, toRead + i)
    BY <1>b, <2>1, AfterWriting
  <2>3. /\ inAvail' \in 0 .. InSize - toRead /\ toRead + inAvail' = inAvail
    BY <1>b, <2>1
  <2>4. At(InSize, rpos', inAvail') = inWpos'
    BY <1>c, <2>1, <2>2, <2>3
  <2>5. ASSUME NEW i \in 0 .. inAvail' - 1
        PROVE  inBuf'[At(InSize, rpos', i)] = spoken' - inAvail' + i + 1
    <3>1. /\ i \in 0 .. InSize - toRead /\ toRead + i \in 0 .. inAvail - 1
          /\ spoken - inAvail + (toRead + i) + 1 = spoken' - inAvail' + i + 1
      BY <1>b, <2>1, <2>3
    <3>2. inBuf[At(InSize, rpos, toRead + i)]
              = spoken - inAvail + (toRead + i) + 1
      BY <1>c, <3>1
    <3> QED
      BY <2>1, <2>2, <3>1, <3>2
  <2>6. inAvail' <= spoken'
    BY <1>b, <1>c, <2>1
  <2>7. step' = "recording" => inAvail' + InChunk <= InSize
    BY <1>a, <1>b, <2>1 DEF InOK
  <2> QED
    BY <2>1, <2>4, <2>5, <2>6, <2>7 DEF InOK
<1>6. ASSUME Peek PROVE Goal
  <2>1. /\ UNCHANGED <<rpos, inAvail, inWpos, spoken, inBuf, step>>
        /\ toRead' = inAvail
    BY <1>6 DEF Peek
  <2> QED
    BY <1>a, <1>b, <2>1 DEF InOK
<1>7. ASSUME BeginCapture \/ BeginMix \/ EndMix \/ Wait PROVE Goal
  <2>1. /\ UNCHANGED <<rpos, inAvail, inWpos, spoken, inBuf, toRead, step>>
        /\ pc' \in {"capture", "capturing"} => pc \in {"capture", "capturing"}
    BY <1>7 DEF BeginCapture, BeginMix, EndMix, Wait
  <2> QED
    BY <1>a, <2>1, InKept
<1>8. CASE UNCHANGED vars
  BY <1>8, <1>a, InKept DEF vars
<1> QED
  BY <1>1, <1>2, <1>3, <1>4, <1>5, <1>6, <1>7, <1>8 DEF Next, Worklet, Engine

-----------------------------------------------------------------------------
(* The theorems                                                            *)

LEMMA AtStart == ASSUME NEW s \in Nat \ {0} PROVE At(s, 0, 0) = 0
<1>1. 0 \in 0 .. s /\ 0 + 0 < s /\ 0 + 0 = 0
  OBVIOUS
<1> QED
  BY <1>1, Wrapped

LEMMA AudioInit == Init => AudioInv
<1> SUFFICES ASSUME Init PROVE AudioInv
  OBVIOUS
<1>1. /\ OutSize \in Nat /\ OutSize - 0 = OutSize
      /\ At(OutSize, 0, 0) = 0 /\ At(InSize, 0, 0) = 0
  BY Sizes, AtStart
<1> QED
  BY <1>1, TypesInit DEF Init, AudioInv, OutOK, InOK

LEMMA AudioStep == AudioInv /\ [Next]_vars => AudioInv'
BY TypesStep, OutStep, InStep DEF AudioInv

LEMMA AudioHolds == Spec => []AudioInv
BY AudioInit, AudioStep, PTL DEF Spec

\* Every variable keeps its type: the counters of both rings stay between
\* nothing and the size of the ring, and every place in a ring is a place in it,
\* with nothing but the counters to go by (worklet.js, RingBuffer; the engine).
THEOREM AudioTypeCorrect == Spec => []TypeOK
<1>1. AudioInv => TypeOK
  BY DEF AudioInv
<1> QED
  BY AudioHolds, <1>1, PTL

LEMMA CaptureStep ==
    ASSUME AudioInv, CaptureIsWhole, [Next]_vars
    PROVE  CaptureIsWhole'
<1>a. /\ inAvail \in Int /\ spoken \in Int /\ InChunk \in Int
      /\ InSize \in Nat \ {0}
  BY Sizes DEF AudioInv, TypeOK
<1>1. CASE EndCapture
  <2>1. /\ toRead \in 0 .. InSize /\ toRead <= inAvail
        /\ inBuf \in [Cells(InSize) -> Sample] /\ rpos \in 0 .. InSize
        /\ toRead \in Nat
    BY <1>1, Sizes DEF EndCapture, AudioInv, TypeOK, InOK, Cells
  <2>2. /\ captured' = Copy(InSize, inBuf, rpos, toRead)
        /\ inAvail' = inAvail - toRead /\ spoken' = spoken
    BY <1>1 DEF EndCapture, historyVars
  <2>3. \A i \in 0 .. inAvail - 1 :
            inBuf[At(InSize, rpos, i)] = spoken - inAvail + i + 1
    BY DEF AudioInv, InOK
  <2>4. /\ captured' \in Seq(Sample) /\ Len(captured') = toRead
        /\ \A i \in 1 .. toRead :
               captured'[i] = inBuf[At(InSize, rpos, i - 1)]
    BY <1>a, <2>1, <2>2, Copied
  <2>5. DOMAIN captured' = 1 .. toRead
    BY <2>4, LenProperties
  <2>6. ASSUME NEW i \in 1 .. toRead
        PROVE  captured'[i] = spoken' - inAvail' - Len(captured') + i
    <3>1. /\ i - 1 \in 0 .. inAvail - 1
          /\ spoken - inAvail + (i - 1) + 1 = spoken - inAvail + i
          /\ spoken - (inAvail - toRead) - toRead + i = spoken - inAvail + i
      BY <1>a, <2>1
    <3> QED
      BY <2>2, <2>3, <2>4, <3>1
  <2> QED
    BY <2>5, <2>6 DEF CaptureIsWhole
<1>2. CASE ~ EndCapture
  <2>1. captured' = captured
    BY <1>2 DEF Next, Worklet, Engine, Start, Stop, ParseStart, ParseStop,
                BeginRecord, EndRecord, SkipRecord, BeginRead, SkipRead,
                EndRead, BeginCapture, BeginMix, EndMix, Wait, Peek,
                engineVars, vars
  <2>2. spoken' - inAvail' = spoken - inAvail
    <3>1. CASE EndRecord
      <4>1. inAvail' = inAvail + InChunk /\ spoken' = spoken + InChunk
        BY <3>1 DEF EndRecord
      <4> QED
        BY <1>a, <4>1
    <3>2. CASE ~ EndRecord
      BY <1>2, <3>2
         DEF Next, Worklet, Engine, Start, Stop, ParseStart, ParseStop,
             BeginRecord, SkipRecord, BeginRead, SkipRead, EndRead,
             BeginCapture, BeginMix, EndMix, Wait, Peek, inRing, historyVars,
             vars
    <3> QED
      BY <3>1, <3>2
  <2> QED
    BY <2>1, <2>2 DEF CaptureIsWhole
<1> QED
  BY <1>1, <1>2

\* What the engine reads of the microphone is what was spoken, every sample of
\* it once and none of it half written, though the two threads share the ring
\* without a lock (worklet.js, process; RingBuffer.write).
THEOREM RecordingsAreWhole == Spec => []CaptureIsWhole
<1>1. Init => CaptureIsWhole
  BY DEF Init, CaptureIsWhole
<1>2. AudioInv /\ CaptureIsWhole /\ [Next]_vars => CaptureIsWhole'
  BY CaptureStep
<1> QED
  BY AudioHolds, <1>1, <1>2, PTL DEF Spec

-----------------------------------------------------------------------------
(* The refinement                                                          *)

LEMMA PlayoutInit == Init => P!Init
<1> SUFFICES ASSUME Init PROVE P!Init
  OBVIOUS
<1>1. /\ outBuf \in [Cells(OutSize) -> Sample] /\ outRpos = 0 /\ outAvail = 0
      /\ OutSize \in Nat \ {0} /\ 0 \in 0 .. OutSize
  BY TypesInit, Sizes DEF Init, TypeOK
<1>2. Queue \in Seq(Sample) /\ Len(Queue) = 0
  BY <1>1, Copied DEF Queue
<1>3. Queue = <<>>
  BY <1>2, EmptySeq
<1> QED
  BY <1>3 DEF Init, P!Init

LEMMA QueueKept ==
    ASSUME UNCHANGED <<outBuf, outRpos, outAvail, mixed, out>>
    PROVE  UNCHANGED P!vars
BY DEF P!vars, Queue, Copy, At

LEMMA PlayoutStep ==
    ASSUME AudioInv, [Next]_vars
    PROVE  [P!Next]_(P!vars)
<1>a. /\ OutSize \in Nat \ {0} /\ OutChunk \in 1 .. OutSize
      /\ outRpos \in 0 .. OutSize /\ outAvail \in 0 .. OutSize
      /\ outBuf \in [Cells(OutSize) -> Sample] /\ mixed \in Nat
  BY Sizes DEF AudioInv, TypeOK
<1> DEFINE end == At(OutSize, outRpos, outAvail)
<1> USE DEF workletVars, outRing, inRing, engineVars, pageVars, historyVars
<1>1. CASE EndMix
  <2>1. /\ toWrite \in 0 .. OutSize - outAvail /\ toWrite # 0 /\ wpos = end
    BY <1>1, RoomToMix DEF EndMix
  <2>2. /\ outBuf' = Filled(OutSize, outBuf, end, toWrite, mixed)
        /\ outAvail' = outAvail + toWrite /\ mixed' = mixed + toWrite
        /\ UNCHANGED <<outRpos, out>>
    BY <1>1, <2>1 DEF EndMix
  <2>3. Len(Queue) = outAvail
    BY <1>a, Copied DEF Queue
  <2>4. Queue' = Queue \o [i \in 1 .. toWrite |-> mixed + i]
    <3>1. Queue' = Copy(OutSize, outBuf', outRpos, outAvail + toWrite)
      BY <2>2 DEF Queue, Copy, At
    <3>2. Copy(OutSize, Filled(OutSize, outBuf, end, toWrite, mixed),
               outRpos, outAvail + toWrite)
              = Copy(OutSize, outBuf, outRpos, outAvail)
                    \o After(mixed, toWrite)
      BY <1>a, <2>1, QueueGrows, Zenon
    <3> QED
      BY <2>2, <3>1, <3>2, Zenon DEF Queue, After
  <2>5. /\ Len(Queue) + toWrite <= OutSize /\ toWrite \in 1 .. OutSize
    BY <1>a, <2>1, <2>3
  <2>6. P!Put(toWrite)
    BY <2>2, <2>4, <2>5 DEF P!Put
  <2> QED
    BY <2>5, <2>6 DEF P!Next
<1>2. CASE EndRead
  <2>1. /\ out' = Copy(OutSize, outBuf, outRpos, OutChunk)
        /\ outRpos' = AfterRead(OutSize, outRpos, OutChunk)
        /\ outAvail' = outAvail - OutChunk /\ outAvail >= OutChunk
        /\ UNCHANGED <<outBuf, mixed>>
    BY <1>2, ReadKeepsEnd DEF EndRead
  <2>2. OutChunk \in 1 .. outAvail
    BY <1>a, <2>1
  <2>3. Len(Queue) = outAvail
    BY <1>a, Copied DEF Queue
  <2>4. Queue' = Copy(OutSize, outBuf, AfterRead(OutSize, outRpos, OutChunk),
                      outAvail - OutChunk)
    BY <2>1 DEF Queue, Copy, At
  <2>5. /\ Copy(OutSize, outBuf, outRpos, OutChunk)
               = SubSeq(Queue, 1, OutChunk)
        /\ Copy(OutSize, outBuf, AfterRead(OutSize, outRpos, OutChunk),
                outAvail - OutChunk)
               = SubSeq(Queue, OutChunk + 1, Len(Queue))
    BY <1>a, <2>2, QueueShrinks DEF Queue
  <2>6. P!Take
    BY <2>1, <2>3, <2>4, <2>5 DEF P!Take
  <2> QED
    BY <2>6 DEF P!Next
<1>3. CASE BeginMix
  <2>1. toWrite \in 0 .. OutSize - outAvail /\ wpos = end
    BY <1>3, RoomToMix DEF BeginMix
  <2>2. /\ outBuf' = Blurred(OutSize, outBuf, end, toWrite)
        /\ UNCHANGED <<outRpos, outAvail, mixed, out>>
    BY <1>3, <2>1 DEF BeginMix
  <2>3. \A i \in 0 .. outAvail - 1 :
            outBuf'[At(OutSize, outRpos, i)] = outBuf[At(OutSize, outRpos, i)]
    BY <1>a, <2>1, <2>2, BlurredCells
  <2>4. Copy(OutSize, outBuf', outRpos, outAvail)
            = Copy(OutSize, outBuf, outRpos, outAvail)
    BY <1>a, <2>3, SameCells
  <2>5. Queue' = Queue
    BY <2>2, <2>4 DEF Queue, Copy, At
  <2> QED
    BY <2>2, <2>5 DEF P!vars
<1>4. CASE ~ (EndMix \/ EndRead \/ BeginMix)
  <2>1. UNCHANGED <<outBuf, outRpos, outAvail, mixed, out>>
    BY <1>4 DEF Next, Worklet, Engine, Start, Stop, ParseStart, ParseStop,
                BeginRecord, EndRecord, SkipRecord, BeginRead, SkipRead,
                BeginCapture, EndCapture, Wait, Peek, vars
  <2> QED
    BY <2>1, QueueKept
<1> QED
  BY <1>1, <1>2, <1>3, <1>4

\* The output ring is a bounded queue, wherever the two threads interrupt each
\* other: what is played is what was mixed, in that order, without a sample
\* lost, doubled or torn (worklet.js, RingBuffer, process; the engine's thread).
THEOREM RingIsPlayout == Spec => ImplementsPlayout
<1>1. AudioInv /\ [Next]_vars => [P!Next]_(P!vars)
  BY PlayoutStep
<1> QED
  BY AudioHolds, PlayoutInit, <1>1, PTL DEF Spec, ImplementsPlayout, P!Spec
=============================================================================
