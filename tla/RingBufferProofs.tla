--------------------------- MODULE RingBufferProofs ---------------------------
(***************************************************************************)
(* Lemmas about the operators of RingBuffer, for every buffer size and      *)
(* every set of bytes: what read and write, activation by activation and as *)
(* whole calls, do to the bytes a buffer holds; and the theorems about      *)
(* RingBufferSpec that follow from them.                                    *)
(***************************************************************************)
EXTENDS RingBufferSpec, BasicLemmas

(***************************************************************************)
(* A buffer that is passed to write is a sequence of bytes.                 *)
(***************************************************************************)
LEMMA BuffersAreSequences == \A buf \in Buffers : buf \in Seq(Byte)
  BY RingAssumption DEF Buffers

-------------------------------------------------------------------------------
\* One activation of read and of write.

(***************************************************************************)
(* One activation of RingBuffer::read leaves a well-formed buffer, copies   *)
(* at most what was asked for and what is there, and uses up just that.     *)
(***************************************************************************)
LEMMA ReadPassFacts ==
  ASSUME NEW r \in RingType, NEW n \in Nat
  PROVE  LET p == ReadPass(r, n)
         IN  /\ p.ring \in RingType
             /\ p.ring.m_data = r.m_data
             /\ p.ring.m_wrptr = r.m_wrptr
             /\ p.ring.m_rdptr = Advance(r.m_rdptr, CopyOut(r, n))
             /\ p.bytes = [i \in 1..CopyOut(r, n) |-> r.m_data[r.m_rdptr + i - 1]]
             /\ p.bytes \in Seq(Byte)
             /\ Len(p.bytes) = CopyOut(r, n)
             /\ CopyOut(r, n) \in 0..n
             /\ CopyOut(r, n) <= AvailableReadSize(r)
             /\ AvailableReadSize(p.ring) = AvailableReadSize(r) - CopyOut(r, n)
             /\ p.again <=> /\ r.m_rdptr > r.m_wrptr /\ CopyOut(r, n) < n
                            /\ CopyOut(r, n) # 0 /\ p.ring.m_rdptr # r.m_wrptr
<1> DEFINE k == CopyOut(r, n)
           p == ReadPass(r, n)
<1>1. /\ r.m_data \in [Slots -> Byte] /\ r.m_wrptr \in Slots /\ r.m_rdptr \in Slots
      /\ Size \in Nat \ {0}
  BY RingAssumption DEF RingType
<1>2. /\ k \in 0..n /\ r.m_rdptr + k \in 0..Size /\ k <= AvailableReadSize(r)
      /\ r.m_rdptr <= r.m_wrptr => r.m_rdptr + k <= r.m_wrptr
  BY <1>1 DEF CopyOut, Least, Slots, AvailableReadSize
<1>3. Advance(r.m_rdptr, k) \in Slots
  BY <1>1, <1>2 DEF Advance, Slots
<1>4. /\ p.ring = [r EXCEPT !.m_rdptr = Advance(r.m_rdptr, k)]
      /\ p.bytes = [i \in 1..k |-> r.m_data[r.m_rdptr + i - 1]]
      /\ p.again = (r.m_rdptr > r.m_wrptr /\ k < n /\ k # 0 /\ Advance(r.m_rdptr, k) # r.m_wrptr)
  BY DEF ReadPass
<1>5. /\ p.ring \in RingType /\ p.ring.m_data = r.m_data /\ p.ring.m_wrptr = r.m_wrptr
      /\ p.ring.m_rdptr = Advance(r.m_rdptr, k)
  BY <1>1, <1>3, <1>4 DEF RingType
<1>6. p.bytes \in [1..k -> Byte]
  <2>1. ASSUME NEW i \in 1..k PROVE r.m_rdptr + i - 1 \in Slots
    BY <1>1, <1>2 DEF Slots
  <2> QED BY <2>1, <1>1, <1>4
<1>7. p.bytes \in Seq(Byte) /\ Len(p.bytes) = k
  BY <1>6, <1>2
<1>8. AvailableReadSize(p.ring) = AvailableReadSize(r) - k
  BY <1>1, <1>2, <1>5 DEF AvailableReadSize, Advance, Slots, CopyOut, Least
<1> QED BY <1>2, <1>4, <1>5, <1>7, <1>8

(***************************************************************************)
(* What one activation of RingBuffer::write copies fits into the caller's   *)
(* buffer, into the array and into the free space.                          *)
(***************************************************************************)
LEMMA CopyInBounds ==
  ASSUME NEW r \in RingType, NEW n \in Nat
  PROVE  LET k == CopyIn(r, n)
         IN  /\ k \in 0..n /\ r.m_wrptr + k \in 0..Size /\ k <= AvailableWriteSize(r)
             /\ r.m_wrptr < r.m_rdptr => r.m_wrptr + k < r.m_rdptr
             /\ r.m_rdptr = 0 => r.m_wrptr + k < Size
<1>1. r.m_wrptr \in Slots /\ r.m_rdptr \in Slots /\ Size \in Nat \ {0}
  BY RingAssumption DEF RingType
<1>2. CASE r.m_rdptr <= r.m_wrptr
  <2> DEFINE room == Size - r.m_wrptr
  <2>1. room \in Nat \ {0} /\ Least(room, n) \in 0..n /\ Least(room, n) <= room
    BY <1>1 DEF Least, Slots
  <2>2. CopyIn(r, n) = IF r.m_rdptr = 0 /\ Least(room, n) = room
                         THEN Least(room, n) - 1 ELSE Least(room, n)
    BY <1>2 DEF CopyIn
  <2>3. AvailableWriteSize(r) = room + r.m_rdptr - 1
    BY <1>1, <1>2 DEF AvailableWriteSize, Slots
  <2> QED BY <1>1, <1>2, <2>1, <2>2, <2>3 DEF Slots
<1>3. CASE ~(r.m_rdptr <= r.m_wrptr)
  BY <1>1, <1>3 DEF CopyIn, Least, Slots, AvailableWriteSize
<1> QED BY <1>2, <1>3

(***************************************************************************)
(* One activation of RingBuffer::write: the same for the free space.        *)
(***************************************************************************)
LEMMA WritePassFacts ==
  ASSUME NEW r \in RingType, NEW buf \in Seq(Byte)
  PROVE  LET p == WritePass(r, buf)
             k == CopyIn(r, Len(buf))
         IN  /\ p.ring \in RingType
             /\ p.ring.m_rdptr = r.m_rdptr
             /\ p.ring.m_wrptr = Advance(r.m_wrptr, k)
             /\ p.ring.m_data = [i \in Slots |-> IF i \in r.m_wrptr..(r.m_wrptr + k - 1)
                                                 THEN buf[i - r.m_wrptr + 1] ELSE r.m_data[i]]
             /\ p.count = k
             /\ k \in 0..Len(buf)
             /\ k <= AvailableWriteSize(r)
             /\ AvailableReadSize(p.ring) = AvailableReadSize(r) + k
             /\ p.again <=> /\ r.m_rdptr <= r.m_wrptr /\ k < Len(buf)
                            /\ r.m_rdptr # 0 /\ k # 0
<1> DEFINE k == CopyIn(r, Len(buf))
           p == WritePass(r, buf)
           wr == r.m_wrptr
           data == [i \in Slots |-> IF i \in wr..(wr + k - 1) THEN buf[i - wr + 1] ELSE r.m_data[i]]
<1>1. /\ r.m_data \in [Slots -> Byte] /\ wr \in Slots /\ r.m_rdptr \in Slots
      /\ Size \in Nat \ {0} /\ Len(buf) \in Nat
  BY RingAssumption DEF RingType
<1>2. /\ k \in 0..Len(buf) /\ wr + k \in 0..Size /\ k <= AvailableWriteSize(r)
      /\ wr < r.m_rdptr => wr + k < r.m_rdptr
      /\ r.m_rdptr = 0 => wr + k < Size
  BY <1>1, CopyInBounds
<1> HIDE DEF k
<1>3. Advance(wr, k) \in Slots
  BY <1>1, <1>2 DEF Advance, Slots
<1>4. data \in [Slots -> Byte]
  <2>1. ASSUME NEW i \in Slots, i \in wr..(wr + k - 1) PROVE buf[i - wr + 1] \in Byte
    <3>1. i - wr + 1 \in 1..Len(buf)
      BY <2>1, <1>1, <1>2 DEF Slots
    <3> QED BY <3>1
  <2> QED BY <2>1, <1>1
<1>5. /\ p.ring = [r EXCEPT !.m_data = data, !.m_wrptr = Advance(wr, k)]
      /\ p.count = k
      /\ p.again = (r.m_rdptr <= wr /\ k < Len(buf) /\ r.m_rdptr # 0 /\ k # 0)
  BY <1>1 DEF WritePass, RingType, k
<1>6. /\ p.ring \in RingType /\ p.ring.m_data = data /\ p.ring.m_wrptr = Advance(wr, k)
      /\ p.ring.m_rdptr = r.m_rdptr
  BY <1>1, <1>3, <1>4, <1>5 DEF RingType
<1>7. AvailableReadSize(p.ring) = AvailableReadSize(r) + k
  <2> DEFINE rd == r.m_rdptr
             nw == Advance(wr, k)
  <2>0. /\ AvailableReadSize(p.ring) = IF rd <= nw THEN nw - rd ELSE Size - rd + nw
        /\ AvailableReadSize(r) = IF rd <= wr THEN wr - rd ELSE Size - rd + wr
        /\ k \in Nat /\ rd \in 0..(Size - 1) /\ wr \in 0..(Size - 1)
    BY <1>1, <1>2, <1>6 DEF AvailableReadSize, Slots
  <2>1. CASE r.m_rdptr <= wr
    <3>1. CASE wr + k = Size
      <4>1. nw = 0 /\ rd > 0 BY <3>1, <1>2, <2>0 DEF Advance
      <4> QED BY <4>1, <3>1, <2>1, <2>0, <1>1
    <3>2. CASE wr + k # Size
      BY <3>2, <2>1, <2>0, <1>1, <1>2 DEF Advance
    <3> QED BY <3>1, <3>2
  <2>2. CASE ~(r.m_rdptr <= wr)
    BY <2>2, <1>1, <1>2, <1>6 DEF AvailableReadSize, AvailableWriteSize, Advance, Slots
  <2> QED BY <2>1, <2>2
<1> QED BY <1>2, <1>5, <1>6, <1>7 DEF k

-------------------------------------------------------------------------------
\* The bytes a buffer holds.

(***************************************************************************)
(* The contents of a buffer are a sequence of availableReadSize() bytes,    *)
(* fewer than Size, and the free space is the rest of Size - 1.             *)
(***************************************************************************)
LEMMA ContentsFacts ==
  ASSUME NEW r \in RingType
  PROVE  /\ Contents(r) \in Seq(Byte)
         /\ Len(Contents(r)) = AvailableReadSize(r)
         /\ AvailableReadSize(r) \in 0..(Size - 1)
         /\ AvailableWriteSize(r) = Size - 1 - AvailableReadSize(r)
         /\ \A i \in 1..AvailableReadSize(r) :
               Contents(r)[i] = r.m_data[IF r.m_rdptr + i - 1 < Size THEN r.m_rdptr + i - 1
                                         ELSE r.m_rdptr + i - 1 - Size]
<1>1. /\ r.m_data \in [Slots -> Byte] /\ r.m_wrptr \in Slots /\ r.m_rdptr \in Slots
      /\ Size \in Nat \ {0}
  BY RingAssumption DEF RingType
<1>2. /\ AvailableReadSize(r) \in 0..(Size - 1)
      /\ AvailableWriteSize(r) = Size - 1 - AvailableReadSize(r)
  BY <1>1 DEF AvailableReadSize, AvailableWriteSize, Slots
<1> DEFINE avail == AvailableReadSize(r)
           slot(i) == IF r.m_rdptr + i - 1 < Size THEN r.m_rdptr + i - 1
                                                  ELSE r.m_rdptr + i - 1 - Size
<1> HIDE DEF avail
<1>3. avail \in 0..(Size - 1) BY <1>2 DEF avail
<1>4. ASSUME NEW i \in 1..avail PROVE slot(i) \in Slots
  BY <1>1, <1>3 DEF Slots
<1>5. Contents(r) = [i \in 1..avail |-> r.m_data[slot(i)]]
  BY DEF Contents, avail
<1>6. Contents(r) \in [1..avail -> Byte]
  BY <1>1, <1>4, <1>5
<1>7. Contents(r) \in Seq(Byte) /\ Len(Contents(r)) = avail
  BY <1>3, <1>6
<1> QED BY <1>2, <1>5, <1>7 DEF avail

(***************************************************************************)
(* One activation of read takes the oldest bytes from the contents.         *)
(***************************************************************************)
LEMMA ReadPassContents ==
  ASSUME NEW r \in RingType, NEW n \in Nat
  PROVE  LET p == ReadPass(r, n)
             k == CopyOut(r, n)
         IN  /\ p.bytes = SubSeq(Contents(r), 1, k)
             /\ Contents(p.ring) = SubSeq(Contents(r), k + 1, Len(Contents(r)))
<1> DEFINE k == CopyOut(r, n)
           p == ReadPass(r, n)
           c == Contents(r)
           avail == AvailableReadSize(r)
           rd == r.m_rdptr
<1>1. /\ r.m_data \in [Slots -> Byte] /\ r.m_wrptr \in Slots /\ rd \in Slots
      /\ Size \in Nat \ {0}
  BY RingAssumption DEF RingType
<1>2. /\ k \in 0..n /\ k <= avail /\ rd + k <= Size
      /\ p.ring \in RingType /\ p.ring.m_data = r.m_data /\ p.ring.m_rdptr = Advance(rd, k)
      /\ p.bytes \in Seq(Byte) /\ Len(p.bytes) = k
      /\ \A i \in 1..k : p.bytes[i] = r.m_data[rd + i - 1]
      /\ AvailableReadSize(p.ring) = avail - k
  <2>1. rd + k <= Size BY <1>1 DEF CopyOut, Least, Slots
  <2>2. /\ k \in 0..n /\ k <= avail
        /\ p.ring \in RingType /\ p.ring.m_data = r.m_data /\ p.ring.m_rdptr = Advance(rd, k)
        /\ p.bytes = [i \in 1..k |-> r.m_data[rd + i - 1]]
        /\ p.bytes \in Seq(Byte) /\ Len(p.bytes) = k
        /\ AvailableReadSize(p.ring) = avail - k
    BY ReadPassFacts
  <2> HIDE DEF p, k, avail
  <2>3. \A i \in 1..k : p.bytes[i] = r.m_data[rd + i - 1]
    BY <2>2
  <2> QED BY <2>1, <2>2, <2>3
<1>3. /\ c \in Seq(Byte) /\ Len(c) = avail /\ avail \in 0..(Size - 1)
      /\ \A i \in 1..avail : c[i] = r.m_data[IF rd + i - 1 < Size THEN rd + i - 1
                                               ELSE rd + i - 1 - Size]
  BY ContentsFacts
<1>4. /\ Contents(p.ring) \in Seq(Byte) /\ Len(Contents(p.ring)) = avail - k
      /\ \A i \in 1..(avail - k) :
            Contents(p.ring)[i] = r.m_data[IF Advance(rd, k) + i - 1 < Size
                                             THEN Advance(rd, k) + i - 1
                                             ELSE Advance(rd, k) + i - 1 - Size]
  BY <1>2, ContentsFacts
<1> HIDE DEF k, p, c, avail, rd
<1>5. p.bytes = SubSeq(c, 1, k)
  <2>1. k \in 0..Len(c) /\ 0 + 1 = 1 /\ k - 0 = k BY <1>2, <1>3
  <2>2. /\ SubSeq(c, 1, k) \in Seq(Byte) /\ Len(SubSeq(c, 1, k)) = k
        /\ \A i \in 1..k : SubSeq(c, 1, k)[i] = c[i]
    <3>1. c \in Seq(Byte) BY <1>3
    <3>2. /\ SubSeq(c, 0 + 1, k) \in Seq(Byte) /\ Len(SubSeq(c, 0 + 1, k)) = k - 0
          /\ \A i \in 1..(k - 0) : SubSeq(c, 0 + 1, k)[i] = c[0 + i]
      BY <2>1, <3>1, 0 \in Nat, SubSeqFacts
    <3> QED BY <3>2, <2>1
  <2>3. \A i \in 1..k : p.bytes[i] = c[i]
    BY <1>1, <1>2, <1>3 DEF Slots
  <2> QED BY <2>2, <2>3, <1>2, SeqEqual
<1>6. Contents(p.ring) = SubSeq(c, k + 1, Len(c))
  <2>1. /\ SubSeq(c, k + 1, Len(c)) \in Seq(Byte) /\ Len(SubSeq(c, k + 1, Len(c))) = avail - k
        /\ \A i \in 1..(avail - k) : SubSeq(c, k + 1, Len(c))[i] = c[k + i]
    <3>1. c \in Seq(Byte) /\ k \in Nat /\ Len(c) \in k..Len(c) BY <1>2, <1>3
    <3> QED BY <3>1, <1>3, SubSeqFacts
  <2>2. \A i \in 1..(avail - k) : Contents(p.ring)[i] = c[k + i]
    <3> TAKE i \in 1..(avail - k)
    <3>1. /\ k + i \in 1..avail
          /\ (IF Advance(rd, k) + i - 1 < Size THEN Advance(rd, k) + i - 1
               ELSE Advance(rd, k) + i - 1 - Size)
             = (IF rd + (k + i) - 1 < Size THEN rd + (k + i) - 1
                ELSE rd + (k + i) - 1 - Size)
      BY <1>1, <1>2, <1>3 DEF Slots, Advance
    <3> QED BY <3>1, <1>3, <1>4
  <2> DEFINE u == Contents(p.ring)
             v == SubSeq(c, k + 1, Len(c))
  <2>3. /\ u \in Seq(Byte) /\ v \in Seq(Byte) /\ Len(u) = Len(v)
        /\ \A i \in 1..Len(u) : u[i] = v[i]
    BY <2>1, <2>2, <1>4
  <2> HIDE DEF u, v
  <2>4. u = v BY <2>3, SeqEqual
  <2> QED BY <2>4 DEF u, v
<1> QED BY <1>5, <1>6 DEF k, p, c

(***************************************************************************)
(* One activation of write appends the front of the caller's buffer to the  *)
(* contents.                                                                *)
(***************************************************************************)
LEMMA WritePassContents ==
  ASSUME NEW r \in RingType, NEW buf \in Seq(Byte)
  PROVE  LET p == WritePass(r, buf)
         IN  Contents(p.ring) = Contents(r) \o SubSeq(buf, 1, CopyIn(r, Len(buf)))
<1> DEFINE k == CopyIn(r, Len(buf))
           p == WritePass(r, buf)
           c == Contents(r)
           avail == AvailableReadSize(r)
           rd == r.m_rdptr
           wr == r.m_wrptr
           slot(i) == IF rd + i - 1 < Size THEN rd + i - 1 ELSE rd + i - 1 - Size
<1>1. /\ r.m_data \in [Slots -> Byte] /\ wr \in Slots /\ rd \in Slots
      /\ Size \in Nat \ {0} /\ Len(buf) \in Nat
  BY RingAssumption DEF RingType
<1>2. /\ k \in 0..Len(buf) /\ wr + k <= Size /\ k <= AvailableWriteSize(r)
      /\ wr < rd => wr + k < rd
  BY <1>1, CopyInBounds
<1>3. /\ p.ring \in RingType /\ p.ring.m_rdptr = rd
      /\ p.ring.m_data = [i \in Slots |-> IF i \in wr..(wr + k - 1)
                                           THEN buf[i - wr + 1] ELSE r.m_data[i]]
      /\ AvailableReadSize(p.ring) = avail + k
  BY WritePassFacts
<1>4. /\ c \in Seq(Byte) /\ Len(c) = avail /\ avail \in 0..(Size - 1)
      /\ AvailableWriteSize(r) = Size - 1 - avail
      /\ \A i \in 1..avail : c[i] = r.m_data[slot(i)]
  BY ContentsFacts
<1>5. avail = IF rd <= wr THEN wr - rd ELSE Size - rd + wr
  BY DEF AvailableReadSize
<1>6. /\ Contents(p.ring) \in Seq(Byte) /\ Len(Contents(p.ring)) = avail + k
      /\ \A i \in 1..(avail + k) : Contents(p.ring)[i] = p.ring.m_data[slot(i)]
  <2> HIDE DEF p, k, avail
  <2>1. p.ring \in RingType /\ p.ring.m_rdptr = rd /\ AvailableReadSize(p.ring) = avail + k
    BY <1>3
  <2>2. /\ Contents(p.ring) \in Seq(Byte)
        /\ Len(Contents(p.ring)) = AvailableReadSize(p.ring)
        /\ \A i \in 1..AvailableReadSize(p.ring) :
              Contents(p.ring)[i] = p.ring.m_data[IF p.ring.m_rdptr + i - 1 < Size
                                                    THEN p.ring.m_rdptr + i - 1
                                                    ELSE p.ring.m_rdptr + i - 1 - Size]
    BY <2>1, ContentsFacts
  <2> HIDE DEF rd
  <2> QED BY <2>1, <2>2
<1> DEFINE d == p.ring.m_data
           v == SubSeq(buf, 1, k)
           u == Contents(p.ring)
<1> HIDE DEF k, p, c, avail, rd, wr, d, v, u
<1>7. \A i \in Slots : d[i] = IF i \in wr..(wr + k - 1) THEN buf[i - wr + 1] ELSE r.m_data[i]
  BY <1>3 DEF d
<1>8. v \in Seq(Byte) /\ Len(v) = k /\ \A i \in 1..k : v[i] = buf[i]
  <2>1. k \in 0..Len(buf) /\ 0 + 1 = 1 /\ k - 0 = k BY <1>1, <1>2
  <2>2. /\ SubSeq(buf, 0 + 1, k) \in Seq(Byte) /\ Len(SubSeq(buf, 0 + 1, k)) = k - 0
        /\ \A i \in 1..(k - 0) : SubSeq(buf, 0 + 1, k)[i] = buf[0 + i]
    BY <2>1, 0 \in Nat, SubSeqFacts
  <2> QED BY <2>1, <2>2 DEF v
<1>9. \A i \in 1..avail : d[slot(i)] = c[i]
  <2> TAKE i \in 1..avail
  <2>1. slot(i) \in Slots /\ slot(i) \notin wr..(wr + k - 1)
    <3>1. CASE rd <= wr BY <3>1, <1>1, <1>2, <1>4, <1>5 DEF Slots
    <3>2. CASE ~(rd <= wr) BY <3>2, <1>1, <1>2, <1>4, <1>5 DEF Slots
    <3> QED BY <3>1, <3>2
  <2> QED BY <2>1, <1>4, <1>7
<1>10. \A i \in 1..k : d[slot(avail + i)] = v[i]
  <2> TAKE i \in 1..k
  <2>1. slot(avail + i) \in Slots /\ slot(avail + i) = wr + i - 1
    <3>1. CASE rd <= wr BY <3>1, <1>1, <1>2, <1>4, <1>5 DEF Slots
    <3>2. CASE ~(rd <= wr) BY <3>2, <1>1, <1>2, <1>4, <1>5 DEF Slots
    <3> QED BY <3>1, <3>2
  <2>2. slot(avail + i) \in wr..(wr + k - 1) /\ slot(avail + i) - wr + 1 = i
    BY <2>1, <1>1, <1>2 DEF Slots
  <2> HIDE DEF slot
  <2> QED BY <2>1, <2>2, <1>7, <1>8
<1>11. /\ c \o v \in Seq(Byte) /\ Len(c \o v) = avail + k
       /\ \A i \in 1..(avail + k) : (c \o v)[i] = IF i <= avail THEN c[i] ELSE v[i - avail]
  BY <1>4, <1>8, ConcatProperties
<1>12. u \in Seq(Byte) /\ Len(u) = avail + k /\ \A i \in 1..(avail + k) : u[i] = d[slot(i)]
  BY <1>6 DEF u, d
<1>13. \A i \in 1..(avail + k) : u[i] = (c \o v)[i]
  <2> TAKE i \in 1..(avail + k)
  <2> HIDE DEF slot
  <2>1. CASE i <= avail
    <3>1. i \in 1..avail BY <2>1, <1>4
    <3>2. u[i] = c[i] BY <3>1, <1>9, <1>12
    <3> QED BY <2>1, <3>2, <1>11
  <2>2. CASE i > avail
    <3>1. i - avail \in 1..k /\ avail + (i - avail) = i BY <2>2, <1>2, <1>4
    <3>2. d[slot(avail + (i - avail))] = v[i - avail] BY <3>1, <1>10
    <3>3. ~(i <= avail) BY <2>2, <1>4
    <3> QED BY <3>1, <3>2, <3>3, <1>11, <1>12
  <2>3. i <= avail \/ i > avail
    <3>1. avail \in Nat /\ k \in Nat BY <1>1, <1>2, <1>4
    <3> QED BY <3>1
  <2> QED BY <2>1, <2>2, <2>3
<1>14. u = c \o v
  BY <1>11, <1>12, <1>13, SeqEqual
<1> QED BY <1>14 DEF u, c, v, k, p

(***************************************************************************)
(* The empty buffer a RingBuffer is constructed with.                       *)
(***************************************************************************)
LEMMA EmptyRingFacts == EmptyRing \in RingType /\ Contents(EmptyRing) = <<>>
<1>1. EmptyRing \in RingType
  BY RingAssumption DEF EmptyRing, RingType, Slots
<1>2. AvailableReadSize(EmptyRing) = 0
  BY DEF EmptyRing, AvailableReadSize
<1>3. Contents(EmptyRing) \in Seq(Byte) /\ Len(Contents(EmptyRing)) = 0
  BY <1>1, <1>2, ContentsFacts
<1> QED BY <1>1, <1>3, EmptySeq

-------------------------------------------------------------------------------
\* The whole calls.

(***************************************************************************)
(* RingBuffer::read of n bytes hands over the oldest bytes, n of them or    *)
(* all there are, and keeps the rest in order; its second activation makes  *)
(* no third one.                                                            *)
(***************************************************************************)
LEMMA RingReadFacts ==
  ASSUME NEW r \in RingType, NEW n \in Nat
  PROVE  LET p == ReadPass(r, n)
             m == Least(n, AvailableReadSize(r))
             c == Contents(r)
         IN  /\ RingRead(r, n).ring \in RingType
             /\ RingRead(r, n).bytes = SubSeq(c, 1, m)
             /\ RingRead(r, n).bytes \in Seq(Byte)
             /\ Len(RingRead(r, n).bytes) = m
             /\ Contents(RingRead(r, n).ring) = SubSeq(c, m + 1, Len(c))
             /\ p.again => ~ReadPass(p.ring, n - Len(p.bytes)).again
<1> DEFINE k == CopyOut(r, n)
           p == ReadPass(r, n)
           q == ReadPass(p.ring, n - Len(p.bytes))
           j == CopyOut(p.ring, n - k)
           m == Least(n, AvailableReadSize(r))
           c == Contents(r)
           rd == r.m_rdptr
           wr == r.m_wrptr
<1>1. rd \in Slots /\ wr \in Slots /\ Size \in Nat \ {0}
  BY RingAssumption DEF RingType
<1>2. /\ p.ring \in RingType /\ p.ring.m_wrptr = wr /\ p.ring.m_rdptr = Advance(rd, k)
      /\ Len(p.bytes) = k /\ k \in 0..n /\ k <= AvailableReadSize(r)
      /\ AvailableReadSize(p.ring) = AvailableReadSize(r) - k
      /\ p.again <=> (rd > wr /\ k < n /\ k # 0 /\ p.ring.m_rdptr # wr)
  BY ReadPassFacts
<1>3. n - k \in Nat /\ n - Len(p.bytes) = n - k
  BY <1>2
<1>4. /\ c \in Seq(Byte) /\ Len(c) = AvailableReadSize(r) /\ AvailableReadSize(r) \in Nat
  BY <1>1, ContentsFacts
<1>5. /\ p.bytes = SubSeq(c, 1, k)
      /\ Contents(p.ring) = SubSeq(c, k + 1, Len(c))
  BY ReadPassContents
<1>6. k = Least(n, IF rd <= wr THEN wr - rd ELSE Size - rd)
  BY DEF CopyOut
<1>7. AvailableReadSize(r) = IF rd <= wr THEN wr - rd ELSE Size - rd + wr
  BY DEF AvailableReadSize
<1>8. m \in 0..Len(c)
  BY <1>4 DEF Least
<1>9. SubSeq(c, 1, m) \in Seq(Byte) /\ Len(SubSeq(c, 1, m)) = m
  <2>1. m \in 0..Len(c) /\ 0 + 1 = 1 /\ m - 0 = m BY <1>8, <1>4
  <2> HIDE DEF m, c
  <2>2. c \in Seq(Byte) BY <1>4
  <2>3. SubSeq(c, 0 + 1, m) \in Seq(Byte) /\ Len(SubSeq(c, 0 + 1, m)) = m - 0
    BY <2>1, <2>2, 0 \in Nat, SubSeqFacts
  <2> QED BY <2>1, <2>3
<1>10. CASE ~p.again
  <2>1. RingRead(r, n).ring = p.ring /\ RingRead(r, n).bytes = p.bytes
    BY <1>10 DEF RingRead
  <2>2. k = m
    <3> HIDE DEF k, p
    <3>1. CASE rd <= wr BY <3>1, <1>1, <1>6, <1>7
    <3>2. CASE rd > wr /\ k < n /\ k # 0 /\ Advance(rd, k) = wr
      BY <3>2, <1>1, <1>2, <1>6, <1>7 DEF Least, Advance, Slots
    <3>3. CASE rd > wr /\ (k >= n \/ k = 0)
      BY <3>3, <1>1, <1>2, <1>6, <1>7 DEF Least, Slots
    <3> QED BY <3>1, <3>2, <3>3, <1>10, <1>2, <1>1 DEF Slots
  <2> HIDE DEF p, k, m, c
  <2> QED BY <2>1, <2>2, <1>2, <1>5, <1>9, <1>10 DEF p, k, m, c
<1>11. CASE p.again
  <2>1. /\ RingRead(r, n).ring = q.ring
        /\ RingRead(r, n).bytes = p.bytes \o q.bytes
    BY <1>11 DEF RingRead
  <2>2. rd > wr /\ k < n /\ k # 0 /\ k = Size - rd /\ p.ring.m_rdptr = 0 /\ rd + k = Size
    <3> HIDE DEF k, p
    <3>1. rd > wr /\ k < n /\ k # 0 BY <1>11, <1>2
    <3>2. k = Size - rd BY <3>1, <1>1, <1>6 DEF Least, Slots
    <3> QED BY <3>1, <3>2, <1>1, <1>2 DEF Advance, Slots
  <2>3. j = Least(n - k, wr)
    BY <2>2, <1>1, <1>2 DEF CopyOut, Slots
  <2>4. k + j = m /\ j \in Nat /\ k \in Nat
    <3>1. m = Least(n, Size - rd + wr) BY <2>2, <1>1, <1>7 DEF Slots
    <3>2. k \in 0..n BY <1>2
    <3> HIDE DEF k, j, m, rd, wr
    <3> QED BY <3>1, <3>2, <2>2, <2>3, <1>1 DEF Least, Slots
  <2>5. /\ q.ring \in RingType /\ q.bytes = SubSeq(Contents(p.ring), 1, j)
        /\ Contents(q.ring) = SubSeq(Contents(p.ring), j + 1, Len(Contents(p.ring)))
    <3>1. q = ReadPass(p.ring, n - k) BY <1>3
    <3>2. p.ring \in RingType /\ n - k \in Nat BY <1>2, <1>3
    <3> HIDE DEF p, k, q
    <3>3. q.ring \in RingType BY <3>1, <3>2, ReadPassFacts
    <3>4. /\ q.bytes = SubSeq(Contents(p.ring), 1, j)
          /\ Contents(q.ring) = SubSeq(Contents(p.ring), j + 1, Len(Contents(p.ring)))
      BY <3>1, <3>2, ReadPassContents
    <3> QED BY <3>3, <3>4
  <2>6. ~q.again
    <3>1. q.again => p.ring.m_rdptr > p.ring.m_wrptr
      BY <1>2, <1>3, ReadPassFacts
    <3> QED BY <3>1, <2>2, <1>2, <1>1 DEF Slots
  <2>7. /\ SubSeq(c, 1, k) \o SubSeq(SubSeq(c, k + 1, Len(c)), 1, j) = SubSeq(c, 1, k + j)
        /\ SubSeq(SubSeq(c, k + 1, Len(c)), j + 1, Len(SubSeq(c, k + 1, Len(c))))
             = SubSeq(c, k + j + 1, Len(c))
    <3> HIDE DEF k, j, c, m
    <3>1. k \in 0..Len(c) /\ j \in 0..(Len(c) - k) BY <1>8, <1>4, <2>4
    <3> QED BY <3>1, <1>4, TakeTwice
  <2> HIDE DEF p, q, k, j, m, c
  <2>8. /\ p.bytes \o q.bytes = SubSeq(c, 1, m)
        /\ Contents(q.ring) = SubSeq(c, m + 1, Len(c))
    BY <2>4, <2>5, <2>7, <1>5
  <2>9. q = ReadPass(ReadPass(r, n).ring, n - Len(ReadPass(r, n).bytes))
    BY DEF p, q
  <2> QED BY <2>1, <2>5, <2>6, <2>8, <2>9, <1>9 DEF p, m, c
<1> QED BY <1>10, <1>11

(***************************************************************************)
(* RingBuffer::write takes as much of the caller's buffer as fits and       *)
(* appends it to the contents; its second activation makes no third one.    *)
(***************************************************************************)
LEMMA RingWriteFacts ==
  ASSUME NEW r \in RingType, NEW buf \in Seq(Byte)
  PROVE  LET p == WritePass(r, buf)
             m == Least(Len(buf), AvailableWriteSize(r))
         IN  /\ RingWrite(r, buf).ring \in RingType
             /\ RingWrite(r, buf).count = m
             /\ Contents(RingWrite(r, buf).ring) = Contents(r) \o SubSeq(buf, 1, m)
             /\ p.again => ~WritePass(p.ring, SubSeq(buf, p.count + 1, Len(buf))).again
<1> DEFINE n == Len(buf)
           k == CopyIn(r, n)
           p == WritePass(r, buf)
           rest == SubSeq(buf, p.count + 1, Len(buf))
           q == WritePass(p.ring, rest)
           j == CopyIn(p.ring, Len(rest))
           m == Least(n, AvailableWriteSize(r))
           c == Contents(r)
           rd == r.m_rdptr
           wr == r.m_wrptr
<1>1. rd \in Slots /\ wr \in Slots /\ Size \in Nat \ {0} /\ n \in Nat
  BY RingAssumption DEF RingType
<1>2. /\ p.ring \in RingType /\ p.ring.m_rdptr = rd /\ p.ring.m_wrptr = Advance(wr, k)
      /\ p.count = k /\ k \in 0..n /\ k <= AvailableWriteSize(r)
      /\ p.again <=> (rd <= wr /\ k < n /\ rd # 0 /\ k # 0)
  BY WritePassFacts
<1>3. c \in Seq(Byte) BY ContentsFacts
<1>4. Contents(p.ring) = c \o SubSeq(buf, 1, k)
  BY WritePassContents
<1>5. AvailableWriteSize(r) = IF rd <= wr THEN Size - wr + rd - 1 ELSE rd - wr - 1
  BY DEF AvailableWriteSize
<1>6. k = IF rd <= wr THEN IF rd = 0 /\ Least(Size - wr, n) = Size - wr
                             THEN Least(Size - wr, n) - 1 ELSE Least(Size - wr, n)
          ELSE Least(rd - 1 - wr, n)
  BY DEF CopyIn
<1>7. CASE ~p.again
  <2>1. RingWrite(r, buf).ring = p.ring /\ RingWrite(r, buf).count = p.count
    BY <1>7 DEF RingWrite
  <2>2. k = m
    <3>1. m = Least(n, IF rd <= wr THEN Size - wr + rd - 1 ELSE rd - wr - 1) BY <1>5
    <3>2. rd > wr \/ k >= n \/ rd = 0 \/ k = 0 BY <1>1, <1>2, <1>7 DEF Slots
    <3> HIDE DEF k, p, m, n, rd, wr
    <3> QED BY <3>1, <3>2, <1>1, <1>2, <1>5, <1>6 DEF Least, Slots
  <2> HIDE DEF p, k, m, c
  <2> QED BY <2>1, <2>2, <1>2, <1>4, <1>7 DEF p, k, m, c
<1>8. CASE p.again
  <2>1. RingWrite(r, buf).ring = q.ring /\ RingWrite(r, buf).count = p.count + q.count
    BY <1>8 DEF RingWrite
  <2>2. rest \in Seq(Byte) /\ Len(rest) = n - k /\ rest = SubSeq(buf, k + 1, Len(buf))
    <3> HIDE DEF k, p
    <3>1. k \in Nat /\ Len(buf) \in k..Len(buf) BY <1>1, <1>2
    <3> QED BY <3>1, <1>2, SubSeqFacts
  <2>3. rd <= wr /\ k < n /\ rd # 0 /\ k = Size - wr /\ p.ring.m_wrptr = 0
    <3> HIDE DEF k, p, n
    <3>1. rd <= wr /\ k < n /\ rd # 0 BY <1>8, <1>2
    <3>2. k = Size - wr BY <3>1, <1>1, <1>6 DEF Least, Slots
    <3> QED BY <3>1, <3>2, <1>1, <1>2 DEF Advance, Slots
  <2>4. j = Least(rd - 1, n - k)
    BY <2>2, <2>3, <1>1, <1>2 DEF CopyIn, Slots
  <2>5. k + j = m /\ k \in 0..n /\ j \in 0..(n - k)
    <3>1. m = Least(n, Size - wr + rd - 1) BY <2>3, <1>5
    <3>2. k \in 0..n /\ k = Size - wr /\ rd \in Nat \ {0} /\ n \in Nat /\ wr \in Nat
      BY <1>1, <1>2, <2>3 DEF Slots
    <3>3. j = Least(rd - 1, n - k) BY <2>4
    <3> HIDE DEF k, j, m, n, rd, wr
    <3>4. CASE rd - 1 <= n - k
      <4>1. j = rd - 1 BY <3>3, <3>4 DEF Least
      <4>2. m = Size - wr + rd - 1
        <5>1. Size - wr + rd - 1 <= n /\ Size - wr + rd - 1 \in Int BY <3>2, <3>4
        <5> QED BY <5>1, <3>1, <3>2 DEF Least
      <4> QED BY <4>1, <4>2, <3>2, <3>4
    <3>5. CASE ~(rd - 1 <= n - k)
      <4>1. j = n - k BY <3>3, <3>5 DEF Least
      <4>2. m = n BY <3>1, <3>2, <3>5 DEF Least
      <4> QED BY <4>1, <4>2, <3>2
    <3> QED BY <3>4, <3>5
  <2>6. q.ring \in RingType /\ q.count = j
        /\ Contents(q.ring) = Contents(p.ring) \o SubSeq(rest, 1, j)
    <3>1. p.ring \in RingType /\ rest \in Seq(Byte) BY <1>2, <2>2
    <3> HIDE DEF p, rest
    <3> QED BY <3>1, WritePassFacts, WritePassContents
  <2>7. ~q.again
    <3>1. p.ring \in RingType /\ rest \in Seq(Byte) BY <1>2, <2>2
    <3>2. q.again => p.ring.m_rdptr <= p.ring.m_wrptr
      <4> HIDE DEF p, rest
      <4> QED BY <3>1, WritePassFacts
    <3> QED BY <3>2, <2>3, <1>2, <1>1 DEF Slots
  <2>8. Contents(q.ring) = c \o SubSeq(buf, 1, m)
    <3> DEFINE x == SubSeq(buf, 1, k)
               y == SubSeq(rest, 1, j)
    <3>1. x \o y = SubSeq(buf, 1, m)
      <4>1. k \in 0..Len(buf) /\ j \in 0..(Len(buf) - k) BY <2>5
      <4> HIDE DEF k, j, rest
      <4>2. SubSeq(buf, 1, k) \o SubSeq(SubSeq(buf, k + 1, Len(buf)), 1, j) = SubSeq(buf, 1, k + j)
        BY <4>1, TakeTwice
      <4> QED BY <4>2, <2>2, <2>5
    <3>2. x \in Seq(Byte) /\ y \in Seq(Byte)
      <4>1. 0 + 1 = 1 /\ k \in 0..Len(buf) /\ j \in 0..Len(rest) /\ rest \in Seq(Byte)
        BY <2>2, <2>5
      <4> HIDE DEF k, j, rest
      <4>2. SubSeq(buf, 0 + 1, k) \in Seq(Byte) BY <4>1, 0 \in Nat, SubSeqFacts
      <4>3. SubSeq(rest, 0 + 1, j) \in Seq(Byte) BY <4>1, 0 \in Nat, SubSeqFacts
      <4> QED BY <4>1, <4>2, <4>3
    <3>3. Contents(q.ring) = (c \o x) \o y BY <2>6, <1>4
    <3> HIDE DEF x, y, c, q, m
    <3>4. (c \o x) \o y = c \o (x \o y) BY <3>2, <1>3, ConcatAssociative
    <3> QED BY <3>1, <3>3, <3>4
  <2>9. q = WritePass(WritePass(r, buf).ring,
                      SubSeq(buf, WritePass(r, buf).count + 1, Len(buf)))
    BY DEF p, q
  <2> HIDE DEF p, q, k, j, m, c
  <2>10. q.ring \in RingType /\ p.count + q.count = m BY <1>2, <2>5, <2>6
  <2> QED BY <2>1, <2>7, <2>8, <2>9, <2>10 DEF p, m, c
<1> QED BY <1>7, <1>8

-------------------------------------------------------------------------------
\* The state machine of one buffer.

(***************************************************************************)
(* m_wrptr and m_rdptr stay inside the array, m_data keeps its size, and a  *)
(* call never moves more than Size - 1 bytes (inproc.cpp:24-91).            *)
(***************************************************************************)
THEOREM RingTypeCorrect == RingSpec => []RingTypeOK
<1>1. RingInit => RingTypeOK
  BY EmptyRingFacts, RingAssumption DEF RingInit, RingTypeOK
<1>2. RingTypeOK /\ [RingNext]_ringVars => RingTypeOK'
  <2> SUFFICES ASSUME RingTypeOK, [RingNext]_ringVars PROVE RingTypeOK'
    OBVIOUS
  <2>1. ring \in RingType /\ Size \in Nat \ {0}
    BY RingAssumption DEF RingTypeOK
  <2>2. /\ AvailableReadSize(ring) \in 0..(Size - 1)
        /\ AvailableWriteSize(ring) \in 0..(Size - 1)
    BY <2>1, ContentsFacts
  <2>3. ASSUME NEW buf \in Buffers, Write(buf) PROVE RingTypeOK'
    <3>1. buf \in Seq(Byte) BY BuffersAreSequences
    <3>2. /\ RingWrite(ring, buf).ring \in RingType
          /\ RingWrite(ring, buf).count = Least(Len(buf), AvailableWriteSize(ring))
      BY <2>1, <3>1, RingWriteFacts
    <3>3. RingWrite(ring, buf).count \in 0..(Size - 1)
      BY <2>1, <2>2, <3>1, <3>2 DEF Least
    <3> QED BY <2>3, <3>2, <3>3 DEF Write, RingTypeOK
  <2>4. ASSUME NEW buflen \in 0..MaxLen, Read(buflen) PROVE RingTypeOK'
    <3>1. buflen \in Nat BY RingAssumption
    <3>2. /\ RingRead(ring, buflen).ring \in RingType
          /\ Len(RingRead(ring, buflen).bytes) = Least(buflen, AvailableReadSize(ring))
      BY <2>1, <3>1, RingReadFacts
    <3>3. Len(RingRead(ring, buflen).bytes) \in 0..(Size - 1)
      BY <2>1, <2>2, <3>1, <3>2 DEF Least
    <3> QED BY <2>4, <3>2, <3>3 DEF Read, RingTypeOK
  <2>5. CASE UNCHANGED ringVars
    BY <2>5 DEF RingTypeOK, ringVars
  <2> QED BY <2>3, <2>4, <2>5 DEF RingNext
<1> QED BY <1>1, <1>2, PTL DEF RingSpec

(***************************************************************************)
(* From every reachable buffer and for every caller's buffer, read and      *)
(* write recurse at most once (inproc.cpp:52, :79).                         *)
(***************************************************************************)
THEOREM RecursionIsBounded == RingSpec => []TwoActivations
<1>1. RingTypeOK => TwoActivations
  <2> SUFFICES ASSUME RingTypeOK PROVE TwoActivations
    OBVIOUS
  <2>1. ring \in RingType BY DEF RingTypeOK
  <2>2. ASSUME NEW n \in 0..MaxLen
        PROVE  ReadPass(ring, n).again
                 => ~ReadPass(ReadPass(ring, n).ring, n - Len(ReadPass(ring, n).bytes)).again
    <3>1. n \in Nat BY RingAssumption
    <3> QED BY <2>1, <3>1, RingReadFacts
  <2>3. ASSUME NEW buf \in Buffers
        PROVE  WritePass(ring, buf).again
                 => ~WritePass(WritePass(ring, buf).ring,
                               SubSeq(buf, WritePass(ring, buf).count + 1, Len(buf))).again
    <3>1. buf \in Seq(Byte) BY BuffersAreSequences
    <3> QED BY <2>1, <3>1, RingWriteFacts
  <2> QED BY <2>2, <2>3 DEF TwoActivations
<1> QED BY <1>1, RingTypeCorrect, PTL

(***************************************************************************)
(* availableReadSize and availableWriteSize say exactly what the next call  *)
(* will move (inproc.cpp:93-119).                                           *)
(***************************************************************************)
THEOREM AvailableSizesAreExact == RingSpec => []SizesAreExact
<1>1. RingTypeOK => SizesAreExact
  <2> SUFFICES ASSUME RingTypeOK PROVE SizesAreExact
    OBVIOUS
  <2>1. ring \in RingType BY DEF RingTypeOK
  <2>2. ASSUME NEW n \in 0..MaxLen
        PROVE  Len(RingRead(ring, n).bytes) = Least(n, AvailableReadSize(ring))
    <3>1. n \in Nat BY RingAssumption
    <3> QED BY <2>1, <3>1, RingReadFacts
  <2>3. ASSUME NEW buf \in Buffers
        PROVE  RingWrite(ring, buf).count = Least(Len(buf), AvailableWriteSize(ring))
    <3>1. buf \in Seq(Byte) BY BuffersAreSequences
    <3> QED BY <2>1, <3>1, RingWriteFacts
  <2> QED BY <2>2, <2>3 DEF SizesAreExact
<1> QED BY <1>1, RingTypeCorrect, PTL

(***************************************************************************)
(* The ring buffer implements the bounded FIFO queue of Size - 1 bytes, for *)
(* every Size, every set of bytes and callers' buffers of every length.     *)
(***************************************************************************)
THEOREM RingImplementsFifo == RingSpec => ImplementsFifo
<1>1. RingInit => Fifo!Init
  BY EmptyRingFacts DEF RingInit, Fifo!Init
<1>2. RingTypeOK /\ [RingNext]_ringVars => [Fifo!Next]_(Fifo!vars)
  <2> SUFFICES ASSUME RingTypeOK, [RingNext]_ringVars PROVE [Fifo!Next]_(Fifo!vars)
    OBVIOUS
  <2>1. ring \in RingType /\ Size \in Nat \ {0}
    BY RingAssumption DEF RingTypeOK
  <2>2. /\ Len(Contents(ring)) = AvailableReadSize(ring)
        /\ AvailableWriteSize(ring) = (Size - 1) - Len(Contents(ring))
    BY <2>1, ContentsFacts
  <2>3. ASSUME NEW buf \in Buffers, Write(buf) PROVE Fifo!Next
    <3>1. buf \in Seq(Byte) BY BuffersAreSequences
    <3> DEFINE m == Least(Len(buf), AvailableWriteSize(ring))
    <3>2. /\ RingWrite(ring, buf).count = m
          /\ Contents(RingWrite(ring, buf).ring) = Contents(ring) \o SubSeq(buf, 1, m)
      BY <2>1, <3>1, RingWriteFacts
    <3>3. m = Fifo!Least(Len(buf), (Size - 1) - Len(Contents(ring)))
      BY <2>2 DEF Least, Fifo!Least
    <3> HIDE DEF m
    <3>4. Contents(ring)' = Contents(ring) \o SubSeq(buf, 1, m)
      BY <2>3, <3>2 DEF Write
    <3>5. returned' = [count |-> m, bytes |-> <<>>]
      BY <2>3, <3>2 DEF Write
    <3>6. Fifo!Put(buf) BY <3>3, <3>4, <3>5 DEF Fifo!Put
    <3> QED BY <3>6 DEF Fifo!Next, Fifo!Buffers, Buffers
  <2>4. ASSUME NEW buflen \in 0..MaxLen, Read(buflen) PROVE Fifo!Next
    <3>1. buflen \in Nat BY RingAssumption
    <3> DEFINE m == Least(buflen, AvailableReadSize(ring))
               c == Contents(ring)
    <3>2. /\ RingRead(ring, buflen).bytes = SubSeq(c, 1, m)
          /\ Len(RingRead(ring, buflen).bytes) = m
          /\ Contents(RingRead(ring, buflen).ring) = SubSeq(c, m + 1, Len(c))
      BY <2>1, <3>1, RingReadFacts
    <3>3. m = Fifo!Least(buflen, Len(Contents(ring)))
      BY <2>2 DEF Least, Fifo!Least
    <3> HIDE DEF m
    <3>4. Contents(ring)' = SubSeq(Contents(ring), m + 1, Len(Contents(ring)))
      BY <2>4, <3>2 DEF Read
    <3>5. returned' = [count |-> m, bytes |-> SubSeq(Contents(ring), 1, m)]
      BY <2>4, <3>2 DEF Read
    <3>6. Fifo!Get(buflen) BY <3>3, <3>4, <3>5 DEF Fifo!Get
    <3> QED BY <3>6 DEF Fifo!Next
  <2>5. CASE UNCHANGED ringVars
    BY <2>5 DEF ringVars, Fifo!vars
  <2> QED BY <2>3, <2>4, <2>5 DEF RingNext
<1> QED BY <1>1, <1>2, RingTypeCorrect, PTL DEF RingSpec, ImplementsFifo, Fifo!Spec
===============================================================================
