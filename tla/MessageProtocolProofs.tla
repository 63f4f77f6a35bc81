------------------------- MODULE MessageProtocolProofs -------------------------
(***************************************************************************)
(* Theorems about MessageProtocol.                                          *)
(***************************************************************************)
EXTENDS MessageProtocol, BasicLemmas

-------------------------------------------------------------------------------
\* The recursive definitions of the format, unfolded.

(***************************************************************************)
(* Division by the base, as the provers use it.                             *)
(***************************************************************************)
LEMMA DivFacts ==
  ASSUME NEW n \in Nat
  PROVE  /\ n \div Base \in Nat /\ n % Base \in Byte
         /\ n = (n \div Base) * Base + (n % Base)
<1>1. Base \in Nat \ {0}
  BY ProtocolAssumption
<1> QED BY <1>1 DEF Byte

(***************************************************************************)
(* n >> 8 * i, one byte at a time.                                          *)
(***************************************************************************)
LEMMA ShiftedFacts ==
  ASSUME NEW n \in Nat
  PROVE  /\ Shifted(n)[0] = n
         /\ \A i \in 1..WordSize : Shifted(n)[i] = Shifted(n)[i - 1] \div Base
         /\ \A i \in 0..WordSize : Shifted(n)[i] \in Nat
<1> DEFINE Body(f, i) == IF i = 0 THEN n ELSE f[i - 1] \div Base
           step == [i \in 1..WordSize |-> [v \in Nat |-> v \div Base]]
<1>1. Base \in Nat /\ Base > 0 /\ WordSize \in Nat
  BY ProtocolAssumption
<1>2. step \in [1..WordSize -> [Nat -> Nat]]
  BY DivFacts
<1>3. \A v \in Nat, i \in 1..WordSize : step[i][v] = v \div Base
  OBVIOUS
<1> HIDE DEF step
<1>4. PICK f : Recursive(f, WordSize, Nat, n, step)
  BY <1>1, <1>2, Recursion
<1>5. ASSUME NEW i \in 0..WordSize PROVE f[i] = Body(f, i)
  <2>1. CASE i = 0
    BY <1>4, <2>1 DEF Recursive
  <2>2. CASE i # 0
    <3>1. i \in 1..WordSize /\ f[i - 1] \in Nat
      BY <1>1, <1>4, <2>2 DEF Recursive
    <3>2. f[i] = f[i - 1] \div Base
      BY <3>1, <1>3, <1>4 DEF Recursive
    <3> QED BY <2>2, <3>2
  <2> QED BY <2>1, <2>2
<1>6. f = [i \in 0..WordSize |-> f[i]]
  BY <1>4 DEF Recursive
<1> HIDE DEF Body
<1>7. f = [i \in 0..WordSize |-> Body(f, i)]
  BY <1>5, <1>6
<1>8. Shifted(n) = CHOOSE g : g = [i \in 0..WordSize |-> Body(g, i)]
  BY DEF Shifted, Body
<1>9. Shifted(n) = [i \in 0..WordSize |-> Body(Shifted(n), i)]
  BY <1>7, <1>8
<1>10. \A i \in 0..WordSize : Shifted(n)[i] = Body(Shifted(n), i)
  BY <1>9
<1>11. Shifted(n)[0] = n
  BY <1>1, <1>10 DEF Body
<1>12. ASSUME NEW i \in 1..WordSize PROVE Shifted(n)[i] = Shifted(n)[i - 1] \div Base
  <2>1. i \in 0..WordSize /\ i # 0
    BY <1>1
  <2> QED BY <2>1, <1>10 DEF Body
<1>13. \A i \in 1..WordSize : Shifted(n)[i - 1] \in Nat => Shifted(n)[i] \in Nat
  BY <1>12, DivFacts
<1>14. \A i \in 0..WordSize : Shifted(n)[i] \in Nat
  BY <1>1, <1>11, <1>13, StaysIn
<1> QED BY <1>11, <1>12, <1>14

(***************************************************************************)
(* The bytes of a word, from the most significant one.                      *)
(***************************************************************************)
LEMMA WordValueFacts ==
  ASSUME NEW w \in Seq(Byte)
  PROVE  /\ WordValue(w) \in Nat
         /\ \E v : /\ v[0] = 0 /\ WordValue(w) = v[Len(w)]
                   /\ \A i \in 1..Len(w) : v[i] = v[i - 1] * Base + w[Len(w) + 1 - i]
<1> DEFINE n == Len(w)
           Body(f, i) == IF i = 0 THEN 0 ELSE f[i - 1] * Base + w[n + 1 - i]
           step == [i \in 1..n |-> [x \in Nat |-> x * Base + w[n + 1 - i]]]
           v == CHOOSE g : g = [i \in 0..n |-> Body(g, i)]
<1>1. Base \in Nat /\ n \in Nat
  BY ProtocolAssumption
<1>2. \A i \in 1..n : w[n + 1 - i] \in Nat
  <2> TAKE i \in 1..n
  <2>1. n + 1 - i \in 1..n
    BY <1>1
  <2>2. w[n + 1 - i] \in Byte
    BY <2>1, ElementOfSeq
  <2> QED BY <1>1, <2>2 DEF Byte
<1>3. \A x \in Nat, i \in 1..n : step[i][x] = x * Base + w[n + 1 - i] /\ x * Base + w[n + 1 - i] \in Nat
  BY <1>1, <1>2
<1>4. step \in [1..n -> [Nat -> Nat]]
  BY <1>3
<1> HIDE DEF step, n
<1>5. PICK f : Recursive(f, n, Nat, 0, step)
  BY <1>1, <1>4, Recursion
<1>6. ASSUME NEW i \in 0..n PROVE f[i] = Body(f, i)
  <2>1. CASE i = 0
    BY <1>5, <2>1 DEF Recursive
  <2>2. CASE i # 0
    <3>1. i \in 1..n /\ f[i - 1] \in Nat
      BY <1>1, <1>5, <2>2 DEF Recursive
    <3>2. f[i] = f[i - 1] * Base + w[n + 1 - i]
      BY <3>1, <1>3, <1>5 DEF Recursive
    <3> QED BY <2>2, <3>2
  <2> QED BY <2>1, <2>2
<1>7. f = [i \in 0..n |-> f[i]]
  BY <1>5 DEF Recursive
<1>8. WordValue(w) = v[n]
  BY DEF WordValue, n
<1> HIDE DEF Body
<1>9. f = [i \in 0..n |-> Body(f, i)]
  BY <1>6, <1>7
<1>10. v = [i \in 0..n |-> Body(v, i)]
  BY <1>9
<1> HIDE DEF v
<1>11. \A i \in 0..n : v[i] = Body(v, i)
  BY <1>10
<1>12. v[0] = 0
  BY <1>1, <1>11 DEF Body
<1>13. ASSUME NEW i \in 1..n PROVE v[i] = v[i - 1] * Base + w[n + 1 - i]
  <2>1. i \in 0..n /\ i # 0
    BY <1>1
  <2> QED BY <2>1, <1>11 DEF Body
<1>14. \A i \in 1..n : v[i - 1] \in Nat => v[i] \in Nat
  BY <1>13, <1>3
<1>15. \A i \in 0..n : v[i] \in Nat
  <2>1. v[0] \in Nat
    BY <1>12
  <2> QED BY <1>1, <2>1, <1>14, StaysIn
<1>16. WordValue(w) \in Nat
  BY <1>1, <1>8, <1>15
<1> QED BY <1>8, <1>12, <1>13, <1>16 DEF n

(***************************************************************************)
(* A word is a sequence of WordSize bytes.                                  *)
(***************************************************************************)
LEMMA WordIsBytes ==
  ASSUME NEW n \in Nat
  PROVE  /\ Word(n) \in Seq(Byte) /\ Len(Word(n)) = WordSize
         /\ \A i \in 1..WordSize : Word(n)[i] = Shifted(n)[i - 1] % Base
<1>1. WordSize \in Nat
  BY ProtocolAssumption
<1>2. \A i \in 1..WordSize : Shifted(n)[i - 1] % Base \in Byte
  <2> TAKE i \in 1..WordSize
  <2>1. i - 1 \in 0..WordSize
    BY <1>1
  <2>2. Shifted(n)[i - 1] \in Nat
    BY <2>1, ShiftedFacts
  <2> QED BY <2>2, DivFacts
<1> QED BY <1>1, <1>2 DEF Word

(***************************************************************************)
(* What was stored as a uint32_t is read back, if it fits                   *)
(* (message.cpp:105 and :169).                                              *)
(***************************************************************************)
LEMMA WordRoundTrip ==
  ASSUME NEW n \in Nat, WordHolds(n)
  PROVE  WordValue(Word(n)) = n
<1>1. WordSize \in Nat /\ Base \in Nat
  BY ProtocolAssumption
<1>2. /\ Word(n) \in Seq(Byte) /\ Len(Word(n)) = WordSize
      /\ \A i \in 1..WordSize : Word(n)[i] = Shifted(n)[i - 1] % Base
  BY WordIsBytes
<1>3. PICK v : /\ v[0] = 0 /\ WordValue(Word(n)) = v[WordSize]
               /\ \A i \in 1..WordSize : v[i] = v[i - 1] * Base + Word(n)[WordSize + 1 - i]
  BY <1>2, WordValueFacts
<1> DEFINE s == Shifted(n)
           T == {i \in 0..WordSize : v[i] = s[WordSize - i]}
<1>4. /\ s[0] = n /\ s[WordSize] = 0
      /\ \A i \in 1..WordSize : s[i] = s[i - 1] \div Base
      /\ \A i \in 0..WordSize : s[i] \in Nat
  BY ShiftedFacts DEF WordHolds
<1> HIDE DEF s
<1>5. 0 \in T
  BY <1>1, <1>3, <1>4
<1>6. ASSUME NEW i \in 0..(WordSize - 1), i \in T PROVE i + 1 \in T
  <2> DEFINE k == WordSize - i
  <2>1. /\ i + 1 \in 0..WordSize /\ i + 1 \in 1..WordSize /\ (i + 1) - 1 = i
        /\ k \in 1..WordSize /\ k - 1 \in 0..WordSize
        /\ WordSize + 1 - (i + 1) = k /\ WordSize - (i + 1) = k - 1
    BY <1>1
  <2>2. v[i] = s[k]
    BY <1>6
  <2> HIDE DEF k
  <2>3. v[i + 1] = v[i] * Base + Word(n)[k]
    BY <1>3, <2>1
  <2>4. Word(n)[k] = s[k - 1] % Base /\ s[k] = s[k - 1] \div Base /\ s[k - 1] \in Nat
    BY <1>2, <1>4, <2>1 DEF s
  <2>5. s[k - 1] = (s[k - 1] \div Base) * Base + (s[k - 1] % Base)
    BY <2>4, DivFacts
  <2>6. v[i + 1] = s[k - 1]
    BY <2>2, <2>3, <2>4, <2>5
  <2> QED BY <2>1, <2>6
<1> HIDE DEF T
<1>7. \A i \in 0..WordSize : i \in T
  BY <1>1, <1>5, <1>6, UpTo
<1>8. v[WordSize] = s[WordSize - WordSize] /\ WordSize - WordSize = 0
  BY <1>1, <1>7 DEF T
<1> QED BY <1>3, <1>4, <1>8

(***************************************************************************)
(* Where the frames of a message end in its buffer.                         *)
(***************************************************************************)
LEMMA FrameEndsFacts ==
  ASSUME NEW m \in Seq(Seq(Byte))
  PROVE  /\ FrameEnds(m)[0] = WordSize
         /\ \A i \in 1..Len(m) : FrameEnds(m)[i] = FrameEnds(m)[i - 1] + WordSize + Len(m[i])
         /\ \A i \in 0..Len(m) : FrameEnds(m)[i] \in Nat
         /\ MessageSize(m) \in Nat
<1> DEFINE n == Len(m)
           Body(f, i) == IF i = 0 THEN WordSize ELSE f[i - 1] + WordSize + Len(m[i])
           step == [i \in 1..n |-> [x \in Nat |-> x + WordSize + Len(m[i])]]
           e == FrameEnds(m)
<1>1. WordSize \in Nat /\ n \in Nat
  BY ProtocolAssumption
<1>2. \A i \in 1..n : Len(m[i]) \in Nat
  BY ElementOfSeq
<1>3. ASSUME NEW x \in Nat, NEW i \in 1..n
      PROVE  step[i][x] = x + WordSize + Len(m[i]) /\ x + WordSize + Len(m[i]) \in Nat
  <2>1. Len(m[i]) \in Nat
    BY <1>2
  <2>2. x + WordSize + Len(m[i]) \in Nat
    <3>1. \A y, z \in Nat : x + y + z \in Nat
      OBVIOUS
    <3> QED BY <1>1, <2>1, <3>1
  <2>3. step[i][x] = x + WordSize + Len(m[i])
    OBVIOUS
  <2> QED BY <2>2, <2>3
<1>4. step \in [1..n -> [Nat -> Nat]]
  BY <1>3
<1> HIDE DEF step, n
<1>5. PICK f : Recursive(f, n, Nat, WordSize, step)
  BY <1>1, <1>4, Recursion
<1>6. ASSUME NEW i \in 0..n PROVE f[i] = Body(f, i)
  <2>1. CASE i = 0
    BY <1>5, <2>1 DEF Recursive
  <2>2. CASE i # 0
    <3>1. i \in 1..n /\ f[i - 1] \in Nat
      BY <1>1, <1>5, <2>2 DEF Recursive
    <3>2. f[i] = f[i - 1] + WordSize + Len(m[i])
      BY <3>1, <1>3, <1>5 DEF Recursive
    <3> QED BY <2>2, <3>2
  <2> QED BY <2>1, <2>2
<1>7. f = [i \in 0..n |-> f[i]]
  BY <1>5 DEF Recursive
<1>8. e = CHOOSE g : g = [i \in 0..n |-> Body(g, i)]
  BY DEF FrameEnds, n
<1> HIDE DEF Body, e
<1>9. f = [i \in 0..n |-> Body(f, i)]
  BY <1>6, <1>7
<1>10. e = [i \in 0..n |-> Body(e, i)]
  BY <1>8, <1>9
<1>11. \A i \in 0..n : e[i] = Body(e, i)
  BY <1>10
<1>12. e[0] = WordSize
  BY <1>1, <1>11 DEF Body
<1>13. ASSUME NEW i \in 1..n PROVE e[i] = e[i - 1] + WordSize + Len(m[i])
  <2>1. i \in 0..n /\ i # 0
    BY <1>1
  <2> QED BY <2>1, <1>11 DEF Body
<1>14. \A i \in 1..n : e[i - 1] \in Nat => e[i] \in Nat
  BY <1>13, <1>3
<1>15. \A i \in 0..n : e[i] \in Nat
  <2>1. e[0] \in Nat
    BY <1>1, <1>12
  <2> QED BY <1>1, <2>1, <1>14, StaysIn
<1>16. e[n] \in Nat
  BY <1>1, <1>15
<1> QED BY <1>12, <1>13, <1>15, <1>16 DEF n, e, MessageSize

(***************************************************************************)
(* The buffer of writeMessage, frame by frame.                              *)
(***************************************************************************)
LEMMA WrittenFacts ==
  ASSUME NEW m \in Seq(Seq(Byte))
  PROVE  /\ Written(m)[0] = Word(Len(m))
         /\ \A i \in 1..Len(m) : Written(m)[i] = Written(m)[i - 1] \o (Word(Len(m[i])) \o m[i])
<1> DEFINE n == Len(m)
           piece(i) == Word(Len(m[i])) \o m[i]
           Body(f, i) == IF i = 0 THEN Word(n) ELSE f[i - 1] \o piece(i)
           step == [i \in 1..n |-> [x \in Seq(Byte) |-> x \o piece(i)]]
           b == Written(m)
<1>1. n \in Nat
  OBVIOUS
<1>2. \A i \in 1..n : piece(i) \in Seq(Byte)
  <2> TAKE i \in 1..n
  <2>1. m[i] \in Seq(Byte) /\ Len(m[i]) \in Nat
    BY ElementOfSeq
  <2>2. Word(Len(m[i])) \in Seq(Byte)
    BY <2>1, WordIsBytes
  <2> QED BY <2>1, <2>2, ConcatProperties
<1>3. b = CHOOSE g : g = [i \in 0..n |-> Body(g, i)]
  BY DEF Written
<1>4. Word(n) \in Seq(Byte)
  BY <1>1, WordIsBytes
<1> HIDE DEF piece, n, b
<1>5. \A x \in Seq(Byte), i \in 1..n : step[i][x] = x \o piece(i) /\ x \o piece(i) \in Seq(Byte)
  BY <1>2, ConcatProperties
<1>6. step \in [1..n -> [Seq(Byte) -> Seq(Byte)]]
  BY <1>5
<1> HIDE DEF step
<1>7. PICK f : Recursive(f, n, Seq(Byte), Word(n), step)
  BY <1>1, <1>4, <1>6, Recursion
<1>8. ASSUME NEW i \in 0..n PROVE f[i] = Body(f, i)
  <2>1. CASE i = 0
    BY <1>7, <2>1 DEF Recursive
  <2>2. CASE i # 0
    <3>1. i \in 1..n /\ i - 1 \in 0..n
      BY <1>1, <2>2
    <3>2. f[i - 1] \in Seq(Byte)
      BY <3>1, <1>7 DEF Recursive
    <3>3. f[i] = step[i][f[i - 1]]
      BY <3>1, <1>7 DEF Recursive
    <3>4. f[i] = f[i - 1] \o piece(i)
      BY <3>1, <3>2, <3>3, <1>5
    <3> QED BY <2>2, <3>4
  <2> QED BY <2>1, <2>2
<1>9. f = [i \in 0..n |-> f[i]]
  BY <1>7 DEF Recursive
<1> HIDE DEF Body
<1>10. f = [i \in 0..n |-> Body(f, i)]
  BY <1>8, <1>9
<1>11. b = [i \in 0..n |-> Body(b, i)]
  BY <1>3, <1>10
<1>12. \A i \in 0..n : b[i] = Body(b, i)
  BY <1>11
<1>13. b[0] = Word(n)
  BY <1>1, <1>12 DEF Body
<1>14. ASSUME NEW i \in 1..n PROVE b[i] = b[i - 1] \o piece(i)
  <2>1. i \in 0..n /\ i # 0
    BY <1>1
  <2> QED BY <2>1, <1>12 DEF Body
<1> QED BY <1>13, <1>14 DEF n, b, piece

(***************************************************************************)
(* The layout of a buffer (message.cpp:102-115): its length is messageSize, *)
(* the count comes first, and behind each frame come the length and the     *)
(* bytes of the next.                                                       *)
(***************************************************************************)
LEMMA Layout ==
  ASSUME NEW m \in Seq(Seq(Byte))
  PROVE  /\ WriteMessage(m) \in Seq(Byte) /\ Len(WriteMessage(m)) = MessageSize(m)
         /\ Found(WriteMessage(m), 0, Word(Len(m)))
         /\ \A i \in 0..Len(m) : FrameEnds(m)[i] <= MessageSize(m)
         /\ \A i \in 1..Len(m) :
              /\ Found(WriteMessage(m), FrameEnds(m)[i - 1], Word(Len(m[i])))
              /\ Found(WriteMessage(m), FrameEnds(m)[i - 1] + WordSize, m[i])
<1> DEFINE n == Len(m)
           c == Written(m)
           p == [i \in 1..n |-> Word(Len(m[i])) \o m[i]]
           e == FrameEnds(m)
<1>1. WordSize \in Nat /\ n \in Nat
  BY ProtocolAssumption
<1>2. \A i \in 1..n : /\ m[i] \in Seq(Byte) /\ Len(m[i]) \in Nat
                      /\ Word(Len(m[i])) \in Seq(Byte) /\ Len(Word(Len(m[i]))) = WordSize
  BY ElementOfSeq, WordIsBytes
<1>3. Word(n) \in Seq(Byte) /\ Len(Word(n)) = WordSize
  BY <1>1, WordIsBytes
<1>4. /\ c[0] = Word(n)
      /\ \A i \in 1..n : c[i] = c[i - 1] \o (Word(Len(m[i])) \o m[i])
  BY WrittenFacts
<1>5. \A i \in 1..n : /\ p[i] = Word(Len(m[i])) \o m[i] /\ p[i] \in Seq(Byte)
                      /\ Len(p[i]) = WordSize + Len(m[i])
  <2> TAKE i \in 1..n
  <2>1. p[i] = Word(Len(m[i])) \o m[i]
    OBVIOUS
  <2> DEFINE w == Word(Len(m[i]))
             f == m[i]
  <2>2. w \in Seq(Byte) /\ Len(w) = WordSize /\ f \in Seq(Byte)
    BY <1>2
  <2> HIDE DEF p, w, f
  <2>3. w \o f \in Seq(Byte) /\ Len(w \o f) = WordSize + Len(f)
    BY <2>2, ConcatProperties
  <2> QED BY <2>1, <2>3 DEF w, f
<1>6. /\ e[0] = WordSize
      /\ \A i \in 1..n : e[i] = e[i - 1] + WordSize + Len(m[i])
      /\ \A i \in 0..n : e[i] \in Nat
  BY FrameEndsFacts
<1>7. WriteMessage(m) = c[n] /\ MessageSize(m) = e[n]
  BY DEF WriteMessage, MessageSize
<1> HIDE DEF n, c, p, e
<1>8. /\ \A i \in 0..n : c[i] \in Seq(Byte)
      /\ \A i \in 1..n : Len(c[i]) = Len(c[i - 1]) + Len(p[i])
      /\ \A i \in 0..n : \A k \in i..n : Found(c[k], 0, c[i])
      /\ \A i \in 1..n : \A k \in i..n : Found(c[k], Len(c[i - 1]), p[i])
  <2>1. c[0] \in Seq(Byte)
    BY <1>3, <1>4
  <2>2. \A i \in 1..n : p[i] \in Seq(Byte) /\ c[i] = c[i - 1] \o p[i]
    BY <1>4, <1>5
  <2> QED BY <1>1, <2>1, <2>2, Pieces
<1>9. \A i \in 0..n : Len(c[i]) = e[i]
  <2> DEFINE T == {i \in 0..n : Len(c[i]) = e[i]}
  <2>1. 0 \in T
    BY <1>1, <1>3, <1>4, <1>6
  <2>2. ASSUME NEW i \in 0..(n - 1), i \in T PROVE i + 1 \in T
    <3>1. i + 1 \in 1..n /\ i + 1 \in 0..n /\ (i + 1) - 1 = i /\ i \in 0..n
      BY <1>1
    <3>2. Len(c[i]) = e[i] /\ e[i] \in Nat
      BY <2>2, <3>1, <1>6
    <3>3. Len(c[i + 1]) = Len(c[i]) + Len(p[i + 1]) /\ Len(p[i + 1]) = WordSize + Len(m[i + 1])
      BY <3>1, <1>5, <1>8
    <3>4. e[i + 1] = e[i] + WordSize + Len(m[i + 1]) /\ Len(m[i + 1]) \in Nat
      BY <3>1, <1>2, <1>6
    <3>5. Len(c[i + 1]) = e[i + 1]
      BY <3>2, <3>3, <3>4, <1>1
    <3> QED BY <3>1, <3>5
  <2> HIDE DEF T
  <2>3. \A i \in 0..n : i \in T
    BY <1>1, <2>1, <2>2, UpTo
  <2> QED BY <2>3 DEF T
<1>10. n \in 0..n /\ 0 \in 0..n /\ n \in 0..n /\ \A i \in 0..n : n \in i..n
  BY <1>1
<1>11. c[n] \in Seq(Byte) /\ Len(c[n]) = e[n]
  BY <1>8, <1>9, <1>10
<1>12. Found(c[n], 0, Word(n))
  BY <1>4, <1>8, <1>10
<1>13. \A i \in 0..n : e[i] <= e[n]
  <2> TAKE i \in 0..n
  <2>1. Found(c[n], 0, c[i])
    BY <1>8, <1>10
  <2>2. 0 + Len(c[i]) <= Len(c[n])
    BY <2>1 DEF Found
  <2> QED BY <2>2, <1>6, <1>9, <1>10
<1>14. ASSUME NEW i \in 1..n
       PROVE  /\ Found(c[n], e[i - 1], Word(Len(m[i])))
              /\ Found(c[n], e[i - 1] + WordSize, m[i])
  <2>1. n \in i..n /\ i - 1 \in 0..n
    BY <1>1
  <2>2. Found(c[n], e[i - 1], p[i]) /\ e[i - 1] \in Nat
    BY <2>1, <1>6, <1>8, <1>9
  <2> DEFINE w == Word(Len(m[i]))
             f == m[i]
  <2>3. w \in Seq(Byte) /\ Len(w) = WordSize /\ f \in Seq(Byte) /\ p[i] = w \o f /\ p[i] \in Seq(Byte)
    BY <1>2, <1>5
  <2> HIDE DEF w, f
  <2>4. Found(p[i], 0, w)
    <3>1. Found(w, 0, w)
      BY <2>3 DEF Found
    <3> QED BY <3>1, <2>3, FoundBefore, 0 \in Nat
  <2>5. Found(p[i], WordSize, f)
    BY <2>3, FoundBehind
  <2>6. Found(c[n], e[i - 1] + 0, w)
    BY <2>2, <2>3, <2>4, <1>11, FoundWithin, 0 \in Nat
  <2>7. Found(c[n], e[i - 1] + WordSize, f)
    BY <2>2, <2>3, <2>5, <1>1, <1>11, FoundWithin
  <2>8. e[i - 1] + 0 = e[i - 1]
    BY <2>2
  <2> QED BY <2>6, <2>7, <2>8 DEF w, f
<1> QED BY <1>7, <1>11, <1>12, <1>13, <1>14 DEF n, e

-------------------------------------------------------------------------------
\* The messages that the line takes, and their bytes one behind the other.

(***************************************************************************)
(* The messages that the line takes, one message at a time.                 *)
(***************************************************************************)
LEMMA TakenOfFacts ==
  ASSUME NEW s \in Seq(Messages)
  PROVE  /\ TakenOf(s)[0] = <<>>
         /\ \A i \in 1..Len(s) : TakenOf(s)[i] = IF Fits(s[i]) THEN Append(TakenOf(s)[i - 1], s[i])
                                                 ELSE TakenOf(s)[i - 1]
         /\ \A i \in 0..Len(s) : TakenOf(s)[i] \in Seq(Messages)
<1> DEFINE n == Len(s)
           Next1(x, i) == IF Fits(s[i]) THEN Append(x, s[i]) ELSE x
           Body(f, i) == IF i = 0 THEN <<>> ELSE Next1(f[i - 1], i)
           step == [i \in 1..n |-> [x \in Seq(Messages) |-> Next1(x, i)]]
           b == TakenOf(s)
<1>1. n \in Nat
  OBVIOUS
<1>2. ASSUME NEW x \in Seq(Messages), NEW i \in 1..n PROVE Next1(x, i) \in Seq(Messages)
  <2>1. s[i] \in Messages
    BY ElementOfSeq
  <2>2. Append(x, s[i]) \in Seq(Messages)
    BY <2>1, AppendProperties
  <2> QED BY <2>2
<1>3. b = CHOOSE g : g = [i \in 0..n |-> Body(g, i)]
  BY DEF TakenOf
<1>4. <<>> \in Seq(Messages)
  OBVIOUS
<1> HIDE DEF Next1, n, b
<1>5. \A x \in Seq(Messages), i \in 1..n : step[i][x] = Next1(x, i)
  OBVIOUS
<1>6. step \in [1..n -> [Seq(Messages) -> Seq(Messages)]]
  BY <1>2
<1> HIDE DEF step
<1>7. PICK f : Recursive(f, n, Seq(Messages), <<>>, step)
  BY <1>1, <1>4, <1>6, Recursion
<1>8. ASSUME NEW i \in 0..n PROVE f[i] = Body(f, i)
  <2>1. CASE i = 0
    BY <1>7, <2>1 DEF Recursive
  <2>2. CASE i # 0
    <3>1. i \in 1..n /\ i - 1 \in 0..n
      BY <1>1, <2>2
    <3>2. f[i - 1] \in Seq(Messages)
      BY <3>1, <1>7 DEF Recursive
    <3>3. f[i] = step[i][f[i - 1]]
      BY <3>1, <1>7 DEF Recursive
    <3>4. f[i] = Next1(f[i - 1], i)
      BY <3>1, <3>2, <3>3, <1>5
    <3> QED BY <2>2, <3>4
  <2> QED BY <2>1, <2>2
<1>9. f = [i \in 0..n |-> f[i]]
  BY <1>7 DEF Recursive
<1> HIDE DEF Body
<1>10. f = [i \in 0..n |-> Body(f, i)]
  BY <1>8, <1>9
<1>11. b = [i \in 0..n |-> Body(b, i)]
  BY <1>3, <1>10
<1>12. \A i \in 0..n : b[i] = Body(b, i)
  BY <1>11
<1>13. b[0] = <<>>
  BY <1>1, <1>12 DEF Body
<1>14. ASSUME NEW i \in 1..n PROVE b[i] = Next1(b[i - 1], i)
  <2>1. i \in 0..n /\ i # 0
    BY <1>1
  <2> QED BY <2>1, <1>12 DEF Body
<1>15. \A i \in 1..n : b[i - 1] \in Seq(Messages) => b[i] \in Seq(Messages)
  BY <1>2, <1>14
<1>16. \A i \in 0..n : b[i] \in Seq(Messages)
  <2>1. b[0] \in Seq(Messages)
    BY <1>4, <1>13
  <2> QED BY <1>1, <1>15, <2>1, StaysIn
<1> QED BY <1>13, <1>14, <1>16 DEF n, b, Next1

(***************************************************************************)
(* Whether the line takes a message does not depend on those behind it.     *)
(***************************************************************************)
LEMMA TakenAppend ==
  ASSUME NEW s \in Seq(Messages), NEW m \in Messages
  PROVE  Taken(Append(s, m)) = IF Fits(m) THEN Append(Taken(s), m) ELSE Taken(s)
<1> DEFINE n == Len(s)
           t == Append(s, m)
           f == TakenOf(s)
           g == TakenOf(t)
           T == {i \in 0..n : g[i] = f[i]}
<1>1. /\ n \in Nat /\ t \in Seq(Messages) /\ Len(t) = n + 1
      /\ t[n + 1] = m /\ \A i \in 1..n : t[i] = s[i]
  BY AppendProperties
<1>2. f[0] = <<>> /\ \A i \in 1..n : f[i] = IF Fits(s[i]) THEN Append(f[i - 1], s[i]) ELSE f[i - 1]
  BY TakenOfFacts
<1> HIDE DEF t, f, n
<1>3. g[0] = <<>> /\ \A i \in 1..(n + 1) : g[i] = IF Fits(t[i]) THEN Append(g[i - 1], t[i]) ELSE g[i - 1]
  BY <1>1, TakenOfFacts
<1> HIDE DEF g
<1>4. 0 \in T
  BY <1>1, <1>2, <1>3
<1>5. ASSUME NEW i \in 0..(n - 1), i \in T PROVE i + 1 \in T
  <2>1. i + 1 \in 0..n /\ i + 1 \in 1..n /\ i + 1 \in 1..(n + 1) /\ (i + 1) - 1 = i
    BY <1>1
  <2>2. g[i] = f[i] /\ t[i + 1] = s[i + 1]
    BY <1>1, <1>5, <2>1
  <2>3. g[i + 1] = f[i + 1]
    BY <1>2, <1>3, <2>1, <2>2
  <2> QED BY <2>1, <2>3
<1> HIDE DEF T
<1>6. \A i \in 0..n : i \in T
  BY <1>1, <1>4, <1>5, UpTo
<1>7. g[n] = f[n]
  BY <1>1, <1>6 DEF T
<1>8. n + 1 \in 1..(n + 1) /\ (n + 1) - 1 = n
  BY <1>1
<1>9. g[n + 1] = IF Fits(m) THEN Append(f[n], m) ELSE f[n]
  BY <1>1, <1>3, <1>7, <1>8
<1>10. Taken(t) = g[n + 1] /\ Taken(s) = f[n]
  BY <1>1 DEF Taken, f, g, n
<1> QED BY <1>9, <1>10 DEF t

(***************************************************************************)
(* The last of the messages that were taken is the last one sent, if the    *)
(* line takes that.                                                         *)
(***************************************************************************)
LEMMA TakenFacts ==
  ASSUME NEW s \in Seq(Messages)
  PROVE  /\ Taken(s) \in Seq(Messages)
         /\ s # <<>> /\ Fits(Last(s)) => Len(Taken(s)) > 0 /\ Taken(s)[Len(Taken(s))] = Last(s)
<1> DEFINE n == Len(s)
           f == TakenOf(s)
<1>1. /\ \A i \in 1..n : f[i] = IF Fits(s[i]) THEN Append(f[i - 1], s[i]) ELSE f[i - 1]
      /\ \A i \in 0..n : f[i] \in Seq(Messages)
  BY TakenOfFacts
<1>2. n \in Nat /\ n \in 0..n
  OBVIOUS
<1>3. Taken(s) = f[n] /\ Last(s) = s[n]
  BY DEF Taken, Last
<1>4. ASSUME s # <<>>, Fits(s[n]) PROVE Len(f[n]) > 0 /\ f[n][Len(f[n])] = s[n]
  <2>1. n \in 1..n /\ n - 1 \in 0..n
    BY <1>4, EmptySeq
  <2>2. f[n - 1] \in Seq(Messages) /\ s[n] \in Messages
    BY <1>1, <2>1, ElementOfSeq
  <2>3. f[n] = Append(f[n - 1], s[n])
    BY <1>1, <1>4, <2>1
  <2> HIDE DEF f, n
  <2> QED BY <2>2, <2>3, AppendProperties
<1> HIDE DEF f, n
<1> QED BY <1>1, <1>2, <1>3, <1>4

\* The buffers of the messages s one behind the other: of the first i, and of all.
Wire(s) ==
  LET w[i \in 0..Len(s)] == IF i = 0 THEN <<>> ELSE w[i - 1] \o WriteMessage(s[i])
  IN  w

(***************************************************************************)
(* The limits of the messages, with the buffers they are written to.        *)
(***************************************************************************)
LEMMA MessageFacts ==
  ASSUME NEW m \in Messages
  PROVE  /\ m \in Seq(Seq(Byte)) /\ WriteMessage(m) \in Seq(Byte)
         /\ Len(WriteMessage(m)) = MessageSize(m)
         /\ MessageSize(m) \in 0..(IntLimit - 1) /\ MessageSize(m) >= WordSize
         /\ WordHolds(Len(m)) /\ \A i \in 1..Len(m) : WordHolds(Len(m[i]))
<1>1. /\ m \in Seq(Seq(Byte)) /\ MessageSize(m) < IntLimit
      /\ WordHolds(Len(m)) /\ \A i \in 1..Len(m) : WordHolds(Len(m[i]))
  BY MessagesAssumption
<1>2. /\ WriteMessage(m) \in Seq(Byte) /\ Len(WriteMessage(m)) = MessageSize(m)
      /\ \A i \in 0..Len(m) : FrameEnds(m)[i] <= MessageSize(m)
  BY <1>1, Layout
<1>3. MessageSize(m) \in Nat /\ FrameEnds(m)[0] = WordSize
  BY <1>1, FrameEndsFacts
<1>4. 0 \in 0..Len(m)
  BY <1>1, LenProperties
<1>5. WordSize <= MessageSize(m)
  BY <1>2, <1>3, <1>4
<1>6. IntLimit \in Nat /\ WordSize \in Nat
  BY ProtocolAssumption
<1>7. MessageSize(m) \in 0..(IntLimit - 1) /\ MessageSize(m) >= WordSize
  BY <1>1, <1>3, <1>5, <1>6
<1> QED BY <1>1, <1>2, <1>7

(***************************************************************************)
(* The bytes of the messages, one message at a time.                        *)
(***************************************************************************)
LEMMA WireFacts ==
  ASSUME NEW s \in Seq(Messages)
  PROVE  /\ Wire(s)[0] = <<>>
         /\ \A i \in 1..Len(s) : Wire(s)[i] = Wire(s)[i - 1] \o WriteMessage(s[i])
<1> DEFINE n == Len(s)
           p == [i \in 1..n |-> WriteMessage(s[i])]
           Body(f, i) == IF i = 0 THEN <<>> ELSE f[i - 1] \o p[i]
           step == [i \in 1..n |-> [x \in Seq(Byte) |-> x \o p[i]]]
           b == Wire(s)
<1>1. n \in Nat
  OBVIOUS
<1>2. \A i \in 1..n : p[i] = WriteMessage(s[i]) /\ p[i] \in Seq(Byte)
  BY ElementOfSeq, MessageFacts
<1>3. b = CHOOSE g : g = [i \in 0..n |-> IF i = 0 THEN <<>> ELSE g[i - 1] \o WriteMessage(s[i])]
  BY DEF Wire
<1>4. <<>> \in Seq(Byte)
  OBVIOUS
<1> HIDE DEF p, n, b
<1>5. \A x \in Seq(Byte), i \in 1..n : step[i][x] = x \o p[i] /\ x \o p[i] \in Seq(Byte)
  BY <1>2, ConcatProperties
<1>6. step \in [1..n -> [Seq(Byte) -> Seq(Byte)]]
  BY <1>5
<1> HIDE DEF step
<1>7. PICK f : Recursive(f, n, Seq(Byte), <<>>, step)
  BY <1>1, <1>4, <1>6, Recursion
<1>8. ASSUME NEW i \in 0..n PROVE f[i] = IF i = 0 THEN <<>> ELSE f[i - 1] \o WriteMessage(s[i])
  <2>1. CASE i = 0
    BY <1>7, <2>1 DEF Recursive
  <2>2. CASE i # 0
    <3>1. i \in 1..n /\ i - 1 \in 0..n
      BY <1>1, <2>2
    <3>2. f[i - 1] \in Seq(Byte)
      BY <3>1, <1>7 DEF Recursive
    <3>3. f[i] = step[i][f[i - 1]]
      BY <3>1, <1>7 DEF Recursive
    <3>4. f[i] = f[i - 1] \o p[i]
      BY <3>1, <3>2, <3>3, <1>5
    <3>5. f[i] = f[i - 1] \o WriteMessage(s[i])
      BY <3>1, <3>4, <1>2
    <3> QED BY <2>2, <3>5
  <2> QED BY <2>1, <2>2
<1>9. f = [i \in 0..n |-> f[i]]
  BY <1>7 DEF Recursive
<1>10. f = [i \in 0..n |-> IF i = 0 THEN <<>> ELSE f[i - 1] \o WriteMessage(s[i])]
  BY <1>8, <1>9
<1>11. b = [i \in 0..n |-> IF i = 0 THEN <<>> ELSE b[i - 1] \o WriteMessage(s[i])]
  BY <1>3, <1>10
<1>12. \A i \in 0..n : b[i] = IF i = 0 THEN <<>> ELSE b[i - 1] \o WriteMessage(s[i])
  BY <1>11
<1>13. b[0] = <<>>
  BY <1>1, <1>12
<1>14. ASSUME NEW i \in 1..n PROVE b[i] = b[i - 1] \o WriteMessage(s[i])
  <2>1. i \in 0..n /\ i # 0
    BY <1>1
  <2> QED BY <2>1, <1>12
<1> QED BY <1>13, <1>14 DEF n, b

(***************************************************************************)
(* Every message lies behind the ones before it.                            *)
(***************************************************************************)
LEMMA WireLayout ==
  ASSUME NEW s \in Seq(Messages)
  PROVE  /\ \A i \in 0..Len(s) : Wire(s)[i] \in Seq(Byte)
         /\ \A i \in 1..Len(s) :
              /\ Len(Wire(s)[i]) = Len(Wire(s)[i - 1]) + MessageSize(s[i])
              /\ Found(Wire(s)[Len(s)], Len(Wire(s)[i - 1]), WriteMessage(s[i]))
         /\ \A i \in 0..Len(s) : Len(Wire(s)[i]) <= Len(Wire(s)[Len(s)])
<1> DEFINE n == Len(s)
           c == Wire(s)
           p == [i \in 1..n |-> WriteMessage(s[i])]
<1>1. n \in Nat /\ \A i \in 0..n : n \in i..n
  OBVIOUS
<1>2. \A i \in 1..n : /\ p[i] = WriteMessage(s[i]) /\ p[i] \in Seq(Byte)
                      /\ Len(p[i]) = MessageSize(s[i])
  BY ElementOfSeq, MessageFacts
<1>3. c[0] = <<>> /\ \A i \in 1..n : c[i] = c[i - 1] \o WriteMessage(s[i])
  BY WireFacts
<1> HIDE DEF n, c, p
<1>4. c[0] \in Seq(Byte)
  BY <1>3
<1>5. \A i \in 1..n : p[i] \in Seq(Byte) /\ c[i] = c[i - 1] \o p[i]
  BY <1>2, <1>3
<1>6. /\ \A i \in 0..n : c[i] \in Seq(Byte)
      /\ \A i \in 1..n : Len(c[i]) = Len(c[i - 1]) + Len(p[i])
      /\ \A i \in 0..n : \A k \in i..n : Found(c[k], 0, c[i])
      /\ \A i \in 1..n : \A k \in i..n : Found(c[k], Len(c[i - 1]), p[i])
  BY <1>1, <1>4, <1>5, Pieces
<1>7. ASSUME NEW i \in 0..n PROVE Len(c[i]) <= Len(c[n])
  <2>1. Found(c[n], 0, c[i])
    BY <1>1, <1>6
  <2>2. 0 + Len(c[i]) <= Len(c[n]) /\ Len(c[i]) \in Nat
    BY <1>6, <2>1 DEF Found
  <2>3. Len(c[n]) \in Nat
    BY <1>1, <1>6
  <2> QED BY <2>2, <2>3
<1>8. ASSUME NEW i \in 1..n
      PROVE  /\ Len(c[i]) = Len(c[i - 1]) + MessageSize(s[i])
             /\ Found(c[n], Len(c[i - 1]), WriteMessage(s[i]))
  <2>1. n \in i..n
    BY <1>1
  <2> QED BY <2>1, <1>2, <1>6
<1> QED BY <1>6, <1>7, <1>8 DEF n, c

(***************************************************************************)
(* One more message adds its bytes at the end.                              *)
(***************************************************************************)
LEMMA WireAppend ==
  ASSUME NEW s \in Seq(Messages), NEW m \in Messages
  PROVE  /\ \A i \in 0..Len(s) : Wire(Append(s, m))[i] = Wire(s)[i]
         /\ Wire(Append(s, m))[Len(s) + 1] = Wire(s)[Len(s)] \o WriteMessage(m)
<1> DEFINE n == Len(s)
           t == Append(s, m)
           f == Wire(s)
           g == Wire(t)
           T == {i \in 0..n : g[i] = f[i]}
<1>1. /\ n \in Nat /\ t \in Seq(Messages) /\ Len(t) = n + 1
      /\ t[n + 1] = m /\ \A i \in 1..n : t[i] = s[i]
  BY AppendProperties
<1>2. f[0] = <<>> /\ \A i \in 1..n : f[i] = f[i - 1] \o WriteMessage(s[i])
  BY WireFacts
<1> HIDE DEF t, f, n
<1>3. g[0] = <<>> /\ \A i \in 1..(n + 1) : g[i] = g[i - 1] \o WriteMessage(t[i])
  BY <1>1, WireFacts
<1> HIDE DEF g
<1>4. 0 \in T
  BY <1>1, <1>2, <1>3
<1>5. ASSUME NEW i \in 0..(n - 1), i \in T PROVE i + 1 \in T
  <2>1. i + 1 \in 0..n /\ i + 1 \in 1..n /\ i + 1 \in 1..(n + 1) /\ (i + 1) - 1 = i
    BY <1>1
  <2>2. g[i] = f[i] /\ t[i + 1] = s[i + 1]
    BY <1>1, <1>5, <2>1
  <2>3. g[i + 1] = f[i + 1]
    BY <1>2, <1>3, <2>1, <2>2
  <2> QED BY <2>1, <2>3
<1> HIDE DEF T
<1>6. \A i \in 0..n : i \in T
  BY <1>1, <1>4, <1>5, UpTo
<1>7. \A i \in 0..n : g[i] = f[i]
  BY <1>6 DEF T
<1>8. n + 1 \in 1..(n + 1) /\ (n + 1) - 1 = n /\ n \in 0..n
  BY <1>1
<1>9. g[n + 1] = f[n] \o WriteMessage(m)
  BY <1>1, <1>3, <1>7, <1>8
<1> QED BY <1>7, <1>9 DEF n, f, g, t

-------------------------------------------------------------------------------
\* The inductive invariant.

\* The records and their ranges; inside a loop readMessage has less than it wants.
RecordsOK ==
  /\ stream \in Seq(Byte) /\ Len(stream) <= Capacity /\ open \subseteq {"in", "out"}
  /\ sent \in Seq(Messages) /\ wrote \in Nat /\ torn \subseteq {"in", "out"}
  /\ sender \in [pc : {"idle", "sending"}, write : {"none", "asleep"},
                 buffer : Seq(Byte), data : Int, towrite : -IntLimit..(IntLimit - 1)]
  /\ reader \in [pc : {"idle", "count", "length", "payload"}, bytes : Seq(Byte),
                 frames : Nat, frameLength : Nat, m : Seq(Seq(Byte))]
  /\ received \in Seq(Seq(Seq(Byte)))
  /\ Len(reader.bytes) < IF reader.pc = "payload" THEN reader.frameLength ELSE WordSize
  /\ reader.pc \in {"length", "payload"} => Len(reader.m) < reader.frames
  /\ reader.pc = "idle" => reader = Idle

\* The buffer is the last message's, which sendMessage has not yet returned for.
BufferOK ==
  sender.pc = "sending" => sent # <<>> /\ sender.buffer = WriteMessage(Last(sent))

\* As long as no write failed: the line takes a message that fits from the front to
\* the end, and nothing of one that does not fit.
ProgressOK ==
  "out" \notin torn /\ sent # <<>> =>
    IF Fits(Last(sent))
    THEN /\ wrote \in 0..MessageSize(Last(sent))
         /\ sender.pc = "sending" => /\ sender.data = wrote
                                     /\ sender.towrite = MessageSize(Last(sent)) - wrote
         /\ sender.pc = "idle" => wrote = MessageSize(Last(sent))
    ELSE sender.pc = "sending" => sender.towrite > Capacity \/ sender.towrite <= 0

\* What of the last message has not yet gone to the line.
Unsent == IF sender.pc = "sending" /\ Fits(Last(sent)) THEN sender.towrite ELSE 0

\* Where in the buffer of the message c the loop of the reader r began.
PlaceIn(c, r) ==
  CASE r.pc = "length"  -> FrameEnds(c)[Len(r.m)]
    [] r.pc = "payload" -> FrameEnds(c)[Len(r.m)] + WordSize
    [] OTHER            -> 0

\* And among the bytes of the messages F, of which those in rec have been read.
Place(F, r, rec) == Len(Wire(F)[Len(rec)]) + PlaceIn(F[Len(rec) + 1], r)

\* The messages read are the first of F, and the one being read is the next.
ReaderFollows(F, r, rec) ==
  /\ Len(rec) <= Len(F) /\ \A i \in 1..Len(rec) : rec[i] = F[i]
  /\ r.pc \in {"length", "payload"} =>
       /\ Len(rec) < Len(F) /\ r.frames = Len(F[Len(rec) + 1])
       /\ \A i \in 1..Len(r.m) : r.m[i] = F[Len(rec) + 1][i]
  /\ r.pc = "payload" => r.frameLength = Len(F[Len(rec) + 1][Len(r.m) + 1])

\* The bytes of F: what was read before the loop of r, r.bytes, those on the line, and
\* the ones that have not been sent.
LineFollows(F, st, unsent, r, rec) ==
  /\ Found(Wire(F)[Len(F)], Place(F, r, rec), r.bytes)
  /\ Found(Wire(F)[Len(F)], Place(F, r, rec) + Len(r.bytes), st)
  /\ Place(F, r, rec) + Len(r.bytes) + Len(st) + unsent = Len(Wire(F)[Len(F)])

\* Reader and line follow the messages that the line takes.
UntornOK ==
  torn = {} => /\ ReaderFollows(Taken(sent), reader, received)
               /\ LineFollows(Taken(sent), stream, Unsent, reader, received)

Inv == RecordsOK /\ BufferOK /\ ProgressOK /\ UntornOK

(***************************************************************************)
(* int towrite wraps around at its limits.                                  *)
(***************************************************************************)
LEMMA ToIntFacts ==
  ASSUME NEW x \in Int
  PROVE  /\ ToInt(x) \in -IntLimit..(IntLimit - 1)
         /\ x \in -IntLimit..(IntLimit - 1) => ToInt(x) = x
         /\ x \in IntLimit..(3 * IntLimit - 1) => ToInt(x) = x - 2 * IntLimit
<1>1. IntLimit \in Nat /\ IntLimit > 0
  BY ProtocolAssumption
<1>2. (x + IntLimit) % (2 * IntLimit) \in 0..(2 * IntLimit - 1)
  BY <1>1
<1>3. ToInt(x) \in -IntLimit..(IntLimit - 1)
  BY <1>1, <1>2 DEF ToInt
<1>4. x \in -IntLimit..(IntLimit - 1) => ToInt(x) = x
  BY <1>1 DEF ToInt
<1>5. x \in IntLimit..(3 * IntLimit - 1) => ToInt(x) = x - 2 * IntLimit
  BY <1>1 DEF ToInt
<1> QED BY <1>3, <1>4, <1>5

(***************************************************************************)
(* The loop of sendMessage keeps its records.                               *)
(***************************************************************************)
LEMMA AdvanceFacts ==
  ASSUME RecordsOK, NEW d \in Int, Advance(d)
  PROVE  /\ sender' \in [pc : {"idle", "sending"}, write : {"none", "asleep"},
                         buffer : Seq(Byte), data : Int, towrite : -IntLimit..(IntLimit - 1)]
         /\ sender'.pc = sender.pc /\ sender'.buffer = sender.buffer
         /\ sender'.data = sender.data + d /\ sender'.towrite = ToInt(sender.towrite - d)
<1>1. sender.data \in Int /\ sender.towrite \in Int
  <2>1. IntLimit \in Nat
    BY ProtocolAssumption
  <2> QED BY <2>1 DEF RecordsOK
<1>2. sender.data + d \in Int /\ sender.towrite - d \in Int
  BY <1>1
<1>3. ToInt(sender.towrite - d) \in -IntLimit..(IntLimit - 1)
  BY <1>2, ToIntFacts
<1> QED BY <1>2, <1>3 DEF RecordsOK, Advance

(***************************************************************************)
(* A write that falls asleep has taken nothing.                             *)
(***************************************************************************)
LEMMA WaitsFacts ==
  ASSUME RecordsOK, WriteWaits
  PROVE  /\ sender' \in [pc : {"idle", "sending"}, write : {"none", "asleep"},
                         buffer : Seq(Byte), data : Int, towrite : -IntLimit..(IntLimit - 1)]
         /\ sender'.pc = sender.pc /\ sender'.buffer = sender.buffer
         /\ sender'.data = sender.data /\ sender'.towrite = sender.towrite
         /\ UNCHANGED <<stream, open, sent, wrote, torn, reader, received>>
BY DEF RecordsOK, WriteWaits, readerVars

(***************************************************************************)
(* A step of readMessage to the next frame keeps the records.               *)
(***************************************************************************)
LEMMA NextFrameRecords ==
  ASSUME RecordsOK, NEW frames \in Nat, NEW m \in Seq(Seq(Byte)), Len(m) <= frames,
         NextFrame(frames, m)
  PROVE  /\ reader' \in [pc : {"idle", "count", "length", "payload"}, bytes : Seq(Byte),
                         frames : Nat, frameLength : Nat, m : Seq(Seq(Byte))]
         /\ received' \in Seq(Seq(Seq(Byte)))
         /\ Len(reader'.bytes) < IF reader'.pc = "payload" THEN reader'.frameLength ELSE WordSize
         /\ reader'.pc \in {"length", "payload"} => Len(reader'.m) < reader'.frames
         /\ reader'.pc = "idle" => reader' = Idle
<1>1. WordSize \in Nat /\ WordSize > 0 /\ Len(m) \in Nat
  BY ProtocolAssumption
<1>2. CASE Len(m) = frames
  <2>1. reader' = Idle /\ received' = Append(received, m)
    BY <1>2 DEF NextFrame
  <2>2. received' \in Seq(Seq(Seq(Byte)))
    BY <2>1, AppendProperties DEF RecordsOK
  <2> QED BY <1>1, <2>1, <2>2 DEF Idle
<1>3. CASE Len(m) # frames
  <2>1. /\ reader' = [Idle EXCEPT !.pc = "length", !.frames = frames, !.m = m]
        /\ received' = received
    BY <1>3 DEF NextFrame
  <2>2. reader' = [pc |-> "length", bytes |-> <<>>, frames |-> frames, frameLength |-> 0, m |-> m]
    BY <2>1 DEF Idle
  <2>3. received' \in Seq(Seq(Seq(Byte)))
    BY <2>1 DEF RecordsOK
  <2> QED BY <1>1, <1>3, <2>2, <2>3
<1> QED BY <1>2, <1>3

(***************************************************************************)
(* What one read moves from the line to readMessage.                        *)
(***************************************************************************)
LEMMA ReadSomeFacts ==
  ASSUME RecordsOK, ReadSome
  PROVE  \E k \in 1..Wanted :
           /\ k \in 0..Len(stream) /\ stream' = SubSeq(stream, k + 1, Len(stream))
           /\ stream' \in Seq(Byte) /\ Len(stream') = Len(stream) - k
           /\ SubSeq(stream, 1, k) \in Seq(Byte) /\ Len(SubSeq(stream, 1, k)) = k
           /\ reader.bytes \o SubSeq(stream, 1, k) \in Seq(Byte)
           /\ Len(reader.bytes \o SubSeq(stream, 1, k)) = Len(reader.bytes) + k
           /\ k = Wanted => Complete(reader.bytes \o SubSeq(stream, 1, k))
           /\ k # Wanted => /\ reader' = [reader EXCEPT !.bytes = reader.bytes \o SubSeq(stream, 1, k)]
                            /\ received' = received
<1>1. PICK k \in 1..Wanted :
        /\ k <= Len(stream)
        /\ stream' = SubSeq(stream, k + 1, Len(stream))
        /\ IF k = Wanted THEN Complete(reader.bytes \o SubSeq(stream, 1, k))
           ELSE /\ reader' = [reader EXCEPT !.bytes = reader.bytes \o SubSeq(stream, 1, k)]
                /\ UNCHANGED received
  BY DEF ReadSome
<1>2. stream \in Seq(Byte) /\ reader.bytes \in Seq(Byte)
  BY DEF RecordsOK
<1>3. Wanted \in Int /\ k \in 0..Len(stream)
  <2>1. WordSize \in Nat /\ reader.frameLength \in Nat /\ Len(reader.bytes) \in Nat
    BY ProtocolAssumption DEF RecordsOK
  <2>2. Wanted \in Int
    BY <2>1 DEF Wanted
  <2>3. Len(stream) \in Nat
    BY <1>2
  <2> QED BY <1>1, <2>2, <2>3
<1>4. Found(stream, 0, stream)
  BY <1>2 DEF Found
<1>5. /\ SubSeq(stream, 1, k) \in Seq(Byte) /\ Len(SubSeq(stream, 1, k)) = k
      /\ SubSeq(stream, k + 1, Len(stream)) \in Seq(Byte)
      /\ Len(SubSeq(stream, k + 1, Len(stream))) = Len(stream) - k
  BY <1>2, <1>3, <1>4, FoundParts, 0 \in Nat
<1>6. /\ reader.bytes \o SubSeq(stream, 1, k) \in Seq(Byte)
      /\ Len(reader.bytes \o SubSeq(stream, 1, k)) = Len(reader.bytes) + k
  <2> DEFINE t == SubSeq(stream, 1, k)
             b == reader.bytes
  <2>1. t \in Seq(Byte) /\ Len(t) = k /\ b \in Seq(Byte)
    BY <1>2, <1>5
  <2> HIDE DEF t, b
  <2>2. b \o t \in Seq(Byte) /\ Len(b \o t) = Len(b) + k
    BY <2>1, ConcatProperties
  <2> QED BY <2>2 DEF t, b
<1> QED BY <1>1, <1>3, <1>5, <1>6

(***************************************************************************)
(* The records stay in their ranges.                                        *)
(***************************************************************************)
LEMMA RecordsStep ==
  ASSUME RecordsOK, [Next]_vars
  PROVE  RecordsOK'
<1>0. /\ WordSize \in Nat /\ WordSize > 0 /\ Base \in Nat /\ IntLimit \in Nat /\ IntLimit > 0
      /\ Capacity \in Nat /\ Failures \subseteq Nat
  BY ProtocolAssumption
<1>1. ASSUME NEW m \in Messages, CallSend(m) PROVE RecordsOK'
  <2>1. WriteMessage(m) \in Seq(Byte) /\ MessageSize(m) \in Int
    BY MessageFacts
  <2>2. ToInt(MessageSize(m)) \in -IntLimit..(IntLimit - 1)
    BY <2>1, ToIntFacts
  <2>3. sender' \in [pc : {"idle", "sending"}, write : {"none", "asleep"},
                     buffer : Seq(Byte), data : Int, towrite : -IntLimit..(IntLimit - 1)]
    BY <1>1, <2>1, <2>2 DEF CallSend
  <2>4. sent' \in Seq(Messages) /\ wrote' \in Nat
    BY <1>1, AppendProperties DEF CallSend, RecordsOK
  <2> QED BY <1>1, <2>3, <2>4 DEF CallSend, RecordsOK, readerVars
<1>2. ASSUME WriteSome PROVE RecordsOK'
  <2>1. PICK k \in 1..sender.towrite, junk \in Byte :
          /\ Len(stream) + k <= Capacity
          /\ stream' = stream \o [i \in 1..k |-> IF sender.data + i \in DOMAIN sender.buffer
                                                 THEN sender.buffer[sender.data + i] ELSE junk]
          /\ Advance(k)
          /\ wrote' = wrote + k
    BY <1>2 DEF WriteSome
  <2>2. k \in Nat
    BY <1>0 DEF RecordsOK
  <2> DEFINE t == [i \in 1..k |-> IF sender.data + i \in DOMAIN sender.buffer
                                  THEN sender.buffer[sender.data + i] ELSE junk]
  <2>3. t \in Seq(Byte) /\ Len(t) = k
    <3>1. sender.buffer \in Seq(Byte)
      BY DEF RecordsOK
    <3>2. \A i \in DOMAIN sender.buffer : sender.buffer[i] \in Byte
      BY <3>1, ElementOfSeq, LenProperties
    <3>3. \A i \in 1..k : t[i] \in Byte
      BY <3>2
    <3>4. t = [i \in 1..k |-> t[i]]
      OBVIOUS
    <3> HIDE DEF t
    <3> QED BY <2>2, <3>3, <3>4
  <2> HIDE DEF t
  <2>4. stream' = stream \o t
    BY <2>1 DEF t
  <2>5. stream \in Seq(Byte)
    BY DEF RecordsOK
  <2>6. stream' \in Seq(Byte) /\ Len(stream') = Len(stream) + k
    BY <2>3, <2>4, <2>5, ConcatProperties
  <2>7. wrote' \in Nat
    BY <2>1, <2>2 DEF RecordsOK
  <2>8. sender' \in [pc : {"idle", "sending"}, write : {"none", "asleep"},
                     buffer : Seq(Byte), data : Int, towrite : -IntLimit..(IntLimit - 1)]
    BY <2>1, <2>2, AdvanceFacts
  <2> QED BY <1>2, <2>1, <2>6, <2>7, <2>8 DEF WriteSome, RecordsOK, readerVars
<1>3. ASSUME WriteTooBig PROVE RecordsOK'
  <2>1. sender' \in [pc : {"idle", "sending"}, write : {"none", "asleep"},
                     buffer : Seq(Byte), data : Int, towrite : -IntLimit..(IntLimit - 1)]
    BY <1>3, AdvanceFacts, -3 \in Int DEF WriteTooBig
  <2> QED BY <1>3, <2>1 DEF WriteTooBig, RecordsOK, readerVars
<1>4. ASSUME WriteFails PROVE RecordsOK'
  <2>1. PICK f \in Failures : Advance(-f)
    BY <1>4 DEF WriteFails
  <2>2. -f \in Int
    BY <1>0
  <2>3. sender' \in [pc : {"idle", "sending"}, write : {"none", "asleep"},
                     buffer : Seq(Byte), data : Int, towrite : -IntLimit..(IntLimit - 1)]
    BY <2>1, <2>2, AdvanceFacts
  <2> QED BY <1>4, <2>3 DEF WriteFails, RecordsOK, readerVars
<1>5. ASSUME SendReturn PROVE RecordsOK'
  BY <1>5 DEF SendReturn, RecordsOK, readerVars
<1>6. ASSUME CallRead PROVE RecordsOK'
  <2>1. reader' = [pc |-> "count", bytes |-> <<>>, frames |-> 0, frameLength |-> 0, m |-> <<>>]
    BY <1>6 DEF CallRead, Idle
  <2> QED BY <1>0, <1>6, <2>1 DEF CallRead, RecordsOK, senderVars
<1>7. ASSUME ReadSome PROVE RecordsOK'
  <2>1. PICK k \in 1..Wanted :
          /\ k \in 0..Len(stream) /\ stream' \in Seq(Byte) /\ Len(stream') = Len(stream) - k
          /\ reader.bytes \o SubSeq(stream, 1, k) \in Seq(Byte)
          /\ Len(reader.bytes \o SubSeq(stream, 1, k)) = Len(reader.bytes) + k
          /\ k = Wanted => Complete(reader.bytes \o SubSeq(stream, 1, k))
          /\ k # Wanted => /\ reader' = [reader EXCEPT !.bytes = reader.bytes \o SubSeq(stream, 1, k)]
                           /\ received' = received
    BY <1>7, ReadSomeFacts
  <2> DEFINE bytes == reader.bytes \o SubSeq(stream, 1, k)
  <2>2. /\ bytes \in Seq(Byte) /\ Len(bytes) = Len(reader.bytes) + k
        /\ k = Wanted => Complete(bytes)
        /\ k # Wanted => reader' = [reader EXCEPT !.bytes = bytes] /\ received' = received
    BY <2>1
  <2> HIDE DEF bytes
  <2>3. Len(stream) \in Nat /\ Len(stream') <= Capacity
    <3>1. Len(stream) \in Nat /\ Len(stream) <= Capacity
      BY DEF RecordsOK
    <3> QED BY <2>1, <3>1, <1>0
  <2>4. /\ reader' \in [pc : {"idle", "count", "length", "payload"}, bytes : Seq(Byte),
                        frames : Nat, frameLength : Nat, m : Seq(Seq(Byte))]
        /\ received' \in Seq(Seq(Seq(Byte)))
        /\ Len(reader'.bytes) < IF reader'.pc = "payload" THEN reader'.frameLength ELSE WordSize
        /\ reader'.pc \in {"length", "payload"} => Len(reader'.m) < reader'.frames
        /\ reader'.pc = "idle" => reader' = Idle
    <3>0. reader.pc \in {"count", "length", "payload"}
      BY <1>7 DEF ReadSome, RecordsOK
    <3>1. CASE k # Wanted
      <4>1. Len(reader.bytes) + k < IF reader.pc = "payload" THEN reader.frameLength ELSE WordSize
        <5>1. Len(reader.bytes) \in Nat /\ reader.frameLength \in Nat
          BY DEF RecordsOK
        <5> DEFINE limit == IF reader.pc = "payload" THEN reader.frameLength ELSE WordSize
        <5>2. limit \in Nat
          BY <1>0, <5>1
        <5>3. Wanted = limit - Len(reader.bytes)
          BY DEF Wanted
        <5> HIDE DEF limit
        <5>4. k \in 1..(limit - Len(reader.bytes)) /\ k # limit - Len(reader.bytes)
          BY <3>1, <5>3
        <5>5. Len(reader.bytes) + k < limit
          BY <5>1, <5>2, <5>4
        <5> QED BY <5>5 DEF limit
      <4> QED BY <2>2, <3>0, <3>1, <4>1 DEF RecordsOK
    <3>2. CASE k = Wanted
      <4>1. Complete(bytes) /\ WordValue(bytes) \in Nat
        BY <2>2, <3>2, WordValueFacts
      <4>2. CASE reader.pc = "count"
        <5>1. NextFrame(WordValue(bytes), <<>>)
          BY <4>1, <4>2 DEF Complete
        <5>2. <<>> \in Seq(Seq(Byte)) /\ Len(<<>>) <= WordValue(bytes)
          BY <4>1
        <5> QED BY <4>1, <5>1, <5>2, NextFrameRecords
      <4>3. CASE reader.pc = "length" /\ WordValue(bytes) = 0
        <5>1. NextFrame(reader.frames, Append(reader.m, <<>>))
          BY <4>1, <4>3 DEF Complete
        <5>2. reader.m \in Seq(Seq(Byte)) /\ reader.frames \in Nat /\ Len(reader.m) < reader.frames
          BY <4>3 DEF RecordsOK
        <5>3. <<>> \in Seq(Byte)
          OBVIOUS
        <5>4. Append(reader.m, <<>>) \in Seq(Seq(Byte)) /\ Len(Append(reader.m, <<>>)) = Len(reader.m) + 1
          BY <5>2, <5>3, AppendProperties
        <5>5. Len(Append(reader.m, <<>>)) <= reader.frames
          BY <5>2, <5>4
        <5> QED BY <5>1, <5>2, <5>4, <5>5, NextFrameRecords
      <4>4. CASE reader.pc = "length" /\ WordValue(bytes) > 0
        <5>1. /\ reader' = [reader EXCEPT !.pc = "payload", !.bytes = <<>>, !.frameLength = WordValue(bytes)]
              /\ received' = received
          BY <4>1, <4>4 DEF Complete
        <5>2. <<>> \in Seq(Byte) /\ Len(<<>>) < WordValue(bytes)
          BY <4>1, <4>4
        <5> QED BY <4>1, <4>4, <5>1, <5>2 DEF RecordsOK
      <4>5. CASE reader.pc = "payload"
        <5>1. NextFrame(reader.frames, Append(reader.m, bytes))
          BY <4>1, <4>5 DEF Complete
        <5>2. reader.m \in Seq(Seq(Byte)) /\ reader.frames \in Nat /\ Len(reader.m) < reader.frames
          BY <4>5 DEF RecordsOK
        <5>4. Append(reader.m, bytes) \in Seq(Seq(Byte)) /\ Len(Append(reader.m, bytes)) = Len(reader.m) + 1
          BY <2>2, <5>2, AppendProperties
        <5>5. Len(Append(reader.m, bytes)) <= reader.frames
          BY <5>2, <5>4
        <5> QED BY <5>1, <5>2, <5>4, <5>5, NextFrameRecords
      <4> QED BY <3>0, <4>1, <4>2, <4>3, <4>4, <4>5
    <3> QED BY <3>1, <3>2
  <2> QED BY <1>7, <2>1, <2>3, <2>4 DEF ReadSome, RecordsOK, senderVars
<1>8. ASSUME ReadFails PROVE RecordsOK'
  <2>1. reader' = Idle
    BY <1>8 DEF ReadFails
  <2> QED BY <1>0, <1>8, <2>1 DEF ReadFails, RecordsOK, senderVars, Idle
<1>9. ASSUME NEW e \in {"in", "out"}, HangUp(e) PROVE RecordsOK'
  BY <1>9 DEF HangUp, RecordsOK, senderVars, readerVars
<1>10. CASE UNCHANGED vars
  BY <1>10 DEF vars, RecordsOK
<1>11. ASSUME WriteWaits PROVE RecordsOK'
  BY <1>11, WaitsFacts DEF RecordsOK
<1> QED BY <1>1, <1>2, <1>3, <1>4, <1>5, <1>6, <1>7, <1>8, <1>9, <1>10, <1>11 DEF Next

(***************************************************************************)
(* The buffer stays that of the last message until sendMessage returns.     *)
(***************************************************************************)
LEMMA BufferStep ==
  ASSUME RecordsOK, BufferOK, [Next]_vars
  PROVE  BufferOK'
<1>1. ASSUME NEW m \in Messages, CallSend(m) PROVE BufferOK'
  <2>1. sent \in Seq(Messages)
    BY DEF RecordsOK
  <2>2. sent' = Append(sent, m) /\ sender'.buffer = WriteMessage(m)
    BY <1>1 DEF CallSend
  <2>3. sent' # <<>> /\ Last(sent') = m
    BY <2>1, <2>2, AppendProperties DEF Last
  <2> QED BY <2>2, <2>3 DEF BufferOK
<1>2. ASSUME WriteSome \/ WriteTooBig \/ WriteFails PROVE BufferOK'
  <2>1. PICK d \in Int : Advance(d)
    <3>1. CASE WriteSome
      <4>1. PICK k \in 1..sender.towrite : Advance(k)
        BY <3>1 DEF WriteSome
      <4>2. k \in Int
        BY ProtocolAssumption DEF RecordsOK
      <4> QED BY <4>1, <4>2
    <3>2. CASE WriteTooBig
      BY <3>2, -3 \in Int DEF WriteTooBig
    <3>3. CASE WriteFails
      <4>1. PICK f \in Failures : Advance(-f)
        BY <3>3 DEF WriteFails
      <4>2. -f \in Int
        BY ProtocolAssumption
      <4> QED BY <4>1, <4>2
    <3> QED BY <1>2, <3>1, <3>2, <3>3
  <2>2. sender'.pc = sender.pc /\ sender'.buffer = sender.buffer
    BY <2>1, AdvanceFacts
  <2>3. sent' = sent
    BY <1>2 DEF WriteSome, WriteTooBig, WriteFails
  <2> QED BY <2>2, <2>3 DEF BufferOK
<1>3. ASSUME SendReturn PROVE BufferOK'
  BY <1>3 DEF SendReturn, BufferOK, RecordsOK
<1>4. ASSUME CallRead \/ ReadSome \/ ReadFails \/ \E e \in {"in", "out"} : HangUp(e) PROVE BufferOK'
  BY <1>4 DEF CallRead, ReadSome, ReadFails, HangUp, senderVars, BufferOK
<1>5. CASE UNCHANGED vars
  BY <1>5 DEF vars, BufferOK
<1>6. ASSUME WriteWaits PROVE BufferOK'
  BY <1>6, WaitsFacts DEF BufferOK
<1> QED BY <1>1, <1>2, <1>3, <1>4, <1>5, <1>6 DEF Next

(***************************************************************************)
(* The line takes a message from the front to the end, as long as no write  *)
(* fails.                                                                   *)
(***************************************************************************)
LEMMA ProgressStep ==
  ASSUME RecordsOK, BufferOK, ProgressOK, [Next]_vars
  PROVE  ProgressOK'
<1>0. IntLimit \in Nat /\ IntLimit > 0 /\ Capacity \in Nat
  BY ProtocolAssumption
<1>1. ASSUME NEW m \in Messages, CallSend(m) PROVE ProgressOK'
  <2>1. sent \in Seq(Messages)
    BY DEF RecordsOK
  <2>2. /\ sent' = Append(sent, m) /\ sender'.pc = "sending" /\ sender'.data = 0 /\ wrote' = 0
        /\ sender'.towrite = ToInt(MessageSize(m))
    BY <1>1 DEF CallSend
  <2>3. Last(sent') = m
    BY <2>1, <2>2, AppendProperties DEF Last
  <2>4. MessageSize(m) \in 0..(IntLimit - 1)
    BY MessageFacts
  <2>5. sender'.towrite = MessageSize(m)
    <3>1. MessageSize(m) \in Int /\ MessageSize(m) \in -IntLimit..(IntLimit - 1)
      BY <1>0, <2>4
    <3> QED BY <2>2, <3>1, ToIntFacts
  <2> HIDE DEF Fits
  <2>6. ~Fits(m) => MessageSize(m) > Capacity
    BY <1>0, <2>4 DEF Fits
  <2>7. 0 \in 0..MessageSize(m) /\ MessageSize(m) - 0 = MessageSize(m)
    BY <2>4
  <2> QED BY <2>2, <2>3, <2>5, <2>6, <2>7 DEF ProgressOK
<1>2. ASSUME WriteSome PROVE ProgressOK'
  <2>1. PICK k \in 1..sender.towrite : Advance(k) /\ wrote' = wrote + k
    BY <1>2 DEF WriteSome
  <2>2. /\ sender.pc = "sending" /\ sender.towrite > 0 /\ sender.towrite <= Capacity
        /\ sent' = sent /\ torn' = torn
    BY <1>2 DEF WriteSome
  <2>3. sender.towrite \in Int /\ sender.towrite < IntLimit /\ wrote \in Nat
    BY <1>0 DEF RecordsOK
  <2>4. k \in Int /\ 1 <= k /\ k <= sender.towrite
    BY <2>3
  <2>5. /\ sender'.pc = "sending" /\ sender'.data = sender.data + k
        /\ sender'.towrite = ToInt(sender.towrite - k)
    BY <2>1, <2>2, <2>4, AdvanceFacts
  <2>6. sender'.towrite = sender.towrite - k
    <3>1. sender.towrite - k \in Int /\ sender.towrite - k \in -IntLimit..(IntLimit - 1)
      BY <1>0, <2>3, <2>4
    <3> QED BY <2>5, <3>1, ToIntFacts
  <2>7. SUFFICES ASSUME "out" \notin torn, sent # <<>>
                 PROVE  ProgressOK'
    BY <2>2 DEF ProgressOK
  <2>8. sent \in Seq(Messages) /\ Last(sent) \in Messages
    BY <2>7, ElementOfSeq, EmptySeq DEF RecordsOK, Last
  <2> DEFINE size == MessageSize(Last(sent))
  <2>9. size \in Nat
    BY <2>8, MessageFacts
  <2>10. CASE Fits(Last(sent))
    <3>1. wrote \in 0..size /\ sender.data = wrote /\ sender.towrite = size - wrote
      BY <2>2, <2>7, <2>10 DEF ProgressOK
    <3> HIDE DEF size, Fits
    <3>2. wrote + k \in 0..size /\ sender'.data = wrote + k /\ sender'.towrite = size - (wrote + k)
      BY <2>3, <2>4, <2>5, <2>6, <2>9, <3>1
    <3> QED BY <2>1, <2>2, <2>5, <2>10, <3>2 DEF ProgressOK, size
  <2>11. CASE ~Fits(Last(sent))
    <3>1. sender.towrite > Capacity \/ sender.towrite <= 0
      BY <2>2, <2>7, <2>11 DEF ProgressOK
    <3> QED BY <1>0, <2>2, <2>3, <3>1
  <2> QED BY <2>10, <2>11
<1>3. ASSUME WriteTooBig PROVE ProgressOK'
  <2>1. /\ sender.pc = "sending" /\ sender.towrite > Capacity /\ Advance(-3)
        /\ sent' = sent /\ torn' = torn /\ wrote' = wrote
    BY <1>3 DEF WriteTooBig
  <2>2. sender.towrite \in Int /\ sender.towrite < IntLimit
    BY <1>0 DEF RecordsOK
  <2>3. sender'.pc = "sending" /\ sender'.towrite = ToInt(sender.towrite - (-3))
    BY <2>1, AdvanceFacts, -3 \in Int
  <2>4. SUFFICES ASSUME "out" \notin torn, sent # <<>>
                 PROVE  ProgressOK'
    BY <2>1 DEF ProgressOK
  <2>5. Last(sent) \in Messages
    BY <2>4, ElementOfSeq, EmptySeq DEF RecordsOK, Last
  <2>6. /\ MessageSize(Last(sent)) \in 0..(IntLimit - 1) /\ MessageSize(Last(sent)) >= WordSize
        /\ WordSize \in Nat /\ WordSize > 0
    BY <2>5, MessageFacts, ProtocolAssumption
  <2>7. CASE Fits(Last(sent))
    <3>1. wrote \in Nat /\ sender.towrite = MessageSize(Last(sent)) - wrote
      BY <2>1, <2>4, <2>7 DEF ProgressOK, RecordsOK
    <3>2. MessageSize(Last(sent)) <= Capacity
      BY <2>7 DEF Fits
    <3> QED BY <1>0, <2>1, <2>6, <3>1, <3>2
  <2>8. CASE ~Fits(Last(sent))
    <3>1. sender'.towrite > Capacity \/ sender'.towrite <= 0
      <4> DEFINE x == sender.towrite - (-3)
      <4>1. x \in Int /\ x > Capacity /\ x <= IntLimit + 2 /\ IntLimit >= 2
        BY <1>0, <2>1, <2>2, <2>6
      <4>2. sender'.towrite = ToInt(x)
        BY <2>3
      <4> HIDE DEF x
      <4>3. CASE x < IntLimit
        <5>1. x \in -IntLimit..(IntLimit - 1)
          BY <1>0, <4>1, <4>3
        <5> QED BY <4>1, <4>2, <5>1, ToIntFacts
      <4>4. CASE x >= IntLimit
        <5>1. x \in IntLimit..(3 * IntLimit - 1)
          BY <1>0, <4>1, <4>4
        <5>2. ToInt(x) = x - 2 * IntLimit
          BY <4>1, <5>1, ToIntFacts
        <5> QED BY <1>0, <4>1, <4>2, <5>2
      <4> QED BY <1>0, <4>1, <4>3, <4>4
    <3> QED BY <2>1, <2>3, <2>8, <3>1 DEF ProgressOK
  <2> QED BY <2>7, <2>8
<1>4. ASSUME WriteFails PROVE ProgressOK'
  BY <1>4 DEF WriteFails, ProgressOK
<1>5. ASSUME SendReturn PROVE ProgressOK'
  <2>1. /\ sender.pc = "sending" /\ sender.towrite <= 0 /\ sender'.pc = "idle"
        /\ sent' = sent /\ torn' = torn /\ wrote' = wrote
    BY <1>5 DEF SendReturn, RecordsOK
  <2>2. SUFFICES ASSUME "out" \notin torn, sent # <<>>, Fits(Last(sent))
                 PROVE  wrote \in 0..MessageSize(Last(sent)) /\ wrote = MessageSize(Last(sent))
    BY <2>1 DEF ProgressOK
  <2>3. Last(sent) \in Messages
    BY <2>2, ElementOfSeq, EmptySeq DEF RecordsOK, Last
  <2>4. MessageSize(Last(sent)) \in Nat
    BY <2>3, MessageFacts
  <2>5. wrote \in 0..MessageSize(Last(sent)) /\ sender.towrite = MessageSize(Last(sent)) - wrote
    BY <2>1, <2>2 DEF ProgressOK
  <2> QED BY <2>1, <2>4, <2>5
<1>6. ASSUME CallRead \/ ReadSome \/ ReadFails \/ \E e \in {"in", "out"} : HangUp(e)
      PROVE  ProgressOK'
  <2>1. UNCHANGED senderVars /\ ("out" \in torn' <=> "out" \in torn)
    BY <1>6 DEF CallRead, ReadSome, ReadFails, HangUp
  <2> QED BY <2>1 DEF senderVars, ProgressOK
<1>7. CASE UNCHANGED vars
  BY <1>7 DEF vars, ProgressOK
<1>8. ASSUME WriteWaits PROVE ProgressOK'
  BY <1>8, WaitsFacts DEF ProgressOK
<1> QED BY <1>1, <1>2, <1>3, <1>4, <1>5, <1>6, <1>7, <1>8 DEF Next

-------------------------------------------------------------------------------
\* What the line and readMessage hold, as long as nothing is torn.

(***************************************************************************)
(* In the bytes of the messages F, where the parts of the one behind the    *)
(* first k lie.                                                             *)
(***************************************************************************)
LEMMA PartsOnWire ==
  ASSUME NEW F \in Seq(Messages), NEW k \in 0..(Len(F) - 1)
  PROVE  /\ F[k + 1] \in Messages /\ F[k + 1] \in Seq(Seq(Byte)) /\ Len(Wire(F)[k]) \in Nat
         /\ Wire(F)[Len(F)] \in Seq(Byte)
         /\ Len(Wire(F)[k + 1]) = Len(Wire(F)[k]) + MessageSize(F[k + 1])
         /\ Found(Wire(F)[Len(F)], Len(Wire(F)[k]), Word(Len(F[k + 1])))
         /\ \A j \in 0..(Len(F[k + 1]) - 1) :
              /\ Found(Wire(F)[Len(F)], Len(Wire(F)[k]) + FrameEnds(F[k + 1])[j],
                       Word(Len(F[k + 1][j + 1])))
              /\ Found(Wire(F)[Len(F)], Len(Wire(F)[k]) + (FrameEnds(F[k + 1])[j] + WordSize),
                       F[k + 1][j + 1])
<1> DEFINE c == F[k + 1]
           all == Wire(F)[Len(F)]
           a == Len(Wire(F)[k])
           w == WriteMessage(c)
           e == FrameEnds(c)
<1>1. Len(F) \in Nat /\ k \in 0..Len(F) /\ k + 1 \in 1..Len(F) /\ (k + 1) - 1 = k /\ Len(F) \in 0..Len(F)
  OBVIOUS
<1>2. c \in Messages
  BY <1>1, ElementOfSeq
<1>3. c \in Seq(Seq(Byte)) /\ w \in Seq(Byte)
  BY <1>2, MessageFacts
<1>4. /\ all \in Seq(Byte) /\ Wire(F)[k] \in Seq(Byte)
      /\ Len(Wire(F)[k + 1]) = a + MessageSize(c) /\ Found(all, a, w)
  BY <1>1, WireLayout
<1>5. a \in Nat
  BY <1>4
<1>6. /\ Found(w, 0, Word(Len(c)))
      /\ \A i \in 1..Len(c) : /\ Found(w, e[i - 1], Word(Len(c[i])))
                              /\ Found(w, e[i - 1] + WordSize, c[i])
  BY <1>3, Layout
<1>7. Len(c) \in Nat /\ \A j \in 0..Len(c) : e[j] \in Nat
  BY <1>3, FrameEndsFacts, LenProperties
<1>8. \A i \in 1..Len(c) : c[i] \in Seq(Byte) /\ Len(c[i]) \in Nat
  BY <1>3, ElementOfSeq
<1> HIDE DEF c, all, a, w, e
<1>9. Word(Len(c)) \in Seq(Byte)
  BY <1>7, WordIsBytes
<1>10. Found(all, a + 0, Word(Len(c)))
  BY <1>3, <1>4, <1>5, <1>6, <1>9, FoundWithin, 0 \in Nat
<1>11. a + 0 = a
  BY <1>5
<1>12. ASSUME NEW j \in 0..(Len(c) - 1)
       PROVE  /\ Found(all, a + e[j], Word(Len(c[j + 1])))
              /\ Found(all, a + (e[j] + WordSize), c[j + 1])
  <2>1. j + 1 \in 1..Len(c) /\ (j + 1) - 1 = j /\ j \in 0..Len(c)
    BY <1>7
  <2>2. Found(w, e[j], Word(Len(c[j + 1]))) /\ Found(w, e[j] + WordSize, c[j + 1])
    BY <1>6, <2>1
  <2>3. /\ c[j + 1] \in Seq(Byte) /\ Word(Len(c[j + 1])) \in Seq(Byte)
        /\ e[j] \in Nat
    BY <1>7, <1>8, <2>1, WordIsBytes
  <2>4. e[j] + WordSize \in Nat
    BY <2>3, ProtocolAssumption
  <2>5. Found(all, a + e[j], Word(Len(c[j + 1])))
    BY <1>3, <1>4, <1>5, <2>2, <2>3, FoundWithin
  <2>6. Found(all, a + (e[j] + WordSize), c[j + 1])
    BY <1>3, <1>4, <1>5, <2>2, <2>3, <2>4, FoundWithin
  <2> QED BY <2>5, <2>6
<1> QED BY <1>2, <1>3, <1>4, <1>5, <1>10, <1>11, <1>12 DEF c, all, a, e

(***************************************************************************)
(* Behind a frame readMessage goes on to the next or, behind the last one,  *)
(* returns the message: it still follows the messages F.                    *)
(***************************************************************************)
LEMMA NextFrameFollows ==
  ASSUME NEW F \in Seq(Messages), NEW st \in Seq(Byte), NEW unsent \in Int,
         NEW rec \in Seq(Seq(Seq(Byte))), NEW m \in Seq(Seq(Byte)), NEW r1, NEW rec1,
         Len(rec) < Len(F), \A i \in 1..Len(rec) : rec[i] = F[i],
         Len(m) <= Len(F[Len(rec) + 1]), \A i \in 1..Len(m) : m[i] = F[Len(rec) + 1][i],
         Found(Wire(F)[Len(F)], Len(Wire(F)[Len(rec)]) + FrameEnds(F[Len(rec) + 1])[Len(m)], st),
         Len(Wire(F)[Len(rec)]) + FrameEnds(F[Len(rec) + 1])[Len(m)] + Len(st) + unsent
           = Len(Wire(F)[Len(F)]),
         IF Len(m) = Len(F[Len(rec) + 1])
           THEN r1 = Idle /\ rec1 = Append(rec, m)
           ELSE /\ r1 = [Idle EXCEPT !.pc = "length", !.frames = Len(F[Len(rec) + 1]), !.m = m]
                /\ rec1 = rec
  PROVE  ReaderFollows(F, r1, rec1) /\ LineFollows(F, st, unsent, r1, rec1)
<1> DEFINE k == Len(rec)
           c == F[k + 1]
           all == Wire(F)[Len(F)]
           a == Len(Wire(F)[k])
           place == a + FrameEnds(c)[Len(m)]
<1>1. k \in 0..(Len(F) - 1) /\ Len(F) \in Nat /\ Len(m) \in Nat /\ k \in Nat
  OBVIOUS
<1>2. /\ c \in Seq(Seq(Byte)) /\ a \in Nat /\ all \in Seq(Byte)
      /\ Len(Wire(F)[k + 1]) = a + MessageSize(c)
  BY <1>1, PartsOnWire
<1>3. Len(c) \in Nat /\ Len(all) \in Nat /\ Len(st) \in Nat
  BY <1>2
<1>4. FrameEnds(c)[Len(m)] \in Nat
  <2>1. Len(m) \in 0..Len(c)
    BY <1>1, <1>3
  <2> QED BY <1>2, <2>1, FrameEndsFacts
<1>5. Found(all, place, st) /\ place + Len(st) + unsent = Len(all) /\ place \in Nat
  <2>1. Found(all, place, st)
    OBVIOUS
  <2>2. place + Len(st) + unsent = Len(all)
    OBVIOUS
  <2> DEFINE e == FrameEnds(c)[Len(m)]
  <2>3. e \in Nat /\ place = a + e
    BY <1>4
  <2> HIDE DEF e, a, place
  <2>4. place \in Nat
    BY <1>2, <2>3
  <2> QED BY <2>1, <2>2, <2>4
<1>6. Len(<<>>) = 0 /\ place + 0 = place
  BY <1>5
<1>7. Found(all, place, <<>>)
  <2>1. place + 0 <= Len(all)
    BY <1>3, <1>5 DEF Found
  <2> QED BY <1>6, <2>1 DEF Found
<1>8. CASE Len(m) = Len(c)
  <2>1. r1 = Idle /\ rec1 = Append(rec, m)
    BY <1>8
  <2>2. m = c
    <3>1. \A i \in 1..Len(m) : m[i] = c[i]
      OBVIOUS
    <3> HIDE DEF c
    <3> QED BY <1>2, <1>8, <3>1, SeqEqual
  <2>3. /\ Len(rec1) = k + 1 /\ rec1[k + 1] = m
        /\ \A i \in 1..k : rec1[i] = rec[i]
    BY <2>1, AppendProperties
  <2>4. \A i \in 1..(k + 1) : rec1[i] = F[i]
    <3> TAKE i \in 1..(k + 1)
    <3>1. CASE i = k + 1
      BY <2>2, <2>3, <3>1
    <3>2. CASE i # k + 1
      <4>1. i \in 1..k
        BY <1>1, <3>2
      <4> QED BY <2>3, <4>1
    <3> QED BY <3>1, <3>2
  <2>5. r1.pc = "idle" /\ r1.bytes = <<>>
    BY <2>1 DEF Idle
  <2>6. ReaderFollows(F, r1, rec1)
    <3>1. k + 1 <= Len(F)
      BY <1>1
    <3> QED BY <2>3, <2>4, <2>5, <3>1 DEF ReaderFollows
  <2>7. Place(F, r1, rec1) = place
    <3>1. Place(F, r1, rec1) = Len(Wire(F)[k + 1]) + 0
      BY <2>3, <2>5 DEF Place, PlaceIn
    <3>2. FrameEnds(c)[Len(m)] = MessageSize(c)
      BY <1>8 DEF MessageSize
    <3>3. Place(F, r1, rec1) = (a + MessageSize(c)) + 0 /\ place = a + MessageSize(c)
      BY <1>2, <3>1, <3>2
    <3> HIDE DEF place
    <3> QED BY <1>5, <3>3
  <2> HIDE DEF place, all
  <2>8. LineFollows(F, st, unsent, r1, rec1)
    BY <1>5, <1>6, <1>7, <2>5, <2>7 DEF LineFollows, all
  <2> QED BY <2>6, <2>8
<1>9. CASE Len(m) # Len(c)
  <2>1. /\ r1 = [Idle EXCEPT !.pc = "length", !.frames = Len(c), !.m = m]
        /\ rec1 = rec
    BY <1>9
  <2>2. r1.pc = "length" /\ r1.bytes = <<>> /\ r1.frames = Len(c) /\ r1.m = m
    BY <2>1 DEF Idle
  <2>3. ReaderFollows(F, r1, rec1)
    <3>1. Len(rec1) <= Len(F) /\ Len(rec1) < Len(F)
      BY <1>1, <2>1
    <3> QED BY <2>1, <2>2, <3>1 DEF ReaderFollows
  <2>4. Place(F, r1, rec1) = place
    BY <2>1, <2>2 DEF Place, PlaceIn
  <2> HIDE DEF place, all
  <2>5. LineFollows(F, st, unsent, r1, rec1)
    BY <1>5, <1>6, <1>7, <2>2, <2>4 DEF LineFollows, all
  <2> QED BY <2>3, <2>5
<1> QED BY <1>8, <1>9

(***************************************************************************)
(* The place where the loop of readMessage began.                           *)
(***************************************************************************)
LEMMA PlaceIsNat ==
  ASSUME RecordsOK, NEW F \in Seq(Messages), ReaderFollows(F, reader, received)
  PROVE  Place(F, reader, received) \in Nat
<1> DEFINE k == Len(received)
           c == F[k + 1]
           j == Len(reader.m)
<1>1. /\ received \in Seq(Seq(Seq(Byte))) /\ reader.m \in Seq(Seq(Byte)) /\ reader.frames \in Nat
      /\ reader.pc \in {"length", "payload"} => j < reader.frames
  BY DEF RecordsOK
<1>2. k \in Nat /\ Len(F) \in Nat /\ k <= Len(F) /\ j \in Nat
  BY <1>1 DEF ReaderFollows
<1>3. Len(Wire(F)[k]) \in Nat
  <2>1. k \in 0..Len(F)
    BY <1>2
  <2> QED BY <2>1, WireLayout, LenProperties
<1>4. PlaceIn(c, reader) \in Nat
  <2>1. CASE reader.pc \in {"length", "payload"}
    <3>1. k < Len(F) /\ reader.frames = Len(c)
      BY <2>1 DEF ReaderFollows
    <3>2. k + 1 \in 1..Len(F)
      BY <1>2, <3>1
    <3>3. c \in Seq(Seq(Byte))
      BY <3>2, ElementOfSeq, MessageFacts
    <3>4. j \in 0..Len(c)
      <4> HIDE DEF c, j
      <4> QED BY <1>1, <1>2, <2>1, <3>1
    <3>5. FrameEnds(c)[j] \in Nat
      BY <3>3, <3>4, FrameEndsFacts
    <3>6. \A x \in Nat : x + WordSize \in Nat
      BY ProtocolAssumption
    <3> QED BY <2>1, <3>5, <3>6 DEF PlaceIn
  <2>2. CASE reader.pc \notin {"length", "payload"}
    BY <2>2 DEF PlaceIn
  <2> QED BY <2>1, <2>2
<1>5. \A x, y \in Nat : x + y \in Nat
  OBVIOUS
<1> QED BY <1>3, <1>4, <1>5 DEF Place

(***************************************************************************)
(* readMessage takes bytes from the line, one read at a time, and what it   *)
(* makes of them are the messages F.                                        *)
(***************************************************************************)
LEMMA ReadFollows ==
  ASSUME RecordsOK, ReadSome, NEW F \in Seq(Messages), NEW unsent \in Int,
         ReaderFollows(F, reader, received), LineFollows(F, stream, unsent, reader, received)
  PROVE  ReaderFollows(F, reader', received') /\ LineFollows(F, stream', unsent, reader', received')
<1>0. WordSize \in Nat /\ WordSize > 0
  BY ProtocolAssumption
<1>1. PICK n \in 1..Wanted :
        /\ n \in 0..Len(stream) /\ stream' = SubSeq(stream, n + 1, Len(stream))
        /\ stream' \in Seq(Byte) /\ Len(stream') = Len(stream) - n
        /\ SubSeq(stream, 1, n) \in Seq(Byte) /\ Len(SubSeq(stream, 1, n)) = n
        /\ reader.bytes \o SubSeq(stream, 1, n) \in Seq(Byte)
        /\ Len(reader.bytes \o SubSeq(stream, 1, n)) = Len(reader.bytes) + n
        /\ n = Wanted => Complete(reader.bytes \o SubSeq(stream, 1, n))
        /\ n # Wanted => /\ reader' = [reader EXCEPT !.bytes = reader.bytes \o SubSeq(stream, 1, n)]
                         /\ received' = received
  BY ReadSomeFacts
<1> DEFINE k == Len(received)
           c == F[k + 1]
           w == Wire(F)[k]
           all == Wire(F)[Len(F)]
           place == Place(F, reader, received)
           j == Len(reader.m)
           old == reader.bytes
           new == SubSeq(stream, 1, n)
           bytes == old \o new
<1>2. /\ stream \in Seq(Byte) /\ old \in Seq(Byte) /\ received \in Seq(Seq(Seq(Byte)))
      /\ reader.m \in Seq(Seq(Byte)) /\ reader.frames \in Nat /\ reader.frameLength \in Nat
      /\ reader.pc \in {"count", "length", "payload"}
      /\ reader.pc \in {"length", "payload"} => j < reader.frames
  BY DEF RecordsOK, ReadSome
<1>3. k \in Nat /\ Len(F) \in Nat /\ j \in Nat /\ Len(stream) \in Nat /\ Len(old) \in Nat
  BY <1>2
<1>4. k <= Len(F) /\ \A i \in 1..k : received[i] = F[i]
  BY DEF ReaderFollows
<1>5. k \in 0..Len(F) /\ Len(F) \in 0..Len(F)
  BY <1>3, <1>4
<1>6. w \in Seq(Byte) /\ all \in Seq(Byte) /\ Len(w) \in Nat /\ Len(all) \in Nat
  BY <1>5, WireLayout
<1>7. /\ Found(all, place, old) /\ Found(all, place + Len(old), stream)
      /\ place + Len(old) + Len(stream) + unsent = Len(all)
  BY DEF LineFollows
\* There is a message to be read.
<1>8. k \in 0..(Len(F) - 1)
  <2>1. CASE reader.pc = "count"
    <3>1. place = Len(w) + 0
      BY <2>1 DEF Place, PlaceIn
    <3>2. (place + Len(old)) + Len(stream) <= Len(all) /\ n <= Len(stream) /\ n \in 1..Wanted
      BY <1>1, <1>3, <1>7 DEF Found
    <3>3. Len(stream) >= 1
      <4>1. Wanted \in Int
        BY <1>0, <1>2, <1>3 DEF Wanted
      <4> QED BY <1>3, <3>2, <4>1
    <3>4. Len(w) # Len(all)
      <4> HIDE DEF w, all, place, old
      <4> QED BY <1>3, <1>6, <3>1, <3>2, <3>3
    <3>5. k # Len(F)
      BY <3>4
    <3> QED BY <1>3, <1>4, <3>5
  <2>2. CASE reader.pc \in {"length", "payload"}
    <3>1. k < Len(F)
      BY <2>2 DEF ReaderFollows
    <3> QED BY <1>3, <3>1
  <2> QED BY <1>2, <2>1, <2>2
<1>9. /\ c \in Messages /\ c \in Seq(Seq(Byte))
      /\ Found(all, Len(w), Word(Len(c)))
      /\ \A i \in 0..(Len(c) - 1) :
           /\ Found(all, Len(w) + FrameEnds(c)[i], Word(Len(c[i + 1])))
           /\ Found(all, Len(w) + (FrameEnds(c)[i] + WordSize), c[i + 1])
  BY <1>8, PartsOnWire
<1>10. /\ Len(c) \in Nat /\ FrameEnds(c)[0] = WordSize
       /\ \A i \in 1..Len(c) : FrameEnds(c)[i] = FrameEnds(c)[i - 1] + WordSize + Len(c[i])
       /\ \A i \in 0..Len(c) : FrameEnds(c)[i] \in Nat
  BY <1>9, FrameEndsFacts, LenProperties
<1>11. \A i \in 1..Len(c) : c[i] \in Seq(Byte) /\ Len(c[i]) \in Nat
  BY <1>9, ElementOfSeq
<1>12. WordHolds(Len(c)) /\ \A i \in 1..Len(c) : WordHolds(Len(c[i]))
  BY <1>9, MessageFacts
<1>13. reader.pc \in {"length", "payload"} =>
         /\ reader.frames = Len(c) /\ j \in 0..(Len(c) - 1) /\ j \in 0..Len(c) /\ j + 1 \in 1..Len(c)
         /\ \A i \in 1..j : reader.m[i] = c[i]
  <2> HAVE reader.pc \in {"length", "payload"}
  <2>1. reader.frames = Len(c) /\ \A i \in 1..j : reader.m[i] = c[i]
    BY DEF ReaderFollows
  <2>2. j < Len(c)
    BY <1>2, <2>1
  <2>3. j \in 0..(Len(c) - 1) /\ j \in 0..Len(c) /\ j + 1 \in 1..Len(c)
    BY <1>3, <1>10, <2>2
  <2> QED BY <2>1, <2>3
<1>14. place \in Nat
  BY PlaceIsNat
\* The bytes that have been read, and what they leave on the line.
<1>15. /\ bytes \in Seq(Byte) /\ Len(bytes) = Len(old) + n
       /\ n = Wanted => Complete(bytes)
       /\ n # Wanted => reader' = [reader EXCEPT !.bytes = bytes] /\ received' = received
  BY <1>1
<1>16. /\ Found(all, place, bytes) /\ Found(all, place + Len(bytes), stream')
       /\ (place + Len(bytes)) + Len(stream') + unsent = Len(all)
  <2>1. n \in 0..Len(stream) /\ new \in Seq(Byte) /\ Len(new) = n /\ stream' = SubSeq(stream, n + 1, Len(stream))
    BY <1>1
  <2>2. place + Len(old) \in Nat /\ n \in Nat
    BY <1>3, <1>14, <2>1
  <2>3. Found(all, place + Len(old), new) /\ Found(all, (place + Len(old)) + n, stream')
    <3> HIDE DEF all, place, old
    <3> QED BY <1>2, <1>6, <1>7, <2>1, <2>2, FoundParts DEF new
  <2> HIDE DEF all, place, old, new
  <2>4. Found(all, place, old \o new)
    BY <1>2, <1>6, <1>7, <1>14, <2>1, <2>3, FoundConcat
  <2>5. place + Len(bytes) = (place + Len(old)) + n
    <3> HIDE DEF bytes
    <3> QED BY <1>3, <1>14, <1>15, <2>2
  <2>6. (place + Len(bytes)) + Len(stream') + unsent = Len(all)
    <3>1. Len(stream') = Len(stream) - n
      BY <1>1
    <3> HIDE DEF bytes
    <3> QED BY <1>3, <1>7, <1>14, <2>2, <2>5, <3>1
  <2> QED BY <2>3, <2>4, <2>5, <2>6
<1>17. CASE n # Wanted
  <2>1. reader' = [reader EXCEPT !.bytes = bytes] /\ received' = received
    BY <1>15, <1>17
  <2>2. /\ reader'.pc = reader.pc /\ reader'.m = reader.m /\ reader'.frames = reader.frames
        /\ reader'.frameLength = reader.frameLength /\ reader'.bytes = bytes
    <3> HIDE DEF bytes
    <3> QED BY <2>1 DEF RecordsOK
  <2>3. Place(F, reader', received') = place
    BY <2>1, <2>2 DEF Place, PlaceIn
  <2>4. ReaderFollows(F, reader', received')
    BY <2>1, <2>2 DEF ReaderFollows
  <2> HIDE DEF all, place, bytes
  <2>5. LineFollows(F, stream', unsent, reader', received')
    BY <1>16, <2>2, <2>3 DEF LineFollows, all
  <2> QED BY <2>4, <2>5
<1>18. CASE n = Wanted
  <2>1. Complete(bytes)
    BY <1>15, <1>18
  <2>2. Len(bytes) = IF reader.pc = "payload" THEN reader.frameLength ELSE WordSize
    <3> DEFINE limit == IF reader.pc = "payload" THEN reader.frameLength ELSE WordSize
    <3>1. Wanted = limit - Len(old) /\ limit \in Nat
      BY <1>0, <1>2 DEF Wanted
    <3> HIDE DEF limit, bytes, old
    <3>2. Len(bytes) = limit
      BY <1>3, <1>15, <1>18, <3>1
    <3> QED BY <3>2 DEF limit
  <2>3. CASE reader.pc = "count"
    <3>1. place = Len(w)
      <4>1. place = Len(w) + 0
        BY <2>3 DEF Place, PlaceIn
      <4> QED BY <1>6, <4>1
    <3>2. Word(Len(c)) \in Seq(Byte) /\ Len(Word(Len(c))) = WordSize
      BY <1>10, WordIsBytes
    <3> HIDE DEF all, place, w, c, k, bytes
    <3>3. bytes = Word(Len(c))
      BY <1>6, <1>9, <1>15, <1>16, <2>2, <2>3, <3>1, <3>2, FoundSame
    <3>4. WordValue(bytes) = Len(c)
      BY <1>10, <1>12, <3>3, WordRoundTrip
    <3> DEFINE e == FrameEnds(c)
               m1 == <<>>
    <3>5. NextFrame(Len(c), m1)
      BY <2>1, <2>3, <3>4 DEF Complete
    <3>6. /\ m1 \in Seq(Seq(Byte)) /\ Len(m1) = 0 /\ Len(m1) <= Len(c)
          /\ \A i \in 1..Len(m1) : m1[i] = c[i]
      BY <1>10
    <3> HIDE DEF m1
    <3>7. /\ Found(all, Len(w) + e[Len(m1)], stream')
          /\ Len(w) + e[Len(m1)] + Len(stream') + unsent = Len(all)
      BY <1>10, <1>16, <2>2, <2>3, <3>1, <3>6
    <3>8. k < Len(F)
      BY <1>3, <1>8
    <3>9. IF Len(m1) = Len(c)
            THEN reader' = Idle /\ received' = Append(received, m1)
            ELSE /\ reader' = [Idle EXCEPT !.pc = "length", !.frames = Len(c), !.m = m1]
                 /\ received' = received
      BY <3>5 DEF NextFrame
    <3>10. stream' \in Seq(Byte)
      BY <1>1
    <3> USE DEF all, w, c, k
    <3> QED BY <1>2, <1>4, <3>6, <3>7, <3>8, <3>9, <3>10, NextFrameFollows
  <2>4. CASE reader.pc = "length"
    <3>1. place = Len(w) + FrameEnds(c)[j]
      BY <2>4 DEF Place, PlaceIn
    <3>2. /\ j \in 0..(Len(c) - 1) /\ j \in 0..Len(c) /\ j + 1 \in 1..Len(c) /\ (j + 1) - 1 = j
          /\ reader.frames = Len(c) /\ \A i \in 1..j : reader.m[i] = c[i]
      BY <1>3, <1>13, <2>4
    <3>3. Len(c[j + 1]) \in Nat /\ c[j + 1] \in Seq(Byte) /\ WordHolds(Len(c[j + 1]))
      BY <1>11, <1>12, <3>2
    <3>4. Word(Len(c[j + 1])) \in Seq(Byte) /\ Len(Word(Len(c[j + 1]))) = WordSize
      BY <3>3, WordIsBytes
    <3>5. Found(all, Len(w) + FrameEnds(c)[j], Word(Len(c[j + 1])))
      BY <1>9, <3>2
    <3>6. /\ FrameEnds(c)[j] \in Nat
          /\ FrameEnds(c)[j + 1] = FrameEnds(c)[j] + WordSize + Len(c[j + 1])
      BY <1>10, <3>2
    <3> DEFINE e == FrameEnds(c)
               f == c[j + 1]
    <3>7. bytes = Word(Len(f))
      <4> HIDE DEF all, place, w, c, bytes, j
      <4> QED BY <1>6, <1>14, <1>15, <1>16, <2>2, <2>4, <3>1, <3>4, <3>5, FoundSame DEF f
    <3>8. WordValue(bytes) = Len(f)
      BY <3>3, <3>7, WordRoundTrip
    <3>9. CASE Len(f) = 0
      <4> DEFINE m1 == Append(reader.m, <<>>)
      <4>1. NextFrame(Len(c), m1)
        <5> HIDE DEF bytes, c, f
        <5> QED BY <2>1, <2>4, <3>2, <3>8, <3>9 DEF Complete
      <4>2. f = <<>>
        <5>1. f \in Seq(Byte)
          BY <3>3
        <5> HIDE DEF f
        <5> QED BY <5>1, <3>9, EmptySeq
      <4>3. /\ m1 \in Seq(Seq(Byte)) /\ Len(m1) = j + 1 /\ m1[j + 1] = <<>>
            /\ \A i \in 1..j : m1[i] = reader.m[i]
        <5>1. <<>> \in Seq(Byte)
          OBVIOUS
        <5> QED BY <1>2, <5>1, AppendProperties
      <4> HIDE DEF m1
      <4>4. \A i \in 1..Len(m1) : m1[i] = c[i]
        <5> TAKE i \in 1..Len(m1)
        <5>1. CASE i = j + 1
          BY <4>2, <4>3, <5>1
        <5>2. CASE i # j + 1
          <6>1. i \in 1..j
            BY <1>3, <4>3, <5>2
          <6> QED BY <3>2, <4>3, <6>1
        <5> QED BY <5>1, <5>2
      <4>5. Len(w) + e[j + 1] = place + Len(bytes)
        <5>1. e[j + 1] = e[j] + WordSize + Len(f) /\ e[j] \in Nat /\ place = Len(w) + e[j]
          BY <3>1, <3>6
        <5>2. Len(bytes) = WordSize
          BY <2>2, <2>4
        <5> HIDE DEF e, w, place, bytes, f, c, j
        <5> QED BY <1>0, <1>6, <3>9, <5>1, <5>2
      <4>6. /\ Found(all, Len(w) + e[j + 1], stream')
            /\ Len(w) + e[j + 1] + Len(stream') + unsent = Len(all)
        <5> HIDE DEF e, w, place, bytes, all, j
        <5> QED BY <1>16, <4>5
      <4>7. k < Len(F) /\ Len(m1) <= Len(c)
        <5>1. Len(c) \in Nat
          BY <1>10
        <5> HIDE DEF c
        <5> QED BY <1>3, <1>8, <3>2, <4>3, <5>1
      <4>8. /\ Found(all, Len(w) + e[Len(m1)], stream')
            /\ Len(w) + e[Len(m1)] + Len(stream') + unsent = Len(all)
        BY <4>3, <4>6
      <4>9. IF Len(m1) = Len(c)
              THEN reader' = Idle /\ received' = Append(received, m1)
              ELSE /\ reader' = [Idle EXCEPT !.pc = "length", !.frames = Len(c), !.m = m1]
                   /\ received' = received
        BY <4>1 DEF NextFrame
      <4>10. stream' \in Seq(Byte)
        BY <1>1
      <4> QED BY <1>2, <1>4, <4>3, <4>4, <4>7, <4>8, <4>9, <4>10, NextFrameFollows
    <3>10. CASE Len(f) # 0
      <4>1. Len(f) > 0
        <5>1. Len(f) \in Nat
          BY <3>3
        <5> HIDE DEF f
        <5> QED BY <3>10, <5>1
      <4>2. /\ reader' = [reader EXCEPT !.pc = "payload", !.bytes = <<>>, !.frameLength = Len(f)]
            /\ received' = received
        <5> HIDE DEF bytes, f
        <5> QED BY <2>1, <2>4, <3>8, <3>10, <4>1 DEF Complete
      <4>3. /\ reader'.pc = "payload" /\ reader'.bytes = <<>> /\ reader'.frameLength = Len(f)
            /\ reader'.m = reader.m /\ reader'.frames = reader.frames
        <5> HIDE DEF f
        <5> QED BY <4>2 DEF RecordsOK
      <4>4. ReaderFollows(F, reader', received')
        <5>1. k < Len(F)
          BY <1>3, <1>8
        <5> QED BY <1>4, <3>2, <4>2, <4>3, <5>1 DEF ReaderFollows
      <4>5. Place(F, reader', received') = place + Len(bytes)
        <5>1. Place(F, reader', received') = Len(w) + (e[j] + WordSize)
          BY <4>2, <4>3 DEF Place, PlaceIn
        <5>2. Len(bytes) = WordSize /\ place = Len(w) + e[j] /\ e[j] \in Nat
          BY <2>2, <2>4, <3>1, <3>6
        <5> HIDE DEF e, w, place, bytes, j
        <5> QED BY <1>0, <1>6, <5>1, <5>2
      <4>6. Len(<<>>) = 0 /\ (place + Len(bytes)) + 0 = place + Len(bytes) /\ place + Len(bytes) \in Nat
        <5>1. Len(bytes) \in Nat
          BY <1>15
        <5> HIDE DEF place, bytes
        <5> QED BY <1>14, <5>1
      <4>7. Found(all, place + Len(bytes), <<>>)
        <5>1. (place + Len(bytes)) + Len(stream') <= Len(all) /\ Len(stream') \in Nat
          BY <1>1, <1>16 DEF Found
        <5> HIDE DEF place, bytes, all
        <5>2. (place + Len(bytes)) + 0 <= Len(all)
          BY <1>6, <4>6, <5>1
        <5> QED BY <4>6, <5>2 DEF Found
      <4> HIDE DEF all, place, bytes
      <4>8. LineFollows(F, stream', unsent, reader', received')
        BY <1>16, <4>3, <4>5, <4>6, <4>7 DEF LineFollows, all
      <4> QED BY <4>4, <4>8
    <3> QED BY <3>9, <3>10
  <2>5. CASE reader.pc = "payload"
    <3>1. place = Len(w) + (FrameEnds(c)[j] + WordSize)
      BY <2>5 DEF Place, PlaceIn
    <3>2. /\ j \in 0..(Len(c) - 1) /\ j \in 0..Len(c) /\ j + 1 \in 1..Len(c) /\ (j + 1) - 1 = j
          /\ reader.frames = Len(c) /\ \A i \in 1..j : reader.m[i] = c[i]
      BY <1>3, <1>13, <2>5
    <3>3. Len(c[j + 1]) \in Nat /\ c[j + 1] \in Seq(Byte)
      BY <1>11, <3>2
    <3>4. reader.frameLength = Len(c[j + 1])
      BY <2>5 DEF ReaderFollows
    <3>5. Found(all, Len(w) + (FrameEnds(c)[j] + WordSize), c[j + 1])
      BY <1>9, <3>2
    <3>6. /\ FrameEnds(c)[j] \in Nat
          /\ FrameEnds(c)[j + 1] = FrameEnds(c)[j] + WordSize + Len(c[j + 1])
      BY <1>10, <3>2
    <3> DEFINE e == FrameEnds(c)
               f == c[j + 1]
               m1 == Append(reader.m, bytes)
    <3>7. bytes = f
      <4> HIDE DEF all, place, w, c, bytes, j
      <4> QED BY <1>6, <1>14, <1>15, <1>16, <2>2, <2>5, <3>1, <3>3, <3>4, <3>5, FoundSame DEF f
    <3>8. NextFrame(Len(c), m1)
      <4> HIDE DEF bytes, c
      <4> QED BY <2>1, <2>5, <3>2 DEF Complete
    <3>9. /\ m1 \in Seq(Seq(Byte)) /\ Len(m1) = j + 1 /\ m1[j + 1] = bytes
          /\ \A i \in 1..j : m1[i] = reader.m[i]
      <4>1. bytes \in Seq(Byte)
        BY <1>15
      <4> HIDE DEF bytes
      <4> QED BY <1>2, <4>1, AppendProperties
    <3> HIDE DEF m1
    <3>10. \A i \in 1..Len(m1) : m1[i] = c[i]
      <4> TAKE i \in 1..Len(m1)
      <4>1. CASE i = j + 1
        BY <3>7, <3>9, <4>1
      <4>2. CASE i # j + 1
        <5>1. i \in 1..j
          BY <1>3, <3>9, <4>2
        <5> QED BY <3>2, <3>9, <5>1
      <4> QED BY <4>1, <4>2
    <3>11. Len(w) + e[j + 1] = place + Len(bytes)
      <4>1. /\ e[j + 1] = e[j] + WordSize + Len(f) /\ e[j] \in Nat
            /\ place = Len(w) + (e[j] + WordSize) /\ Len(f) \in Nat
        BY <3>1, <3>3, <3>6
      <4> HIDE DEF e, w, place, bytes, f, c, j
      <4> QED BY <1>0, <1>6, <3>7, <4>1
    <3>12. /\ Found(all, Len(w) + e[j + 1], stream')
           /\ Len(w) + e[j + 1] + Len(stream') + unsent = Len(all)
      <4> HIDE DEF e, w, place, bytes, all, j
      <4> QED BY <1>16, <3>11
    <3>13. k < Len(F) /\ Len(m1) <= Len(c)
      <4>1. Len(c) \in Nat
        BY <1>10
      <4> HIDE DEF c
      <4> QED BY <1>3, <1>8, <3>2, <3>9, <4>1
    <3>14. /\ Found(all, Len(w) + e[Len(m1)], stream')
           /\ Len(w) + e[Len(m1)] + Len(stream') + unsent = Len(all)
      BY <3>9, <3>12
    <3>15. IF Len(m1) = Len(c)
             THEN reader' = Idle /\ received' = Append(received, m1)
             ELSE /\ reader' = [Idle EXCEPT !.pc = "length", !.frames = Len(c), !.m = m1]
                  /\ received' = received
      BY <3>8 DEF NextFrame
    <3>16. stream' \in Seq(Byte)
      BY <1>1
    <3> QED BY <1>2, <1>4, <3>9, <3>10, <3>13, <3>14, <3>15, <3>16, NextFrameFollows
  <2> QED BY <1>2, <2>3, <2>4, <2>5
<1> QED BY <1>17, <1>18

(***************************************************************************)
(* A call of sendMessage with a message that fits adds the message to those *)
(* that the reader follows.                                                 *)
(***************************************************************************)
LEMMA SendFollows ==
  ASSUME RecordsOK, NEW F \in Seq(Messages), NEW m \in Messages,
         ReaderFollows(F, reader, received), LineFollows(F, stream, 0, reader, received)
  PROVE  /\ ReaderFollows(Append(F, m), reader, received)
         /\ LineFollows(Append(F, m), stream, MessageSize(m), reader, received)
<1> DEFINE G == Append(F, m)
           k == Len(received)
           all == Wire(F)[Len(F)]
           place == Place(F, reader, received)
           inside == reader.pc \in {"length", "payload"}
<1>1. /\ received \in Seq(Seq(Seq(Byte))) /\ reader.bytes \in Seq(Byte) /\ stream \in Seq(Byte)
      /\ reader.m \in Seq(Seq(Byte)) /\ reader.frames \in Nat
      /\ inside => Len(reader.m) < reader.frames
  BY DEF RecordsOK
<1>2. k \in Nat /\ Len(F) \in Nat /\ k <= Len(F)
  BY <1>1 DEF ReaderFollows
<1>3. /\ G \in Seq(Messages) /\ Len(G) = Len(F) + 1
      /\ \A i \in 1..Len(F) : G[i] = F[i]
  BY AppendProperties
<1>4. /\ \A i \in 0..Len(F) : Wire(G)[i] = Wire(F)[i]
      /\ Wire(G)[Len(F) + 1] = all \o WriteMessage(m)
  BY WireAppend
<1>5. k \in 0..Len(F) /\ Len(F) \in 0..Len(F)
  BY <1>2
<1>6. /\ all \in Seq(Byte) /\ Wire(F)[k] \in Seq(Byte) /\ WriteMessage(m) \in Seq(Byte)
      /\ Len(WriteMessage(m)) = MessageSize(m) /\ MessageSize(m) \in Nat
  BY <1>5, WireLayout, MessageFacts
<1>7. inside => k + 1 \in 1..Len(F) /\ G[k + 1] = F[k + 1]
  <2> HAVE inside
  <2>1. k < Len(F)
    BY DEF ReaderFollows
  <2>2. k + 1 \in 1..Len(F)
    BY <1>2, <2>1
  <2> QED BY <1>3, <2>2
<1>8. ReaderFollows(G, reader, received)
  <2>1. k <= Len(G) /\ (inside => k < Len(G))
    BY <1>2, <1>3
  <2>2. ASSUME NEW i \in 1..k PROVE received[i] = G[i]
    <3>1. i \in 1..Len(F)
      BY <1>2
    <3>2. received[i] = F[i]
      BY DEF ReaderFollows
    <3> QED BY <1>3, <3>1, <3>2
  <2>3. inside => /\ reader.frames = Len(G[k + 1])
                  /\ \A i \in 1..Len(reader.m) : reader.m[i] = G[k + 1][i]
                  /\ reader.pc = "payload" => reader.frameLength = Len(G[k + 1][Len(reader.m) + 1])
    BY <1>7 DEF ReaderFollows
  <2> HIDE DEF G
  <2> QED BY <2>1, <2>2, <2>3 DEF ReaderFollows
<1>9. Place(G, reader, received) = place
  <2>1. Wire(G)[k] = Wire(F)[k]
    BY <1>4, <1>5
  <2>2. CASE inside
    BY <1>7, <2>1, <2>2 DEF Place
  <2>3. CASE ~inside
    BY <2>1, <2>3 DEF Place, PlaceIn
  <2> QED BY <2>2, <2>3
<1>10. place \in Nat
  BY PlaceIsNat
<1>11. /\ Found(all, place, reader.bytes) /\ Found(all, place + Len(reader.bytes), stream)
       /\ place + Len(reader.bytes) + Len(stream) + 0 = Len(all)
  BY DEF LineFollows
<1> DEFINE more == Wire(G)[Len(G)]
<1>12. more = all \o WriteMessage(m)
  BY <1>3, <1>4
<1>13. Len(more) = Len(all) + MessageSize(m)
  <2> HIDE DEF all, more
  <2> QED BY <1>6, <1>12, ConcatProperties
<1>14. place + Len(reader.bytes) \in Nat /\ Len(reader.bytes) \in Nat /\ Len(stream) \in Nat
  <2>1. Len(reader.bytes) \in Nat /\ Len(stream) \in Nat
    BY <1>1
  <2> HIDE DEF place
  <2> QED BY <1>10, <2>1
<1> HIDE DEF all, place, more
<1>15. Found(more, place, reader.bytes) /\ Found(more, place + Len(reader.bytes), stream)
  BY <1>1, <1>6, <1>10, <1>11, <1>12, <1>14, FoundBefore
<1>16. place + Len(reader.bytes) + Len(stream) + MessageSize(m) = Len(more)
  <2>1. Len(all) \in Nat
    BY <1>6
  <2> QED BY <1>6, <1>10, <1>11, <1>13, <1>14, <2>1
<1>17. LineFollows(G, stream, MessageSize(m), reader, received)
  BY <1>9, <1>15, <1>16 DEF LineFollows, more
<1> QED BY <1>8, <1>17

(***************************************************************************)
(* What the line takes from the buffer is what comes next.                  *)
(***************************************************************************)
LEMMA WriteFollows ==
  ASSUME RecordsOK, BufferOK, ProgressOK, torn = {}, WriteSome,
         ReaderFollows(Taken(sent), reader, received),
         LineFollows(Taken(sent), stream, Unsent, reader, received)
  PROVE  LineFollows(Taken(sent), stream', Unsent', reader, received)
<1>0. IntLimit \in Nat /\ Capacity \in Nat
  BY ProtocolAssumption
<1>1. PICK n \in 1..sender.towrite, junk \in Byte :
        /\ stream' = stream \o [i \in 1..n |-> IF sender.data + i \in DOMAIN sender.buffer
                                               THEN sender.buffer[sender.data + i] ELSE junk]
        /\ Advance(n)
  BY DEF WriteSome
<1>2. /\ sender.pc = "sending" /\ sender.towrite > 0 /\ sender.towrite <= Capacity
      /\ sender.towrite \in Int /\ sender.towrite < IntLimit /\ wrote \in Nat /\ sent' = sent
  BY <1>0 DEF WriteSome, RecordsOK
<1>3. n \in Nat /\ 1 <= n /\ n <= sender.towrite /\ n \in Int
  BY <1>2
<1> DEFINE m == Last(sent)
           F == Taken(sent)
           l == Len(F)
           all == Wire(F)[l]
           size == MessageSize(m)
           t == [i \in 1..n |-> IF sender.data + i \in DOMAIN sender.buffer
                                THEN sender.buffer[sender.data + i] ELSE junk]
           place == Place(F, reader, received)
           end == place + Len(reader.bytes) + Len(stream)
<1>4. sent # <<>> /\ sender.buffer = WriteMessage(m)
  BY <1>2 DEF BufferOK
<1>5. m \in Messages /\ sent \in Seq(Messages)
  BY <1>4, ElementOfSeq, EmptySeq DEF RecordsOK, Last
<1>6. Fits(m)
  BY <1>0, <1>2, <1>4 DEF ProgressOK
<1>7. sender.data = wrote /\ sender.towrite = size - wrote /\ wrote \in 0..size
  BY <1>2, <1>4, <1>6 DEF ProgressOK
<1>8. /\ size \in Nat /\ WriteMessage(m) \in Seq(Byte) /\ Len(WriteMessage(m)) = size
  BY <1>5, MessageFacts
<1>9. F \in Seq(Messages) /\ l \in Nat /\ l > 0 /\ F[l] = m
  BY <1>4, <1>5, <1>6, TakenFacts, LenProperties
<1>10. l \in 1..l /\ l \in 0..l /\ l - 1 \in 0..l
  BY <1>9
<1> DEFINE a == Len(Wire(F)[l - 1])
<1>11. /\ all \in Seq(Byte) /\ a \in Nat /\ Len(all) = a + size
       /\ Found(all, a, WriteMessage(m))
  <2>1. Wire(F)[l - 1] \in Seq(Byte)
    BY <1>9, <1>10, WireLayout
  <2> QED BY <1>9, <1>10, <2>1, WireLayout
<1>12. Unsent = sender.towrite
  BY <1>2, <1>6 DEF Unsent
<1>13. /\ Found(all, place, reader.bytes) /\ Found(all, place + Len(reader.bytes), stream)
       /\ end + sender.towrite = Len(all)
  BY <1>12 DEF LineFollows
\* The place of the next byte in the buffer and among all bytes.
<1>14. t \in Seq(Byte) /\ Len(t) = n /\ \A i \in 1..n : t[i] = WriteMessage(m)[wrote + i]
  <2>1. \A i \in 1..n : wrote + i \in 1..size
    <3> HIDE DEF size
    <3> QED BY <1>2, <1>3, <1>7, <1>8
  <2>2. DOMAIN sender.buffer = 1..size
    BY <1>4, <1>8, LenProperties
  <2>3. \A i \in 1..n : t[i] = WriteMessage(m)[wrote + i]
    BY <1>4, <1>7, <2>1, <2>2
  <2>4. \A i \in 1..n : t[i] \in Byte
    <3> TAKE i \in 1..n
    <3>1. wrote + i \in 1..Len(WriteMessage(m))
      BY <1>8, <2>1
    <3>2. WriteMessage(m)[wrote + i] \in Byte
      BY <1>8, <3>1, ElementOfSeq
    <3> QED BY <2>3, <3>2
  <2>5. t = [i \in 1..n |-> t[i]]
    OBVIOUS
  <2> HIDE DEF t
  <2>6. t \in Seq(Byte) /\ Len(t) = n
    BY <1>3, <2>4, <2>5
  <2> QED BY <2>3, <2>6
<1>15. stream' = stream \o t
  BY <1>1
<1> HIDE DEF t
<1>16. Found(WriteMessage(m), wrote, t)
  <2>1. wrote + n <= size
    <3> HIDE DEF size
    <3> QED BY <1>2, <1>3, <1>7, <1>8
  <2> QED BY <1>8, <1>14, <2>1 DEF Found
<1>17. Found(all, a + wrote, t)
  <2> HIDE DEF all, a, m
  <2> QED BY <1>2, <1>8, <1>11, <1>14, <1>16, FoundWithin
<1>18. /\ stream \in Seq(Byte) /\ reader.bytes \in Seq(Byte) /\ Len(stream) \in Nat
       /\ Len(reader.bytes) \in Nat
  BY DEF RecordsOK
<1>19. place + Len(reader.bytes) \in Nat
  <2>1. place \in Nat
    BY <1>9, PlaceIsNat
  <2> HIDE DEF place
  <2> QED BY <1>18, <2>1
<1>20. a + wrote = (place + Len(reader.bytes)) + Len(stream)
  <2>1. end + (size - wrote) = a + size /\ end = (place + Len(reader.bytes)) + Len(stream)
    BY <1>7, <1>11, <1>13
  <2>2. end \in Nat
    <3> HIDE DEF place
    <3> QED BY <1>18, <1>19
  <2> HIDE DEF a, size, end, place
  <2>3. end = a + wrote
    BY <1>2, <1>8, <1>11, <2>1, <2>2
  <2> QED BY <2>1, <2>3
<1>21. Found(all, place + Len(reader.bytes), stream')
  <2> HIDE DEF all, a, place
  <2> QED BY <1>11, <1>13, <1>14, <1>15, <1>17, <1>18, <1>19, <1>20, FoundConcat
<1>22. Unsent' = sender.towrite - n
  <2>1. sender'.pc = "sending" /\ sender'.towrite = ToInt(sender.towrite - n)
    BY <1>1, <1>2, <1>3, AdvanceFacts
  <2>2. sender.towrite - n \in Int /\ sender.towrite - n \in -IntLimit..(IntLimit - 1)
    BY <1>0, <1>2, <1>3
  <2>3. sender'.towrite = sender.towrite - n
    BY <2>1, <2>2, ToIntFacts
  <2> QED BY <1>2, <1>6, <2>1, <2>3 DEF Unsent
<1>23. (place + Len(reader.bytes)) + Len(stream') + (sender.towrite - n) = Len(all)
  <2>1. Len(stream') = Len(stream) + n
    BY <1>14, <1>15, <1>18, ConcatProperties
  <2>2. (place + Len(reader.bytes)) + Len(stream) + sender.towrite = Len(all)
    BY <1>13
  <2> HIDE DEF all, place
  <2> QED BY <1>2, <1>3, <1>18, <1>19, <2>1, <2>2
<1> HIDE DEF all, place
<1>24. LineFollows(F, stream', Unsent', reader, received)
  BY <1>13, <1>21, <1>22, <1>23 DEF LineFollows, all, place
<1> QED BY <1>24

(***************************************************************************)
(* As long as nothing is torn, reader and line follow the messages that the *)
(* line takes.                                                              *)
(***************************************************************************)
LEMMA UntornStep ==
  ASSUME Inv, [Next]_vars
  PROVE  UntornOK'
<1>0. IntLimit \in Nat /\ Capacity \in Nat
  BY ProtocolAssumption
<1>1. RecordsOK /\ BufferOK /\ ProgressOK /\ UntornOK
  BY DEF Inv
<1> DEFINE F == Taken(sent)
<1>2. sent \in Seq(Messages) /\ F \in Seq(Messages)
  BY <1>1, TakenFacts DEF RecordsOK
<1>3. SUFFICES ASSUME torn' = {}
               PROVE  /\ ReaderFollows(Taken(sent'), reader', received')
                      /\ LineFollows(Taken(sent'), stream', Unsent', reader', received')
  BY DEF UntornOK
<1>4. torn \subseteq torn'
  BY DEF Next, CallSend, WriteSome, WriteWaits, WriteTooBig, WriteFails, SendReturn, CallRead,
         ReadSome, ReadFails, HangUp, vars
<1>5. torn = {}
  BY <1>3, <1>4
<1>6. ReaderFollows(F, reader, received) /\ LineFollows(F, stream, Unsent, reader, received)
  BY <1>1, <1>5 DEF UntornOK
<1>7. sender.towrite \in Int /\ Unsent \in Int
  <2>1. sender.towrite \in Int
    BY <1>0, <1>1 DEF RecordsOK
  <2> QED BY <2>1 DEF Unsent
<1>8. ASSUME NEW m \in Messages, CallSend(m)
      PROVE  /\ ReaderFollows(Taken(sent'), reader', received')
             /\ LineFollows(Taken(sent'), stream', Unsent', reader', received')
  <2>1. /\ sender.pc = "idle" /\ sent' = Append(sent, m) /\ stream' = stream /\ reader' = reader
        /\ received' = received /\ sender'.pc = "sending"
        /\ sender'.towrite = ToInt(MessageSize(m))
    BY <1>8 DEF CallSend, readerVars
  <2>2. Last(sent') = m
    BY <1>2, <2>1, AppendProperties DEF Last
  <2>3. Unsent = 0
    BY <2>1 DEF Unsent
  <2>4. CASE Fits(m)
    <3>1. Taken(sent') = Append(F, m)
      BY <1>2, <2>1, <2>4, TakenAppend
    <3>2. Unsent' = MessageSize(m)
      <4>1. MessageSize(m) \in Int /\ MessageSize(m) \in -IntLimit..(IntLimit - 1)
        BY <1>0, MessageFacts
      <4>2. ToInt(MessageSize(m)) = MessageSize(m)
        BY <4>1, ToIntFacts
      <4> QED BY <2>1, <2>2, <2>4, <4>2 DEF Unsent
    <3> HIDE DEF F
    <3>3. LineFollows(F, stream, 0, reader, received)
      BY <1>6, <2>3
    <3> QED BY <1>1, <1>2, <1>6, <2>1, <3>1, <3>2, <3>3, SendFollows
  <2>5. CASE ~Fits(m)
    <3>1. Taken(sent') = F
      BY <1>2, <2>1, <2>5, TakenAppend
    <3>2. Unsent' = 0
      BY <2>2, <2>5 DEF Unsent
    <3> HIDE DEF F
    <3> QED BY <1>6, <2>1, <2>3, <3>1, <3>2
  <2> QED BY <2>4, <2>5
<1>9. ASSUME WriteSome
      PROVE  /\ ReaderFollows(Taken(sent'), reader', received')
             /\ LineFollows(Taken(sent'), stream', Unsent', reader', received')
  <2>1. sent' = sent /\ reader' = reader /\ received' = received
    BY <1>9 DEF WriteSome, readerVars
  <2>2. LineFollows(F, stream', Unsent', reader, received)
    BY <1>1, <1>5, <1>6, <1>9, WriteFollows
  <2> HIDE DEF F
  <2>3. Taken(sent') = F
    BY <2>1 DEF F
  <2> QED BY <1>6, <2>1, <2>2, <2>3
<1>10. ASSUME WriteTooBig \/ SendReturn
       PROVE  /\ ReaderFollows(Taken(sent'), reader', received')
              /\ LineFollows(Taken(sent'), stream', Unsent', reader', received')
  <2>1. /\ sender.pc = "sending" /\ sent' = sent /\ stream' = stream /\ reader' = reader
        /\ received' = received
    BY <1>10 DEF WriteTooBig, SendReturn, readerVars
  <2>2. sent # <<>>
    BY <1>1, <2>1 DEF BufferOK
  <2>3. Last(sent) \in Messages
    BY <1>2, <2>2, ElementOfSeq, EmptySeq DEF Last
  <2>4. MessageSize(Last(sent)) \in Nat
    BY <2>3, MessageFacts
  <2>5. Unsent' = Unsent
    <3>1. CASE ~Fits(Last(sent))
      BY <2>1, <3>1 DEF Unsent
    <3>2. CASE Fits(Last(sent))
      <4>1. /\ wrote \in 0..MessageSize(Last(sent))
            /\ sender.towrite = MessageSize(Last(sent)) - wrote
        BY <1>1, <1>5, <2>1, <2>2, <3>2 DEF ProgressOK
      <4>2. MessageSize(Last(sent)) <= Capacity
        BY <3>2 DEF Fits
      <4>3. ~(sender.towrite > Capacity)
        BY <1>0, <2>4, <4>1, <4>2
      <4>4. SendReturn
        BY <1>10, <4>3 DEF WriteTooBig
      <4>5. sender.towrite <= 0 /\ sender'.pc = "idle"
        BY <1>1, <4>4 DEF SendReturn, RecordsOK
      <4>6. sender.towrite = 0
        BY <2>4, <4>1, <4>5
      <4> QED BY <2>1, <4>5, <4>6 DEF Unsent
    <3> QED BY <3>1, <3>2
  <2>6. Taken(sent') = F
    BY <2>1
  <2> HIDE DEF F
  <2> QED BY <1>6, <2>1, <2>5, <2>6
<1>11. ASSUME WriteFails PROVE FALSE
  BY <1>3, <1>11 DEF WriteFails
<1>12. ASSUME CallRead \/ ReadFails
       PROVE  /\ ReaderFollows(Taken(sent'), reader', received')
              /\ LineFollows(Taken(sent'), stream', Unsent', reader', received')
  <2>1. /\ sent' = sent /\ sender' = sender /\ stream' = stream /\ received' = received
    BY <1>12 DEF CallRead, ReadFails, senderVars
  <2>2. reader.pc \in {"idle", "count"} /\ reader'.pc \in {"idle", "count"}
    <3>1. CASE CallRead
      BY <3>1 DEF CallRead, Idle
    <3>2. CASE ReadFails
      <4>1. reader = [Idle EXCEPT !.pc = "count"] /\ reader' = Idle
        BY <1>3, <3>2 DEF ReadFails
      <4> QED BY <4>1 DEF Idle
    <3> QED BY <1>12, <3>1, <3>2
  <2>3. reader.bytes = <<>> /\ reader'.bytes = <<>>
    <3>1. CASE CallRead
      <4>1. reader = Idle /\ reader' = [Idle EXCEPT !.pc = "count"]
        BY <1>1, <3>1 DEF CallRead, RecordsOK
      <4> QED BY <4>1 DEF Idle
    <3>2. CASE ReadFails
      <4>1. reader = [Idle EXCEPT !.pc = "count"] /\ reader' = Idle
        BY <1>3, <3>2 DEF ReadFails
      <4> QED BY <4>1 DEF Idle
    <3> QED BY <1>12, <3>1, <3>2
  <2>4. Unsent' = Unsent /\ Taken(sent') = F
    BY <2>1 DEF Unsent
  <2> HIDE DEF F
  <2>5. Place(F, reader', received') = Place(F, reader, received)
    BY <2>1, <2>2 DEF Place, PlaceIn
  <2>6. ReaderFollows(F, reader', received')
    BY <1>6, <2>1, <2>2 DEF ReaderFollows
  <2>7. LineFollows(F, stream', Unsent', reader', received')
    BY <1>6, <2>1, <2>3, <2>4, <2>5 DEF LineFollows
  <2> QED BY <2>4, <2>6, <2>7
<1>13. ASSUME ReadSome
       PROVE  /\ ReaderFollows(Taken(sent'), reader', received')
              /\ LineFollows(Taken(sent'), stream', Unsent', reader', received')
  <2>1. sent' = sent /\ sender' = sender
    BY <1>13 DEF ReadSome, senderVars
  <2>2. Unsent' = Unsent /\ Taken(sent') = F
    BY <2>1 DEF Unsent
  <2> HIDE DEF F
  <2>3. /\ ReaderFollows(F, reader', received')
        /\ LineFollows(F, stream', Unsent, reader', received')
    BY <1>1, <1>2, <1>6, <1>7, <1>13, ReadFollows
  <2> QED BY <2>2, <2>3
<1>14. ASSUME (\E e \in {"in", "out"} : HangUp(e)) \/ UNCHANGED vars
       PROVE  /\ ReaderFollows(Taken(sent'), reader', received')
              /\ LineFollows(Taken(sent'), stream', Unsent', reader', received')
  <2>1. /\ sent' = sent /\ sender' = sender /\ stream' = stream /\ reader' = reader
        /\ received' = received
    BY <1>14 DEF HangUp, vars, senderVars, readerVars
  <2>2. Unsent' = Unsent /\ Taken(sent') = F
    BY <2>1 DEF Unsent
  <2> HIDE DEF F
  <2> QED BY <1>6, <2>1, <2>2
<1>15. ASSUME WriteWaits
       PROVE  /\ ReaderFollows(Taken(sent'), reader', received')
              /\ LineFollows(Taken(sent'), stream', Unsent', reader', received')
  <2>1. /\ sent' = sent /\ stream' = stream /\ reader' = reader /\ received' = received
        /\ sender'.pc = sender.pc /\ sender'.towrite = sender.towrite
    BY <1>1, <1>15, WaitsFacts
  <2>2. Unsent' = Unsent /\ Taken(sent') = F
    BY <2>1 DEF Unsent
  <2> HIDE DEF F
  <2> QED BY <1>6, <2>1, <2>2
<1> QED BY <1>8, <1>9, <1>10, <1>11, <1>12, <1>13, <1>14, <1>15 DEF Next

-------------------------------------------------------------------------------
\* Message::readMessage of a buffer.

\* The states of the loop of readMessage.
FrameStates == [current : Nat, error : BOOLEAN, m : Seq(Seq(Byte))]

(***************************************************************************)
(* The word at a place of a buffer: a number, and the one that was written  *)
(* there.                                                                   *)
(***************************************************************************)
LEMMA WordAtFacts ==
  ASSUME NEW b \in Seq(Byte), NEW junk \in Byte, NEW n \in Nat
  PROVE  /\ WordAt(b, junk, n) \in Nat
         /\ \A x \in Nat : WordHolds(x) /\ Found(b, n, Word(x)) => WordAt(b, junk, n) = x
<1> DEFINE w == [i \in 1..WordSize |-> IF n + i \in DOMAIN b THEN b[n + i] ELSE junk]
<1>1. WordSize \in Nat
  BY ProtocolAssumption
<1>2. DOMAIN b = 1..Len(b) /\ Len(b) \in Nat
  BY LenProperties
<1>3. \A i \in 1..WordSize : w[i] \in Byte
  BY <1>2, ElementOfSeq
<1>4. \A i \in 1..WordSize : n + i \in 1..Len(b) => w[i] = b[n + i]
  BY <1>2
<1>5. w = [i \in 1..WordSize |-> w[i]]
  OBVIOUS
<1>6. WordAt(b, junk, n) = WordValue(w)
  BY DEF WordAt
<1> HIDE DEF w
<1>7. w \in Seq(Byte) /\ Len(w) = WordSize
  BY <1>1, <1>3, <1>5
<1>8. ASSUME NEW x \in Nat, WordHolds(x), Found(b, n, Word(x)) PROVE WordValue(w) = x
  <2>1. Word(x) \in Seq(Byte) /\ Len(Word(x)) = WordSize
    BY WordIsBytes
  <2>2. n + WordSize <= Len(b) /\ \A i \in 1..WordSize : Word(x)[i] = b[n + i]
    BY <1>8, <2>1 DEF Found
  <2>3. \A i \in 1..WordSize : n + i \in 1..Len(b)
    BY <1>1, <1>2, <2>2
  <2>4. \A i \in 1..Len(w) : w[i] = Word(x)[i]
    BY <1>4, <1>7, <2>2, <2>3
  <2>5. w = Word(x)
    BY <1>7, <2>1, <2>4, SeqEqual
  <2> QED BY <1>8, <2>5, WordRoundTrip
<1> QED BY <1>6, <1>7, <1>8, WordValueFacts

(***************************************************************************)
(* One frame of the loop, in its two outcomes.                              *)
(***************************************************************************)
LEMMA ReadFrameFacts ==
  ASSUME NEW b \in Seq(Byte), NEW junk \in Byte, NEW at \in FrameStates
  PROVE  /\ ReadFrame(b, junk, at) \in FrameStates
         /\ at.error => ReadFrame(b, junk, at) = at
         /\ ~at.error => LET current == at.current + WordSize
                             end     == current + WordAt(b, junk, at.current)
                         IN  IF end > Len(b) THEN ReadFrame(b, junk, at).error
                             ELSE ReadFrame(b, junk, at)
                                    = [current |-> end, error |-> FALSE,
                                       m |-> Append(at.m, SubSeq(b, current + 1, end))]
<1> DEFINE l == WordAt(b, junk, at.current)
           current == at.current + WordSize
           end == current + l
           r == ReadFrame(b, junk, at)
<1>1. at.current \in Nat /\ at.error \in BOOLEAN /\ at.m \in Seq(Seq(Byte)) /\ Len(b) \in Nat
  BY DEF FrameStates
<1>2. l \in Nat
  BY <1>1, WordAtFacts
<1>3. current \in Nat
  BY <1>1, ProtocolAssumption
<1>4. end \in Nat
  <2> HIDE DEF l, current
  <2> QED BY <1>2, <1>3
<1>5. CASE at.error
  <2>1. r = at
    BY <1>5 DEF ReadFrame
  <2> QED BY <1>5, <2>1
<1>6. CASE ~at.error /\ end > Len(b)
  <2>1. r = [at EXCEPT !.error = TRUE]
    BY <1>6 DEF ReadFrame, FrameOverruns
  <2>2. r \in FrameStates /\ r.error
    <3> HIDE DEF r
    <3> QED BY <2>1 DEF FrameStates
  <2> HIDE DEF r, end, l, current
  <2> QED BY <1>6, <2>2 DEF r, end, l, current
<1>7. CASE ~at.error /\ ~(end > Len(b))
  <2> DEFINE f == SubSeq(b, current + 1, end)
  <2>1. r = [current |-> end, error |-> FALSE, m |-> Append(at.m, f)]
    BY <1>7 DEF ReadFrame, FrameOverruns
  <2>2. f \in Seq(Byte)
    <3>1. end \in current..Len(b)
      <4>1. end = current + l
        OBVIOUS
      <4> HIDE DEF l, current, end
      <4> QED BY <1>1, <1>2, <1>3, <1>4, <1>7, <4>1
    <3> HIDE DEF l, current, end
    <3> QED BY <1>3, <3>1, SubSeqFacts
  <2> HIDE DEF f
  <2>3. Append(at.m, f) \in Seq(Seq(Byte))
    BY <1>1, <2>2, AppendProperties
  <2>4. r \in FrameStates
    <3> HIDE DEF r, end
    <3> QED BY <1>4, <2>1, <2>3 DEF FrameStates
  <2> QED BY <1>7, <2>1, <2>4 DEF f
<1> QED BY <1>1, <1>5, <1>6, <1>7

(***************************************************************************)
(* The loop of readMessage, frame by frame.                                 *)
(***************************************************************************)
LEMMA FramesReadFacts ==
  ASSUME NEW b \in Seq(Byte), NEW junk \in Byte
  PROVE  /\ FramesRead(b, junk)[0] = [current |-> WordSize, error |-> FALSE, m |-> <<>>]
         /\ \A i \in 1..WordAt(b, junk, 0) :
              FramesRead(b, junk)[i] = ReadFrame(b, junk, FramesRead(b, junk)[i - 1])
         /\ \A i \in 0..WordAt(b, junk, 0) : FramesRead(b, junk)[i] \in FrameStates
<1> DEFINE n == WordAt(b, junk, 0)
           start == [current |-> WordSize, error |-> FALSE, m |-> <<>>]
           R(at) == ReadFrame(b, junk, at)
           Body(f, i) == IF i = 0 THEN start ELSE R(f[i - 1])
           step == [i \in 1..n |-> [at \in FrameStates |-> R(at)]]
           g == FramesRead(b, junk)
<1>1. n \in Nat
  BY WordAtFacts, 0 \in Nat
<1>2. start \in FrameStates
  BY ProtocolAssumption DEF FrameStates
<1>3. \A at \in FrameStates : R(at) \in FrameStates
  BY ReadFrameFacts
<1>4. g = CHOOSE h : h = [i \in 0..n |-> Body(h, i)]
  BY DEF FramesRead
<1> HIDE DEF n, start, R, g
<1>5. \A at \in FrameStates, i \in 1..n : step[i][at] = R(at)
  OBVIOUS
<1>6. step \in [1..n -> [FrameStates -> FrameStates]]
  BY <1>3
<1> HIDE DEF step
<1>7. PICK f : Recursive(f, n, FrameStates, start, step)
  BY <1>1, <1>2, <1>6, Recursion
<1>8. ASSUME NEW i \in 0..n PROVE f[i] = Body(f, i)
  <2>1. CASE i = 0
    BY <1>7, <2>1 DEF Recursive
  <2>2. CASE i # 0
    <3>1. i \in 1..n /\ i - 1 \in 0..n
      BY <1>1, <2>2
    <3>2. f[i - 1] \in FrameStates
      BY <3>1, <1>7 DEF Recursive
    <3>3. f[i] = step[i][f[i - 1]]
      BY <3>1, <1>7 DEF Recursive
    <3>4. f[i] = R(f[i - 1])
      BY <3>1, <3>2, <3>3, <1>5
    <3> QED BY <2>2, <3>4
  <2> QED BY <2>1, <2>2
<1>9. f = [i \in 0..n |-> f[i]]
  BY <1>7 DEF Recursive
<1> HIDE DEF Body
<1>10. f = [i \in 0..n |-> Body(f, i)]
  BY <1>8, <1>9
<1>11. g = [i \in 0..n |-> Body(g, i)]
  BY <1>4, <1>10
<1>12. \A i \in 0..n : g[i] = Body(g, i)
  BY <1>11
<1>13. g[0] = start
  BY <1>1, <1>12 DEF Body
<1>14. ASSUME NEW i \in 1..n PROVE g[i] = R(g[i - 1])
  <2>1. i \in 0..n /\ i # 0
    BY <1>1
  <2> QED BY <2>1, <1>12 DEF Body
<1>15. \A i \in 1..n : g[i - 1] \in FrameStates => g[i] \in FrameStates
  BY <1>3, <1>14
<1>16. \A i \in 0..n : g[i] \in FrameStates
  <2>1. g[0] \in FrameStates
    BY <1>2, <1>13
  <2> QED BY <1>1, <1>15, <2>1, StaysIn
<1> QED BY <1>13, <1>14, <1>16 DEF n, start, R, g

(***************************************************************************)
(* Of the first bytes of a message's buffer, readMessage reads the frames   *)
(* that are whole, and fails at the first one that is not.                  *)
(***************************************************************************)
LEMMA FrontIsRead ==
  ASSUME NEW m \in Messages, NEW junk \in Byte, NEW b \in Seq(Byte),
         Found(WriteMessage(m), 0, b), Len(b) >= WordSize
  PROVE  /\ WordAt(b, junk, 0) = Len(m)
         /\ \A i \in 0..Len(m) :
              IF FrameEnds(m)[i] <= Len(b)
                THEN /\ FramesRead(b, junk)[i].current = FrameEnds(m)[i]
                     /\ ~FramesRead(b, junk)[i].error
                     /\ Len(FramesRead(b, junk)[i].m) = i
                     /\ \A l \in 1..i : FramesRead(b, junk)[i].m[l] = m[l]
                ELSE FramesRead(b, junk)[i].error
<1> DEFINE w == WriteMessage(m)
           n == Len(m)
           e == FrameEnds(m)
           g == FramesRead(b, junk)
           Good(i) == /\ g[i].current = e[i] /\ ~g[i].error /\ Len(g[i].m) = i
                      /\ \A l \in 1..i : g[i].m[l] = m[l]
           T == {i \in 0..n : IF e[i] <= Len(b) THEN Good(i) ELSE g[i].error}
<1>1. WordSize \in Nat /\ Len(b) \in Nat
  BY ProtocolAssumption
<1>2. m \in Seq(Seq(Byte)) /\ w \in Seq(Byte) /\ WordHolds(n) /\ \A i \in 1..n : WordHolds(Len(m[i]))
  BY MessageFacts
<1>3. n \in Nat /\ \A i \in 1..n : m[i] \in Seq(Byte) /\ Len(m[i]) \in Nat
  BY <1>2, ElementOfSeq, LenProperties
<1>4. /\ Found(w, 0, Word(n))
      /\ \A i \in 1..n : /\ Found(w, e[i - 1], Word(Len(m[i])))
                         /\ Found(w, e[i - 1] + WordSize, m[i])
  BY <1>2, Layout
<1>5. /\ e[0] = WordSize
      /\ \A i \in 1..n : e[i] = e[i - 1] + WordSize + Len(m[i])
      /\ \A i \in 0..n : e[i] \in Nat
  BY <1>2, FrameEndsFacts
<1>6. \A x \in Nat : Word(x) \in Seq(Byte) /\ Len(Word(x)) = WordSize
  BY WordIsBytes
<1>7. WordAt(b, junk, 0) = n
  <2>1. 0 + Len(Word(n)) <= Len(b)
    BY <1>1, <1>3, <1>6
  <2> HIDE DEF w, n
  <2>2. Found(w, 0, b)
    BY DEF w
  <2>3. Found(b, 0, Word(n))
    BY <1>2, <1>3, <1>4, <1>6, <2>1, <2>2, FoundInFront, 0 \in Nat
  <2> QED BY <1>2, <1>3, <2>3, WordAtFacts, 0 \in Nat
<1>8. /\ g[0] = [current |-> WordSize, error |-> FALSE, m |-> <<>>]
      /\ \A i \in 1..n : g[i] = ReadFrame(b, junk, g[i - 1])
      /\ \A i \in 0..n : g[i] \in FrameStates
  BY <1>7, FramesReadFacts
<1> HIDE DEF w, n, e, g
<1>9. 0 \in T
  <2>1. 0 \in 0..n /\ e[0] <= Len(b)
    BY <1>1, <1>3, <1>5
  <2>2. g[0].current = e[0] /\ ~g[0].error /\ g[0].m = <<>>
    BY <1>5, <1>8
  <2>3. Good(0)
    BY <2>2
  <2> QED BY <2>1, <2>3
<1>10. ASSUME NEW i \in 0..(n - 1), i \in T PROVE i + 1 \in T
  <2> DEFINE f == m[i + 1]
             l == WordAt(b, junk, e[i])
  <2>1. i \in Nat /\ i \in 0..n /\ i + 1 \in 0..n /\ i + 1 \in 1..n /\ (i + 1) - 1 = i
    BY <1>3
  <2>2. f \in Seq(Byte) /\ Len(f) \in Nat /\ WordHolds(Len(f))
    BY <1>2, <1>3, <2>1 DEF n
  <2>3. e[i] \in Nat /\ e[i + 1] = e[i] + WordSize + Len(f) /\ e[i + 1] \in Nat
    BY <1>5, <2>1
  <2>4. Found(w, e[i], Word(Len(f))) /\ Found(w, e[i] + WordSize, f)
    BY <1>4, <2>1
  <2>5. g[i] \in FrameStates /\ g[i + 1] = ReadFrame(b, junk, g[i])
    BY <1>8, <2>1
  <2>6. IF e[i] <= Len(b) THEN Good(i) ELSE g[i].error
    BY <1>10
  <2>7. l \in Nat
    BY <2>3, WordAtFacts
  <2> HIDE DEF f, l
  <2>8. CASE ~(e[i] <= Len(b))
    <3>1. g[i].error
      BY <2>6, <2>8
    <3>2. g[i + 1] = g[i]
      BY <2>5, <3>1, ReadFrameFacts
    <3>3. ~(e[i + 1] <= Len(b))
      BY <1>1, <2>2, <2>3, <2>8
    <3> QED BY <2>1, <3>1, <3>2, <3>3
  <2>9. CASE e[i] <= Len(b)
    <3> DEFINE c == e[i] + WordSize
               end == c + l
    <3>1. /\ g[i].current = e[i] /\ ~g[i].error /\ Len(g[i].m) = i
          /\ \A k \in 1..i : g[i].m[k] = m[k]
      BY <2>6, <2>9
    <3>2. IF end > Len(b) THEN g[i + 1].error
          ELSE g[i + 1] = [current |-> end, error |-> FALSE,
                           m |-> Append(g[i].m, SubSeq(b, c + 1, end))]
      BY <2>5, <3>1, ReadFrameFacts DEF l
    <3>3. c \in Nat /\ end \in Nat /\ e[i + 1] = c + Len(f)
      BY <1>1, <2>2, <2>3, <2>7
    <3>4. CASE ~(c <= Len(b))
      <4>1. end > Len(b) /\ ~(e[i + 1] <= Len(b))
        <5>1. end = c + l
          OBVIOUS
        <5> HIDE DEF c, end
        <5> QED BY <1>1, <2>2, <2>7, <3>3, <3>4, <5>1
      <4>2. g[i + 1].error
        BY <3>2, <4>1
      <4> QED BY <2>1, <4>1, <4>2
    <3>5. CASE c <= Len(b)
      <4>1. l = Len(f)
        <5>1. Word(Len(f)) \in Seq(Byte) /\ e[i] + Len(Word(Len(f))) <= Len(b)
          BY <1>6, <2>2, <3>5
        <5>2. Found(w, 0, b)
          BY DEF w
        <5>3. Found(b, e[i], Word(Len(f)))
          BY <1>2, <2>3, <2>4, <5>1, <5>2, FoundInFront
        <5> QED BY <2>2, <2>3, <5>3, WordAtFacts DEF l
      <4>2. end = e[i + 1]
        BY <3>3, <4>1
      <4>3. CASE end > Len(b)
        <5>1. g[i + 1].error /\ ~(e[i + 1] <= Len(b))
          <6>1. g[i + 1].error
            BY <3>2, <4>3
          <6> HIDE DEF end
          <6> QED BY <1>1, <3>3, <4>2, <4>3, <6>1
        <5> QED BY <2>1, <5>1
      <4>4. CASE ~(end > Len(b))
        <5> DEFINE p == SubSeq(b, c + 1, end)
                   old == g[i].m
        <5>1. g[i + 1] = [current |-> end, error |-> FALSE, m |-> Append(old, p)]
          BY <3>2, <4>4
        <5>2. end \in c..Len(b) /\ end - c = Len(f) /\ c + Len(f) <= Len(b)
          BY <1>1, <2>2, <3>3, <4>1, <4>4
        <5> HIDE DEF c, end
        <5>3. /\ p \in Seq(Byte) /\ Len(p) = Len(f)
              /\ \A k \in 1..Len(f) : p[k] = b[c + k]
          <6>1. /\ p \in Seq(Byte) /\ Len(p) = end - c
                /\ \A k \in 1..(end - c) : p[k] = b[c + k]
            <7>1. c \in Nat /\ end \in c..Len(b)
              BY <3>3, <5>2
            <7> QED BY <7>1, SubSeqFacts
          <6> HIDE DEF p
          <6> QED BY <5>2, <6>1
        <5>4. p = f
          <6>1. Found(w, 0, b)
            BY DEF w
          <6>2. Found(b, c, f)
            <7>1. Found(w, c, f)
              BY <2>4 DEF c
            <7> QED BY <1>2, <2>2, <3>3, <5>2, <6>1, <7>1, FoundInFront
          <6>3. \A k \in 1..Len(p) : p[k] = f[k]
            BY <5>3, <6>2 DEF Found
          <6> HIDE DEF p
          <6> QED BY <2>2, <5>3, <6>3, SeqEqual
        <5> HIDE DEF p
        <5>5. old \in Seq(Seq(Byte))
          BY <2>5 DEF FrameStates
        <5>6. /\ Len(Append(old, p)) = i + 1 /\ Append(old, p)[i + 1] = f
              /\ \A k \in 1..i : Append(old, p)[k] = m[k]
          <6> HIDE DEF old
          <6>1. Len(old) = i /\ \A k \in 1..i : old[k] = m[k]
            BY <3>1 DEF old
          <6> QED BY <5>3, <5>4, <5>5, <6>1, AppendProperties
        <5> HIDE DEF old
        <5>7. g[i + 1].current = end /\ ~g[i + 1].error /\ g[i + 1].m = Append(old, p)
          BY <5>1
        <5>8. \A k \in 1..(i + 1) : Append(old, p)[k] = m[k]
          <6> TAKE k \in 1..(i + 1)
          <6>1. CASE k = i + 1
            BY <5>6, <6>1 DEF f
          <6>2. CASE k # i + 1
            <7>1. k \in 1..i
              BY <2>1, <6>2
            <7> QED BY <5>6, <7>1
          <6> QED BY <6>1, <6>2
        <5>9. Good(i + 1)
          BY <4>2, <5>6, <5>7, <5>8
        <5>10. e[i + 1] <= Len(b)
          BY <3>3, <5>2
        <5> QED BY <2>1, <5>9, <5>10
      <4> QED BY <4>3, <4>4
    <3> QED BY <3>4, <3>5
  <2> QED BY <2>8, <2>9
<1> HIDE DEF T
<1>11. \A i \in 0..n : i \in T
  BY <1>3, <1>9, <1>10, UpTo
<1> QED BY <1>7, <1>11 DEF T, n, e, g

-------------------------------------------------------------------------------
\* The theorems.

(***************************************************************************)
(* Before the first call everything is empty.                               *)
(***************************************************************************)
LEMMA InitInv ==
  ASSUME Init
  PROVE  Inv
<1>0. WordSize \in Nat /\ WordSize > 0 /\ IntLimit \in Nat /\ IntLimit > 0 /\ Capacity \in Nat
  BY ProtocolAssumption
<1>1. RecordsOK
  BY <1>0 DEF Init, RecordsOK, Idle
<1>2. BufferOK /\ ProgressOK
  BY DEF Init, BufferOK, ProgressOK
<1>3. UntornOK
  <2> DEFINE F == Taken(sent)
             all == Wire(F)[Len(F)]
  <2>1. /\ sent = <<>> /\ sender.pc = "idle" /\ reader.pc = "idle" /\ reader.bytes = <<>>
        /\ stream = <<>> /\ received = <<>>
    BY DEF Init, Idle
  <2>2. sent \in Seq(Messages) /\ Len(sent) = 0
    BY <2>1
  <2>3. F = <<>> /\ Len(F) = 0 /\ F \in Seq(Messages)
    <3>1. TakenOf(sent)[0] = <<>>
      BY <2>2, TakenOfFacts
    <3> QED BY <2>2, <3>1 DEF Taken
  <2>4. Wire(F)[0] = <<>>
    BY <2>3, WireFacts
  <2>5. all = <<>> /\ Len(all) = 0
    BY <2>3, <2>4
  <2>6. Place(F, reader, received) = 0
    <3>1. Len(received) = 0 /\ Len(Wire(F)[0]) = 0
      BY <2>1, <2>4
    <3> HIDE DEF F
    <3> QED BY <2>1, <3>1 DEF Place, PlaceIn
  <2>7. Unsent = 0
    BY <2>1 DEF Unsent
  <2> HIDE DEF F, all
  <2>8. ReaderFollows(F, reader, received)
    BY <2>1, <2>3 DEF ReaderFollows
  <2>9. Found(all, 0, <<>>) /\ Found(all, 0 + Len(<<>>), <<>>)
    BY <2>5 DEF Found
  <2>10. LineFollows(F, stream, Unsent, reader, received)
    BY <2>1, <2>5, <2>6, <2>7, <2>9 DEF LineFollows, all
  <2> QED BY <2>8, <2>10 DEF UntornOK, F
<1> QED BY <1>1, <1>2, <1>3 DEF Inv

(***************************************************************************)
(* The invariant holds throughout.                                          *)
(***************************************************************************)
LEMMA Invariance == Spec => []Inv
<1>1. Init => Inv
  BY InitInv
<1>2. Inv /\ [Next]_vars => Inv'
  BY RecordsStep, BufferStep, ProgressStep, UntornStep DEF Inv
<1> QED BY <1>1, <1>2, PTL DEF Spec

(***************************************************************************)
(* The state of sendMessage and readMessage stays in its range; inside a    *)
(* loop readMessage has fewer bytes than it asked for and fewer frames than *)
(* the message has (message.cpp:156-214).                                   *)
(***************************************************************************)
THEOREM TypeCorrect == Spec => []TypeOK
<1>1. Inv => TypeOK
  BY DEF Inv, RecordsOK, TypeOK
<1> QED BY <1>1, Invariance, PTL

(***************************************************************************)
(* sendMessage of a message that fits returns 1 only when the line has      *)
(* taken all of it, as long as no write failed (message.cpp:207-213).       *)
(***************************************************************************)
THEOREM FittingMessagesAreSent == Spec => []FittingIsSent
<1>1. Inv => FittingIsSent
  BY DEF Inv, ProgressOK, FittingIsSent
<1> QED BY <1>1, Invariance, PTL

(***************************************************************************)
(* However the line cuts the bytes into pieces, readMessage returns the     *)
(* messages passed to sendMessage, unchanged and in order, as long as no    *)
(* call on the line failed in the middle of a message (message.cpp:102-115, *)
(* :156-199 and :201-214).                                                  *)
(***************************************************************************)
THEOREM MessagesInOrder == Spec => []UntornInOrder
<1>1. ASSUME Inv, torn = {} PROVE IsPrefix(received, Taken(sent))
  <2> DEFINE F == Taken(sent)
             k == Len(received)
  <2>1. received \in Seq(Seq(Seq(Byte))) /\ F \in Seq(Messages)
    BY <1>1, TakenFacts DEF Inv, RecordsOK
  <2>2. k <= Len(F) /\ \A i \in 1..k : received[i] = F[i]
    BY <1>1 DEF Inv, UntornOK, ReaderFollows
  <2> HIDE DEF F
  <2>3. k \in 0..Len(F) /\ k \in 0..k /\ 0 + 1 = 1 /\ k - 0 = k
    BY <2>1, <2>2
  <2>4. /\ SubSeq(received, 1, k) \in Seq(Seq(Seq(Byte))) /\ Len(SubSeq(received, 1, k)) = k
        /\ \A i \in 1..k : SubSeq(received, 1, k)[i] = received[i]
    BY <2>1, <2>3, SubSeqFacts, 0 \in Nat
  <2>5. /\ SubSeq(F, 1, k) \in Seq(Messages) /\ Len(SubSeq(F, 1, k)) = k
        /\ \A i \in 1..k : SubSeq(F, 1, k)[i] = F[i]
    BY <2>1, <2>3, SubSeqFacts, 0 \in Nat
  <2>6. SubSeq(F, 1, k) \in Seq(Seq(Seq(Byte)))
    <3>1. Messages \subseteq Seq(Seq(Byte))
      BY MessageFacts
    <3> HIDE DEF k
    <3> QED BY <2>5, <3>1
  <2>7. SubSeq(received, 1, k) = SubSeq(F, 1, k)
    <3> DEFINE u == SubSeq(received, 1, k)
               v == SubSeq(F, 1, k)
    <3>1. u \in Seq(Seq(Seq(Byte))) /\ v \in Seq(Seq(Seq(Byte))) /\ Len(u) = Len(v)
      BY <2>4, <2>5, <2>6
    <3>2. \A i \in 1..Len(u) : u[i] = v[i]
      BY <2>2, <2>4, <2>5
    <3> HIDE DEF u, v
    <3>3. u = v
      BY <3>1, <3>2, SeqEqual
    <3> QED BY <3>3 DEF u, v
  <2> QED BY <2>2, <2>7 DEF IsPrefix, F
<1>2. Inv => UntornInOrder
  BY <1>1 DEF UntornInOrder
<1> QED BY <1>2, Invariance, PTL

(***************************************************************************)
(* The parser of a buffer and the writer agree: what writeMessage wrote is  *)
(* read back, and a part of it that has the whole count word is refused,    *)
(* wherever it is cut and whatever lies behind it in memory                 *)
(* (message.cpp:58-80 against :91-115).                                     *)
(***************************************************************************)
THEOREM BuffersAreReadBack == Spec => []BufferRoundTrip
<1>1. ASSUME Inv, sender.pc = "sending", NEW junk \in Byte
      PROVE  LET whole == ReadBuffer(sender.buffer, junk)
             IN  /\ whole.m = Last(sent) /\ ~whole.error
                 /\ whole.current = Len(sender.buffer) /\ Len(sender.buffer) = MessageSize(Last(sent))
                 /\ \A n \in WordSize..(Len(sender.buffer) - 1) :
                      ReadBuffer(SubSeq(sender.buffer, 1, n), junk).error
  <2> DEFINE m == Last(sent)
             b == sender.buffer
             k == Len(m)
             e == FrameEnds(m)
             g == FramesRead(b, junk)
  <2>1. sent # <<>> /\ b = WriteMessage(m) /\ sent \in Seq(Messages)
    BY <1>1 DEF Inv, BufferOK, RecordsOK
  <2>2. m \in Messages
    BY <2>1, ElementOfSeq, EmptySeq DEF Last
  <2>3. /\ m \in Seq(Seq(Byte)) /\ b \in Seq(Byte) /\ Len(b) = MessageSize(m)
        /\ MessageSize(m) >= WordSize
    BY <2>1, <2>2, MessageFacts
  <2>4. k \in Nat /\ Len(b) \in Nat /\ k \in 0..k /\ e[k] = Len(b) /\ WordSize \in Nat
    BY <2>3, ProtocolAssumption DEF MessageSize
  <2>5. Found(b, 0, b)
    BY <2>4 DEF Found
  <2> HIDE DEF m, b, k
  <2>6. /\ WordAt(b, junk, 0) = k /\ g[k].current = e[k] /\ ~g[k].error /\ Len(g[k].m) = k
        /\ \A l \in 1..k : g[k].m[l] = m[l]
    <3>1. /\ WordAt(b, junk, 0) = Len(m)
          /\ \A i \in 0..Len(m) :
               IF e[i] <= Len(b)
                 THEN g[i].current = e[i] /\ ~g[i].error /\ Len(g[i].m) = i /\ \A l \in 1..i : g[i].m[l] = m[l]
                 ELSE g[i].error
      BY <2>1, <2>2, <2>3, <2>5, FrontIsRead
    <3>2. Len(m) = k /\ e[k] <= Len(b)
      BY <2>4 DEF k
    <3> QED BY <2>4, <3>1, <3>2
  <2>7. g[k].m = m
    <3>1. g[k] \in FrameStates
      BY <2>3, <2>4, <2>6, FramesReadFacts
    <3>2. g[k].m \in Seq(Seq(Byte))
      BY <3>1 DEF FrameStates
    <3> HIDE DEF g
    <3> QED BY <2>3, <2>6, <3>2, SeqEqual DEF k
  <2>8. ReadBuffer(b, junk) = g[k]
    BY <2>6 DEF ReadBuffer
  <2>9. ASSUME NEW n \in WordSize..(Len(b) - 1) PROVE ReadBuffer(SubSeq(b, 1, n), junk).error
    <3> DEFINE part == SubSeq(b, 1, n)
               h == FramesRead(part, junk)
    <3>1. n \in 0..Len(b) /\ n >= WordSize /\ n < Len(b) /\ n \in Nat
      BY <2>4
    <3>2. part \in Seq(Byte) /\ Len(part) = n /\ Found(b, 0, part)
      BY <2>3, <2>5, <3>1, FoundParts, 0 \in Nat
    <3> HIDE DEF part
    <3>3. /\ WordAt(part, junk, 0) = Len(m)
          /\ \A i \in 0..Len(m) :
               IF e[i] <= Len(part)
                 THEN h[i].current = e[i] /\ ~h[i].error /\ Len(h[i].m) = i /\ \A l \in 1..i : h[i].m[l] = m[l]
                 ELSE h[i].error
      BY <2>1, <2>2, <3>1, <3>2, FrontIsRead
    <3>4. Len(m) = k /\ ~(e[k] <= Len(part))
      BY <2>4, <3>1, <3>2 DEF k
    <3>5. WordAt(part, junk, 0) = k /\ h[k].error
      BY <2>4, <3>3, <3>4
    <3> QED BY <3>5 DEF ReadBuffer, part
  <2> HIDE DEF g
  <2>10. /\ ReadBuffer(b, junk).m = m /\ ~ReadBuffer(b, junk).error
         /\ ReadBuffer(b, junk).current = Len(b) /\ Len(b) = MessageSize(m)
    BY <2>3, <2>4, <2>6, <2>7, <2>8
  <2> QED BY <2>9, <2>10 DEF m, b
<1>2. Inv => BufferRoundTrip
  BY <1>1 DEF BufferRoundTrip
<1> QED BY <1>2, Invariance, PTL
===============================================================================
