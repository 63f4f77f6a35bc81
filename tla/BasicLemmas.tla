------------------------------ MODULE BasicLemmas ------------------------------
(***************************************************************************)
(* Facts about numbers, sets and sequences that the proofs of several       *)
(* components need.                                                         *)
(***************************************************************************)
EXTENDS Integers, Sequences, FiniteSets, FiniteSetsExt, FiniteSetTheorems, SequenceTheorems,
        WellFoundedInduction, NaturalsInduction, TLAPS

-------------------------------------------------------------------------------
\* Numbers and sets.

(***************************************************************************)
(* A set of natural numbers that has an element has a least one.            *)
(***************************************************************************)
LEMMA LeastElement ==
  ASSUME NEW T \in SUBSET Nat, T # {}
  PROVE  \E j \in T : \A k \in T : j <= k
<1> DEFINE R == {p \in Nat \X Nat : p[1] < p[2]}
<1>1. IsWellFoundedOn(R, Nat)
  BY NatLessThanWellFounded DEF OpToRel, R
<1> HIDE DEF R
<1>2. PICK x \in T : \A y \in T : ~(<<y, x>> \in R)
  BY <1>1, WFMin
<1>3. x \in Nat /\ \A y \in T : y \in Nat
  OBVIOUS
<1>4. ASSUME NEW y \in T PROVE x <= y
  <2>1. <<y, x>> \in Nat \X Nat /\ <<y, x>> \notin R
    BY <1>2, <1>3
  <2>2. ~(y < x)
    BY <2>1 DEF R
  <2> QED BY <1>3, <2>2
<1> QED BY <1>4

(***************************************************************************)
(* What holds of 0, and of i + 1 when it holds of i, holds up to n.  The    *)
(* property is a set, which the provers can instantiate.                    *)
(***************************************************************************)
LEMMA UpTo ==
  ASSUME NEW n \in Nat, NEW T, 0 \in T,
         \A i \in 0..(n - 1) : i \in T => i + 1 \in T
  PROVE  \A i \in 0..n : i \in T
<1> DEFINE F == {i \in 0..n : i \notin T}
<1>1. SUFFICES ASSUME F # {} PROVE FALSE
  OBVIOUS
<1>2. F \in SUBSET Nat
  OBVIOUS
<1>3. PICK j \in F : \A k \in F : j <= k
  BY <1>1, <1>2, LeastElement
<1>4. j \in 0..n /\ j \notin T /\ j # 0
  OBVIOUS
<1>5. j - 1 \in 0..(n - 1) /\ j - 1 \in 0..n /\ ~(j <= j - 1) /\ (j - 1) + 1 = j
  BY <1>4
<1>6. j - 1 \in T
  BY <1>3, <1>5
<1> QED BY <1>4, <1>5, <1>6

\* f starts at base and goes on by the steps, up to n.
Recursive(f, n, S, base, step) ==
  /\ f \in [0..n -> S] /\ f[0] = base
  /\ \A i \in 1..n : f[i] = step[i][f[i - 1]]

(***************************************************************************)
(* A value and a step that leads from value to value define a function: the *)
(* recursive definitions of the models have a meaning.                      *)
(***************************************************************************)
LEMMA Recursion ==
  ASSUME NEW n \in Nat, NEW S, NEW base \in S, NEW step \in [1..n -> [S -> S]]
  PROVE  \E f : Recursive(f, n, S, base, step)
<1> DEFINE Good(f, k) == Recursive(f, k, S, base, step)
           T == {k \in 0..n : \E f : Good(f, k)}
<1>1. 0 \in T
  <2> DEFINE f == [i \in 0..0 |-> base]
  <2>1. f \in [0..0 -> S] /\ f[0] = base
    OBVIOUS
  <2>2. \A i \in 1..0 : f[i] = step[i][f[i - 1]]
    OBVIOUS
  <2> HIDE DEF f
  <2>3. Good(f, 0)
    BY <2>1, <2>2 DEF Recursive
  <2> QED BY <2>3
<1>2. ASSUME NEW k \in 0..(n - 1), k \in T PROVE k + 1 \in T
  <2>1. PICK f : Good(f, k)
    BY <1>2
  <2>2. k \in Nat /\ k + 1 \in 1..n /\ k + 1 \in 0..n
    OBVIOUS
  <2>3. f[k] \in S
    BY <2>1, <2>2 DEF Recursive
  <2> DEFINE v == step[k + 1][f[k]]
             g == [i \in 0..(k + 1) |-> IF i = k + 1 THEN v ELSE f[i]]
  <2>4. v \in S
    BY <2>2, <2>3
  <2> HIDE DEF v
  <2>5. \A i \in 0..(k + 1) : i # k + 1 => i \in 0..k
    BY <2>2
  <2>6. g \in [0..(k + 1) -> S]
    BY <2>1, <2>4, <2>5 DEF Recursive
  <2>7. \A i \in 0..k : g[i] = f[i] /\ i \in 0..(k + 1) /\ i # k + 1
    BY <2>2
  <2>8. g[k + 1] = v
    BY <2>2
  <2> HIDE DEF g
  <2>9. g[0] = base
    BY <2>1, <2>2, <2>7 DEF Recursive
  <2>10. ASSUME NEW i \in 1..(k + 1) PROVE g[i] = step[i][g[i - 1]]
    <3>1. CASE i = k + 1
      <4>1. i - 1 = k /\ k \in 0..k
        BY <3>1, <2>2
      <4>2. g[i - 1] = f[k]
        BY <4>1, <2>7
      <4> QED BY <3>1, <4>2, <2>8 DEF v
    <3>2. CASE i # k + 1
      <4>1. i \in 1..k /\ i \in 0..k /\ i - 1 \in 0..k
        BY <3>2, <2>2
      <4>2. g[i] = f[i] /\ g[i - 1] = f[i - 1]
        BY <4>1, <2>7
      <4> QED BY <4>1, <4>2, <2>1 DEF Recursive
    <3> QED BY <3>1, <3>2
  <2>11. Good(g, k + 1)
    BY <2>6, <2>9, <2>10 DEF Recursive
  <2> QED BY <2>2, <2>11
<1> HIDE DEF T
<1>3. n \in T
  <2>1. \A i \in 0..n : i \in T
    BY <1>1, <1>2, UpTo
  <2> QED BY <2>1
<1>4. PICK f : Good(f, n)
  BY <1>3 DEF T
<1> QED BY <1>4

(***************************************************************************)
(* What starts in S and does not leave it in one step stays in it.          *)
(***************************************************************************)
LEMMA StaysIn ==
  ASSUME NEW n \in Nat, NEW S, NEW f, f[0] \in S,
         \A i \in 1..n : f[i - 1] \in S => f[i] \in S
  PROVE  \A i \in 0..n : f[i] \in S
<1> DEFINE T == {i \in 0..n : f[i] \in S}
<1>1. 0 \in T
  OBVIOUS
<1>2. ASSUME NEW i \in 0..(n - 1), i \in T PROVE i + 1 \in T
  <2>1. i + 1 \in 1..n /\ i + 1 \in 0..n /\ (i + 1) - 1 = i
    OBVIOUS
  <2>2. f[(i + 1) - 1] \in S
    BY <1>2, <2>1
  <2>3. f[i + 1] \in S
    BY <2>1, <2>2
  <2> QED BY <2>1, <2>3
<1> HIDE DEF T
<1>3. \A i \in 0..n : i \in T
  BY <1>1, <1>2, UpTo
<1> QED BY <1>3 DEF T

(***************************************************************************)
(* Min, which picks the lowest free descriptor or pipe, picks one that is   *)
(* free.                                                                    *)
(***************************************************************************)
LEMMA MinIsMember ==
  ASSUME NEW T \in SUBSET Nat, T # {}
  PROVE  Min(T) \in T
<1>1. \E j \in T : \A k \in T : j <= k
  BY LeastElement
<1> QED BY <1>1 DEF Min

(***************************************************************************)
(* The size of an interval that starts at 1.                                *)
(***************************************************************************)
LEMMA FirstNumbers ==
  ASSUME NEW n \in Nat
  PROVE  IsFiniteSet(1..n) /\ Cardinality(1..n) = n
<1>1. 1 \in Int /\ n \in Int
  OBVIOUS
<1>2. IsFiniteSet(1..n) /\ Cardinality(1..n) = IF 1 > n THEN 0 ELSE n - 1 + 1
  BY <1>1, FS_Interval
<1> QED BY <1>2

(***************************************************************************)
(* A set and its image under a function that keeps its elements apart have  *)
(* the same size.                                                           *)
(***************************************************************************)
LEMMA SameSize ==
  ASSUME NEW T, NEW U, IsFiniteSet(U), NEW f \in [T -> U],
         \A x, y \in T : f[x] = f[y] => x = y,
         \A u \in U : \E x \in T : f[x] = u
  PROVE  IsFiniteSet(T) /\ Cardinality(T) = Cardinality(U)
<1>1. f \in Injection(T, U)
  BY DEF Injection, IsInjective
<1>2. f \in Surjection(T, U)
  BY DEF Surjection
<1> QED BY <1>1, <1>2, FS_Injection

-------------------------------------------------------------------------------
\* Sequences.

(***************************************************************************)
(* A stretch of a sequence, element by element.                             *)
(***************************************************************************)
LEMMA SubSeqFacts ==
  ASSUME NEW S, NEW s \in Seq(S), NEW a \in Nat, NEW b \in a..Len(s)
  PROVE  /\ SubSeq(s, a + 1, b) \in Seq(S)
         /\ Len(SubSeq(s, a + 1, b)) = b - a
         /\ \A i \in 1..(b - a) : SubSeq(s, a + 1, b)[i] = s[a + i]
<1>1. \A i \in (a + 1)..b : s[i] \in S
  BY ElementOfSeq
<1>2. a + 1 \in Int /\ b \in Int /\ b - (a + 1) + 1 = b - a
  OBVIOUS
<1>3. /\ SubSeq(s, a + 1, b) \in Seq(S)
      /\ Len(SubSeq(s, a + 1, b)) = IF a + 1 <= b THEN b - (a + 1) + 1 ELSE 0
      /\ \A i \in 1..(b - (a + 1) + 1) : SubSeq(s, a + 1, b)[i] = s[a + 1 + i - 1]
  BY <1>1, <1>2, SubSeqProperties
<1> QED BY <1>2, <1>3

(***************************************************************************)
(* Taking a elements from the front and then b more is taking a + b; what   *)
(* is left is the same too.                                                 *)
(***************************************************************************)
LEMMA TakeTwice ==
  ASSUME NEW S, NEW s \in Seq(S), NEW a \in 0..Len(s), NEW b \in 0..(Len(s) - a)
  PROVE  LET rest == SubSeq(s, a + 1, Len(s))
         IN  /\ rest \in Seq(S) /\ Len(rest) = Len(s) - a
             /\ SubSeq(s, 1, a) \o SubSeq(rest, 1, b) = SubSeq(s, 1, a + b)
             /\ SubSeq(rest, b + 1, Len(rest)) = SubSeq(s, a + b + 1, Len(s))
<1> DEFINE rest == SubSeq(s, a + 1, Len(s))
<1>0. Len(s) \in Nat /\ a \in Nat /\ b \in Nat /\ a + b \in Nat /\ a + b <= Len(s)
  OBVIOUS
<1>1. /\ rest \in Seq(S) /\ Len(rest) = Len(s) - a
      /\ \A i \in 1..(Len(s) - a) : rest[i] = s[a + i]
  BY <1>0, SubSeqFacts
<1> HIDE DEF rest
<1>2. /\ SubSeq(s, 1, a) \in Seq(S) /\ Len(SubSeq(s, 1, a)) = a
      /\ \A i \in 1..a : SubSeq(s, 1, a)[i] = s[i]
  <2>1. a \in 0..Len(s) /\ 0 + 1 = 1 /\ a - 0 = a BY <1>0
  <2> QED BY <2>1, SubSeqFacts, 0 \in Nat
<1>3. /\ SubSeq(s, 1, a + b) \in Seq(S) /\ Len(SubSeq(s, 1, a + b)) = a + b
      /\ \A i \in 1..(a + b) : SubSeq(s, 1, a + b)[i] = s[i]
  <2>1. a + b \in 0..Len(s) /\ 0 + 1 = 1 /\ (a + b) - 0 = a + b BY <1>0
  <2> QED BY <2>1, SubSeqFacts, 0 \in Nat
<1>4. /\ SubSeq(rest, 1, b) \in Seq(S) /\ Len(SubSeq(rest, 1, b)) = b
      /\ \A i \in 1..b : SubSeq(rest, 1, b)[i] = s[a + i]
  <2>1. b \in 0..Len(rest) /\ 0 + 1 = 1 /\ b - 0 = b BY <1>0, <1>1
  <2>2. /\ SubSeq(rest, 1, b) \in Seq(S) /\ Len(SubSeq(rest, 1, b)) = b
        /\ \A i \in 1..b : SubSeq(rest, 1, b)[i] = rest[i]
    BY <2>1, <1>1, SubSeqFacts, 0 \in Nat
  <2> QED BY <2>2, <1>0, <1>1
<1>5. SubSeq(s, 1, a) \o SubSeq(rest, 1, b) = SubSeq(s, 1, a + b)
  <2> DEFINE u == SubSeq(s, 1, a)
             v == SubSeq(rest, 1, b)
  <2>1. /\ u \o v \in Seq(S) /\ Len(u \o v) = a + b
        /\ \A i \in 1..(a + b) : (u \o v)[i] = IF i <= a THEN u[i] ELSE v[i - a]
    BY <1>2, <1>4, ConcatProperties
  <2>2. \A i \in 1..(a + b) : (u \o v)[i] = s[i]
    <3> TAKE i \in 1..(a + b)
    <3>1. CASE i <= a BY <3>1, <2>1, <1>2
    <3>2. CASE i > a
      <4>1. i - a \in 1..b /\ a + (i - a) = i BY <3>2, <1>0
      <4> QED BY <4>1, <3>2, <2>1, <1>4, <1>0
    <3> QED BY <3>1, <3>2, <1>0
  <2> HIDE DEF u, v
  <2>3. u \o v = SubSeq(s, 1, a + b)
    BY <2>1, <2>2, <1>3, SeqEqual
  <2> QED BY <2>3 DEF u, v
<1>6. SubSeq(rest, b + 1, Len(rest)) = SubSeq(s, a + b + 1, Len(s))
  <2> DEFINE u == SubSeq(rest, b + 1, Len(rest))
             v == SubSeq(s, a + b + 1, Len(s))
             m == Len(s) - a - b
  <2>1. /\ u \in Seq(S) /\ Len(u) = m
        /\ \A i \in 1..m : u[i] = rest[b + i]
    <3>1. Len(rest) \in b..Len(rest) /\ Len(rest) - b = m BY <1>0, <1>1
    <3> QED BY <3>1, <1>0, <1>1, SubSeqFacts
  <2>2. /\ v \in Seq(S) /\ Len(v) = m
        /\ \A i \in 1..m : v[i] = s[(a + b) + i]
    <3>1. PICK c \in Nat : c = a + b BY <1>0
    <3>2. Len(s) \in c..Len(s) /\ Len(s) - c = m BY <1>0, <3>1
    <3>3. /\ SubSeq(s, c + 1, Len(s)) \in Seq(S)
          /\ Len(SubSeq(s, c + 1, Len(s))) = Len(s) - c
          /\ \A i \in 1..(Len(s) - c) : SubSeq(s, c + 1, Len(s))[i] = s[c + i]
      BY <3>2, SubSeqFacts
    <3> QED BY <3>1, <3>2, <3>3
  <2>3. \A i \in 1..m : u[i] = v[i]
    <3> TAKE i \in 1..m
    <3>1. b + i \in 1..(Len(s) - a) /\ a + (b + i) = (a + b) + i BY <1>0
    <3> QED BY <3>1, <2>1, <2>2, <1>1
  <2> HIDE DEF u, v
  <2>4. u = v BY <2>1, <2>2, <2>3, SeqEqual
  <2> QED BY <2>4 DEF u, v
<1> QED BY <1>1, <1>5, <1>6 DEF rest

\* s has t behind its first a elements.
Found(s, a, t) == /\ a + Len(t) <= Len(s)
                  /\ \A i \in 1..Len(t) : t[i] = s[a + i]

(***************************************************************************)
(* What follows in s is found as one.                                       *)
(***************************************************************************)
LEMMA FoundConcat ==
  ASSUME NEW S, NEW s \in Seq(S), NEW t \in Seq(S), NEW u \in Seq(S), NEW a \in Nat,
         Found(s, a, t), Found(s, a + Len(t), u)
  PROVE  Found(s, a, t \o u)
<1>1. Len(s) \in Nat /\ Len(t) \in Nat /\ Len(u) \in Nat
  OBVIOUS
<1>2. /\ Len(t \o u) = Len(t) + Len(u)
      /\ \A i \in 1..(Len(t) + Len(u)) : (t \o u)[i] = IF i <= Len(t) THEN t[i] ELSE u[i - Len(t)]
  BY ConcatProperties
<1>3. a + (Len(t) + Len(u)) <= Len(s)
  BY <1>1 DEF Found
<1>4. ASSUME NEW i \in 1..(Len(t) + Len(u)) PROVE (t \o u)[i] = s[a + i]
  <2>1. CASE i <= Len(t)
    <3>1. i \in 1..Len(t)
      BY <1>1, <2>1
    <3> QED BY <1>2, <2>1, <3>1 DEF Found
  <2>2. CASE ~(i <= Len(t))
    <3>1. i - Len(t) \in 1..Len(u) /\ (a + Len(t)) + (i - Len(t)) = a + i
      BY <1>1, <2>2
    <3>2. u[i - Len(t)] = s[(a + Len(t)) + (i - Len(t))]
      BY <3>1 DEF Found
    <3> QED BY <1>2, <2>2, <3>1, <3>2
  <2> QED BY <2>1, <2>2
<1> QED BY <1>2, <1>3, <1>4 DEF Found

(***************************************************************************)
(* A sequence that is found somewhere is found in two parts.                *)
(***************************************************************************)
LEMMA FoundParts ==
  ASSUME NEW S, NEW s \in Seq(S), NEW t \in Seq(S), NEW a \in Nat, Found(s, a, t),
         NEW k \in 0..Len(t)
  PROVE  /\ SubSeq(t, 1, k) \in Seq(S) /\ Len(SubSeq(t, 1, k)) = k
         /\ Found(s, a, SubSeq(t, 1, k))
         /\ SubSeq(t, k + 1, Len(t)) \in Seq(S) /\ Len(SubSeq(t, k + 1, Len(t))) = Len(t) - k
         /\ Found(s, a + k, SubSeq(t, k + 1, Len(t)))
<1> DEFINE u == SubSeq(t, 1, k)
           v == SubSeq(t, k + 1, Len(t))
<1>1. Len(s) \in Nat /\ Len(t) \in Nat /\ k \in Nat /\ k <= Len(t)
  OBVIOUS
<1>2. u \in Seq(S) /\ Len(u) = k /\ \A i \in 1..k : u[i] = t[i]
  <2>1. k \in 0..Len(t) /\ 0 + 1 = 1 /\ k - 0 = k
    BY <1>1
  <2> QED BY <2>1, SubSeqFacts, 0 \in Nat
<1>3. v \in Seq(S) /\ Len(v) = Len(t) - k /\ \A i \in 1..(Len(t) - k) : v[i] = t[k + i]
  <2>1. Len(t) \in k..Len(t)
    BY <1>1
  <2> QED BY <2>1, <1>1, SubSeqFacts
<1> HIDE DEF u, v
<1>4. a + Len(t) <= Len(s) /\ \A i \in 1..Len(t) : t[i] = s[a + i]
  BY DEF Found
<1>5. Found(s, a, u)
  <2>1. \A i \in 1..k : i \in 1..Len(t)
    BY <1>1
  <2> QED BY <1>1, <1>2, <1>4, <2>1 DEF Found
<1>6. Found(s, a + k, v)
  <2>1. (a + k) + Len(v) <= Len(s)
    BY <1>1, <1>3, <1>4
  <2>2. ASSUME NEW i \in 1..Len(v) PROVE v[i] = s[(a + k) + i]
    <3>1. k + i \in 1..Len(t) /\ a + (k + i) = (a + k) + i /\ i \in 1..(Len(t) - k)
      BY <1>1, <1>3
    <3> QED BY <1>3, <1>4, <3>1
  <2> QED BY <2>1, <2>2 DEF Found
<1> QED BY <1>2, <1>3, <1>5, <1>6 DEF u, v

(***************************************************************************)
(* What is added behind a sequence moves nothing in it.                     *)
(***************************************************************************)
LEMMA FoundBefore ==
  ASSUME NEW S, NEW s \in Seq(S), NEW t \in Seq(S), NEW u \in Seq(S), NEW a \in Nat,
         Found(s, a, t)
  PROVE  Found(s \o u, a, t)
<1>1. Len(s) \in Nat /\ Len(t) \in Nat /\ Len(u) \in Nat
  OBVIOUS
<1>2. /\ Len(s \o u) = Len(s) + Len(u)
      /\ \A i \in 1..(Len(s) + Len(u)) : (s \o u)[i] = IF i <= Len(s) THEN s[i] ELSE u[i - Len(s)]
  BY ConcatProperties
<1>3. a + Len(t) <= Len(s) /\ \A i \in 1..Len(t) : t[i] = s[a + i]
  BY DEF Found
<1>4. ASSUME NEW i \in 1..Len(t) PROVE t[i] = (s \o u)[a + i]
  <2>1. a + i \in 1..(Len(s) + Len(u)) /\ a + i <= Len(s)
    BY <1>1, <1>3
  <2> QED BY <1>2, <1>3, <2>1
<1>5. a + Len(t) <= Len(s) + Len(u)
  BY <1>1, <1>3
<1> QED BY <1>2, <1>4, <1>5 DEF Found

(***************************************************************************)
(* What is added behind a sequence is found there.                          *)
(***************************************************************************)
LEMMA FoundBehind ==
  ASSUME NEW S, NEW s \in Seq(S), NEW t \in Seq(S)
  PROVE  Found(s \o t, Len(s), t)
<1>1. Len(s) \in Nat /\ Len(t) \in Nat
  OBVIOUS
<1>2. /\ Len(s \o t) = Len(s) + Len(t)
      /\ \A i \in 1..(Len(s) + Len(t)) : (s \o t)[i] = IF i <= Len(s) THEN s[i] ELSE t[i - Len(s)]
  BY ConcatProperties
<1>3. ASSUME NEW i \in 1..Len(t) PROVE t[i] = (s \o t)[Len(s) + i]
  <2>1. Len(s) + i \in 1..(Len(s) + Len(t)) /\ ~(Len(s) + i <= Len(s)) /\ (Len(s) + i) - Len(s) = i
    BY <1>1
  <2> QED BY <1>2, <2>1
<1> QED BY <1>1, <1>2, <1>3 DEF Found

(***************************************************************************)
(* What is found in a part is found in the whole.                           *)
(***************************************************************************)
LEMMA FoundWithin ==
  ASSUME NEW S, NEW s \in Seq(S), NEW t \in Seq(S), NEW u \in Seq(S), NEW a \in Nat, NEW b \in Nat,
         Found(s, a, t), Found(t, b, u)
  PROVE  Found(s, a + b, u)
<1>1. Len(s) \in Nat /\ Len(t) \in Nat /\ Len(u) \in Nat
  OBVIOUS
<1>2. /\ a + Len(t) <= Len(s) /\ \A i \in 1..Len(t) : t[i] = s[a + i]
      /\ b + Len(u) <= Len(t) /\ \A i \in 1..Len(u) : u[i] = t[b + i]
  BY DEF Found
<1>3. ASSUME NEW i \in 1..Len(u) PROVE u[i] = s[(a + b) + i]
  <2>1. b + i \in 1..Len(t) /\ a + (b + i) = (a + b) + i
    BY <1>1, <1>2
  <2> QED BY <1>2, <2>1
<1>4. (a + b) + Len(u) <= Len(s)
  BY <1>1, <1>2
<1> QED BY <1>3, <1>4 DEF Found

(***************************************************************************)
(* What is found in a sequence is found in its front, if that reaches so    *)
(* far.                                                                     *)
(***************************************************************************)
LEMMA FoundInFront ==
  ASSUME NEW S, NEW s \in Seq(S), NEW t \in Seq(S), NEW u \in Seq(S), NEW a \in Nat,
         Found(s, 0, t), Found(s, a, u), a + Len(u) <= Len(t)
  PROVE  Found(t, a, u)
<1>1. Len(s) \in Nat /\ Len(t) \in Nat /\ Len(u) \in Nat
  OBVIOUS
<1>2. ASSUME NEW i \in 1..Len(u) PROVE u[i] = t[a + i]
  <2>1. a + i \in 1..Len(t) /\ 0 + (a + i) = a + i
    BY <1>1
  <2>2. t[a + i] = s[0 + (a + i)] /\ u[i] = s[a + i]
    BY <2>1 DEF Found
  <2> QED BY <2>1, <2>2
<1> QED BY <1>2 DEF Found

(***************************************************************************)
(* Two sequences of one length that are found at one place are equal.       *)
(***************************************************************************)
LEMMA FoundSame ==
  ASSUME NEW S, NEW s \in Seq(S), NEW t \in Seq(S), NEW u \in Seq(S), NEW a \in Nat,
         Found(s, a, t), Found(s, a, u), Len(t) = Len(u)
  PROVE  t = u
<1>1. \A i \in 1..Len(t) : t[i] = u[i]
  BY DEF Found
<1> QED BY <1>1, SeqEqual

(***************************************************************************)
(* When c is built by adding the pieces p one after the other, each piece   *)
(* is found behind those before it, and each c in all later ones.           *)
(***************************************************************************)
LEMMA Pieces ==
  ASSUME NEW S, NEW n \in Nat, NEW c, NEW p, c[0] \in Seq(S),
         \A i \in 1..n : p[i] \in Seq(S) /\ c[i] = c[i - 1] \o p[i]
  PROVE  /\ \A i \in 0..n : c[i] \in Seq(S)
         /\ \A i \in 1..n : Len(c[i]) = Len(c[i - 1]) + Len(p[i])
         /\ \A i \in 0..n : \A k \in i..n : Found(c[k], 0, c[i])
         /\ \A i \in 1..n : \A k \in i..n : Found(c[k], Len(c[i - 1]), p[i])
<1>1. \A i \in 1..n : c[i - 1] \in Seq(S) => c[i] \in Seq(S)
  BY ConcatProperties
<1>2. \A i \in 0..n : c[i] \in Seq(S)
  BY <1>1, StaysIn
<1>3. \A i \in 1..n : i - 1 \in 0..n
  OBVIOUS
<1>4. \A i \in 1..n : Len(c[i]) = Len(c[i - 1]) + Len(p[i])
  BY <1>2, <1>3, ConcatProperties
\* What c[l] has, every later one has.
<1>5. ASSUME NEW l \in 0..n, NEW a \in Nat, NEW t \in Seq(S), Found(c[l], a, t)
      PROVE  \A k \in l..n : Found(c[k], a, t)
  <2> DEFINE T == {j \in 0..(n - l) : Found(c[l + j], a, t)}
  <2>1. n - l \in Nat /\ l \in Nat /\ l + 0 = l
    OBVIOUS
  <2>2. 0 \in T
    BY <1>5, <2>1
  <2>3. ASSUME NEW j \in 0..((n - l) - 1), j \in T PROVE j + 1 \in T
    <3>1. /\ j \in Nat /\ j + 1 \in 0..(n - l) /\ l + j \in 0..n
          /\ l + (j + 1) \in 1..n /\ (l + (j + 1)) - 1 = l + j
      BY <2>1
    <3>2. Found(c[l + j], a, t)
      BY <2>3
    <3>3. c[l + j] \in Seq(S) /\ p[l + (j + 1)] \in Seq(S)
      BY <3>1, <1>2
    <3>4. c[l + (j + 1)] = c[l + j] \o p[l + (j + 1)]
      BY <3>1
    <3>5. Found(c[l + (j + 1)], a, t)
      BY <3>2, <3>3, <3>4, FoundBefore
    <3> QED BY <3>1, <3>5
  <2> HIDE DEF T
  <2>4. \A j \in 0..(n - l) : j \in T
    BY <2>1, <2>2, <2>3, UpTo
  <2> TAKE k \in l..n
  <2>5. k - l \in 0..(n - l) /\ l + (k - l) = k
    BY <2>1
  <2> QED BY <2>4, <2>5 DEF T
<1>6. ASSUME NEW i \in 0..n PROVE \A k \in i..n : Found(c[k], 0, c[i])
  <2>1. c[i] \in Seq(S) /\ Len(c[i]) \in Nat
    BY <1>2
  <2>2. Found(c[i], 0, c[i])
    BY <2>1 DEF Found
  <2> QED BY <1>5, <2>1, <2>2, 0 \in Nat
<1>7. ASSUME NEW i \in 1..n PROVE \A k \in i..n : Found(c[k], Len(c[i - 1]), p[i])
  <2>1. i \in 0..n /\ c[i - 1] \in Seq(S) /\ p[i] \in Seq(S) /\ Len(c[i - 1]) \in Nat
    <3>1. i \in 0..n /\ i - 1 \in 0..n
      OBVIOUS
    <3>2. c[i - 1] \in Seq(S)
      BY <1>2, <3>1
    <3>3. Len(c[i - 1]) \in Nat
      BY <3>2
    <3>4. p[i] \in Seq(S)
      OBVIOUS
    <3> QED BY <3>1, <3>2, <3>3, <3>4
  <2>2. Found(c[i], Len(c[i - 1]), p[i])
    BY <2>1, FoundBehind
  <2> QED BY <1>5, <2>1, <2>2
<1> QED BY <1>2, <1>4, <1>6, <1>7
===============================================================================
