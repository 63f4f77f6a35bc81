------------------------------ MODULE RingBuffer ------------------------------
(***************************************************************************)
(* cppio::RingBuffer of the blocking build (CPPIO_BLOCKING_INPROC, the one  *)
(* CMakeLists.txt selects): src/src/common/inproc.cpp:14-119.               *)
(*                                                                          *)
(* A buffer is a record of the members m_data, m_wrptr and m_rdptr; the     *)
(* methods are operators on it, so that DataQueue can use them under its    *)
(* mutex.  read and write call themselves for the part behind the end of    *)
(* the array: ReadPass and WritePass are one activation of each, and        *)
(* `again' says that the activation ends in the recursive call.             *)
(***************************************************************************)
EXTENDS Naturals, Sequences

CONSTANTS Size,     \* bufferSize, the length of m_data (65536 in InprocLine)
          Byte,     \* the values of a char
          Zero,     \* the char '\0' that std::vector<char>(n) fills m_data with
          MaxLen    \* the longest buffer a caller passes

ASSUME RingAssumption == Size \in Nat \ {0} /\ Zero \in Byte /\ MaxLen \in Nat

Buffers == UNION {[1..n -> Byte] : n \in 0..MaxLen}

Slots == 0..(Size - 1)

Least(a, b) == IF a <= b THEN a ELSE b

RingType == [m_data : [Slots -> Byte], m_wrptr : Slots, m_rdptr : Slots]

EmptyRing == [m_data |-> [i \in Slots |-> Zero], m_wrptr |-> 0, m_rdptr |-> 0]

AvailableReadSize(r) ==
  IF r.m_rdptr <= r.m_wrptr THEN r.m_wrptr - r.m_rdptr
                            ELSE Size - r.m_rdptr + r.m_wrptr

\* Mutant: forgets the slot that stays free.
AvailableWriteSizeUnreserved(r) ==
  IF r.m_rdptr <= r.m_wrptr THEN Size - r.m_wrptr + r.m_rdptr
                            ELSE r.m_rdptr - r.m_wrptr

AvailableWriteSize(r) ==
  IF r.m_rdptr <= r.m_wrptr THEN Size - r.m_wrptr + r.m_rdptr - 1
                            ELSE r.m_rdptr - r.m_wrptr - 1

\* Mutant: no wrap-around.
AdvanceNoWrap(p, k) == p + k

\* A pointer moved on by k, back to 0 at the end of the array.
Advance(p, k) == IF p + k = Size THEN 0 ELSE p + k

(***************************************************************************)
(* read(buffer, n): the stretch up to m_wrptr, or up to the end of the      *)
(* array when the data wrap around, and then the rest from slot 0.          *)
(***************************************************************************)
CopyOut(r, n) ==
  Least(n, IF r.m_rdptr <= r.m_wrptr THEN r.m_wrptr - r.m_rdptr ELSE Size - r.m_rdptr)

\* Mutant: recurses whenever the buffer is not full yet, data or no data.
ReadPassGreedy(r, n) ==
  LET k == CopyOut(r, n)
  IN  [ring  |-> [r EXCEPT !.m_rdptr = Advance(r.m_rdptr, k)],
       bytes |-> [i \in 1..k |-> r.m_data[r.m_rdptr + i - 1]],
       again |-> k < n]

ReadPass(r, n) ==
  LET k  == CopyOut(r, n)
      rd == Advance(r.m_rdptr, k)
  IN  [ring  |-> [r EXCEPT !.m_rdptr = rd],
       bytes |-> [i \in 1..k |-> r.m_data[r.m_rdptr + i - 1]],
       again |-> r.m_rdptr > r.m_wrptr /\ k < n /\ k # 0 /\ rd # r.m_wrptr]

RingRead(r, n) ==
  LET p == ReadPass(r, n)
      q == ReadPass(p.ring, n - Len(p.bytes))
  IN  IF p.again THEN [ring |-> q.ring, bytes |-> p.bytes \o q.bytes]
                 ELSE [ring |-> p.ring, bytes |-> p.bytes]

(***************************************************************************)
(* write(buf): up to the end of the array, leaving its last slot free when  *)
(* m_rdptr is 0, and then from slot 0 up to the slot before m_rdptr.  One   *)
(* slot always stays free: m_wrptr = m_rdptr means empty.                   *)
(***************************************************************************)
\* Mutant: fills the last slot of the array although m_rdptr is 0.
CopyInNoReserve(r, n) ==
  Least(n, IF r.m_rdptr <= r.m_wrptr THEN Size - r.m_wrptr ELSE r.m_rdptr - 1 - r.m_wrptr)

CopyIn(r, n) ==
  IF r.m_rdptr <= r.m_wrptr
    THEN LET room == Size - r.m_wrptr
             k    == Least(room, n)
         IN  IF r.m_rdptr = 0 /\ k = room THEN k - 1 ELSE k
    ELSE Least(r.m_rdptr - 1 - r.m_wrptr, n)

WritePass(r, buf) ==
  LET k  == CopyIn(r, Len(buf))
      wr == r.m_wrptr
  IN  [ring  |-> [r EXCEPT !.m_data  = [i \in Slots |-> IF i \in wr..(wr + k - 1)
                                                         THEN buf[i - wr + 1] ELSE @[i]],
                           !.m_wrptr = Advance(wr, k)],
       count |-> k,
       again |-> r.m_rdptr <= wr /\ k < Len(buf) /\ r.m_rdptr # 0 /\ k # 0]

RingWrite(r, buf) ==
  LET p == WritePass(r, buf)
      q == WritePass(p.ring, SubSeq(buf, p.count + 1, Len(buf)))
  IN  IF p.again THEN [ring |-> q.ring, count |-> p.count + q.count]
                 ELSE [ring |-> p.ring, count |-> p.count]

(***************************************************************************)
(* The bytes a buffer holds, oldest first: the abstraction function.        *)
(***************************************************************************)
Contents(r) ==
  [i \in 1..AvailableReadSize(r) |->
     r.m_data[IF r.m_rdptr + i - 1 < Size THEN r.m_rdptr + i - 1
                                          ELSE r.m_rdptr + i - 1 - Size]]
===============================================================================
