------------------------------- MODULE ByteFifo -------------------------------
(***************************************************************************)
(* What cppio::RingBuffer promises its user: a bounded first-in first-out   *)
(* queue of bytes.  A write takes the longest prefix of the caller's        *)
(* buffer that fits and says how long it is; a read hands over the oldest   *)
(* bytes, as many as were asked for and are there.                          *)
(***************************************************************************)
EXTENDS Naturals, Sequences

CONSTANTS Byte,       \* the values of a char
          Capacity,   \* the number of bytes the queue can hold
          MaxLen      \* the longest buffer a caller passes

VARIABLES queue,      \* the bytes written and not yet read, oldest first
          result      \* what the last call returned: a count and, for a read, bytes

vars == <<queue, result>>

Least(a, b) == IF a <= b THEN a ELSE b

Buffers == UNION {[1..n -> Byte] : n \in 0..MaxLen}

Init == queue = <<>> /\ result = [count |-> 0, bytes |-> <<>>]

Put(buf) ==
  LET n == Least(Len(buf), Capacity - Len(queue))
  IN  /\ queue' = queue \o SubSeq(buf, 1, n)
      /\ result' = [count |-> n, bytes |-> <<>>]

Get(buflen) ==
  LET n == Least(buflen, Len(queue))
  IN  /\ queue' = SubSeq(queue, n + 1, Len(queue))
      /\ result' = [count |-> n, bytes |-> SubSeq(queue, 1, n)]

Next == (\E buf \in Buffers : Put(buf)) \/ (\E buflen \in 0..MaxLen : Get(buflen))

Spec == Init /\ [][Next]_vars
===============================================================================
