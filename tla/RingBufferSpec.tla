---------------------------- MODULE RingBufferSpec ----------------------------
(***************************************************************************)
(* The behaviours of one RingBuffer under any sequence of read and write    *)
(* calls, and what they implement: a bounded FIFO queue of Size - 1 bytes.  *)
(* The blocking build makes every call under DataQueue::m_mutex, so a call  *)
(* is one step.                                                             *)
(***************************************************************************)
EXTENDS RingBuffer

VARIABLES ring,       \* the RingBuffer object
          returned    \* what the last call returned and, for a read, the bytes it copied

ringVars == <<ring, returned>>

RingTypeOK == /\ ring \in RingType
              /\ returned.count \in 0..(Size - 1)

RingInit == ring = EmptyRing /\ returned = [count |-> 0, bytes |-> <<>>]

Write(buf) ==
  LET res == RingWrite(ring, buf)
  IN  /\ ring' = res.ring
      /\ returned' = [count |-> res.count, bytes |-> <<>>]

Read(buflen) ==
  LET res == RingRead(ring, buflen)
  IN  /\ ring' = res.ring
      /\ returned' = [count |-> Len(res.bytes), bytes |-> res.bytes]

RingNext == (\E buf \in Buffers : Write(buf)) \/ (\E buflen \in 0..MaxLen : Read(buflen))

RingSpec == RingInit /\ [][RingNext]_ringVars

(***************************************************************************)
(* The recursion of read and write is at most two activations deep, from    *)
(* every reachable pointer position and for every buffer length: the second *)
(* activation never calls a third (inproc.cpp:52 and :79).                  *)
(***************************************************************************)
TwoActivations ==
  /\ \A n \in 0..MaxLen :
        LET p == ReadPass(ring, n)
        IN  p.again => ~ReadPass(p.ring, n - Len(p.bytes)).again
  /\ \A buf \in Buffers :
        LET p == WritePass(ring, buf)
        IN  p.again => ~WritePass(p.ring, SubSeq(buf, p.count + 1, Len(buf))).again

(***************************************************************************)
(* availableReadSize and availableWriteSize are exact: a call moves just    *)
(* that many bytes, or all of its buffer when it is shorter.  DataQueue     *)
(* relies on it: it waits on a size of 0 and takes any other size as        *)
(* progress (inproc.cpp:93-119, used at :136, :152 and :175).               *)
(***************************************************************************)
SizesAreExact ==
  /\ \A n \in 0..MaxLen : Len(RingRead(ring, n).bytes) = Least(n, AvailableReadSize(ring))
  /\ \A buf \in Buffers :
        RingWrite(ring, buf).count = Least(Len(buf), AvailableWriteSize(ring))

Fifo == INSTANCE ByteFifo WITH queue <- Contents(ring), Capacity <- Size - 1,
                             result <- returned

(***************************************************************************)
(* The ring buffer implements the bounded FIFO queue: across every          *)
(* wrap-around of m_wrptr and m_rdptr no byte is lost, repeated, reordered  *)
(* or overwritten, and the returned counts are exact.                       *)
(***************************************************************************)
ImplementsFifo == Fifo!Spec
===============================================================================
