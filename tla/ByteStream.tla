------------------------------ MODULE ByteStream ------------------------------
(***************************************************************************)
(* What cppio::DataQueue promises the two InprocLines that share it: one    *)
(* direction of a connection, a bounded byte stream with blocking calls.    *)
(*                                                                          *)
(* A call is announced (Call), takes effect in one step and returns a code  *)
(* and the bytes moved.  A read returns data while there are any; it may    *)
(* report a timeout only when the stream is empty, and a lost connection    *)
(* only when the stream is empty and the connection is down: a hang-up      *)
(* never costs a byte that was accepted.  A write takes as much as fits; it *)
(* may report a lost connection only when nothing fits.                     *)
(***************************************************************************)
EXTENDS Naturals, Sequences

CONSTANTS Byte, Capacity, Readers, Writers, MaxLen

VARIABLES stream,      \* bytes accepted and not yet delivered, oldest first
          connection,  \* "new", then "up", then "down" for good
          buflen,      \* what a pending read asks for
          buffer,      \* what a pending write offers
          result       \* per thread: "pending", or the code and bytes of its last call

vars == <<stream, connection, buflen, buffer, result>>

Shorter(a, b) == IF a <= b THEN a ELSE b

Buffers == UNION {[1..n -> Byte] : n \in 0..MaxLen}

Pending == [code |-> "pending", bytes |-> <<>>]

Return(t, code, bytes) ==
  /\ result[t] = Pending
  /\ result' = [result EXCEPT ![t] = [code |-> code, bytes |-> bytes]]
  /\ IF t \in Readers
       THEN buflen' = [buflen EXCEPT ![t] = 0] /\ UNCHANGED buffer
       ELSE buffer' = [buffer EXCEPT ![t] = <<>>] /\ UNCHANGED buflen

Init ==
  /\ stream = <<>>
  /\ connection = "new"
  /\ buflen = [t \in Readers |-> 0]
  /\ buffer = [t \in Writers |-> <<>>]
  /\ result = [t \in Readers \cup Writers |-> [code |-> "none", bytes |-> <<>>]]

CallRead(t, n) ==
  /\ result[t] # Pending
  /\ result' = [result EXCEPT ![t] = Pending]
  /\ buflen' = [buflen EXCEPT ![t] = n]
  /\ UNCHANGED <<stream, connection, buffer>>

CallWrite(t, buf) ==
  /\ result[t] # Pending
  /\ result' = [result EXCEPT ![t] = Pending]
  /\ buffer' = [buffer EXCEPT ![t] = buf]
  /\ UNCHANGED <<stream, connection, buflen>>

Deliver(t) ==
  LET n == Shorter(buflen[t], Len(stream))
  IN  /\ stream # <<>>
      /\ stream' = SubSeq(stream, n + 1, Len(stream))
      /\ Return(t, "ok", SubSeq(stream, 1, n))
      /\ UNCHANGED connection

Accept(t) ==
  LET n == Shorter(Len(buffer[t]), Capacity - Len(stream))
  IN  /\ Len(stream) < Capacity
      /\ Len(buffer[t]) <= Capacity
      /\ stream' = stream \o SubSeq(buffer[t], 1, n)
      /\ Return(t, "ok", SubSeq(buffer[t], 1, n))
      /\ UNCHANGED connection

Refuse(t) ==
  /\ Len(buffer[t]) > Capacity
  /\ Return(t, "eTooBigBuffer", <<>>)
  /\ UNCHANGED <<stream, connection>>

Expire(t) ==
  /\ stream = <<>>
  /\ Return(t, "eTimeout", <<>>)
  /\ UNCHANGED <<stream, connection>>

ReadLost(t) ==
  /\ stream = <<>> /\ connection = "down"
  /\ Return(t, "eConnectionLost", <<>>)
  /\ UNCHANGED <<stream, connection>>

WriteLost(t) ==
  /\ Len(stream) = Capacity /\ connection = "down"
  /\ Return(t, "eConnectionLost", <<>>)
  /\ UNCHANGED <<stream, connection>>

Connect ==
  /\ connection = "new" /\ connection' = "up"
  /\ UNCHANGED <<stream, buflen, buffer, result>>

HangUp ==
  /\ connection = "up" /\ connection' = "down"
  /\ UNCHANGED <<stream, buflen, buffer, result>>

Next ==
  \/ \E t \in Readers :
        \/ \E n \in 0..MaxLen : CallRead(t, n)
        \/ Deliver(t) \/ Expire(t) \/ ReadLost(t)
  \/ \E t \in Writers :
        \/ \E buf \in Buffers : CallWrite(t, buf)
        \/ Accept(t) \/ Refuse(t) \/ WriteLost(t)
  \/ Connect \/ HangUp

Spec == Init /\ [][Next]_vars
===============================================================================
