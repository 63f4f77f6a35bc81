------------------------------- MODULE DataQueue -------------------------------
(***************************************************************************)
(* cppio::DataQueue of the blocking build, src/src/common/inproc.cpp:121-212*)
(* with the calls InprocLine makes on it: one direction of an inproc        *)
(* connection, shared by the reading line (its m_in) and the writing line   *)
(* (its m_out).                                                             *)
(*                                                                          *)
(* m_mutex guards the ring buffer.  m_connected is written WITHOUT the      *)
(* mutex by setConnectionFlag, so every read of it is a step of its own; in *)
(* between, a thread that holds the mutex runs alone with the ring, and its *)
(* work is part of the step before.  The conflicting accesses to the plain  *)
(* bool are a data race; the outcomes the build can produce are those of    *)
(* the old and of the new value, which the interleavings of these steps     *)
(* cover.                                                                   *)
(*                                                                          *)
(* A condition variable is the set of threads that wait on it and have not  *)
(* been notified.  A thread that has left the set (notified, or woken       *)
(* spuriously, which std::condition_variable permits) still has to take the *)
(* mutex again.                                                             *)
(***************************************************************************)
EXTENDS RingBuffer

CONSTANTS Readers,   \* threads that read from the line at the receiving end
          Writers    \* threads that write to the line at the sending end

ASSUME QueueAssumption == Readers \cap Writers = {}

Threads == Readers \cup Writers

VARIABLES m_buffer,          \* RingBuffer m_buffer
          m_connected,       \* bool m_connected
          m_mutex,           \* the thread that holds m_mutex, {} when it is free
          m_readCondition,   \* threads asleep on m_readCondition
          m_writeCondition,  \* threads asleep on m_writeCondition
          line,              \* the two InprocLines: "in" reads the queue, "out" writes it
          pc,                \* where each thread is
          buflen,            \* argument of a pending read
          buffer,            \* argument of a pending write
          result             \* outcome of each thread's last call

queueVars == <<m_buffer, m_connected, m_mutex, m_readCondition, m_writeCondition>>
callVars  == <<pc, buflen, buffer, result>>
vars      == <<queueVars, line, callVars>>

\* Holding m_mutex, before a look at m_connected or before going to sleep.
ReadLocked  == {"readCheck", "readWait", "readRecheck", "timedCheck", "timedWait", "timedFinal"}
WriteLocked == {"writeCheck", "writeWait"}
Locked      == ReadLocked \cup WriteLocked

ReaderPc == {"idle", "read", "timed", "readBlocked", "timedBlocked", "timedExpired"} \cup ReadLocked
WriterPc == {"idle", "write", "writeBlocked"} \cup WriteLocked

Code == {"none", "pending", "ok", "eTimeout", "eConnectionLost", "eTooBigBuffer"}

LineState == {"new", "open", "clearFlag", "notifyRead", "notifyWrite", "closed"}

Pending == [code |-> "pending", bytes |-> <<>>]

TypeOK ==
  /\ m_buffer \in RingType
  /\ m_connected \in BOOLEAN
  /\ m_mutex \subseteq Threads
  /\ m_readCondition \subseteq Readers
  /\ m_writeCondition \subseteq Writers
  /\ line \in [{"in", "out"} -> LineState]
  /\ pc \in [Threads -> ReaderPc \cup WriterPc]
  /\ \A t \in Readers : pc[t] \in ReaderPc
  /\ \A t \in Writers : pc[t] \in WriterPc
  /\ buflen \in [Readers -> 0..MaxLen]
  /\ buffer \in [Writers -> Buffers]
  /\ result \in [Threads -> [code : Code, bytes : Seq(Byte)]]

Init ==
  /\ m_buffer = EmptyRing
  /\ m_connected = FALSE
  /\ m_mutex = {}
  /\ m_readCondition = {}
  /\ m_writeCondition = {}
  /\ line = [e \in {"in", "out"} |-> "new"]
  /\ pc = [t \in Threads |-> "idle"]
  /\ buflen = [t \in Readers |-> 0]
  /\ buffer = [t \in Writers |-> <<>>]
  /\ result = [t \in Threads |-> [code |-> "none", bytes |-> <<>>]]

-------------------------------------------------------------------------------
\* Common parts of the calls.

Goto(t, label) == pc' = [pc EXCEPT ![t] = label] /\ UNCHANGED <<buflen, buffer, result>>

\* The call returns; its arguments go out of scope.
Return(t, code, bytes) ==
  /\ pc' = [pc EXCEPT ![t] = "idle"]
  /\ result' = [result EXCEPT ![t] = [code |-> code, bytes |-> bytes]]
  /\ buflen' = [u \in Readers |-> IF u = t THEN 0 ELSE buflen[u]]
  /\ buffer' = [u \in Writers |-> IF u = t THEN <<>> ELSE buffer[u]]

IsEmpty == AvailableReadSize(m_buffer) = 0
IsFull  == AvailableWriteSize(m_buffer) = 0

\* return m_buffer.read(buffer, buflen);
TakeData(t) ==
  LET res == RingRead(m_buffer, buflen[t])
  IN  /\ ~IsEmpty
      /\ m_buffer' = res.ring
      /\ Return(t, "ok", res.bytes)
      /\ UNCHANGED m_mutex

\* Mutant: write does not notify the readers.
PutDataSilent(t) ==
  LET res == RingWrite(m_buffer, buffer[t])
  IN  /\ ~IsFull
      /\ m_buffer' = res.ring
      /\ Return(t, "ok", SubSeq(buffer[t], 1, res.count))
      /\ UNCHANGED <<m_mutex, m_readCondition>>

\* m_buffer.write(buffer, buflen); m_readCondition.notify_all();
PutData(t) ==
  LET res == RingWrite(m_buffer, buffer[t])
  IN  /\ ~IsFull
      /\ m_buffer' = res.ring
      /\ m_readCondition' = {}
      /\ Return(t, "ok", SubSeq(buffer[t], 1, res.count))
      /\ UNCHANGED m_mutex

\* Go on under the mutex with the statement at label.
KeepLock(t, label) == m_mutex' = {t} /\ Goto(t, label) /\ UNCHANGED m_buffer

\* Mutant: an error return that leaves m_mutex locked.
FailLocked(t, code) ==
  /\ Return(t, code, <<>>)
  /\ UNCHANGED <<queueVars, line>>

\* Leave the mutex and return an error code.
Fail(t, code) ==
  /\ m_mutex' = {}
  /\ Return(t, code, <<>>)
  /\ UNCHANGED <<m_buffer, m_connected, m_readCondition, m_writeCondition, line>>

-------------------------------------------------------------------------------
\* read and readWithTimeout.  InprocLine::read picks readWithTimeout when the
\* caller has set a positive ReceiveTimeout, as it may before any call.

CallRead(t, n) ==
  /\ line["in"] = "open"
  /\ pc[t] = "idle"
  /\ \E method \in {"read", "timed"} : pc' = [pc EXCEPT ![t] = method]
  /\ buflen' = [buflen EXCEPT ![t] = n]
  /\ result' = [result EXCEPT ![t] = Pending]
  /\ UNCHANGED <<queueVars, line, buffer>>

\* Mutant: no notify_all on m_writeCondition.
ReadLockSilent(t) ==
  /\ pc[t] \in {"read", "timed"}
  /\ m_mutex = {}
  /\ \/ TakeData(t)
     \/ IsEmpty /\ KeepLock(t, IF pc[t] = "read" THEN "readCheck" ELSE "timedCheck")
  /\ UNCHANGED <<m_connected, m_readCondition, m_writeCondition, line>>

\* Mutant: looks at m_connected before it looks for data.
ReadLockConnectedFirst(t) ==
  /\ pc[t] \in {"read", "timed"}
  /\ m_mutex = {}
  /\ m_writeCondition' = {}
  /\ \/ m_connected /\ TakeData(t)
     \/ /\ IsEmpty \/ ~m_connected
        /\ KeepLock(t, IF pc[t] = "read" THEN "readCheck" ELSE "timedCheck")
  /\ UNCHANGED <<m_connected, m_readCondition, line>>

\* The mutex, notify_all on m_writeCondition (before any byte is taken), and
\* the test of availableReadSize().
ReadLock(t) ==
  /\ pc[t] \in {"read", "timed"}
  /\ m_mutex = {}
  /\ m_writeCondition' = {}
  /\ \/ TakeData(t)
     \/ IsEmpty /\ KeepLock(t, IF pc[t] = "read" THEN "readCheck" ELSE "timedCheck")
  /\ UNCHANGED <<m_connected, m_readCondition, line>>

\* Mutant: goes to sleep whether the line is connected or not.
ReadCheckSkipped(t) ==
  /\ pc[t] \in {"readCheck", "timedCheck"}
  /\ Goto(t, IF pc[t] = "readCheck" THEN "readWait" ELSE "timedWait")
  /\ UNCHANGED <<queueVars, line>>

\* if(!m_connected) return eConnectionLost;
ReadCheck(t) ==
  /\ pc[t] \in {"readCheck", "timedCheck"}
  /\ \/ ~m_connected /\ Fail(t, "eConnectionLost")
     \/ /\ m_connected
        /\ Goto(t, IF pc[t] = "readCheck" THEN "readWait" ELSE "timedWait")
        /\ UNCHANGED <<queueVars, line>>

\* m_readCondition.wait: give up the mutex and fall asleep, in one step.
ReadWait(t) ==
  /\ pc[t] \in {"readWait", "timedWait"}
  /\ m_mutex' = {}
  /\ m_readCondition' = m_readCondition \cup {t}
  /\ Goto(t, IF pc[t] = "readWait" THEN "readBlocked" ELSE "timedBlocked")
  /\ UNCHANGED <<m_buffer, m_connected, m_writeCondition, line>>

\* read is awake and has the mutex back.
ReadWake(t) ==
  /\ pc[t] = "readBlocked"
  /\ t \notin m_readCondition
  /\ m_mutex = {}
  /\ TakeData(t) \/ (IsEmpty /\ KeepLock(t, "readRecheck"))
  /\ UNCHANGED <<m_connected, m_readCondition, m_writeCondition, line>>

\* The test of m_connected after the wait; otherwise around the loop, whose
\* condition still holds.
ReadRecheck(t) ==
  /\ pc[t] = "readRecheck"
  /\ \/ ~m_connected /\ Fail(t, "eConnectionLost")
     \/ m_connected /\ Goto(t, "readCheck") /\ UNCHANGED <<queueVars, line>>

\* wait_for tests its predicate, data available, and goes back to sleep
\* without it; the predicate does not look at m_connected.
TimedWake(t) ==
  /\ pc[t] = "timedBlocked"
  /\ t \notin m_readCondition
  /\ m_mutex = {}
  /\ \/ TakeData(t) /\ UNCHANGED m_readCondition
     \/ /\ IsEmpty
        /\ m_readCondition' = m_readCondition \cup {t}
        /\ UNCHANGED <<m_buffer, m_mutex, callVars>>
  /\ UNCHANGED <<m_connected, m_writeCondition, line>>

\* The deadline of wait_for passes.
TimedExpire(t) ==
  /\ pc[t] = "timedBlocked"
  /\ m_readCondition' = m_readCondition \ {t}
  /\ Goto(t, "timedExpired")
  /\ UNCHANGED <<m_buffer, m_connected, m_mutex, m_writeCondition, line>>

\* Mutant: waits again when the deadline has passed without data.
TimedReturnRestart(t) ==
  /\ pc[t] = "timedExpired"
  /\ m_mutex = {}
  /\ TakeData(t) \/ (IsEmpty /\ KeepLock(t, "timedCheck"))
  /\ UNCHANGED <<m_connected, m_readCondition, m_writeCondition, line>>

\* wait_for has the mutex back after the deadline and returns its predicate.
TimedReturn(t) ==
  /\ pc[t] = "timedExpired"
  /\ m_mutex = {}
  /\ TakeData(t) \/ (IsEmpty /\ KeepLock(t, "timedFinal"))
  /\ UNCHANGED <<m_connected, m_readCondition, m_writeCondition, line>>

TimedFinal(t) ==
  /\ pc[t] = "timedFinal"
  /\ Fail(t, IF m_connected THEN "eTimeout" ELSE "eConnectionLost")

-------------------------------------------------------------------------------
\* write.

CallWrite(t, buf) ==
  /\ line["out"] = "open"
  /\ pc[t] = "idle"
  /\ pc' = [pc EXCEPT ![t] = "write"]
  /\ buffer' = [buffer EXCEPT ![t] = buf]
  /\ result' = [result EXCEPT ![t] = Pending]
  /\ UNCHANGED <<queueVars, line, buflen>>

\* The mutex, the test of buflen and the test of availableWriteSize().
WriteLock(t) ==
  /\ pc[t] = "write"
  /\ m_mutex = {}
  /\ \/ Len(buffer[t]) >= Size /\ Fail(t, "eTooBigBuffer")
     \/ /\ Len(buffer[t]) < Size
        /\ \/ PutData(t)
           \/ IsFull /\ KeepLock(t, "writeCheck") /\ UNCHANGED m_readCondition
        /\ UNCHANGED <<m_connected, m_writeCondition, line>>

WriteCheck(t) ==
  /\ pc[t] = "writeCheck"
  /\ \/ ~m_connected /\ Fail(t, "eConnectionLost")
     \/ m_connected /\ Goto(t, "writeWait") /\ UNCHANGED <<queueVars, line>>

WriteWait(t) ==
  /\ pc[t] = "writeWait"
  /\ m_mutex' = {}
  /\ m_writeCondition' = m_writeCondition \cup {t}
  /\ Goto(t, "writeBlocked")
  /\ UNCHANGED <<m_buffer, m_connected, m_readCondition, line>>

\* wait tests its predicate, room available, and goes back to sleep without
\* it; the look at m_connected that follows is behind a true predicate.
WriteWake(t) ==
  /\ pc[t] = "writeBlocked"
  /\ t \notin m_writeCondition
  /\ m_mutex = {}
  /\ \/ PutData(t) /\ UNCHANGED m_writeCondition
     \/ /\ IsFull
        /\ m_writeCondition' = m_writeCondition \cup {t}
        /\ UNCHANGED <<m_buffer, m_mutex, m_readCondition, callVars>>
  /\ UNCHANGED <<m_connected, line>>

\* A spurious wake-up from either condition variable.
SpuriousWake(t) ==
  /\ t \in m_readCondition \cup m_writeCondition
  /\ m_readCondition' = m_readCondition \ {t}
  /\ m_writeCondition' = m_writeCondition \ {t}
  /\ UNCHANGED <<m_buffer, m_connected, m_mutex, line, callVars>>

-------------------------------------------------------------------------------
\* setConnectionFlag, which takes no lock.

\* setConnectionFlag(true) by InprocLine::InprocLine(InprocLine*), which then
\* hands the queue to both lines.
Connect ==
  /\ line = [e \in {"in", "out"} |-> "new"]
  /\ m_connected' = TRUE
  /\ line' = [e \in {"in", "out"} |-> "open"]
  /\ UNCHANGED <<m_buffer, m_mutex, m_readCondition, m_writeCondition, callVars>>

\* ~InprocLine at one end, whose own threads are done with the line, calls
\* setConnectionFlag(false) and tests m_connected.
Destroy(e) ==
  /\ line[e] = "open"
  /\ \A t \in IF e = "in" THEN Readers ELSE Writers : pc[t] = "idle"
  /\ line' = [line EXCEPT ![e] = IF m_connected THEN "clearFlag" ELSE "closed"]
  /\ UNCHANGED <<queueVars, callVars>>

ClearFlag(e) ==
  /\ line[e] = "clearFlag"
  /\ m_connected' = FALSE
  /\ line' = [line EXCEPT ![e] = "notifyRead"]
  /\ UNCHANGED <<m_buffer, m_mutex, m_readCondition, m_writeCondition, callVars>>

\* Mutant: does not wake the readers.
NotifyReadSkipped(e) ==
  /\ line[e] = "notifyRead"
  /\ line' = [line EXCEPT ![e] = "notifyWrite"]
  /\ UNCHANGED <<queueVars, callVars>>

NotifyRead(e) ==
  /\ line[e] = "notifyRead"
  /\ m_readCondition' = {}
  /\ line' = [line EXCEPT ![e] = "notifyWrite"]
  /\ UNCHANGED <<m_buffer, m_connected, m_mutex, m_writeCondition, callVars>>

NotifyWrite(e) ==
  /\ line[e] = "notifyWrite"
  /\ m_writeCondition' = {}
  /\ line' = [line EXCEPT ![e] = "closed"]
  /\ UNCHANGED <<m_buffer, m_connected, m_mutex, m_readCondition, callVars>>

-------------------------------------------------------------------------------

\* The steps that need the mutex to be free.
Acquire(t) ==
  \/ t \in Readers /\ (ReadLock(t) \/ ReadWake(t) \/ TimedWake(t) \/ TimedReturn(t))
  \/ t \in Writers /\ (WriteLock(t) \/ WriteWake(t))

\* The steps a thread takes while it holds the mutex, and the deadline.
Proceed(t) ==
  \/ t \in Readers /\ (ReadCheck(t) \/ ReadWait(t) \/ ReadRecheck(t) \/ TimedExpire(t) \/ TimedFinal(t))
  \/ t \in Writers /\ (WriteCheck(t) \/ WriteWait(t))

HangUp(e) == ClearFlag(e) \/ NotifyRead(e) \/ NotifyWrite(e)

Next ==
  \/ Connect
  \/ \E t \in Readers, n \in 0..MaxLen : CallRead(t, n)
  \/ \E t \in Writers, buf \in Buffers : CallWrite(t, buf)
  \/ \E t \in Threads : Acquire(t) \/ Proceed(t) \/ SpuriousWake(t)
  \/ \E e \in {"in", "out"} : Destroy(e) \/ HangUp(e)

Spec == Init /\ [][Next]_vars

\* A running thread runs on, deadlines pass, a destructor that has begun ends,
\* and a thread that keeps asking for the mutex is not passed over forever.
\* Nobody has to call, to destroy a line, or to wake up spuriously.
FairSpec ==
  /\ Spec
  /\ \A t \in Threads : SF_vars(Acquire(t)) /\ WF_vars(Proceed(t))
  /\ \A e \in {"in", "out"} : WF_vars(HangUp(e))
-------------------------------------------------------------------------------
\* Safety.

(***************************************************************************)
(* No reader sleeps on data: whoever is asleep on m_readCondition and has   *)
(* not been notified sees an empty ring, in every interleaving of writers,  *)
(* timeouts, spurious wake-ups and hang-ups (the notify_all of write,       *)
(* inproc.cpp:185, against the waits at :140 and :156).                     *)
(***************************************************************************)
NoStrandedReader == m_readCondition # {} => IsEmpty

(***************************************************************************)
(* What the mutex and the waits establish between them: a thread is inside  *)
(* a critical section exactly when it holds m_mutex, and only one does; a   *)
(* reader that is about to wait still sees an empty ring and a writer a     *)
(* full one, however long ago they looked at m_connected; only threads      *)
(* inside a wait are registered on a condition variable; and no reader      *)
(* sleeps on data (inproc.cpp:132-187).                                     *)
(***************************************************************************)
QueueInv ==
  /\ m_mutex = {t \in Threads : pc[t] \in Locked}
  /\ \A t, u \in m_mutex : t = u
  /\ \A t \in Readers : pc[t] \in ReadLocked => IsEmpty
  /\ \A t \in Writers : pc[t] \in WriteLocked => IsFull
  /\ \A t \in m_readCondition : pc[t] \in {"readBlocked", "timedBlocked"}
  /\ \A t \in m_writeCondition : pc[t] = "writeBlocked"
  /\ NoStrandedReader

(***************************************************************************)
(* The two ends of the queue are never asleep at the same time, as long as  *)
(* one thread reads the line.  It is not obvious: read notifies the writers *)
(* on entry only (inproc.cpp:135, :151), and a reader that waited takes the *)
(* bytes without telling them.                                              *)
(***************************************************************************)
NoMutualSleep == m_readCondition = {} \/ m_writeCondition = {}

(***************************************************************************)
(* What the two lines see of the queue is a bounded byte stream: no byte is *)
(* lost, repeated or reordered between writers and readers, a timeout or a  *)
(* lost connection is never reported while there is something to read       *)
(* (inproc.cpp:132-187).                                                    *)
(***************************************************************************)
Stream == INSTANCE ByteStream WITH
            stream     <- Contents(m_buffer),
            Capacity   <- Size - 1,
            connection <- IF line["in"] = "new" THEN "new"
                          ELSE IF m_connected THEN "up" ELSE "down"
ImplementsByteStream == Stream!Spec

-------------------------------------------------------------------------------
\* Liveness, under FairSpec.

Timed == {"timed", "timedCheck", "timedWait", "timedBlocked", "timedExpired", "timedFinal"}

(***************************************************************************)
(* A read with a timeout returns, whatever the other threads, the hang-up   *)
(* and the spurious wake-ups do (inproc.cpp:148-168).                       *)
(***************************************************************************)
TimedReadReturns == \A t \in Readers : pc[t] \in Timed ~> pc[t] = "idle"

(***************************************************************************)
(* With one writer, the next read call that asks for a byte gets a waiting  *)
(* writer going again (inproc.cpp:135 and :151 against :179).               *)
(***************************************************************************)
NextReadFreesWriter ==
  \A w \in Writers, t \in Readers :
    (pc[w] = "writeBlocked" /\ pc[t] \in {"read", "timed"} /\ buflen[t] > 0) ~> pc[w] = "idle"

(***************************************************************************)
(* A call made after the other end is gone returns (inproc.cpp:138, :155    *)
(* and :177).                                                               *)
(***************************************************************************)
CallsAfterHangupReturn ==
  /\ \A t \in Readers : (line["out"] = "closed" /\ pc[t] \in {"read", "timed"}) ~> pc[t] = "idle"
  /\ \A t \in Writers : (line["in"] = "closed" /\ pc[t] = "write") ~> pc[t] = "idle"

(***************************************************************************)
(* A reader that is asleep, or on its way out of the wait, when the other   *)
(* end has cleared m_connected and is about to notify, returns              *)
(* (inproc.cpp:207-208 against :140-143).                                   *)
(***************************************************************************)
SleeperLearnsOfHangup ==
  \A t \in Readers : (pc[t] = "readBlocked" /\ line["out"] = "notifyRead") ~> pc[t] = "idle"

-------------------------------------------------------------------------------
\* What the repository expects of a line and the code does not give.

(***************************************************************************)
(* A reader that waits without a timeout learns that the other end is gone  *)
(* (the check after the wait, inproc.cpp:142-143).  Violated:               *)
(* setConnectionFlag takes no lock, so m_connected can be cleared and       *)
(* notified between the reader's test and its wait.                         *)
(***************************************************************************)
ReaderLearnsOfHangup ==
  \A t \in Readers : (line["out"] = "closed" /\ pc[t] = "readBlocked") ~> pc[t] = "idle"
===============================================================================
