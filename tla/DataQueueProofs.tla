---------------------------- MODULE DataQueueProofs ----------------------------
(***************************************************************************)
(* Theorems about DataQueue: for any number of reading and writing threads, *)
(* any buffer size and any byte values.                                     *)
(***************************************************************************)
EXTENDS DataQueue, RingBufferProofs

(***************************************************************************)
(* An empty ring is not full, unless it has no room for a byte at all.      *)
(***************************************************************************)
LEMMA EmptyIsNotFull ==
  ASSUME m_buffer \in RingType, Size > 1, IsEmpty
  PROVE  ~IsFull
  BY ContentsFacts, RingAssumption DEF IsEmpty, IsFull

(***************************************************************************)
(* The end of a call, common to all actions that return: types.             *)
(***************************************************************************)
LEMMA ReturnType ==
  ASSUME TypeOK, NEW t \in Threads, NEW code \in Code, NEW bytes \in Seq(Byte),
         Return(t, code, bytes)
  PROVE  /\ pc' = [pc EXCEPT ![t] = "idle"]
         /\ pc' \in [Threads -> ReaderPc \cup WriterPc]
         /\ \A u \in Readers : pc'[u] \in ReaderPc
         /\ \A u \in Writers : pc'[u] \in WriterPc
         /\ buflen' \in [Readers -> 0..MaxLen]
         /\ buffer' \in [Writers -> Buffers]
         /\ result' \in [Threads -> [code : Code, bytes : Seq(Byte)]]
<1>1. pc' = [pc EXCEPT ![t] = "idle"]
  BY DEF Return
<1>2. /\ pc' \in [Threads -> ReaderPc \cup WriterPc]
      /\ \A u \in Readers : pc'[u] \in ReaderPc
      /\ \A u \in Writers : pc'[u] \in WriterPc
  BY <1>1 DEF TypeOK, ReaderPc, WriterPc, Threads
<1>3. buflen' \in [Readers -> 0..MaxLen]
  BY QueueAssumption, RingAssumption DEF Return, TypeOK
<1>4. buffer' \in [Writers -> Buffers]
  <2>1. <<>> \in Buffers
    <3>1. <<>> \in [1..0 -> Byte] OBVIOUS
    <3> QED BY <3>1, RingAssumption DEF Buffers
  <2> QED BY <2>1 DEF Return, TypeOK
<1>5. result' \in [Threads -> [code : Code, bytes : Seq(Byte)]]
  BY DEF Return, TypeOK
<1> QED BY <1>1, <1>2, <1>3, <1>4, <1>5

(***************************************************************************)
(* RingBuffer::read under the mutex: types.                                 *)
(***************************************************************************)
LEMMA TakeDataType ==
  ASSUME TypeOK, NEW t \in Readers, TakeData(t)
  PROVE  /\ m_buffer' \in RingType
         /\ m_mutex' = m_mutex
         /\ pc' = [pc EXCEPT ![t] = "idle"]
         /\ pc' \in [Threads -> ReaderPc \cup WriterPc]
         /\ \A u \in Readers : pc'[u] \in ReaderPc
         /\ \A u \in Writers : pc'[u] \in WriterPc
         /\ buflen' \in [Readers -> 0..MaxLen]
         /\ buffer' \in [Writers -> Buffers]
         /\ result' \in [Threads -> [code : Code, bytes : Seq(Byte)]]
<1>1. m_buffer \in RingType /\ buflen[t] \in Nat
  BY QueueAssumption DEF TypeOK
<1> DEFINE res == RingRead(m_buffer, buflen[t])
<1>2. res.ring \in RingType /\ res.bytes \in Seq(Byte)
  BY <1>1, RingReadFacts
<1> HIDE DEF res
<1>3. Return(t, "ok", res.bytes) /\ m_buffer' = res.ring /\ m_mutex' = m_mutex
  BY DEF TakeData, res
<1>4. "ok" \in Code /\ t \in Threads BY DEF Code, Threads
<1> QED BY <1>2, <1>3, <1>4, ReturnType

(***************************************************************************)
(* RingBuffer::write under the mutex: types.                                *)
(***************************************************************************)
LEMMA PutDataType ==
  ASSUME TypeOK, NEW t \in Writers, PutData(t)
  PROVE  /\ m_buffer' \in RingType
         /\ m_mutex' = m_mutex
         /\ m_readCondition' = {}
         /\ pc' = [pc EXCEPT ![t] = "idle"]
         /\ pc' \in [Threads -> ReaderPc \cup WriterPc]
         /\ \A u \in Readers : pc'[u] \in ReaderPc
         /\ \A u \in Writers : pc'[u] \in WriterPc
         /\ buflen' \in [Readers -> 0..MaxLen]
         /\ buffer' \in [Writers -> Buffers]
         /\ result' \in [Threads -> [code : Code, bytes : Seq(Byte)]]
<1>1. m_buffer \in RingType /\ buffer[t] \in Seq(Byte)
  BY BuffersAreSequences DEF TypeOK
<1> DEFINE res == RingWrite(m_buffer, buffer[t])
<1>2. res.ring \in RingType /\ SubSeq(buffer[t], 1, res.count) \in Seq(Byte)
  <2>1. res.ring \in RingType /\ res.count = Least(Len(buffer[t]), AvailableWriteSize(m_buffer))
    BY <1>1, RingWriteFacts
  <2>2. AvailableWriteSize(m_buffer) \in Nat /\ Len(buffer[t]) \in Nat
    BY <1>1, ContentsFacts, RingAssumption
  <2>3. res.count \in 0..Len(buffer[t]) /\ 0 + 1 = 1
    BY <2>1, <2>2 DEF Least
  <2> HIDE DEF res
  <2>4. SubSeq(buffer[t], 0 + 1, res.count) \in Seq(Byte)
    BY <1>1, <2>3, 0 \in Nat, SubSeqFacts
  <2> QED BY <2>1, <2>3, <2>4
<1> HIDE DEF res
<1>3. /\ Return(t, "ok", SubSeq(buffer[t], 1, res.count)) /\ m_buffer' = res.ring
      /\ m_mutex' = m_mutex /\ m_readCondition' = {}
  BY DEF PutData, res
<1>4. "ok" \in Code /\ t \in Threads BY DEF Code, Threads
<1> QED BY <1>2, <1>3, <1>4, ReturnType

-------------------------------------------------------------------------------
\* The inductive invariant.

Inv == TypeOK /\ QueueInv

(***************************************************************************)
(* A thread that holds m_mutex is the only one, so nobody who finds it free *)
(* disturbs a thread in a critical section.                                 *)
(***************************************************************************)
LEMMA FreeMutex ==
  ASSUME Inv, m_mutex = {}
  PROVE  \A t \in Threads : pc[t] \notin Locked
  BY DEF Inv, QueueInv

(***************************************************************************)
(* The step of a thread inside a critical section: it is the holder.        *)
(***************************************************************************)
LEMMA HolderIsAlone ==
  ASSUME Inv, NEW t \in Threads, pc[t] \in Locked
  PROVE  m_mutex = {t} /\ \A u \in Threads : u # t => pc[u] \notin Locked
  BY DEF Inv, QueueInv

(***************************************************************************)
(* A return that leaves the mutex free keeps the invariant, whatever the    *)
(* call did to the ring, as long as no reader is left asleep.               *)
(***************************************************************************)
LEMMA ReturnInv ==
  ASSUME Inv, NEW t \in Threads, pc' = [pc EXCEPT ![t] = "idle"],
         m_mutex' = {},
         \A u \in Threads : u # t => pc[u] \notin Locked,
         t \notin m_readCondition, t \notin m_writeCondition,
         m_readCondition' \subseteq m_readCondition,
         m_writeCondition' \subseteq m_writeCondition,
         NoStrandedReader'
  PROVE  QueueInv'
<1>1. pc \in [Threads -> ReaderPc \cup WriterPc] /\ m_readCondition \subseteq Threads
      /\ m_writeCondition \subseteq Threads
  BY DEF Inv, TypeOK, Threads
<1>2. \A u \in Threads : pc'[u] \notin Locked
  BY <1>1 DEF Locked, ReadLocked, WriteLocked
<1>3. \A u \in Readers : pc'[u] \notin ReadLocked
  BY <1>2 DEF Locked, Threads
<1>4. \A u \in Writers : pc'[u] \notin WriteLocked
  BY <1>2 DEF Locked, Threads
<1>5. \A u \in m_readCondition' : pc'[u] \in {"readBlocked", "timedBlocked"}
  BY <1>1 DEF Inv, QueueInv
<1>6. \A u \in m_writeCondition' : pc'[u] = "writeBlocked"
  BY <1>1 DEF Inv, QueueInv
<1> QED BY <1>2, <1>3, <1>4, <1>5, <1>6 DEF QueueInv

(***************************************************************************)
(* The error return of a thread that holds the mutex, or of a writer that   *)
(* has just taken it.                                                       *)
(***************************************************************************)
LEMMA FailInv ==
  ASSUME Inv, NEW t \in Threads, NEW code \in Code, Fail(t, code),
         pc[t] \in Locked \/ (m_mutex = {} /\ pc[t] = "write")
  PROVE  Inv'
<1>1. /\ m_mutex' = {} /\ Return(t, code, <<>>)
      /\ UNCHANGED <<m_buffer, m_connected, m_readCondition, m_writeCondition, line>>
  BY DEF Fail
<1>2. <<>> \in Seq(Byte) OBVIOUS
<1>3. TypeOK BY DEF Inv
<1>4. TypeOK'
  BY <1>1, <1>2, <1>3, ReturnType DEF TypeOK
<1>5. \A u \in Threads : u # t => pc[u] \notin Locked
  BY FreeMutex, HolderIsAlone
<1>6. t \notin m_readCondition /\ t \notin m_writeCondition
  BY DEF Inv, QueueInv, Locked, ReadLocked, WriteLocked
<1>7. NoStrandedReader'
  BY <1>1 DEF Inv, QueueInv, NoStrandedReader, IsEmpty
<1>8. pc' = [pc EXCEPT ![t] = "idle"] BY <1>1 DEF Return
<1>9. QueueInv' BY <1>1, <1>5, <1>6, <1>7, <1>8, ReturnInv
<1> QED BY <1>4, <1>9 DEF Inv

(***************************************************************************)
(* A reader that finds the mutex free and data in the ring takes them.      *)
(***************************************************************************)
LEMMA TakeDataInv ==
  ASSUME Inv, NEW t \in Readers, m_mutex = {}, TakeData(t),
         t \notin m_readCondition,
         m_readCondition' = m_readCondition,
         m_writeCondition' \subseteq m_writeCondition,
         UNCHANGED <<m_connected, line>>
  PROVE  Inv'
<1>1. TypeOK /\ t \in Threads BY DEF Inv, Threads
<1>2. TypeOK'
  BY <1>1, TakeDataType DEF TypeOK
<1>3. t \notin m_writeCondition
  BY QueueAssumption DEF Inv, TypeOK
<1>4. NoStrandedReader'
  \* nobody sleeps, since the ring is not empty before the read
  BY DEF TakeData, Inv, QueueInv, NoStrandedReader
<1>5. m_mutex' = {} /\ pc' = [pc EXCEPT ![t] = "idle"]
  BY <1>1, TakeDataType
<1>6. QueueInv'
  BY <1>1, <1>3, <1>4, <1>5, FreeMutex, ReturnInv
<1> QED BY <1>2, <1>6 DEF Inv

(***************************************************************************)
(* A writer that finds the mutex free and room in the ring writes.          *)
(***************************************************************************)
LEMMA PutDataInv ==
  ASSUME Inv, NEW t \in Writers, m_mutex = {}, PutData(t),
         t \notin m_writeCondition,
         m_writeCondition' = m_writeCondition,
         UNCHANGED <<m_connected, line>>
  PROVE  Inv'
<1>1. TypeOK /\ t \in Threads BY DEF Inv, Threads
<1>2. TypeOK'
  BY <1>1, PutDataType DEF TypeOK
<1>3. t \notin m_readCondition
  BY QueueAssumption DEF Inv, TypeOK
<1>4. m_mutex' = {} /\ m_readCondition' = {} /\ pc' = [pc EXCEPT ![t] = "idle"]
  BY <1>1, PutDataType
<1>5. NoStrandedReader' BY <1>4 DEF NoStrandedReader
<1>6. QueueInv'
  BY <1>1, <1>3, <1>4, <1>5, FreeMutex, ReturnInv
<1> QED BY <1>2, <1>6 DEF Inv

(***************************************************************************)
(* A thread that finds the mutex free takes it and stops before a look at   *)
(* m_connected: a reader with an empty ring, a writer with a full one.      *)
(***************************************************************************)
LEMMA KeepLockInv ==
  ASSUME Inv, m_mutex = {}, NEW t \in Threads, NEW label \in Locked, KeepLock(t, label),
         \/ t \in Readers /\ label \in ReadLocked /\ IsEmpty
         \/ t \in Writers /\ label \in WriteLocked /\ IsFull,
         t \notin m_readCondition, t \notin m_writeCondition,
         m_readCondition' = m_readCondition,
         m_writeCondition' \subseteq m_writeCondition,
         UNCHANGED <<m_connected, line>>
  PROVE  Inv'
<1>1. /\ m_mutex' = {t} /\ pc' = [pc EXCEPT ![t] = label]
      /\ UNCHANGED <<m_buffer, buflen, buffer, result>>
  BY DEF KeepLock, Goto
<1>2. TypeOK'
  BY <1>1, QueueAssumption
  DEF Inv, TypeOK, ReaderPc, WriterPc, Threads
<1>3. pc \in [Threads -> ReaderPc \cup WriterPc] /\ m_readCondition \subseteq Threads
      /\ m_writeCondition \subseteq Threads
  BY DEF Inv, TypeOK, Threads
<1>4. m_mutex' = {u \in Threads : pc'[u] \in Locked}
  BY <1>1, <1>3, FreeMutex
<1>5. /\ \A u \in Readers : pc'[u] \in ReadLocked => IsEmpty'
      /\ \A u \in Writers : pc'[u] \in WriteLocked => IsFull'
  <2>1. \A u \in Threads : u # t => pc'[u] \notin Locked
    BY <1>1, <1>3, FreeMutex
  <2>2. IsEmpty' = IsEmpty /\ IsFull' = IsFull
    BY <1>1 DEF IsEmpty, IsFull
  <2>3. ASSUME NEW u \in Readers, pc'[u] \in ReadLocked PROVE IsEmpty'
    BY <2>1, <2>2, <2>3, QueueAssumption DEF Threads, Locked
  <2>4. ASSUME NEW u \in Writers, pc'[u] \in WriteLocked PROVE IsFull'
    BY <2>1, <2>2, <2>4, QueueAssumption DEF Threads, Locked
  <2> QED BY <2>3, <2>4
<1>6. /\ \A u \in m_readCondition' : pc'[u] \in {"readBlocked", "timedBlocked"}
      /\ \A u \in m_writeCondition' : pc'[u] = "writeBlocked"
  BY <1>1, <1>3 DEF Inv, QueueInv
<1>7. NoStrandedReader'
  BY <1>1 DEF Inv, QueueInv, NoStrandedReader, IsEmpty
<1>8. QueueInv'
  BY <1>1, <1>4, <1>5, <1>6, <1>7 DEF QueueInv
<1> QED BY <1>2, <1>8 DEF Inv

(***************************************************************************)
(* The holder of the mutex goes on to another statement of its critical     *)
(* section.                                                                 *)
(***************************************************************************)
LEMMA MoveInv ==
  ASSUME Inv, NEW t \in Threads, NEW label \in Locked, Goto(t, label),
         \/ t \in Readers /\ pc[t] \in ReadLocked /\ label \in ReadLocked
         \/ t \in Writers /\ pc[t] \in WriteLocked /\ label \in WriteLocked,
         UNCHANGED <<queueVars, line>>
  PROVE  Inv'
<1>1. /\ pc' = [pc EXCEPT ![t] = label]
      /\ UNCHANGED <<m_buffer, m_connected, m_mutex, m_readCondition, m_writeCondition, line,
                    buflen, buffer, result>>
  BY DEF Goto, queueVars
<1>2. TypeOK'
  BY <1>1, QueueAssumption DEF Inv, TypeOK, ReaderPc, WriterPc, Threads
<1>3. /\ pc \in [Threads -> ReaderPc \cup WriterPc] /\ m_readCondition \subseteq Threads
      /\ m_writeCondition \subseteq Threads
      /\ t \notin m_readCondition /\ t \notin m_writeCondition
  BY DEF Inv, TypeOK, QueueInv, Threads, ReadLocked, WriteLocked
<1>4. /\ IsEmpty' = IsEmpty /\ IsFull' = IsFull
      /\ t \in Readers => IsEmpty
      /\ t \in Writers => IsFull
  BY <1>1, QueueAssumption DEF IsEmpty, IsFull, Inv, QueueInv
<1>5. m_mutex' = {u \in Threads : pc'[u] \in Locked}
  BY <1>1, <1>3 DEF Inv, QueueInv, Locked
<1>6. /\ \A u \in Readers : pc'[u] \in ReadLocked => IsEmpty'
      /\ \A u \in Writers : pc'[u] \in WriteLocked => IsFull'
  BY <1>1, <1>3, <1>4, QueueAssumption DEF Inv, QueueInv, Threads
<1>7. /\ \A u \in m_readCondition' : pc'[u] \in {"readBlocked", "timedBlocked"}
      /\ \A u \in m_writeCondition' : pc'[u] = "writeBlocked"
  BY <1>1, <1>3 DEF Inv, QueueInv
<1>8. NoStrandedReader'
  BY <1>1, <1>4 DEF Inv, QueueInv, NoStrandedReader
<1>9. QueueInv'
  BY <1>1, <1>5, <1>6, <1>7, <1>8 DEF QueueInv, Inv
<1> QED BY <1>2, <1>9 DEF Inv

(***************************************************************************)
(* A thread waits: it gives up the mutex and falls asleep in one step.      *)
(***************************************************************************)
LEMMA SleepInv ==
  ASSUME Inv, NEW t \in Threads, pc[t] \in Locked, ReadWait(t) \/ WriteWait(t),
         pc[t] \in ReadLocked <=> t \in Readers
  PROVE  Inv'
<1>1. CASE ReadWait(t)
  <2>1. PICK label \in {"readBlocked", "timedBlocked"} : pc' = [pc EXCEPT ![t] = label]
    BY <1>1 DEF ReadWait, Goto
  <2>2. /\ m_mutex' = {} /\ m_readCondition' = m_readCondition \cup {t}
        /\ UNCHANGED <<m_buffer, m_connected, m_writeCondition, line, buflen, buffer, result>>
        /\ t \in Readers /\ IsEmpty
    BY <1>1 DEF ReadWait, Goto, ReadLocked, Inv, QueueInv
  <2>3. TypeOK'
    BY <2>1, <2>2, QueueAssumption DEF Inv, TypeOK, ReaderPc, WriterPc, Threads
  <2>4. /\ pc \in [Threads -> ReaderPc \cup WriterPc] /\ m_readCondition \subseteq Threads
        /\ m_writeCondition \subseteq Writers
    BY DEF Inv, TypeOK, Threads
  <2>5. \A u \in Threads : pc'[u] \notin Locked
    BY <2>1, <2>4, HolderIsAlone DEF Locked, ReadLocked, WriteLocked
  <2>6. /\ \A u \in m_readCondition' : pc'[u] \in {"readBlocked", "timedBlocked"}
        /\ \A u \in m_writeCondition' : pc'[u] = "writeBlocked"
    BY <2>1, <2>2, <2>4, QueueAssumption DEF Inv, QueueInv, Threads
  <2>7. NoStrandedReader'
    BY <2>2 DEF NoStrandedReader, IsEmpty
  <2>8. QueueInv'
    BY <2>2, <2>5, <2>6, <2>7 DEF QueueInv, Threads, Locked
  <2> QED BY <2>3, <2>8 DEF Inv
<1>2. CASE WriteWait(t)
  <2>2. /\ m_mutex' = {} /\ m_writeCondition' = m_writeCondition \cup {t}
        /\ pc' = [pc EXCEPT ![t] = "writeBlocked"]
        /\ UNCHANGED <<m_buffer, m_connected, m_readCondition, line, buflen, buffer, result>>
        /\ t \in Writers
    BY <1>2 DEF WriteWait, Goto, ReadLocked, Threads
  <2>3. TypeOK'
    BY <2>2, QueueAssumption DEF Inv, TypeOK, ReaderPc, WriterPc, Threads
  <2>4. /\ pc \in [Threads -> ReaderPc \cup WriterPc] /\ m_writeCondition \subseteq Threads
        /\ m_readCondition \subseteq Readers
    BY DEF Inv, TypeOK, Threads
  <2>5. \A u \in Threads : pc'[u] \notin Locked
    BY <2>2, <2>4, HolderIsAlone DEF Locked, ReadLocked, WriteLocked
  <2>6. /\ \A u \in m_readCondition' : pc'[u] \in {"readBlocked", "timedBlocked"}
        /\ \A u \in m_writeCondition' : pc'[u] = "writeBlocked"
    BY <2>2, <2>4, QueueAssumption DEF Inv, QueueInv, Threads
  <2>7. NoStrandedReader'
    BY <2>2 DEF Inv, QueueInv, NoStrandedReader, IsEmpty
  <2>8. QueueInv'
    BY <2>2, <2>5, <2>6, <2>7 DEF QueueInv, Threads, Locked
  <2> QED BY <2>3, <2>8 DEF Inv
<1> QED BY <1>1, <1>2

(***************************************************************************)
(* A step that leaves the ring and the mutex alone, and moves a thread only *)
(* between statements outside the critical sections, keeps QueueInv as long *)
(* as nobody is newly asleep, other than a reader on an empty ring.         *)
(***************************************************************************)
LEMMA OutsideInv ==
  ASSUME Inv, m_buffer' = m_buffer, m_mutex' = m_mutex,
         \A t \in Threads : pc'[t] # pc[t] => pc[t] \notin Locked /\ pc'[t] \notin Locked,
         \A t \in m_readCondition' : pc'[t] \in {"readBlocked", "timedBlocked"},
         \A t \in m_readCondition' : t \in m_readCondition \/ IsEmpty,
         \A t \in m_writeCondition' : pc'[t] = "writeBlocked"
  PROVE  QueueInv'
<1>1. IsEmpty' = IsEmpty /\ IsFull' = IsFull
  BY DEF IsEmpty, IsFull
<1>2. \A t \in Threads : pc'[t] \in Locked => pc'[t] = pc[t]
  OBVIOUS
<1>3. m_mutex' = {t \in Threads : pc'[t] \in Locked}
  BY DEF Inv, QueueInv
<1>4. /\ \A t \in Readers : pc'[t] \in ReadLocked => IsEmpty'
      /\ \A t \in Writers : pc'[t] \in WriteLocked => IsFull'
  BY <1>1, <1>2 DEF Inv, QueueInv, Threads, Locked
<1>5. NoStrandedReader'
  BY <1>1 DEF Inv, QueueInv, NoStrandedReader
<1>6. \A t, u \in m_mutex' : t = u
  BY DEF Inv, QueueInv
<1>7. /\ \A t \in m_readCondition' : pc'[t] \in {"readBlocked", "timedBlocked"}
      /\ \A t \in m_writeCondition' : pc'[t] = "writeBlocked"
  OBVIOUS
<1> QED BY <1>3, <1>4, <1>5, <1>6, <1>7 DEF QueueInv

(***************************************************************************)
(* Every step keeps the invariant: one step of the proof for each action.   *)
(***************************************************************************)
LEMMA StepInv == Inv /\ [Next]_vars => Inv'
<1> SUFFICES ASSUME Inv, [Next]_vars PROVE Inv'
  OBVIOUS
<1>0. /\ TypeOK /\ pc \in [Threads -> ReaderPc \cup WriterPc]
      /\ m_readCondition \subseteq Readers /\ m_writeCondition \subseteq Writers
      /\ \A t \in m_readCondition : pc[t] \in {"readBlocked", "timedBlocked"}
      /\ \A t \in m_writeCondition : pc[t] = "writeBlocked"
  BY DEF Inv, TypeOK, QueueInv
<1>1. CASE Connect
  <2>1. TypeOK' BY <1>0, <1>1 DEF Connect, TypeOK, callVars, LineState
  <2>2. QueueInv' BY <1>0, <1>1, OutsideInv DEF Connect, callVars
  <2> QED BY <2>1, <2>2 DEF Inv
<1>2. ASSUME NEW t \in Readers, NEW n \in 0..MaxLen, CallRead(t, n) PROVE Inv'
  <2>1. PICK method \in {"read", "timed"} : pc' = [pc EXCEPT ![t] = method]
    BY <1>2 DEF CallRead
  <2>2. /\ buflen' = [buflen EXCEPT ![t] = n] /\ result' = [result EXCEPT ![t] = Pending]
        /\ UNCHANGED <<m_buffer, m_connected, m_mutex, m_readCondition, m_writeCondition,
                      line, buffer>>
        /\ pc[t] = "idle" /\ t \in Threads
    BY <1>2 DEF CallRead, queueVars, Threads
  <2>3. result' \in [Threads -> [code : Code, bytes : Seq(Byte)]]
    <3>1. Pending \in [code : Code, bytes : Seq(Byte)]
      BY DEF Pending, Code
    <3> QED BY <3>1, <2>2, <1>0 DEF TypeOK
  <2>4. TypeOK'
    BY <1>0, <2>1, <2>2, <2>3, QueueAssumption DEF TypeOK, ReaderPc, WriterPc, Threads
  <2>5. QueueInv'
    <3>1. \A u \in Threads : pc'[u] # pc[u] => pc[u] \notin Locked /\ pc'[u] \notin Locked
      BY <1>0, <2>1, <2>2 DEF Locked, ReadLocked, WriteLocked
    <3>2. /\ \A u \in m_readCondition : pc'[u] = pc[u]
          /\ \A u \in m_writeCondition : pc'[u] = pc[u]
      BY <1>0, <2>1, <2>2 DEF Threads
    <3> QED BY <3>1, <3>2, <1>0, <2>2, OutsideInv
  <2> QED BY <2>4, <2>5 DEF Inv
<1>3. ASSUME NEW t \in Writers, NEW buf \in Buffers, CallWrite(t, buf) PROVE Inv'
  <2>2. /\ buffer' = [buffer EXCEPT ![t] = buf] /\ result' = [result EXCEPT ![t] = Pending]
        /\ pc' = [pc EXCEPT ![t] = "write"]
        /\ UNCHANGED <<m_buffer, m_connected, m_mutex, m_readCondition, m_writeCondition,
                      line, buflen>>
        /\ pc[t] = "idle" /\ t \in Threads
    BY <1>3 DEF CallWrite, queueVars, Threads
  <2>3. result' \in [Threads -> [code : Code, bytes : Seq(Byte)]]
    <3>1. Pending \in [code : Code, bytes : Seq(Byte)]
      BY DEF Pending, Code
    <3> QED BY <3>1, <2>2, <1>0 DEF TypeOK
  <2>4. TypeOK'
    BY <1>0, <2>2, <2>3, QueueAssumption DEF TypeOK, ReaderPc, WriterPc, Threads
  <2>5. QueueInv'
    <3>1. \A u \in Threads : pc'[u] # pc[u] => pc[u] \notin Locked /\ pc'[u] \notin Locked
      BY <1>0, <2>2 DEF Locked, ReadLocked, WriteLocked
    <3>2. /\ \A u \in m_readCondition : pc'[u] = pc[u]
          /\ \A u \in m_writeCondition : pc'[u] = pc[u]
      BY <1>0, <2>2 DEF Threads
    <3> QED BY <3>1, <3>2, <1>0, <2>2, OutsideInv
  <2> QED BY <2>4, <2>5 DEF Inv
<1>4. ASSUME NEW t \in Readers, ReadLock(t) PROVE Inv'
  <2>1. /\ pc[t] \in {"read", "timed"} /\ m_mutex = {} /\ m_writeCondition' = {}
        /\ UNCHANGED <<m_connected, m_readCondition, line>>
        /\ t \in Threads /\ t \notin m_readCondition /\ t \notin m_writeCondition
    BY <1>0, <1>4 DEF ReadLock, Threads
  <2>2. CASE TakeData(t) BY <2>1, <2>2, TakeDataInv
  <2>3. ASSUME IsEmpty, NEW label \in {"readCheck", "timedCheck"}, KeepLock(t, label) PROVE Inv'
    <3>1. label \in ReadLocked /\ label \in Locked BY DEF ReadLocked, Locked
    <3> QED BY <2>1, <2>3, <3>1, KeepLockInv
  <2> QED BY <1>4, <2>2, <2>3 DEF ReadLock
<1>5. ASSUME NEW t \in Readers, ReadCheck(t) PROVE Inv'
  <2>1. pc[t] \in ReadLocked /\ pc[t] \in Locked /\ t \in Threads
    BY <1>5 DEF ReadCheck, ReadLocked, Locked, Threads
  <2>2. CASE Fail(t, "eConnectionLost")
    BY <2>1, <2>2, FailInv DEF Code
  <2>3. ASSUME NEW label \in {"readWait", "timedWait"}, Goto(t, label), UNCHANGED <<queueVars, line>>
        PROVE  Inv'
    <3>1. label \in ReadLocked /\ label \in Locked BY DEF ReadLocked, Locked
    <3> QED BY <2>1, <2>3, <3>1, MoveInv
  <2> QED BY <1>5, <2>2, <2>3 DEF ReadCheck
<1>6. ASSUME NEW t \in Readers, ReadWait(t) PROVE Inv'
  <2>1. pc[t] \in ReadLocked /\ pc[t] \in Locked /\ t \in Threads
    BY <1>6 DEF ReadWait, ReadLocked, Locked, Threads
  <2> QED BY <1>6, <2>1, SleepInv
<1>7. ASSUME NEW t \in Readers, ReadWake(t) PROVE Inv'
  <2>1. /\ m_mutex = {} /\ UNCHANGED <<m_connected, m_readCondition, m_writeCondition, line>>
        /\ t \in Threads /\ t \notin m_readCondition /\ t \notin m_writeCondition
    BY <1>0, <1>7, QueueAssumption DEF ReadWake, Threads
  <2>2. CASE TakeData(t) BY <2>1, <2>2, TakeDataInv
  <2>3. CASE IsEmpty /\ KeepLock(t, "readRecheck")
    <3>1. "readRecheck" \in ReadLocked /\ "readRecheck" \in Locked BY DEF ReadLocked, Locked
    <3> QED BY <2>1, <2>3, <3>1, KeepLockInv
  <2> QED BY <1>7, <2>2, <2>3 DEF ReadWake
<1>8. ASSUME NEW t \in Readers, ReadRecheck(t) PROVE Inv'
  <2>1. pc[t] \in ReadLocked /\ pc[t] \in Locked /\ t \in Threads
    BY <1>8 DEF ReadRecheck, ReadLocked, Locked, Threads
  <2>2. CASE Fail(t, "eConnectionLost")
    BY <2>1, <2>2, FailInv DEF Code
  <2>3. CASE Goto(t, "readCheck") /\ UNCHANGED <<queueVars, line>>
    <3>1. "readCheck" \in ReadLocked /\ "readCheck" \in Locked BY DEF ReadLocked, Locked
    <3> QED BY <2>1, <2>3, <3>1, MoveInv
  <2> QED BY <1>8, <2>2, <2>3 DEF ReadRecheck
<1>9. ASSUME NEW t \in Readers, TimedWake(t) PROVE Inv'
  <2>1. /\ pc[t] = "timedBlocked" /\ m_mutex = {}
        /\ UNCHANGED <<m_connected, m_writeCondition, line>>
        /\ t \in Threads /\ t \notin m_readCondition /\ t \notin m_writeCondition
    BY <1>0, <1>9, QueueAssumption DEF TimedWake, Threads
  <2>2. CASE TakeData(t) /\ UNCHANGED m_readCondition BY <2>1, <2>2, TakeDataInv
  <2>3. CASE IsEmpty /\ m_readCondition' = m_readCondition \cup {t}
             /\ UNCHANGED <<m_buffer, m_mutex, callVars>>
    <3>1. TypeOK' BY <1>0, <2>1, <2>3 DEF TypeOK, callVars
    <3>2. QueueInv' BY <1>0, <2>1, <2>3, OutsideInv DEF callVars
    <3> QED BY <3>1, <3>2 DEF Inv
  <2> QED BY <1>9, <2>2, <2>3 DEF TimedWake
<1>10. ASSUME NEW t \in Readers, TimedExpire(t) PROVE Inv'
  <2>1. /\ pc[t] = "timedBlocked" /\ pc' = [pc EXCEPT ![t] = "timedExpired"]
        /\ m_readCondition' = m_readCondition \ {t} /\ t \in Threads
        /\ UNCHANGED <<m_buffer, m_connected, m_mutex, m_writeCondition, line, buflen, buffer, result>>
    BY <1>10 DEF TimedExpire, Goto, Threads
  <2>2. TypeOK'
    BY <1>0, <2>1, QueueAssumption DEF TypeOK, ReaderPc, WriterPc, Threads
  <2>3. QueueInv'
    <3>1. \A u \in Threads : pc'[u] # pc[u] => pc[u] \notin Locked /\ pc'[u] \notin Locked
      BY <1>0, <2>1 DEF Locked, ReadLocked, WriteLocked
    <3>2. /\ \A u \in m_readCondition' : pc'[u] = pc[u] /\ u \in m_readCondition
          /\ \A u \in m_writeCondition' : pc'[u] = pc[u] /\ u \in m_writeCondition
      BY <1>0, <2>1, QueueAssumption DEF Threads
    <3> QED BY <3>1, <3>2, <1>0, <2>1, OutsideInv
  <2> QED BY <2>2, <2>3 DEF Inv
<1>11. ASSUME NEW t \in Readers, TimedReturn(t) PROVE Inv'
  <2>1. /\ m_mutex = {} /\ UNCHANGED <<m_connected, m_readCondition, m_writeCondition, line>>
        /\ t \in Threads /\ t \notin m_readCondition /\ t \notin m_writeCondition
    BY <1>0, <1>11, QueueAssumption DEF TimedReturn, Threads
  <2>2. CASE TakeData(t) BY <2>1, <2>2, TakeDataInv
  <2>3. CASE IsEmpty /\ KeepLock(t, "timedFinal")
    <3>1. "timedFinal" \in ReadLocked /\ "timedFinal" \in Locked BY DEF ReadLocked, Locked
    <3> QED BY <2>1, <2>3, <3>1, KeepLockInv
  <2> QED BY <1>11, <2>2, <2>3 DEF TimedReturn
<1>12. ASSUME NEW t \in Readers, TimedFinal(t) PROVE Inv'
  <2>1. pc[t] \in Locked /\ t \in Threads
    BY <1>12 DEF TimedFinal, ReadLocked, Locked, Threads
  <2>2. PICK code \in {"eTimeout", "eConnectionLost"} : Fail(t, code)
    BY <1>12 DEF TimedFinal
  <2> QED BY <2>1, <2>2, FailInv DEF Code
<1>13. ASSUME NEW t \in Writers, WriteLock(t) PROVE Inv'
  <2>1. /\ pc[t] = "write" /\ m_mutex = {} /\ t \in Threads
        /\ t \notin m_readCondition /\ t \notin m_writeCondition
    BY <1>0, <1>13, QueueAssumption DEF WriteLock, Threads
  <2>2. CASE Fail(t, "eTooBigBuffer")
    BY <2>1, <2>2, FailInv DEF Code
  <2>3. CASE PutData(t) /\ UNCHANGED <<m_connected, m_writeCondition, line>>
    BY <2>1, <2>3, PutDataInv
  <2>4. CASE IsFull /\ KeepLock(t, "writeCheck") /\ UNCHANGED m_readCondition
             /\ UNCHANGED <<m_connected, m_writeCondition, line>>
    <3>1. "writeCheck" \in WriteLocked /\ "writeCheck" \in Locked BY DEF WriteLocked, Locked
    <3> QED BY <2>1, <2>4, <3>1, KeepLockInv
  <2> QED BY <1>13, <2>2, <2>3, <2>4 DEF WriteLock
<1>14. ASSUME NEW t \in Writers, WriteCheck(t) PROVE Inv'
  <2>1. pc[t] \in WriteLocked /\ pc[t] \in Locked /\ t \in Threads
    BY <1>14 DEF WriteCheck, WriteLocked, Locked, Threads
  <2>2. CASE Fail(t, "eConnectionLost")
    BY <2>1, <2>2, FailInv DEF Code
  <2>3. CASE Goto(t, "writeWait") /\ UNCHANGED <<queueVars, line>>
    <3>1. "writeWait" \in WriteLocked /\ "writeWait" \in Locked BY DEF WriteLocked, Locked
    <3> QED BY <2>1, <2>3, <3>1, MoveInv
  <2> QED BY <1>14, <2>2, <2>3 DEF WriteCheck
<1>15. ASSUME NEW t \in Writers, WriteWait(t) PROVE Inv'
  <2>1. /\ pc[t] \in Locked /\ t \in Threads
        /\ pc[t] \notin ReadLocked /\ t \notin Readers
    BY <1>15, QueueAssumption DEF WriteWait, ReadLocked, WriteLocked, Locked, Threads
  <2> QED BY <1>15, <2>1, SleepInv
<1>16. ASSUME NEW t \in Writers, WriteWake(t) PROVE Inv'
  <2>1. /\ pc[t] = "writeBlocked" /\ m_mutex = {} /\ UNCHANGED <<m_connected, line>>
        /\ t \in Threads /\ t \notin m_writeCondition
    BY <1>16 DEF WriteWake, Threads
  <2>2. CASE PutData(t) /\ UNCHANGED m_writeCondition BY <2>1, <2>2, PutDataInv
  <2>3. CASE IsFull /\ m_writeCondition' = m_writeCondition \cup {t}
             /\ UNCHANGED <<m_buffer, m_mutex, m_readCondition, callVars>>
    <3>1. TypeOK' BY <1>0, <2>1, <2>3 DEF TypeOK, callVars
    <3>2. QueueInv' BY <1>0, <2>1, <2>3, OutsideInv DEF callVars
    <3> QED BY <3>1, <3>2 DEF Inv
  <2> QED BY <1>16, <2>2, <2>3 DEF WriteWake
<1>17. ASSUME NEW t \in Threads, SpuriousWake(t) PROVE Inv'
  <2>1. TypeOK' BY <1>0, <1>17 DEF SpuriousWake, TypeOK, callVars
  <2>2. QueueInv' BY <1>0, <1>17, OutsideInv DEF SpuriousWake, callVars
  <2> QED BY <2>1, <2>2 DEF Inv
<1>18. ASSUME NEW e \in {"in", "out"}, Destroy(e) \/ HangUp(e) PROVE Inv'
  <2>1. /\ m_buffer' = m_buffer /\ m_mutex' = m_mutex /\ UNCHANGED callVars
        /\ m_readCondition' \subseteq m_readCondition
        /\ m_writeCondition' \subseteq m_writeCondition
        /\ m_connected' \in BOOLEAN
        /\ line' \in [{"in", "out"} -> LineState]
    <3>1. line \in [{"in", "out"} -> LineState] /\ m_connected \in BOOLEAN
      BY <1>0 DEF TypeOK
    <3>2. CASE Destroy(e)
      BY <3>1, <3>2 DEF Destroy, queueVars, LineState
    <3>3. CASE ClearFlag(e) BY <3>1, <3>3 DEF ClearFlag, LineState
    <3>4. CASE NotifyRead(e) BY <3>1, <3>4 DEF NotifyRead, LineState
    <3>5. CASE NotifyWrite(e) BY <3>1, <3>5 DEF NotifyWrite, LineState
    <3> QED BY <1>18, <3>2, <3>3, <3>4, <3>5 DEF HangUp
  <2>2. TypeOK' BY <1>0, <2>1 DEF TypeOK, callVars
  <2>3. QueueInv' BY <1>0, <2>1, OutsideInv DEF callVars
  <2> QED BY <2>2, <2>3 DEF Inv
<1>19. CASE UNCHANGED vars
  BY <1>19 DEF vars, queueVars, callVars, Inv, TypeOK, QueueInv, NoStrandedReader, IsEmpty, IsFull
<1> QED
  BY <1>1, <1>2, <1>3, <1>4, <1>5, <1>6, <1>7, <1>8, <1>9, <1>10, <1>11, <1>12, <1>13,
     <1>14, <1>15, <1>16, <1>17, <1>18, <1>19
  DEF Next, Acquire, Proceed

(***************************************************************************)
(* A new queue.                                                             *)
(***************************************************************************)
LEMMA InitInv == Init => Inv
<1> SUFFICES ASSUME Init PROVE Inv
  OBVIOUS
<1>1. m_buffer \in RingType BY EmptyRingFacts DEF Init
<1>2. <<>> \in Buffers
  <2>1. <<>> \in [1..0 -> Byte] OBVIOUS
  <2> QED BY <2>1, RingAssumption DEF Buffers
<1>3. [code |-> "none", bytes |-> <<>>] \in [code : Code, bytes : Seq(Byte)]
  BY DEF Code
<1>4. TypeOK
  <2>1. result \in [Threads -> [code : Code, bytes : Seq(Byte)]]
    BY <1>3 DEF Init
  <2>2. buflen \in [Readers -> 0..MaxLen] /\ buffer \in [Writers -> Buffers]
    BY <1>2, RingAssumption DEF Init
  <2>3. /\ pc \in [Threads -> ReaderPc \cup WriterPc]
        /\ \A t \in Readers : pc[t] \in ReaderPc
        /\ \A t \in Writers : pc[t] \in WriterPc
    BY DEF Init, ReaderPc, WriterPc, Threads
  <2>4. line \in [{"in", "out"} -> LineState] /\ m_connected \in BOOLEAN
    BY DEF Init, LineState
  <2> QED BY <1>1, <2>1, <2>2, <2>3, <2>4 DEF Init, TypeOK
<1>5. QueueInv
  BY DEF Init, QueueInv, NoStrandedReader, Threads, Locked, ReadLocked, WriteLocked
<1> QED BY <1>4, <1>5 DEF Inv

-------------------------------------------------------------------------------
\* Safety theorems.

(***************************************************************************)
(* Every variable of the queue keeps its type: in particular the ring's     *)
(* pointers stay inside the array, whatever the threads do.                 *)
(***************************************************************************)
THEOREM QueueTypeCorrect == Spec => []TypeOK
  BY InitInv, StepInv, PTL DEF Spec, Inv

(***************************************************************************)
(* The mutex protects what it is meant to: mutual exclusion of the critical *)
(* sections, and the tests of the ring made inside one are still true when  *)
(* the thread goes to sleep or returns an error (inproc.cpp:132-187).       *)
(***************************************************************************)
THEOREM CriticalSectionsAreSound == Spec => []QueueInv
  BY InitInv, StepInv, PTL DEF Spec, Inv

(***************************************************************************)
(* No reader is ever left asleep with data in the ring, for any number of   *)
(* readers and writers (inproc.cpp:185 against :140 and :156).              *)
(***************************************************************************)
THEOREM ReadersAreNotStranded == Spec => []NoStrandedReader
<1>1. QueueInv => NoStrandedReader BY DEF QueueInv
<1> QED BY <1>1, CriticalSectionsAreSound, PTL

-------------------------------------------------------------------------------
\* One reading thread.

(***************************************************************************)
(* write leaves a ring that is not empty not empty.                         *)
(***************************************************************************)
LEMMA PutDataKeepsData ==
  ASSUME TypeOK, NEW t \in Writers, PutData(t), ~IsEmpty
  PROVE  ~IsEmpty'
<1>1. m_buffer \in RingType /\ buffer[t] \in Seq(Byte)
  BY BuffersAreSequences DEF TypeOK
<1> DEFINE res == RingWrite(m_buffer, buffer[t])
           m   == Least(Len(buffer[t]), AvailableWriteSize(m_buffer))
           c   == Contents(m_buffer)
<1>2. /\ res.ring \in RingType /\ Contents(res.ring) = c \o SubSeq(buffer[t], 1, m)
  BY <1>1, RingWriteFacts
<1>3. /\ AvailableWriteSize(m_buffer) \in Nat /\ Len(buffer[t]) \in Nat
      /\ c \in Seq(Byte) /\ Len(c) = AvailableReadSize(m_buffer)
      /\ AvailableReadSize(m_buffer) \in Nat
  BY <1>1, ContentsFacts, RingAssumption
<1>4. m \in 0..Len(buffer[t]) /\ 0 + 1 = 1 /\ m - 0 = m
  BY <1>3 DEF Least
<1> HIDE DEF m, c, res
<1>5. SubSeq(buffer[t], 0 + 1, m) \in Seq(Byte) /\ Len(SubSeq(buffer[t], 0 + 1, m)) = m - 0
  BY <1>1, <1>4, 0 \in Nat, SubSeqFacts
<1>6. Len(Contents(res.ring)) = Len(c) + m
  <2> DEFINE d == SubSeq(buffer[t], 1, m)
  <2>1. d \in Seq(Byte) /\ Len(d) = m BY <1>4, <1>5
  <2> HIDE DEF d
  <2>2. Len(c \o d) = Len(c) + Len(d) BY <2>1, <1>3, ConcatProperties
  <2> QED BY <2>1, <2>2, <1>2 DEF d
<1>7. AvailableReadSize(res.ring) = Len(c) + m
  BY <1>2, <1>6, ContentsFacts
<1>8. m_buffer' = res.ring BY DEF PutData, res
<1> QED BY <1>3, <1>4, <1>7, <1>8 DEF IsEmpty

\* A reader inside its call has told the writers, and while the ring is empty
\* none of them can have gone to sleep since.
ReaderInv(r) ==
  pc[r] \notin {"idle", "read", "timed"} /\ IsEmpty => m_writeCondition = {}

(***************************************************************************)
(* When one thread reads the line, reader and writers are never asleep at   *)
(* the same time, for any number of writers and any capacity of at least    *)
(* one byte: the notify_all on entry to read (inproc.cpp:135, :151) is      *)
(* enough to exclude this deadlock.                                         *)
(***************************************************************************)
THEOREM OneReaderNoMutualSleep ==
  ASSUME NEW r, Readers = {r}, Size > 1
  PROVE  Spec => []NoMutualSleep
<1>1. Init => ReaderInv(r)
  BY DEF Init, ReaderInv
<1>2. Inv /\ ReaderInv(r) /\ [Next]_vars => ReaderInv(r)'
  <2> SUFFICES ASSUME Inv, ReaderInv(r), [Next]_vars,
                      pc'[r] \notin {"idle", "read", "timed"}, IsEmpty'
               PROVE  m_writeCondition' = {}
    BY DEF ReaderInv
  <2>0. /\ TypeOK /\ QueueInv /\ r \in Threads /\ r \notin Writers
        /\ pc \in [Threads -> ReaderPc \cup WriterPc] /\ m_buffer \in RingType
    BY QueueAssumption DEF Inv, TypeOK, Threads
  <2>1. IsEmpty => ~IsFull
    BY <2>0, EmptyIsNotFull
  <2>2. ASSUME UNCHANGED <<m_buffer, pc>>, m_writeCondition' \subseteq m_writeCondition
        PROVE  m_writeCondition' = {}
    BY <2>2 DEF ReaderInv, IsEmpty
  <2>3. CASE Connect BY <2>3, <2>2 DEF Connect, callVars
  <2>4. ASSUME NEW n \in 0..MaxLen, CallRead(r, n) PROVE FALSE
    BY <2>4, <2>0 DEF CallRead
  <2>5. ASSUME NEW t \in Writers, NEW buf \in Buffers, CallWrite(t, buf)
        PROVE  m_writeCondition' = {}
    BY <2>5, <2>0 DEF CallWrite, queueVars, ReaderInv, IsEmpty
  <2>6. ASSUME TakeData(r) PROVE FALSE
    BY <2>6, <2>0, TakeDataType
  <2>7. CASE ReadLock(r) BY <2>7 DEF ReadLock
  <2>8. ASSUME pc[r] \notin {"idle", "read", "timed"}, m_buffer' = m_buffer,
               m_writeCondition' = m_writeCondition
        PROVE  m_writeCondition' = {}
    BY <2>8 DEF ReaderInv, IsEmpty
  <2>9. CASE ReadCheck(r)
    BY <2>9, <2>8, <2>0 DEF ReadCheck, Fail, Return, Goto, queueVars
  <2>10. CASE ReadWait(r) BY <2>10, <2>8 DEF ReadWait
  <2>11. CASE ReadWake(r)
    BY <2>11, <2>6, <2>8 DEF ReadWake, KeepLock
  <2>12. CASE ReadRecheck(r)
    BY <2>12, <2>8, <2>0 DEF ReadRecheck, Fail, Return, Goto, queueVars
  <2>13. CASE TimedWake(r) BY <2>13, <2>6, <2>8 DEF TimedWake
  <2>14. CASE TimedExpire(r) BY <2>14, <2>8 DEF TimedExpire
  <2>15. CASE TimedReturn(r) BY <2>15, <2>6, <2>8 DEF TimedReturn, KeepLock
  <2>16. CASE TimedFinal(r)
    BY <2>16, <2>8 DEF TimedFinal, Fail
  <2>17. ASSUME NEW t \in Writers, PutData(t), m_writeCondition' = m_writeCondition
         PROVE  m_writeCondition' = {}
    <3>1. IsEmpty BY <2>0, <2>17, PutDataKeepsData
    <3>2. pc'[r] = pc[r] BY <2>0, <2>17, PutDataType
    <3> QED BY <3>1, <3>2, <2>17 DEF ReaderInv
  <2>18. ASSUME NEW t \in Writers, NEW label, pc' = [pc EXCEPT ![t] = label],
                m_buffer' = m_buffer, m_writeCondition' = m_writeCondition
         PROVE  m_writeCondition' = {}
    BY <2>18, <2>0 DEF ReaderInv, IsEmpty
  <2>19. ASSUME NEW t \in Writers, WriteLock(t) PROVE m_writeCondition' = {}
    BY <2>19, <2>17, <2>18 DEF WriteLock, Fail, Return, KeepLock, Goto
  <2>20. ASSUME NEW t \in Writers, WriteCheck(t) PROVE m_writeCondition' = {}
    BY <2>20, <2>18 DEF WriteCheck, Fail, Return, Goto, queueVars
  <2>21. ASSUME NEW t \in Writers, WriteWait(t) PROVE FALSE
    <3>1. IsFull BY <2>0, <2>21 DEF WriteWait, QueueInv, WriteLocked
    <3>2. IsEmpty BY <2>21 DEF WriteWait, IsEmpty
    <3> QED BY <3>1, <3>2, <2>1
  <2>22. ASSUME NEW t \in Writers, WriteWake(t) PROVE m_writeCondition' = {}
    <3>1. CASE PutData(t) /\ UNCHANGED m_writeCondition BY <3>1, <2>17
    <3>2. ASSUME IsFull, m_buffer' = m_buffer PROVE FALSE
      BY <3>2, <2>1 DEF IsEmpty
    <3> QED BY <2>22, <3>1, <3>2 DEF WriteWake
  <2>23. ASSUME NEW t \in Threads, SpuriousWake(t) PROVE m_writeCondition' = {}
    BY <2>23, <2>2 DEF SpuriousWake, callVars
  <2>24. ASSUME NEW e \in {"in", "out"}, Destroy(e) \/ HangUp(e) PROVE m_writeCondition' = {}
    BY <2>24, <2>2 DEF Destroy, HangUp, ClearFlag, NotifyRead, NotifyWrite, callVars, queueVars
  <2>25. CASE UNCHANGED vars BY <2>25, <2>2 DEF vars, queueVars, callVars
  <2>26. ASSUME NEW t \in Threads, Acquire(t) \/ Proceed(t) PROVE m_writeCondition' = {}
    BY <2>26, <2>7, <2>9, <2>10, <2>11, <2>12, <2>13, <2>14, <2>15, <2>16, <2>19, <2>20,
       <2>21, <2>22
    DEF Acquire, Proceed
  <2> QED BY <2>3, <2>4, <2>5, <2>23, <2>24, <2>25, <2>26 DEF Next
<1>3. Inv /\ ReaderInv(r) => NoMutualSleep
  <2> SUFFICES ASSUME Inv, ReaderInv(r), m_readCondition # {} PROVE m_writeCondition = {}
    BY DEF NoMutualSleep
  <2>1. r \in m_readCondition /\ IsEmpty
    BY DEF Inv, TypeOK, QueueInv, NoStrandedReader
  <2>2. pc[r] \in {"readBlocked", "timedBlocked"}
    BY <2>1 DEF Inv, QueueInv
  <2> QED BY <2>1, <2>2 DEF ReaderInv
<1> QED BY <1>1, <1>2, <1>3, InitInv, StepInv, PTL DEF Spec
-------------------------------------------------------------------------------
\* The queue implements the byte stream.

\* Where a writer is past the test of buflen.
Fitting(label) == label \in WriteLocked \cup {"writeBlocked"}

\* A result is pending exactly while its call runs; nobody calls before the queue
\* is handed to both lines, which happens in one step; a buffer that is too big
\* does not get past the test.
CallInv ==
  /\ \A t \in Threads : result[t] = Pending <=> pc[t] # "idle"
  /\ line["in"] = "new" <=> line["out"] = "new"
  /\ line["in"] = "new" => \A t \in Threads : pc[t] = "idle"
  /\ \A t \in Writers : Fitting(pc[t]) => Len(buffer[t]) < Size

\* What a step of the queue has to be for the theorem.
Refines == CallInv' /\ (Stream!Next \/ UNCHANGED Stream!vars)

(***************************************************************************)
(* A step inside a call, or of a sleeping thread, is none of the stream.    *)
(***************************************************************************)
LEMMA InsideRefines ==
  ASSUME TypeOK, CallInv, UNCHANGED <<m_buffer, m_connected, line, buflen, buffer, result>>,
         \A u \in Threads : pc'[u] = "idle" <=> pc[u] = "idle",
         \A u \in Writers : Fitting(pc'[u]) => Fitting(pc[u]) \/ Len(buffer[u]) < Size
  PROVE  Refines
<1>1. CallInv' BY DEF CallInv
<1>2. UNCHANGED Stream!vars BY DEF Stream!vars
<1> QED BY <1>1, <1>2 DEF Refines

(***************************************************************************)
(* One thread goes on inside its call.                                      *)
(***************************************************************************)
LEMMA GotoRefines ==
  ASSUME TypeOK, CallInv, UNCHANGED <<m_buffer, m_connected, line>>,
         NEW t \in Threads, NEW label, pc[t] # "idle", label # "idle", Goto(t, label),
         t \in Writers /\ Fitting(label) => Len(buffer[t]) < Size
  PROVE  Refines
<1>1. pc' = [pc EXCEPT ![t] = label] /\ UNCHANGED <<buflen, buffer, result>>
  BY DEF Goto
<1>2. \A u \in Threads : pc'[u] = "idle" <=> pc[u] = "idle"
  BY <1>1 DEF TypeOK
<1>3. \A u \in Writers : Fitting(pc'[u]) => Fitting(pc[u]) \/ Len(buffer[u]) < Size
  BY <1>1 DEF TypeOK
<1> QED BY <1>1, <1>2, <1>3, InsideRefines

(***************************************************************************)
(* The end of a call: the invariant, and the caller's side of the stream.   *)
(***************************************************************************)
LEMMA ReturnRefines ==
  ASSUME TypeOK, CallInv, line' = line,
         NEW t \in Threads, NEW code, NEW bytes, code # "pending", pc[t] # "idle",
         Return(t, code, bytes)
  PROVE  CallInv' /\ Stream!Return(t, code, bytes)
<1>1. /\ pc' = [pc EXCEPT ![t] = "idle"] /\ pc'[t] = "idle"
      /\ \A u \in Threads \ {t} : pc'[u] = pc[u]
  BY DEF Return, TypeOK
<1>2. /\ result' = [result EXCEPT ![t] = [code |-> code, bytes |-> bytes]]
      /\ result'[t] = [code |-> code, bytes |-> bytes]
      /\ \A u \in Threads \ {t} : result'[u] = result[u]
  BY DEF Return, TypeOK
<1>3. result[t] = Pending BY DEF CallInv
<1>4. result'[t] # Pending
  <2>1. result'[t].code = code /\ Pending.code = "pending" BY <1>2 DEF Pending
  <2> QED BY <2>1
<1>5. CallInv'
  <2>1. \A u \in Threads : result'[u] = Pending <=> pc'[u] # "idle"
    BY <1>1, <1>2, <1>4 DEF CallInv
  <2>2. \A u \in Writers : Fitting(pc'[u]) => u # t
    BY <1>1 DEF Fitting, WriteLocked
  <2>3. \A u \in Writers \ {t} : buffer'[u] = buffer[u]
    BY DEF Return
  <2>4. \A u \in Writers : Fitting(pc'[u]) => Len(buffer'[u]) < Size
    BY <1>1, <2>2, <2>3 DEF CallInv, Threads
  <2> QED BY <1>1, <2>1, <2>4 DEF CallInv
<1>6. /\ t \in Readers => buflen' = [buflen EXCEPT ![t] = 0] /\ buffer' = buffer
      /\ t \notin Readers => buffer' = [buffer EXCEPT ![t] = <<>>] /\ buflen' = buflen
  BY QueueAssumption DEF Return, TypeOK, Threads
<1>7. Stream!Return(t, code, bytes)
  BY <1>2, <1>3, <1>6 DEF Stream!Return, Stream!Pending, Pending
<1> QED BY <1>5, <1>7

(***************************************************************************)
(* What the stream's view of the ring says.                                 *)
(***************************************************************************)
LEMMA StreamFacts ==
  ASSUME TypeOK
  PROVE  /\ Contents(m_buffer) \in Seq(Byte)
         /\ Len(Contents(m_buffer)) \in Nat /\ Size - 1 \in Nat
         /\ Len(Contents(m_buffer)) = AvailableReadSize(m_buffer)
         /\ AvailableWriteSize(m_buffer) = (Size - 1) - Len(Contents(m_buffer))
         /\ IsEmpty <=> Contents(m_buffer) = <<>>
         /\ IsFull <=> Len(Contents(m_buffer)) = Size - 1
<1>1. /\ m_buffer \in RingType /\ Size \in Nat \ {0}
  BY RingAssumption DEF TypeOK
<1>2. /\ Contents(m_buffer) \in Seq(Byte)
      /\ Len(Contents(m_buffer)) = AvailableReadSize(m_buffer)
      /\ AvailableReadSize(m_buffer) \in 0..(Size - 1)
      /\ AvailableWriteSize(m_buffer) = Size - 1 - AvailableReadSize(m_buffer)
  BY <1>1, ContentsFacts
<1>3. Contents(m_buffer) = <<>> <=> Len(Contents(m_buffer)) = 0
  BY <1>2, EmptySeq
<1> QED BY <1>1, <1>2, <1>3 DEF IsEmpty, IsFull

(***************************************************************************)
(* A read that takes bytes from the ring delivers them from the stream.     *)
(***************************************************************************)
LEMMA TakeDataRefines ==
  ASSUME TypeOK, CallInv, UNCHANGED <<m_connected, line>>,
         NEW t \in Readers, pc[t] # "idle", TakeData(t)
  PROVE  Refines
<1> DEFINE c == Contents(m_buffer)
           res == RingRead(m_buffer, buflen[t])
           m == Least(buflen[t], AvailableReadSize(m_buffer))
<1>1. m_buffer \in RingType /\ buflen[t] \in Nat /\ t \in Threads
  BY QueueAssumption DEF TypeOK, Threads
<1>2. res.bytes = SubSeq(c, 1, m) /\ Contents(res.ring) = SubSeq(c, m + 1, Len(c))
  BY <1>1, RingReadFacts
<1>3. m = Stream!Shorter(buflen[t], Len(c))
  BY StreamFacts DEF Least, Stream!Shorter
<1>4. ~IsEmpty /\ m_buffer' = res.ring /\ Return(t, "ok", res.bytes)
  BY DEF TakeData
<1> HIDE DEF m, res
<1>5. CallInv' /\ Stream!Return(t, "ok", SubSeq(c, 1, m))
  BY <1>1, <1>2, <1>4, ReturnRefines
<1>6. c # <<>> BY <1>4, StreamFacts
<1>7. Contents(m_buffer)' = SubSeq(c, m + 1, Len(c))
  BY <1>2, <1>4
<1>8. Stream!Deliver(t)
  BY <1>3, <1>5, <1>6, <1>7 DEF Stream!Deliver
<1> QED BY <1>5, <1>8 DEF Refines, Stream!Next

(***************************************************************************)
(* A write that puts bytes into the ring has them accepted by the stream.   *)
(***************************************************************************)
LEMMA PutDataRefines ==
  ASSUME TypeOK, CallInv, UNCHANGED <<m_connected, line>>,
         NEW t \in Writers, pc[t] # "idle", Len(buffer[t]) < Size, PutData(t)
  PROVE  Refines
<1> DEFINE c == Contents(m_buffer)
           res == RingWrite(m_buffer, buffer[t])
           m == Least(Len(buffer[t]), AvailableWriteSize(m_buffer))
<1>1. m_buffer \in RingType /\ buffer[t] \in Seq(Byte) /\ Len(buffer[t]) \in Nat /\ t \in Threads
  BY BuffersAreSequences DEF TypeOK, Threads
<1>2. res.count = m /\ Contents(res.ring) = c \o SubSeq(buffer[t], 1, m)
  BY <1>1, RingWriteFacts
<1>3. m = Stream!Shorter(Len(buffer[t]), (Size - 1) - Len(c))
  BY StreamFacts DEF Least, Stream!Shorter
<1>4. ~IsFull /\ m_buffer' = res.ring /\ Return(t, "ok", SubSeq(buffer[t], 1, res.count))
  BY DEF PutData
<1> HIDE DEF m, res
<1>5. CallInv' /\ Stream!Return(t, "ok", SubSeq(buffer[t], 1, m))
  BY <1>1, <1>2, <1>4, ReturnRefines
<1>6. Len(c) < Size - 1 /\ Len(buffer[t]) <= Size - 1
  <2>1. Len(c) \in 0..(Size - 1) BY <1>1, ContentsFacts
  <2>2. Len(c) # Size - 1 BY <1>4, StreamFacts
  <2>3. Size \in Nat BY RingAssumption
  <2> HIDE DEF c
  <2> QED BY <1>1, <2>1, <2>2, <2>3
<1>7. Contents(m_buffer)' = c \o SubSeq(buffer[t], 1, m)
  BY <1>2, <1>4
<1>8. Stream!Accept(t)
  BY <1>3, <1>5, <1>6, <1>7 DEF Stream!Accept
<1> QED BY <1>5, <1>8 DEF Refines, Stream!Next

(***************************************************************************)
(* A read that fails found the stream empty, and reports a lost connection  *)
(* only when it is down.                                                    *)
(***************************************************************************)
LEMMA ReadFailRefines ==
  ASSUME TypeOK, CallInv, NEW t \in Readers, pc[t] # "idle", IsEmpty,
         NEW code \in {"eTimeout", "eConnectionLost"}, Fail(t, code),
         code = "eConnectionLost" => ~m_connected
  PROVE  Refines
<1>1. /\ UNCHANGED <<m_buffer, m_connected, line>> /\ Return(t, code, <<>>)
      /\ t \in Threads /\ code # "pending"
  BY DEF Fail, Threads
<1>2. CallInv' /\ Stream!Return(t, code, <<>>)
  BY <1>1, ReturnRefines
<1>3. Contents(m_buffer) = <<>> /\ Contents(m_buffer)' = Contents(m_buffer)
  BY <1>1, StreamFacts
<1>4. line["in"] # "new" BY <1>1 DEF CallInv
<1>5. CASE code = "eTimeout"
  <2>1. Stream!Expire(t) BY <1>1, <1>2, <1>3, <1>5 DEF Stream!Expire
  <2> QED BY <1>2, <2>1 DEF Refines, Stream!Next
<1>6. CASE code = "eConnectionLost"
  <2>1. Stream!ReadLost(t) BY <1>1, <1>2, <1>3, <1>4, <1>6 DEF Stream!ReadLost
  <2> QED BY <1>2, <2>1 DEF Refines, Stream!Next
<1> QED BY <1>5, <1>6

(***************************************************************************)
(* A write that fails had a buffer too long, or found nothing would fit and *)
(* the connection down.                                                     *)
(***************************************************************************)
LEMMA WriteFailRefines ==
  ASSUME TypeOK, CallInv, NEW t \in Writers, pc[t] # "idle",
         NEW code \in {"eTooBigBuffer", "eConnectionLost"}, Fail(t, code),
         code = "eTooBigBuffer" => Len(buffer[t]) >= Size,
         code = "eConnectionLost" => ~m_connected /\ IsFull
  PROVE  Refines
<1>1. /\ UNCHANGED <<m_buffer, m_connected, line>> /\ Return(t, code, <<>>)
      /\ t \in Threads /\ code # "pending"
  BY DEF Fail, Threads
<1>2. CallInv' /\ Stream!Return(t, code, <<>>)
  BY <1>1, ReturnRefines
<1>3. Contents(m_buffer)' = Contents(m_buffer) BY <1>1
<1>4. line["in"] # "new" BY <1>1 DEF CallInv
<1>5. CASE code = "eTooBigBuffer"
  <2>1. Len(buffer[t]) > Size - 1
    <3>1. Len(buffer[t]) \in Nat BY BuffersAreSequences DEF TypeOK
    <3> QED BY <3>1, <1>5, RingAssumption
  <2>2. Stream!Refuse(t) BY <1>1, <1>2, <1>3, <1>5, <2>1 DEF Stream!Refuse
  <2> QED BY <1>2, <2>2 DEF Refines, Stream!Next
<1>6. CASE code = "eConnectionLost"
  <2>1. Len(Contents(m_buffer)) = Size - 1 BY <1>6, StreamFacts
  <2>2. Stream!WriteLost(t) BY <1>1, <1>2, <1>3, <1>4, <1>6, <2>1 DEF Stream!WriteLost
  <2> QED BY <1>2, <2>2 DEF Refines, Stream!Next
<1> QED BY <1>5, <1>6

(***************************************************************************)
(* Every step of the queue is a step of the stream, or none.                *)
(***************************************************************************)
LEMMA StepRefines == Inv /\ CallInv /\ [Next]_vars => Refines
<1> SUFFICES ASSUME Inv, CallInv, [Next]_vars PROVE Refines
  OBVIOUS
<1>0. /\ TypeOK /\ pc \in [Threads -> ReaderPc \cup WriterPc] /\ Readers \subseteq Threads
      /\ Writers \subseteq Threads /\ Readers \cap Writers = {}
      /\ \A t \in Readers : pc[t] \in ReadLocked => IsEmpty
      /\ \A t \in Writers : pc[t] \in WriteLocked => IsFull
  BY QueueAssumption DEF Inv, TypeOK, QueueInv, Threads
<1>1. ASSUME UNCHANGED <<m_buffer, m_connected, line, pc, buflen, buffer, result>> PROVE Refines
  BY <1>0, <1>1, InsideRefines
<1>2. CASE Connect
  <2>1. /\ line["in"] = "new" /\ m_connected' = TRUE
        /\ line'["in"] = "open" /\ line'["out"] = "open"
        /\ UNCHANGED <<m_buffer, pc, buflen, buffer, result>>
    BY <1>2 DEF Connect, callVars
  <2>2. CallInv' BY <2>1 DEF CallInv
  <2>3. Stream!Connect BY <2>1 DEF Stream!Connect
  <2> QED BY <2>2, <2>3 DEF Refines, Stream!Next
<1>3. ASSUME NEW t \in Readers, NEW n \in 0..MaxLen, CallRead(t, n) PROVE Refines
  <2>1. PICK method \in {"read", "timed"} : pc' = [pc EXCEPT ![t] = method]
    BY <1>3 DEF CallRead
  <2>2. /\ line["in"] = "open" /\ pc[t] = "idle"
        /\ buflen' = [buflen EXCEPT ![t] = n] /\ result' = [result EXCEPT ![t] = Pending]
        /\ UNCHANGED <<m_buffer, m_connected, line, buffer>>
    BY <1>3 DEF CallRead, queueVars
  <2>3. /\ pc'[t] # "idle" /\ \A u \in Threads \ {t} : pc'[u] = pc[u]
        /\ result'[t] = Pending /\ \A u \in Threads \ {t} : result'[u] = result[u]
    BY <1>0, <2>1, <2>2 DEF TypeOK
  <2>4. CallInv' BY <1>0, <2>2, <2>3 DEF CallInv
  <2>5. result[t] # Pending BY <1>0, <2>2 DEF CallInv
  <2>6. Stream!CallRead(t, n)
    BY <2>2, <2>5 DEF Stream!CallRead, Stream!Pending, Pending
  <2> QED BY <2>4, <2>6 DEF Refines, Stream!Next
<1>4. ASSUME NEW t \in Writers, NEW buf \in Buffers, CallWrite(t, buf) PROVE Refines
  <2>1. /\ line["out"] = "open" /\ pc[t] = "idle" /\ pc' = [pc EXCEPT ![t] = "write"]
        /\ buffer' = [buffer EXCEPT ![t] = buf] /\ result' = [result EXCEPT ![t] = Pending]
        /\ UNCHANGED <<m_buffer, m_connected, line, buflen>>
    BY <1>4 DEF CallWrite, queueVars
  <2>2. /\ pc'[t] = "write" /\ \A u \in Threads \ {t} : pc'[u] = pc[u]
        /\ result'[t] = Pending /\ \A u \in Threads \ {t} : result'[u] = result[u]
        /\ \A u \in Writers \ {t} : buffer'[u] = buffer[u]
    BY <1>0, <2>1 DEF TypeOK
  <2>3. line["in"] # "new" BY <2>1 DEF CallInv
  <2>4. ~Fitting(pc'[t]) BY <2>2 DEF Fitting, WriteLocked
  <2>5. CallInv' BY <1>0, <2>1, <2>2, <2>3, <2>4 DEF CallInv
  <2>6. result[t] # Pending BY <1>0, <2>1 DEF CallInv
  <2>7. Stream!CallWrite(t, buf)
    BY <2>1, <2>6 DEF Stream!CallWrite, Stream!Pending, Pending
  <2> QED BY <2>5, <2>7 DEF Refines, Stream!Next, Stream!Buffers, Buffers
<1>5. ASSUME NEW t \in Readers, NEW label, pc[t] # "idle", label # "idle", Goto(t, label),
             UNCHANGED <<m_buffer, m_connected, line>>
      PROVE  Refines
  BY <1>0, <1>5, GotoRefines
<1>6. ASSUME NEW t \in Readers, ReadLock(t) PROVE Refines
  <2>1. pc[t] # "idle" /\ UNCHANGED <<m_connected, line>> BY <1>6 DEF ReadLock
  <2>2. CASE TakeData(t) BY <1>0, <2>1, <2>2, TakeDataRefines
  <2>3. ASSUME NEW label \in {"readCheck", "timedCheck"}, KeepLock(t, label) PROVE Refines
    BY <1>5, <2>1, <2>3 DEF KeepLock
  <2> QED BY <1>6, <2>2, <2>3 DEF ReadLock
<1>7. ASSUME NEW t \in Readers, ReadCheck(t) PROVE Refines
  <2>1. pc[t] \in ReadLocked /\ pc[t] # "idle" BY <1>7 DEF ReadCheck, ReadLocked
  <2>2. CASE ~m_connected /\ Fail(t, "eConnectionLost")
    BY <1>0, <2>1, <2>2, ReadFailRefines
  <2>3. ASSUME NEW label \in {"readWait", "timedWait"}, Goto(t, label), UNCHANGED <<queueVars, line>>
        PROVE  Refines
    BY <1>5, <2>1, <2>3 DEF queueVars
  <2> QED BY <1>7, <2>2, <2>3 DEF ReadCheck
<1>8. ASSUME NEW t \in Readers, ReadWait(t) PROVE Refines
  <2>1. ASSUME NEW label \in {"readBlocked", "timedBlocked"}, Goto(t, label) PROVE Refines
    BY <1>5, <1>8, <2>1 DEF ReadWait
  <2> QED BY <1>8, <2>1 DEF ReadWait
<1>9. ASSUME NEW t \in Readers, ReadWake(t) PROVE Refines
  <2>1. pc[t] # "idle" /\ UNCHANGED <<m_connected, line>> BY <1>9 DEF ReadWake
  <2>2. CASE TakeData(t) BY <1>0, <2>1, <2>2, TakeDataRefines
  <2>3. CASE KeepLock(t, "readRecheck") BY <1>5, <2>1, <2>3 DEF KeepLock
  <2> QED BY <1>9, <2>2, <2>3 DEF ReadWake
<1>10. ASSUME NEW t \in Readers, ReadRecheck(t) PROVE Refines
  <2>1. pc[t] \in ReadLocked /\ pc[t] # "idle" BY <1>10 DEF ReadRecheck, ReadLocked
  <2>2. CASE ~m_connected /\ Fail(t, "eConnectionLost")
    BY <1>0, <2>1, <2>2, ReadFailRefines
  <2>3. CASE Goto(t, "readCheck") /\ UNCHANGED <<queueVars, line>>
    BY <1>5, <2>1, <2>3 DEF queueVars
  <2> QED BY <1>10, <2>2, <2>3 DEF ReadRecheck
<1>11. ASSUME NEW t \in Readers, TimedWake(t) PROVE Refines
  <2>1. pc[t] # "idle" /\ UNCHANGED <<m_connected, line>> BY <1>11 DEF TimedWake
  <2>2. CASE TakeData(t) BY <1>0, <2>1, <2>2, TakeDataRefines
  <2>3. CASE UNCHANGED <<m_buffer, m_mutex, callVars>> BY <1>1, <2>1, <2>3 DEF callVars
  <2> QED BY <1>11, <2>2, <2>3 DEF TimedWake
<1>12. ASSUME NEW t \in Readers, TimedExpire(t) PROVE Refines
  BY <1>5, <1>12 DEF TimedExpire
<1>13. ASSUME NEW t \in Readers, TimedReturn(t) PROVE Refines
  <2>1. pc[t] # "idle" /\ UNCHANGED <<m_connected, line>> BY <1>13 DEF TimedReturn
  <2>2. CASE TakeData(t) BY <1>0, <2>1, <2>2, TakeDataRefines
  <2>3. CASE KeepLock(t, "timedFinal") BY <1>5, <2>1, <2>3 DEF KeepLock
  <2> QED BY <1>13, <2>2, <2>3 DEF TimedReturn
<1>14. ASSUME NEW t \in Readers, TimedFinal(t) PROVE Refines
  <2>1. pc[t] \in ReadLocked /\ pc[t] # "idle" BY <1>14 DEF TimedFinal, ReadLocked
  <2>2. CASE m_connected
    <3>1. Fail(t, "eTimeout") BY <1>14, <2>2 DEF TimedFinal
    <3> QED BY <1>0, <2>1, <3>1, ReadFailRefines
  <2>3. CASE ~m_connected
    <3>1. Fail(t, "eConnectionLost") BY <1>14, <2>3 DEF TimedFinal
    <3> QED BY <1>0, <2>1, <2>3, <3>1, ReadFailRefines
  <2> QED BY <2>2, <2>3
<1>15. ASSUME NEW t \in Writers, WriteLock(t) PROVE Refines
  <2>1. pc[t] # "idle" BY <1>15 DEF WriteLock
  <2>2. CASE Len(buffer[t]) >= Size /\ Fail(t, "eTooBigBuffer")
    BY <1>0, <2>1, <2>2, WriteFailRefines
  <2>3. CASE /\ Len(buffer[t]) < Size /\ PutData(t) /\ UNCHANGED <<m_connected, line>>
    BY <1>0, <2>1, <2>3, PutDataRefines
  <2>4. CASE /\ Len(buffer[t]) < Size /\ KeepLock(t, "writeCheck") /\ UNCHANGED <<m_connected, line>>
    BY <1>0, <2>1, <2>4, GotoRefines DEF KeepLock
  <2> QED BY <1>15, <2>2, <2>3, <2>4 DEF WriteLock
<1>16. ASSUME NEW t \in Writers, Fitting(pc[t]) PROVE pc[t] # "idle" /\ Len(buffer[t]) < Size
  BY <1>16 DEF Fitting, WriteLocked, CallInv
<1>17. ASSUME NEW t \in Writers, WriteCheck(t) PROVE Refines
  <2>1. pc[t] \in WriteLocked /\ Fitting(pc[t]) BY <1>17 DEF WriteCheck, WriteLocked, Fitting
  <2>2. CASE ~m_connected /\ Fail(t, "eConnectionLost")
    BY <1>0, <1>16, <2>1, <2>2, WriteFailRefines
  <2>3. CASE Goto(t, "writeWait") /\ UNCHANGED <<queueVars, line>>
    BY <1>0, <1>16, <2>1, <2>3, GotoRefines DEF queueVars
  <2> QED BY <1>17, <2>2, <2>3 DEF WriteCheck
<1>18. ASSUME NEW t \in Writers, WriteWait(t) PROVE Refines
  <2>1. Fitting(pc[t]) BY <1>18 DEF WriteWait, WriteLocked, Fitting
  <2>2. Goto(t, "writeBlocked") /\ UNCHANGED <<m_buffer, m_connected, line>> BY <1>18 DEF WriteWait
  <2> QED BY <1>0, <1>16, <2>1, <2>2, GotoRefines
<1>19. ASSUME NEW t \in Writers, WriteWake(t) PROVE Refines
  <2>1. Fitting(pc[t]) /\ UNCHANGED <<m_connected, line>> BY <1>19 DEF WriteWake, Fitting
  <2>2. CASE PutData(t) BY <1>0, <1>16, <2>1, <2>2, PutDataRefines
  <2>3. CASE UNCHANGED <<m_buffer, m_mutex, m_readCondition, callVars>>
    BY <1>1, <2>1, <2>3 DEF callVars
  <2> QED BY <1>19, <2>2, <2>3 DEF WriteWake
<1>20. ASSUME NEW t \in Threads, SpuriousWake(t) PROVE Refines
  BY <1>1, <1>20 DEF SpuriousWake, callVars
<1>21. ASSUME NEW e \in {"in", "out"}, line[e] # "new",
              UNCHANGED <<m_buffer, pc, buflen, buffer, result>>,
              NEW state, state # "new", line' = [line EXCEPT ![e] = state],
              m_connected' = m_connected \/ m_connected' = FALSE
       PROVE  Refines
  <2>1. line["in"] # "new" /\ line["out"] # "new" BY <1>21 DEF CallInv
  <2>2. line'["in"] # "new" /\ line'["out"] # "new" BY <1>0, <1>21, <2>1 DEF TypeOK
  <2>3. CallInv' BY <1>21, <2>2 DEF CallInv
  <2>4. CASE m_connected' = m_connected
    <3>1. UNCHANGED Stream!vars BY <1>21, <2>1, <2>2, <2>4 DEF Stream!vars
    <3> QED BY <2>3, <3>1 DEF Refines
  <2>5. CASE m_connected /\ ~m_connected'
    <3>1. Stream!HangUp BY <1>21, <2>1, <2>2, <2>5 DEF Stream!HangUp
    <3> QED BY <2>3, <3>1 DEF Refines, Stream!Next
  <2>6. m_connected \in BOOLEAN BY <1>0 DEF TypeOK
  <2> QED BY <1>21, <2>4, <2>5, <2>6
<1>22. ASSUME NEW e \in {"in", "out"}, Destroy(e) \/ HangUp(e) PROVE Refines
  <2>1. CASE Destroy(e)
    <3>1. /\ line[e] # "new" /\ m_connected' = m_connected
          /\ UNCHANGED <<m_buffer, pc, buflen, buffer, result>>
          /\ line' = [line EXCEPT ![e] = IF m_connected THEN "clearFlag" ELSE "closed"]
      BY <2>1 DEF Destroy, queueVars, callVars
    <3> QED BY <3>1, <1>21
  <2>2. CASE ClearFlag(e) BY <2>2, <1>21 DEF ClearFlag, callVars
  <2>3. CASE NotifyRead(e) BY <2>3, <1>21 DEF NotifyRead, callVars
  <2>4. CASE NotifyWrite(e) BY <2>4, <1>21 DEF NotifyWrite, callVars
  <2> QED BY <1>22, <2>1, <2>2, <2>3, <2>4 DEF HangUp
<1>23. CASE UNCHANGED vars BY <1>1, <1>23 DEF vars, queueVars, callVars
<1>24. ASSUME NEW t \in Threads, Acquire(t) \/ Proceed(t) PROVE Refines
  BY <1>24, <1>6, <1>7, <1>8, <1>9, <1>10, <1>11, <1>12, <1>13, <1>14, <1>15, <1>17, <1>18, <1>19
  DEF Acquire, Proceed
<1> QED BY <1>2, <1>3, <1>4, <1>20, <1>22, <1>23, <1>24 DEF Next

(***************************************************************************)
(* The queue implements the bounded byte stream of Size - 1 bytes, for any  *)
(* number of readers and writers, every buffer size and every set of bytes: *)
(* no byte is lost, repeated or reordered, and no error is reported that    *)
(* the stream would not report (inproc.cpp:121-212).                        *)
(***************************************************************************)
THEOREM QueueImplementsByteStream == Spec => ImplementsByteStream
<1>1. Init => Stream!Init /\ CallInv
  <2> SUFFICES ASSUME Init PROVE Stream!Init /\ CallInv
    OBVIOUS
  <2>1. Stream!Init
    BY EmptyRingFacts DEF Init, Stream!Init, Threads
  <2>2. [code |-> "none", bytes |-> <<>>] # Pending
    BY DEF Pending
  <2>3. CallInv
    BY <2>2 DEF Init, CallInv, Fitting, WriteLocked, Threads
  <2> QED BY <2>1, <2>3
<1>2. Inv /\ CallInv /\ [Next]_vars => CallInv' /\ [Stream!Next]_(Stream!vars)
  BY StepRefines DEF Refines
<1> QED BY <1>1, <1>2, InitInv, StepInv, PTL DEF Spec, ImplementsByteStream, Stream!Spec

===============================================================================
