--------------------------- MODULE NamedPipesProofs ---------------------------
(***************************************************************************)
(* Theorems about NamedPipes: for any number of acceptors, server threads,  *)
(* clients and pipes, and any addresses.                                    *)
(***************************************************************************)
EXTENDS NamedPipes, BasicLemmas

-------------------------------------------------------------------------------
\* The inductive invariant.

PipeType == [mode : {"none", "message", "byte"}, name : Names \cup {<<>>},
             owner : Acceptors \cup {NULL},
             state : {"none", "listening", "connected", "closing", "disconnected"},
             client : Clients \cup {NULL}, data : Seq(Names)]
AcceptorType == [m_address : Addresses \cup {NULL}, m_pipe : Pipes \cup {NULL},
                 m_counter : 0..MaxCounter]
ThreadType == [at : {"idle", "connect", "flush", "accept", "line"}, wait : {"none", "asleep"},
               acceptor : Acceptors \cup {NULL}, name : Names \cup {<<>>},
               m_waitingPipe : Pipes \cup {NULL}]
ClientType == [at : {"idle", "opened", "told", "line"}, name : Names \cup {<<>>},
               pipe : Pipes \cup {NULL}]

InWait(t) == thread[t].at \in {"connect", "flush", "accept"}
Exists(s) == acceptor[s].m_pipe # NULL

Typed ==
  /\ pipe \in [Pipes -> PipeType]
  /\ acceptor \in [Acceptors -> AcceptorType]
  /\ thread \in [Threads -> ThreadType]
  /\ client \in [Clients -> ClientType]
  /\ dropped \subseteq Pipes
  /\ odd \subseteq {"crash", "clash"}
  /\ \A s \in Acceptors : /\ Exists(s) => acceptor[s].m_address \in Addresses
                          /\ ~Exists(s) => acceptor[s] = NoAcceptor
  /\ \A t \in Threads : /\ thread[t].at = "idle" => thread[t] = Idle
                        /\ thread[t].at # "idle" => thread[t].name \in Names
                        /\ thread[t].at = "line" => thread[t].m_waitingPipe \in Pipes
  /\ \A c \in Clients : /\ client[c].at \in {"opened", "line"} => client[c].pipe \in Pipes
                        /\ client[c].at = "idle" => client[c] = Outside

\* Data wait only in the pipe of an acceptor, for the client it is connected to.
PipeShape(p) ==
  /\ pipe[p].mode = "none" => pipe[p] = NoPipe
  /\ pipe[p].data # <<>> => pipe[p].mode = "message" /\ pipe[p].state = "connected"

\* Who holds which pipe.
Held ==
  /\ \A p \in Pipes : PipeShape(p)
  /\ \A s \in Acceptors : Exists(s) =>
       /\ pipe[acceptor[s].m_pipe].mode = "message"
       /\ pipe[acceptor[s].m_pipe].owner = s
       /\ pipe[acceptor[s].m_pipe].name = acceptor[s].m_address
  /\ \A t \in Threads : thread[t].m_waitingPipe # NULL =>
       /\ pipe[thread[t].m_waitingPipe].mode = "byte"
       /\ pipe[thread[t].m_waitingPipe].owner = thread[t].acceptor
       /\ pipe[thread[t].m_waitingPipe].name = thread[t].name
       /\ thread[t].m_waitingPipe \notin dropped
       /\ \A u \in Threads : thread[u].m_waitingPipe = thread[t].m_waitingPipe => u = t
  /\ \A p \in dropped : pipe[p].mode = "byte"
  /\ \A p \in Pipes : pipe[p].mode = "message" => \E s \in Acceptors : acceptor[s].m_pipe = p
  /\ \A p \in Pipes : pipe[p].mode = "byte" =>
       p \in dropped \/ \E t \in Threads : thread[t].m_waitingPipe = p

\* A call of waitConnection has its acceptor for itself.
Serving ==
  \A t \in Threads : InWait(t) =>
    /\ thread[t].acceptor \in Acceptors /\ Exists(thread[t].acceptor)
    /\ \A u \in Threads : InWait(u) /\ thread[u].acceptor = thread[t].acceptor => u = t

\* Pipes of one name are of one type, and a client that waits to be told a name
\* waits at the pipe of an acceptor.
Named ==
  /\ \A p, q \in Pipes : pipe[p].mode # "none" /\ pipe[q].mode # "none" /\ pipe[p].name = pipe[q].name
                           => pipe[p].mode = pipe[q].mode
  /\ \A c \in Clients : client[c].at = "opened" /\ pipe[client[c].pipe].client = c
                           => pipe[client[c].pipe].mode = "message"

\* A name is in the pipe of an acceptor, or the pipe is left by its client, only
\* while the acceptor waits for it to be read.
Flushing(s) == \E t \in Threads : thread[t].at = "flush" /\ thread[t].acceptor = s

Wedging ==
  \A s \in Acceptors : Exists(s) =>
    /\ pipe[acceptor[s].m_pipe].data # <<>> => Flushing(s)
    /\ pipe[acceptor[s].m_pipe].state = "closing" => "crash" \in odd \/ Flushing(s)

\* The client that was told the name of the pipe that t waits on.
IsTold(c, t) == client[c].at = "told" /\ client[c].name = thread[t].name

StateOf(t) == pipe[thread[t].m_waitingPipe].state

\* The course of a rendezvous when no client dies and no names clash.
Meeting(t) ==
  /\ InWait(t) => thread[t].m_waitingPipe # NULL
  /\ thread[t].at = "connect" => StateOf(t) = "listening"
  /\ thread[t].at = "flush" =>
       \/ /\ pipe[Rendezvous(t)].state = "connected" /\ pipe[Rendezvous(t)].data = <<thread[t].name>>
          /\ StateOf(t) = "listening"
       \/ /\ pipe[Rendezvous(t)].state = "closing"
          /\ StateOf(t) = "connected" \/ \E c \in Clients : IsTold(c, t)
  /\ thread[t].at = "accept" => StateOf(t) = "connected" \/ \E c \in Clients : IsTold(c, t)
  /\ thread[t].at = "line" => thread[t].m_waitingPipe # NULL /\ StateOf(t) = "connected"

Expected(c) ==
  /\ client[c].at = "told" => \E t \in Threads :
       /\ thread[t].at \in {"flush", "accept"} /\ thread[t].name = client[c].name
       /\ StateOf(t) = "listening"
       /\ thread[t].at = "flush" => pipe[Rendezvous(t)].state = "closing"
  /\ \A d \in Clients : client[c].at = "told" /\ client[d].at = "told" /\ client[c].name = client[d].name => c = d
  /\ client[c].at = "line" => pipe[client[c].pipe].mode = "byte" /\ pipe[client[c].pipe].name = client[c].name

\* In a rendezvous a pipe made for a client listens while its call goes on, and
\* no other acceptor has pipes of its name.
Private(p) ==
  pipe[p].mode = "byte" =>
    /\ pipe[p].state \in {"listening", "connected"}
    /\ pipe[p].state = "listening" => \E t \in Threads : InWait(t) /\ thread[t].m_waitingPipe = p
    /\ \A q \in Pipes : pipe[q].mode # "none" /\ pipe[q].name = pipe[p].name => pipe[q].owner = pipe[p].owner

Quiet ==
  /\ \A t \in Threads : Meeting(t)
  /\ \A c \in Clients : Expected(c)
  /\ \A p \in Pipes : Private(p)

Safe == Typed /\ Held /\ Serving /\ Named /\ Wedging

Inv == Safe /\ (odd = {} => Quiet)

-------------------------------------------------------------------------------
\* What to_string, which names the pipes made for clients, returns.

\* A step of to_string, and f is to_string on 0..k.
Text(f, n) == IF n < 10 THEN <<n>> ELSE Append(f[n \div 10], n % 10)
StringsUpTo(f, k) == f = [n \in 0..k |-> Text(f, n)]

(***************************************************************************)
(* There is a function that does what to_string does, up to any number.     *)
(***************************************************************************)
LEMMA StringsExist ==
  ASSUME NEW k \in Nat
  PROVE  \E f : StringsUpTo(f, k)
<1> DEFINE T == {j \in Nat : ~ \E f : StringsUpTo(f, j)}
<1>1. SUFFICES ASSUME T # {} PROVE FALSE
  OBVIOUS
<1>2. PICK j \in T : \A i \in T : j <= i
  BY <1>1, LeastElement
<1>3. CASE j = 0
  <2> DEFINE f == [n \in 0..0 |-> <<n>>]
  <2>1. f = [n \in 0..0 |-> Text(f, n)]
    BY DEF Text
  <2>2. StringsUpTo(f, j)
    BY <2>1, <1>3 DEF StringsUpTo
  <2> QED BY <2>2
<1>4. CASE j # 0
  <2>1. j - 1 \in Nat /\ j - 1 \notin T
    BY <1>2, <1>4
  <2>2. PICK f : StringsUpTo(f, j - 1)
    BY <2>1
  <2> DEFINE g == [n \in 0..j |-> Text(f, n)]
  <2>3. \A n \in 0..(j - 1) : f[n] = Text(f, n)
    BY <2>2 DEF StringsUpTo
  <2>4. \A n \in 0..j : g[n] = Text(f, n)
    OBVIOUS
  <2>5. \A n \in 0..j : n >= 10 => n \div 10 \in 0..(j - 1)
    OBVIOUS
  <2>6. \A n \in 0..j : n \in 0..(j - 1) \/ n = j
    OBVIOUS
  <2> HIDE DEF g
  <2>7. ASSUME NEW n \in 0..j PROVE Text(f, n) = Text(g, n)
    <3>1. n >= 10 => g[n \div 10] = f[n \div 10]
      <4>1. \A i \in 0..(j - 1) : i \in 0..j
        BY <2>6
      <4> QED BY <4>1, <2>3, <2>4, <2>5
    <3> QED BY <3>1 DEF Text
  <2>8. g = [n \in 0..j |-> Text(g, n)]
    BY <2>7 DEF g
  <2> QED BY <2>8 DEF StringsUpTo
<1> QED BY <1>3, <1>4

(***************************************************************************)
(* Two such functions agree where both are defined.                         *)
(***************************************************************************)
LEMMA StringsAgree ==
  ASSUME NEW k \in Nat, NEW l \in Nat, NEW f, NEW g, StringsUpTo(f, k), StringsUpTo(g, l),
         NEW n \in Nat, n <= k, n <= l
  PROVE  f[n] = g[n]
<1> DEFINE T == {j \in Nat : j <= k /\ j <= l /\ f[j] # g[j]}
<1>1. SUFFICES ASSUME T # {} PROVE FALSE
  OBVIOUS
<1>2. PICK j \in T : \A i \in T : j <= i
  BY <1>1, LeastElement
<1>3. f[j] = Text(f, j) /\ g[j] = Text(g, j)
  <2>1. j \in 0..k /\ j \in 0..l
    BY <1>2
  <2>2. f[j] = Text(f, j)
    BY <2>1 DEF StringsUpTo
  <2>3. g[j] = Text(g, j)
    BY <2>1 DEF StringsUpTo
  <2> QED BY <2>2, <2>3
<1>4. CASE j < 10
  BY <1>2, <1>3, <1>4 DEF Text
<1>5. CASE j >= 10
  <2>1. j \div 10 \in Nat /\ j \div 10 < j
    BY <1>2, <1>5
  <2>2. f[j \div 10] = g[j \div 10]
    BY <2>1, <1>2
  <2> QED BY <2>2, <1>2, <1>3, <1>5 DEF Text
<1> QED BY <1>2, <1>4, <1>5

(***************************************************************************)
(* So the recursive definition of Digits defines something: it is its own   *)
(* unfolding at every number.                                               *)
(***************************************************************************)
LEMMA DigitsUnfold ==
  Digits = [n \in Nat |-> IF n < 10 THEN <<n>> ELSE Append(Digits[n \div 10], n % 10)]
<1> DEFINE F(k) == CHOOSE f : StringsUpTo(f, k)
           g == [n \in Nat |-> F(n)[n]]
<1>1. ASSUME NEW k \in Nat PROVE StringsUpTo(F(k), k)
  BY StringsExist
<1> HIDE DEF F
<1>2. ASSUME NEW n \in Nat PROVE g[n] = Text(g, n)
  <2>1. F(n)[n] = Text(F(n), n)
    BY <1>1 DEF StringsUpTo
  <2>2. CASE n < 10
    BY <2>1, <2>2 DEF Text
  <2>3. CASE n >= 10
    <3>1. n \div 10 \in Nat /\ n \div 10 <= n
      BY <2>3
    <3>2. F(n)[n \div 10] = F(n \div 10)[n \div 10]
      BY <3>1, <1>1, StringsAgree
    <3> QED BY <2>1, <2>3, <3>1, <3>2 DEF Text
  <2> QED BY <2>2, <2>3
<1> HIDE DEF g
<1>3. g = [n \in Nat |-> Text(g, n)]
  <2>1. g = [n \in Nat |-> g[n]]
    BY DEF g
  <2> QED BY <1>2, <2>1
<1> QED BY <1>3 DEF Digits, Text

(***************************************************************************)
(* to_string of a counter (pipes.cpp:124) is never empty.                   *)
(***************************************************************************)
LEMMA DigitsNotEmpty ==
  ASSUME NEW n \in Nat
  PROVE  Digits[n] \in Seq(Nat) /\ Len(Digits[n]) > 0
<1> DEFINE T == {j \in Nat : ~(Digits[j] \in Seq(Nat) /\ Len(Digits[j]) > 0)}
<1>1. SUFFICES ASSUME T # {} PROVE FALSE
  OBVIOUS
<1>2. PICK j \in T : \A i \in T : j <= i
  BY <1>1, LeastElement
<1>3. Digits[j] = IF j < 10 THEN <<j>> ELSE Append(Digits[j \div 10], j % 10)
  BY <1>2, DigitsUnfold
<1> HIDE DEF Digits
<1>4. CASE j < 10
  <2>1. Digits[j] = <<j>>
    BY <1>2, <1>3, <1>4
  <2>2. <<j>> \in Seq(Nat) /\ Len(<<j>>) = 1
    BY <1>2
  <2>3. Digits[j] \in Seq(Nat) /\ Len(Digits[j]) > 0
    BY <2>1, <2>2
  <2> QED BY <2>3, <1>2
<1>5. CASE j >= 10
  <2>1. j \div 10 \in Nat /\ j \div 10 < j /\ j % 10 \in Nat
    BY <1>2, <1>5
  <2>2. Digits[j \div 10] \in Seq(Nat)
    BY <2>1, <1>2
  <2>3. Digits[j] = Append(Digits[j \div 10], j % 10)
    BY <1>2, <1>3, <1>5
  <2>4. ASSUME NEW s \in Seq(Nat), NEW i \in Nat
        PROVE  Append(s, i) \in Seq(Nat) /\ Len(Append(s, i)) > 0
    OBVIOUS
  <2>5. Digits[j] \in Seq(Nat) /\ Len(Digits[j]) > 0
    BY <2>1, <2>2, <2>3, <2>4
  <2> QED BY <2>5, <1>2
<1> QED BY <1>2, <1>4, <1>5

(***************************************************************************)
(* The names that waitConnection makes are among the names of the model.    *)
(***************************************************************************)
LEMMA MadeNames ==
  ASSUME NEW a \in Addresses, NEW n \in 0..MaxCounter
  PROVE  a \o Digits[n] \in Names
<1> DEFINE f(b, k) == b \o Digits[k]
<1>1. ASSUME NEW b \in Addresses, NEW k \in 0..MaxCounter
      PROVE  f(b, k) \in {f(x, y) : x \in Addresses, y \in 0..MaxCounter}
  <2> HIDE DEF f
  <2> QED BY SMT
<1>2. Names = Addresses \cup {f(x, y) : x \in Addresses, y \in 0..MaxCounter}
  BY DEF Names
<1>3. f(a, n) \in Names
  <2> HIDE DEF f
  <2> QED BY <1>1, <1>2
<1> QED BY <1>3

(***************************************************************************)
(* The name of a pipe made for a client is not the address it begins with.  *)
(***************************************************************************)
LEMMA NameIsLonger ==
  ASSUME NEW a \in Addresses, NEW n \in Nat
  PROVE  a \o Digits[n] # a
<1> DEFINE S == {a[i] : i \in 1..Len(a)} \cup Nat
<1>1. Len(a) \in Nat /\ a = [i \in 1..Len(a) |-> a[i]]
  BY PipeAssumption
<1>2. [i \in 1..Len(a) |-> a[i]] \in Seq(S)
  BY <1>1
<1>3. a \in Seq(S)
  BY <1>1, <1>2
<1>4. ASSUME NEW d \in Seq(Nat), Len(d) > 0 PROVE a \o d # a
  <2>1. d \in Seq(S)
    OBVIOUS
  <2> HIDE DEF S
  <2>2. Len(a \o d) = Len(a) + Len(d)
    BY <1>3, <2>1
  <2>3. ASSUME NEW i \in Nat, NEW j \in Nat, j > 0 PROVE i + j # i
    BY <2>3
  <2>4. Len(a) + Len(d) # Len(a)
    <3>1. Len(a) \in Nat /\ Len(d) \in Nat /\ Len(d) > 0
      BY <1>1, <1>4
    <3> HIDE <1>1
    <3> QED BY <2>3, <3>1
  <2> QED BY <2>2, <2>4
<1> QED BY <1>4, DigitsNotEmpty

-------------------------------------------------------------------------------
\* Typed, Held, Serving, Named and Wedging, for every action.

(***************************************************************************)
(* CreateNamedPipe makes an instance that was not there.                    *)
(***************************************************************************)
LEMMA NewPipeIsFree ==
  ASSUME Free # {}
  PROVE  NewPipe \in Pipes /\ pipe[NewPipe].mode = "none"
<1>1. Free \in SUBSET Nat
  BY PipeAssumption DEF Free, Open, Pipes
<1>2. NewPipe \in Free
  BY <1>1, MinIsMember DEF NewPipe
<1> QED BY <1>2 DEF Free, Open

\* A step that leaves every pipe its type, name and owner and every thread and
\* acceptor its pipe.
Keeps ==
  /\ acceptor' = acceptor /\ dropped' = dropped
  /\ \A p \in Pipes : /\ pipe'[p].mode = pipe[p].mode /\ pipe'[p].name = pipe[p].name
                      /\ pipe'[p].owner = pipe[p].owner
  /\ \A t \in Threads : /\ thread'[t].m_waitingPipe = thread[t].m_waitingPipe
                        /\ thread'[t].acceptor = thread[t].acceptor
                        /\ thread'[t].name = thread[t].name
                        /\ InWait(t)' => InWait(t)

(***************************************************************************)
(* Such a step leaves the pipes held as they were.                          *)
(***************************************************************************)
LEMMA KeepsHeld ==
  ASSUME Safe, Keeps, \A p \in Pipes : PipeShape(p)'
  PROVE  /\ Held' /\ Serving'
         /\ \A p, q \in Pipes : pipe'[p].mode # "none" /\ pipe'[q].mode # "none"
                                /\ pipe'[p].name = pipe'[q].name => pipe'[p].mode = pipe'[q].mode
<1>1. \A s \in Acceptors : Exists(s) => acceptor[s].m_pipe \in Pipes
  BY DEF Safe, Typed, AcceptorType, Exists
<1>2. \A t \in Threads : thread[t].m_waitingPipe # NULL => thread[t].m_waitingPipe \in Pipes
  BY DEF Safe, Typed, ThreadType
<1>3. dropped \subseteq Pipes
  BY DEF Safe, Typed
<1>4. Held'
  BY <1>1, <1>2, <1>3 DEF Safe, Held, Keeps, Exists
<1>5. Serving'
  BY DEF Safe, Serving, Keeps, Exists
<1> QED BY <1>4, <1>5 DEF Safe, Named, Keeps

(***************************************************************************)
(* A thread in waitConnection waits at the pipe of its acceptor, which is   *)
(* its own.                                                                 *)
(***************************************************************************)
LEMMA RendezvousFacts ==
  ASSUME Safe, NEW t \in Threads, InWait(t)
  PROVE  /\ Rendezvous(t) \in Pipes
         /\ thread[t].acceptor \in Acceptors /\ Exists(thread[t].acceptor)
         /\ pipe[Rendezvous(t)].mode = "message"
         /\ pipe[Rendezvous(t)].owner = thread[t].acceptor
         /\ \A u \in Threads : InWait(u) /\ Rendezvous(u) = Rendezvous(t) => u = t
         /\ \A s \in Acceptors : Exists(s) /\ acceptor[s].m_pipe = Rendezvous(t) => s = thread[t].acceptor
<1>1. \A u \in Threads : InWait(u) => thread[u].acceptor \in Acceptors /\ Exists(thread[u].acceptor)
  BY DEF Safe, Serving
<1>2. \A s \in Acceptors : Exists(s) => acceptor[s].m_pipe \in Pipes
  BY DEF Safe, Typed, AcceptorType, Exists
<1>3. \A s \in Acceptors : Exists(s) =>
        pipe[acceptor[s].m_pipe].mode = "message" /\ pipe[acceptor[s].m_pipe].owner = s
  BY DEF Safe, Held
<1> QED BY <1>1, <1>2, <1>3 DEF Rendezvous, Safe, Serving

(***************************************************************************)
(* A thread that falls asleep in ConnectNamedPipe keeps all the rest.       *)
(***************************************************************************)
LEMMA SleepFacts ==
  ASSUME Typed, NEW t \in Threads, InWait(t), thread' = [thread EXCEPT ![t].wait = "asleep"]
  PROVE  /\ thread' \in [Threads -> ThreadType]
         /\ \A u \in Threads : /\ thread'[u].at = thread[u].at /\ thread'[u].name = thread[u].name
                               /\ thread'[u].acceptor = thread[u].acceptor
                               /\ thread'[u].m_waitingPipe = thread[u].m_waitingPipe
                               /\ InWait(u)' = InWait(u)
         /\ \A u \in Threads : thread'[u].at = "idle" => thread'[u] = Idle
<1> DEFINE v == [thread[t] EXCEPT !.wait = "asleep"]
<1>1. thread \in [Threads -> ThreadType] /\ thread[t] \in ThreadType
  BY DEF Typed
<1>2. /\ v \in ThreadType /\ v.at = thread[t].at /\ v.acceptor = thread[t].acceptor
      /\ v.name = thread[t].name /\ v.m_waitingPipe = thread[t].m_waitingPipe
  BY <1>1 DEF ThreadType
<1>3. thread' = [thread EXCEPT ![t] = v]
  OBVIOUS
<1> HIDE DEF v
<1>4. /\ thread' \in [Threads -> ThreadType] /\ thread'[t] = v
      /\ \A u \in Threads : u # t => thread'[u] = thread[u]
  BY <1>1, <1>2, <1>3
<1>5. \A u \in Threads : thread'[u].at = "idle" => thread'[u] = Idle
  BY <1>2, <1>4 DEF Typed, InWait
<1> QED BY <1>2, <1>4, <1>5 DEF InWait

(***************************************************************************)
(* ConnectNamedPipe on the acceptor's pipe.                                 *)
(***************************************************************************)
LEMMA ListenSafe ==
  ASSUME Safe, NEW t \in Threads, Listen(t)
  PROVE  Safe'
<1>1. InWait(t)
  BY DEF Listen, InWait
<1>2. Rendezvous(t) \in Pipes
  BY <1>1, RendezvousFacts
<1> DEFINE r == [pipe[Rendezvous(t)] EXCEPT !.state = "listening"]
<1>3. pipe[Rendezvous(t)] \in PipeType
  BY <1>2 DEF Safe, Typed
<1>4. /\ r \in PipeType /\ r.mode = pipe[Rendezvous(t)].mode /\ r.name = pipe[Rendezvous(t)].name
      /\ r.owner = pipe[Rendezvous(t)].owner /\ r.client = pipe[Rendezvous(t)].client
      /\ r.data = pipe[Rendezvous(t)].data /\ r.state = "listening"
  BY <1>3 DEF PipeType
<1>5. pipe' = [pipe EXCEPT ![Rendezvous(t)] = r]
  BY DEF Listen
<1> HIDE DEF r
<1>6. /\ pipe' \in [Pipes -> PipeType] /\ pipe'[Rendezvous(t)] = r
      /\ \A p \in Pipes : p # Rendezvous(t) => pipe'[p] = pipe[p]
  BY <1>2, <1>4, <1>5 DEF Safe, Typed
<1>7. UNCHANGED <<acceptor, client, dropped, odd>>
  BY DEF Listen
<1>8. /\ pipe[Rendezvous(t)].state \in {"listening", "disconnected"}
      /\ thread' \in [Threads -> ThreadType]
      /\ \A u \in Threads : /\ thread'[u].at = thread[u].at /\ thread'[u].name = thread[u].name
                            /\ thread'[u].acceptor = thread[u].acceptor
                            /\ thread'[u].m_waitingPipe = thread[u].m_waitingPipe
                            /\ InWait(u)' = InWait(u)
      /\ \A u \in Threads : thread'[u].at = "idle" => thread'[u] = Idle
  BY <1>1, SleepFacts DEF Listen, Safe
<1>9. Typed'
  BY <1>6, <1>7, <1>8 DEF Safe, Typed, Exists
<1>10. pipe[Rendezvous(t)].mode = "message" /\ pipe[Rendezvous(t)].data = <<>>
  BY <1>1, <1>2, <1>8, RendezvousFacts DEF Safe, Held, PipeShape
<1>11. \A p \in Pipes : PipeShape(p)'
  BY <1>4, <1>6, <1>10 DEF Safe, Held, PipeShape
<1>12. Keeps
  BY <1>4, <1>6, <1>7, <1>8 DEF Keeps
<1>13. Named'
  BY <1>4, <1>6, <1>7, <1>11, <1>12, KeepsHeld DEF Safe, Named, Typed
<1>14. Wedging'
  <2>1. \A s \in Acceptors : Flushing(s)' = Flushing(s)
    BY <1>8 DEF Flushing
  <2>2. \A s \in Acceptors : Exists(s) => acceptor[s].m_pipe \in Pipes
    BY DEF Safe, Typed, AcceptorType, Exists
  <2> QED BY <1>4, <1>6, <1>7, <1>10, <2>1, <2>2 DEF Safe, Wedging, Exists
<1> QED BY <1>9, <1>11, <1>12, <1>13, <1>14, KeepsHeld DEF Safe

(***************************************************************************)
(* The acceptor tells the name.                                             *)
(***************************************************************************)
LEMMA TellNameSafe ==
  ASSUME Safe, NEW t \in Threads, TellName(t)
  PROVE  Safe'
<1>1. InWait(t)
  BY DEF TellName, InWait
<1>2. Rendezvous(t) \in Pipes /\ pipe[Rendezvous(t)].mode = "message"
  BY <1>1, RendezvousFacts
<1> DEFINE d == Append(pipe[Rendezvous(t)].data, thread[t].name)
           r == IF pipe[Rendezvous(t)].state = "connected"
                  THEN [pipe[Rendezvous(t)] EXCEPT !.data = d] ELSE pipe[Rendezvous(t)]
           v == [thread[t] EXCEPT !.at = "flush", !.wait = "none"]
<1>3. pipe[Rendezvous(t)] \in PipeType /\ thread[t] \in ThreadType
  BY <1>2 DEF Safe, Typed
<1>4. thread[t].name \in Names
  BY <1>1 DEF Safe, Typed, InWait
<1>5. pipe[Rendezvous(t)].data \in Seq(Names)
  BY <1>3 DEF PipeType
<1>6. d \in Seq(Names)
  BY <1>4, <1>5
<1> HIDE DEF d
<1>7. /\ r \in PipeType /\ r.mode = pipe[Rendezvous(t)].mode /\ r.name = pipe[Rendezvous(t)].name
      /\ r.owner = pipe[Rendezvous(t)].owner /\ r.client = pipe[Rendezvous(t)].client
      /\ r.state = pipe[Rendezvous(t)].state
      /\ r.state = "connected" \/ r = pipe[Rendezvous(t)]
  BY <1>3, <1>6 DEF PipeType
<1>8. /\ v \in ThreadType /\ v.at = "flush" /\ v.acceptor = thread[t].acceptor
      /\ v.name = thread[t].name /\ v.m_waitingPipe = thread[t].m_waitingPipe
  BY <1>3 DEF ThreadType
<1>9. pipe' = [pipe EXCEPT ![Rendezvous(t)] = r] /\ thread' = [thread EXCEPT ![t] = v]
  <2>1. CASE pipe[Rendezvous(t)].state = "connected"
    BY <2>1 DEF TellName, d
  <2>2. CASE pipe[Rendezvous(t)].state # "connected"
    BY <2>2 DEF TellName, Safe, Typed
  <2> QED BY <2>1, <2>2
<1> HIDE DEF r, v
<1>10. /\ pipe' \in [Pipes -> PipeType] /\ pipe'[Rendezvous(t)] = r
       /\ \A p \in Pipes : p # Rendezvous(t) => pipe'[p] = pipe[p]
  BY <1>2, <1>7, <1>9 DEF Safe, Typed
<1>11. /\ thread' \in [Threads -> ThreadType] /\ thread'[t] = v
       /\ \A u \in Threads : u # t => thread'[u] = thread[u]
  BY <1>8, <1>9 DEF Safe, Typed
<1>12. UNCHANGED <<acceptor, client, dropped, odd>>
  BY DEF TellName
<1>13. thread[t].at = "connect"
  BY DEF TellName
<1>14. Typed'
  BY <1>4, <1>8, <1>10, <1>11, <1>12 DEF Safe, Typed, Exists
<1>15. \A p \in Pipes : PipeShape(p)'
  BY <1>2, <1>7, <1>10 DEF Safe, Held, PipeShape
<1>16. Keeps
  BY <1>1, <1>7, <1>8, <1>10, <1>11, <1>12 DEF Keeps, InWait
<1>17. Named'
  BY <1>7, <1>10, <1>12, <1>15, <1>16, KeepsHeld DEF Safe, Named, Typed
<1>18. Wedging'
  <2>1. \A s \in Acceptors : Flushing(s) \/ s = thread[t].acceptor => Flushing(s)'
    BY <1>8, <1>11, <1>13 DEF Flushing
  <2>2. \A s \in Acceptors : Exists(s) => acceptor[s].m_pipe \in Pipes
    BY DEF Safe, Typed, AcceptorType, Exists
  <2>3. \A s \in Acceptors : Exists(s) /\ acceptor[s].m_pipe = Rendezvous(t) => s = thread[t].acceptor
    BY <1>1, RendezvousFacts
  <2> QED BY <1>10, <1>12, <2>1, <2>2, <2>3 DEF Safe, Wedging, Exists
<1> QED BY <1>14, <1>15, <1>16, <1>17, <1>18, KeepsHeld DEF Safe

(***************************************************************************)
(* FlushFileBuffers and DisconnectNamedPipe.                                *)
(***************************************************************************)
LEMMA DisconnectSafe ==
  ASSUME Safe, NEW t \in Threads, Disconnect(t)
  PROVE  Safe'
<1>1. InWait(t)
  BY DEF Disconnect, InWait
<1>2. Rendezvous(t) \in Pipes /\ pipe[Rendezvous(t)].mode = "message"
  BY <1>1, RendezvousFacts
<1> DEFINE r == [pipe[Rendezvous(t)] EXCEPT !.state = "disconnected", !.client = NULL, !.data = <<>>]
           v == [thread[t] EXCEPT !.at = "accept"]
<1>3. pipe[Rendezvous(t)] \in PipeType /\ thread[t] \in ThreadType
  BY <1>2 DEF Safe, Typed
<1>4. /\ r \in PipeType /\ r.mode = pipe[Rendezvous(t)].mode /\ r.name = pipe[Rendezvous(t)].name
      /\ r.owner = pipe[Rendezvous(t)].owner /\ r.client = NULL
      /\ r.state = "disconnected" /\ r.data = <<>>
  <2>1. <<>> \in Seq(Names)
    OBVIOUS
  <2> QED BY <1>3, <2>1 DEF PipeType
<1>5. /\ v \in ThreadType /\ v.at = "accept" /\ v.acceptor = thread[t].acceptor
      /\ v.name = thread[t].name /\ v.m_waitingPipe = thread[t].m_waitingPipe
  BY <1>3 DEF ThreadType
<1>6. pipe' = [pipe EXCEPT ![Rendezvous(t)] = r] /\ thread' = [thread EXCEPT ![t] = v]
  BY DEF Disconnect
<1> HIDE DEF r, v
<1>7. /\ pipe' \in [Pipes -> PipeType] /\ pipe'[Rendezvous(t)] = r
      /\ \A p \in Pipes : p # Rendezvous(t) => pipe'[p] = pipe[p]
  BY <1>2, <1>4, <1>6 DEF Safe, Typed
<1>8. /\ thread' \in [Threads -> ThreadType] /\ thread'[t] = v
      /\ \A u \in Threads : u # t => thread'[u] = thread[u]
  BY <1>5, <1>6 DEF Safe, Typed
<1>9. UNCHANGED <<acceptor, client, dropped, odd>> /\ thread[t].at = "flush"
  BY DEF Disconnect
<1>10. Typed'
  BY <1>5, <1>7, <1>8, <1>9 DEF Safe, Typed, Exists
<1>11. \A p \in Pipes : PipeShape(p)'
  BY <1>2, <1>4, <1>7 DEF Safe, Held, PipeShape
<1>12. Keeps
  BY <1>1, <1>4, <1>5, <1>7, <1>8, <1>9 DEF Keeps, InWait
<1>13. Named'
  BY <1>2, <1>4, <1>7, <1>9, <1>11, <1>12, KeepsHeld DEF Safe, Named, Typed
<1>14. Wedging'
  <2>1. \A s \in Acceptors : Flushing(s) /\ s # thread[t].acceptor => Flushing(s)'
    BY <1>8 DEF Flushing
  <2>2. \A s \in Acceptors : Exists(s) => acceptor[s].m_pipe \in Pipes
    BY DEF Safe, Typed, AcceptorType, Exists
  <2>3. acceptor[thread[t].acceptor].m_pipe = Rendezvous(t)
    BY DEF Rendezvous
  <2>4. ASSUME NEW s \in Acceptors, s # thread[t].acceptor, Exists(s)
        PROVE  acceptor[s].m_pipe # Rendezvous(t)
    BY <1>1, <2>4, RendezvousFacts
  <2> QED BY <1>4, <1>7, <1>9, <2>1, <2>2, <2>3, <2>4 DEF Safe, Wedging, Exists
<1> QED BY <1>10, <1>11, <1>12, <1>13, <1>14, KeepsHeld DEF Safe

(***************************************************************************)
(* ConnectNamedPipe on the pipe made for the client.                        *)
(***************************************************************************)
LEMMA ListenForLineSafe ==
  ASSUME Safe, NEW t \in Threads, ListenForLine(t)
  PROVE  Safe'
<1>1. /\ InWait(t) /\ thread' = [thread EXCEPT ![t].wait = "asleep"]
      /\ UNCHANGED <<pipe, acceptor, client, dropped, odd>>
  BY DEF ListenForLine, InWait
<1>2. /\ thread' \in [Threads -> ThreadType]
      /\ \A u \in Threads : /\ thread'[u].at = thread[u].at /\ thread'[u].name = thread[u].name
                            /\ thread'[u].acceptor = thread[u].acceptor
                            /\ thread'[u].m_waitingPipe = thread[u].m_waitingPipe
                            /\ InWait(u)' = InWait(u)
      /\ \A u \in Threads : thread'[u].at = "idle" => thread'[u] = Idle
  BY <1>1, SleepFacts DEF Safe
<1>3. Typed'
  BY <1>1, <1>2 DEF Safe, Typed, Exists
<1>4. \A p \in Pipes : PipeShape(p)'
  BY <1>1 DEF Safe, Held, PipeShape
<1>5. Keeps
  BY <1>1, <1>2 DEF Keeps
<1>6. Named'
  BY <1>1 DEF Safe, Named
<1>7. Wedging'
  <2>1. \A s \in Acceptors : Flushing(s)' = Flushing(s)
    BY <1>2 DEF Flushing
  <2> QED BY <1>1, <2>1 DEF Safe, Wedging, Exists
<1> QED BY <1>3, <1>4, <1>5, <1>6, <1>7, KeepsHeld DEF Safe

(***************************************************************************)
(* The pipe is made the line.                                               *)
(***************************************************************************)
LEMMA LineSafe ==
  ASSUME Safe, NEW t \in Threads, thread[t].at = "accept", thread[t].m_waitingPipe # NULL,
         thread' = [thread EXCEPT ![t].at = "line", ![t].wait = "none"],
         UNCHANGED <<pipe, acceptor, client, dropped, odd>>
  PROVE  Safe'
<1> DEFINE v == [thread[t] EXCEPT !.at = "line", !.wait = "none"]
<1>1. thread[t] \in ThreadType /\ thread[t].m_waitingPipe \in Pipes
  BY DEF Safe, Typed, ThreadType
<1>2. /\ v \in ThreadType /\ v.at = "line" /\ v.acceptor = thread[t].acceptor
      /\ v.name = thread[t].name /\ v.m_waitingPipe = thread[t].m_waitingPipe
  BY <1>1 DEF ThreadType
<1>3. thread' = [thread EXCEPT ![t] = v]
  OBVIOUS
<1> HIDE DEF v
<1>4. /\ thread' \in [Threads -> ThreadType] /\ thread'[t] = v
      /\ \A u \in Threads : u # t => thread'[u] = thread[u]
  BY <1>2, <1>3 DEF Safe, Typed
<1>5. Typed'
  BY <1>1, <1>2, <1>4 DEF Safe, Typed, Exists
<1>6. \A p \in Pipes : PipeShape(p)'
  BY DEF Safe, Held, PipeShape
<1>7. Keeps
  BY <1>2, <1>4 DEF Keeps, InWait
<1>8. Named'
  BY DEF Safe, Named
<1>9. Wedging'
  <2>1. \A s \in Acceptors : Flushing(s) => Flushing(s)'
    BY <1>4 DEF Flushing
  <2> QED BY <2>1 DEF Safe, Wedging, Exists
<1> QED BY <1>5, <1>6, <1>7, <1>8, <1>9, KeepsHeld DEF Safe

(***************************************************************************)
(* CreateFile by a client: the pipe it opens was listening and is now       *)
(* connected.                                                               *)
(***************************************************************************)
LEMMA ConnectSafe ==
  ASSUME Safe, NEW c \in Clients, NEW p \in Pipes, NEW v \in ClientType,
         client[c].at # "opened", pipe[p].mode # "none", pipe[p].state = "listening",
         pipe' = [pipe EXCEPT ![p] = Connected(p, c)],
         client' = [client EXCEPT ![c] = v],
         \/ v = client[c]
         \/ v.at = "opened" /\ v.pipe = p /\ pipe[p].mode = "message"
         \/ v.at = "line" /\ v.pipe = p,
         odd' \subseteq {"crash", "clash"}, odd \subseteq odd', UNCHANGED <<acceptor, thread, dropped>>
  PROVE  Safe'
<1>1. pipe[p] \in PipeType
  BY DEF Safe, Typed
<1> DEFINE r == Connected(p, c)
<1>2. /\ r \in PipeType /\ r.mode = pipe[p].mode /\ r.name = pipe[p].name /\ r.owner = pipe[p].owner
      /\ r.client = c /\ r.state = "connected" /\ r.data = pipe[p].data
  BY <1>1 DEF PipeType, Connected
<1> HIDE DEF r
<1>3. /\ pipe' \in [Pipes -> PipeType] /\ pipe'[p] = r
      /\ \A q \in Pipes : q # p => pipe'[q] = pipe[q]
  BY <1>2 DEF Safe, Typed, r
<1>4. /\ client' \in [Clients -> ClientType] /\ client'[c] = v
      /\ \A d \in Clients : d # c => client'[d] = client[d]
  BY DEF Safe, Typed
<1>5. Typed'
  BY <1>3, <1>4 DEF Safe, Typed, Exists
<1>6. pipe[p].data = <<>>
  BY DEF Safe, Held, PipeShape
<1>7. \A q \in Pipes : PipeShape(q)'
  BY <1>2, <1>3, <1>6 DEF Safe, Held, PipeShape
<1>8. Keeps
  BY <1>2, <1>3 DEF Keeps, InWait
<1>9. \A d \in Clients : client'[d].at = "opened" /\ pipe'[client'[d].pipe].client = d
                           => pipe'[client'[d].pipe].mode = "message"
  <2>1. SUFFICES ASSUME NEW d \in Clients, client'[d].at = "opened",
                        pipe'[client'[d].pipe].client = d
                 PROVE  pipe'[client'[d].pipe].mode = "message"
    OBVIOUS
  <2>2. CASE d = c
    BY <1>2, <1>3, <1>4, <2>1, <2>2
  <2>3. CASE d # c
    <3>1. client'[d] = client[d] /\ client[d].pipe \in Pipes
      BY <1>4, <2>1, <2>3 DEF Safe, Typed
    <3>2. client[d].pipe # p
      BY <1>2, <1>3, <2>1, <2>3, <3>1
    <3> QED BY <1>3, <2>1, <3>1, <3>2 DEF Safe, Named
  <2> QED BY <2>2, <2>3
<1>10. Named'
  BY <1>7, <1>8, <1>9, KeepsHeld DEF Named
<1>11. Wedging'
  <2>1. \A s \in Acceptors : Flushing(s)' = Flushing(s)
    BY DEF Flushing
  <2>2. \A s \in Acceptors : Exists(s) => acceptor[s].m_pipe \in Pipes
    BY DEF Safe, Typed, AcceptorType, Exists
  <2> QED BY <1>2, <1>3, <1>6, <2>1, <2>2 DEF Safe, Wedging, Exists
<1> QED BY <1>5, <1>7, <1>8, <1>10, <1>11, KeepsHeld DEF Safe

(***************************************************************************)
(* CloseHandle by a client: a pipe that it closes is an acceptor's and the  *)
(* acceptor is waiting for it to be read, or the client dies.               *)
(***************************************************************************)
LEMMA HangUpSafe ==
  ASSUME Safe, NEW c \in Clients, NEW ps \in SUBSET Pipes, NEW v \in ClientType,
         pipe' = HangUp(c, ps),
         client' = [client EXCEPT ![c] = v], v = Outside \/ v.at = "told",
         odd' \subseteq {"crash", "clash"}, odd \subseteq odd', UNCHANGED <<acceptor, thread, dropped>>,
         "crash" \in odd' \/ \A p \in ps : pipe[p].client = c => pipe[p].data # <<>>
  PROVE  Safe'
<1> DEFINE r(p) == [pipe[p] EXCEPT !.state = "closing", !.client = NULL, !.data = <<>>]
           Left(p) == p \in ps /\ pipe[p].client = c
<1>1. ASSUME NEW p \in Pipes
      PROVE  /\ r(p) \in PipeType /\ r(p).mode = pipe[p].mode /\ r(p).name = pipe[p].name
             /\ r(p).owner = pipe[p].owner /\ r(p).client = NULL /\ r(p).state = "closing"
             /\ r(p).data = <<>>
  <2>1. pipe[p] \in PipeType /\ <<>> \in Seq(Names)
    BY DEF Safe, Typed
  <2> QED BY <2>1 DEF PipeType
<1>2. pipe' = [p \in Pipes |-> IF Left(p) THEN r(p) ELSE pipe[p]]
  BY DEF HangUp
<1> HIDE DEF r
<1>3. \A p \in Pipes : pipe'[p] = IF Left(p) THEN r(p) ELSE pipe[p]
  BY <1>2
<1>4. pipe' \in [Pipes -> PipeType]
  BY <1>1, <1>2 DEF Safe, Typed
<1>5. /\ client' \in [Clients -> ClientType] /\ client'[c] = v
      /\ \A d \in Clients : d # c => client'[d] = client[d]
  BY DEF Safe, Typed
<1>6. v.at \notin {"opened", "line"} /\ (v.at = "idle" => v = Outside)
  BY DEF Outside
<1>7. Typed'
  BY <1>4, <1>5, <1>6 DEF Safe, Typed, Exists
<1>8. NULL \notin Clients
  BY PipeAssumption
<1>9. \A p \in Pipes : Left(p) => pipe[p].mode # "none"
  BY <1>8 DEF Safe, Held, PipeShape, NoPipe
<1>10. \A q \in Pipes : PipeShape(q)'
  BY <1>1, <1>3, <1>9 DEF Safe, Held, PipeShape
<1>11. Keeps
  BY <1>1, <1>3 DEF Keeps, InWait
<1>12. \A d \in Clients : client'[d].at = "opened" /\ pipe'[client'[d].pipe].client = d
                            => pipe'[client'[d].pipe].mode = "message"
  <2>1. SUFFICES ASSUME NEW d \in Clients, client'[d].at = "opened",
                        pipe'[client'[d].pipe].client = d
                 PROVE  pipe'[client'[d].pipe].mode = "message"
    OBVIOUS
  <2>2. d # c /\ client'[d] = client[d] /\ client[d].pipe \in Pipes
    BY <1>5, <1>6, <2>1 DEF Safe, Typed
  <2>3. ~Left(client[d].pipe)
    BY <1>1, <1>3, <1>8, <2>1, <2>2
  <2> QED BY <1>3, <2>1, <2>2, <2>3 DEF Safe, Named
<1>13. Named'
  BY <1>10, <1>11, <1>12, KeepsHeld DEF Named
<1>14. Wedging'
  <2>1. \A s \in Acceptors : Flushing(s)' = Flushing(s)
    BY DEF Flushing
  <2>2. \A s \in Acceptors : Exists(s) => acceptor[s].m_pipe \in Pipes
    BY DEF Safe, Typed, AcceptorType, Exists
  <2>3. SUFFICES ASSUME NEW s \in Acceptors, Exists(s)
                 PROVE  /\ pipe'[acceptor[s].m_pipe].data # <<>> => Flushing(s)
                        /\ pipe'[acceptor[s].m_pipe].state = "closing" => "crash" \in odd' \/ Flushing(s)
    BY <2>1 DEF Wedging, Exists
  <2> DEFINE p == acceptor[s].m_pipe
  <2>4. CASE Left(p)
    BY <1>1, <1>3, <2>2, <2>3, <2>4 DEF Safe, Wedging
  <2>5. CASE ~Left(p)
    BY <1>3, <2>2, <2>3, <2>5 DEF Safe, Wedging
  <2> QED BY <2>4, <2>5
<1> QED BY <1>7, <1>10, <1>11, <1>13, <1>14, KeepsHeld DEF Safe

(***************************************************************************)
(* CreateNamedPipe.                                                         *)
(***************************************************************************)
LEMMA CreatedFacts ==
  ASSUME Typed, Free # {}, NEW n \in Names, NEW mode \in {"message", "byte"}, NEW s \in Acceptors,
         pipe' = [pipe EXCEPT ![NewPipe] = Created(n, mode, s)]
  PROVE  /\ NewPipe \in Pipes /\ pipe[NewPipe].mode = "none" /\ pipe' \in [Pipes -> PipeType]
         /\ \A p \in Pipes : p # NewPipe => pipe'[p] = pipe[p]
         /\ pipe'[NewPipe].mode = mode /\ pipe'[NewPipe].name = n /\ pipe'[NewPipe].owner = s
         /\ pipe'[NewPipe].state = "listening" /\ pipe'[NewPipe].client = NULL
         /\ pipe'[NewPipe].data = <<>>
<1>1. NewPipe \in Pipes /\ pipe[NewPipe].mode = "none"
  BY NewPipeIsFree
<1> DEFINE r == Created(n, mode, s)
<1>2. <<>> \in Seq(Names)
  OBVIOUS
<1>3. /\ r \in PipeType /\ r.mode = mode /\ r.name = n /\ r.owner = s /\ r.state = "listening"
      /\ r.client = NULL /\ r.data = <<>>
  BY <1>2 DEF PipeType, Created, NoPipe
<1> HIDE DEF r
<1>4. /\ pipe' \in [Pipes -> PipeType] /\ pipe'[NewPipe] = r
      /\ \A p \in Pipes : p # NewPipe => pipe'[p] = pipe[p]
  BY <1>1, <1>3 DEF Typed, r
<1> QED BY <1>1, <1>3, <1>4

(***************************************************************************)
(* The constructor of NamedPipeAcceptor.                                    *)
(***************************************************************************)
LEMMA CreateServerSafe ==
  ASSUME Safe, NEW s \in Acceptors, NEW a \in Addresses, CreateServer(s, a)
  PROVE  Safe'
<1> DEFINE N == NewPipe
<1>1. a \in Names
  BY DEF Names
<1>2. Free # {} /\ acceptor[s] = NoAcceptor /\ UNCHANGED <<thread, client, dropped, odd>>
  BY DEF CreateServer
<1>3. /\ N \in Pipes /\ pipe[N].mode = "none" /\ pipe' \in [Pipes -> PipeType]
      /\ \A p \in Pipes : p # N => pipe'[p] = pipe[p]
      /\ pipe'[N].mode = "message" /\ pipe'[N].name = a /\ pipe'[N].owner = s
      /\ pipe'[N].state = "listening" /\ pipe'[N].client = NULL /\ pipe'[N].data = <<>>
  BY <1>1, <1>2, CreatedFacts DEF CreateServer, Safe
<1>4. PICK n \in Garbage : acceptor' = [acceptor EXCEPT ![s] = [m_address |-> a, m_pipe |-> N, m_counter |-> n]]
  BY DEF CreateServer
<1> HIDE DEF N
<1>5. n \in 0..MaxCounter /\ NULL \notin Pipes /\ NULL \notin Clients
  BY PipeAssumption DEF Pipes
<1> DEFINE v == [m_address |-> a, m_pipe |-> N, m_counter |-> n]
<1>6. v \in AcceptorType /\ v.m_address = a /\ v.m_pipe = N
  BY <1>3, <1>5 DEF AcceptorType
<1> HIDE DEF v
<1>7. /\ acceptor' \in [Acceptors -> AcceptorType] /\ acceptor'[s] = v
      /\ \A r \in Acceptors : r # s => acceptor'[r] = acceptor[r]
  BY <1>4, <1>6 DEF Safe, Typed, v
<1>8. ~Exists(s)
  BY <1>2 DEF Exists, NoAcceptor
<1>9. Typed'
  BY <1>2, <1>3, <1>5, <1>6, <1>7 DEF Safe, Typed, Exists
<1>10. \A r \in Acceptors : Exists(r) => acceptor[r].m_pipe \in Pipes /\ acceptor[r].m_pipe # N /\ r # s
  BY <1>3, <1>8 DEF Safe, Typed, AcceptorType, Exists, Held
<1>11. \A t \in Threads : thread[t].m_waitingPipe # NULL =>
         thread[t].m_waitingPipe \in Pipes /\ thread[t].m_waitingPipe # N
  BY <1>3 DEF Safe, Typed, ThreadType, Held
<1>12. \A p \in dropped : p \in Pipes /\ p # N
  BY <1>3 DEF Safe, Typed, Held
<1>13. Held'
  <2>1. \A p \in Pipes : PipeShape(p)'
    BY <1>3 DEF Safe, Held, PipeShape
  <2>2. \A r \in Acceptors : Exists(r)' =>
          /\ pipe'[acceptor'[r].m_pipe].mode = "message"
          /\ pipe'[acceptor'[r].m_pipe].owner = r
          /\ pipe'[acceptor'[r].m_pipe].name = acceptor'[r].m_address
    BY <1>3, <1>6, <1>7, <1>10 DEF Safe, Held, Exists
  <2>3. \A p \in Pipes : pipe'[p].mode = "message" => \E r \in Acceptors : acceptor'[r].m_pipe = p
    <3>1. SUFFICES ASSUME NEW p \in Pipes, pipe'[p].mode = "message", p # N
                   PROVE  \E r \in Acceptors : acceptor'[r].m_pipe = p
      BY <1>6, <1>7
    <3>2. PICK r \in Acceptors : acceptor[r].m_pipe = p
      BY <1>3, <3>1 DEF Safe, Held
    <3> QED BY <1>5, <1>7, <1>10, <3>2 DEF Exists
  <2> QED BY <1>2, <1>3, <1>11, <1>12, <2>1, <2>2, <2>3 DEF Safe, Held
<1>14. Serving'
  BY <1>2, <1>7, <1>10 DEF Safe, Serving, InWait, Exists
<1>15. Named'
  <2>1. \A p \in Pipes : pipe[p].mode # "none" /\ pipe[p].name = a => pipe[p].mode = "message"
    BY DEF CreateServer, MayCreate, Open
  <2> QED BY <1>2, <1>3, <1>5, <2>1 DEF Safe, Named, Typed
<1>16. Wedging'
  <2>1. \A r \in Acceptors : Flushing(r)' = Flushing(r)
    BY <1>2 DEF Flushing
  <2> QED BY <1>2, <1>3, <1>6, <1>7, <1>10, <2>1 DEF Safe, Wedging, Exists
<1> QED BY <1>9, <1>13, <1>14, <1>15, <1>16 DEF Safe

(***************************************************************************)
(* waitConnection up to its first connectPipe.                              *)
(***************************************************************************)
LEMMA CallWaitConnectionSafe ==
  ASSUME Safe, NEW t \in Threads, NEW s \in Acceptors, CallWaitConnection(t, s)
  PROVE  Safe'
<1> DEFINE N == NewPipe
           n == acceptor[s].m_address \o Digits[acceptor[s].m_counter]
           ok == MayCreate(n, "byte")
           w == IF ok THEN N ELSE NULL
           v == [at |-> "connect", wait |-> "none", acceptor |-> s, name |-> n, m_waitingPipe |-> w]
<1>1. /\ Free # {} /\ thread[t] = Idle /\ acceptor[s] # NoAcceptor /\ Waiting(s) = {}
      /\ acceptor[s].m_counter < MaxCounter /\ UNCHANGED <<client, dropped>>
      /\ pipe' = IF ok THEN [pipe EXCEPT ![N] = Created(n, "byte", s)] ELSE pipe
      /\ thread' = [thread EXCEPT ![t] = v]
      /\ acceptor' = [acceptor EXCEPT ![s].m_counter = @ + 1]
      /\ odd \subseteq odd' /\ odd' \subseteq odd \cup {"clash"}
  BY DEF CallWaitConnection
<1>2. acceptor[s] \in AcceptorType /\ Exists(s) /\ acceptor[s].m_address \in Addresses
  BY <1>1 DEF Safe, Typed
<1>3. n \in Names
  <2>1. acceptor[s].m_counter \in 0..MaxCounter
    BY <1>2 DEF AcceptorType
  <2> QED BY <1>2, <2>1, MadeNames
<1>4. NULL \notin Pipes /\ NULL \notin Clients /\ MaxCounter \in Nat
  BY PipeAssumption DEF Pipes
<1>5. N \in Pipes /\ pipe[N].mode = "none"
  BY <1>1, NewPipeIsFree
<1> HIDE DEF ok
<1>6. /\ pipe' \in [Pipes -> PipeType]
      /\ \A p \in Pipes : p # w => pipe'[p] = pipe[p]
      /\ ok => /\ pipe'[w].mode = "byte" /\ pipe'[w].name = n /\ pipe'[w].owner = s
               /\ pipe'[w].state = "listening" /\ pipe'[w].client = NULL /\ pipe'[w].data = <<>>
  <2>1. CASE ok
    <3> HIDE DEF n
    <3>1. pipe' = [pipe EXCEPT ![NewPipe] = Created(n, "byte", s)] /\ Typed /\ Free # {}
      BY <1>1, <2>1 DEF Safe
    <3> QED BY <1>3, <2>1, <3>1, CreatedFacts
  <2>2. CASE ~ok
    BY <1>1, <2>2 DEF Safe, Typed
  <2> QED BY <2>1, <2>2
<1>7. w = NULL \/ (w = N /\ w \in Pipes /\ pipe[w].mode = "none")
  BY <1>5
<1>8. (ok <=> w # NULL) /\ (\A p \in Pipes : p = w => ok)
  BY <1>4, <1>5
<1> DEFINE b == [acceptor[s] EXCEPT !.m_counter = @ + 1]
<1>9. b \in AcceptorType /\ b.m_pipe = acceptor[s].m_pipe /\ b.m_address = acceptor[s].m_address
  <2>1. acceptor[s].m_counter + 1 \in 0..MaxCounter
    BY <1>1, <1>2, <1>4 DEF AcceptorType
  <2> QED BY <1>2, <2>1 DEF AcceptorType
<1>10. acceptor' = [acceptor EXCEPT ![s] = b]
  BY <1>1
<1> HIDE DEF b, w, n, N
<1>11. /\ acceptor' \in [Acceptors -> AcceptorType]
       /\ \A r \in Acceptors : /\ acceptor'[r].m_pipe = acceptor[r].m_pipe
                               /\ acceptor'[r].m_address = acceptor[r].m_address
                               /\ r # s => acceptor'[r] = acceptor[r]
  BY <1>9, <1>10 DEF Safe, Typed
<1>12. v \in ThreadType /\ v.at = "connect" /\ v.acceptor = s /\ v.name = n /\ v.m_waitingPipe = w
  BY <1>3, <1>7 DEF ThreadType
<1> HIDE DEF v
<1>13. /\ thread' \in [Threads -> ThreadType] /\ thread'[t] = v
       /\ \A u \in Threads : u # t => thread'[u] = thread[u]
  BY <1>1, <1>12 DEF Safe, Typed
<1>14. Typed'
  BY <1>1, <1>2, <1>3, <1>6, <1>11, <1>12, <1>13 DEF Safe, Typed, Exists
<1>15. \A r \in Acceptors : Exists(r) => acceptor[r].m_pipe \in Pipes /\ acceptor[r].m_pipe # w
  BY <1>7 DEF Safe, Typed, AcceptorType, Exists, Held
<1>16. \A u \in Threads : thread[u].m_waitingPipe # NULL =>
         thread[u].m_waitingPipe \in Pipes /\ thread[u].m_waitingPipe # w
  BY <1>7 DEF Safe, Typed, ThreadType, Held
<1>17. \A p \in dropped : p \in Pipes /\ p # w
  BY <1>4, <1>7 DEF Safe, Typed, Held
<1>18. thread[t].m_waitingPipe = NULL /\ ~InWait(t) /\ thread[t].at = "idle"
  BY <1>1 DEF Idle, InWait
<1>19. Held'
  <2>1. \A p \in Pipes : PipeShape(p)'
    BY <1>6, <1>7, <1>8 DEF Safe, Held, PipeShape
  <2>2. \A r \in Acceptors : Exists(r)' =>
          /\ pipe'[acceptor'[r].m_pipe].mode = "message"
          /\ pipe'[acceptor'[r].m_pipe].owner = r
          /\ pipe'[acceptor'[r].m_pipe].name = acceptor'[r].m_address
    BY <1>6, <1>11, <1>15 DEF Safe, Held, Exists
  <2>3. \A u \in Threads : thread'[u].m_waitingPipe # NULL =>
          /\ pipe'[thread'[u].m_waitingPipe].mode = "byte"
          /\ pipe'[thread'[u].m_waitingPipe].owner = thread'[u].acceptor
          /\ pipe'[thread'[u].m_waitingPipe].name = thread'[u].name
          /\ thread'[u].m_waitingPipe \notin dropped'
    BY <1>1, <1>6, <1>8, <1>12, <1>13, <1>16, <1>17 DEF Safe, Held
  <2>4. \A u \in Threads : thread'[u].m_waitingPipe # NULL =>
          \A x \in Threads : thread'[x].m_waitingPipe = thread'[u].m_waitingPipe => x = u
    BY <1>12, <1>13, <1>16 DEF Safe, Held
  <2>5. \A p \in dropped' : pipe'[p].mode = "byte"
    BY <1>1, <1>6, <1>17 DEF Safe, Held
  <2>6. \A p \in Pipes : pipe'[p].mode = "message" => \E r \in Acceptors : acceptor'[r].m_pipe = p
    BY <1>6, <1>7, <1>8, <1>11 DEF Safe, Held
  <2>7. ASSUME NEW p \in Pipes, pipe'[p].mode = "byte", p \notin dropped'
        PROVE  \E u \in Threads : thread'[u].m_waitingPipe = p
    <3>1. CASE p = w
      BY <1>12, <1>13, <3>1
    <3>2. CASE p # w
      <4>1. PICK u \in Threads : thread[u].m_waitingPipe = p
        BY <1>1, <1>6, <2>7, <3>2 DEF Safe, Held
      <4>2. u # t
        BY <1>4, <1>18, <4>1
      <4> QED BY <1>13, <4>1, <4>2
    <3> QED BY <3>1, <3>2
  <2> QED BY <2>1, <2>2, <2>3, <2>4, <2>5, <2>6, <2>7 DEF Held
<1>20. Serving'
  <2>1. \A u \in Threads : InWait(u) => thread[u].acceptor # s
    BY <1>1 DEF Waiting, InWait
  <2>2. \A u \in Threads : u # t => (InWait(u)' <=> InWait(u))
    BY <1>13 DEF InWait
  <2> QED BY <1>2, <1>11, <1>12, <1>13, <2>1, <2>2 DEF Safe, Serving, Exists
<1>21. Named'
  <2>1. ok => \A p \in Pipes : pipe[p].mode # "none" /\ pipe[p].name = n => pipe[p].mode = "byte"
    BY DEF MayCreate, Open, ok
  <2>2. \A p, q \in Pipes : pipe'[p].mode # "none" /\ pipe'[q].mode # "none" /\ pipe'[p].name = pipe'[q].name
                              => pipe'[p].mode = pipe'[q].mode
    BY <1>6, <1>8, <2>1, <1>7 DEF Safe, Named
  <2>3. \A c \in Clients : client'[c].at = "opened" /\ pipe'[client'[c].pipe].client = c
                             => pipe'[client'[c].pipe].mode = "message"
    BY <1>1, <1>4, <1>6, <1>8 DEF Safe, Named, Typed
  <2> QED BY <2>2, <2>3 DEF Named
<1>22. Wedging'
  <2>1. \A r \in Acceptors : Flushing(r) => Flushing(r)'
    BY <1>13, <1>18 DEF Flushing
  <2> QED BY <1>1, <1>6, <1>11, <1>15, <2>1 DEF Safe, Wedging, Exists
<1> QED BY <1>14, <1>19, <1>20, <1>21, <1>22 DEF Safe

(***************************************************************************)
(* CloseHandle at the server's end.                                         *)
(***************************************************************************)
LEMMA CloseInFacts ==
  ASSUME Typed, NEW h, pipe' = CloseIn(pipe, h)
  PROVE  /\ pipe' \in [Pipes -> PipeType]
         /\ \A p \in Pipes : p # h => pipe'[p] = pipe[p]
         /\ \A p \in Pipes : p = h => pipe'[p] = NoPipe
         /\ NoPipe.mode = "none" /\ NoPipe.client = NULL /\ NoPipe.data = <<>>
<1>1. <<>> \in Seq(Names)
  OBVIOUS
<1>2. NoPipe \in PipeType /\ NoPipe.mode = "none" /\ NoPipe.client = NULL /\ NoPipe.data = <<>>
  BY <1>1 DEF NoPipe, PipeType
<1> QED BY <1>2 DEF CloseIn, Typed

(***************************************************************************)
(* ~NamedPipeAcceptor, which closes m_pipe.                                 *)
(***************************************************************************)
LEMMA DestroyAcceptorSafe ==
  ASSUME Safe, NEW s \in Acceptors, DestroyAcceptor(s)
  PROVE  Safe'
<1> DEFINE M == acceptor[s].m_pipe
<1>1. /\ acceptor[s] # NoAcceptor /\ Waiting(s) = {} /\ UNCHANGED <<thread, client, dropped, odd>>
      /\ pipe' = CloseIn(pipe, M) /\ acceptor' = [acceptor EXCEPT ![s] = NoAcceptor]
  BY DEF DestroyAcceptor
<1>2. Exists(s) /\ M \in Pipes /\ pipe[M].mode = "message" /\ pipe[M].owner = s
  BY <1>1 DEF Safe, Typed, AcceptorType, Exists, Held
<1>3. NULL \notin Pipes /\ NULL \notin Clients /\ 0 \in 0..MaxCounter
  BY PipeAssumption DEF Pipes
<1>4. NoAcceptor \in AcceptorType /\ NoAcceptor.m_pipe = NULL
  BY <1>3 DEF NoAcceptor, AcceptorType
<1>5. /\ acceptor' \in [Acceptors -> AcceptorType] /\ acceptor'[s] = NoAcceptor
      /\ \A r \in Acceptors : r # s => acceptor'[r] = acceptor[r]
  BY <1>1, <1>4 DEF Safe, Typed
<1>6. Typed
  BY DEF Safe
<1> HIDE DEF M
<1>7. /\ pipe' \in [Pipes -> PipeType] /\ pipe'[M] = NoPipe
      /\ \A p \in Pipes : p # M => pipe'[p] = pipe[p]
      /\ NoPipe.mode = "none" /\ NoPipe.client = NULL /\ NoPipe.data = <<>>
  BY <1>1, <1>2, <1>6, CloseInFacts
<1>8. Typed'
  BY <1>1, <1>4, <1>5, <1>7 DEF Safe, Typed, Exists
<1>9. \A r \in Acceptors : Exists(r) /\ r # s => acceptor[r].m_pipe \in Pipes /\ acceptor[r].m_pipe # M
  BY <1>2 DEF Safe, Typed, AcceptorType, Exists, Held
<1>10. \A t \in Threads : thread[t].m_waitingPipe # NULL =>
         thread[t].m_waitingPipe \in Pipes /\ thread[t].m_waitingPipe # M
  BY <1>2 DEF Safe, Typed, ThreadType, Held
<1>11. \A p \in dropped : p \in Pipes /\ p # M
  BY <1>2 DEF Safe, Typed, Held
<1>12. Held'
  <2>1. \A p \in Pipes : PipeShape(p)'
    BY <1>7 DEF Safe, Held, PipeShape
  <2>2. \A r \in Acceptors : Exists(r)' =>
          /\ pipe'[acceptor'[r].m_pipe].mode = "message"
          /\ pipe'[acceptor'[r].m_pipe].owner = r
          /\ pipe'[acceptor'[r].m_pipe].name = acceptor'[r].m_address
    BY <1>4, <1>5, <1>7, <1>9 DEF Safe, Held, Exists
  <2>3. \A p \in Pipes : pipe'[p].mode = "message" => \E r \in Acceptors : acceptor'[r].m_pipe = p
    <3>1. SUFFICES ASSUME NEW p \in Pipes, pipe'[p].mode = "message"
                   PROVE  \E r \in Acceptors : acceptor'[r].m_pipe = p
      OBVIOUS
    <3>2. p # M
      BY <1>7, <3>1
    <3>3. PICK r \in Acceptors : acceptor[r].m_pipe = p
      BY <1>7, <3>1, <3>2 DEF Safe, Held
    <3>4. r # s
      BY <3>2, <3>3 DEF M
    <3> QED BY <1>5, <3>3, <3>4
  <2>4. \A t \in Threads : thread'[t].m_waitingPipe # NULL =>
          /\ pipe'[thread'[t].m_waitingPipe].mode = "byte"
          /\ pipe'[thread'[t].m_waitingPipe].owner = thread'[t].acceptor
          /\ pipe'[thread'[t].m_waitingPipe].name = thread'[t].name
          /\ thread'[t].m_waitingPipe \notin dropped'
          /\ \A u \in Threads : thread'[u].m_waitingPipe = thread'[t].m_waitingPipe => u = t
    BY <1>1, <1>7, <1>10 DEF Safe, Held
  <2>5. /\ \A p \in dropped' : pipe'[p].mode = "byte"
        /\ \A p \in Pipes : pipe'[p].mode = "byte" =>
             p \in dropped' \/ \E t \in Threads : thread'[t].m_waitingPipe = p
    BY <1>1, <1>7, <1>11 DEF Safe, Held
  <2> QED BY <2>1, <2>2, <2>3, <2>4, <2>5 DEF Held
<1>13. Serving'
  <2>1. \A u \in Threads : InWait(u) => thread[u].acceptor # s
    BY <1>1 DEF Waiting, InWait
  <2> QED BY <1>1, <1>5, <2>1 DEF Safe, Serving, InWait, Exists
<1>14. Named'
  BY <1>1, <1>2, <1>3, <1>7 DEF Safe, Named, Typed
<1>15. Wedging'
  <2>1. \A r \in Acceptors : Flushing(r)' = Flushing(r)
    BY <1>1 DEF Flushing
  <2> QED BY <1>1, <1>4, <1>5, <1>7, <1>9, <2>1 DEF Safe, Wedging, Exists
<1> QED BY <1>8, <1>12, <1>13, <1>14, <1>15 DEF Safe

(***************************************************************************)
(* A call of waitConnection fails: it closes the pipe it made, which nobody *)
(* else has.                                                                *)
(***************************************************************************)
LEMMA GiveUpSafe ==
  ASSUME Safe, NEW t \in Threads, thread[t].at \in {"connect", "accept"}, GiveUp(t)
  PROVE  Safe'
<1> DEFINE w == thread[t].m_waitingPipe
<1>1. /\ pipe' = CloseIn(pipe, w) /\ thread' = [thread EXCEPT ![t] = Idle]
      /\ UNCHANGED <<acceptor, client, dropped, odd>> /\ Typed
  BY DEF GiveUp, Safe
<1>2. Idle \in ThreadType /\ Idle.at = "idle" /\ Idle.m_waitingPipe = NULL
  BY DEF Idle, ThreadType
<1>3. /\ thread' \in [Threads -> ThreadType] /\ thread'[t] = Idle
      /\ \A u \in Threads : u # t => thread'[u] = thread[u]
  BY <1>1, <1>2 DEF Typed
<1>4. NULL \notin Pipes /\ NULL \notin Clients
  BY PipeAssumption DEF Pipes
<1>5. w # NULL => w \in Pipes /\ pipe[w].mode = "byte" /\ w \notin dropped
                  /\ \A u \in Threads : thread[u].m_waitingPipe = w => u = t
  BY DEF Safe, Typed, ThreadType, Held
<1>6. \A u \in Threads : u # t /\ thread[u].m_waitingPipe # NULL =>
        thread[u].m_waitingPipe \in Pipes /\ thread[u].m_waitingPipe # w
  BY <1>5 DEF Safe, Typed, ThreadType
<1> HIDE DEF w
<1>7. /\ pipe' \in [Pipes -> PipeType]
      /\ \A p \in Pipes : p # w => pipe'[p] = pipe[p]
      /\ \A p \in Pipes : p = w => pipe'[p] = NoPipe
      /\ NoPipe.mode = "none" /\ NoPipe.client = NULL /\ NoPipe.data = <<>>
  BY <1>1, CloseInFacts
<1>8. Typed'
  BY <1>1, <1>2, <1>3, <1>7 DEF Typed, Exists
<1>9. \A r \in Acceptors : Exists(r) => acceptor[r].m_pipe \in Pipes /\ acceptor[r].m_pipe # w
  BY <1>4, <1>5 DEF Safe, Typed, AcceptorType, Exists, Held
<1>10. Held'
  <2>1. \A p \in Pipes : PipeShape(p)'
    BY <1>7 DEF Safe, Held, PipeShape
  <2>2. \A r \in Acceptors : Exists(r)' =>
          /\ pipe'[acceptor'[r].m_pipe].mode = "message"
          /\ pipe'[acceptor'[r].m_pipe].owner = r
          /\ pipe'[acceptor'[r].m_pipe].name = acceptor'[r].m_address
    BY <1>1, <1>7, <1>9 DEF Safe, Held, Exists
  <2>3. \A p \in Pipes : pipe'[p].mode = "message" => \E r \in Acceptors : acceptor'[r].m_pipe = p
    BY <1>1, <1>7 DEF Safe, Held
  <2>4. \A u \in Threads : thread'[u].m_waitingPipe # NULL =>
          /\ pipe'[thread'[u].m_waitingPipe].mode = "byte"
          /\ pipe'[thread'[u].m_waitingPipe].owner = thread'[u].acceptor
          /\ pipe'[thread'[u].m_waitingPipe].name = thread'[u].name
          /\ thread'[u].m_waitingPipe \notin dropped'
    BY <1>1, <1>2, <1>3, <1>6, <1>7 DEF Safe, Held
  <2>5. \A u \in Threads : thread'[u].m_waitingPipe # NULL =>
          \A x \in Threads : thread'[x].m_waitingPipe = thread'[u].m_waitingPipe => x = u
    BY <1>2, <1>3 DEF Safe, Held
  <2>6. \A p \in dropped' : pipe'[p].mode = "byte"
    BY <1>1, <1>4, <1>5, <1>7 DEF Safe, Typed, Held
  <2>7. ASSUME NEW p \in Pipes, pipe'[p].mode = "byte", p \notin dropped'
        PROVE  \E u \in Threads : thread'[u].m_waitingPipe = p
    <3>1. p # w
      BY <1>7, <2>7
    <3>2. PICK u \in Threads : thread[u].m_waitingPipe = p
      BY <1>1, <1>7, <2>7, <3>1 DEF Safe, Held
    <3>3. u # t
      BY <3>1, <3>2 DEF w
    <3> QED BY <1>3, <3>2, <3>3
  <2> QED BY <2>1, <2>2, <2>3, <2>4, <2>5, <2>6, <2>7 DEF Held
<1>11. Serving'
  <2>1. \A u \in Threads : InWait(u)' => InWait(u) /\ u # t
    BY <1>2, <1>3 DEF InWait
  <2> QED BY <1>1, <1>3, <2>1 DEF Safe, Serving, Exists
<1>12. Named'
  <2>1. \A p \in Pipes : pipe'[p].mode # "none" => p # w
    BY <1>7
  <2>2. \A p \in Pipes : pipe'[p].client \in Clients => p # w
    BY <1>4, <1>7
  <2> QED BY <1>1, <1>7, <2>1, <2>2 DEF Safe, Named, Typed
<1>13. Wedging'
  <2>1. \A r \in Acceptors : Flushing(r) => Flushing(r)'
    BY <1>3 DEF Flushing
  <2> QED BY <1>1, <1>7, <1>9, <2>1 DEF Safe, Wedging, Exists
<1> QED BY <1>8, <1>10, <1>11, <1>12, <1>13 DEF Safe

(***************************************************************************)
(* ~NamedPipeLine at the server, which closes nothing.                      *)
(***************************************************************************)
LEMMA DropServerLineSafe ==
  ASSUME Safe, NEW t \in Threads, DropServerLine(t)
  PROVE  Safe'
<1> DEFINE w == thread[t].m_waitingPipe
<1>1. /\ thread[t].at = "line" /\ thread' = [thread EXCEPT ![t] = Idle]
      /\ dropped' = dropped \cup {w} /\ UNCHANGED <<pipe, acceptor, client, odd>>
  BY DEF DropServerLine
<1>2. Idle \in ThreadType /\ Idle.at = "idle" /\ Idle.m_waitingPipe = NULL
  BY DEF Idle, ThreadType
<1>3. /\ thread' \in [Threads -> ThreadType] /\ thread'[t] = Idle
      /\ \A u \in Threads : u # t => thread'[u] = thread[u]
  BY <1>1, <1>2 DEF Safe, Typed
<1>4. w \in Pipes /\ w # NULL
  BY <1>1, PipeAssumption DEF Safe, Typed, Pipes
<1>5. pipe[w].mode = "byte" /\ \A u \in Threads : thread[u].m_waitingPipe = w => u = t
  BY <1>4 DEF Safe, Held
<1> HIDE DEF w
<1>6. Typed'
  BY <1>1, <1>2, <1>3, <1>4 DEF Safe, Typed, Exists
<1>7. Held'
  <2>1. \A p \in Pipes : PipeShape(p)'
    BY <1>1 DEF Safe, Held, PipeShape
  <2>2. \A u \in Threads : thread'[u].m_waitingPipe # NULL =>
          /\ pipe'[thread'[u].m_waitingPipe].mode = "byte"
          /\ pipe'[thread'[u].m_waitingPipe].owner = thread'[u].acceptor
          /\ pipe'[thread'[u].m_waitingPipe].name = thread'[u].name
          /\ thread'[u].m_waitingPipe \notin dropped'
          /\ \A x \in Threads : thread'[x].m_waitingPipe = thread'[u].m_waitingPipe => x = u
    BY <1>1, <1>2, <1>3, <1>5 DEF Safe, Held
  <2>3. ASSUME NEW p \in Pipes, pipe'[p].mode = "byte", p \notin dropped'
        PROVE  \E u \in Threads : thread'[u].m_waitingPipe = p
    <3>1. p # w
      BY <1>1, <2>3
    <3>2. PICK u \in Threads : thread[u].m_waitingPipe = p
      BY <1>1, <2>3 DEF Safe, Held
    <3>3. u # t
      BY <3>1, <3>2 DEF w
    <3> QED BY <1>3, <3>2, <3>3
  <2> QED BY <1>1, <1>5, <2>1, <2>2, <2>3 DEF Safe, Held, Exists
<1>8. Serving'
  <2>1. \A u \in Threads : InWait(u)' => InWait(u) /\ u # t
    BY <1>2, <1>3 DEF InWait
  <2> QED BY <1>1, <1>3, <2>1 DEF Safe, Serving, Exists
<1>9. Named'
  BY <1>1 DEF Safe, Named
<1>10. Wedging'
  <2>1. \A r \in Acceptors : Flushing(r) => Flushing(r)'
    BY <1>1, <1>3 DEF Flushing
  <2> QED BY <1>1, <2>1 DEF Safe, Wedging, Exists
<1> QED BY <1>6, <1>7, <1>8, <1>9, <1>10 DEF Safe

(***************************************************************************)
(* A client lets go of its line or of its name and leaves every pipe as it  *)
(* is.                                                                      *)
(***************************************************************************)
LEMMA LeaveSafe ==
  ASSUME Safe, NEW c \in Clients, client' = [client EXCEPT ![c] = Outside],
         UNCHANGED <<pipe, acceptor, thread, dropped, odd>>
  PROVE  Safe'
<1>1. Outside \in ClientType /\ Outside.at = "idle"
  BY DEF Outside, ClientType
<1>2. /\ client' \in [Clients -> ClientType] /\ client'[c] = Outside
      /\ \A d \in Clients : d # c => client'[d] = client[d]
  BY <1>1 DEF Safe, Typed
<1>3. Typed'
  BY <1>1, <1>2 DEF Safe, Typed, Exists
<1>4. \A p \in Pipes : PipeShape(p)'
  BY DEF Safe, Held, PipeShape
<1>5. Keeps
  BY DEF Keeps, InWait
<1>6. Named'
  BY <1>1, <1>2 DEF Safe, Named
<1>7. Wedging'
  BY DEF Safe, Wedging, Exists, Flushing
<1> QED BY <1>3, <1>4, <1>5, <1>6, <1>7, KeepsHeld DEF Safe

(***************************************************************************)
(* The constructor of NamedPipeLine opens the acceptor's pipe.              *)
(***************************************************************************)
LEMMA OpenServerPipeSafe ==
  ASSUME Safe, NEW c \in Clients, NEW a \in Addresses, OpenServerPipe(c, a)
  PROVE  Safe'
<1>1. PICK p \in Listening(a) :
        /\ pipe' = [pipe EXCEPT ![p] = Connected(p, c)]
        /\ \/ /\ pipe[p].mode = "message"
              /\ client' = [client EXCEPT ![c] = [at |-> "opened", name |-> <<>>, pipe |-> p]]
              /\ UNCHANGED odd
           \/ /\ pipe[p].mode = "byte"
              /\ odd' = odd \cup {"clash"}
              /\ UNCHANGED client
  BY DEF OpenServerPipe
<1>2. p \in Pipes /\ pipe[p].mode # "none" /\ pipe[p].state = "listening"
  BY DEF Listening, Open
<1>3. client[c].at # "opened" /\ UNCHANGED <<acceptor, thread, dropped>>
  BY DEF OpenServerPipe, Outside
<1>4. odd \subseteq {"crash", "clash"} /\ client \in [Clients -> ClientType]
  BY DEF Safe, Typed
<1>5. CASE pipe[p].mode = "message"
  <2> DEFINE v == [at |-> "opened", name |-> <<>>, pipe |-> p]
  <2>1. v \in ClientType /\ v.at = "opened" /\ v.pipe = p
    BY <1>2 DEF ClientType
  <2>2. client' = [client EXCEPT ![c] = v] /\ odd' = odd
    BY <1>1, <1>5
  <2> HIDE DEF v
  <2> QED BY <1>1, <1>2, <1>3, <1>4, <1>5, <2>1, <2>2, ConnectSafe
<1>6. CASE pipe[p].mode = "byte"
  <2> DEFINE v == client[c]
  <2>1. v \in ClientType /\ client' = [client EXCEPT ![c] = v] /\ v = client[c]
    BY <1>1, <1>4, <1>6
  <2>2. odd' \subseteq {"crash", "clash"} /\ odd \subseteq odd'
    BY <1>1, <1>4, <1>6
  <2> HIDE DEF v
  <2> QED BY <1>1, <1>2, <1>3, <2>1, <2>2, ConnectSafe
<1> QED BY <1>1, <1>5, <1>6

(***************************************************************************)
(* It reads the name and closes the pipe.                                   *)
(***************************************************************************)
LEMMA ReadNameSafe ==
  ASSUME Safe, NEW c \in Clients, ReadName(c)
  PROVE  Safe'
<1> DEFINE p == client[c].pipe
<1>1. /\ client[c].at = "opened" /\ pipe' = HangUp(c, {p})
      /\ UNCHANGED <<acceptor, thread, dropped, odd>>
  BY DEF ReadName
<1>2. p \in Pipes /\ client[c] \in ClientType /\ pipe[p].data \in Seq(Names)
  BY <1>1 DEF Safe, Typed, PipeType
<1>3. odd' \subseteq {"crash", "clash"} /\ odd \subseteq odd' /\ {p} \in SUBSET Pipes
  BY <1>1, <1>2 DEF Safe, Typed
<1>4. CASE pipe[p].client = c /\ pipe[p].data # <<>>
  <2> DEFINE v == [client[c] EXCEPT !.at = "told", !.name = Head(pipe[p].data), !.pipe = NULL]
  <2>1. Head(pipe[p].data) \in Names
    BY <1>2, <1>4
  <2>2. v \in ClientType /\ v.at = "told"
    BY <1>2, <2>1 DEF ClientType
  <2>3. client' = [client EXCEPT ![c] = v]
    BY <1>4 DEF ReadName
  <2> HIDE DEF v, p
  <2>4. \A q \in {p} : pipe[q].client = c => pipe[q].data # <<>>
    BY <1>4
  <2> QED BY <1>1, <1>3, <2>2, <2>3, <2>4, HangUpSafe
<1>5. CASE pipe[p].client # c
  <2>1. client' = [client EXCEPT ![c] = Outside] /\ Outside \in ClientType
    BY <1>5 DEF ReadName, Outside, ClientType
  <2> HIDE DEF p
  <2>2. \A q \in {p} : pipe[q].client = c => pipe[q].data # <<>>
    BY <1>5
  <2> QED BY <1>1, <1>3, <2>1, <2>2, HangUpSafe
<1> QED BY <1>4, <1>5 DEF ReadName

(***************************************************************************)
(* It opens the pipe of that name, its line.                                *)
(***************************************************************************)
LEMMA OpenLineSafe ==
  ASSUME Safe, NEW c \in Clients, OpenLine(c)
  PROVE  Safe'
<1>1. client[c].at = "told" /\ UNCHANGED <<acceptor, thread, dropped, odd>>
  BY DEF OpenLine
<1>2. ASSUME NEW p \in Listening(client[c].name), pipe' = [pipe EXCEPT ![p] = Connected(p, c)],
             client' = [client EXCEPT ![c].at = "line", ![c].pipe = p]
      PROVE  Safe'
  <2> DEFINE v == [client[c] EXCEPT !.at = "line", !.pipe = p]
  <2>1. p \in Pipes /\ pipe[p].mode # "none" /\ pipe[p].state = "listening"
    BY DEF Listening, Open
  <2>2. client[c] \in ClientType /\ odd' \subseteq {"crash", "clash"} /\ odd \subseteq odd'
    BY <1>1 DEF Safe, Typed
  <2>3. v \in ClientType /\ v.at = "line" /\ v.pipe = p
    BY <2>1, <2>2 DEF ClientType
  <2>4. client' = [client EXCEPT ![c] = v]
    BY <1>2
  <2> HIDE DEF v
  <2>5. client[c].at # "opened"
    BY <1>1
  <2> QED BY <1>1, <1>2, <2>1, <2>2, <2>3, <2>4, <2>5, ConnectSafe
<1>3. ASSUME client' = [client EXCEPT ![c] = Outside], UNCHANGED pipe
      PROVE  Safe'
  BY <1>1, <1>3, LeaveSafe
<1> QED BY <1>2, <1>3 DEF OpenLine

(***************************************************************************)
(* A client dies.                                                           *)
(***************************************************************************)
LEMMA CrashSafe ==
  ASSUME Safe, NEW c \in Clients, Crash(c)
  PROVE  Safe'
<1>1. /\ pipe' = HangUp(c, Pipes) /\ client' = [client EXCEPT ![c] = Outside]
      /\ odd' = odd \cup {"crash"} /\ UNCHANGED <<acceptor, thread, dropped>>
  BY DEF Crash
<1>2. Outside \in ClientType /\ Pipes \in SUBSET Pipes
  BY DEF Outside, ClientType
<1>3. odd' \subseteq {"crash", "clash"} /\ odd \subseteq odd' /\ "crash" \in odd'
  BY <1>1 DEF Safe, Typed
<1> QED BY <1>1, <1>2, <1>3, HangUpSafe

(***************************************************************************)
(* Every step of the system keeps Safe.                                     *)
(***************************************************************************)
LEMMA SafeStep ==
  ASSUME Safe, [Next]_vars
  PROVE  Safe'
<1>1. CASE UNCHANGED vars
  BY <1>1 DEF vars, Safe, Typed, Held, Serving, Named, Wedging, PipeShape, Exists, InWait, Flushing
<1>2. ASSUME NEW s \in Acceptors, NEW a \in Addresses, CreateServer(s, a) PROVE Safe'
  BY <1>2, CreateServerSafe
<1>3. ASSUME NEW s \in Acceptors, DestroyAcceptor(s) PROVE Safe'
  BY <1>3, DestroyAcceptorSafe
<1>4. ASSUME NEW t \in Threads, NEW s \in Acceptors, CallWaitConnection(t, s) PROVE Safe'
  BY <1>4, CallWaitConnectionSafe
<1>5. ASSUME NEW t \in Threads, InCall(t) PROVE Safe'
  <2>1. CASE Listen(t)
    BY <2>1, ListenSafe
  <2>2. CASE TellName(t)
    BY <2>2, TellNameSafe
  <2>3. CASE ClientGone(t)
    BY <2>3, GiveUpSafe DEF ClientGone
  <2>4. CASE Disconnect(t)
    BY <2>4, DisconnectSafe
  <2>5. CASE Accept(t)
    BY <2>5, LineSafe, GiveUpSafe DEF Accept
  <2>6. CASE ListenForLine(t)
    BY <2>6, ListenForLineSafe
  <2> QED BY <1>5, <2>1, <2>2, <2>3, <2>4, <2>5, <2>6 DEF InCall
<1>6. ASSUME NEW t \in Threads, DropServerLine(t) PROVE Safe'
  BY <1>6, DropServerLineSafe
<1>7. ASSUME NEW c \in Clients, NEW a \in Addresses, OpenServerPipe(c, a) PROVE Safe'
  BY <1>7, OpenServerPipeSafe
<1>8. ASSUME NEW c \in Clients, ReadName(c) PROVE Safe'
  BY <1>8, ReadNameSafe
<1>9. ASSUME NEW c \in Clients, OpenLine(c) PROVE Safe'
  BY <1>9, OpenLineSafe
<1>10. ASSUME NEW c \in Clients, DropClientLine(c) PROVE Safe'
  BY <1>10, LeaveSafe DEF DropClientLine
<1>11. ASSUME NEW c \in Clients, Crash(c) PROVE Safe'
  BY <1>11, CrashSafe
<1> QED BY <1>1, <1>2, <1>3, <1>4, <1>5, <1>6, <1>7, <1>8, <1>9, <1>10, <1>11 DEF Next

-------------------------------------------------------------------------------
\* Quiet, for every action, while no client dies and no names clash.

(***************************************************************************)
(* What the parts of Safe say of the pipes that acceptors and threads have. *)
(***************************************************************************)
LEMMA Holders ==
  ASSUME Safe
  PROVE  /\ NULL \notin Pipes /\ NULL \notin Clients
         /\ \A s \in Acceptors : Exists(s) =>
              /\ acceptor[s].m_pipe \in Pipes /\ pipe[acceptor[s].m_pipe].mode = "message"
              /\ pipe[acceptor[s].m_pipe].owner = s
         /\ \A t \in Threads : thread[t].m_waitingPipe # NULL =>
              /\ thread[t].m_waitingPipe \in Pipes /\ pipe[thread[t].m_waitingPipe].mode = "byte"
              /\ pipe[thread[t].m_waitingPipe].owner = thread[t].acceptor
              /\ pipe[thread[t].m_waitingPipe].name = thread[t].name
              /\ \A u \in Threads : thread[u].m_waitingPipe = thread[t].m_waitingPipe => u = t
         /\ \A t \in Threads : InWait(t) => Rendezvous(t) \in Pipes /\ pipe[Rendezvous(t)].mode = "message"
<1>1. NULL \notin Pipes /\ NULL \notin Clients
  BY PipeAssumption DEF Pipes
<1>2. \A s \in Acceptors : Exists(s) => acceptor[s].m_pipe \in Pipes
  BY DEF Safe, Typed, AcceptorType, Exists
<1>3. \A t \in Threads : thread[t].m_waitingPipe # NULL => thread[t].m_waitingPipe \in Pipes
  BY DEF Safe, Typed, ThreadType
<1>4. \A t \in Threads : InWait(t) => Rendezvous(t) \in Pipes /\ pipe[Rendezvous(t)].mode = "message"
  BY RendezvousFacts
<1> QED BY <1>1, <1>2, <1>3, <1>4 DEF Safe, Held

(***************************************************************************)
(* Two calls of waitConnection never wait for the same name.                *)
(***************************************************************************)
LEMMA OneCallPerName ==
  ASSUME Safe, Quiet, NEW t \in Threads, NEW u \in Threads, InWait(t), InWait(u),
         thread[t].name = thread[u].name
  PROVE  t = u
<1>1. thread[t].m_waitingPipe # NULL /\ thread[u].m_waitingPipe # NULL
  BY DEF Quiet, Meeting
<1> DEFINE p == thread[t].m_waitingPipe
           q == thread[u].m_waitingPipe
<1>2. /\ p \in Pipes /\ pipe[p].mode = "byte" /\ pipe[p].owner = thread[t].acceptor /\ pipe[p].name = thread[t].name
      /\ q \in Pipes /\ pipe[q].mode = "byte" /\ pipe[q].owner = thread[u].acceptor /\ pipe[q].name = thread[u].name
  BY <1>1, Holders
<1> HIDE DEF p, q
<1>3. pipe[q].owner = pipe[p].owner
  BY <1>2 DEF Quiet, Private
<1> QED BY <1>2, <1>3 DEF Safe, Serving

(***************************************************************************)
(* The only pipe that listens for a name that a call waits for is the one   *)
(* that the call made.                                                      *)
(***************************************************************************)
LEMMA OneListens ==
  ASSUME Safe, Quiet, NEW t \in Threads, InWait(t), NEW q \in Listening(thread[t].name)
  PROVE  q = thread[t].m_waitingPipe
<1> DEFINE p == thread[t].m_waitingPipe
<1>1. p # NULL
  BY DEF Quiet, Meeting
<1>2. p \in Pipes /\ pipe[p].mode = "byte" /\ pipe[p].name = thread[t].name
  BY <1>1, Holders
<1>3. q \in Pipes /\ pipe[q].mode # "none" /\ pipe[q].name = thread[t].name /\ pipe[q].state = "listening"
  BY DEF Listening, Open
<1> HIDE DEF p
<1>4. pipe[q].mode = "byte"
  BY <1>2, <1>3 DEF Safe, Named
<1>5. PICK u \in Threads : InWait(u) /\ thread[u].m_waitingPipe = q
  BY <1>3, <1>4 DEF Quiet, Private
<1>6. thread[u].name = thread[t].name
  BY <1>3, <1>5, Holders
<1>7. u = t
  BY <1>5, <1>6, OneCallPerName
<1> QED BY <1>5, <1>7

(***************************************************************************)
(* Without a crash and a clash no call of waitConnection finds its client   *)
(* gone.                                                                    *)
(***************************************************************************)
LEMMA NobodyGivesUp ==
  ASSUME Safe, Quiet, odd = {}, NEW t \in Threads
  PROVE  /\ thread[t].at = "connect" => pipe[Rendezvous(t)].state # "closing"
         /\ thread[t].at = "accept" => /\ thread[t].m_waitingPipe # NULL
                                       /\ pipe[thread[t].m_waitingPipe].state \notin {"none", "closing"}
<1>1. ASSUME thread[t].at = "connect", pipe[Rendezvous(t)].state = "closing" PROVE FALSE
  <2>1. InWait(t) /\ thread[t].at = "connect" /\ pipe[Rendezvous(t)].state = "closing"
    BY <1>1 DEF InWait
  <2>2. thread[t].acceptor \in Acceptors /\ Exists(thread[t].acceptor)
    BY <2>1 DEF Safe, Serving
  <2>3. Flushing(thread[t].acceptor)
    BY <2>1, <2>2 DEF Safe, Wedging, Rendezvous
  <2>4. PICK u \in Threads : thread[u].at = "flush" /\ thread[u].acceptor = thread[t].acceptor
    BY <2>3 DEF Flushing
  <2>5. InWait(u)
    BY <2>4 DEF InWait
  <2> QED BY <2>1, <2>4, <2>5 DEF Safe, Serving
<1>2. ASSUME thread[t].at = "accept"
      PROVE  /\ thread[t].m_waitingPipe # NULL
             /\ pipe[thread[t].m_waitingPipe].state \notin {"none", "closing"}
  <2>1. thread[t].m_waitingPipe # NULL
    BY <1>2 DEF Quiet, Meeting, InWait
  <2>2. thread[t].m_waitingPipe \in Pipes /\ pipe[thread[t].m_waitingPipe].mode = "byte"
    BY <2>1, Holders
  <2> QED BY <2>1, <2>2 DEF Quiet, Private
<1> QED BY <1>1, <1>2

(***************************************************************************)
(* An acceptor comes into being.                                            *)
(***************************************************************************)
LEMMA CreateServerQuiet ==
  ASSUME Safe, Quiet, NEW s \in Acceptors, NEW a \in Addresses, CreateServer(s, a)
  PROVE  Quiet'
<1> DEFINE N == NewPipe
<1>1. a \in Names /\ Typed
  BY DEF Names, Safe
<1>2. Free # {} /\ acceptor[s] = NoAcceptor /\ UNCHANGED <<thread, client>>
  BY DEF CreateServer
<1>3. /\ N \in Pipes /\ pipe[N].mode = "none"
      /\ \A p \in Pipes : p # N => pipe'[p] = pipe[p]
      /\ pipe'[N].mode = "message" /\ pipe'[N].name = a
  BY <1>1, <1>2, CreatedFacts DEF CreateServer
<1>4. \A r \in Acceptors : Exists(r) => acceptor'[r] = acceptor[r]
  BY <1>2 DEF CreateServer, Exists, NoAcceptor, Safe, Typed
<1> HIDE DEF N
<1>5. \A t \in Threads : InWait(t) => Rendezvous(t)' = Rendezvous(t) /\ Rendezvous(t) \in Pipes /\ Rendezvous(t) # N
  BY <1>2, <1>3, <1>4, Holders DEF Rendezvous, Safe, Serving
<1>6. \A t \in Threads : thread[t].m_waitingPipe # NULL => StateOf(t)' = StateOf(t)
  BY <1>2, <1>3, Holders DEF StateOf
<1>7. \A t \in Threads : Meeting(t)'
  <2>1. SUFFICES ASSUME NEW t \in Threads PROVE Meeting(t)'
    OBVIOUS
  <2>2. Meeting(t) /\ InWait(t)' = InWait(t)
    BY <1>2 DEF Quiet, InWait
  <2>3. InWait(t) => pipe'[Rendezvous(t)'] = pipe[Rendezvous(t)]
    BY <1>3, <1>5
  <2>4. \A c \in Clients : IsTold(c, t)' = IsTold(c, t)
    BY <1>2 DEF IsTold
  <2> QED BY <1>2, <1>6, <2>2, <2>3, <2>4 DEF Meeting, InWait
<1>8. \A c \in Clients : Expected(c)'
  <2>1. SUFFICES ASSUME NEW c \in Clients PROVE Expected(c)'
    OBVIOUS
  <2>2. \A t \in Threads : thread[t].at \in {"flush", "accept"} =>
          /\ StateOf(t)' = StateOf(t) /\ pipe'[Rendezvous(t)'] = pipe[Rendezvous(t)]
    BY <1>3, <1>5, <1>6 DEF Quiet, Meeting, InWait
  <2>3. client[c].at = "line" => client[c].pipe \in Pipes /\ pipe'[client[c].pipe] = pipe[client[c].pipe]
    BY <1>3 DEF Safe, Typed, Quiet, Expected
  <2> QED BY <1>2, <2>2, <2>3 DEF Quiet, Expected
<1>9. \A p \in Pipes : Private(p)'
  <2>1. SUFFICES ASSUME NEW p \in Pipes, pipe'[p].mode = "byte" PROVE Private(p)'
    BY DEF Private
  <2>2. p # N /\ pipe'[p] = pipe[p] /\ pipe[p].mode = "byte"
    BY <1>3, <2>1
  <2>3. pipe[p].name # a
    BY <2>2 DEF CreateServer, MayCreate, Open
  <2> QED BY <1>2, <1>3, <2>2, <2>3 DEF Quiet, Private, InWait
<1> QED BY <1>7, <1>8, <1>9 DEF Quiet

(***************************************************************************)
(* An acceptor that nobody waits on is destroyed.                           *)
(***************************************************************************)
LEMMA DestroyAcceptorQuiet ==
  ASSUME Safe, Quiet, NEW s \in Acceptors, DestroyAcceptor(s)
  PROVE  Quiet'
<1> DEFINE M == acceptor[s].m_pipe
<1>1. /\ acceptor[s] # NoAcceptor /\ Waiting(s) = {} /\ UNCHANGED <<thread, client>>
      /\ pipe' = CloseIn(pipe, M) /\ acceptor' = [acceptor EXCEPT ![s] = NoAcceptor]
  BY DEF DestroyAcceptor
<1>2. Exists(s) /\ M \in Pipes /\ pipe[M].mode = "message" /\ pipe[M].owner = s
  BY <1>1, Holders DEF Safe, Typed
<1>3. \A r \in Acceptors : r # s => acceptor'[r] = acceptor[r]
  BY <1>1 DEF Safe, Typed
<1>4. Typed
  BY DEF Safe
<1>5. \A r \in Acceptors : Exists(r) /\ r # s => acceptor[r].m_pipe # M
  BY <1>2, Holders
<1> HIDE DEF M
<1>6. pipe'[M].mode = "none" /\ \A p \in Pipes : p # M => pipe'[p] = pipe[p]
  BY <1>1, <1>2, <1>4, CloseInFacts
<1>7. \A t \in Threads : InWait(t) => Rendezvous(t)' = Rendezvous(t) /\ Rendezvous(t) \in Pipes /\ Rendezvous(t) # M
  <2>1. \A t \in Threads : InWait(t) => thread[t].acceptor # s
    BY <1>1 DEF Waiting, InWait
  <2> QED BY <1>1, <1>3, <1>5, <2>1, Holders DEF Rendezvous, Safe, Serving
<1>8. \A t \in Threads : thread[t].m_waitingPipe # NULL => StateOf(t)' = StateOf(t)
  BY <1>1, <1>2, <1>6, Holders DEF StateOf
<1>9. \A t \in Threads : Meeting(t)'
  <2>1. SUFFICES ASSUME NEW t \in Threads PROVE Meeting(t)'
    OBVIOUS
  <2>2. Meeting(t) /\ InWait(t)' = InWait(t)
    BY <1>1 DEF Quiet, InWait
  <2>3. InWait(t) => pipe'[Rendezvous(t)'] = pipe[Rendezvous(t)]
    BY <1>6, <1>7
  <2>4. \A c \in Clients : IsTold(c, t)' = IsTold(c, t)
    BY <1>1 DEF IsTold
  <2> QED BY <1>1, <1>8, <2>2, <2>3, <2>4 DEF Meeting, InWait
<1>10. \A c \in Clients : Expected(c)'
  <2>1. SUFFICES ASSUME NEW c \in Clients PROVE Expected(c)'
    OBVIOUS
  <2>2. \A t \in Threads : thread[t].at \in {"flush", "accept"} =>
          /\ StateOf(t)' = StateOf(t) /\ pipe'[Rendezvous(t)'] = pipe[Rendezvous(t)]
    BY <1>6, <1>7, <1>8 DEF Quiet, Meeting, InWait
  <2>3. client[c].at = "line" => client[c].pipe \in Pipes /\ pipe'[client[c].pipe] = pipe[client[c].pipe]
    BY <1>2, <1>6 DEF Safe, Typed, Quiet, Expected
  <2> QED BY <1>1, <2>2, <2>3 DEF Quiet, Expected
<1>11. \A p \in Pipes : Private(p)'
  <2>1. SUFFICES ASSUME NEW p \in Pipes, pipe'[p].mode = "byte" PROVE Private(p)'
    BY DEF Private
  <2>2. p # M /\ pipe'[p] = pipe[p] /\ pipe[p].mode = "byte"
    BY <1>6, <2>1
  <2> QED BY <1>1, <1>6, <2>2 DEF Quiet, Private, InWait
<1> QED BY <1>9, <1>10, <1>11 DEF Quiet

(***************************************************************************)
(* waitConnection is called and its new name is nobody else's: its pipe is  *)
(* made.                                                                    *)
(***************************************************************************)
LEMMA CallWaitConnectionQuiet ==
  ASSUME Safe, Quiet, NEW t \in Threads, NEW s \in Acceptors, CallWaitConnection(t, s), odd' = {}
  PROVE  Quiet'
<1> DEFINE N == NewPipe
           n == acceptor[s].m_address \o Digits[acceptor[s].m_counter]
<1>1. /\ Free # {} /\ thread[t] = Idle /\ acceptor[s] # NoAcceptor /\ UNCHANGED client
      /\ acceptor' = [acceptor EXCEPT ![s].m_counter = @ + 1]
  BY DEF CallWaitConnection
<1>2. acceptor[s] \in AcceptorType /\ Exists(s) /\ acceptor[s].m_address \in Addresses /\ Typed
  BY <1>1 DEF Safe, Typed
<1>3. acceptor[s].m_counter \in 0..MaxCounter /\ MaxCounter \in Nat
  BY <1>2, PipeAssumption DEF AcceptorType
<1>4. n \in Names
  BY <1>2, <1>3, MadeNames
<1>5. acceptor[s].m_counter \in Nat
  BY <1>3
<1>6. n # acceptor[s].m_address
  BY <1>2, <1>5, NameIsLonger
<1>7. ASSUME NEW q \in Open, pipe[q].name = n PROVE pipe[q].owner = s
  <2>1. odd' = odd \cup {"clash" : p \in {x \in Open : pipe[x].name = n /\ pipe[x].owner # s}}
    BY DEF CallWaitConnection
  <2> HIDE DEF n
  <2>2. ASSUME pipe[q].owner # s PROVE FALSE
    <3>1. q \in {x \in Open : pipe[x].name = n /\ pipe[x].owner # s}
      BY <1>7, <2>2
    <3>2. "clash" \in odd'
      BY <2>1, <3>1
    <3> QED BY <3>2
  <2> QED BY <2>2
<1>8. ASSUME NEW q \in Open, pipe[q].name = n PROVE pipe[q].mode = "byte"
  <2>1. q \in Pipes /\ pipe[q].mode # "none" /\ pipe[q] \in PipeType
    BY DEF Open, Safe, Typed
  <2>2. pipe[q].owner = s
    BY <1>7, <1>8
  <2>3. ASSUME pipe[q].mode = "message" PROVE FALSE
    <3>1. PICK r \in Acceptors : acceptor[r].m_pipe = q
      BY <2>1, <2>3 DEF Safe, Held
    <3>2. Exists(r)
      BY <2>1, <3>1, Holders DEF Exists
    <3>3. r = s /\ pipe[q].name = acceptor[s].m_address
      BY <2>2, <3>1, <3>2 DEF Safe, Held
    <3> QED BY <1>6, <1>8, <3>3
  <2> QED BY <2>1, <2>3 DEF PipeType
<1>9. MayCreate(n, "byte")
  BY <1>8 DEF MayCreate
<1> DEFINE v == [at |-> "connect", wait |-> "none", acceptor |-> s, name |-> n, m_waitingPipe |-> N]
<1>10. /\ pipe' = [pipe EXCEPT ![N] = Created(n, "byte", s)]
       /\ thread' = [thread EXCEPT ![t] = v]
  BY <1>9 DEF CallWaitConnection
<1>11. v.at = "connect" /\ v.acceptor = s /\ v.name = n /\ v.m_waitingPipe = N
  OBVIOUS
<1>12. /\ N \in Pipes /\ pipe[N].mode = "none"
       /\ \A p \in Pipes : p # N => pipe'[p] = pipe[p]
       /\ pipe'[N].mode = "byte" /\ pipe'[N].name = n /\ pipe'[N].owner = s
       /\ pipe'[N].state = "listening"
  <2> HIDE DEF n
  <2> QED BY <1>1, <1>2, <1>4, <1>10, CreatedFacts
<1> HIDE DEF n, N, v
<1>13. thread'[t] = v /\ \A u \in Threads : u # t => thread'[u] = thread[u]
  BY <1>10 DEF Safe, Typed
<1>14. \A r \in Acceptors : acceptor'[r].m_pipe = acceptor[r].m_pipe
  BY <1>1 DEF Safe, Typed, AcceptorType
<1>15. thread[t].at = "idle" /\ ~InWait(t) /\ thread[t].m_waitingPipe = NULL
  BY <1>1 DEF Idle, InWait
<1>16. N # NULL
  BY <1>12, Holders
<1>17. \A u \in Threads : u # t /\ InWait(u) =>
         /\ Rendezvous(u)' = Rendezvous(u) /\ Rendezvous(u) \in Pipes /\ Rendezvous(u) # N
  BY <1>12, <1>13, <1>14, Holders DEF Rendezvous, Safe, Serving
<1>18. \A u \in Threads : u # t /\ thread[u].m_waitingPipe # NULL => StateOf(u)' = StateOf(u)
  BY <1>12, <1>13, Holders DEF StateOf
<1>19. \A u \in Threads : Meeting(u)'
  <2>1. SUFFICES ASSUME NEW u \in Threads PROVE Meeting(u)'
    OBVIOUS
  <2>2. CASE u = t
    BY <1>11, <1>12, <1>13, <1>16, <2>2 DEF Meeting, InWait, StateOf
  <2>3. CASE u # t
    <3>1. Meeting(u) /\ InWait(u)' = InWait(u) /\ thread'[u] = thread[u]
      BY <1>13, <2>3 DEF Quiet, InWait
    <3>2. InWait(u) => pipe'[Rendezvous(u)'] = pipe[Rendezvous(u)]
      BY <1>12, <1>17, <2>3
    <3>3. \A c \in Clients : IsTold(c, u)' = IsTold(c, u)
      BY <1>1, <3>1 DEF IsTold
    <3> QED BY <1>1, <1>18, <2>3, <3>1, <3>2, <3>3 DEF Meeting, InWait
  <2> QED BY <2>2, <2>3
<1>20. \A c \in Clients : Expected(c)'
  <2>1. SUFFICES ASSUME NEW c \in Clients PROVE Expected(c)'
    OBVIOUS
  <2>2. \A u \in Threads : thread[u].at \in {"flush", "accept"} =>
          /\ thread'[u] = thread[u]
          /\ StateOf(u)' = StateOf(u) /\ pipe'[Rendezvous(u)'] = pipe[Rendezvous(u)]
    BY <1>12, <1>13, <1>15, <1>17, <1>18 DEF Quiet, Meeting, InWait
  <2>3. client[c].at = "line" => client[c].pipe \in Pipes /\ pipe'[client[c].pipe] = pipe[client[c].pipe]
    BY <1>12 DEF Safe, Typed, Quiet, Expected
  <2> QED BY <1>1, <2>2, <2>3 DEF Quiet, Expected
<1>21. \A p \in Pipes : Private(p)'
  <2>1. SUFFICES ASSUME NEW p \in Pipes, pipe'[p].mode = "byte" PROVE Private(p)'
    BY DEF Private
  <2>2. \A q \in Pipes : pipe[q].mode # "none" /\ pipe[q].name = n => pipe[q].owner = s
    BY <1>7 DEF Open
  <2>3. InWait(t)' /\ thread'[t].m_waitingPipe = N
    BY <1>11, <1>13 DEF InWait
  <2>4. CASE p = N
    BY <1>12, <2>2, <2>3, <2>4 DEF Private
  <2>5. CASE p # N
    <3>1. pipe'[p] = pipe[p] /\ pipe[p].mode = "byte" /\ Private(p)
      BY <1>12, <2>1, <2>5 DEF Quiet
    <3>2. \A u \in Threads : InWait(u) => InWait(u)' /\ thread'[u] = thread[u]
      BY <1>13, <1>15 DEF InWait
    <3>3. \A q \in Pipes : pipe'[q].mode # "none" /\ pipe'[q].name = pipe'[p].name => pipe'[q].owner = pipe'[p].owner
      BY <1>12, <2>2, <3>1 DEF Private
    <3> QED BY <3>1, <3>2, <3>3 DEF Private
  <2> QED BY <2>4, <2>5
<1> QED BY <1>19, <1>20, <1>21 DEF Quiet

(***************************************************************************)
(* A step that changes only the pipe of an acceptor keeps the pipes made    *)
(* for clients private.                                                     *)
(***************************************************************************)
LEMMA RendezvousKeepsPrivate ==
  ASSUME Safe, Quiet, NEW x \in Pipes, pipe[x].mode = "message",
         \A p \in Pipes : p # x => pipe'[p] = pipe[p],
         pipe'[x].mode = pipe[x].mode, pipe'[x].name = pipe[x].name, pipe'[x].owner = pipe[x].owner,
         \A u \in Threads : InWait(u) => InWait(u)' /\ thread'[u].m_waitingPipe = thread[u].m_waitingPipe
  PROVE  \A p \in Pipes : Private(p)'
<1>1. SUFFICES ASSUME NEW p \in Pipes, pipe'[p].mode = "byte" PROVE Private(p)'
  BY DEF Private
<1>2. p # x /\ pipe'[p] = pipe[p] /\ pipe[p].mode = "byte" /\ Private(p)
  BY <1>1 DEF Quiet
<1>3. \A q \in Pipes : pipe'[q].mode # "none" /\ pipe'[q].name = pipe'[p].name => pipe'[q].owner = pipe'[p].owner
  BY <1>2 DEF Private
<1> QED BY <1>2, <1>3 DEF Private

(***************************************************************************)
(* ConnectNamedPipe on the acceptor's pipe.                                 *)
(***************************************************************************)
LEMMA ListenQuiet ==
  ASSUME Safe, Quiet, NEW t \in Threads, Listen(t)
  PROVE  Quiet'
<1> DEFINE x == Rendezvous(t)
<1>1. InWait(t) /\ x \in Pipes /\ pipe[x].mode = "message"
  BY Holders DEF Listen, InWait
<1>2. /\ pipe[x].state \in {"listening", "disconnected"} /\ UNCHANGED <<acceptor, client>>
      /\ pipe' = [pipe EXCEPT ![x].state = "listening"] /\ pipe \in [Pipes -> PipeType]
  BY DEF Listen, Safe, Typed
<1> HIDE DEF x
<1>3. /\ \A p \in Pipes : p # x => pipe'[p] = pipe[p]
      /\ pipe'[x].mode = pipe[x].mode /\ pipe'[x].name = pipe[x].name /\ pipe'[x].owner = pipe[x].owner
  BY <1>1, <1>2 DEF PipeType
<1>4. \A u \in Threads : /\ thread'[u].at = thread[u].at /\ thread'[u].name = thread[u].name
                          /\ thread'[u].acceptor = thread[u].acceptor
                          /\ thread'[u].m_waitingPipe = thread[u].m_waitingPipe
                          /\ InWait(u)' = InWait(u)
  BY <1>1, SleepFacts DEF Listen, Safe
<1>5. \A u \in Threads : Rendezvous(u)' = Rendezvous(u) /\ InWait(u)' = InWait(u)
  BY <1>2, <1>4 DEF Rendezvous
<1>6. \A u \in Threads : thread[u].m_waitingPipe # NULL => StateOf(u)' = StateOf(u)
  BY <1>1, <1>3, <1>4, Holders DEF StateOf
<1>7. \A u \in Threads : InWait(u) /\ pipe[Rendezvous(u)].state \in {"connected", "closing"} =>
        pipe'[Rendezvous(u)'] = pipe[Rendezvous(u)]
  BY <1>2, <1>3, <1>5, Holders
<1>8. \A u \in Threads : Meeting(u)'
  <2>1. SUFFICES ASSUME NEW u \in Threads PROVE Meeting(u)'
    OBVIOUS
  <2>2. Meeting(u)
    BY DEF Quiet
  <2>3. \A c \in Clients : IsTold(c, u)' = IsTold(c, u)
    BY <1>2, <1>4 DEF IsTold
  <2>4. InWait(u) => thread[u].m_waitingPipe # NULL
    BY <2>2 DEF Meeting
  <2> QED BY <1>5, <1>6, <1>7, <1>4, <2>2, <2>3, <2>4 DEF Meeting, InWait
<1>9. \A c \in Clients : Expected(c)'
  <2>1. SUFFICES ASSUME NEW c \in Clients PROVE Expected(c)'
    OBVIOUS
  <2>2. \A u \in Threads : thread[u].at \in {"flush", "accept"} => StateOf(u)' = StateOf(u)
    BY <1>6 DEF Quiet, Meeting, InWait
  <2>3. \A u \in Threads : thread[u].at = "flush" => pipe'[Rendezvous(u)'] = pipe[Rendezvous(u)]
    BY <1>7 DEF Quiet, Meeting, InWait
  <2>4. client[c].at = "line" => client[c].pipe \in Pipes /\ pipe'[client[c].pipe] = pipe[client[c].pipe]
    BY <1>1, <1>3 DEF Safe, Typed, Quiet, Expected
  <2>5. ASSUME client[c].at = "told"
        PROVE  \E u \in Threads :
                 /\ thread'[u].at \in {"flush", "accept"} /\ thread'[u].name = client[c].name
                 /\ StateOf(u)' = "listening"
                 /\ thread'[u].at = "flush" => pipe'[Rendezvous(u)'].state = "closing"
    <3>1. PICK u \in Threads :
            /\ thread[u].at \in {"flush", "accept"} /\ thread[u].name = client[c].name
            /\ StateOf(u) = "listening"
            /\ thread[u].at = "flush" => pipe[Rendezvous(u)].state = "closing"
      BY <2>5 DEF Quiet, Expected
    <3> QED BY <1>4, <2>2, <2>3, <3>1
  <2>6. /\ client[c].at = "line" => pipe'[client[c].pipe].mode = "byte" /\ pipe'[client[c].pipe].name = client[c].name
        /\ \A d \in Clients : client[c].at = "told" /\ client[d].at = "told" /\ client[c].name = client[d].name => c = d
    BY <2>4 DEF Quiet, Expected
  <2>7. client' = client
    BY <1>2
  <2> QED BY <2>5, <2>6, <2>7 DEF Expected
<1>10. \A p \in Pipes : Private(p)'
  BY <1>1, <1>3, <1>4, RendezvousKeepsPrivate
<1> QED BY <1>8, <1>9, <1>10 DEF Quiet

(***************************************************************************)
(* The acceptor tells the name: it is the only one in the pipe.             *)
(***************************************************************************)
LEMMA TellNameQuiet ==
  ASSUME Safe, Quiet, odd = {}, NEW t \in Threads, TellName(t)
  PROVE  Quiet'
<1> DEFINE x == Rendezvous(t)
<1>1. InWait(t) /\ x \in Pipes /\ pipe[x].mode = "message" /\ thread[t].at = "connect"
  BY Holders DEF TellName, InWait
<1>2. /\ pipe[x].state = "connected" /\ UNCHANGED <<acceptor, client>>
      /\ pipe' = [pipe EXCEPT ![x].data = Append(@, thread[t].name)] /\ pipe \in [Pipes -> PipeType]
      /\ thread' = [thread EXCEPT ![t].at = "flush", ![t].wait = "none"]
  BY <1>1, NobodyGivesUp DEF TellName, Safe, Typed
<1>3. pipe[x].data = <<>>
  <2>1. thread[t].acceptor \in Acceptors /\ Exists(thread[t].acceptor)
    BY <1>1 DEF Safe, Serving
  <2>2. ~Flushing(thread[t].acceptor)
    <3>1. \A u \in Threads : InWait(u) /\ thread[u].acceptor = thread[t].acceptor => u = t
      BY <1>1 DEF Safe, Serving
    <3> QED BY <1>1, <3>1 DEF Flushing, InWait
  <2> QED BY <2>1, <2>2 DEF Safe, Wedging, Rendezvous
<1>4. Append(<<>>, thread[t].name) = <<thread[t].name>>
  OBVIOUS
<1>5. \A u \in Threads : u # t /\ InWait(u) => Rendezvous(u) # x
  BY <1>1, RendezvousFacts
<1> HIDE DEF x
<1>6. /\ \A p \in Pipes : p # x => pipe'[p] = pipe[p]
      /\ pipe'[x].mode = pipe[x].mode /\ pipe'[x].name = pipe[x].name /\ pipe'[x].owner = pipe[x].owner
      /\ pipe'[x].state = "connected" /\ pipe'[x].data = <<thread[t].name>>
  BY <1>1, <1>2, <1>3, <1>4 DEF PipeType
<1>7. /\ \A u \in Threads : u # t => thread'[u] = thread[u]
      /\ thread'[t].at = "flush" /\ thread'[t].name = thread[t].name
      /\ thread'[t].m_waitingPipe = thread[t].m_waitingPipe /\ thread'[t].acceptor = thread[t].acceptor
  BY <1>2 DEF Safe, Typed, ThreadType
<1>8. \A u \in Threads : Rendezvous(u)' = Rendezvous(u) /\ InWait(u)' = InWait(u)
  <2>1. acceptor' = acceptor
    BY <1>2
  <2>2. \A u \in Threads : InWait(u)' = InWait(u)
    BY <1>1, <1>7 DEF InWait
  <2>3. \A u \in Threads : thread'[u].acceptor = thread[u].acceptor
    BY <1>7
  <2> QED BY <2>1, <2>2, <2>3 DEF Rendezvous
<1>9. \A u \in Threads : thread[u].m_waitingPipe # NULL => StateOf(u)' = StateOf(u)
  BY <1>1, <1>6, <1>7, Holders DEF StateOf
<1>10. \A u \in Threads : u # t /\ InWait(u) => pipe'[Rendezvous(u)'] = pipe[Rendezvous(u)]
  BY <1>5, <1>6, <1>8, Holders
<1>11. \A u \in Threads : Meeting(u)'
  <2>1. SUFFICES ASSUME NEW u \in Threads PROVE Meeting(u)'
    OBVIOUS
  <2>2. Meeting(u)
    BY DEF Quiet
  <2>3. CASE u = t
    <3>1. thread[t].m_waitingPipe # NULL /\ StateOf(t) = "listening"
      BY <1>1, <2>2, <2>3 DEF Meeting
    <3> QED BY <1>6, <1>7, <1>8, <1>9, <2>3, <3>1 DEF Meeting, InWait, x
  <2>4. CASE u # t
    <3>1. \A c \in Clients : IsTold(c, u)' = IsTold(c, u)
      BY <1>2, <1>7, <2>4 DEF IsTold
    <3> QED BY <1>7, <1>8, <1>9, <1>10, <2>2, <2>4, <3>1 DEF Meeting, InWait
  <2> QED BY <2>3, <2>4
<1>12. \A c \in Clients : Expected(c)'
  <2>1. SUFFICES ASSUME NEW c \in Clients PROVE Expected(c)'
    OBVIOUS
  <2>2. \A u \in Threads : thread[u].at \in {"flush", "accept"} =>
          /\ thread'[u] = thread[u]
          /\ StateOf(u)' = StateOf(u) /\ pipe'[Rendezvous(u)'] = pipe[Rendezvous(u)]
    BY <1>1, <1>7, <1>9, <1>10 DEF Quiet, Meeting, InWait
  <2>3. client[c].at = "line" => client[c].pipe \in Pipes /\ pipe'[client[c].pipe] = pipe[client[c].pipe]
    BY <1>1, <1>6 DEF Safe, Typed, Quiet, Expected
  <2>4. ASSUME client[c].at = "told"
        PROVE  \E u \in Threads :
                 /\ thread'[u].at \in {"flush", "accept"} /\ thread'[u].name = client[c].name
                 /\ StateOf(u)' = "listening"
                 /\ thread'[u].at = "flush" => pipe'[Rendezvous(u)'].state = "closing"
    <3>1. PICK u \in Threads :
            /\ thread[u].at \in {"flush", "accept"} /\ thread[u].name = client[c].name
            /\ StateOf(u) = "listening"
            /\ thread[u].at = "flush" => pipe[Rendezvous(u)].state = "closing"
      BY <2>4 DEF Quiet, Expected
    <3> QED BY <2>2, <3>1
  <2>5. /\ client[c].at = "line" => pipe'[client[c].pipe].mode = "byte" /\ pipe'[client[c].pipe].name = client[c].name
        /\ \A d \in Clients : client[c].at = "told" /\ client[d].at = "told" /\ client[c].name = client[d].name => c = d
    BY <2>3 DEF Quiet, Expected
  <2>6. client' = client
    BY <1>2
  <2> QED BY <2>4, <2>5, <2>6 DEF Expected
<1>13. \A p \in Pipes : Private(p)'
  <2>1. \A u \in Threads : InWait(u) => InWait(u)' /\ thread'[u].m_waitingPipe = thread[u].m_waitingPipe
    BY <1>7, <1>8
  <2> QED BY <1>1, <1>6, <2>1, RendezvousKeepsPrivate
<1> QED BY <1>11, <1>12, <1>13 DEF Quiet

(***************************************************************************)
(* The acceptor hangs up: its client has read the name.                     *)
(***************************************************************************)
LEMMA DisconnectQuiet ==
  ASSUME Safe, Quiet, NEW t \in Threads, Disconnect(t)
  PROVE  Quiet'
<1> DEFINE x == Rendezvous(t)
<1>1. InWait(t) /\ x \in Pipes /\ pipe[x].mode = "message" /\ thread[t].at = "flush"
  BY Holders DEF Disconnect, InWait
<1>2. /\ pipe[x].state = "connected" => pipe[x].data = <<>>
      /\ pipe' = [pipe EXCEPT ![x] = [@ EXCEPT !.state = "disconnected", !.client = NULL, !.data = <<>>]]
      /\ pipe \in [Pipes -> PipeType]
      /\ thread' = [thread EXCEPT ![t].at = "accept"] /\ UNCHANGED <<acceptor, client>>
  BY DEF Disconnect, Safe, Typed
<1>3. thread[t].m_waitingPipe # NULL /\ (StateOf(t) = "connected" \/ \E c \in Clients : IsTold(c, t))
  <2>1. <<thread[t].name>> # <<>>
    OBVIOUS
  <2> QED BY <1>1, <1>2, <2>1 DEF Quiet, Meeting
<1>4. \A u \in Threads : u # t /\ InWait(u) => Rendezvous(u) # x
  BY <1>1, RendezvousFacts
<1> HIDE DEF x
<1>5. /\ \A p \in Pipes : p # x => pipe'[p] = pipe[p]
      /\ pipe'[x].mode = pipe[x].mode /\ pipe'[x].name = pipe[x].name /\ pipe'[x].owner = pipe[x].owner
  BY <1>1, <1>2 DEF PipeType
<1>6. /\ \A u \in Threads : u # t => thread'[u] = thread[u]
      /\ thread'[t].at = "accept" /\ thread'[t].name = thread[t].name
      /\ thread'[t].m_waitingPipe = thread[t].m_waitingPipe /\ thread'[t].acceptor = thread[t].acceptor
  BY <1>2 DEF Safe, Typed, ThreadType
<1>7. \A u \in Threads : Rendezvous(u)' = Rendezvous(u) /\ InWait(u)' = InWait(u)
  BY <1>1, <1>2, <1>6 DEF Rendezvous, InWait
<1>8. \A u \in Threads : thread[u].m_waitingPipe # NULL => StateOf(u)' = StateOf(u)
  BY <1>1, <1>5, <1>6, Holders DEF StateOf
<1>9. \A u \in Threads : u # t /\ InWait(u) => pipe'[Rendezvous(u)'] = pipe[Rendezvous(u)]
  BY <1>4, <1>5, <1>7, Holders
<1>10. \A u \in Threads, c \in Clients : IsTold(c, u)' = IsTold(c, u)
  BY <1>2, <1>6 DEF IsTold
<1>11. \A u \in Threads : Meeting(u)'
  <2>1. SUFFICES ASSUME NEW u \in Threads PROVE Meeting(u)'
    OBVIOUS
  <2>2. Meeting(u)
    BY DEF Quiet
  <2>3. CASE u = t
    BY <1>3, <1>6, <1>7, <1>8, <1>10, <2>3 DEF Meeting, InWait
  <2>4. CASE u # t
    BY <1>6, <1>7, <1>8, <1>9, <1>10, <2>2, <2>4 DEF Meeting, InWait
  <2> QED BY <2>3, <2>4
<1>12. \A c \in Clients : Expected(c)'
  <2>1. SUFFICES ASSUME NEW c \in Clients PROVE Expected(c)'
    OBVIOUS
  <2>2. \A u \in Threads : thread[u].at \in {"flush", "accept"} =>
          /\ thread'[u].at \in {"flush", "accept"} /\ thread'[u].name = thread[u].name
          /\ StateOf(u)' = StateOf(u)
          /\ thread'[u].at = "flush" => thread[u].at = "flush" /\ pipe'[Rendezvous(u)'] = pipe[Rendezvous(u)]
    BY <1>6, <1>8, <1>9 DEF Quiet, Meeting, InWait
  <2>3. client[c].at = "line" => client[c].pipe \in Pipes /\ pipe'[client[c].pipe] = pipe[client[c].pipe]
    BY <1>1, <1>5 DEF Safe, Typed, Quiet, Expected
  <2>4. ASSUME client[c].at = "told"
        PROVE  \E u \in Threads :
                 /\ thread'[u].at \in {"flush", "accept"} /\ thread'[u].name = client[c].name
                 /\ StateOf(u)' = "listening"
                 /\ thread'[u].at = "flush" => pipe'[Rendezvous(u)'].state = "closing"
    <3>1. PICK u \in Threads :
            /\ thread[u].at \in {"flush", "accept"} /\ thread[u].name = client[c].name
            /\ StateOf(u) = "listening"
            /\ thread[u].at = "flush" => pipe[Rendezvous(u)].state = "closing"
      BY <2>4 DEF Quiet, Expected
    <3> QED BY <2>2, <3>1
  <2>5. /\ client[c].at = "line" => pipe'[client[c].pipe].mode = "byte" /\ pipe'[client[c].pipe].name = client[c].name
        /\ \A d \in Clients : client[c].at = "told" /\ client[d].at = "told" /\ client[c].name = client[d].name => c = d
    BY <2>3 DEF Quiet, Expected
  <2>6. client' = client
    BY <1>2
  <2> QED BY <2>4, <2>5, <2>6 DEF Expected
<1>13. \A p \in Pipes : Private(p)'
  <2>1. \A u \in Threads : InWait(u) => InWait(u)' /\ thread'[u].m_waitingPipe = thread[u].m_waitingPipe
    BY <1>6, <1>7
  <2> QED BY <1>1, <1>5, <2>1, RendezvousKeepsPrivate
<1> QED BY <1>11, <1>12, <1>13 DEF Quiet

(***************************************************************************)
(* ConnectNamedPipe on the pipe made for the client.                        *)
(***************************************************************************)
LEMMA ListenForLineQuiet ==
  ASSUME Safe, Quiet, NEW t \in Threads, ListenForLine(t)
  PROVE  Quiet'
<1>1. InWait(t) /\ UNCHANGED <<pipe, acceptor, client>>
  BY DEF ListenForLine, InWait
<1>2. \A u \in Threads : /\ thread'[u].at = thread[u].at /\ thread'[u].name = thread[u].name
                          /\ thread'[u].acceptor = thread[u].acceptor
                          /\ thread'[u].m_waitingPipe = thread[u].m_waitingPipe
                          /\ InWait(u)' = InWait(u)
  BY <1>1, SleepFacts DEF ListenForLine, Safe
<1>3. \A u \in Threads : /\ Rendezvous(u)' = Rendezvous(u) /\ StateOf(u)' = StateOf(u)
                         /\ \A c \in Clients : IsTold(c, u)' = IsTold(c, u)
  BY <1>1, <1>2 DEF Rendezvous, StateOf, IsTold
<1>4. \A u \in Threads : Meeting(u)'
  <2>1. SUFFICES ASSUME NEW u \in Threads PROVE Meeting(u)'
    OBVIOUS
  <2>2. Meeting(u)
    BY DEF Quiet
  <2> QED BY <1>1, <1>2, <1>3, <2>2 DEF Meeting
<1>5. \A c \in Clients : Expected(c)'
  BY <1>1, <1>2, <1>3 DEF Quiet, Expected
<1>6. \A p \in Pipes : Private(p)'
  BY <1>1, <1>2 DEF Quiet, Private
<1> QED BY <1>4, <1>5, <1>6 DEF Quiet

(***************************************************************************)
(* A thread whose client is there leaves waitConnection with the line, or   *)
(* lets go of a line that it has.                                           *)
(***************************************************************************)
LEMMA LineQuiet ==
  ASSUME Safe, Quiet, NEW t \in Threads, NEW v, thread' = [thread EXCEPT ![t] = v],
         UNCHANGED <<pipe, acceptor, client>>,
         thread[t].m_waitingPipe # NULL, StateOf(t) = "connected",
         \/ v = Idle
         \/ v.at = "line" /\ v.m_waitingPipe = thread[t].m_waitingPipe
  PROVE  Quiet'
<1>1. thread'[t] = v /\ \A u \in Threads : u # t => thread'[u] = thread[u]
  BY DEF Safe, Typed
<1>2. \A u \in Threads : u # t => /\ Rendezvous(u)' = Rendezvous(u) /\ StateOf(u)' = StateOf(u)
                                  /\ InWait(u)' = InWait(u)
                                  /\ \A c \in Clients : IsTold(c, u)' = IsTold(c, u)
  BY <1>1 DEF Rendezvous, StateOf, InWait, IsTold
<1>3. \A u \in Threads : StateOf(u) = "listening" => u # t
  OBVIOUS
<1>4. \A u \in Threads : Meeting(u)'
  <2>1. SUFFICES ASSUME NEW u \in Threads PROVE Meeting(u)'
    OBVIOUS
  <2>2. CASE u # t
    <3>1. Meeting(u)
      BY DEF Quiet
    <3> QED BY <1>1, <1>2, <2>2, <3>1 DEF Meeting, InWait
  <2>3. CASE u = t
    BY <1>1, <2>3 DEF Meeting, InWait, StateOf, Idle
  <2> QED BY <2>2, <2>3
<1>5. \A c \in Clients : Expected(c)'
  BY <1>1, <1>2, <1>3 DEF Quiet, Expected
<1>6. \A p \in Pipes : Private(p)'
  <2>1. SUFFICES ASSUME NEW p \in Pipes, pipe[p].mode = "byte" PROVE Private(p)'
    BY DEF Private
  <2>2. ASSUME pipe[p].state = "listening"
        PROVE  \E u \in Threads : InWait(u)' /\ thread'[u].m_waitingPipe = p
    <3>1. PICK u \in Threads : InWait(u) /\ thread[u].m_waitingPipe = p
      BY <2>1, <2>2 DEF Quiet, Private
    <3>2. u # t
      BY <1>3, <2>2, <3>1 DEF StateOf
    <3> QED BY <1>1, <1>2, <3>1, <3>2
  <2> QED BY <2>1, <2>2 DEF Quiet, Private
<1> QED BY <1>4, <1>5, <1>6 DEF Quiet

(***************************************************************************)
(* A client comes to an acceptor's pipe.                                    *)
(***************************************************************************)
LEMMA OpenServerPipeQuiet ==
  ASSUME Safe, Quiet, NEW c \in Clients, NEW a \in Addresses, OpenServerPipe(c, a), odd' = {}
  PROVE  Quiet'
<1>1. PICK x \in Listening(a) :
        /\ pipe' = [pipe EXCEPT ![x] = Connected(x, c)]
        /\ pipe[x].mode = "message"
        /\ client' = [client EXCEPT ![c] = [at |-> "opened", name |-> <<>>, pipe |-> x]]
  BY DEF OpenServerPipe
<1>2. x \in Pipes /\ pipe[x].state = "listening" /\ pipe[x] \in PipeType /\ pipe \in [Pipes -> PipeType]
  BY DEF Listening, Open, Safe, Typed
<1>3. client[c].at = "idle" /\ UNCHANGED <<acceptor, thread>>
  BY DEF OpenServerPipe, Outside
<1>4. /\ \A p \in Pipes : p # x => pipe'[p] = pipe[p]
      /\ pipe'[x].mode = pipe[x].mode /\ pipe'[x].name = pipe[x].name /\ pipe'[x].owner = pipe[x].owner
  BY <1>1, <1>2 DEF PipeType, Connected
<1>5. client'[c].at = "opened" /\ \A d \in Clients : d # c => client'[d] = client[d]
  BY <1>1 DEF Safe, Typed
<1>6. \A u \in Threads : Rendezvous(u)' = Rendezvous(u) /\ InWait(u)' = InWait(u)
  BY <1>3 DEF Rendezvous, InWait
<1>7. \A u \in Threads : thread[u].m_waitingPipe # NULL => StateOf(u)' = StateOf(u)
  BY <1>1, <1>3, <1>4, Holders DEF StateOf
<1>8. \A u \in Threads : InWait(u) /\ pipe[Rendezvous(u)].state \in {"connected", "closing"} =>
        pipe'[Rendezvous(u)'] = pipe[Rendezvous(u)]
  BY <1>2, <1>4, <1>6, Holders
<1>9. \A u \in Threads, d \in Clients : IsTold(d, u)' = IsTold(d, u)
  BY <1>3, <1>5 DEF IsTold
<1>10. \A u \in Threads : Meeting(u)'
  <2>1. SUFFICES ASSUME NEW u \in Threads PROVE Meeting(u)'
    OBVIOUS
  <2>2. Meeting(u)
    BY DEF Quiet
  <2> QED BY <1>3, <1>6, <1>7, <1>8, <1>9, <2>2 DEF Meeting, InWait
<1>11. \A d \in Clients : Expected(d)'
  <2>1. SUFFICES ASSUME NEW d \in Clients PROVE Expected(d)'
    OBVIOUS
  <2>2. CASE d = c
    BY <1>5, <2>2 DEF Expected
  <2>3. CASE d # c
    <3>1. \A u \in Threads : thread[u].at \in {"flush", "accept"} => StateOf(u)' = StateOf(u)
      BY <1>7 DEF Quiet, Meeting, InWait
    <3>2. \A u \in Threads : thread[u].at = "flush" => pipe'[Rendezvous(u)'] = pipe[Rendezvous(u)]
      BY <1>8 DEF Quiet, Meeting, InWait
    <3>3. client[d].at = "line" => client[d].pipe \in Pipes /\ pipe'[client[d].pipe] = pipe[client[d].pipe]
      BY <1>1, <1>4 DEF Safe, Typed, Quiet, Expected
    <3>4. \A e \in Clients : client'[e].at = "told" => client'[e] = client[e]
      BY <1>5
    <3>5. client'[d] = client[d] /\ thread' = thread
      BY <1>3, <1>5, <2>3
    <3> QED BY <3>1, <3>2, <3>3, <3>4, <3>5 DEF Quiet, Expected
  <2> QED BY <2>2, <2>3
<1>12. \A p \in Pipes : Private(p)'
  BY <1>1, <1>2, <1>3, <1>4, <1>6, RendezvousKeepsPrivate
<1> QED BY <1>10, <1>11, <1>12 DEF Quiet

(***************************************************************************)
(* A client that has no name and no line any more leaves, or lets go of its *)
(* line: nobody waits for it.                                               *)
(***************************************************************************)
LEMMA LeaveQuiet ==
  ASSUME Safe, Quiet, NEW c \in Clients, client[c].at \in {"opened", "line"},
         client' = [client EXCEPT ![c] = Outside], UNCHANGED <<pipe, acceptor, thread>>
  PROVE  Quiet'
<1>1. client'[c] = Outside /\ \A d \in Clients : d # c => client'[d] = client[d]
  BY DEF Safe, Typed
<1>2. Outside.at = "idle"
  BY DEF Outside
<1>3. \A u \in Threads : /\ Rendezvous(u)' = Rendezvous(u) /\ StateOf(u)' = StateOf(u)
                         /\ InWait(u)' = InWait(u)
                         /\ \A d \in Clients : IsTold(d, u)' = IsTold(d, u)
  BY <1>1, <1>2 DEF Rendezvous, StateOf, InWait, IsTold
<1>4. \A u \in Threads : Meeting(u)'
  BY <1>3 DEF Quiet, Meeting
<1>5. \A d \in Clients : Expected(d)'
  BY <1>1, <1>2, <1>3 DEF Quiet, Expected
<1>6. \A p \in Pipes : Private(p)'
  BY <1>3 DEF Quiet, Private
<1> QED BY <1>4, <1>5, <1>6 DEF Quiet

(***************************************************************************)
(* The client reads the name, which is that of the call that told it and of *)
(* no other, and hangs up.                                                  *)
(***************************************************************************)
LEMMA ReadNameQuiet ==
  ASSUME Safe, Quiet, NEW c \in Clients, ReadName(c)
  PROVE  Quiet'
<1> DEFINE x == client[c].pipe
<1>1. client[c].at = "opened" /\ x \in Pipes /\ pipe' = HangUp(c, {x}) /\ UNCHANGED <<acceptor, thread>>
  BY DEF ReadName, Safe, Typed
<1>2. CASE pipe[x].client # c
  <2>1. client' = [client EXCEPT ![c] = Outside]
    BY <1>2 DEF ReadName
  <2>2. pipe' = pipe
    BY <1>1, <1>2 DEF HangUp, Safe, Typed
  <2> QED BY <1>1, <2>1, <2>2, LeaveQuiet
<1>3. CASE pipe[x].client = c /\ pipe[x].data # <<>>
  <2>1. client' = [client EXCEPT ![c].at = "told", ![c].name = Head(pipe[x].data), ![c].pipe = NULL]
    BY <1>3 DEF ReadName
  <2>2. pipe[x].mode = "message" /\ pipe[x].state = "connected"
    BY <1>1, <1>3 DEF Safe, Held, PipeShape
  <2>3. PICK s \in Acceptors : acceptor[s].m_pipe = x
    BY <1>1, <2>2 DEF Safe, Held
  <2>4. Exists(s)
    BY <1>1, <2>3, Holders DEF Exists
  <2>5. PICK t \in Threads : thread[t].at = "flush" /\ thread[t].acceptor = s
    BY <1>3, <2>3, <2>4 DEF Safe, Wedging, Flushing
  <2>6. InWait(t) /\ Rendezvous(t) = x
    BY <2>3, <2>5 DEF InWait, Rendezvous
  <2>7. pipe[x].data = <<thread[t].name>> /\ StateOf(t) = "listening" /\ thread[t].m_waitingPipe # NULL
    BY <2>2, <2>5, <2>6 DEF Quiet, Meeting
  <2>8. Head(<<thread[t].name>>) = thread[t].name
    OBVIOUS
  <2>9. /\ client'[c].at = "told" /\ client'[c].name = thread[t].name
        /\ \A d \in Clients : d # c => client'[d] = client[d]
    BY <2>1, <2>7, <2>8 DEF Safe, Typed, ClientType
  <2>10. \A u \in Threads : u # t /\ InWait(u) => Rendezvous(u) # x
    BY <2>6, RendezvousFacts
  <2>11. pipe \in [Pipes -> PipeType]
    BY DEF Safe, Typed
  <2> HIDE DEF x
  <2>12. /\ \A p \in Pipes : p # x => pipe'[p] = pipe[p]
         /\ pipe'[x] = [pipe[x] EXCEPT !.state = "closing", !.client = NULL, !.data = <<>>]
    BY <1>1, <1>3 DEF HangUp
  <2>13. /\ pipe'[x].mode = pipe[x].mode /\ pipe'[x].name = pipe[x].name /\ pipe'[x].owner = pipe[x].owner
         /\ pipe'[x].state = "closing"
    <3>1. pipe[x] \in PipeType
      BY <1>1, <2>11
    <3> QED BY <2>12, <3>1 DEF PipeType
  <2>14. \A u \in Threads : Rendezvous(u)' = Rendezvous(u) /\ InWait(u)' = InWait(u)
    BY <1>1 DEF Rendezvous, InWait
  <2>15. \A u \in Threads : thread[u].m_waitingPipe # NULL => StateOf(u)' = StateOf(u)
    BY <1>1, <2>2, <2>12, Holders DEF StateOf
  <2>16. \A u \in Threads : u # t /\ InWait(u) => pipe'[Rendezvous(u)'] = pipe[Rendezvous(u)]
    BY <2>10, <2>12, <2>14, Holders
  <2>17. thread' = thread
    BY <1>1
  <2>18. \A u \in Threads : Meeting(u)'
    <3>1. SUFFICES ASSUME NEW u \in Threads PROVE Meeting(u)'
      OBVIOUS
    <3>2. Meeting(u)
      BY DEF Quiet
    <3>3. CASE u = t
      <4>1. IsTold(c, t)'
        BY <2>9, <2>17 DEF IsTold
      <4> QED BY <2>5, <2>6, <2>7, <2>13, <2>14, <2>17, <3>3, <4>1 DEF Meeting, InWait
    <3>4. CASE u # t
      <4>1. \A d \in Clients : IsTold(d, u) => IsTold(d, u)'
        BY <1>1, <2>9, <2>17 DEF IsTold
      <4> QED BY <2>14, <2>15, <2>16, <2>17, <3>2, <3>4, <4>1 DEF Meeting, InWait
    <3> QED BY <3>3, <3>4
  <2>19. ASSUME NEW d \in Clients, d # c, client[d].at = "told" PROVE client[d].name # thread[t].name
    <3>1. SUFFICES ASSUME client[d].name = thread[t].name PROVE FALSE
      OBVIOUS
    <3>2. PICK u \in Threads :
            /\ thread[u].at \in {"flush", "accept"} /\ thread[u].name = client[d].name
            /\ thread[u].at = "flush" => pipe[Rendezvous(u)].state = "closing"
      BY <2>19 DEF Quiet, Expected
    <3>3. u = t
      BY <2>6, <3>1, <3>2, OneCallPerName DEF InWait
    <3> QED BY <2>2, <2>5, <2>6, <3>2, <3>3
  <2>20. \A d \in Clients : Expected(d)'
    <3>1. SUFFICES ASSUME NEW d \in Clients PROVE Expected(d)'
      OBVIOUS
    <3>2. \A e, f \in Clients : client'[e].at = "told" /\ client'[f].at = "told" /\ client'[e].name = client'[f].name => e = f
      BY <2>9, <2>19 DEF Quiet, Expected
    <3>3. CASE d = c
      <4>1. /\ thread'[t].at = "flush" /\ thread'[t].name = client'[c].name
            /\ StateOf(t)' = "listening" /\ pipe'[Rendezvous(t)'].state = "closing"
        BY <2>5, <2>6, <2>7, <2>9, <2>13, <2>14, <2>15, <2>17
      <4> QED BY <2>9, <3>2, <3>3, <4>1 DEF Expected
    <3>4. CASE d # c
      <4>1. client'[d] = client[d]
        BY <2>9, <3>4
      <4>2. client[d].at = "line" => pipe'[client[d].pipe].mode = "byte" /\ pipe'[client[d].pipe].name = client[d].name
        BY <2>2, <2>12 DEF Safe, Typed, Quiet, Expected
      <4>3. ASSUME client[d].at = "told"
            PROVE  \E u \in Threads :
                     /\ thread'[u].at \in {"flush", "accept"} /\ thread'[u].name = client[d].name
                     /\ StateOf(u)' = "listening"
                     /\ thread'[u].at = "flush" => pipe'[Rendezvous(u)'].state = "closing"
        <5>1. PICK u \in Threads :
                /\ thread[u].at \in {"flush", "accept"} /\ thread[u].name = client[d].name
                /\ StateOf(u) = "listening"
                /\ thread[u].at = "flush" => pipe[Rendezvous(u)].state = "closing"
          BY <4>3 DEF Quiet, Expected
        <5>2. u # t /\ InWait(u)
          BY <2>19, <3>4, <4>3, <5>1 DEF InWait
        <5>3. thread[u].m_waitingPipe # NULL
          BY <5>2 DEF Quiet, Meeting
        <5> QED BY <2>15, <2>16, <2>17, <5>1, <5>2, <5>3
      <4> QED BY <3>2, <4>1, <4>2, <4>3 DEF Expected
    <3> QED BY <3>3, <3>4
  <2>21. \A p \in Pipes : Private(p)'
    BY <1>1, <2>2, <2>12, <2>13, <2>14, <2>17, RendezvousKeepsPrivate
  <2> QED BY <2>18, <2>20, <2>21 DEF Quiet
<1> QED BY <1>2, <1>3 DEF ReadName

(***************************************************************************)
(* The client opens the pipe of that name: it listens, and it is the one of *)
(* the call that told the name.                                             *)
(***************************************************************************)
LEMMA OpenLineQuiet ==
  ASSUME Safe, Quiet, NEW c \in Clients, OpenLine(c)
  PROVE  Quiet'
<1>1. client[c].at = "told" /\ UNCHANGED <<acceptor, thread>>
  BY DEF OpenLine
<1>2. PICK t \in Threads :
        /\ thread[t].at \in {"flush", "accept"} /\ thread[t].name = client[c].name
        /\ StateOf(t) = "listening"
        /\ thread[t].at = "flush" => pipe[Rendezvous(t)].state = "closing"
  BY <1>1 DEF Quiet, Expected
<1>3. InWait(t) /\ thread[t].m_waitingPipe # NULL
  BY <1>2 DEF InWait, Quiet, Meeting
<1> DEFINE x == thread[t].m_waitingPipe
<1>4. x \in Pipes /\ pipe[x].mode = "byte" /\ pipe[x].name = client[c].name /\ pipe[x].state = "listening"
  BY <1>2, <1>3, Holders DEF StateOf
<1>5. x \in Listening(client[c].name)
  BY <1>4 DEF Listening, Open
<1>6. PICK q \in Listening(client[c].name) :
        /\ pipe' = [pipe EXCEPT ![q] = Connected(q, c)]
        /\ client' = [client EXCEPT ![c].at = "line", ![c].pipe = q]
  BY <1>5 DEF OpenLine
<1>7. q = x
  BY <1>2, <1>3, OneListens
<1> HIDE DEF x
<1>8. /\ pipe' = [pipe EXCEPT ![x] = Connected(x, c)] /\ pipe \in [Pipes -> PipeType]
      /\ client' = [client EXCEPT ![c].at = "line", ![c].pipe = x] /\ client \in [Clients -> ClientType]
  BY <1>6, <1>7 DEF Safe, Typed
<1>9. /\ \A p \in Pipes : p # x => pipe'[p] = pipe[p]
      /\ pipe'[x].mode = pipe[x].mode /\ pipe'[x].name = pipe[x].name /\ pipe'[x].owner = pipe[x].owner
      /\ pipe'[x].state = "connected"
  BY <1>4, <1>8 DEF PipeType, Connected
<1>10. /\ client'[c].at = "line" /\ client'[c].pipe = x /\ client'[c].name = client[c].name
       /\ \A d \in Clients : d # c => client'[d] = client[d]
  BY <1>8 DEF ClientType
<1>11. thread' = thread /\ \A u \in Threads : Rendezvous(u)' = Rendezvous(u) /\ InWait(u)' = InWait(u)
  BY <1>1 DEF Rendezvous, InWait
<1>12. \A u \in Threads : u # t /\ thread[u].m_waitingPipe # NULL => StateOf(u)' = StateOf(u)
  BY <1>3, <1>9, <1>11, Holders DEF StateOf, x
<1>13. \A u \in Threads : InWait(u) => pipe'[Rendezvous(u)'] = pipe[Rendezvous(u)]
  BY <1>4, <1>9, <1>11, Holders
<1>14. StateOf(t)' = "connected"
  BY <1>9, <1>11 DEF StateOf, x
<1>15. \A u \in Threads : InWait(u) /\ u # t => thread[u].name # client[c].name
  BY <1>2, <1>3, OneCallPerName
<1>16. \A u \in Threads : Meeting(u)'
  <2>1. SUFFICES ASSUME NEW u \in Threads PROVE Meeting(u)'
    OBVIOUS
  <2>2. Meeting(u)
    BY DEF Quiet
  <2>3. CASE u = t
    BY <1>2, <1>3, <1>11, <1>13, <1>14, <2>3 DEF Meeting, InWait
  <2>4. CASE u # t
    <3>1. \A d \in Clients : InWait(u) /\ IsTold(d, u) => IsTold(d, u)'
      BY <1>10, <1>11, <1>15, <2>4 DEF IsTold
    <3> QED BY <1>11, <1>12, <1>13, <2>2, <2>4, <3>1 DEF Meeting, InWait
  <2> QED BY <2>3, <2>4
<1>17. \A d \in Clients : Expected(d)'
  <2>1. SUFFICES ASSUME NEW d \in Clients PROVE Expected(d)'
    OBVIOUS
  <2>2. \A e, f \in Clients : client'[e].at = "told" /\ client'[f].at = "told" /\ client'[e].name = client'[f].name => e = f
    BY <1>10 DEF Quiet, Expected
  <2>3. CASE d = c
    BY <1>4, <1>9, <1>10, <2>3 DEF Expected
  <2>4. CASE d # c
    <3>1. client'[d] = client[d]
      BY <1>10, <2>4
    <3>2. client[d].at = "line" => pipe'[client[d].pipe].mode = "byte" /\ pipe'[client[d].pipe].name = client[d].name
      BY <1>9 DEF Safe, Typed, Quiet, Expected
    <3>3. ASSUME client[d].at = "told"
          PROVE  \E u \in Threads :
                   /\ thread'[u].at \in {"flush", "accept"} /\ thread'[u].name = client[d].name
                   /\ StateOf(u)' = "listening"
                   /\ thread'[u].at = "flush" => pipe'[Rendezvous(u)'].state = "closing"
      <4>1. PICK u \in Threads :
              /\ thread[u].at \in {"flush", "accept"} /\ thread[u].name = client[d].name
              /\ StateOf(u) = "listening"
              /\ thread[u].at = "flush" => pipe[Rendezvous(u)].state = "closing"
        BY <3>3 DEF Quiet, Expected
      <4>2. client[d].name # client[c].name
        BY <1>1, <2>4, <3>3 DEF Quiet, Expected
      <4>3. u # t /\ InWait(u)
        BY <1>2, <4>1, <4>2 DEF InWait
      <4>4. thread[u].m_waitingPipe # NULL
        BY <4>3 DEF Quiet, Meeting
      <4> QED BY <1>11, <1>12, <1>13, <4>1, <4>3, <4>4
    <3> QED BY <2>2, <3>1, <3>2, <3>3 DEF Expected
  <2> QED BY <2>3, <2>4
<1>18. \A p \in Pipes : Private(p)'
  <2>1. SUFFICES ASSUME NEW p \in Pipes, pipe'[p].mode = "byte" PROVE Private(p)'
    BY DEF Private
  <2>2. /\ pipe[p].mode = "byte" /\ pipe'[p].name = pipe[p].name /\ pipe'[p].owner = pipe[p].owner
        /\ Private(p)
    BY <1>9, <2>1 DEF Quiet
  <2>3. \A r \in Pipes : pipe'[r].mode # "none" /\ pipe'[r].name = pipe'[p].name => pipe'[r].owner = pipe'[p].owner
    BY <1>9, <2>2 DEF Private
  <2>4. p = x => pipe'[p].state = "connected"
    BY <1>9
  <2>5. p # x => pipe'[p].state = pipe[p].state
    BY <1>9
  <2> QED BY <1>11, <2>2, <2>3, <2>4, <2>5 DEF Private
<1> QED BY <1>16, <1>17, <1>18 DEF Quiet

-------------------------------------------------------------------------------
\* The theorems.

(***************************************************************************)
(* Every step keeps Quiet, as long as no client dies and no names clash.    *)
(***************************************************************************)
LEMMA QuietStep ==
  ASSUME Safe, Quiet, odd = {}, odd' = {}, [Next]_vars
  PROVE  Quiet'
<1>1. CASE UNCHANGED vars
  BY <1>1 DEF vars, Quiet, Meeting, Expected, Private, InWait, StateOf, Rendezvous, IsTold
<1>2. ASSUME NEW s \in Acceptors, NEW a \in Addresses, CreateServer(s, a) PROVE Quiet'
  BY <1>2, CreateServerQuiet
<1>3. ASSUME NEW s \in Acceptors, DestroyAcceptor(s) PROVE Quiet'
  BY <1>3, DestroyAcceptorQuiet
<1>4. ASSUME NEW t \in Threads, NEW s \in Acceptors, CallWaitConnection(t, s) PROVE Quiet'
  BY <1>4, CallWaitConnectionQuiet
<1>5. ASSUME NEW t \in Threads, InCall(t) PROVE Quiet'
  <2>1. CASE Listen(t)
    BY <2>1, ListenQuiet
  <2>2. CASE TellName(t)
    BY <2>2, TellNameQuiet
  <2>3. CASE ClientGone(t)
    BY <2>3, NobodyGivesUp DEF ClientGone
  <2>4. CASE Disconnect(t)
    BY <2>4, DisconnectQuiet
  <2>5. CASE Accept(t)
    <3>1. /\ thread[t].m_waitingPipe # NULL /\ StateOf(t) = "connected"
          /\ thread' = [thread EXCEPT ![t].at = "line", ![t].wait = "none"]
          /\ UNCHANGED <<pipe, acceptor, client>>
      BY <2>5, NobodyGivesUp DEF Accept, StateOf
    <3> DEFINE v == [thread[t] EXCEPT !.at = "line", !.wait = "none"]
    <3>2. thread' = [thread EXCEPT ![t] = v]
      BY <3>1
    <3>3. v.at = "line" /\ v.m_waitingPipe = thread[t].m_waitingPipe
      BY DEF Safe, Typed, ThreadType
    <3> HIDE DEF v
    <3> QED BY <3>1, <3>2, <3>3, LineQuiet
  <2>6. CASE ListenForLine(t)
    BY <2>6, ListenForLineQuiet
  <2> QED BY <1>5, <2>1, <2>2, <2>3, <2>4, <2>5, <2>6 DEF InCall
<1>6. ASSUME NEW t \in Threads, DropServerLine(t) PROVE Quiet'
  <2>1. thread[t].m_waitingPipe # NULL /\ StateOf(t) = "connected"
    BY <1>6 DEF DropServerLine, Quiet, Meeting
  <2> QED BY <1>6, <2>1, LineQuiet DEF DropServerLine
<1>7. ASSUME NEW c \in Clients, NEW a \in Addresses, OpenServerPipe(c, a) PROVE Quiet'
  BY <1>7, OpenServerPipeQuiet
<1>8. ASSUME NEW c \in Clients, ReadName(c) PROVE Quiet'
  BY <1>8, ReadNameQuiet
<1>9. ASSUME NEW c \in Clients, OpenLine(c) PROVE Quiet'
  BY <1>9, OpenLineQuiet
<1>10. ASSUME NEW c \in Clients, DropClientLine(c) PROVE Quiet'
  BY <1>10, LeaveQuiet DEF DropClientLine
<1>11. ASSUME NEW c \in Clients, Crash(c) PROVE Quiet'
  BY <1>11 DEF Crash
<1> QED BY <1>1, <1>2, <1>3, <1>4, <1>5, <1>6, <1>7, <1>8, <1>9, <1>10, <1>11 DEF Next

(***************************************************************************)
(* What has been odd stays in the history.                                  *)
(***************************************************************************)
LEMMA OddGrows ==
  ASSUME [Next]_vars, odd' = {}
  PROVE  odd = {}
<1>1. odd \subseteq odd'
  BY DEF Next, vars, InCall, CreateServer, DestroyAcceptor, CallWaitConnection, Listen, TellName,
         ClientGone, GiveUp, Disconnect, ListenForLine, Accept, DropServerLine, OpenServerPipe, ReadName, OpenLine,
         DropClientLine, Crash
<1> QED BY <1>1

(***************************************************************************)
(* Before any acceptor exists the invariant holds.                          *)
(***************************************************************************)
LEMMA InitInv ==
  ASSUME Init
  PROVE  Inv
<1>1. 0 \in 0..MaxCounter /\ <<>> \in Seq(Names)
  BY PipeAssumption
<1>2. NoPipe \in PipeType /\ NoPipe.mode = "none" /\ NoPipe.data = <<>> /\ NoPipe.client = NULL
  BY <1>1 DEF NoPipe, PipeType
<1>3. NoAcceptor \in AcceptorType /\ NoAcceptor.m_pipe = NULL
  BY <1>1 DEF NoAcceptor, AcceptorType
<1>4. Idle \in ThreadType /\ Idle.at = "idle" /\ Idle.m_waitingPipe = NULL
  BY DEF Idle, ThreadType
<1>5. Outside \in ClientType /\ Outside.at = "idle"
  BY DEF Outside, ClientType
<1>6. /\ pipe = [p \in Pipes |-> NoPipe] /\ acceptor = [s \in Acceptors |-> NoAcceptor]
      /\ thread = [t \in Threads |-> Idle] /\ client = [c \in Clients |-> Outside]
      /\ dropped = {} /\ odd = {}
  BY DEF Init
<1>7. Typed
  BY <1>2, <1>3, <1>4, <1>5, <1>6 DEF Typed, Exists
<1>8. Held
  BY <1>2, <1>3, <1>4, <1>6 DEF Held, Exists, PipeShape
<1>9. Serving /\ Named /\ Wedging
  BY <1>2, <1>3, <1>4, <1>5, <1>6 DEF Serving, Named, Wedging, InWait, Exists
<1>10. Quiet
  BY <1>2, <1>4, <1>5, <1>6 DEF Quiet, Meeting, Expected, Private, InWait
<1> QED BY <1>7, <1>8, <1>9, <1>10 DEF Inv, Safe

(***************************************************************************)
(* The inductive invariant holds in every state of every behaviour.         *)
(***************************************************************************)
LEMMA InvHolds == Spec => []Inv
<1>1. Init => Inv
  BY InitInv
<1>2. Inv /\ [Next]_vars => Inv'
  <2>1. SUFFICES ASSUME Inv, [Next]_vars PROVE Inv'
    OBVIOUS
  <2>2. Safe'
    BY <2>1, SafeStep DEF Inv
  <2>3. ASSUME odd' = {} PROVE Quiet'
    BY <2>1, <2>3, OddGrows, QuietStep DEF Inv
  <2> QED BY <2>2, <2>3 DEF Inv
<1> QED BY <1>1, <1>2, PTL DEF Spec

(***************************************************************************)
(* Every way out of waitConnection closes the pipe it made or hands it on,  *)
(* and ~NamedPipeAcceptor closes the acceptor's: what the server holds open *)
(* is what its acceptors, its calls and its lines have, and the lines it    *)
(* has destroyed.                                                           *)
(***************************************************************************)
THEOREM ServerHandlesAreAccounted == Spec => []HandlesAccounted
<1>1. ASSUME Inv PROVE HandlesAccounted
  <2>1. Safe /\ NULL \notin Pipes
    BY <1>1, Holders DEF Inv
  <2> DEFINE U == {acceptor[s].m_pipe : s \in Acceptors} \cup {thread[t].m_waitingPipe : t \in Threads} \cup dropped
  <2>2. ASSUME NEW p \in Open PROVE p \in U \ {NULL}
    <3>1. p \in Pipes /\ pipe[p].mode \in {"message", "byte"}
      BY <2>1 DEF Open, Safe, Typed, PipeType
    <3> QED BY <2>1, <3>1 DEF Safe, Held
  <2>3. ASSUME NEW p \in U \ {NULL} PROVE p \in Open
    <3>1. ASSUME NEW s \in Acceptors, p = acceptor[s].m_pipe PROVE p \in Open
      BY <2>1, <2>3, <3>1, Holders DEF Exists, Open
    <3>2. ASSUME NEW t \in Threads, p = thread[t].m_waitingPipe PROVE p \in Open
      BY <2>1, <2>3, <3>2, Holders DEF Open
    <3>3. ASSUME p \in dropped PROVE p \in Open
      BY <2>1, <3>3 DEF Safe, Held, Typed, Open
    <3> QED BY <3>1, <3>2, <3>3
  <2>4. Open = U \ {NULL}
    BY <2>2, <2>3
  <2> QED BY <2>4 DEF HandlesAccounted
<1> QED BY <1>1, InvHolds, PTL

(***************************************************************************)
(* An acceptor can be used again whatever happens short of the death of a   *)
(* client: its pipe is left with a client that has gone only while the      *)
(* acceptor is about to disconnect it.                                      *)
(***************************************************************************)
THEOREM OnlyCrashesWedge == Spec => []WedgedOnlyByCrash
<1>1. ASSUME Inv PROVE WedgedOnlyByCrash
  <2>1. SUFFICES ASSUME NEW s \in Acceptors, acceptor[s] # NoAcceptor,
                        pipe[acceptor[s].m_pipe].state = "closing", "crash" \notin odd
                 PROVE  \E t \in Waiting(s) : thread[t].at = "flush"
    BY DEF WedgedOnlyByCrash
  <2>2. Exists(s)
    BY <1>1, <2>1 DEF Inv, Safe, Typed
  <2>3. PICK t \in Threads : thread[t].at = "flush" /\ thread[t].acceptor = s
    BY <1>1, <2>1, <2>2 DEF Inv, Safe, Wedging, Flushing
  <2>4. t \in Waiting(s)
    BY <2>3 DEF Waiting
  <2> QED BY <2>3, <2>4
<1> QED BY <1>1, InvHolds, PTL

(***************************************************************************)
(* The rendezvous of waitConnection and the constructor of NamedPipeLine    *)
(* gives each client a pipe of its own and each line its client, unless a   *)
(* client dies or names clash.                                              *)
(***************************************************************************)
THEOREM RendezvousIsPrivate == Spec => []PrivateRendezvous
<1>1. ASSUME Inv PROVE PrivateRendezvous
  <2>1. SUFFICES ASSUME odd = {}
                 PROVE  /\ \A t \in Threads : thread[t].at = "line" => pipe[thread[t].m_waitingPipe].state = "connected"
                        /\ \A t \in Threads, c \in Clients :
                             thread[t].at = "line" /\ client[c].at = "line" /\ thread[t].m_waitingPipe = client[c].pipe
                               => thread[t].name = client[c].name
                                  /\ pipe[client[c].pipe].owner = thread[t].acceptor
                                  /\ \A u \in Threads : thread[u].at = "line" /\ thread[u].m_waitingPipe = thread[t].m_waitingPipe => u = t
                        /\ \A c \in Clients : client[c].at = "line" => pipe[client[c].pipe].mode = "byte"
    BY DEF PrivateRendezvous
  <2>2. Safe /\ Quiet
    BY <1>1, <2>1 DEF Inv
  <2>3. \A t \in Threads : thread[t].at = "line" => thread[t].m_waitingPipe # NULL /\ pipe[thread[t].m_waitingPipe].state = "connected"
    BY <2>2 DEF Quiet, Meeting, StateOf
  <2>4. \A c \in Clients : client[c].at = "line" => pipe[client[c].pipe].mode = "byte" /\ pipe[client[c].pipe].name = client[c].name
    BY <2>2 DEF Quiet, Expected
  <2> QED BY <2>2, <2>3, <2>4, Holders
<1> QED BY <1>1, InvHolds, PTL

(***************************************************************************)
(* The second, unlimited wait of waitConnection is never in vain: its       *)
(* client is there, or has been told the name and finds the pipe of that    *)
(* name, and only that one, listening.                                      *)
(***************************************************************************)
THEOREM SecondWaitIsAnswered == Spec => []SecondWaitHasClient
<1>1. ASSUME Inv PROVE SecondWaitHasClient
  <2>1. SUFFICES ASSUME odd = {}, NEW t \in Threads, thread[t].at = "accept",
                        pipe[thread[t].m_waitingPipe].state # "connected"
                 PROVE  \E c \in Clients : client[c].at = "told" /\ Listening(client[c].name) = {thread[t].m_waitingPipe}
    BY DEF SecondWaitHasClient
  <2>2. Safe /\ Quiet /\ InWait(t)
    BY <1>1, <2>1 DEF Inv, InWait
  <2>3. thread[t].m_waitingPipe # NULL
    BY <2>2 DEF Quiet, Meeting
  <2>4. PICK c \in Clients : client[c].at = "told" /\ client[c].name = thread[t].name
    BY <2>1, <2>2 DEF Quiet, Meeting, StateOf, IsTold
  <2> DEFINE w == thread[t].m_waitingPipe
  <2>5. w \in Pipes /\ pipe[w].mode = "byte" /\ pipe[w].name = thread[t].name
    BY <2>2, <2>3, Holders
  <2>6. pipe[w].state = "listening"
    BY <2>1, <2>2, <2>5 DEF Quiet, Private
  <2>7. w \in Listening(thread[t].name)
    BY <2>5, <2>6 DEF Listening, Open
  <2>8. \A q \in Listening(thread[t].name) : q = w
    BY <2>2, OneListens
  <2>9. Listening(thread[t].name) = {w}
    BY <2>7, <2>8
  <2> QED BY <2>4, <2>9
<1> QED BY <1>1, InvHolds, PTL
===============================================================================
