------------------------- MODULE InprocRegistryProofs -------------------------
(***************************************************************************)
(* Theorems about InprocRegistry: for any number of clients, servers,       *)
(* addresses, managers and lines.                                           *)
(***************************************************************************)
EXTENDS InprocRegistry, BasicLemmas

(***************************************************************************)
(* What the erase of one element leaves of gs_connectQueue.                 *)
(***************************************************************************)
LEMMA RemoveAtFacts ==
  ASSUME NEW S, NEW q \in Seq(S), NEW i \in 1..Len(q)
  PROVE  /\ RemoveAt(q, i) \in Seq(S)
         /\ Len(RemoveAt(q, i)) = Len(q) - 1
         /\ \A j \in 1..(Len(q) - 1) : RemoveAt(q, i)[j] = IF j < i THEN q[j] ELSE q[j + 1]
<1> DEFINE a == SubSeq(q, 1, i - 1)
           b == SubSeq(q, i + 1, Len(q))
<1>1. a \in Seq(S) /\ Len(a) = i - 1 /\ \A j \in 1..(i - 1) : a[j] = q[j]
  OBVIOUS
<1>2. b \in Seq(S) /\ Len(b) = Len(q) - i /\ \A j \in 1..(Len(q) - i) : b[j] = q[i + j]
  OBVIOUS
<1> HIDE DEF a, b
<1>3. a \o b \in Seq(S) /\ Len(a \o b) = Len(q) - 1
  <2>1. a \o b \in Seq(S) /\ Len(a \o b) = Len(a) + Len(b)
    BY <1>1, <1>2, ConcatProperties
  <2> QED BY <2>1, <1>1, <1>2
<1>4. ASSUME NEW j \in 1..(Len(q) - 1)
      PROVE  (a \o b)[j] = IF j < i THEN q[j] ELSE q[j + 1]
  BY <1>1, <1>2
<1>5. RemoveAt(q, i) = a \o b
  BY DEF RemoveAt, a, b
<1> QED BY <1>3, <1>4, <1>5

(***************************************************************************)
(* The scan of gs_connectQueue stops at a line for the address.             *)
(***************************************************************************)
LEMMA ScanFinds ==
  ASSUME TypeOK, NEW a, Waiting(a) # {}
  PROVE  (CHOOSE j \in Waiting(a) : \A k \in Waiting(a) : j <= k) \in Waiting(a)
<1>1. Waiting(a) \in SUBSET Nat
  BY DEF Waiting, TypeOK
<1>2. \E j \in Waiting(a) : \A k \in Waiting(a) : j <= k
  BY <1>1, LeastElement
<1> QED BY <1>2

-------------------------------------------------------------------------------
\* The inductive invariant.

\* A server is connecting a client line exactly while it has gs_mutex.
Locking ==
  /\ gs_mutex = {s \in Servers : server[s].pc = "connect"}
  /\ \A s, u \in gs_mutex : s = u
  /\ \A s \in Servers : server[s].other # NULL <=> server[s].pc = "connect"

\* Whatever is referred to is a line that createClient has made.
LinesExist ==
  /\ \A i \in DOMAIN gs_connectQueue : gs_connectQueue[i] \in DOMAIN lines
  /\ \A s \in Servers : server[s].other # NULL => server[s].other \in DOMAIN lines
  /\ \A c \in Clients : client[c].pc = "wait" => client[c].line \in DOMAIN lines
  /\ \A i \in DOMAIN accepted : accepted[i].other \in DOMAIN lines

Unconnected(l) == lines[l].m_in = NULL /\ lines[l].m_out = NULL

\* A line is queued once, and leaves the queue before it is connected.
QueuedOnce ==
  /\ \A i, j \in DOMAIN gs_connectQueue : gs_connectQueue[i] = gs_connectQueue[j] => i = j
  /\ \A i \in DOMAIN gs_connectQueue : Unconnected(gs_connectQueue[i])
  /\ \A s \in Servers :
       server[s].pc = "connect" =>
         /\ Unconnected(server[s].other)
         /\ \A i \in DOMAIN gs_connectQueue : gs_connectQueue[i] # server[s].other

\* The i-th connection has queues of its own, and both its ends have them.
Wired ==
  \A i \in DOMAIN accepted :
    /\ accepted[i].m_in = <<"in", i>> /\ accepted[i].m_out = <<"out", i>>
    /\ lines[accepted[i].other].m_in = <<"out", i>>
    /\ lines[accepted[i].other].m_out = <<"in", i>>

\* Only servers inside wait_for are registered on gs_cond.
SleepersWait == \A s \in gs_cond : server[s].pc = "asleep"

\* A waiting client's line is queued, being connected, or connected.
WaitersHaveAPlace ==
  \A c \in Clients :
    client[c].pc = "wait" /\ managers = Managers =>
      \/ Connected(client[c].line)
      \/ \E i \in DOMAIN gs_connectQueue : gs_connectQueue[i] = client[c].line
      \/ \E s \in Servers : server[s].other = client[c].line

Inv ==
  /\ TypeOK
  /\ Locking /\ LinesExist /\ QueuedOnce /\ Wired
  /\ SleepersWait /\ NoMissedClient /\ WaitersHaveAPlace

-------------------------------------------------------------------------------
\* Every action keeps it.

(***************************************************************************)
(* A step in which no client line, queue entry or connection changes, and   *)
(* in which no server begins or ends connecting one, keeps everything that  *)
(* the invariant says of lines.                                             *)
(***************************************************************************)
LEMMA LinesUntouched ==
  ASSUME Inv,
         UNCHANGED <<managers, gs_mutex, gs_connectQueue, lines, accepted, client>>,
         server' \in [Servers -> ServerState],
         \A u \in Servers : /\ server'[u].other = server[u].other
                            /\ server'[u].pc = "connect" <=> server[u].pc = "connect"
  PROVE  Locking' /\ LinesExist' /\ QueuedOnce' /\ Wired' /\ WaitersHaveAPlace'
<1> USE DEF Inv
<1>1. Locking'
  BY DEF Locking
<1>2. LinesExist'
  BY DEF LinesExist
<1>3. QueuedOnce'
  BY DEF QueuedOnce, Unconnected
<1>4. Wired'
  BY DEF Wired
<1>5. WaitersHaveAPlace'
  <2> SUFFICES ASSUME NEW c \in Clients, client[c].pc = "wait", managers = Managers
               PROVE  \/ Connected(client[c].line)'
                      \/ \E i \in DOMAIN gs_connectQueue : gs_connectQueue[i] = client[c].line
                      \/ \E u \in Servers : server'[u].other = client[c].line
    BY DEF WaitersHaveAPlace
  <2>1. \/ Connected(client[c].line)
        \/ \E i \in DOMAIN gs_connectQueue : gs_connectQueue[i] = client[c].line
        \/ \E u \in Servers : server[u].other = client[c].line
    BY DEF WaitersHaveAPlace
  <2>2. Connected(client[c].line)' = Connected(client[c].line)
    BY DEF Connected
  <2> QED BY <2>1, <2>2
<1> QED BY <1>1, <1>2, <1>3, <1>4, <1>5

(***************************************************************************)
(* createServer registers an acceptor: nobody sleeps on its behalf yet.     *)
(***************************************************************************)
LEMMA CreateServerInv ==
  ASSUME Inv, NEW s \in Servers, NEW a \in Addresses, CreateServer(s, a)
  PROVE  Inv'
<1>1. /\ server[s] \in ServerState /\ server \in [Servers -> ServerState]
      /\ gs_cond \subseteq Servers /\ gs_acceptors \subseteq Servers
  BY DEF Inv, TypeOK
<1>2. /\ server' \in [Servers -> ServerState]
      /\ \A u \in Servers \ {s} : server'[u] = server[u]
      /\ server'[s].pc = "idle" /\ server'[s].other = server[s].other
  BY <1>1 DEF CreateServer, ServerState
<1>3. Locking' /\ LinesExist' /\ QueuedOnce' /\ Wired' /\ WaitersHaveAPlace'
  <2>1. \A u \in Servers : /\ server'[u].other = server[u].other
                           /\ server'[u].pc = "connect" <=> server[u].pc = "connect"
    BY <1>2 DEF CreateServer
  <2> QED BY <1>2, <2>1, LinesUntouched DEF CreateServer
<1>4. TypeOK'
  BY <1>1, <1>2 DEF CreateServer, Inv, TypeOK
<1>5. SleepersWait'
  BY <1>1, <1>2 DEF CreateServer, Inv, SleepersWait
<1>6. NoMissedClient'
  BY <1>1, <1>2 DEF CreateServer, Inv, SleepersWait, NoMissedClient, Waiting
<1> QED BY <1>3, <1>4, <1>5, <1>6 DEF Inv

(***************************************************************************)
(* An acceptor is destroyed between two calls of waitConnection.            *)
(***************************************************************************)
LEMMA DestroyAcceptorInv ==
  ASSUME Inv, NEW s \in Servers, DestroyAcceptor(s)
  PROVE  Inv'
<1>1. /\ server[s] \in ServerState /\ server \in [Servers -> ServerState]
      /\ gs_cond \subseteq Servers /\ gs_acceptors \subseteq Servers
  BY DEF Inv, TypeOK
<1>2. /\ server' \in [Servers -> ServerState]
      /\ \A u \in Servers \ {s} : server'[u] = server[u]
      /\ server'[s].pc = "none" /\ server'[s].other = server[s].other
  BY <1>1 DEF DestroyAcceptor, ServerState
<1>3. Locking' /\ LinesExist' /\ QueuedOnce' /\ Wired' /\ WaitersHaveAPlace'
  <2>1. \A u \in Servers : /\ server'[u].other = server[u].other
                           /\ server'[u].pc = "connect" <=> server[u].pc = "connect"
    BY <1>2 DEF DestroyAcceptor
  <2> QED BY <1>2, <2>1, LinesUntouched DEF DestroyAcceptor
<1>4. TypeOK'
  BY <1>1, <1>2 DEF DestroyAcceptor, Inv, TypeOK
<1>5. SleepersWait'
  BY <1>1, <1>2 DEF DestroyAcceptor, Inv, SleepersWait
<1>6. NoMissedClient'
  BY <1>1, <1>2 DEF DestroyAcceptor, Inv, SleepersWait, NoMissedClient, Waiting
<1> QED BY <1>3, <1>4, <1>5, <1>6 DEF Inv

(***************************************************************************)
(* waitConnection is called: the scan comes before the first sleep.         *)
(***************************************************************************)
LEMMA CallWaitConnectionInv ==
  ASSUME Inv, NEW s \in Servers, CallWaitConnection(s)
  PROVE  Inv'
<1>1. /\ server[s] \in ServerState /\ server \in [Servers -> ServerState]
      /\ gs_cond \subseteq Servers /\ gs_acceptors \subseteq Servers
  BY DEF Inv, TypeOK
<1>2. /\ server' \in [Servers -> ServerState]
      /\ \A u \in Servers \ {s} : server'[u] = server[u]
      /\ server'[s].pc = "scan" /\ server'[s].other = server[s].other
  BY <1>1 DEF CallWaitConnection, ServerState
<1>3. Locking' /\ LinesExist' /\ QueuedOnce' /\ Wired' /\ WaitersHaveAPlace'
  <2>1. \A u \in Servers : /\ server'[u].other = server[u].other
                           /\ server'[u].pc = "connect" <=> server[u].pc = "connect"
    BY <1>2 DEF CallWaitConnection
  <2> QED BY <1>2, <2>1, LinesUntouched DEF CallWaitConnection
<1>4. TypeOK'
  BY <1>1, <1>2 DEF CallWaitConnection, Inv, TypeOK
<1>5. SleepersWait'
  BY <1>1, <1>2 DEF CallWaitConnection, Inv, SleepersWait
<1>6. NoMissedClient'
  BY <1>1, <1>2 DEF CallWaitConnection, Inv, SleepersWait, NoMissedClient, Waiting
<1> QED BY <1>3, <1>4, <1>5, <1>6 DEF Inv

(***************************************************************************)
(* waitConnection returns nullptr: the acceptor was awake, and stays so.    *)
(***************************************************************************)
LEMMA GiveUpInv ==
  ASSUME Inv, NEW s \in Servers, GiveUp(s)
  PROVE  Inv'
<1>1. /\ server[s] \in ServerState /\ server \in [Servers -> ServerState]
      /\ gs_cond \subseteq Servers /\ gs_acceptors \subseteq Servers
  BY DEF Inv, TypeOK
<1>2. /\ server' \in [Servers -> ServerState]
      /\ \A u \in Servers \ {s} : server'[u] = server[u]
      /\ server'[s].pc = "idle" /\ server'[s].other = server[s].other
  BY <1>1 DEF GiveUp, ServerState
<1>3. Locking' /\ LinesExist' /\ QueuedOnce' /\ Wired' /\ WaitersHaveAPlace'
  <2>1. \A u \in Servers : /\ server'[u].other = server[u].other
                           /\ server'[u].pc = "connect" <=> server[u].pc = "connect"
    BY <1>2 DEF GiveUp, Awake
  <2> QED BY <1>2, <2>1, LinesUntouched DEF GiveUp
<1>4. TypeOK'
  BY <1>1, <1>2 DEF GiveUp, Inv, TypeOK
<1>5. SleepersWait'
  BY <1>1, <1>2 DEF GiveUp, Awake, Inv, SleepersWait
<1>6. NoMissedClient'
  BY <1>1, <1>2 DEF GiveUp, Awake, Inv, SleepersWait, NoMissedClient, Waiting
<1> QED BY <1>3, <1>4, <1>5, <1>6 DEF Inv

(***************************************************************************)
(* waitConnection sleeps: the scan under the same gs_mutex found nothing.   *)
(***************************************************************************)
LEMMA SleepInv ==
  ASSUME Inv, NEW s \in Servers, Sleep(s)
  PROVE  Inv'
<1>1. /\ server[s] \in ServerState /\ server \in [Servers -> ServerState]
      /\ gs_cond \subseteq Servers /\ gs_acceptors \subseteq Servers
  BY DEF Inv, TypeOK
<1>2. /\ server' \in [Servers -> ServerState]
      /\ \A u \in Servers \ {s} : server'[u] = server[u]
      /\ server'[s].pc = "asleep" /\ server'[s].other = server[s].other /\ server'[s].address = server[s].address
  BY <1>1 DEF Sleep, ServerState
<1>3. Locking' /\ LinesExist' /\ QueuedOnce' /\ Wired' /\ WaitersHaveAPlace'
  <2>1. \A u \in Servers : /\ server'[u].other = server[u].other
                           /\ server'[u].pc = "connect" <=> server[u].pc = "connect"
    BY <1>2 DEF Sleep, Awake
  <2> QED BY <1>2, <2>1, LinesUntouched DEF Sleep
<1>4. TypeOK'
  BY <1>1, <1>2 DEF Sleep, Inv, TypeOK
<1>5. SleepersWait'
  BY <1>1, <1>2 DEF Sleep, Awake, Inv, SleepersWait
<1>6. NoMissedClient'
  BY <1>1, <1>2 DEF Sleep, Awake, Inv, SleepersWait, NoMissedClient, Waiting
<1> QED BY <1>3, <1>4, <1>5, <1>6 DEF Inv

(***************************************************************************)
(* A deadline passes: the acceptor wakes up, if it slept.                   *)
(***************************************************************************)
LEMMA ExpireInv ==
  ASSUME Inv, NEW s \in Servers, Expire(s)
  PROVE  Inv'
<1>1. /\ server[s] \in ServerState /\ server \in [Servers -> ServerState]
      /\ gs_cond \subseteq Servers /\ gs_acceptors \subseteq Servers
  BY DEF Inv, TypeOK
<1>2. /\ server' \in [Servers -> ServerState]
      /\ \A u \in Servers \ {s} : server'[u] = server[u]
      /\ server'[s].pc = server[s].pc /\ server'[s].other = server[s].other /\ server'[s].address = server[s].address
  BY <1>1 DEF Expire, ServerState
<1>3. Locking' /\ LinesExist' /\ QueuedOnce' /\ Wired' /\ WaitersHaveAPlace'
  <2>1. \A u \in Servers : /\ server'[u].other = server[u].other
                           /\ server'[u].pc = "connect" <=> server[u].pc = "connect"
    BY <1>2 DEF Expire
  <2> QED BY <1>2, <2>1, LinesUntouched DEF Expire
<1>4. TypeOK'
  BY <1>1, <1>2 DEF Expire, Inv, TypeOK
<1>5. SleepersWait'
  BY <1>1, <1>2 DEF Expire, Inv, SleepersWait
<1>6. NoMissedClient'
  BY <1>1, <1>2 DEF Expire, Inv, SleepersWait, NoMissedClient, Waiting
<1> QED BY <1>3, <1>4, <1>5, <1>6 DEF Inv

(***************************************************************************)
(* waitForConnection returns or sleeps: it touches only its own thread.     *)
(***************************************************************************)
LEMMA WaitForConnectionInv ==
  ASSUME Inv, NEW c \in Clients, WaitForConnection(c)
  PROVE  Inv'
<1>1. client \in [Clients -> ClientState]
  BY DEF Inv, TypeOK
<1>2. /\ client' \in [Clients -> ClientState]
      /\ \A d \in Clients : /\ client'[d].pc = "wait" => client[d].pc = "wait"
                            /\ client'[d].line = client[d].line
  BY <1>1 DEF WaitForConnection, ClientState
<1>3. TypeOK'
  BY <1>2 DEF WaitForConnection, Inv, TypeOK
<1>4. Locking' /\ QueuedOnce' /\ Wired' /\ SleepersWait' /\ NoMissedClient'
  BY DEF WaitForConnection, Inv, Locking, QueuedOnce, Unconnected, Wired, SleepersWait,
         NoMissedClient, Waiting
<1>5. LinesExist'
  BY <1>2 DEF WaitForConnection, Inv, LinesExist
<1>6. WaitersHaveAPlace'
  <2>1. \A l : Connected(l)' = Connected(l)
    BY DEF WaitForConnection, Connected
  <2>2. UNCHANGED <<managers, gs_connectQueue, server>>
    BY DEF WaitForConnection
  <2> QED BY <1>2, <2>1, <2>2 DEF Inv, WaitersHaveAPlace
<1> QED BY <1>3, <1>4, <1>5, <1>6 DEF Inv

(***************************************************************************)
(* A spurious wake-up only takes a thread off a condition variable.         *)
(***************************************************************************)
LEMMA SpuriousWakeInv ==
  ASSUME Inv, SpuriousWake
  PROVE  Inv'
<1>1. gs_cond' \subseteq gs_cond /\ m_condition' \subseteq m_condition
  BY DEF SpuriousWake
<1>2. UNCHANGED <<managers, gs_mutex, gs_acceptors, gs_connectQueue, lines, accepted, client, server>>
  BY DEF SpuriousWake
<1>3. TypeOK'
  BY <1>1, <1>2 DEF Inv, TypeOK
<1>4. Locking' /\ LinesExist' /\ QueuedOnce' /\ Wired' /\ WaitersHaveAPlace'
  BY <1>2, LinesUntouched DEF Inv, TypeOK
<1>5. SleepersWait' /\ NoMissedClient'
  BY <1>1, <1>2 DEF Inv, SleepersWait, NoMissedClient, Waiting
<1> QED BY <1>3, <1>4, <1>5 DEF Inv

(***************************************************************************)
(* ~InprocLineFactory empties the queue: nothing is queued twice or missed, *)
(* and the clients it strands are no longer promised a place.               *)
(***************************************************************************)
LEMMA DestroyManagerInv ==
  ASSUME Inv, NEW m \in Managers, DestroyManager(m)
  PROVE  Inv'
<1>1. /\ gs_connectQueue' = <<>> /\ gs_acceptors' = {} /\ managers' = managers \ {m}
      /\ UNCHANGED <<gs_mutex, gs_cond, lines, accepted, m_condition, client, server>>
  BY DEF DestroyManager
<1>2. DOMAIN gs_connectQueue' = {} /\ gs_connectQueue' \in Seq(LineIds)
  BY <1>1
<1>3. TypeOK'
  BY <1>1, <1>2 DEF Inv, TypeOK
<1>4. Locking' /\ LinesExist' /\ Wired' /\ SleepersWait'
  BY <1>1, <1>2 DEF Inv, Locking, LinesExist, Wired, SleepersWait
<1>5. QueuedOnce'
  BY <1>1, <1>2 DEF Inv, QueuedOnce, Unconnected
<1>6. NoMissedClient'
  BY <1>2 DEF NoMissedClient, Waiting
<1>7. WaitersHaveAPlace'
  <2>1. managers' # Managers
    BY <1>1
  <2> QED BY <2>1 DEF WaitersHaveAPlace
<1> QED BY <1>3, <1>4, <1>5, <1>6, <1>7 DEF Inv

(***************************************************************************)
(* createClient queues a line that no connection knows, and notify_all      *)
(* leaves nobody asleep on gs_cond.                                         *)
(***************************************************************************)
LEMMA CreateClientInv ==
  ASSUME Inv, NEW c \in Clients, NEW a \in Addresses, CreateClient(c, a)
  PROVE  Inv'
<1> DEFINE l    == Len(lines) + 1
           new  == [address |-> a, m_in |-> NULL, m_out |-> NULL]
<1>1. PICK m \in managers : client' = [client EXCEPT ![c] = [pc |-> "wait", manager |-> m, line |-> l]]
  BY DEF CreateClient
<1>2. /\ Len(lines) < MaxLines
      /\ lines' = Append(lines, new)
      /\ gs_connectQueue' = Append(gs_connectQueue, l)
      /\ gs_cond' = {}
      /\ UNCHANGED <<managers, gs_mutex, gs_acceptors, accepted, m_condition, server>>
  BY DEF CreateClient
<1>3. /\ lines \in Seq(ClientLine) /\ gs_connectQueue \in Seq(LineIds)
      /\ client \in [Clients -> ClientState] /\ managers \subseteq Managers
      /\ Len(lines) \in Nat /\ Len(gs_connectQueue) \in Nat /\ MaxLines \in Nat
      /\ DOMAIN lines = 1..Len(lines) /\ DOMAIN gs_connectQueue = 1..Len(gs_connectQueue)
  BY RegistryAssumption DEF Inv, TypeOK
<1>4. new \in ClientLine /\ l \in LineIds
  BY <1>2, <1>3 DEF ClientLine, LineIds
<1>5. /\ lines' \in Seq(ClientLine) /\ Len(lines') = l
      /\ DOMAIN lines' = 1..l
      /\ \A k \in DOMAIN lines : lines'[k] = lines[k]
      /\ lines'[l] = new
  <2> HIDE DEF new
  <2> QED BY <1>2, <1>3, <1>4, AppendProperties
<1>6. /\ gs_connectQueue' \in Seq(LineIds)
      /\ DOMAIN gs_connectQueue' = 1..(Len(gs_connectQueue) + 1)
      /\ \A i \in DOMAIN gs_connectQueue : gs_connectQueue'[i] = gs_connectQueue[i]
      /\ gs_connectQueue'[Len(gs_connectQueue) + 1] = l
  BY <1>2, <1>3, <1>4, AppendProperties
<1>7. /\ client' \in [Clients -> ClientState]
      /\ \A d \in Clients \ {c} : client'[d] = client[d]
      /\ client'[c].line = l
  BY <1>1, <1>3, <1>4 DEF ClientState
<1>8. DOMAIN lines' = DOMAIN lines \cup {l} /\ l \notin DOMAIN lines
  BY <1>3, <1>5
<1>9. DOMAIN gs_connectQueue' = DOMAIN gs_connectQueue \cup {Len(gs_connectQueue) + 1}
  BY <1>3, <1>6
<1> HIDE DEF l
<1>10. TypeOK'
  <2>1. Len(lines') <= MaxLines
    BY <1>2, <1>3, <1>5 DEF l
  <2> HIDE DEF new
  <2> QED BY <1>2, <1>5, <1>6, <1>7, <2>1 DEF Inv, TypeOK
<1>11. Locking' /\ SleepersWait' /\ NoMissedClient'
  BY <1>2 DEF Inv, Locking, SleepersWait, NoMissedClient
<1>12. LinesExist'
  BY <1>2, <1>6, <1>7, <1>8, <1>9 DEF Inv, LinesExist
<1>13. QueuedOnce'
  <2>1. \A i \in DOMAIN gs_connectQueue : gs_connectQueue[i] \in DOMAIN lines
    BY DEF Inv, LinesExist
  <2>2. \A i, j \in DOMAIN gs_connectQueue' : gs_connectQueue'[i] = gs_connectQueue'[j] => i = j
    BY <1>6, <1>8, <1>9, <2>1 DEF Inv, QueuedOnce
  <2>3. ASSUME NEW i \in DOMAIN gs_connectQueue'
        PROVE  Unconnected(gs_connectQueue[i])'
    <3>1. CASE i \in DOMAIN gs_connectQueue
      <4>1. lines'[gs_connectQueue'[i]] = lines[gs_connectQueue[i]]
        BY <1>5, <1>6, <2>1, <3>1
      <4> QED BY <3>1, <4>1 DEF Inv, QueuedOnce, Unconnected
    <3>2. CASE i = Len(gs_connectQueue) + 1
      BY <1>5, <1>6, <3>2 DEF Unconnected
    <3> QED BY <1>9, <3>1, <3>2
  <2>4. ASSUME NEW s \in Servers, server'[s].pc = "connect"
        PROVE  /\ Unconnected(server[s].other)'
               /\ \A i \in DOMAIN gs_connectQueue' : gs_connectQueue'[i] # server'[s].other
    <3>1. server'[s] = server[s] /\ server[s].other \in DOMAIN lines
      BY <1>2, <2>4 DEF Inv, LinesExist, Locking
    <3>2. Unconnected(server[s].other)'
      BY <1>2, <1>5, <2>4, <3>1 DEF Inv, QueuedOnce, Unconnected
    <3>3. \A i \in DOMAIN gs_connectQueue' : gs_connectQueue'[i] # server[s].other
      BY <1>2, <1>6, <1>8, <1>9, <2>4, <3>1 DEF Inv, QueuedOnce
    <3> QED BY <3>1, <3>2, <3>3
  <2> QED BY <2>2, <2>3, <2>4 DEF QueuedOnce
<1>14. Wired'
  <2>1. \A i \in DOMAIN accepted : accepted[i].other \in DOMAIN lines
    BY DEF Inv, LinesExist
  <2> HIDE DEF new
  <2> QED BY <1>2, <1>5, <2>1 DEF Inv, Wired
<1>15. WaitersHaveAPlace'
  <2> SUFFICES ASSUME NEW d \in Clients, client'[d].pc = "wait", managers = Managers
               PROVE  \/ Connected(client[d].line)'
                      \/ \E i \in DOMAIN gs_connectQueue' : gs_connectQueue'[i] = client'[d].line
                      \/ \E s \in Servers : server[s].other = client'[d].line
    BY <1>2 DEF WaitersHaveAPlace
  <2>1. CASE d = c
    BY <1>6, <1>7, <1>9, <2>1
  <2>2. CASE d # c
    <3>1. client'[d] = client[d] /\ client[d].line \in DOMAIN lines
      BY <1>7, <2>2 DEF Inv, LinesExist
    <3>2. \/ Connected(client[d].line)
          \/ \E i \in DOMAIN gs_connectQueue : gs_connectQueue[i] = client[d].line
          \/ \E s \in Servers : server[s].other = client[d].line
      BY <3>1 DEF Inv, WaitersHaveAPlace
    <3>3. Connected(client[d].line) => Connected(client[d].line)'
      BY <1>5, <3>1 DEF Connected
    <3>4. \A i \in DOMAIN gs_connectQueue : i \in DOMAIN gs_connectQueue' /\ gs_connectQueue'[i] = gs_connectQueue[i]
      BY <1>6, <1>9
    <3> QED BY <3>1, <3>2, <3>3, <3>4
  <2> QED BY <2>1, <2>2
<1> QED BY <1>10, <1>11, <1>12, <1>13, <1>14, <1>15 DEF Inv

(***************************************************************************)
(* waitConnection takes the line it found off the queue.  The others keep   *)
(* their order, and gs_mutex stays with this acceptor.                      *)
(***************************************************************************)
LEMMA TakeClientInv ==
  ASSUME Inv, NEW s \in Servers, TakeClient(s)
  PROVE  Inv'
<1> DEFINE q == gs_connectQueue
           i == CHOOSE j \in Waiting(server[s].address) : \A k \in Waiting(server[s].address) : j <= k
           l == q[i]
<1>1. /\ server' = [server EXCEPT ![s].pc = "connect", ![s].other = l]
      /\ q' = RemoveAt(q, i)
      /\ gs_mutex = {} /\ gs_mutex' = {s}
      /\ Awake(s)
      /\ UNCHANGED <<managers, gs_cond, gs_acceptors, lines, accepted, m_condition, client>>
  BY DEF TakeClient
<1>2. i \in DOMAIN q
  <2>1. i \in Waiting(server[s].address)
    BY ScanFinds DEF TakeClient, Inv
  <2> QED BY <2>1 DEF Waiting
<1> HIDE DEF i
<1>3. /\ q \in Seq(LineIds) /\ Len(q) \in Nat /\ DOMAIN q = 1..Len(q)
      /\ server \in [Servers -> ServerState] /\ gs_cond \subseteq Servers
  BY DEF Inv, TypeOK
<1>4. /\ q' \in Seq(LineIds) /\ DOMAIN q' = 1..(Len(q) - 1)
      /\ \A j \in 1..(Len(q) - 1) : q'[j] = IF j < i THEN q[j] ELSE q[j + 1]
  <2>1. /\ q' \in Seq(LineIds) /\ Len(q') = Len(q) - 1
        /\ \A j \in 1..(Len(q) - 1) : q'[j] = IF j < i THEN q[j] ELSE q[j + 1]
    BY <1>1, <1>2, <1>3, RemoveAtFacts
  <2> QED BY <2>1
\* Where the entries of the new queue were, and where those of the old one are.
<1>5. \A j \in DOMAIN q' : \E k \in DOMAIN q \ {i} : q'[j] = q[k]
  BY <1>2, <1>3, <1>4
<1>6. ASSUME NEW k \in DOMAIN q \ {i}
      PROVE  \E j \in DOMAIN q' : q'[j] = q[k]
  <2>1. CASE k < i
    BY <1>2, <1>3, <1>4, <2>1
  <2>2. CASE k > i
    <3>1. k - 1 \in 1..(Len(q) - 1) /\ ~(k - 1 < i)
      BY <1>2, <1>3, <2>2
    <3>2. q'[k - 1] = q[k]
      BY <1>3, <1>4, <3>1
    <3> QED BY <1>4, <3>1, <3>2
  <2> QED BY <1>2, <1>3, <2>1, <2>2
<1>7. l \in LineIds /\ l \in DOMAIN lines /\ Unconnected(l)
  BY <1>2, <1>3 DEF Inv, LinesExist, QueuedOnce
<1>8. /\ server' \in [Servers -> ServerState]
      /\ \A u \in Servers \ {s} : server'[u] = server[u]
      /\ server'[s].pc = "connect" /\ server'[s].other = l
  BY <1>1, <1>3, <1>7 DEF ServerState
<1>9. \A u \in Servers : server[u].pc # "connect" /\ server[u].other = NULL
  BY <1>1 DEF Inv, Locking
<1>10. \A a : Waiting(a) = {} => Waiting(a)' = {}
  BY <1>1, <1>5 DEF Waiting
<1>11. \A k \in DOMAIN q \ {i} : q[k] # l
  BY <1>2 DEF Inv, QueuedOnce
<1>12. \A j, k \in DOMAIN q' : q'[j] = q'[k] => j = k
  <2> SUFFICES ASSUME NEW j \in DOMAIN q', NEW k \in DOMAIN q', q'[j] = q'[k]
               PROVE  j = k
    OBVIOUS
  <2>1. \A x, y \in DOMAIN q : q[x] = q[y] => x = y
    BY DEF Inv, QueuedOnce
  <2> DEFINE h(x) == IF x < i THEN x ELSE x + 1
  <2>2. h(j) \in DOMAIN q /\ h(k) \in DOMAIN q
    BY <1>2, <1>3, <1>4
  <2>3. q'[j] = q[h(j)] /\ q'[k] = q[h(k)]
    BY <1>4
  <2>4. h(j) = h(k)
    <3> HIDE DEF h
    <3> QED BY <2>1, <2>2, <2>3
  <2> QED BY <1>2, <1>3, <1>4, <2>4
<1>13. l # NULL
  BY <1>7, RegistryAssumption DEF LineIds
<1> HIDE DEF q, l
<1>14. TypeOK'
  BY <1>1, <1>4, <1>8 DEF q, Inv, TypeOK
<1>15. Locking'
  BY <1>1, <1>8, <1>9, <1>13 DEF Locking
<1>16. LinesExist'
  <2>1. \A j \in DOMAIN q' : q'[j] \in DOMAIN lines
    BY <1>5 DEF q, Inv, LinesExist
  <2>2. \A u \in Servers : server'[u].other # NULL => server'[u].other \in DOMAIN lines
    BY <1>7, <1>8, <1>9
  <2> QED BY <1>1, <2>1, <2>2 DEF q, Inv, LinesExist
<1>17. QueuedOnce'
  <2>1. \A k : Unconnected(k)' = Unconnected(k)
    BY <1>1 DEF Unconnected
  <2>2. \A j \in DOMAIN q' : Unconnected(q'[j])
    BY <1>5 DEF q, Inv, QueuedOnce
  <2>3. \A j \in DOMAIN q' : q'[j] # l
    BY <1>5, <1>11
  <2>4. \A u \in Servers : server'[u].pc = "connect" => server'[u].other = l
    BY <1>8, <1>9
  <2>5. \A j \in DOMAIN q' : Unconnected(q[j])'
    BY <2>1, <2>2
  <2>6. \A u \in Servers : server'[u].pc = "connect" => Unconnected(server[u].other)'
    BY <1>7, <2>1, <2>4
  <2> QED BY <1>12, <2>3, <2>4, <2>5, <2>6 DEF q, QueuedOnce
<1>18. Wired'
  BY <1>1 DEF Inv, Wired
<1>19. s \notin gs_cond
  BY <1>1 DEF Awake, Inv, SleepersWait
<1>20. SleepersWait' /\ NoMissedClient'
  BY <1>1, <1>3, <1>8, <1>10, <1>19 DEF Inv, SleepersWait, NoMissedClient
<1>21. WaitersHaveAPlace'
  <2> SUFFICES ASSUME NEW c \in Clients, client[c].pc = "wait", managers = Managers
               PROVE  \/ Connected(client[c].line)'
                      \/ \E j \in DOMAIN q' : q'[j] = client[c].line
                      \/ \E u \in Servers : server'[u].other = client[c].line
    BY <1>1 DEF q, WaitersHaveAPlace
  <2>1. \/ Connected(client[c].line)
        \/ \E k \in DOMAIN q : q[k] = client[c].line
        \/ \E u \in Servers : server[u].other = client[c].line
    BY DEF q, Inv, WaitersHaveAPlace
  <2>2. CASE Connected(client[c].line)
    BY <1>1, <2>2 DEF Connected
  <2>3. CASE \E k \in DOMAIN q : q[k] = client[c].line
    BY <1>6, <1>8, <2>3 DEF l
  <2>4. CASE \E u \in Servers : server[u].other = client[c].line
    <3>1. client[c].line # NULL
      BY RegistryAssumption DEF Inv, TypeOK, LinesExist
    <3> QED BY <1>9, <2>4, <3>1
  <2> QED BY <2>1, <2>2, <2>3, <2>4
<1> QED BY <1>14, <1>15, <1>16, <1>17, <1>18, <1>20, <1>21 DEF Inv

(***************************************************************************)
(* While a line is still to be connected there are fewer connections than   *)
(* lines: every connection has a client line of its own.                    *)
(***************************************************************************)
LEMMA ConnectionsAreFewer ==
  ASSUME Inv, NEW l \in DOMAIN lines, Unconnected(l)
  PROVE  Len(accepted) < Len(lines)
<1> DEFINE S == 1..Len(accepted)
           T == (1..Len(lines)) \ {l}
           f == [i \in S |-> accepted[i].other]
<1>1. /\ lines \in Seq(ClientLine) /\ accepted \in Seq(ServerLine)
      /\ Len(lines) \in Nat /\ Len(accepted) \in Nat
      /\ DOMAIN lines = 1..Len(lines) /\ DOMAIN accepted = S
  BY DEF Inv, TypeOK
<1>2. IsFiniteSet(S) /\ Cardinality(S) = Len(accepted)
  BY <1>1, FirstNumbers
<1>3. IsFiniteSet(T) /\ Cardinality(T) = Len(lines) - 1
  <2>1. IsFiniteSet(1..Len(lines)) /\ Cardinality(1..Len(lines)) = Len(lines)
    BY <1>1, FirstNumbers
  <2>2. l \in 1..Len(lines)
    BY <1>1
  <2> QED BY <2>1, <2>2, FS_RemoveElement
<1>4. \A i \in S : lines[accepted[i].other].m_in = <<"out", i>>
  BY <1>1 DEF Inv, Wired
<1>5. \A i \in S : accepted[i].other \in T
  <2>1. \A i \in S : <<"out", i>> # NULL
    BY <1>1, RegistryAssumption
  <2>2. \A i \in S : accepted[i].other # l
    BY <1>4, <2>1 DEF Unconnected
  <2> QED BY <1>1, <2>2 DEF Inv, LinesExist
<1>6. f \in [S -> T]
  BY <1>5
<1>7. \A i, j \in S : f[i] = f[j] => i = j
  <2> SUFFICES ASSUME NEW i \in S, NEW j \in S, accepted[i].other = accepted[j].other
               PROVE  i = j
    OBVIOUS
  <2>1. <<"out", i>> = <<"out", j>>
    BY <1>4
  <2> QED BY <2>1
<1> HIDE DEF S, T, f
<1>8. ~(Cardinality(T) < Cardinality(S))
  BY <1>2, <1>3, <1>6, <1>7, FS_PigeonHole
<1> QED BY <1>1, <1>2, <1>3, <1>8

(***************************************************************************)
(* InprocLine(other) wires a line that no connection had, and gives up      *)
(* gs_mutex.  The new connection has the next number, so its queues are     *)
(* nobody else's.                                                           *)
(***************************************************************************)
LEMMA ConnectInv ==
  ASSUME Inv, NEW s \in Servers, Connect(s)
  PROVE  Inv'
<1> DEFINE l  == server[s].other
           n  == Len(accepted) + 1
           sl == [other |-> l, m_in |-> <<"in", n>>, m_out |-> <<"out", n>>]
<1>1. /\ server[s].pc = "connect"
      /\ accepted' = Append(accepted, sl)
      /\ lines' = [lines EXCEPT ![l].m_out = <<"in", n>>, ![l].m_in = <<"out", n>>]
      /\ m_condition' = {c \in m_condition : client[c].line # l}
      /\ gs_mutex' = {}
      /\ server' = [server EXCEPT ![s].pc = "idle", ![s].other = NULL, ![s].result = "line"]
      /\ UNCHANGED <<managers, gs_cond, gs_acceptors, gs_connectQueue, client>>
  BY DEF Connect
<1>2. /\ lines \in Seq(ClientLine) /\ accepted \in Seq(ServerLine)
      /\ Len(lines) \in Nat /\ Len(accepted) \in Nat /\ MaxLines \in Nat /\ Len(lines) <= MaxLines
      /\ DOMAIN lines = 1..Len(lines) /\ DOMAIN accepted = 1..Len(accepted)
      /\ server \in [Servers -> ServerState] /\ gs_cond \subseteq Servers
      /\ m_condition \subseteq Clients
  BY RegistryAssumption DEF Inv, TypeOK
<1>3. l # NULL /\ l \in DOMAIN lines /\ Unconnected(l) /\ l \in LineIds
  <2>1. l # NULL /\ l \in DOMAIN lines /\ Unconnected(l)
    BY <1>1 DEF Inv, Locking, LinesExist, QueuedOnce
  <2> QED BY <1>2, <2>1 DEF LineIds
<1>4. n \in LineIds
  <2>1. Len(accepted) < Len(lines)
    BY <1>3, ConnectionsAreFewer
  <2> QED BY <1>2, <2>1 DEF LineIds
<1>5. <<"in", n>> \in Queue /\ <<"out", n>> \in Queue
  BY <1>4 DEF Queue
<1>6. <<"in", n>> # NULL /\ <<"out", n>> # NULL
  BY <1>2, RegistryAssumption
<1>7. sl \in ServerLine
  BY <1>3, <1>5 DEF ServerLine
<1>8. /\ accepted' \in Seq(ServerLine) /\ DOMAIN accepted' = 1..n
      /\ \A i \in DOMAIN accepted : accepted'[i] = accepted[i]
      /\ accepted'[n] = sl
  <2> HIDE DEF sl
  <2> QED BY <1>1, <1>2, <1>7, AppendProperties
<1>9. DOMAIN accepted' = DOMAIN accepted \cup {n} /\ n \notin DOMAIN accepted
  BY <1>2, <1>8
<1>10. /\ lines' \in Seq(ClientLine) /\ Len(lines') = Len(lines) /\ DOMAIN lines' = DOMAIN lines
       /\ \A k \in DOMAIN lines \ {l} : lines'[k] = lines[k]
       /\ lines'[l].m_in = <<"out", n>> /\ lines'[l].m_out = <<"in", n>>
       /\ lines'[l].address = lines[l].address
  <2> DEFINE cl == [lines[l] EXCEPT !.m_out = <<"in", n>>, !.m_in = <<"out", n>>]
  <2>1. lines[l] \in ClientLine
    BY <1>2, <1>3
  <2>2. /\ cl \in ClientLine /\ cl.m_in = <<"out", n>> /\ cl.m_out = <<"in", n>>
        /\ cl.address = lines[l].address
    BY <1>5, <2>1 DEF ClientLine
  <2>3. lines' = [lines EXCEPT ![l] = cl]
    BY <1>1
  <2> HIDE DEF cl, n
  <2>4. lines' \in Seq(ClientLine) /\ Len(lines') = Len(lines)
    BY <1>2, <1>3, <2>2, <2>3, ExceptSeq
  <2>5. lines'[l] = cl /\ \A k \in DOMAIN lines \ {l} : lines'[k] = lines[k]
    BY <1>3, <2>3
  <2>6. DOMAIN lines' = DOMAIN lines
    BY <2>3
  <2> QED BY <2>2, <2>4, <2>5, <2>6
<1>11. /\ server' \in [Servers -> ServerState]
       /\ \A u \in Servers \ {s} : server'[u] = server[u]
       /\ server'[s].pc = "idle" /\ server'[s].other = NULL
  <2> HIDE DEF l, n, sl
  <2>1. /\ server[s] \in ServerState
        /\ server' = [server EXCEPT ![s] = [server[s] EXCEPT !.pc = "idle", !.other = NULL,
                                                             !.result = "line"]]
    BY <1>1, <1>2
  <2> QED BY <1>2, <2>1 DEF ServerState
<1>12. \A u \in Servers \ {s} : server[u].pc # "connect" /\ server[u].other = NULL
  BY <1>1 DEF Inv, Locking
<1>13. \A i \in DOMAIN gs_connectQueue : gs_connectQueue[i] \in DOMAIN lines \ {l}
  BY <1>1, <1>3 DEF Inv, LinesExist, QueuedOnce
<1>14. \A i \in DOMAIN accepted : accepted[i].other \in DOMAIN lines \ {l}
  <2>1. \A i \in DOMAIN accepted : lines[accepted[i].other].m_in # NULL
    <3>1. \A i \in DOMAIN accepted : <<"out", i>> # NULL
      BY <1>2, RegistryAssumption
    <3> QED BY <3>1 DEF Inv, Wired
  <2> QED BY <1>3, <2>1 DEF Inv, LinesExist, Unconnected
<1>15. sl.other = l /\ sl.m_in = <<"in", n>> /\ sl.m_out = <<"out", n>>
  OBVIOUS
<1> HIDE DEF l, n, sl
<1>16. TypeOK'
  BY <1>1, <1>2, <1>8, <1>10, <1>11 DEF Inv, TypeOK
<1>17. Locking'
  BY <1>1, <1>11, <1>12 DEF Locking
<1>18. LinesExist'
  <2>1. \A u \in Servers : server'[u].other = NULL
    BY <1>11, <1>12
  <2>2. \A i \in DOMAIN accepted' : accepted'[i].other \in DOMAIN lines
    BY <1>3, <1>8, <1>9, <1>14, <1>15
  <2> QED BY <1>1, <1>10, <2>1, <2>2 DEF Inv, LinesExist
<1>19. QueuedOnce'
  <2>1. \A u \in Servers : server'[u].pc # "connect"
    BY <1>11, <1>12
  <2>2. \A i \in DOMAIN gs_connectQueue : lines'[gs_connectQueue[i]] = lines[gs_connectQueue[i]]
    BY <1>10, <1>13
  <2>3. \A i \in DOMAIN gs_connectQueue' : Unconnected(gs_connectQueue[i])'
    <3>1. gs_connectQueue' = gs_connectQueue
      BY <1>1
    <3>2. \A i \in DOMAIN gs_connectQueue : Unconnected(gs_connectQueue[i])
      BY DEF Inv, QueuedOnce
    <3> QED BY <2>2, <3>1, <3>2 DEF Unconnected
  <2>4. \A i, j \in DOMAIN gs_connectQueue' : gs_connectQueue'[i] = gs_connectQueue'[j] => i = j
    BY <1>1 DEF Inv, QueuedOnce
  <2> QED BY <2>1, <2>3, <2>4 DEF QueuedOnce
<1>20. Wired'
  <2> SUFFICES ASSUME NEW i \in DOMAIN accepted'
               PROVE  /\ accepted'[i].m_in = <<"in", i>> /\ accepted'[i].m_out = <<"out", i>>
                      /\ lines'[accepted'[i].other].m_in = <<"out", i>>
                      /\ lines'[accepted'[i].other].m_out = <<"in", i>>
    BY DEF Wired
  <2>1. CASE i = n
    BY <1>8, <1>10, <1>15, <2>1
  <2>2. CASE i \in DOMAIN accepted
    <3>1. accepted'[i] = accepted[i] /\ lines'[accepted[i].other] = lines[accepted[i].other]
      BY <1>8, <1>10, <1>14, <2>2
    <3> QED BY <2>2, <3>1 DEF Inv, Wired
  <2> QED BY <1>9, <2>1, <2>2
<1>21. SleepersWait'
  BY <1>1, <1>2, <1>11 DEF Inv, SleepersWait
<1>22. NoMissedClient'
  <2>1. \A a : Waiting(a)' = Waiting(a)
    BY <1>1, <1>10, <1>13 DEF Waiting
  <2>2. \A u \in gs_cond : u # s
    BY <1>1 DEF Inv, SleepersWait
  <2>3. \A u \in gs_cond : server'[u].address = server[u].address
    BY <1>2, <1>11, <2>2
  <2> QED BY <1>1, <2>1, <2>3 DEF Inv, NoMissedClient
<1>23. WaitersHaveAPlace'
  <2> SUFFICES ASSUME NEW c \in Clients, client[c].pc = "wait", managers = Managers
               PROVE  \/ Connected(client[c].line)'
                      \/ \E i \in DOMAIN gs_connectQueue : gs_connectQueue[i] = client[c].line
                      \/ \E u \in Servers : server'[u].other = client[c].line
    BY <1>1 DEF WaitersHaveAPlace
  <2>1. client[c].line \in DOMAIN lines
    BY DEF Inv, LinesExist
  <2>2. CASE client[c].line = l
    BY <1>1, <1>6, <1>10, <2>2 DEF Connected
  <2>3. CASE client[c].line # l
    <3>1. \/ Connected(client[c].line)
          \/ \E i \in DOMAIN gs_connectQueue : gs_connectQueue[i] = client[c].line
          \/ \E u \in Servers : server[u].other = client[c].line
      BY DEF Inv, WaitersHaveAPlace
    <3>2. ~\E u \in Servers : server[u].other = client[c].line
      <4>1. client[c].line # NULL
        BY <1>2, <2>1, RegistryAssumption
      <4> QED BY <1>12, <2>3, <4>1 DEF l
    <3>3. Connected(client[c].line) => Connected(client[c].line)'
      BY <1>1, <1>10, <2>1, <2>3 DEF Connected
    <3> QED BY <3>1, <3>2, <3>3
  <2> QED BY <2>2, <2>3
<1> QED BY <1>16, <1>17, <1>18, <1>19, <1>20, <1>21, <1>22, <1>23 DEF Inv

-------------------------------------------------------------------------------
\* Theorems.

(***************************************************************************)
(* The invariant holds at first.                                            *)
(***************************************************************************)
LEMMA InitInv == Init => Inv
<1> SUFFICES ASSUME Init PROVE Inv
  OBVIOUS
<1>1. TypeOK
  BY RegistryAssumption DEF Init, TypeOK, ClientState, ServerState
<1>2. DOMAIN gs_connectQueue = {} /\ DOMAIN accepted = {}
  BY DEF Init
<1>3. \A s \in Servers : server[s].pc = "none" /\ server[s].other = NULL
  BY DEF Init
<1>4. \A c \in Clients : client[c].pc = "idle"
  BY DEF Init
<1>5. Locking /\ SleepersWait /\ NoMissedClient
  BY <1>3 DEF Init, Locking, SleepersWait, NoMissedClient
<1>6. LinesExist /\ QueuedOnce /\ Wired /\ WaitersHaveAPlace
  BY <1>2, <1>3, <1>4 DEF LinesExist, QueuedOnce, Wired, WaitersHaveAPlace
<1> QED BY <1>1, <1>5, <1>6 DEF Inv

(***************************************************************************)
(* Every step keeps the invariant.                                          *)
(***************************************************************************)
LEMMA StepInv == Inv /\ [Next]_vars => Inv'
<1> SUFFICES ASSUME Inv, [Next]_vars PROVE Inv'
  OBVIOUS
<1>1. CASE UNCHANGED vars
  <2>1. Locking' /\ LinesExist' /\ QueuedOnce' /\ Wired' /\ WaitersHaveAPlace'
    BY <1>1, LinesUntouched DEF vars, Inv, TypeOK
  <2>2. TypeOK' /\ SleepersWait' /\ NoMissedClient'
    BY <1>1 DEF vars, Inv, TypeOK, SleepersWait, NoMissedClient, Waiting
  <2> QED BY <2>1, <2>2 DEF Inv
<1>2. ASSUME NEW c \in Clients, WaitForConnection(c) PROVE Inv'
  BY <1>2, WaitForConnectionInv
<1>3. ASSUME NEW c \in Clients, NEW a \in Addresses, CreateClient(c, a) PROVE Inv'
  BY <1>3, CreateClientInv
<1>4. ASSUME NEW s \in Servers, NEW a \in Addresses, CreateServer(s, a) PROVE Inv'
  BY <1>4, CreateServerInv
<1>5. ASSUME NEW s \in Servers,
             \/ DestroyAcceptor(s) \/ CallWaitConnection(s)
             \/ TakeClient(s) \/ GiveUp(s) \/ Sleep(s) \/ Expire(s) \/ Connect(s)
      PROVE  Inv'
  BY <1>5, DestroyAcceptorInv, CallWaitConnectionInv, TakeClientInv, GiveUpInv, SleepInv,
     ExpireInv, ConnectInv
<1>6. CASE SpuriousWake
  BY <1>6, SpuriousWakeInv
<1>7. ASSUME NEW m \in Managers, DestroyManager(m) PROVE Inv'
  BY <1>7, DestroyManagerInv
<1> QED BY <1>1, <1>2, <1>3, <1>4, <1>5, <1>6, <1>7 DEF Next

(***************************************************************************)
(* The invariant holds in every reachable state.                            *)
(***************************************************************************)
LEMMA RegistryInvariant == Spec => []Inv
BY InitInv, StepInv, PTL DEF Spec

(***************************************************************************)
(* Every variable keeps its type.  In particular the queues of a connection *)
(* are numbered within the bound on lines, since no client line is ever     *)
(* connected twice (inproc.cpp:479-494).                                    *)
(***************************************************************************)
THEOREM RegistryTypeCorrect == Spec => []TypeOK
<1>1. Inv => TypeOK
  BY DEF Inv
<1> QED BY <1>1, RegistryInvariant, PTL

(***************************************************************************)
(* No acceptor sleeps on gs_cond while a client of its address is queued,   *)
(* with any number of acceptors, addresses and clients                      *)
(* (inproc.cpp:573-595, :617-620).                                          *)
(***************************************************************************)
THEOREM NoClientIsMissed == Spec => []NoMissedClient
<1>1. Inv => NoMissedClient
  BY DEF Inv
<1> QED BY <1>1, RegistryInvariant, PTL

(***************************************************************************)
(* Every connection joins one client line with one accepted line,           *)
(* crosswise, through two queues that no other connection uses              *)
(* (inproc.cpp:479-494, :579-582).                                          *)
(***************************************************************************)
THEOREM ConnectionsAreCrossWired == Spec => []CrossWired
<1>1. Inv => CrossWired
  BY DEF Inv, Wired, CrossWired
<1> QED BY <1>1, RegistryInvariant, PTL

(***************************************************************************)
(* While all managers live, the line of a client that waits is in           *)
(* gs_connectQueue once, or is being connected by one acceptor, or is       *)
(* connected and in neither place (inproc.cpp:573-595, :608-624).           *)
(***************************************************************************)
THEOREM WaitingClientHasOnePlace == Spec => []WaitingClientIsQueued
<1>1. ASSUME Inv, NEW c \in Clients, client[c].pc = "wait", managers = Managers
      PROVE  LET l == client[c].line
             IN  Cardinality({i \in DOMAIN gs_connectQueue : gs_connectQueue[i] = l})
                   + Cardinality({s \in Servers : server[s].other = l})
                   = IF Connected(l) THEN 0 ELSE 1
  <2> DEFINE l == client[c].line
             A == {i \in DOMAIN gs_connectQueue : gs_connectQueue[i] = l}
             B == {s \in Servers : server[s].other = l}
  <2>1. l # NULL
    BY <1>1, RegistryAssumption DEF Inv, TypeOK, LinesExist
  <2>2. Connected(l) \/ A # {} \/ B # {}
    BY <1>1 DEF Inv, WaitersHaveAPlace
  <2>3. A = {} \/ \E i : A = {i}
    BY <1>1 DEF Inv, QueuedOnce
  <2>4. \A s \in B : server[s].pc = "connect"
    BY <1>1, <2>1 DEF Inv, Locking
  <2>5. B = {} \/ \E s : B = {s}
    <3>1. \A s, u \in B : s = u
      BY <1>1, <2>4 DEF Inv, Locking
    <3> QED BY <3>1
  <2>6. A # {} => Unconnected(l)
    BY <1>1 DEF Inv, QueuedOnce
  <2>7. B # {} => Unconnected(l) /\ A = {}
    BY <1>1, <2>4 DEF Inv, QueuedOnce
  <2>8. Unconnected(l) => ~Connected(l)
    BY DEF Unconnected, Connected
  <2> HIDE DEF l, A, B
  <2>9. /\ A = {} => Cardinality(A) = 0
        /\ A # {} => Cardinality(A) = 1
        /\ B = {} => Cardinality(B) = 0
        /\ B # {} => Cardinality(B) = 1
    BY <2>3, <2>5, FS_EmptySet, FS_Singleton
  <2>10. Cardinality(A) + Cardinality(B) = IF Connected(l) THEN 0 ELSE 1
    BY <2>2, <2>6, <2>7, <2>8, <2>9
  <2> QED BY <2>10 DEF l, A, B
<1>2. Inv => WaitingClientIsQueued
  BY <1>1 DEF WaitingClientIsQueued
<1> QED BY <1>2, RegistryInvariant, PTL
===============================================================================
