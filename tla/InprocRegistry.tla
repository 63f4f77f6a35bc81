----------------------------- MODULE InprocRegistry -----------------------------
(***************************************************************************)
(* How inproc lines get connected: the process-wide lists gs_acceptors and  *)
(* gs_connectQueue with gs_mutex and gs_cond, InprocLineFactory,            *)
(* InprocAcceptor and the connecting half of InprocLine                     *)
(* (src/src/common/inproc.cpp:474-505 and :534-639).                        *)
(*                                                                          *)
(* A client thread makes one createClient call at a time, a server thread   *)
(* owns at most one acceptor and waits on it.  A critical section under     *)
(* gs_mutex or under a line's m_mutex that ends where it began is one step; *)
(* waitConnection keeps gs_mutex from the erase to the end of the           *)
(* InprocLine constructor, where it takes the client line's m_mutex too.    *)
(* ~InprocLineFactory takes no lock and may run in between.                 *)
(***************************************************************************)
EXTENDS Naturals, Sequences, SequencesExt, FiniteSets

CONSTANTS Clients,     \* threads that call createClient
          Servers,     \* threads that call createServer and waitConnection
          Addresses,   \* what follows inproc://
          Managers,    \* IoLineManagers, each with an InprocLineFactory of its own
          MaxLines,    \* bound: lines ever made by createClient
          NULL         \* nullptr

\* nullptr is neither a line nor a queue.
ASSUME RegistryAssumption == MaxLines \in Nat /\ NULL \notin Nat \cup ({"in", "out"} \X Nat)

VARIABLES managers,         \* the IoLineManagers that have not been destroyed
          gs_mutex,         \* the server that holds gs_mutex between two steps
          gs_cond,          \* servers asleep on gs_cond, not notified
          gs_acceptors,     \* registered acceptors, named by their owners
          gs_connectQueue,  \* client lines to be accepted, oldest first
          lines,            \* the client lines: InprocLine(address) and its members
          accepted,         \* the server lines: InprocLine(other), other and its members
          m_condition,      \* clients asleep on their line's m_condition
          client,           \* per client: where it is, its manager and its line
          server            \* per server: where it is, its acceptor's address, its call

vars == <<managers, gs_mutex, gs_cond, gs_acceptors, gs_connectQueue, lines, accepted,
          m_condition, client, server>>

LineIds == 1..MaxLines
Queue   == {"in", "out"} \X LineIds       \* a DataQueue: the half of a connection

ClientLine == [address : Addresses, m_in : Queue \cup {NULL}, m_out : Queue \cup {NULL}]
ServerLine == [other : LineIds, m_in : Queue, m_out : Queue]

ClientState == [pc : {"idle", "wait"}, manager : Managers \cup {NULL}, line : LineIds \cup {NULL}]
ServerState == [pc : {"none", "idle", "scan", "asleep", "connect"},
                address : Addresses \cup {NULL},
                expired : BOOLEAN,                        \* the deadline of the call has passed
                other : LineIds \cup {NULL},              \* the line being connected
                result : {"none", "pending", "null", "line"}]

TypeOK ==
  /\ managers \subseteq Managers
  /\ gs_mutex \subseteq Servers
  /\ gs_cond \subseteq Servers
  /\ gs_acceptors \subseteq Servers
  /\ gs_connectQueue \in Seq(LineIds)
  /\ lines \in Seq(ClientLine) /\ Len(lines) <= MaxLines
  /\ accepted \in Seq(ServerLine)
  /\ m_condition \subseteq Clients
  /\ client \in [Clients -> ClientState]
  /\ server \in [Servers -> ServerState]

Init ==
  /\ managers = Managers
  /\ gs_mutex = {}
  /\ gs_cond = {}
  /\ gs_acceptors = {}
  /\ gs_connectQueue = <<>>
  /\ lines = <<>>
  /\ accepted = <<>>
  /\ m_condition = {}
  /\ client = [c \in Clients |-> [pc |-> "idle", manager |-> NULL, line |-> NULL]]
  /\ server = [s \in Servers |-> [pc |-> "none", address |-> NULL, expired |-> FALSE,
                                  other |-> NULL, result |-> "none"]]

-------------------------------------------------------------------------------
\* createClient.

\* Mutant: notify_one instead of notify_all on gs_cond.
CreateClientNotifyOne(c, a) ==
  \E m \in managers :
    /\ client[c].pc = "idle"
    /\ Len(lines) < MaxLines
    /\ gs_mutex = {}
    /\ lines' = Append(lines, [address |-> a, m_in |-> NULL, m_out |-> NULL])
    /\ gs_connectQueue' = Append(gs_connectQueue, Len(lines) + 1)
    /\ \/ gs_cond = {} /\ gs_cond' = {}
       \/ \E s \in gs_cond : gs_cond' = gs_cond \ {s}
    /\ client' = [client EXCEPT ![c] = [pc |-> "wait", manager |-> m, line |-> Len(lines) + 1]]
    /\ UNCHANGED <<managers, gs_mutex, gs_acceptors, accepted, m_condition, server>>

\* The line is made, queued and announced under gs_mutex.
CreateClient(c, a) ==
  \E m \in managers :
    /\ client[c].pc = "idle"
    /\ Len(lines) < MaxLines
    /\ gs_mutex = {}
    /\ lines' = Append(lines, [address |-> a, m_in |-> NULL, m_out |-> NULL])
    /\ gs_connectQueue' = Append(gs_connectQueue, Len(lines) + 1)
    /\ gs_cond' = {}
    /\ client' = [client EXCEPT ![c] = [pc |-> "wait", manager |-> m, line |-> Len(lines) + 1]]
    /\ UNCHANGED <<managers, gs_mutex, gs_acceptors, accepted, m_condition, server>>

Connected(l) == lines[l].m_in # NULL /\ lines[l].m_out # NULL

\* waitForConnection under the line's m_mutex: return, or sleep until notified.
WaitForConnection(c) ==
  /\ client[c].pc = "wait"
  /\ c \notin m_condition
  /\ \/ /\ Connected(client[c].line)
        /\ client' = [client EXCEPT ![c].pc = "idle"]
        /\ UNCHANGED m_condition
     \/ /\ ~Connected(client[c].line)
        /\ m_condition' = m_condition \cup {c}
        /\ UNCHANGED client
  /\ UNCHANGED <<managers, gs_mutex, gs_cond, gs_acceptors, gs_connectQueue, lines, accepted, server>>

-------------------------------------------------------------------------------
\* createServer, ~InprocAcceptor and waitConnection.

\* nullptr when the address is taken.
CreateServer(s, a) ==
  /\ server[s].pc = "none"
  /\ managers # {}
  /\ gs_mutex = {}
  /\ \A u \in gs_acceptors : server[u].address # a
  /\ gs_acceptors' = gs_acceptors \cup {s}
  /\ server' = [server EXCEPT ![s].pc = "idle", ![s].address = a]
  /\ UNCHANGED <<managers, gs_mutex, gs_cond, gs_connectQueue, lines, accepted, m_condition, client>>

DestroyAcceptor(s) ==
  /\ server[s].pc = "idle"
  /\ gs_mutex = {}
  /\ gs_acceptors' = gs_acceptors \ {s}
  /\ server' = [server EXCEPT ![s].pc = "none", ![s].address = NULL]
  /\ UNCHANGED <<managers, gs_mutex, gs_cond, gs_connectQueue, lines, accepted, m_condition, client>>

CallWaitConnection(s) ==
  /\ server[s].pc = "idle"
  /\ server' = [server EXCEPT ![s].pc = "scan", ![s].expired = FALSE, ![s].result = "pending"]
  /\ UNCHANGED <<managers, gs_mutex, gs_cond, gs_acceptors, gs_connectQueue, lines, accepted,
                 m_condition, client>>

\* Positions in gs_connectQueue of the lines for an address.
Waiting(a) == {i \in DOMAIN gs_connectQueue : lines[gs_connectQueue[i]].address = a}

\* Has gs_mutex, on entry or on waking up.
Awake(s) == server[s].pc = "scan" \/ (server[s].pc = "asleep" /\ s \notin gs_cond)

\* Mutant: leaves the line in gs_connectQueue.
TakeClientNoErase(s) ==
  /\ Awake(s) /\ gs_mutex = {}
  /\ Waiting(server[s].address) # {}
  /\ LET i == CHOOSE j \in Waiting(server[s].address) : \A k \in Waiting(server[s].address) : j <= k
     IN  server' = [server EXCEPT ![s].pc = "connect", ![s].other = gs_connectQueue[i]]
  /\ gs_mutex' = {s}
  /\ UNCHANGED <<managers, gs_cond, gs_acceptors, gs_connectQueue, lines, accepted, m_condition, client>>

\* The scan finds the first line for the address and erases it.
TakeClient(s) ==
  /\ Awake(s) /\ gs_mutex = {}
  /\ Waiting(server[s].address) # {}
  /\ LET i == CHOOSE j \in Waiting(server[s].address) : \A k \in Waiting(server[s].address) : j <= k
     IN  /\ server' = [server EXCEPT ![s].pc = "connect", ![s].other = gs_connectQueue[i]]
         /\ gs_connectQueue' = RemoveAt(gs_connectQueue, i)
  /\ gs_mutex' = {s}
  /\ UNCHANGED <<managers, gs_cond, gs_acceptors, lines, accepted, m_condition, client>>

\* Mutant: gives up at the deadline without another look at the queue.
GiveUpEarly(s) ==
  /\ Awake(s) /\ gs_mutex = {}
  /\ server[s].expired
  /\ server' = [server EXCEPT ![s].pc = "idle", ![s].result = "null"]
  /\ UNCHANGED <<managers, gs_mutex, gs_cond, gs_acceptors, gs_connectQueue, lines, accepted,
                 m_condition, client>>

\* The scan finds nothing and the time is over: return nullptr.
GiveUp(s) ==
  /\ Awake(s) /\ gs_mutex = {}
  /\ Waiting(server[s].address) = {}
  /\ server[s].expired
  /\ server' = [server EXCEPT ![s].pc = "idle", ![s].result = "null"]
  /\ UNCHANGED <<managers, gs_mutex, gs_cond, gs_acceptors, gs_connectQueue, lines, accepted,
                 m_condition, client>>

\* Mutant: does not look at the clock before it sleeps.
SleepAnyway(s) ==
  /\ Awake(s) /\ gs_mutex = {}
  /\ Waiting(server[s].address) = {}
  /\ server' = [server EXCEPT ![s].pc = "asleep"]
  /\ gs_cond' = gs_cond \cup {s}
  /\ UNCHANGED <<managers, gs_mutex, gs_acceptors, gs_connectQueue, lines, accepted,
                 m_condition, client>>

\* The scan finds nothing and there is time left: wait_for gives up gs_mutex
\* and sleeps.
Sleep(s) ==
  /\ Awake(s) /\ gs_mutex = {}
  /\ Waiting(server[s].address) = {}
  /\ ~server[s].expired
  /\ server' = [server EXCEPT ![s].pc = "asleep"]
  /\ gs_cond' = gs_cond \cup {s}
  /\ UNCHANGED <<managers, gs_mutex, gs_acceptors, gs_connectQueue, lines, accepted,
                 m_condition, client>>

\* The deadline passes, asleep or not.
Expire(s) ==
  /\ server[s].pc \in {"scan", "asleep"}
  /\ ~server[s].expired
  /\ server' = [server EXCEPT ![s].expired = TRUE]
  /\ gs_cond' = gs_cond \ {s}
  /\ UNCHANGED <<managers, gs_mutex, gs_acceptors, gs_connectQueue, lines, accepted,
                 m_condition, client>>

\* Mutant: the client is not notified.
ConnectSilent(s) ==
  LET l == server[s].other
      n == Len(accepted) + 1
  IN  /\ server[s].pc = "connect"
      /\ accepted' = Append(accepted, [other |-> l, m_in |-> <<"in", n>>, m_out |-> <<"out", n>>])
      /\ lines' = [lines EXCEPT ![l].m_out = <<"in", n>>, ![l].m_in = <<"out", n>>]
      /\ gs_mutex' = {}
      /\ server' = [server EXCEPT ![s].pc = "idle", ![s].other = NULL, ![s].result = "line"]
      /\ UNCHANGED <<managers, gs_cond, gs_acceptors, gs_connectQueue, m_condition, client>>

\* InprocLine(other), under the client line's m_mutex: two new queues, wired
\* crosswise, and notify_one on the client's m_condition.
Connect(s) ==
  LET l == server[s].other
      n == Len(accepted) + 1
  IN  /\ server[s].pc = "connect"
      /\ accepted' = Append(accepted, [other |-> l, m_in |-> <<"in", n>>, m_out |-> <<"out", n>>])
      /\ lines' = [lines EXCEPT ![l].m_out = <<"in", n>>, ![l].m_in = <<"out", n>>]
      /\ m_condition' = {c \in m_condition : client[c].line # l}
      /\ gs_mutex' = {}
      /\ server' = [server EXCEPT ![s].pc = "idle", ![s].other = NULL, ![s].result = "line"]
      /\ UNCHANGED <<managers, gs_cond, gs_acceptors, gs_connectQueue, client>>

-------------------------------------------------------------------------------

\* Spurious wake-ups from gs_cond and from a line's m_condition.
SpuriousWake ==
  /\ \/ \E s \in gs_cond : gs_cond' = gs_cond \ {s} /\ UNCHANGED m_condition
     \/ \E c \in m_condition : m_condition' = m_condition \ {c} /\ UNCHANGED gs_cond
  /\ UNCHANGED <<managers, gs_mutex, gs_acceptors, gs_connectQueue, lines, accepted, client, server>>

\* A manager that no thread is calling is destroyed, and its factory with it:
\* ~InprocLineFactory clears both process-wide lists and takes no lock.
DestroyManager(m) ==
  /\ m \in managers
  /\ \A c \in Clients : client[c].pc = "wait" => client[c].manager # m
  /\ managers' = managers \ {m}
  /\ gs_connectQueue' = <<>>
  /\ gs_acceptors' = {}
  /\ UNCHANGED <<gs_mutex, gs_cond, lines, accepted, m_condition, client, server>>

Next ==
  \/ \E c \in Clients : WaitForConnection(c) \/ \E a \in Addresses : CreateClient(c, a)
  \/ \E s \in Servers :
       \/ \E a \in Addresses : CreateServer(s, a)
       \/ DestroyAcceptor(s) \/ CallWaitConnection(s)
       \/ TakeClient(s) \/ GiveUp(s) \/ Sleep(s) \/ Expire(s) \/ Connect(s)
  \/ SpuriousWake
  \/ \E m \in Managers : DestroyManager(m)

Spec == Init /\ [][Next]_vars

\* A running thread runs on, deadlines pass, and gs_mutex is not withheld from
\* one thread forever.  Nobody has to call anything.
FairSpec ==
  /\ Spec
  /\ \A c \in Clients : WF_vars(WaitForConnection(c))
  /\ \A s \in Servers :
       /\ SF_vars(TakeClient(s) \/ GiveUp(s) \/ Sleep(s))
       /\ WF_vars(Expire(s))
       /\ WF_vars(Connect(s))

-------------------------------------------------------------------------------
\* Safety.

(***************************************************************************)
(* No acceptor sleeps on a client: while a line waits in gs_connectQueue,   *)
(* every acceptor of its address is awake or has been notified.  It needs   *)
(* the notify_all of createClient (inproc.cpp:620), since acceptors of      *)
(* other addresses sleep on the same gs_cond, and the rescan after every    *)
(* wake-up (:573-585).                                                      *)
(***************************************************************************)
NoMissedClient == \A s \in gs_cond : Waiting(server[s].address) = {}

(***************************************************************************)
(* A connection joins one client line with one accepted line, crosswise:    *)
(* what one end writes is what the other end reads, and no DataQueue has a  *)
(* third user, although acceptors and clients come and go (inproc.cpp:479-  *)
(* 494, :579-582).                                                          *)
(***************************************************************************)
CrossWired ==
  /\ \A i \in DOMAIN accepted :
       /\ lines[accepted[i].other].m_in = accepted[i].m_out
       /\ lines[accepted[i].other].m_out = accepted[i].m_in
       /\ accepted[i].m_in # accepted[i].m_out
  /\ \A i, j \in DOMAIN accepted :
       i # j => {accepted[i].m_in, accepted[i].m_out} \cap {accepted[j].m_in, accepted[j].m_out} = {}

(***************************************************************************)
(* A client that waits can still be accepted: its line is in the queue      *)
(* once, or an acceptor is connecting it, or it is connected.  It holds     *)
(* until an IoLineManager is destroyed, whose factory empties the queue     *)
(* under the waiting clients of the others (inproc.cpp:602-606).            *)
(***************************************************************************)
WaitingClientIsQueued ==
  \A c \in Clients :
    client[c].pc = "wait" /\ managers = Managers =>
      LET l == client[c].line
      IN  Cardinality({i \in DOMAIN gs_connectQueue : gs_connectQueue[i] = l})
            + Cardinality({s \in Servers : server[s].other = l})
            = IF Connected(l) THEN 0 ELSE 1

-------------------------------------------------------------------------------
\* Liveness, under FairSpec.

InWaitConnection(s) == server[s].pc \in {"scan", "asleep", "connect"}

(***************************************************************************)
(* waitConnection returns after its timeout at the latest                   *)
(* (inproc.cpp:569-595).                                                    *)
(***************************************************************************)
WaitConnectionReturns == \A s \in Servers : InWaitConnection(s) ~> server[s].pc = "idle"

(***************************************************************************)
(* createClient returns once its line is connected: the notification cannot *)
(* fall between the test and the wait (inproc.cpp:493, :534-542).           *)
(***************************************************************************)
ConnectedClientReturns ==
  \A c \in Clients :
    (client[c].pc = "wait" /\ Connected(client[c].line)) ~> client[c].pc = "idle"

(***************************************************************************)
(* An acceptor that is inside waitConnection while a client of its address  *)
(* is queued comes back with a line, unless the client goes to another      *)
(* acceptor of the address or is dropped when an IoLineManager is destroyed.*)
(***************************************************************************)
DueClientIsServed ==
  \A s \in Servers :
    (InWaitConnection(s) /\ Waiting(server[s].address) # {})
      ~> (server[s].result = "line" \/ managers # Managers)
===============================================================================
