------------------------------ MODULE SocketProofs ------------------------------
(***************************************************************************)
(* Theorems about SocketLines and WinSockets: for any addresses, threads    *)
(* and objects and any number of descriptors.                               *)
(***************************************************************************)
EXTENDS WinSockets, BasicLemmas

-------------------------------------------------------------------------------
\* The inductive invariant.

Live == {o \in Objects : object[o].class # "none"}

\* What every variable, and every object, looks like.
Typed ==
  /\ TypeOK
  /\ \A f \in Std : sock[f].state = "other"
  /\ \A o \in Objects \ Live : object[o] = Unused
  /\ \A o \in Live : object[o].m_socket \in Fds \ Std
  /\ \A t \in Threads : waiting[t] # NULL => object[waiting[t]].class = "acceptor"

\* The descriptors that belong to an object, and those that nobody will close.
Owned  == {object[o].m_socket : o \in Live}
Leaked == {f \in Fds \ Std : sock[f].state # "closed"} \ Owned

Accounted == DescriptorsOwnedOnce /\ Cardinality(Leaked) = failed

Inv == Typed /\ Accounted /\ NamesLeadToAcceptors

-------------------------------------------------------------------------------
\* The kernel.

(***************************************************************************)
(* The descriptor that socket and accept return was closed.                 *)
(***************************************************************************)
LEMMA NewFdIsFree ==
  ASSUME Typed, Free # {}
  PROVE  NewFd \in Fds \ Std /\ sock[NewFd].state = "closed"
<1>1. Free \in SUBSET Nat
  BY SocketAssumption DEF Free, Fds
<1>2. NewFd \in Free
  BY <1>1, MinIsMember DEF NewFd
<1> QED BY <1>2 DEF Free, Typed

(***************************************************************************)
(* Sockets without a connection.                                            *)
(***************************************************************************)
LEMMA SocketType ==
  /\ Closed \in SockType /\ Closed.state = "closed"
  /\ \A st \in {"other", "fresh", "listening"} :
       [Closed EXCEPT !.state = st] \in SockType /\ [Closed EXCEPT !.state = st].state = st
<1>1. Closed \in SockType /\ Closed.state = "closed"
  BY DEF Closed, SockType, Ends
<1>2. ASSUME NEW st \in {"other", "fresh", "listening"}
      PROVE  [Closed EXCEPT !.state = st] \in SockType /\ [Closed EXCEPT !.state = st].state = st
  <2> DEFINE r == [Closed EXCEPT !.state = st]
  <2>1. r = [state |-> st, peer |-> NULL, backlog |-> <<>>]
    BY DEF Closed
  <2> HIDE DEF r
  <2>2. r \in SockType /\ r.state = st
    BY <2>1 DEF SockType, Ends
  <2> QED BY <2>2 DEF r
<1> QED BY <1>1, <1>2

(***************************************************************************)
(* close frees one descriptor and changes the state of no other.            *)
(***************************************************************************)
LEMMA CloseInFacts ==
  ASSUME NEW table \in [Fds -> SockType], NEW f \in Fds
  PROVE  /\ CloseIn(table, f) \in [Fds -> SockType]
         /\ CloseIn(table, f)[f] = Closed
         /\ \A g \in Fds \ {f} : CloseIn(table, f)[g].state = table[g].state
<1>1. Closed \in SockType
  BY SocketType
<1>2. ASSUME NEW g \in Fds \ {f}
      PROVE  CloseIn(table, f)[g] \in SockType /\ CloseIn(table, f)[g].state = table[g].state
  <2> DEFINE p == IF table[g].peer = f \/ \E i \in DOMAIN table[f].backlog : table[f].backlog[i] = g
                    THEN GONE ELSE table[g].peer
             b == [i \in DOMAIN table[g].backlog |->
                     IF table[g].backlog[i] = f THEN GONE ELSE table[g].backlog[i]]
  <2>1. table[g] \in SockType
    OBVIOUS
  <2>2. p \in Ends \cup {NULL}
    BY <2>1 DEF SockType, Ends
  <2>3. b \in Seq(Fds \cup {GONE})
    BY <2>1 DEF SockType
  <2>4. CloseIn(table, f)[g] = [table[g] EXCEPT !.peer = p, !.backlog = b]
    BY DEF CloseIn
  <2> HIDE DEF p, b
  <2> QED BY <2>1, <2>2, <2>3, <2>4 DEF SockType
<1>3. CloseIn(table, f)[f] = Closed
  BY DEF CloseIn
<1>4. CloseIn(table, f) = [g \in Fds |-> CloseIn(table, f)[g]]
  BY DEF CloseIn
<1> QED BY <1>1, <1>2, <1>3, <1>4

-------------------------------------------------------------------------------
\* What becomes of the descriptors, whatever the step is called.

\* The state of every descriptor but f is as before.
SameBut(f) == \A g \in Fds \ {f} : sock'[g].state = sock[g].state

(***************************************************************************)
(* An object that gets the new descriptor owns it alone.                    *)
(***************************************************************************)
LEMMA NewObject ==
  ASSUME Typed, Accounted, Free # {},
         NEW o \in Objects, object[o] = Unused,
         NEW rec, object' = [object EXCEPT ![o] = rec], rec.m_socket = NewFd,
         \/ rec.class = "acceptor" /\ sock'[NewFd].state = "listening"
         \/ rec.class = "line" /\ sock'[NewFd].state = "connected",
         SameBut(NewFd), failed' = failed
  PROVE  Accounted'
<1> DEFINE n == NewFd
<1>1. n \in Fds \ Std /\ sock[n].state = "closed"
  BY NewFdIsFree
<1> HIDE DEF n
<1>2. object \in [Objects -> ObjectType] /\ object'[o] = rec /\ \A p \in Objects \ {o} : object'[p] = object[p]
  BY DEF Typed, TypeOK
<1>3. Live' = Live \cup {o} /\ o \notin Live
  BY <1>2 DEF Live, Unused
<1>4. \A p \in Live : /\ object[p].m_socket \in Fds \ {n}
                      /\ \/ object[p].class = "acceptor" /\ sock[object[p].m_socket].state = "listening"
                         \/ object[p].class = "line" /\ sock[object[p].m_socket].state = "connected"
  BY <1>1 DEF Typed, Accounted, DescriptorsOwnedOnce, TypeOK, ObjectType, Live
<1>5. \A p \in Objects \ Live : object[p].class = "none" /\ object[p].m_socket = NULL
  BY DEF Typed, Unused
<1>6. n # NULL
  BY <1>1, SocketAssumption DEF Fds
<1>7. DescriptorsOwnedOnce'
  <2>1. ASSUME NEW p \in Objects, NEW q \in Objects, object'[p].class # "none",
               object'[p].m_socket = object'[q].m_socket
        PROVE  p = q
    <3>1. CASE p = o
      BY <1>2, <1>4, <1>5, <1>6, <2>1, <3>1 DEF n
    <3>2. CASE p # o
      BY <1>2, <1>4, <2>1, <3>2 DEF n, Accounted, DescriptorsOwnedOnce, Live
    <3> QED BY <3>1, <3>2
  <2>2. ASSUME NEW p \in Objects
        PROVE  /\ object'[p].class = "acceptor" => sock'[object'[p].m_socket].state = "listening"
               /\ object'[p].class = "line" => sock'[object'[p].m_socket].state = "connected"
    <3>1. CASE p = o
      BY <1>2, <3>1
    <3>2. CASE p \in Live
      BY <1>2, <1>3, <1>4, <3>2 DEF n, SameBut
    <3>3. CASE p \notin Live /\ p # o
      BY <1>2, <1>5, <3>3
    <3> QED BY <3>1, <3>2, <3>3
  <2> QED BY <2>1, <2>2 DEF DescriptorsOwnedOnce
<1>8. Owned' = Owned \cup {n}
  BY <1>2, <1>3 DEF Owned, n
<1>9. Leaked' = Leaked
  BY <1>1, <1>8 DEF Leaked, SameBut, n
<1> QED BY <1>7, <1>9 DEF Accounted

(***************************************************************************)
(* There are only so many descriptors to leak.                              *)
(***************************************************************************)
LEMMA LeakedIsFinite == IsFiniteSet(Leaked)
<1>1. 0 \in Int /\ MaxFd \in Int
  BY SocketAssumption
<1>2. IsFiniteSet(Fds)
  BY <1>1, FS_Interval DEF Fds
<1>3. Leaked \in SUBSET Fds
  BY DEF Leaked
<1> QED BY <1>2, <1>3, FS_Subset

(***************************************************************************)
(* A descriptor that no object gets is leaked, and counted.                 *)
(***************************************************************************)
LEMMA NewLeak ==
  ASSUME Typed, Accounted, Free # {}, UNCHANGED object,
         sock'[NewFd].state # "closed", SameBut(NewFd), failed' = failed + 1
  PROVE  Accounted'
<1> DEFINE n == NewFd
<1>1. n \in Fds \ Std /\ sock[n].state = "closed"
  BY NewFdIsFree
<1> HIDE DEF n
<1>2. \A p \in Live : object[p].m_socket \in Fds \ {n}
  BY <1>1 DEF Typed, Accounted, DescriptorsOwnedOnce, TypeOK, ObjectType, Live
<1>3. Live' = Live /\ Owned' = Owned /\ n \notin Owned
  BY <1>2 DEF Live, Owned
<1>4. Leaked' = Leaked \cup {n} /\ n \notin Leaked
  BY <1>1, <1>3 DEF Leaked, SameBut, n
<1>5. IsFiniteSet(Leaked)
  BY LeakedIsFinite
<1>6. Cardinality(Leaked') = Cardinality(Leaked) + 1
  BY <1>4, <1>5, FS_AddElement
<1>7. DescriptorsOwnedOnce'
  <2>1. \A p \in Live : sock'[object[p].m_socket].state = sock[object[p].m_socket].state
    BY <1>2 DEF SameBut, n
  <2> QED BY <2>1 DEF Accounted, DescriptorsOwnedOnce, Live
<1> QED BY <1>6, <1>7 DEF Accounted

(***************************************************************************)
(* An object that goes takes its descriptor with it.                        *)
(***************************************************************************)
LEMMA ObjectGoes ==
  ASSUME Typed, Accounted, NEW o \in Live, object' = [object EXCEPT ![o] = Unused],
         sock'[object[o].m_socket].state = "closed", SameBut(object[o].m_socket), failed' = failed
  PROVE  Accounted'
<1> DEFINE f == object[o].m_socket
<1>1. o \in Objects /\ f \in Fds \ Std /\ object[o].class # "none"
  BY DEF Typed, Live
<1>2. object'[o] = Unused /\ \A p \in Objects \ {o} : object'[p] = object[p]
  BY <1>1 DEF Typed, TypeOK
<1>3. Live' = Live \ {o}
  BY <1>1, <1>2 DEF Live, Unused
<1>4. \A p \in Objects \ {o} : object[p].m_socket # f
  BY <1>1 DEF Accounted, DescriptorsOwnedOnce
<1>5. \A p \in Live \ {o} : object[p].m_socket \in Fds \ {f}
  BY <1>4 DEF Typed, Live
<1>6. \A p \in Live \ {o} : sock'[object[p].m_socket].state = sock[object[p].m_socket].state
  BY <1>5 DEF SameBut
<1>7. DescriptorsOwnedOnce'
  <2>1. \A p \in Live : object[p].m_socket # NULL
    BY SocketAssumption DEF Typed, Fds
  <2>2. \A p, q \in Objects :
          object'[p].class # "none" /\ object'[p].m_socket = object'[q].m_socket => p = q
    BY <1>2, <2>1 DEF Accounted, DescriptorsOwnedOnce, Live, Unused
  <2>3. ASSUME NEW p \in Objects
        PROVE  /\ object'[p].class = "acceptor" => sock'[object'[p].m_socket].state = "listening"
               /\ object'[p].class = "line" => sock'[object'[p].m_socket].state = "connected"
    <3>1. CASE p = o
      BY <1>2, <3>1 DEF Unused
    <3>2. CASE p # o
      BY <1>2, <1>6, <3>2 DEF Accounted, DescriptorsOwnedOnce, Live
    <3> QED BY <3>1, <3>2
  <2> QED BY <2>2, <2>3 DEF DescriptorsOwnedOnce
<1>8. Owned' = Owned \ {f}
  BY <1>2, <1>3, <1>5 DEF Owned
<1>9. Leaked' = Leaked
  BY <1>1, <1>8 DEF Leaked, Owned, SameBut
<1> QED BY <1>7, <1>9 DEF Accounted

(***************************************************************************)
(* A step that opens and closes nothing.                                    *)
(***************************************************************************)
LEMMA SameStates ==
  ASSUME Typed, Accounted, UNCHANGED <<object, failed>>, \A f \in Fds : sock'[f].state = sock[f].state
  PROVE  Accounted'
<1>1. Live' = Live /\ Owned' = Owned
  BY DEF Live, Owned
<1>2. Leaked' = Leaked
  BY <1>1 DEF Leaked
<1>3. \A p \in Live : sock'[object[p].m_socket].state = sock[object[p].m_socket].state
  BY DEF Typed
<1>4. DescriptorsOwnedOnce'
  BY <1>3 DEF Accounted, DescriptorsOwnedOnce, Live
<1> QED BY <1>2, <1>4 DEF Accounted

(***************************************************************************)
(* A step that changes the state of one descriptor, makes objects with      *)
(* descriptors or destroys them, and lets nobody wait but on an acceptor.   *)
(***************************************************************************)
LEMMA TypedStep ==
  ASSUME Typed,
         sock' \in [Fds -> SockType], name' \in [Addresses -> Fds \cup {STALE, NULL}],
         errno' \in [Threads -> Errors], failed' \in Nat,
         object' \in [Objects -> ObjectType], waiting' \in [Threads -> Objects \cup {NULL}],
         NEW f \in Fds \ Std, SameBut(f),
         \A p \in Objects : \/ object'[p] = object[p] \/ object'[p] = Unused
                            \/ object'[p].class # "none" /\ object'[p].m_socket \in Fds \ Std,
         \A t \in Threads : waiting'[t] # NULL => object'[waiting'[t]].class = "acceptor"
  PROVE  Typed'
<1>1. TypeOK'
  BY DEF TypeOK
<1>2. \A g \in Std : sock'[g].state = "other"
  BY SocketAssumption DEF SameBut, Typed, Fds
<1>3. \A p \in Objects \ Live' : object'[p] = Unused
  BY DEF Live, Typed
<1>4. \A p \in Live' : object'[p].m_socket \in Fds \ Std
  BY DEF Live, Typed, Unused
<1> QED BY <1>1, <1>2, <1>3, <1>4 DEF Typed

(***************************************************************************)
(* The same when only the errors of threads change.                         *)
(***************************************************************************)
LEMMA OnlyErrno ==
  ASSUME Typed, UNCHANGED <<sock, name, object, waiting, failed>>, errno' \in [Threads -> Errors]
  PROVE  Typed' /\ (Accounted => Accounted') /\ (NamesLeadToAcceptors => NamesLeadToAcceptors')
<1>1. Typed'
  BY DEF Typed, TypeOK, Live
<1>2. Accounted => Accounted'
  BY SameStates
<1>3. NamesLeadToAcceptors => NamesLeadToAcceptors'
  BY DEF NamesLeadToAcceptors
<1> QED BY <1>1, <1>2, <1>3

-------------------------------------------------------------------------------
\* The sockets of each operation.

(***************************************************************************)
(* socket, with or without the listen that follows.                         *)
(***************************************************************************)
LEMMA SocketSock ==
  ASSUME Typed, Free # {}, NEW st \in {"fresh", "listening"},
         sock' = [sock EXCEPT ![NewFd] = [Closed EXCEPT !.state = st]]
  PROVE  /\ sock' \in [Fds -> SockType] /\ NewFd \in Fds \ Std
         /\ sock'[NewFd].state = st /\ SameBut(NewFd)
<1> DEFINE n == NewFd
           r == [Closed EXCEPT !.state = st]
<1>1. n \in Fds \ Std /\ sock \in [Fds -> SockType]
  BY NewFdIsFree DEF Typed, TypeOK
<1>2. r \in SockType /\ r.state = st
  BY SocketType
<1> HIDE DEF n, r
<1>3. sock' = [sock EXCEPT ![n] = r]
  BY DEF n, r
<1>4. sock' \in [Fds -> SockType] /\ sock'[n] = r /\ \A g \in Fds \ {n} : sock'[g] = sock[g]
  BY <1>1, <1>2, <1>3
<1> QED BY <1>1, <1>2, <1>4 DEF SameBut, n

(***************************************************************************)
(* socket and connect: the connection goes into the backlog of a listener.  *)
(***************************************************************************)
LEMMA ConnectSock ==
  ASSUME Typed, Free # {}, NEW s \in Fds, sock[s].state # "closed",
         sock' = [sock EXCEPT ![NewFd] = [state |-> "connected", peer |-> PENDING, backlog |-> <<>>],
                              ![s].backlog = Append(@, NewFd)]
  PROVE  /\ sock' \in [Fds -> SockType] /\ NewFd \in Fds \ Std
         /\ sock'[NewFd].state = "connected" /\ SameBut(NewFd)
<1> DEFINE n == NewFd
           r == [state |-> "connected", peer |-> PENDING, backlog |-> <<>>]
           b == Append(sock[s].backlog, n)
           q == [sock[s] EXCEPT !.backlog = b]
<1>1. n \in Fds \ Std /\ n # s /\ sock \in [Fds -> SockType]
  BY NewFdIsFree DEF Typed, TypeOK
<1>2. r \in SockType /\ r.state = "connected"
  BY DEF SockType, Ends
<1> HIDE DEF n
<1>3. sock[s] \in SockType /\ sock[s].backlog \in Seq(Fds \cup {GONE})
  BY <1>1 DEF SockType
<1>4. b \in Seq(Fds \cup {GONE})
  BY <1>1, <1>3, AppendProperties
<1> HIDE DEF b, r
<1>5. q \in SockType /\ q.state = sock[s].state
  BY <1>3, <1>4 DEF SockType
<1>6. sock' = [[sock EXCEPT ![n] = r] EXCEPT ![s] = q]
  BY <1>1 DEF n, b, r, q
<1> HIDE DEF q
<1>7. /\ sock' \in [Fds -> SockType] /\ sock'[n] = r /\ sock'[s] = q
      /\ \A g \in Fds \ {n, s} : sock'[g] = sock[g]
  BY <1>1, <1>2, <1>5, <1>6
<1> QED BY <1>1, <1>2, <1>5, <1>7 DEF SameBut, n

(***************************************************************************)
(* accept: the oldest connection leaves the backlog and gets its other end. *)
(***************************************************************************)
LEMMA AcceptSock ==
  ASSUME Typed, NEW t \in Threads, NEW o \in Objects, Accept(t, o)
  PROVE  /\ sock' \in [Fds -> SockType] /\ NewFd \in Fds \ Std
         /\ sock'[NewFd].state = "connected" /\ SameBut(NewFd)
<1> DEFINE n == NewFd
           s == object[waiting[t]].m_socket
           c == Head(sock[s].backlog)
<1>1. n \in Fds \ Std /\ sock \in [Fds -> SockType]
  BY NewFdIsFree DEF Accept, Typed, TypeOK
<1>2. s \in Fds
  BY DEF Accept, Typed, TypeOK, Live
<1>3. sock[s].backlog \in Seq(Fds \cup {GONE}) /\ sock[s].backlog # <<>>
  BY <1>1, <1>2 DEF Accept, SockType
<1>4. c \in Fds \cup {GONE} /\ Tail(sock[s].backlog) \in Seq(Fds \cup {GONE})
  BY <1>3, HeadTailProperties
<1> DEFINE a == [sock[s] EXCEPT !.backlog = Tail(sock[s].backlog)]
           r == [state |-> "connected", peer |-> c, backlog |-> <<>>]
           table == [[sock EXCEPT ![s] = a] EXCEPT ![n] = r]
<1>5. sock' = IF c = GONE THEN table ELSE [table EXCEPT ![c] = [table[c] EXCEPT !.peer = n]]
  BY DEF Accept
<1> HIDE DEF n, s, c
<1>6. a \in SockType /\ a.state = sock[s].state
  BY <1>1, <1>2, <1>4 DEF SockType
<1>7. r \in SockType /\ r.state = "connected"
  BY <1>4 DEF SockType, Ends
<1> HIDE DEF a, r
<1>8. /\ table \in [Fds -> SockType] /\ table[n].state = "connected"
      /\ \A g \in Fds \ {n} : table[g].state = sock[g].state
  BY <1>1, <1>2, <1>6, <1>7
<1> HIDE DEF table
<1>9. CASE c = GONE
  BY <1>1, <1>5, <1>8, <1>9 DEF SameBut, n
<1>10. CASE c # GONE
  <2> DEFINE q == [table[c] EXCEPT !.peer = n]
  <2>1. table[c] \in SockType /\ c \in Fds
    BY <1>4, <1>8, <1>10
  <2>2. q \in SockType /\ q.state = table[c].state
    BY <1>1, <2>1 DEF SockType, Ends
  <2>3. sock' = [table EXCEPT ![c] = q]
    BY <1>5, <1>10
  <2> HIDE DEF q
  <2>4. sock' \in [Fds -> SockType] /\ \A g \in Fds : sock'[g].state = table[g].state
    BY <1>8, <2>1, <2>2, <2>3
  <2> QED BY <1>1, <1>8, <2>4 DEF SameBut, n
<1> QED BY <1>9, <1>10

-------------------------------------------------------------------------------
\* SocketLines: every action keeps the invariant.

(***************************************************************************)
(* An address has the scheme of one of the two classes, not of both.        *)
(***************************************************************************)
LEMMA SchemeFacts ==
  /\ \A a \in Paths \cup Ports : a \in Addresses /\ Scheme(a) \in {"local", "tcp"}
  /\ Paths \cap Ports = {}
BY DEF Paths, Ports, Scheme

(***************************************************************************)
(* An object made by createServer or createClient has its type.             *)
(***************************************************************************)
LEMMA RecordType ==
  ASSUME Typed, NEW o \in Objects, NEW k \in {"acceptor", "line"}, NEW n \in Fds \ Std,
         NEW sc \in {"local", "tcp", NULL}, NEW a \in Addresses \cup {NULL},
         object' = [object EXCEPT ![o] = [class |-> k, scheme |-> sc, m_address |-> a, m_socket |-> n]]
  PROVE  /\ object' \in [Objects -> ObjectType]
         /\ object'[o] = [class |-> k, scheme |-> sc, m_address |-> a, m_socket |-> n]
         /\ object'[o].class = k /\ object'[o].m_socket = n /\ object'[o].m_address = a
         /\ \A p \in Objects \ {o} : object'[p] = object[p]
<1> DEFINE r == [class |-> k, scheme |-> sc, m_address |-> a, m_socket |-> n]
<1>1. object \in [Objects -> ObjectType]
  BY DEF Typed, TypeOK
<1>2. r \in ObjectType /\ r.class = k /\ r.m_socket = n /\ r.m_address = a
  BY DEF ObjectType
<1> HIDE DEF r
<1>3. object' = [object EXCEPT ![o] = r]
  BY DEF r
<1>4. object' \in [Objects -> ObjectType] /\ object'[o] = r /\ \A p \in Objects \ {o} : object'[p] = object[p]
  BY <1>1, <1>2, <1>3
<1> QED BY <1>2, <1>4 DEF r

(***************************************************************************)
(* A new line, of a client or accepted, keeps the invariant.                *)
(***************************************************************************)
LEMMA NewLine ==
  ASSUME Typed, Accounted, Free # {}, NEW o \in Objects, object[o] = Unused,
         sock' \in [Fds -> SockType], sock'[NewFd].state = "connected", SameBut(NewFd),
         NEW sc \in {"local", "tcp", NULL}, NEW a \in Addresses \cup {NULL},
         object' = [object EXCEPT ![o] = [class |-> "line", scheme |-> sc,
                                          m_address |-> a, m_socket |-> NewFd]],
         UNCHANGED <<name, errno, failed>>,
         waiting' \in [Threads -> Objects \cup {NULL}],
         \A u \in Threads : waiting'[u] \in {NULL, waiting[u]}
  PROVE  Typed' /\ Accounted' /\ (NamesLeadToAcceptors => NamesLeadToAcceptors')
<1> DEFINE n == NewFd
<1>1. n \in Fds \ Std
  BY NewFdIsFree
<1> HIDE DEF n
<1>2. /\ object' \in [Objects -> ObjectType]
      /\ object'[o].class = "line" /\ object'[o].m_socket = n
      /\ \A p \in Objects \ {o} : object'[p] = object[p]
  BY <1>1, RecordType DEF n
<1>3. object[o].class = "none"
  BY DEF Unused
<1>4. Typed'
  <2>1. /\ waiting' \in [Threads -> Objects \cup {NULL}] /\ errno' \in [Threads -> Errors] /\ failed' \in Nat
        /\ name' \in [Addresses -> Fds \cup {STALE, NULL}]
    BY DEF Typed, TypeOK
  <2>2. \A u \in Threads : waiting'[u] # NULL => object'[waiting'[u]].class = "acceptor"
    <3>1. \A u \in Threads : waiting[u] # NULL => waiting[u] \in Objects \ {o}
      BY <1>3 DEF Typed, TypeOK
    <3> QED BY <1>2, <3>1 DEF Typed
  <2> QED BY <1>1, <1>2, <2>1, <2>2, TypedStep DEF n
<1>5. Accounted'
  <2> DEFINE r == [class |-> "line", scheme |-> sc, m_address |-> a, m_socket |-> n]
  <2>1. r.m_socket = n /\ r.class = "line"
    OBVIOUS
  <2> HIDE DEF r
  <2>2. object' = [object EXCEPT ![o] = r]
    BY DEF r, n
  <2> QED BY <2>1, <2>2, NewObject DEF n
<1>6. NamesLeadToAcceptors => NamesLeadToAcceptors'
  <2>1. \A p \in Objects : object'[p].class = "acceptor" <=> object[p].class = "acceptor"
    BY <1>2, <1>3
  <2>2. \A p \in Objects : object[p].class = "acceptor" => object'[p] = object[p]
    BY <1>2, <1>3
  <2> QED BY <2>1, <2>2 DEF NamesLeadToAcceptors
<1> QED BY <1>4, <1>5, <1>6

(***************************************************************************)
(* createServer: the new acceptor has the name and a socket that listens.   *)
(***************************************************************************)
LEMMA CreateServerInv ==
  ASSUME Inv, NEW t \in Threads, NEW o \in Objects, NEW a \in Paths \cup Ports, CreateServer(t, o, a)
  PROVE  Inv'
<1> DEFINE n == NewFd
<1>1. /\ Typed /\ Accounted /\ Free # {} /\ name[a] = NULL /\ object[o] = Unused
      /\ name' = [name EXCEPT ![a] = n] /\ UNCHANGED <<waiting, errno, failed>>
  BY DEF Inv, CreateServer
<1>2. a \in Addresses /\ Scheme(a) \in {"local", "tcp"}
  BY SchemeFacts
<1>3. /\ sock' \in [Fds -> SockType] /\ n \in Fds \ Std
      /\ sock'[n].state = "listening" /\ SameBut(n)
  BY <1>1, SocketSock DEF CreateServer
<1>4. object' = [object EXCEPT ![o] = [class |-> "acceptor", scheme |-> Scheme(a),
                                       m_address |-> a, m_socket |-> n]]
  BY DEF CreateServer
<1> HIDE DEF n
<1>5. /\ object' \in [Objects -> ObjectType]
      /\ object'[o].class = "acceptor" /\ object'[o].m_socket = n /\ object'[o].m_address = a
      /\ \A p \in Objects \ {o} : object'[p] = object[p]
  BY <1>1, <1>2, <1>3, <1>4, RecordType
<1>6. name' \in [Addresses -> Fds \cup {STALE, NULL}] /\ name'[a] = n
      /\ \A b \in Addresses \ {a} : name'[b] = name[b]
  BY <1>1, <1>2, <1>3 DEF Typed, TypeOK
<1>7. Typed'
  <2>1. waiting' \in [Threads -> Objects \cup {NULL}] /\ errno' \in [Threads -> Errors] /\ failed' \in Nat
    BY <1>1 DEF Typed, TypeOK
  <2>2. \A u \in Threads : waiting'[u] # NULL => object'[waiting'[u]].class = "acceptor"
    BY <1>1, <1>5 DEF Typed, TypeOK
  <2> QED BY <1>1, <1>3, <1>5, <1>6, <2>1, <2>2, TypedStep
<1>8. Accounted'
  <2> DEFINE r == [class |-> "acceptor", scheme |-> Scheme(a), m_address |-> a, m_socket |-> n]
  <2>1. r.m_socket = n /\ r.class = "acceptor"
    OBVIOUS
  <2> HIDE DEF r
  <2>2. object' = [object EXCEPT ![o] = r]
    BY <1>4 DEF r
  <2> QED BY <1>1, <1>3, <2>1, <2>2, NewObject DEF n
<1>9. NamesLeadToAcceptors'
  <2>1. object[o].class = "none"
    BY <1>1 DEF Unused
  <2>2. ASSUME NEW b \in Addresses, name'[b] \in Fds
        PROVE  \E p \in Objects : /\ object'[p].class = "acceptor" /\ object'[p].m_address = b
                                  /\ object'[p].m_socket = name'[b]
    <3>1. CASE b = a
      BY <1>5, <1>6, <3>1
    <3>2. CASE b # a
      <4>1. PICK p \in Objects : /\ object[p].class = "acceptor" /\ object[p].m_address = b
                                 /\ object[p].m_socket = name[b]
        BY <1>6, <2>2, <3>2 DEF Inv, NamesLeadToAcceptors
      <4>2. p # o
        BY <2>1, <4>1
      <4> QED BY <1>5, <1>6, <3>2, <4>1, <4>2
    <3> QED BY <3>1, <3>2
  <2>3. ASSUME NEW p \in Objects, object'[p].class = "acceptor", object'[p].m_address \in Ports
        PROVE  name'[object'[p].m_address] = object'[p].m_socket
    <3>1. CASE p = o
      BY <1>5, <1>6, <3>1
    <3>2. CASE p # o
      <4>1. object'[p] = object[p] /\ name[object[p].m_address] = object[p].m_socket
        BY <1>5, <2>3, <3>2 DEF Inv, NamesLeadToAcceptors
      <4>2. object[p].m_socket # NULL
        BY <2>3, <4>1, <1>1, SocketAssumption DEF Typed, Live, Fds
      <4>3. object[p].m_address \in Addresses \ {a}
        BY <1>1, <2>3, <4>1, <4>2 DEF Ports
      <4> QED BY <1>6, <4>1, <4>3
    <3> QED BY <3>1, <3>2
  <2> QED BY <2>2, <2>3 DEF NamesLeadToAcceptors
<1> QED BY <1>7, <1>8, <1>9 DEF Inv

(***************************************************************************)
(* createClient: a line with a connected socket of its own.                 *)
(***************************************************************************)
LEMMA CreateClientInv ==
  ASSUME Inv, NEW t \in Threads, NEW o \in Objects, NEW a \in Paths \cup Ports, CreateClient(t, o, a)
  PROVE  Inv'
<1> DEFINE n == NewFd
<1>1. /\ Typed /\ Accounted /\ Free # {} /\ name[a] \in Fds /\ object[o] = Unused
      /\ UNCHANGED <<name, waiting, errno, failed>>
  BY DEF Inv, CreateClient
<1>2. a \in Addresses /\ Scheme(a) \in {"local", "tcp"}
  BY SchemeFacts
<1>3. sock[name[a]].state # "closed"
  <2>1. PICK p \in Objects : object[p].class = "acceptor" /\ object[p].m_socket = name[a]
    BY <1>1, <1>2 DEF Inv, NamesLeadToAcceptors
  <2> QED BY <1>1, <2>1 DEF Accounted, DescriptorsOwnedOnce
<1>4. /\ sock' \in [Fds -> SockType] /\ n \in Fds \ Std
      /\ sock'[n].state = "connected" /\ SameBut(n)
  BY <1>1, <1>3, ConnectSock DEF CreateClient
<1>5. object' = [object EXCEPT ![o] = [class |-> "line", scheme |-> Scheme(a),
                                       m_address |-> a, m_socket |-> n]]
  BY DEF CreateClient
<1>6. waiting' \in [Threads -> Objects \cup {NULL}] /\ \A u \in Threads : waiting'[u] \in {NULL, waiting[u]}
  BY <1>1 DEF Typed, TypeOK
<1> QED BY <1>1, <1>2, <1>4, <1>5, <1>6, NewLine DEF Inv

(***************************************************************************)
(* A bind or connect that fails keeps the invariant: the descriptor is      *)
(* leaked and counted.                                                      *)
(***************************************************************************)
LEMMA SocketLeaks ==
  ASSUME Typed, Accounted, Free # {}, sock' = [sock EXCEPT ![NewFd] = Fresh],
         errno' \in [Threads -> Errors], failed' = failed + 1, UNCHANGED <<name, object, waiting>>
  PROVE  Typed' /\ Accounted' /\ (NamesLeadToAcceptors => NamesLeadToAcceptors')
<1>1. /\ sock' \in [Fds -> SockType] /\ NewFd \in Fds \ Std
      /\ sock'[NewFd].state = "fresh" /\ SameBut(NewFd)
  BY SocketSock DEF Fresh
<1>2. Accounted'
  BY <1>1, NewLeak
<1>3. Typed'
  <2>1. /\ waiting' \in [Threads -> Objects \cup {NULL}] /\ failed' \in Nat
        /\ name' \in [Addresses -> Fds \cup {STALE, NULL}] /\ object' \in [Objects -> ObjectType]
        /\ \A u \in Threads : waiting'[u] # NULL => object'[waiting'[u]].class = "acceptor"
        /\ \A p \in Objects : object'[p] = object[p]
    BY DEF Typed, TypeOK
  <2> QED BY <1>1, <2>1, TypedStep
<1>4. NamesLeadToAcceptors => NamesLeadToAcceptors'
  BY DEF NamesLeadToAcceptors
<1> QED BY <1>2, <1>3, <1>4

(***************************************************************************)
(* The errors that a thread may be left with.                               *)
(***************************************************************************)
LEMMA ErrnoType ==
  ASSUME Typed, NEW t \in Threads, NEW e \in Errors, SetErrno(t, e)
  PROVE  errno' \in [Threads -> Errors]
BY DEF Typed, TypeOK, SetErrno

(***************************************************************************)
(* The constructors that fail.                                              *)
(***************************************************************************)
LEMMA ConstructorFailsInv ==
  ASSUME Inv, NEW t \in Threads, NEW a \in Paths \cup Ports,
         BindFails(t, a) \/ ListenFails(t, a) \/ ConnectFails(t, a) \/ SocketFails(t)
  PROVE  Inv'
<1>1. Typed /\ Accounted
  BY DEF Inv
<1>2. errno' \in [Threads -> Errors]
  <2>1. "other" \in Errors /\ "ETIMEDOUT" \in Errors
    BY DEF Errors
  <2>2. SetErrno(t, "other") \/ SetErrno(t, "ETIMEDOUT")
    BY DEF BindFails, ListenFails, ConnectFails, SocketFails
  <2> QED BY <1>1, <2>1, <2>2, ErrnoType
<1>3. CASE BindFails(t, a) \/ ConnectFails(t, a)
  BY <1>1, <1>2, <1>3, SocketLeaks DEF BindFails, ConnectFails, Inv
<1>4. CASE ListenFails(t, a) \/ SocketFails(t)
  BY <1>1, <1>2, <1>4, OnlyErrno DEF ListenFails, SocketFails, Inv
<1> QED BY <1>3, <1>4

(***************************************************************************)
(* An object is destroyed: what its descriptor was is closed, and the names *)
(* keep their type.                                                         *)
(***************************************************************************)
LEMMA ObjectDestroyed ==
  ASSUME Typed, NEW o \in Live, \A u \in Threads : waiting[u] # o,
         sock' = CloseIn(sock, object[o].m_socket), object' = [object EXCEPT ![o] = Unused],
         name' \in [Addresses -> Fds \cup {STALE, NULL}], UNCHANGED <<waiting, errno, failed>>
  PROVE  Typed' /\ (Accounted => Accounted')
<1> DEFINE f == object[o].m_socket
<1>1. f \in Fds \ Std /\ o \in Objects /\ sock \in [Fds -> SockType] /\ object \in [Objects -> ObjectType]
  BY DEF Typed, TypeOK, Live
<1>2. /\ sock' \in [Fds -> SockType] /\ sock'[f] = Closed /\ SameBut(f)
  BY <1>1, CloseInFacts DEF SameBut
<1>3. sock'[f].state = "closed"
  BY <1>2 DEF Closed
<1>4. /\ object' \in [Objects -> ObjectType] /\ object'[o] = Unused
      /\ \A p \in Objects \ {o} : object'[p] = object[p]
  <2>1. Unused \in ObjectType
    BY DEF Unused, ObjectType
  <2> QED BY <1>1, <2>1
<1>5. Typed'
  <2>1. /\ waiting' \in [Threads -> Objects \cup {NULL}] /\ errno' \in [Threads -> Errors] /\ failed' \in Nat
        /\ \A u \in Threads : waiting'[u] # NULL => object'[waiting'[u]].class = "acceptor"
    BY <1>4 DEF Typed, TypeOK
  <2> HIDE DEF f
  <2> QED BY <1>1, <1>2, <1>4, <2>1, TypedStep
<1>6. Accounted => Accounted'
  BY <1>2, <1>3, ObjectGoes
<1> QED BY <1>5, <1>6

(***************************************************************************)
(* What unlink and the end of a socket do to the names.                     *)
(***************************************************************************)
LEMMA NameFacts ==
  ASSUME NEW names \in [Addresses -> Fds \cup {STALE, NULL}], NEW f, NEW a
  PROVE  /\ ReleaseIn(names, f) \in [Addresses -> Fds \cup {STALE, NULL}]
         /\ \A b \in Addresses : ReleaseIn(names, f)[b] \in {names[b], STALE, NULL}
         /\ \A b \in Addresses : names[b] # f => ReleaseIn(names, f)[b] = names[b]
         /\ \A b \in Addresses : names[b] = f => ReleaseIn(names, f)[b] \in {STALE, NULL}
         /\ Unlink(names, a) \in [Addresses -> Fds \cup {STALE, NULL}]
         /\ \A b \in Addresses : Unlink(names, a)[b] \in {names[b], NULL}
         /\ \A b \in Ports : Unlink(names, a)[b] = names[b]
<1>1. \A b \in Addresses : names[b] \in Fds \cup {STALE, NULL}
  OBVIOUS
<1>2. \A b \in Ports : b \in Addresses /\ b \notin Paths
  BY SchemeFacts
<1> QED BY <1>1, <1>2 DEF ReleaseIn, Unlink

(***************************************************************************)
(* STALE and NULL are not descriptors.                                      *)
(***************************************************************************)
LEMMA NoDescriptor == STALE \notin Fds /\ NULL \notin Fds
BY SocketAssumption DEF Fds

(***************************************************************************)
(* A line goes: it may unlink a path, but no port.                          *)
(***************************************************************************)
LEMMA DestroyLineInv ==
  ASSUME Inv, NEW t \in Threads, NEW o \in Objects, DestroyLine(t, o)
  PROVE  Inv'
<1>1. /\ Typed /\ Accounted /\ o \in Live /\ object[o].class = "line"
      /\ object' = [object EXCEPT ![o] = Unused] /\ sock' = CloseIn(sock, object[o].m_socket)
      /\ name' = Unlink(name, object[o].m_address) /\ UNCHANGED <<waiting, errno, failed>>
      /\ name \in [Addresses -> Fds \cup {STALE, NULL}]
  BY DEF Inv, DestroyLine, Live, Typed, TypeOK
<1>2. \A u \in Threads : waiting[u] # o
  <2>1. o # NULL
    BY SocketAssumption
  <2> QED BY <1>1, <2>1 DEF Typed
<1>3. /\ name' \in [Addresses -> Fds \cup {STALE, NULL}]
      /\ \A b \in Addresses : name'[b] \in {name[b], NULL}
      /\ \A b \in Ports : name'[b] = name[b]
  BY <1>1, NameFacts
<1>4. Typed' /\ Accounted'
  BY <1>1, <1>2, <1>3, ObjectDestroyed
<1>5. NamesLeadToAcceptors'
  <2>1. \A p \in Objects : object'[p].class = "acceptor" <=> object[p].class = "acceptor"
    BY <1>1 DEF Unused, Typed, TypeOK
  <2>2. \A p \in Objects : object[p].class = "acceptor" => object'[p] = object[p]
    BY <1>1 DEF Typed, TypeOK
  <2>3. \A b \in Addresses : name'[b] \in Fds => name'[b] = name[b]
    BY <1>3, NoDescriptor
  <2> QED BY <1>3, <2>1, <2>2, <2>3 DEF Inv, NamesLeadToAcceptors
<1> QED BY <1>4, <1>5 DEF Inv

(***************************************************************************)
(* An acceptor goes: its name leads nowhere, the others where they did.     *)
(***************************************************************************)
LEMMA DestroyAcceptorInv ==
  ASSUME Inv, NEW t \in Threads, NEW o \in Objects, DestroyAcceptor(t, o)
  PROVE  Inv'
<1> DEFINE f == object[o].m_socket
           released == ReleaseIn(name, f)
<1>1. /\ Typed /\ Accounted /\ o \in Live /\ object[o].class = "acceptor"
      /\ object' = [object EXCEPT ![o] = Unused] /\ sock' = CloseIn(sock, object[o].m_socket)
      /\ name' = Unlink(released, object[o].m_address) /\ UNCHANGED <<waiting, errno, failed>>
      /\ name \in [Addresses -> Fds \cup {STALE, NULL}]
      /\ \A u \in Threads : waiting[u] # o
  BY DEF Inv, DestroyAcceptor, Live, Typed, TypeOK
<1>2. /\ released \in [Addresses -> Fds \cup {STALE, NULL}]
      /\ \A b \in Addresses : name[b] # f => released[b] = name[b]
      /\ \A b \in Addresses : name[b] = f => released[b] \in {STALE, NULL}
  BY <1>1, NameFacts
<1> HIDE DEF released
<1>3. /\ name' \in [Addresses -> Fds \cup {STALE, NULL}]
      /\ \A b \in Addresses : name'[b] \in {released[b], NULL}
      /\ \A b \in Ports : name'[b] = released[b]
  BY <1>1, <1>2, NameFacts
<1>4. Typed' /\ Accounted'
  BY <1>1, <1>3, ObjectDestroyed
<1>5. object'[o] = Unused /\ \A p \in Objects \ {o} : object'[p] = object[p]
  BY <1>1 DEF Typed, TypeOK
<1>6. \A p \in Objects \ {o} : object[p].m_socket # f
  BY <1>1 DEF Accounted, DescriptorsOwnedOnce, Live
<1> HIDE DEF f
<1>7. NamesLeadToAcceptors'
  <2>1. ASSUME NEW b \in Addresses, name'[b] \in Fds
        PROVE  \E p \in Objects : /\ object'[p].class = "acceptor" /\ object'[p].m_address = b
                                  /\ object'[p].m_socket = name'[b]
    <3>1. name'[b] = name[b] /\ name[b] # f
      BY <1>2, <1>3, <2>1, NoDescriptor
    <3>2. PICK p \in Objects : /\ object[p].class = "acceptor" /\ object[p].m_address = b
                               /\ object[p].m_socket = name[b]
      BY <2>1, <3>1 DEF Inv, NamesLeadToAcceptors
    <3>3. p # o
      BY <3>1, <3>2 DEF f
    <3> QED BY <1>5, <3>1, <3>2, <3>3
  <2>2. ASSUME NEW p \in Objects, object'[p].class = "acceptor", object'[p].m_address \in Ports
        PROVE  name'[object'[p].m_address] = object'[p].m_socket
    <3>1. p # o
      BY <1>5, <2>2 DEF Unused
    <3>2. object'[p] = object[p] /\ name[object[p].m_address] = object[p].m_socket
      BY <1>5, <2>2, <3>1 DEF Inv, NamesLeadToAcceptors
    <3>3. object[p].m_address \in Addresses
      BY <2>2, <3>2 DEF Ports
    <3> QED BY <1>2, <1>3, <1>6, <2>2, <3>1, <3>2, <3>3
  <2> QED BY <2>1, <2>2 DEF NamesLeadToAcceptors
<1> QED BY <1>4, <1>7 DEF Inv

(***************************************************************************)
(* waitConnection is called, or comes back without a line.                  *)
(***************************************************************************)
LEMMA WaitingChanges ==
  ASSUME Typed, UNCHANGED <<sock, name, object, failed>>, errno' \in [Threads -> Errors],
         waiting' \in [Threads -> Objects \cup {NULL}],
         \A u \in Threads : waiting'[u] # NULL => object[waiting'[u]].class = "acceptor"
  PROVE  Typed' /\ (Accounted => Accounted') /\ (NamesLeadToAcceptors => NamesLeadToAcceptors')
<1>1. Typed'
  BY DEF Typed, TypeOK, Live
<1>2. Accounted => Accounted'
  BY SameStates
<1>3. NamesLeadToAcceptors => NamesLeadToAcceptors'
  BY DEF NamesLeadToAcceptors
<1> QED BY <1>1, <1>2, <1>3

(***************************************************************************)
(* accept is called on an acceptor.                                         *)
(***************************************************************************)
LEMMA CallWaitConnectionKeeps ==
  ASSUME Typed, NEW t \in Threads, NEW o \in Objects, CallWaitConnection(t, o)
  PROVE  Typed' /\ (Accounted => Accounted') /\ (NamesLeadToAcceptors => NamesLeadToAcceptors')
<1>1. UNCHANGED <<sock, name, object, failed>> /\ errno' \in [Threads -> Errors]
  BY DEF CallWaitConnection, Typed, TypeOK
<1>2. /\ waiting' \in [Threads -> Objects \cup {NULL}]
      /\ \A u \in Threads : waiting'[u] # NULL => object[waiting'[u]].class = "acceptor"
  BY DEF CallWaitConnection, Typed, TypeOK
<1> QED BY <1>1, <1>2, WaitingChanges

(***************************************************************************)
(* accept fails for want of a descriptor.                                   *)
(***************************************************************************)
LEMMA AcceptFailsKeeps ==
  ASSUME Typed, NEW t \in Threads, AcceptFails(t)
  PROVE  Typed' /\ (Accounted => Accounted') /\ (NamesLeadToAcceptors => NamesLeadToAcceptors')
<1>1. errno' \in [Threads -> Errors]
  <2>1. "other" \in Errors
    BY DEF Errors
  <2> QED BY <2>1, ErrnoType DEF AcceptFails
<1>2. /\ waiting' \in [Threads -> Objects \cup {NULL}]
      /\ \A u \in Threads : waiting'[u] # NULL => object[waiting'[u]].class = "acceptor"
  BY DEF AcceptFails, Typed, TypeOK
<1> QED BY <1>1, <1>2, WaitingChanges DEF AcceptFails

(***************************************************************************)
(* accept returns a descriptor: a line has it, or it was 0 and is leaked    *)
(* and counted.                                                             *)
(***************************************************************************)
LEMMA AcceptKeeps ==
  ASSUME Typed, Accounted, NEW t \in Threads, NEW o \in Objects, Accept(t, o)
  PROVE  Typed' /\ Accounted' /\ (NamesLeadToAcceptors => NamesLeadToAcceptors')
<1> DEFINE n  == NewFd
           sc == object[waiting[t]].scheme
<1>1. /\ Free # {} /\ waiting[t] # NULL /\ waiting' = [waiting EXCEPT ![t] = NULL]
      /\ UNCHANGED <<name, errno>>
  BY DEF Accept
<1>2. /\ sock' \in [Fds -> SockType] /\ n \in Fds \ Std
      /\ sock'[n].state = "connected" /\ SameBut(n)
  BY AcceptSock
<1>3. /\ waiting' \in [Threads -> Objects \cup {NULL}]
      /\ \A u \in Threads : waiting'[u] \in {NULL, waiting[u]}
  BY <1>1 DEF Typed, TypeOK
<1>4. waiting[t] \in Objects /\ sc \in {"local", "tcp", NULL}
  BY <1>1 DEF Typed, TypeOK, ObjectType
<1>5. CASE /\ object[o] = Unused /\ UNCHANGED failed
           /\ object' = [object EXCEPT ![o] = [class |-> "line", m_address |-> NULL, scheme |-> sc,
                                               m_socket |-> n]]
  <2>1. [class |-> "line", m_address |-> NULL, scheme |-> sc, m_socket |-> n]
          = [class |-> "line", scheme |-> sc, m_address |-> NULL, m_socket |-> n]
    OBVIOUS
  <2> HIDE DEF sc
  <2>2. object' = [object EXCEPT ![o] = [class |-> "line", scheme |-> sc, m_address |-> NULL,
                                         m_socket |-> n]]
    BY <1>5, <2>1
  <2> QED BY <1>1, <1>2, <1>3, <1>4, <1>5, <2>2, NewLine
<1>6. CASE failed' = failed + 1 /\ UNCHANGED object
  <2>1. Accounted'
    BY <1>1, <1>2, <1>6, NewLeak
  <2>2. Typed'
    <3>1. /\ name' \in [Addresses -> Fds \cup {STALE, NULL}] /\ errno' \in [Threads -> Errors]
          /\ failed' \in Nat /\ object' \in [Objects -> ObjectType]
          /\ \A u \in Threads : waiting'[u] # NULL => object'[waiting'[u]].class = "acceptor"
          /\ \A p \in Objects : object'[p] = object[p]
      BY <1>1, <1>3, <1>6 DEF Typed, TypeOK
    <3> QED BY <1>2, <1>3, <3>1, TypedStep
  <2>3. NamesLeadToAcceptors => NamesLeadToAcceptors'
    BY <1>1, <1>6 DEF NamesLeadToAcceptors
  <2> QED BY <2>1, <2>2, <2>3
<1> QED BY <1>5, <1>6 DEF Accept

(***************************************************************************)
(* read and write leave an error behind, and nothing else.                  *)
(***************************************************************************)
LEMMA ReadOrWriteKeeps ==
  ASSUME Typed, NEW t \in Threads, NEW o \in Objects, NEW n \in 0..1, ReadOrWrite(t, o, n)
  PROVE  Typed' /\ (Accounted => Accounted') /\ (NamesLeadToAcceptors => NamesLeadToAcceptors')
<1>1. PICK r \in Outcome : SetErrno(t, Errno(t, r))
  BY DEF ReadOrWrite, KernelRead, KernelWrite
<1>2. Errno(t, r) \in Errors
  <2>1. errno[t] \in Errors
    BY DEF Typed, TypeOK
  <2>2. r[1] < 0 => r[2] \in Errors
    BY <1>1 DEF Outcome, Errors
  <2> QED BY <2>1, <2>2 DEF Errno
<1>3. errno' \in [Threads -> Errors]
  BY <1>1, <1>2, ErrnoType
<1> QED BY <1>3, OnlyErrno DEF ReadOrWrite

(***************************************************************************)
(* At first nothing is open but what the process was given.                 *)
(***************************************************************************)
LEMMA InitInv == Init => Inv
<1> SUFFICES ASSUME Init PROVE Inv
  OBVIOUS
<1>1. /\ \A f \in Fds : sock[f] \in SockType /\ sock[f].state = IF f \in Std THEN "other" ELSE "closed"
      /\ sock = [f \in Fds |-> sock[f]]
  <2>1. [Closed EXCEPT !.state = "other"] \in SockType /\ [Closed EXCEPT !.state = "other"].state = "other"
    BY SocketType
  <2>2. sock = [f \in Fds |-> IF f \in Std THEN [Closed EXCEPT !.state = "other"] ELSE Closed]
    BY DEF Init
  <2>3. ASSUME NEW f \in Fds
        PROVE  sock[f] \in SockType /\ sock[f].state = IF f \in Std THEN "other" ELSE "closed"
    <3>1. CASE f \in Std
      BY <2>1, <2>2, <3>1
    <3>2. CASE f \notin Std
      BY <2>2, <3>2, SocketType
    <3> QED BY <3>1, <3>2
  <2> QED BY <2>2, <2>3
<1>2. Unused \in ObjectType /\ Unused.class = "none" /\ Unused.m_socket = NULL
  BY DEF Unused, ObjectType
<1>3. \A o \in Objects : object[o] = Unused
  BY DEF Init
<1>4. Live = {}
  BY <1>2, <1>3 DEF Live
<1>5. Typed
  <2>1. sock \in [Fds -> SockType]
    BY <1>1
  <2>2. /\ name \in [Addresses -> Fds \cup {STALE, NULL}] /\ object \in [Objects -> ObjectType]
        /\ waiting \in [Threads -> Objects \cup {NULL}] /\ errno \in [Threads -> Errors] /\ failed \in Nat
    BY <1>2 DEF Init, Errors
  <2>3. \A f \in Std : sock[f].state = "other"
    BY <1>1, SocketAssumption DEF Fds
  <2>4. \A t \in Threads : waiting[t] = NULL
    BY DEF Init
  <2> QED BY <1>3, <1>4, <2>1, <2>2, <2>3, <2>4 DEF Typed, TypeOK
<1>6. Accounted
  <2>1. Leaked = {}
    BY <1>1 DEF Leaked
  <2>2. failed = 0
    BY DEF Init
  <2>3. DescriptorsOwnedOnce
    BY <1>2, <1>3 DEF DescriptorsOwnedOnce
  <2> QED BY <2>1, <2>2, <2>3, FS_EmptySet DEF Accounted
<1>7. NamesLeadToAcceptors
  <2>1. \A a \in Addresses : name[a] \notin Fds
    BY NoDescriptor DEF Init
  <2> QED BY <1>2, <1>3, <2>1 DEF NamesLeadToAcceptors
<1> QED BY <1>5, <1>6, <1>7 DEF Inv

(***************************************************************************)
(* Every step keeps the invariant.                                          *)
(***************************************************************************)
LEMMA StepInv == Inv /\ [Next]_vars => Inv'
<1> SUFFICES ASSUME Inv, [Next]_vars PROVE Inv'
  OBVIOUS
<1>1. Typed /\ Accounted /\ NamesLeadToAcceptors
  BY DEF Inv
<1>2. CASE UNCHANGED vars
  <2>1. errno' \in [Threads -> Errors]
    BY <1>1, <1>2 DEF vars, Typed, TypeOK
  <2> QED BY <1>1, <1>2, <2>1, OnlyErrno DEF vars, Inv
<1>3. ASSUME NEW t \in Threads, NEW o \in Objects, NEW a \in Paths \cup Ports,
             CreateServer(t, o, a) \/ CreateClient(t, o, a)
      PROVE  Inv'
  BY <1>3, CreateServerInv, CreateClientInv
<1>4. ASSUME NEW t \in Threads, NEW o \in Objects, DestroyAcceptor(t, o) \/ DestroyLine(t, o)
      PROVE  Inv'
  BY <1>4, DestroyAcceptorInv, DestroyLineInv
<1>5. ASSUME NEW t \in Threads, NEW o \in Objects, CallWaitConnection(t, o) \/ Accept(t, o)
      PROVE  Inv'
  BY <1>1, <1>5, CallWaitConnectionKeeps, AcceptKeeps DEF Inv
<1>6. ASSUME NEW t \in Threads, NEW o \in Objects, NEW n \in 0..1, ReadOrWrite(t, o, n)
      PROVE  Inv'
  BY <1>1, <1>6, ReadOrWriteKeeps DEF Inv
<1>7. ASSUME NEW t \in Threads, NEW a \in Paths \cup Ports,
             BindFails(t, a) \/ ListenFails(t, a) \/ ConnectFails(t, a)
      PROVE  Inv'
  BY <1>7, ConstructorFailsInv
<1>8. ASSUME NEW t \in Threads, AcceptFails(t) PROVE Inv'
  BY <1>1, <1>8, AcceptFailsKeeps DEF Inv
<1>9. ASSUME NEW t \in Threads, SocketFails(t) PROVE Inv'
  <2>1. errno' \in [Threads -> Errors]
    <3>1. "other" \in Errors
      BY DEF Errors
    <3> QED BY <1>1, <1>9, <3>1, ErrnoType DEF SocketFails
  <2> QED BY <1>1, <1>9, <2>1, OnlyErrno DEF SocketFails, Inv
<1> QED BY <1>2, <1>3, <1>4, <1>5, <1>6, <1>7, <1>8, <1>9 DEF Next

(***************************************************************************)
(* The invariant holds in every reachable state.                            *)
(***************************************************************************)
LEMMA SocketInvariant == Spec => []Inv
BY InitInv, StepInv, PTL DEF Spec

(***************************************************************************)
(* What is open and not given is owned by one object each, or leaked.       *)
(***************************************************************************)
LEMMA OpenIsOwnedOrLeaked == Typed /\ Accounted => LeaksAreFailures
<1> SUFFICES ASSUME Typed, Accounted PROVE LeaksAreFailures
  OBVIOUS
<1> DEFINE Used == {f \in Fds \ Std : sock[f].state # "closed"}
           m_socket == [o \in Live |-> object[o].m_socket]
<1>1. IsFiniteSet(Fds)
  <2>1. 0 \in Int /\ MaxFd \in Int
    BY SocketAssumption
  <2> QED BY <2>1, FS_Interval DEF Fds
<1>2. \A o \in Live : object[o].m_socket \in Used
  <2>1. \A o \in Live : object[o].class \in {"acceptor", "line"}
    BY DEF Typed, TypeOK, ObjectType, Live
  <2> QED BY <2>1 DEF Typed, Accounted, DescriptorsOwnedOnce, Live
<1>3. Owned \subseteq Used /\ Used = Leaked \cup Owned /\ Leaked \cap Owned = {}
  BY <1>2 DEF Owned, Leaked
<1>4. IsFiniteSet(Owned) /\ IsFiniteSet(Leaked)
  <2>1. Owned \in SUBSET Fds
    BY <1>3
  <2> QED BY <1>1, <2>1, LeakedIsFinite, FS_Subset
<1>5. Cardinality(Live) = Cardinality(Owned)
  <2>1. m_socket \in [Live -> Owned]
    BY DEF Owned
  <2>2. \A x, y \in Live : m_socket[x] = m_socket[y] => x = y
    BY DEF Accounted, DescriptorsOwnedOnce, Live
  <2>3. \A u \in Owned : \E x \in Live : m_socket[x] = u
    BY DEF Owned
  <2> HIDE DEF m_socket
  <2> QED BY <1>4, <2>1, <2>2, <2>3, SameSize
<1>6. Cardinality(Used) = Cardinality(Leaked) + Cardinality(Owned)
  <2>1. Cardinality(Leaked \cup Owned)
          = Cardinality(Leaked) + Cardinality(Owned) - Cardinality(Leaked \cap Owned)
    BY <1>4, FS_Union
  <2>2. Cardinality(Leaked \cap Owned) = 0
    BY <1>3, FS_EmptySet
  <2>3. Cardinality(Leaked) \in Nat /\ Cardinality(Owned) \in Nat
    BY <1>4, FS_CardinalityType
  <2> HIDE DEF Used
  <2> QED BY <1>3, <2>1, <2>2, <2>3
<1> QED BY <1>5, <1>6 DEF LeaksAreFailures, Accounted, Live

(***************************************************************************)
(* Every live line and acceptor has an open descriptor of its own, of its   *)
(* own kind, however descriptors are closed, leaked and used again          *)
(* (io_socket.cpp:30-34, :140-144, :195-198, :315-318).                     *)
(***************************************************************************)
THEOREM DescriptorsAreOwnedOnce == Spec => []DescriptorsOwnedOnce
<1>1. Inv => DescriptorsOwnedOnce
  BY DEF Inv, Accounted
<1> QED BY <1>1, SocketInvariant, PTL

(***************************************************************************)
(* Descriptors leak through constructors that fail and through an accept    *)
(* that returns 0, one each, and through nothing else (io_socket.cpp:128-   *)
(* 129, :303-305, :44-46, :211-212, :151, :325).                            *)
(***************************************************************************)
THEOREM OnlyFailuresLeak == Spec => []LeaksAreFailures
<1>1. Inv => LeaksAreFailures
  BY OpenIsOwnedOrLeaked DEF Inv
<1> QED BY <1>1, SocketInvariant, PTL

(***************************************************************************)
(* A name that leads to a socket leads to a live acceptor of that address,  *)
(* and the port of a tcp:// acceptor leads to it as long as it lives        *)
(* (io_socket.cpp:127-143, :195-198, :280-318).                             *)
(***************************************************************************)
THEOREM NamesAlwaysLeadToAcceptors == Spec => []NamesLeadToAcceptors
<1>1. Inv => NamesLeadToAcceptors
  BY DEF Inv
<1> QED BY <1>1, SocketInvariant, PTL

(***************************************************************************)
(* In every state, read and write report eConnectionLost only when the      *)
(* other end is gone, and read reports eTimeout only when it is there,      *)
(* unless the errno of the thread is an earlier ETIMEDOUT                   *)
(* (io_socket.cpp:49-79, :216-242).                                         *)
(***************************************************************************)
THEOREM CodesAreAlwaysTruthful == Spec => []CodesAreTruthful
<1>1. ASSUME NEW t \in Threads, NEW o \in Lines,
             "eConnectionLost" \in ReadCodes(t, o, 1) \cup WriteCodes(t, o, 1)
      PROVE  Gone(o)
  <2>1. CASE "eConnectionLost" \in ReadCodes(t, o, 1)
    <3>1. PICK r \in KernelRead(o, 1) : "eConnectionLost" = ReadCode(r[1], Errno(t, r))
      BY <2>1 DEF ReadCodes
    <3>2. r[1] = 0 \/ r = <<-1, "ECONNRESET">>
      BY <3>1 DEF KernelRead, Outcome, ReadCode, Errno
    <3> QED BY <3>2 DEF KernelRead, Outcome
  <2>2. CASE "eConnectionLost" \in WriteCodes(t, o, 1)
    <3>1. PICK r \in KernelWrite(o, 1) : "eConnectionLost" = WriteCode(object[o].scheme, r[1], Errno(t, r))
      BY <2>2 DEF WriteCodes
    <3>2. r[1] = 0 \/ r = <<-1, "ECONNRESET">>
      BY <3>1 DEF KernelWrite, Outcome, WriteCode, Errno
    <3> QED BY <3>2 DEF KernelWrite, Outcome
  <2> QED BY <1>1, <2>1, <2>2
<1>2. ASSUME NEW t \in Threads, NEW o \in Lines, "eTimeout" \in ReadCodes(t, o, 1), errno[t] # "ETIMEDOUT"
      PROVE  ~Gone(o)
  <2>1. PICK r \in KernelRead(o, 1) : "eTimeout" = ReadCode(r[1], Errno(t, r))
    BY <1>2 DEF ReadCodes
  <2>2. r = <<-1, "EAGAIN">>
    BY <1>2, <2>1 DEF KernelRead, Outcome, ReadCode, Errno
  <2> QED BY <2>2 DEF KernelRead, ReceiveTimesOut
<1>3. CodesAreTruthful
  BY <1>1, <1>2 DEF CodesAreTruthful
<1> QED BY <1>3, PTL

(***************************************************************************)
(* find_first_of: the first of the characters, or none.                     *)
(***************************************************************************)
LEMMA FirstOfFacts ==
  ASSUME NEW text \in Seq(STRING), NEW chars
  PROVE  LET d == FindFirstOf(text, chars)
         IN  d \in 0..Len(text) /\ (d > 0 => text[d] \in chars)
<1> DEFINE I == {i \in 1..Len(text) : text[i] \in chars}
<1>1. FindFirstOf(text, chars) = IF I # {} THEN Min(I) ELSE 0
  BY DEF FindFirstOf, SelectInSeq
<1>2. I \in SUBSET Nat /\ Len(text) \in Nat
  OBVIOUS
<1>3. CASE I # {}
  <2>1. Min(I) \in I
    BY <1>2, <1>3, MinIsMember
  <2> QED BY <1>1, <1>2, <1>3, <2>1
<1>4. CASE I = {}
  BY <1>1, <1>2, <1>4
<1> QED BY <1>3, <1>4

(***************************************************************************)
(* A text that gets to a factory is a scheme, "://" and what the factory is *)
(* given.                                                                   *)
(***************************************************************************)
LEMMA ResolveFacts ==
  ASSUME NEW text \in Texts, Resolve(text).outcome = "factory"
  PROVE  text = <<Resolve(text).scheme, ":", "/", "/">> \o Resolve(text).base
<1> DEFINE d == FindFirstOf(text, {":", "/"})
           scheme == SubSeq(text, 1, d - 1)
           I == {i \in 1..Len(Factories) : scheme = <<Factories[i]>>}
           factory == IF I # {} THEN Min(I) ELSE 0
           base == SubSeq(text, d + 3, Len(text))
<1>1. text \in Seq(STRING) /\ Len(text) \in Nat
  BY SocketAssumption
<1>2. d \in 0..Len(text) /\ (d > 0 => text[d] \in {":", "/"})
  BY <1>1, FirstOfFacts
<1>3. SelectInSeq(Factories, LAMBDA f : Supports(f, scheme)) = factory
  BY DEF SelectInSeq, Supports
<1>4. factory # 0 => factory \in 1..Len(Factories) /\ scheme = <<Factories[factory]>>
  <2>1. I \in SUBSET Nat
    BY DEF Factories
  <2>2. I # {} => Min(I) \in I
    BY <2>1, MinIsMember
  <2> QED BY <2>2
<1>5. factory \in Nat
  BY <1>4 DEF Factories
<1> HIDE DEF d, factory, scheme
<1>6. /\ d # 0 /\ factory # 0 /\ d + 2 <= Len(text)
      /\ Resolve(text).scheme = Factories[factory] /\ Resolve(text).base = base
  <2> DEFINE NoAddress(what) == [outcome |-> what, scheme |-> "", base |-> <<>>]
  <2>1. Resolve(text) =
          CASE d = 0 \/ factory = 0 -> NoAddress("nullptr")
            [] d > 0 /\ factory > 0 /\ d + 2 > Len(text) -> NoAddress("out_of_range")
            [] OTHER -> [outcome |-> "factory", scheme |-> Factories[factory], base |-> base]
    BY <1>3 DEF Resolve, d, scheme, BaseAddress
  <2>2. d \in Nat
    BY <1>1, <1>2
  <2> HIDE DEF base
  <2>3. CASE d = 0 \/ factory = 0
    <3>1. ~(d > 0 /\ factory > 0 /\ d + 2 > Len(text))
      BY <1>5, <2>2, <2>3
    <3>2. Resolve(text) = NoAddress("nullptr")
      BY <2>1, <2>3, <3>1
    <3>3. NoAddress("nullptr").outcome = "nullptr"
      OBVIOUS
    <3>4. "nullptr" # "factory"
      OBVIOUS
    <3> HIDE DEF NoAddress
    <3> QED BY <3>2, <3>3, <3>4
  <2>4. CASE d > 0 /\ factory > 0 /\ d + 2 > Len(text)
    <3>1. ~(d = 0 \/ factory = 0)
      BY <1>5, <2>2, <2>4
    <3>2. Resolve(text) = NoAddress("out_of_range")
      BY <2>1, <2>4, <3>1
    <3>3. NoAddress("out_of_range").outcome = "out_of_range"
      OBVIOUS
    <3>4. "out_of_range" # "factory"
      OBVIOUS
    <3> HIDE DEF NoAddress
    <3> QED BY <3>2, <3>3, <3>4
  <2>5. CASE ~(d = 0 \/ factory = 0) /\ ~(d > 0 /\ factory > 0 /\ d + 2 > Len(text))
    <3>1. Resolve(text) = [outcome |-> "factory", scheme |-> Factories[factory], base |-> base]
      BY <2>1, <2>5
    <3>2. d + 2 <= Len(text)
      BY <1>1, <1>5, <2>2, <2>5
    <3> QED BY <2>5, <3>1, <3>2
  <2> QED BY <2>3, <2>4, <2>5
<1>7. d = 2 /\ text[1] = Factories[factory]
  <2>1. d - 1 \in 0..Len(text) /\ d \in Nat
    BY <1>1, <1>2, <1>6
  <2>2. /\ Len(scheme) = d - 1
        /\ \A i \in 1..(d - 1) : scheme[i] = text[i]
    <3>1. 0 + 1 = 1 /\ (d - 1) - 0 = d - 1
      BY <2>1
    <3> QED BY <1>1, <2>1, <3>1, SubSeqFacts, 0 \in Nat DEF scheme
  <2>3. Len(scheme) = 1 /\ scheme[1] = Factories[factory]
    BY <1>4, <1>6
  <2>4. d - 1 = 1 /\ d = 2
    <3>1. d - 1 = 1
      BY <2>2, <2>3
    <3> QED BY <2>1, <3>1
  <2> QED BY <2>2, <2>3, <2>4
<1>8. Len(text) >= 4 /\ text[2] \in {":", "/"}
  BY <1>1, <1>2, <1>6, <1>7
<1>9. text[2] = ":" /\ text[3] = "/" /\ text[4] = "/"
  <2> DEFINE s == SubSeq(text, 2, 4)
  <2>1. s = <<":", "/", "/">>
    BY <1>8, TextsAssumption
  <2>2. \A i \in 1..3 : s[i] = text[1 + i]
    <3>1. 1 \in Nat /\ 4 \in 1..Len(text) /\ 1 + 1 = 2 /\ 4 - 1 = 3
      BY <1>1, <1>8
    <3> QED BY <1>1, <3>1, SubSeqFacts
  <2> HIDE DEF s
  <2>3. s[1] = ":" /\ s[2] = "/" /\ s[3] = "/"
    BY <2>1
  <2>4. 1 \in 1..3 /\ 2 \in 1..3 /\ 3 \in 1..3 /\ 1 + 1 = 2 /\ 1 + 2 = 3 /\ 1 + 3 = 4
    OBVIOUS
  <2> QED BY <2>2, <2>3, <2>4
<1>10. /\ base \in Seq(STRING) /\ Len(base) = Len(text) - 4
       /\ \A i \in 1..(Len(text) - 4) : base[i] = text[4 + i]
  <2>1. 4 \in Nat /\ Len(text) \in 4..Len(text)
    BY <1>1, <1>8
  <2>2. d + 3 = 4 + 1
    BY <1>7
  <2>3. base = SubSeq(text, 4 + 1, Len(text))
    BY <2>2
  <2> HIDE DEF base
  <2>4. /\ SubSeq(text, 4 + 1, Len(text)) \in Seq(STRING)
        /\ Len(SubSeq(text, 4 + 1, Len(text))) = Len(text) - 4
        /\ \A i \in 1..(Len(text) - 4) : SubSeq(text, 4 + 1, Len(text))[i] = text[4 + i]
    BY <1>1, <2>1, SubSeqFacts
  <2> QED BY <2>3, <2>4
<1> HIDE DEF base
<1> DEFINE front == <<Factories[factory], ":", "/", "/">>
<1>11. /\ front \in Seq(STRING) /\ Len(front) = 4 /\ front[1] = text[1] /\ front[2] = text[2]
       /\ front[3] = text[3] /\ front[4] = text[4]
  <2> DEFINE first == Factories[factory]
  <2>1. first \in STRING /\ first = text[1]
    <3>1. 1 \in 1..Len(text)
      BY <1>1, <1>8
    <3>2. text[1] \in STRING
      BY <1>1, <3>1, ElementOfSeq
    <3> QED BY <1>7, <3>2
  <2> HIDE DEF first
  <2>2. <<first, ":", "/", "/">> \in Seq(STRING) /\ Len(<<first, ":", "/", "/">>) = 4
    <3> DEFINE S == STRING
    <3>1. first \in S /\ ":" \in S /\ "/" \in S
      <4>1. 2 \in 1..Len(text) /\ 3 \in 1..Len(text)
        BY <1>1, <1>8
      <4>2. text[2] \in STRING /\ text[3] \in STRING
        BY <1>1, <4>1, ElementOfSeq
      <4> QED BY <1>9, <2>1, <4>2
    <3> HIDE DEF S
    <3>2. \A u, v, x, y \in S : <<u, v, x, y>> \in Seq(S) /\ Len(<<u, v, x, y>>) = 4
      OBVIOUS
    <3>3. <<first, ":", "/", "/">> \in Seq(S) /\ Len(<<first, ":", "/", "/">>) = 4
      BY <3>1, <3>2
    <3> QED BY <3>3 DEF S
  <2>3. /\ <<first, ":", "/", "/">>[1] = first /\ <<first, ":", "/", "/">>[2] = ":"
        /\ <<first, ":", "/", "/">>[3] = "/" /\ <<first, ":", "/", "/">>[4] = "/"
    OBVIOUS
  <2> QED BY <1>9, <2>1, <2>2, <2>3 DEF first
<1> HIDE DEF front
<1>12. /\ front \o base \in Seq(STRING) /\ Len(front \o base) = Len(text)
       /\ \A i \in 1..Len(text) : (front \o base)[i] = IF i <= 4 THEN front[i] ELSE base[i - 4]
  <2>1. /\ front \in Seq(STRING) /\ Len(front) = 4 /\ base \in Seq(STRING)
        /\ Len(base) = Len(text) - 4 /\ 4 + (Len(text) - 4) = Len(text)
    BY <1>1, <1>10, <1>11
  <2>2. /\ front \o base \in Seq(STRING) /\ Len(front \o base) = Len(front) + Len(base)
        /\ \A i \in 1..(Len(front) + Len(base)) :
             (front \o base)[i] = IF i <= Len(front) THEN front[i] ELSE base[i - Len(front)]
    <3> DEFINE S == STRING
    <3>1. front \in Seq(S) /\ base \in Seq(S)
      BY <2>1
    <3> HIDE DEF S
    <3>2. /\ front \o base \in Seq(S) /\ Len(front \o base) = Len(front) + Len(base)
          /\ \A i \in 1..(Len(front) + Len(base)) :
               (front \o base)[i] = IF i <= Len(front) THEN front[i] ELSE base[i - Len(front)]
      BY <3>1, ConcatProperties
    <3> QED BY <3>2 DEF S
  <2>3. Len(front) + Len(base) = Len(text)
    BY <2>1
  <2> QED BY <2>1, <2>2, <2>3
<1>13. ASSUME NEW i \in 1..Len(text) PROVE (front \o base)[i] = text[i]
  <2>1. CASE i <= 4
    <3>1. i \in {1, 2, 3, 4}
      BY <1>1, <2>1
    <3> QED BY <1>11, <1>12, <2>1, <3>1
  <2>2. CASE ~(i <= 4)
    <3>1. i - 4 \in 1..(Len(text) - 4) /\ 4 + (i - 4) = i
      BY <1>1, <2>2
    <3> QED BY <1>10, <1>12, <2>2, <3>1
  <2> QED BY <2>1, <2>2
<1>14. front \o base = text
  BY <1>1, <1>12, <1>13, SeqEqual
<1> QED BY <1>6, <1>14 DEF front

(***************************************************************************)
(* A line or acceptor is made at the rest of a text that a caller passed,   *)
(* scheme and "://" taken off and nothing else, and by the class of that    *)
(* scheme (iolinemanager.cpp:22-45, :47-70).                                *)
(***************************************************************************)
THEOREM AddressesAreRests == Spec => []AddressIsRest
<1> DEFINE OfScheme == \A o \in Objects :
                         object[o].m_address # NULL => object[o].m_address[1] = object[o].scheme
<1>1. Init => OfScheme
  BY DEF Init, Unused
<1>2. ASSUME Typed, OfScheme, [Next]_vars PROVE OfScheme'
  <2>1. object \in [Objects -> ObjectType]
    BY <1>2 DEF Typed, TypeOK
  <2>2. ASSUME NEW o \in Objects, NEW r, object' = [object EXCEPT ![o] = r],
               r.m_address # NULL => r.m_address[1] = r.scheme
        PROVE  OfScheme'
    BY <1>2, <2>1, <2>2
  <2>3. ASSUME object' = object PROVE OfScheme'
    BY <1>2, <2>3
  <2>4. ASSUME NEW t \in Threads, NEW o \in Objects, NEW a \in Paths \cup Ports,
               CreateServer(t, o, a) \/ CreateClient(t, o, a)
        PROVE  OfScheme'
    <3>1. PICK k, n : object' = [object EXCEPT ![o] = [class |-> k, scheme |-> Scheme(a),
                                                      m_address |-> a, m_socket |-> n]]
      BY <2>4 DEF CreateServer, CreateClient
    <3> DEFINE r == [class |-> k, scheme |-> Scheme(a), m_address |-> a, m_socket |-> n]
    <3>2. r.m_address[1] = r.scheme
      BY DEF Scheme
    <3> HIDE DEF r
    <3> QED BY <2>2, <3>1, <3>2 DEF r
  <2>5. ASSUME NEW t \in Threads, NEW o \in Objects, DestroyAcceptor(t, o) \/ DestroyLine(t, o)
        PROVE  OfScheme'
    <3>1. object' = [object EXCEPT ![o] = Unused] /\ Unused.m_address = NULL
      BY <2>5 DEF DestroyAcceptor, DestroyLine, Unused
    <3> QED BY <2>2, <3>1
  <2>6. ASSUME NEW t \in Threads, NEW o \in Objects, Accept(t, o)
        PROVE  OfScheme'
    <3>1. CASE object' = object
      BY <2>3, <3>1
    <3>2. CASE object' # object
      <4>1. PICK sc, n : object' = [object EXCEPT ![o] = [class |-> "line", m_address |-> NULL,
                                                         scheme |-> sc, m_socket |-> n]]
        BY <2>6, <3>2 DEF Accept
      <4> DEFINE r == [class |-> "line", m_address |-> NULL, scheme |-> sc, m_socket |-> n]
      <4>2. r.m_address = NULL
        OBVIOUS
      <4> HIDE DEF r
      <4> QED BY <2>2, <4>1, <4>2 DEF r
    <3> QED BY <3>1, <3>2
  <2>7. ASSUME \/ UNCHANGED vars
               \/ \E t \in Threads :
                    \/ \E o \in Objects : CallWaitConnection(t, o) \/ \E n \in 0..1 : ReadOrWrite(t, o, n)
                    \/ \E a \in Paths \cup Ports : BindFails(t, a) \/ ListenFails(t, a) \/ ConnectFails(t, a)
                    \/ SocketFails(t) \/ AcceptFails(t)
        PROVE  object' = object
    BY <2>7 DEF vars, CallWaitConnection, ReadOrWrite, BindFails, ListenFails, ConnectFails,
                SocketFails, AcceptFails
  <2> HIDE DEF OfScheme
  <2> QED BY <1>2, <2>3, <2>4, <2>5, <2>6, <2>7 DEF Next
<1>3. Typed /\ OfScheme => AddressIsRest
  <2> SUFFICES ASSUME Typed, OfScheme, NEW o \in Objects, object[o].m_address # NULL
               PROVE  /\ object[o].m_address[1] = object[o].scheme
                      /\ <<object[o].scheme, ":", "/", "/">> \o object[o].m_address[2] \in Texts
    BY DEF AddressIsRest
  <2>1. object[o].m_address \in Addresses /\ object[o].m_address[1] = object[o].scheme
    BY DEF Typed, TypeOK, ObjectType
  <2>2. PICK text \in Texts : /\ Resolve(text).outcome = "factory"
                              /\ object[o].m_address = <<Resolve(text).scheme, Resolve(text).base>>
    BY <2>1 DEF Addresses
  <2>3. /\ object[o].scheme = Resolve(text).scheme
        /\ object[o].m_address[2] = Resolve(text).base
    BY <2>1, <2>2
  <2>4. text = <<Resolve(text).scheme, ":", "/", "/">> \o Resolve(text).base
    BY <2>2, ResolveFacts
  <2> QED BY <2>1, <2>3, <2>4
<1>4. Inv => Typed
  BY DEF Inv
<1> HIDE DEF OfScheme
<1> QED BY <1>1, <1>2, <1>3, <1>4, SocketInvariant, PTL DEF Spec

-------------------------------------------------------------------------------
\* WinSockets.

\* The handles are accounted for until an object outlives Winsock, which nobody
\* starts again then.
WinInv ==
  /\ Typed
  /\ managers \in Nat /\ outlived \in BOOLEAN
  /\ ~outlived => Accounted
  /\ outlived => managers = 0 /\ \A t \in Threads : waiting[t] = NULL

(***************************************************************************)
(* A step of the objects and sockets before any object outlives Winsock.    *)
(***************************************************************************)
LEMMA WhileWinsockRuns ==
  ASSUME WinInv, ~outlived, UNCHANGED <<managers, outlived>>, Typed', Accounted'
  PROVE  WinInv'
BY DEF WinInv

(***************************************************************************)
(* A step that starts no wait, factories or not.                            *)
(***************************************************************************)
LEMMA WithoutWinsock ==
  ASSUME WinInv, UNCHANGED <<waiting, managers, outlived>>, Typed', Accounted => Accounted'
  PROVE  WinInv'
BY DEF WinInv

(***************************************************************************)
(* Factories come, and the last one takes every handle with it.             *)
(***************************************************************************)
LEMMA FactoryInv ==
  ASSUME WinInv, CreateFactory \/ DestroyFactory
  PROVE  WinInv'
<1>1. CASE UNCHANGED vars /\ UNCHANGED outlived
  <2>1. Typed' /\ (Accounted => Accounted')
    <3>1. errno' \in [Threads -> Errors]
      BY <1>1 DEF vars, WinInv, Typed, TypeOK
    <3> QED BY <1>1, <3>1, OnlyErrno DEF vars, WinInv
  <2>2. ~outlived /\ managers' \in Nat
    BY <1>1 DEF CreateFactory, DestroyFactory, WinInv
  <2> QED BY <1>1, <2>1, <2>2 DEF WinInv
<1>2. CASE /\ managers > 0 /\ ~(managers > 1) /\ managers' = managers - 1
           /\ sock' = [f \in Fds |-> IF f \in Std THEN sock[f] ELSE Closed]
           /\ waiting' = [t \in Threads |-> NULL]
           /\ failed' = 0
           /\ outlived' = (outlived \/ \E o \in Objects : object[o] # Unused)
           /\ UNCHANGED <<name, object, errno>>
  <2>1. Typed
    BY DEF WinInv
  <2>2. /\ \A f \in Fds : sock'[f] \in SockType
        /\ \A f \in Fds \ Std : sock'[f].state = "closed"
        /\ \A f \in Std : sock'[f].state = "other"
        /\ sock' = [f \in Fds |-> sock'[f]]
    BY <1>2, <2>1, SocketType, SocketAssumption DEF Typed, TypeOK, Fds
  <2>3. Typed'
    <3>1. sock' \in [Fds -> SockType]
      BY <2>2
    <3>2. Live' = Live
      BY <1>2 DEF Live
    <3>3. /\ name' \in [Addresses -> Fds \cup {STALE, NULL}] /\ object' \in [Objects -> ObjectType]
          /\ waiting' \in [Threads -> Objects \cup {NULL}] /\ errno' \in [Threads -> Errors]
          /\ failed' \in Nat /\ \A t \in Threads : waiting'[t] = NULL
      BY <1>2, <2>1 DEF Typed, TypeOK
    <3> QED BY <1>2, <2>1, <2>2, <3>1, <3>2, <3>3 DEF Typed, TypeOK
  <2>4. managers' = 0
    BY <1>2 DEF WinInv
  <2>5. ~outlived' => Accounted'
    <3> SUFFICES ASSUME ~outlived' PROVE Accounted'
      OBVIOUS
    <3>1. \A o \in Objects : object'[o] = Unused
      BY <1>2
    <3>2. Unused.class = "none"
      BY DEF Unused
    <3>3. DescriptorsOwnedOnce'
      BY <3>1, <3>2 DEF DescriptorsOwnedOnce
    <3>4. Leaked' = {}
      BY <2>2 DEF Leaked
    <3> QED BY <1>2, <3>3, <3>4, FS_EmptySet DEF Accounted
  <2>6. outlived' \in BOOLEAN
    BY <1>2 DEF WinInv
  <2>7. \A t \in Threads : waiting'[t] = NULL
    BY <1>2
  <2> QED BY <2>3, <2>4, <2>5, <2>6, <2>7 DEF WinInv
<1> QED BY <1>1, <1>2 DEF CreateFactory, DestroyFactory

(***************************************************************************)
(* createServer on Windows.                                                 *)
(***************************************************************************)
LEMMA WinCreateServerInv ==
  ASSUME WinInv, NEW t \in Threads, NEW o \in Objects, NEW a \in Ports, WinCreateServer(t, o, a)
  PROVE  WinInv'
<1> DEFINE n == NewFd
           r == [class |-> "acceptor", scheme |-> Scheme(a), m_address |-> a, m_socket |-> n]
<1>1. /\ ~outlived /\ Typed /\ Accounted /\ Free # {} /\ object[o] = Unused
      /\ object' = [object EXCEPT ![o] = r]
      /\ UNCHANGED <<name, waiting, errno, failed, managers, outlived>>
  BY DEF WinInv, WinCreateServer
<1>2. a \in Addresses /\ Scheme(a) \in {"local", "tcp"}
  BY SchemeFacts
<1>3. /\ sock' \in [Fds -> SockType] /\ n \in Fds \ Std
      /\ sock'[n].state = "listening" /\ SameBut(n)
  BY <1>1, SocketSock DEF WinCreateServer
<1>4. /\ object' \in [Objects -> ObjectType]
      /\ object'[o].class = "acceptor" /\ object'[o].m_socket = n
      /\ \A p \in Objects \ {o} : object'[p] = object[p]
  <2> HIDE DEF n
  <2> QED BY <1>1, <1>2, <1>3, RecordType
<1>5. r.m_socket = n /\ r.class = "acceptor"
  OBVIOUS
<1> HIDE DEF r
<1>6. Accounted'
  BY <1>1, <1>3, <1>5, NewObject
<1> HIDE DEF n
<1>7. Typed'
  <2>1. /\ waiting' \in [Threads -> Objects \cup {NULL}] /\ errno' \in [Threads -> Errors] /\ failed' \in Nat
        /\ name' \in [Addresses -> Fds \cup {STALE, NULL}]
    BY <1>1 DEF Typed, TypeOK
  <2>2. \A u \in Threads : waiting'[u] # NULL => object'[waiting'[u]].class = "acceptor"
    BY <1>1, <1>4 DEF Typed, TypeOK
  <2> QED BY <1>1, <1>3, <1>4, <2>1, <2>2, TypedStep
<1> QED BY <1>1, <1>6, <1>7, WhileWinsockRuns

(***************************************************************************)
(* createClient on Windows.                                                 *)
(***************************************************************************)
LEMMA WinConnectInv ==
  ASSUME WinInv, NEW t \in Threads, NEW o \in Objects, NEW a \in Ports, WinConnect(t, o, a)
  PROVE  WinInv'
<1> DEFINE n == NewFd
<1>1. /\ ~outlived /\ Typed /\ Accounted /\ Free # {} /\ object[o] = Unused
      /\ UNCHANGED <<name, waiting, errno, failed, managers, outlived>>
      /\ object' = [object EXCEPT ![o] = [class |-> "line", scheme |-> Scheme(a),
                                          m_address |-> a, m_socket |-> n]]
  BY DEF WinInv, WinConnect
<1>2. a \in Addresses /\ Scheme(a) \in {"local", "tcp"}
  BY SchemeFacts
<1>3. PICK s \in Listeners(a) :
        sock' = [sock EXCEPT ![n] = [state |-> "connected", peer |-> PENDING, backlog |-> <<>>],
                             ![s].backlog = Append(@, n)]
  BY DEF WinConnect
<1>4. s \in Fds /\ sock[s].state # "closed"
  BY <1>3 DEF Listeners
<1>5. sock' \in [Fds -> SockType] /\ sock'[n].state = "connected" /\ SameBut(n)
  BY <1>1, <1>3, <1>4, ConnectSock
<1>6. waiting' \in [Threads -> Objects \cup {NULL}] /\ \A u \in Threads : waiting'[u] \in {NULL, waiting[u]}
  BY <1>1 DEF Typed, TypeOK
<1>7. Typed' /\ Accounted'
  BY <1>1, <1>2, <1>5, <1>6, NewLine
<1> QED BY <1>1, <1>7, WhileWinsockRuns

(***************************************************************************)
(* The constructors that fail on Windows.                                   *)
(***************************************************************************)
LEMMA WinConstructorFailsInv ==
  ASSUME WinInv, NEW t \in Threads, WinBindFails(t) \/ \E a \in Ports : WinConnectFails(t, a)
  PROVE  WinInv'
<1>1. /\ ~outlived /\ Typed /\ Accounted /\ Free # {} /\ sock' = [sock EXCEPT ![NewFd] = Fresh]
      /\ failed' = failed + 1 /\ UNCHANGED <<name, object, waiting, managers, outlived>>
  BY DEF WinInv, WinBindFails, WinConnectFails
<1>2. errno' \in [Threads -> Errors]
  <2>1. "other" \in Errors /\ "ETIMEDOUT" \in Errors
    BY DEF Errors
  <2>2. SetErrno(t, "other") \/ SetErrno(t, "ETIMEDOUT")
    BY DEF WinBindFails, WinConnectFails
  <2> QED BY <1>1, <2>1, <2>2, ErrnoType
<1>3. Typed' /\ Accounted'
  BY <1>1, <1>2, SocketLeaks
<1> QED BY <1>1, <1>3, WhileWinsockRuns

(***************************************************************************)
(* The calls that fail and leave an error behind, and read and write.       *)
(***************************************************************************)
LEMMA WinErrorInv ==
  ASSUME WinInv, NEW t \in Threads, NEW e \in Errors, SetErrno(t, e),
         UNCHANGED <<sock, name, object, waiting, failed, managers, outlived>>
  PROVE  WinInv'
<1>1. errno' \in [Threads -> Errors]
  BY ErrnoType DEF WinInv
<1>2. Typed' /\ (Accounted => Accounted')
  BY <1>1, OnlyErrno DEF WinInv
<1> QED BY <1>2, WithoutWinsock

(***************************************************************************)
(* waitConnection on Windows.                                               *)
(***************************************************************************)
LEMMA WinWaitConnectionInv ==
  ASSUME WinInv, NEW t \in Threads, NEW o \in Objects, WinWaitConnection(t, o)
  PROVE  WinInv'
<1>1. Typed /\ UNCHANGED <<managers, outlived>>
  BY DEF WinInv, WinWaitConnection
<1>2. ~outlived
  BY DEF WinWaitConnection, CallWaitConnection, Dead, Accept, WinInv
<1>3. Accounted
  BY <1>2 DEF WinInv
<1>4. Typed' /\ Accounted'
  BY <1>1, <1>3, CallWaitConnectionKeeps, AcceptKeeps DEF WinWaitConnection
<1> QED BY <1>1, <1>2, <1>4, WhileWinsockRuns

(***************************************************************************)
(* waitConnection fails on Windows.                                         *)
(***************************************************************************)
LEMMA WinAcceptFailsInv ==
  ASSUME WinInv, NEW t \in Threads, WinAcceptFails(t)
  PROVE  WinInv'
<1>1. Typed /\ UNCHANGED <<managers, outlived>> /\ "other" \in Errors
  BY DEF WinInv, WinAcceptFails, Errors
<1>2. CASE AcceptFails(t)
  <2>1. ~outlived
    BY <1>2 DEF AcceptFails, WinInv
  <2>2. Typed' /\ Accounted'
    BY <1>1, <1>2, <2>1, AcceptFailsKeeps DEF WinInv
  <2> QED BY <1>1, <2>1, <2>2, WhileWinsockRuns
<1>3. CASE SetErrno(t, "other") /\ UNCHANGED <<sock, name, object, waiting, failed>>
  BY <1>1, <1>3, WinErrorInv
<1> QED BY <1>2, <1>3 DEF WinAcceptFails

(***************************************************************************)
(* Lines and acceptors are destroyed, also when their handles are gone.     *)
(***************************************************************************)
LEMMA WinDestroyInv ==
  ASSUME WinInv, NEW t \in Threads, NEW o \in Objects,
         WinDestroyLine(t, o) \/ WinDestroyAcceptor(t, o)
  PROVE  WinInv'
<1>1. /\ Typed /\ o \in Live /\ name \in [Addresses -> Fds \cup {STALE, NULL}]
      /\ sock' = CloseIn(sock, object[o].m_socket) /\ object' = [object EXCEPT ![o] = Unused]
      /\ UNCHANGED <<waiting, errno, failed, managers, outlived>>
  BY DEF WinInv, WinDestroyLine, WinDestroyAcceptor, DestroyLine, DestroyAcceptor, Live, Typed, TypeOK
<1>2. \A u \in Threads : waiting[u] # o
  <2>1. o # NULL
    BY SocketAssumption
  <2>2. CASE WinDestroyLine(t, o)
    BY <1>1, <2>1, <2>2 DEF WinDestroyLine, DestroyLine, Typed
  <2>3. CASE WinDestroyAcceptor(t, o)
    BY <2>3 DEF WinDestroyAcceptor, DestroyAcceptor
  <2> QED BY <2>2, <2>3
<1>3. name' \in [Addresses -> Fds \cup {STALE, NULL}]
  <2>1. CASE WinDestroyLine(t, o)
    BY <1>1, <2>1, NameFacts DEF WinDestroyLine, DestroyLine
  <2>2. CASE WinDestroyAcceptor(t, o)
    <3>1. ReleaseIn(name, object[o].m_socket) \in [Addresses -> Fds \cup {STALE, NULL}]
      BY <1>1, NameFacts
    <3> QED BY <2>2, <3>1, NameFacts DEF WinDestroyAcceptor, DestroyAcceptor
  <2> QED BY <2>1, <2>2
<1>4. Typed' /\ (Accounted => Accounted')
  BY <1>1, <1>2, <1>3, ObjectDestroyed
<1> QED BY <1>1, <1>4, WithoutWinsock

(***************************************************************************)
(* The errors that a read leaves.                                           *)
(***************************************************************************)
LEMMA WinReadOrWriteInv ==
  ASSUME WinInv, NEW t \in Threads, NEW o \in Objects, NEW n \in 0..1, WinReadOrWrite(t, o, n)
  PROVE  WinInv'
<1>1. PICK r \in WinKernelRead(t, o, n) : SetErrno(t, r[2])
  BY DEF WinReadOrWrite
<1>2. errno[t] \in Errors
  BY DEF WinInv, Typed, TypeOK
<1>3. r[2] \in Errors
  BY <1>1, <1>2 DEF WinKernelRead, Errors
<1> QED BY <1>1, <1>3, WinErrorInv DEF WinReadOrWrite

(***************************************************************************)
(* The invariant of WinSockets holds in every reachable state.              *)
(***************************************************************************)
LEMMA WinSocketInvariant == WinSpec => []WinInv
<1>1. WinInit => WinInv
  <2> SUFFICES ASSUME WinInit PROVE WinInv
    OBVIOUS
  <2>1. Typed /\ Accounted
    BY InitInv DEF WinInit, Inv
  <2>2. managers = 0 /\ outlived = FALSE
    BY DEF WinInit
  <2> QED BY <2>1, <2>2 DEF WinInv
<1>2. WinInv /\ [WinNext]_winVars => WinInv'
  <2> SUFFICES ASSUME WinInv, [WinNext]_winVars PROVE WinInv'
    OBVIOUS
  <2>1. CASE UNCHANGED winVars
    <3>1. UNCHANGED <<sock, name, object, waiting, failed, errno, managers, outlived>>
      BY <2>1 DEF winVars, vars
    <3>2. errno' \in [Threads -> Errors]
      BY <3>1 DEF WinInv, Typed, TypeOK
    <3>3. Typed' /\ (Accounted => Accounted')
      BY <3>1, <3>2, OnlyErrno DEF WinInv
    <3> QED BY <3>1, <3>3, WithoutWinsock
  <2>2. CASE CreateFactory \/ DestroyFactory
    BY <2>2, FactoryInv
  <2>3. ASSUME NEW t \in Threads, NEW o \in Objects, NEW a \in Ports,
               WinCreateServer(t, o, a) \/ WinConnect(t, o, a)
        PROVE  WinInv'
    BY <2>3, WinCreateServerInv, WinConnectInv
  <2>4. ASSUME NEW t \in Threads, NEW o \in Objects,
               WinWaitConnection(t, o) \/ WinDestroyLine(t, o) \/ WinDestroyAcceptor(t, o)
        PROVE  WinInv'
    BY <2>4, WinWaitConnectionInv, WinDestroyInv
  <2>5. ASSUME NEW t \in Threads, NEW o \in Objects, NEW n \in 0..1, WinReadOrWrite(t, o, n)
        PROVE  WinInv'
    BY <2>5, WinReadOrWriteInv
  <2>6. ASSUME NEW t \in Threads, NEW a \in Ports, WinConnectFails(t, a) PROVE WinInv'
    BY <2>6, WinConstructorFailsInv
  <2>7. ASSUME NEW t \in Threads, WinBindFails(t) PROVE WinInv'
    BY <2>7, WinConstructorFailsInv
  <2>8. ASSUME NEW t \in Threads, WinListenOrSocketFails(t) PROVE WinInv'
    <3>1. "other" \in Errors
      BY DEF Errors
    <3> QED BY <2>8, <3>1, WinErrorInv DEF WinListenOrSocketFails
  <2>9. ASSUME NEW t \in Threads, WinAcceptFails(t) PROVE WinInv'
    BY <2>9, WinAcceptFailsInv
  <2> QED BY <2>1, <2>2, <2>3, <2>4, <2>5, <2>6, <2>7, <2>8, <2>9 DEF WinNext
<1> QED BY <1>1, <1>2, PTL DEF WinSpec

(***************************************************************************)
(* On Windows every live line and acceptor has an open handle of its own,   *)
(* and only constructors that fail leak one, until an object outlives the   *)
(* last manager (win_socket.cpp:30-33, :46-48, :112-113, :127-129,          *)
(* :139-142, :154-167).                                                     *)
(***************************************************************************)
THEOREM HandlesAreOwnedOrLeaked == WinSpec => []HandlesOwnedOrLeaked
<1>1. WinInv => HandlesOwnedOrLeaked
  BY OpenIsOwnedOrLeaked DEF WinInv, Accounted, HandlesOwnedOrLeaked
<1> QED BY <1>1, WinSocketInvariant, PTL

(***************************************************************************)
(* In every state, read on Windows reports eConnectionLost only when the    *)
(* other end is gone, and eTimeout only when it is there, unless the last   *)
(* error of the thread is an earlier WSAETIMEDOUT (win_socket.cpp:51-72).   *)
(***************************************************************************)
THEOREM WinCodesAreAlwaysTruthful == WinSpec => []WinCodesAreTruthful
<1>1. ASSUME NEW t \in Threads, NEW o \in Lines, "eConnectionLost" \in WinReadCodes(t, o, 1)
      PROVE  Gone(o)
  <2>1. PICK r \in WinKernelRead(t, o, 1) : "eConnectionLost" = WinReadCode(r[1], r[2])
    BY <1>1 DEF WinReadCodes
  <2>2. ~Dead(o, "connected")
    BY <2>1 DEF WinKernelRead, WinReadCode
  <2>3. r[1] = 0 \/ r = <<-1, "ECONNRESET">>
    BY <2>1, <2>2 DEF WinKernelRead, WinReadCode
  <2> QED BY <2>2, <2>3 DEF WinKernelRead
<1>2. ASSUME NEW t \in Threads, NEW o \in Lines, "eTimeout" \in WinReadCodes(t, o, 1), errno[t] # "ETIMEDOUT"
      PROVE  ~Gone(o)
  <2>1. PICK r \in WinKernelRead(t, o, 1) : "eTimeout" = WinReadCode(r[1], r[2])
    BY <1>2 DEF WinReadCodes
  <2>2. ~Dead(o, "connected")
    BY <2>1 DEF WinKernelRead, WinReadCode
  <2>3. r = <<-1, "ETIMEDOUT">>
    BY <1>2, <2>1, <2>2 DEF WinKernelRead, WinReadCode
  <2> QED BY <2>2, <2>3 DEF WinKernelRead, WinTimesOut
<1>3. WinCodesAreTruthful
  BY <1>1, <1>2 DEF WinCodesAreTruthful
<1> QED BY <1>3, PTL
===============================================================================
