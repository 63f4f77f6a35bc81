------------------------------ MODULE SocketLines ------------------------------
(***************************************************************************)
(* The lines and acceptors on POSIX sockets, src/src/posix/io_socket.cpp:   *)
(* UnixSocket and UnixSocketAcceptor (local://), TcpSocket and              *)
(* TcpSocketAcceptor (tcp://), as IoLineManager::createClient and           *)
(* createServer hand them out (src/src/iolinemanager.cpp:29-43, :54-68),    *)
(* which turn an IoException into nullptr.                                  *)
(*                                                                          *)
(* The kernel is external: a table of descriptors, of which socket and      *)
(* accept return the lowest free one, and the names that listening sockets  *)
(* are bound to.  A path outlives its socket until it is unlinked; a port   *)
(* does not.  What travels over a connection is left out: a read finds      *)
(* data, finds none, or finds the other end gone.  The process ignores      *)
(* SIGPIPE.                                                                 *)
(***************************************************************************)
EXTENDS IoLineManager, Integers, FiniteSets, FiniteSetsExt

CONSTANTS Texts,      \* the addresses that are passed to createClient and createServer
          MaxFd,      \* the highest descriptor the process may have
          Std,        \* descriptors that are open from the start, such as 0
          Objects,    \* bound: the acceptors and lines that exist at one time
          Threads,    \* threads that use them, each with an errno
          NULL,       \* no descriptor, no object, no address
          GONE,       \* the other end of a connection that was closed
          PENDING,    \* the other end of a connection that is not accepted yet
          STALE       \* a path whose socket was closed

ASSUME SocketAssumption ==
  /\ MaxFd \in Nat /\ Std \subseteq 0..MaxFd
  /\ \A text \in Texts : text \in Seq(STRING)
  /\ NULL \notin Nat \cup Objects
  /\ {GONE, PENDING, STALE} \cap Nat = {}

\* Callers put all of "://" behind the scheme, unless the text ends before: three
\* characters are skipped there whatever they are.
ASSUME TextsAssumption ==
  \A text \in Texts :
    Len(text) >= 4 /\ text[2] \in {":", "/"} => SubSeq(text, 2, 4) = <<":", "/", "/">>

Backlog   == 10                       \* listen(m_socket, 10)
Fds       == 0..MaxFd

\* The addresses that get as far as a socket factory, with their scheme.  The
\* other texts give nullptr or std::out_of_range and change nothing.
Addresses == {<<Resolve(text).scheme, Resolve(text).base>> : text \in
                {u \in Texts : Resolve(u).outcome = "factory"}}

Paths == {a \in Addresses : a[1] = "local"}
Ports == {a \in Addresses : a[1] = "tcp"}

VARIABLES sock,     \* the descriptor table
          name,     \* what is bound at each address: a descriptor, STALE or NULL
          object,   \* acceptors and lines: class, scheme, m_address and m_socket
          waiting,  \* per thread: the acceptor it waits on in waitConnection
          errno,    \* per thread
          failed    \* history: constructors that threw with a socket in hand, and
                    \* accepted descriptors that were dropped

vars == <<sock, name, object, waiting, errno, failed>>

Closed == [state |-> "closed", peer |-> NULL, backlog |-> <<>>]
Unused == [class |-> "none", scheme |-> NULL, m_address |-> NULL, m_socket |-> NULL]

Scheme(a) == a[1]

Ends == Fds \cup {GONE, PENDING}     \* the other end of a connection

Errors == {"none", "EAGAIN", "ETIMEDOUT", "ECONNRESET", "other"}

SockType == [state : {"closed", "other", "fresh", "listening", "connected"},
             peer : Ends \cup {NULL}, backlog : Seq(Fds \cup {GONE})]

ObjectType == [class : {"none", "acceptor", "line"}, scheme : {"local", "tcp", NULL},
               m_address : Addresses \cup {NULL}, m_socket : Fds \cup {NULL}]

TypeOK ==
  /\ sock \in [Fds -> SockType]
  /\ name \in [Addresses -> Fds \cup {STALE, NULL}]
  /\ object \in [Objects -> ObjectType]
  /\ waiting \in [Threads -> Objects \cup {NULL}]
  /\ errno \in [Threads -> Errors]
  /\ failed \in Nat

Init ==
  /\ sock = [f \in Fds |-> IF f \in Std THEN [Closed EXCEPT !.state = "other"] ELSE Closed]
  /\ name = [a \in Addresses |-> NULL]
  /\ object = [o \in Objects |-> Unused]
  /\ waiting = [t \in Threads |-> NULL]
  /\ errno = [t \in Threads |-> "none"]
  /\ failed = 0

-------------------------------------------------------------------------------
\* The kernel.

Lines == {o \in Objects : object[o].class = "line"}

Free  == {f \in Fds : sock[f].state = "closed"}
NewFd == Min(Free)

Fresh == [Closed EXCEPT !.state = "fresh"]

\* close(f): its connections lose their other end, also those that wait to be
\* accepted.
CloseIn(table, f) ==
  [g \in Fds |->
     IF g = f THEN Closed
     ELSE [table[g] EXCEPT
             !.peer    = IF @ = f \/ \E i \in DOMAIN table[f].backlog : table[f].backlog[i] = g
                           THEN GONE ELSE @,
             !.backlog = [i \in DOMAIN @ |-> IF @[i] = f THEN GONE ELSE @[i]]]]

\* The names after f is closed: a port is free again, a path leads nowhere.
ReleaseIn(names, f) ==
  [a \in Addresses |-> IF names[a] # f THEN names[a] ELSE IF a \in Paths THEN STALE ELSE NULL]

\* unlink(m_address.c_str()), by the local classes only.
Unlink(names, a) == [b \in Addresses |-> IF b = a /\ a \in Paths THEN NULL ELSE names[b]]

SetErrno(t, e) == errno' = [errno EXCEPT ![t] = e]

-------------------------------------------------------------------------------
\* createServer.

\* Every step of the constructor succeeds.
CreateServer(t, o, a) ==
  /\ waiting[t] = NULL
  /\ object[o] = Unused
  /\ Free # {} /\ name[a] = NULL
  /\ sock' = [sock EXCEPT ![NewFd] = [Closed EXCEPT !.state = "listening"]]
  /\ name' = [name EXCEPT ![a] = NewFd]
  /\ object' = [object EXCEPT ![o] = [class |-> "acceptor", scheme |-> Scheme(a),
                                      m_address |-> a, m_socket |-> NewFd]]
  /\ UNCHANGED <<waiting, errno, failed>>

\* bind finds the name in use: the exception leaves the socket open.
BindFails(t, a) ==
  /\ waiting[t] = NULL
  /\ Free # {} /\ name[a] # NULL
  /\ sock' = [sock EXCEPT ![NewFd] = Fresh]
  /\ SetErrno(t, "other")
  /\ failed' = failed + 1
  /\ UNCHANGED <<name, object, waiting>>

\* Mutant: listen fails and nothing is cleaned up.
ListenFailsDirty(t, a) ==
  /\ waiting[t] = NULL
  /\ Free # {} /\ name[a] = NULL
  /\ SetErrno(t, "other")
  /\ sock' = [sock EXCEPT ![NewFd] = Fresh]
  /\ name' = [name EXCEPT ![a] = NewFd]
  /\ UNCHANGED <<object, waiting, failed>>

\* listen fails: the socket is closed and the path unlinked.  Only errno shows.
ListenFails(t, a) ==
  /\ waiting[t] = NULL
  /\ Free # {} /\ name[a] = NULL
  /\ SetErrno(t, "other")
  /\ UNCHANGED <<sock, name, object, waiting, failed>>

\* socket() has no descriptor left, for a client or a server.
SocketFails(t) ==
  /\ waiting[t] = NULL
  /\ Free = {}
  /\ SetErrno(t, "other")
  /\ UNCHANGED <<sock, name, object, waiting, failed>>

\* close(m_socket); unlink(m_address.c_str());
DestroyAcceptor(t, o) ==
  /\ waiting[t] = NULL
  /\ object[o].class = "acceptor"
  /\ \A u \in Threads : waiting[u] # o
  /\ sock' = CloseIn(sock, object[o].m_socket)
  /\ name' = Unlink(ReleaseIn(name, object[o].m_socket), object[o].m_address)
  /\ object' = [object EXCEPT ![o] = Unused]
  /\ UNCHANGED <<waiting, errno, failed>>

-------------------------------------------------------------------------------
\* createClient and waitConnection.

\* connect is done when the connection is in the listener's backlog.
CreateClient(t, o, a) ==
  /\ waiting[t] = NULL
  /\ object[o] = Unused
  /\ Free # {} /\ name[a] \in Fds
  /\ Len(sock[name[a]].backlog) < Backlog
  /\ sock' = [sock EXCEPT ![NewFd] = [state |-> "connected", peer |-> PENDING, backlog |-> <<>>],
                          ![name[a]].backlog = Append(@, NewFd)]
  /\ object' = [object EXCEPT ![o] = [class |-> "line", scheme |-> Scheme(a),
                                      m_address |-> a, m_socket |-> NewFd]]
  /\ UNCHANGED <<name, waiting, errno, failed>>

\* connect fails: nobody listens, or a TCP host does not answer.  The
\* exception leaves the line allocated and its socket open.
ConnectFails(t, a) ==
  /\ waiting[t] = NULL
  /\ Free # {}
  /\ \/ name[a] \notin Fds /\ SetErrno(t, "other")
     \/ a \in Ports /\ SetErrno(t, "ETIMEDOUT")
  /\ sock' = [sock EXCEPT ![NewFd] = Fresh]
  /\ failed' = failed + 1
  /\ UNCHANGED <<name, object, waiting>>

\* accept blocks, whatever timeoutInMs says.
CallWaitConnection(t, o) ==
  /\ waiting[t] = NULL
  /\ object[o].class = "acceptor"
  /\ waiting' = [waiting EXCEPT ![t] = o]
  /\ UNCHANGED <<sock, name, object, errno, failed>>

\* Mutant: the new line gets the descriptor of the acceptor.
AcceptListener(t, o) ==
  LET s == object[waiting[t]].m_socket
  IN  /\ waiting[t] # NULL
      /\ sock[s].backlog # <<>> /\ Free # {} /\ object[o] = Unused
      /\ sock' = [sock EXCEPT ![s].backlog = Tail(@)]
      /\ object' = [object EXCEPT ![o] = [class |-> "line", m_address |-> NULL,
                                          scheme |-> object[waiting[t]].scheme, m_socket |-> s]]
      /\ waiting' = [waiting EXCEPT ![t] = NULL]
      /\ UNCHANGED <<name, errno, failed>>

\* accept returns the oldest connection, and newsock > 0 makes it a line.  A
\* newsock of 0 is dropped.
Accept(t, o) ==
  LET s == object[waiting[t]].m_socket
  IN  /\ waiting[t] # NULL
      /\ sock[s].backlog # <<>> /\ Free # {}
      /\ LET c     == Head(sock[s].backlog)
             table == [sock EXCEPT ![s].backlog = Tail(@),
                                   ![NewFd] = [state |-> "connected", peer |-> c, backlog |-> <<>>]]
         IN  sock' = IF c = GONE THEN table ELSE [table EXCEPT ![c].peer = NewFd]
      /\ \/ /\ NewFd > 0 /\ object[o] = Unused
            /\ object' = [object EXCEPT ![o] = [class |-> "line", m_address |-> NULL,
                                                scheme |-> object[waiting[t]].scheme,
                                                m_socket |-> NewFd]]
            /\ UNCHANGED failed
         \/ NewFd = 0 /\ failed' = failed + 1 /\ UNCHANGED object
      /\ waiting' = [waiting EXCEPT ![t] = NULL]
      /\ UNCHANGED <<name, errno>>

\* accept finds no free descriptor: nullptr.
AcceptFails(t) ==
  /\ waiting[t] # NULL /\ Free = {}
  /\ waiting' = [waiting EXCEPT ![t] = NULL]
  /\ SetErrno(t, "other")
  /\ UNCHANGED <<sock, name, object, failed>>

\* Mutant: the destructor does not close the socket.
DestroyLineOpen(t, o) ==
  /\ waiting[t] = NULL
  /\ object[o].class = "line"
  /\ name' = Unlink(name, object[o].m_address)
  /\ object' = [object EXCEPT ![o] = Unused]
  /\ UNCHANGED <<sock, waiting, errno, failed>>

\* ~UnixSocket and ~TcpSocket.  A local client line has the server's address,
\* and unlinks it; an accepted line has none.
DestroyLine(t, o) ==
  /\ waiting[t] = NULL
  /\ object[o].class = "line"
  /\ sock' = CloseIn(sock, object[o].m_socket)
  /\ name' = Unlink(name, object[o].m_address)
  /\ object' = [object EXCEPT ![o] = Unused]
  /\ UNCHANGED <<waiting, errno, failed>>

-------------------------------------------------------------------------------
\* read and write, of nothing or of a byte.

Peer(o) == sock[object[o].m_socket].peer
Gone(o) == Peer(o) = GONE

\* setOption may be called before any read or write and set either timeout, to
\* any value: whenever a call would wait for the other end it may time out.
ReceiveTimesOut(o, n) == n > 0 /\ ~Gone(o)
SendTimesOut(o, n)    == n > 0 /\ ~Gone(o)

\* What the system calls return: a result, and errno when it is negative.
Outcome == {<<1, "kept">>, <<0, "kept">>, <<-1, "EAGAIN">>, <<-1, "ECONNRESET">>,
            <<-1, "ETIMEDOUT">>, <<-1, "other">>}

KernelRead(o, n) ==
  {r \in Outcome :
     \/ r[1] = 1            /\ n > 0 /\ Peer(o) # PENDING
     \/ r[1] = 0            /\ (n = 0 \/ Gone(o))
     \/ r[2] = "EAGAIN"     /\ ReceiveTimesOut(o, n)
     \/ r[2] = "ECONNRESET" /\ n > 0 /\ Gone(o)
     \/ r[2] = "ETIMEDOUT"  /\ n > 0 /\ Gone(o) /\ object[o].scheme = "tcp"}

\* "other" is EPIPE.
KernelWrite(o, n) ==
  {r \in Outcome :
     \/ r[1] = 1            /\ n > 0 /\ (~Gone(o) \/ object[o].scheme = "tcp")
     \/ r[1] = 0            /\ n = 0
     \/ r[2] = "EAGAIN"     /\ SendTimesOut(o, n)
     \/ r[2] = "ECONNRESET" /\ n > 0 /\ Gone(o)
     \/ r[2] = "ETIMEDOUT"  /\ n > 0 /\ Gone(o) /\ object[o].scheme = "tcp"
     \/ r[2] = "other"      /\ n > 0 /\ Gone(o)}

Errno(t, r) == IF r[1] < 0 THEN r[2] ELSE errno[t]

\* Mutant: the end of the stream is taken for a timeout.
ReadCodeEofTimeout(rc, e) ==
  CASE rc > 0 -> "ok"
    [] rc = 0 -> "eTimeout"
    [] rc < 0 -> IF e = "ECONNRESET" THEN "eConnectionLost"
                 ELSE IF e = "EAGAIN" THEN "eTimeout" ELSE "eUnknown"

\* The code for a result of ::read.  At the end of the stream errno is what an
\* earlier call of the thread left.
ReadCode(rc, e) ==
  CASE rc > 0 -> "ok"
    [] rc = 0 -> IF e = "ETIMEDOUT" THEN "eTimeout" ELSE "eConnectionLost"
    [] rc < 0 -> IF e = "ECONNRESET" THEN "eConnectionLost"
                 ELSE IF e = "EAGAIN" THEN "eTimeout" ELSE "eUnknown"

\* The code for a result of ::write.
WriteCode(scheme, rc, e) ==
  CASE rc > 0  -> "ok"
    [] rc <= 0 -> IF scheme = "local" /\ e = "ECONNRESET" THEN "eConnectionLost" ELSE "eUnknown"

\* The codes that a read or write of n bytes may return to the thread now.
ReadCodes(t, o, n)  == {ReadCode(r[1], Errno(t, r)) : r \in KernelRead(o, n)}
WriteCodes(t, o, n) == {WriteCode(object[o].scheme, r[1], Errno(t, r)) : r \in KernelWrite(o, n)}

\* What a read or write leaves behind is errno.
ReadOrWrite(t, o, n) ==
  /\ waiting[t] = NULL
  /\ object[o].class = "line"
  /\ \E r \in KernelRead(o, n) \cup KernelWrite(o, n) : SetErrno(t, Errno(t, r))
  /\ UNCHANGED <<sock, name, object, waiting, failed>>

-------------------------------------------------------------------------------

Next ==
  \E t \in Threads :
    \/ \E o \in Objects :
         \/ \E a \in Paths \cup Ports : CreateServer(t, o, a) \/ CreateClient(t, o, a)
         \/ DestroyAcceptor(t, o) \/ CallWaitConnection(t, o) \/ Accept(t, o) \/ DestroyLine(t, o)
         \/ \E n \in 0..1 : ReadOrWrite(t, o, n)
    \/ \E a \in Paths \cup Ports : BindFails(t, a) \/ ListenFails(t, a) \/ ConnectFails(t, a)
    \/ SocketFails(t) \/ AcceptFails(t)

Spec == Init /\ [][Next]_vars

-------------------------------------------------------------------------------

(***************************************************************************)
(* Every live line and acceptor has an open descriptor of its own, of its   *)
(* own kind, although descriptors are closed, leaked and handed out again:  *)
(* none is closed twice and none is used after another object got its       *)
(* number (io_socket.cpp:30-34, :140-144, :195-198, :315-318).              *)
(***************************************************************************)
DescriptorsOwnedOnce ==
  /\ \A o, p \in Objects :
       object[o].class # "none" /\ object[o].m_socket = object[p].m_socket => o = p
  /\ \A o \in Objects :
       /\ object[o].class = "acceptor" => sock[object[o].m_socket].state = "listening"
       /\ object[o].class = "line" => sock[object[o].m_socket].state = "connected"

(***************************************************************************)
(* Descriptors leak through three paths only, one each: a bind or a connect *)
(* that fails (io_socket.cpp:128-129, :303-305, :44-46, :211-212 with       *)
(* :169-172, :343-346), and an accept that returns 0 (:151, :325).          *)
(* Everything else is closed by its owner.                                  *)
(***************************************************************************)
LeaksAreFailures ==
  Cardinality({f \in Fds \ Std : sock[f].state # "closed"})
    = failed + Cardinality({o \in Objects : object[o].class # "none"})

(***************************************************************************)
(* A name that leads to a socket leads to a live acceptor of that address,  *)
(* never to a descriptor that was closed and handed out again; and as long  *)
(* as a tcp:// acceptor lives, its port leads to it, whatever its clients   *)
(* and other servers do and whichever constructors fail                     *)
(* (io_socket.cpp:127-143, :195-198, :280-318).                             *)
(***************************************************************************)
NamesLeadToAcceptors ==
  LET acceptors == {o \in Objects : object[o].class = "acceptor"}
  IN  /\ \A a \in Addresses :
           name[a] \in Fds => \E o \in acceptors : object[o].m_address = a
                                                  /\ object[o].m_socket = name[a]
      /\ \A o \in acceptors :
           object[o].m_address \in Ports => name[object[o].m_address] = object[o].m_socket

(***************************************************************************)
(* read of at least one byte, and write, report eConnectionLost only when   *)
(* the other end is gone, and read reports eTimeout only when it is there,  *)
(* so that a reader that retries after eTimeout does not spin on a dead     *)
(* connection: unless an earlier call of the thread, such as a connect that *)
(* failed, has left errno at ETIMEDOUT, which read looks at when ::read     *)
(* returned 0 (io_socket.cpp:49-79, :216-242).                              *)
(***************************************************************************)
CodesAreTruthful ==
  \A t \in Threads, o \in Lines :
    /\ "eConnectionLost" \in ReadCodes(t, o, 1) \cup WriteCodes(t, o, 1) => Gone(o)
    /\ "eTimeout" \in ReadCodes(t, o, 1) /\ errno[t] # "ETIMEDOUT" => ~Gone(o)

(***************************************************************************)
(* A line or acceptor is made at the rest of a text that a caller passed,   *)
(* scheme and "://" taken off and nothing else, and by the class of that    *)
(* scheme, also when the rest has delimiters of its own, as paths and       *)
(* ports do: two ends meet exactly when their texts agree                   *)
(* (iolinemanager.cpp:22-45, :47-70).                                       *)
(***************************************************************************)
AddressIsRest ==
  \A o \in Objects :
    object[o].m_address # NULL =>
      /\ object[o].m_address[1] = object[o].scheme
      /\ <<object[o].scheme, ":", "/", "/">> \o object[o].m_address[2] \in Texts
===============================================================================
