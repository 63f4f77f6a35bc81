------------------------------ MODULE WinSockets ------------------------------
(***************************************************************************)
(* tcp:// on Windows, src/src/win32/win_socket.cpp: WinSocket,              *)
(* WinSocketAcceptor and WinSocketFactory, on the sockets, objects and      *)
(* threads of SocketLines; errno is what WSAGetLastError returns.           *)
(*                                                                          *)
(* What differs from POSIX.  The handles belong to Winsock, which every     *)
(* factory starts and ends: with the last factory all handles are closed,   *)
(* whatever lines and acceptors still have them.  SO_REUSEADDR lets several *)
(* acceptors have a port, and a client gets to any of them.  A receive that *)
(* times out leaves WSAETIMEDOUT, and a call that succeeds may or may not   *)
(* reset the last error.  The network between the two ends does not fail.   *)
(* No name is unlinked, so name plays no part.                              *)
(***************************************************************************)
EXTENDS SocketLines

CONSTANT MaxManagers  \* bound: the managers, and so the factories, at one time

VARIABLES managers,   \* the factories that exist
          outlived    \* history: a line or acceptor outlived the last of them

winVars == <<vars, managers, outlived>>

WinTypeOK ==
  /\ TypeOK
  /\ managers \in 0..MaxManagers
  /\ outlived \in BOOLEAN

WinInit == Init /\ managers = 0 /\ outlived = FALSE

\* WinSocketFactory(): WSAStartup.  Bound: once objects are left behind it is not
\* followed what their handles become when Winsock is started again.
CreateFactory ==
  /\ managers < MaxManagers /\ ~outlived
  /\ managers' = managers + 1
  /\ UNCHANGED <<vars, outlived>>

\* Mutant: every factory that goes takes the sockets with it.
DestroyFactoryAll ==
  /\ managers > 0
  /\ managers' = managers - 1
  /\ sock' = [f \in Fds |-> IF f \in Std THEN sock[f] ELSE Closed]
  /\ waiting' = [t \in Threads |-> NULL]
  /\ failed' = 0
  /\ outlived' = (outlived \/ (managers = 1 /\ \E o \in Objects : object[o] # Unused))
  /\ UNCHANGED <<name, object, errno>>

\* ~WinSocketFactory(): WSACleanup, which the last time closes every socket and
\* ends every call that waits.
DestroyFactory ==
  /\ managers > 0
  /\ managers' = managers - 1
  /\ IF managers > 1
       THEN UNCHANGED <<vars, outlived>>
       ELSE /\ sock' = [f \in Fds |-> IF f \in Std THEN sock[f] ELSE Closed]
            /\ waiting' = [t \in Threads |-> NULL]
            /\ failed' = 0
            /\ outlived' = (outlived \/ \E o \in Objects : object[o] # Unused)
            /\ UNCHANGED <<name, object, errno>>

-------------------------------------------------------------------------------
\* Creation.

\* Sockets that listen at an address.
Listeners(a) ==
  {object[o].m_socket : o \in {p \in Objects : object[p].class = "acceptor" /\ object[p].m_address = a}}
    \cap {f \in Fds : sock[f].state = "listening"}

\* A port that is in use is shared.
WinCreateServer(t, o, a) ==
  /\ managers > 0 /\ waiting[t] = NULL
  /\ object[o] = Unused
  /\ Free # {}
  /\ sock' = [sock EXCEPT ![NewFd] = [Closed EXCEPT !.state = "listening"]]
  /\ object' = [object EXCEPT ![o] = [class |-> "acceptor", scheme |-> Scheme(a),
                                      m_address |-> a, m_socket |-> NewFd]]
  /\ UNCHANGED <<name, waiting, errno, failed, managers, outlived>>

\* bind, or setsockopt before it, fails: the exception leaves the socket open.
WinBindFails(t) ==
  /\ managers > 0 /\ waiting[t] = NULL
  /\ Free # {}
  /\ sock' = [sock EXCEPT ![NewFd] = Fresh]
  /\ SetErrno(t, "other")
  /\ failed' = failed + 1
  /\ UNCHANGED <<name, object, waiting, managers, outlived>>

\* listen fails, and the socket is closed; or there was none.
WinListenOrSocketFails(t) ==
  /\ managers > 0 /\ waiting[t] = NULL
  /\ SetErrno(t, "other")
  /\ UNCHANGED <<sock, name, object, waiting, failed, managers, outlived>>

\* WinSocket(address) and connect.
WinConnect(t, o, a) ==
  /\ managers > 0 /\ waiting[t] = NULL
  /\ object[o] = Unused
  /\ Free # {}
  /\ \E s \in Listeners(a) :
       /\ Len(sock[s].backlog) < Backlog
       /\ sock' = [sock EXCEPT ![NewFd] = [state |-> "connected", peer |-> PENDING, backlog |-> <<>>],
                               ![s].backlog = Append(@, NewFd)]
  /\ object' = [object EXCEPT ![o] = [class |-> "line", scheme |-> Scheme(a),
                                      m_address |-> a, m_socket |-> NewFd]]
  /\ UNCHANGED <<name, waiting, errno, failed, managers, outlived>>

\* connect fails: the exception leaves the line allocated and its socket open.
WinConnectFails(t, a) ==
  /\ managers > 0 /\ waiting[t] = NULL
  /\ Free # {}
  /\ \/ Listeners(a) = {} /\ SetErrno(t, "other")
     \/ SetErrno(t, "ETIMEDOUT")
  /\ sock' = [sock EXCEPT ![NewFd] = Fresh]
  /\ failed' = failed + 1
  /\ UNCHANGED <<name, object, waiting, managers, outlived>>

\* A call on a handle that is no such socket any more, or without Winsock.
Dead(o, state) == managers = 0 \/ sock[object[o].m_socket].state # state

\* accept, whatever timeoutInMs says; newsock > 0 makes a line.
WinWaitConnection(t, o) ==
  /\ \/ CallWaitConnection(t, o) /\ ~Dead(o, "listening")
     \/ Accept(t, o)
  /\ UNCHANGED <<managers, outlived>>

\* accept fails: no handle is free, or Winsock has ended.
WinAcceptFails(t) ==
  /\ \/ AcceptFails(t)
     \/ /\ waiting[t] = NULL
        /\ \E o \in Objects : object[o].class = "acceptor" /\ Dead(o, "listening")
        /\ SetErrno(t, "other")
        /\ UNCHANGED <<sock, name, object, waiting, failed>>
  /\ UNCHANGED <<managers, outlived>>

-------------------------------------------------------------------------------
\* Destruction, reads and writes.

\* closesocket, which fails when Winsock has ended.
WinDestroyLine(t, o)     == DestroyLine(t, o) /\ UNCHANGED <<managers, outlived>>
WinDestroyAcceptor(t, o) == DestroyAcceptor(t, o) /\ UNCHANGED <<managers, outlived>>

\* setOption may have set a timeout, of any length, before any call.
WinTimesOut(o, n) == n > 0 /\ ~Gone(o)

\* What recv returns, and the last error after it.
WinKernelRead(t, o, n) ==
  IF Dead(o, "connected") THEN {<<-1, "other">>}
  ELSE {r \in ({1, 0} \X {"none", errno[t]}) \cup {<<-1, "ETIMEDOUT">>, <<-1, "ECONNRESET">>} :
          \/ r[1] = 1               /\ n > 0 /\ Peer(o) # PENDING
          \/ r[1] = 0               /\ (n = 0 \/ Gone(o))
          \/ r = <<-1, "ETIMEDOUT">>  /\ WinTimesOut(o, n)
          \/ r = <<-1, "ECONNRESET">> /\ n > 0 /\ Gone(o)}

\* Mutant: the end of the stream is taken for a timeout.
WinReadCodeEofTimeout(rc, e) ==
  CASE rc > 0 -> "ok"
    [] rc = 0 -> "eTimeout"
    [] rc < 0 -> IF e = "ECONNRESET" THEN "eConnectionLost"
                 ELSE IF e = "ETIMEDOUT" THEN "eTimeout" ELSE "eUnknown"

\* The code for a result of recv; ECONNRESET stands for the three errors that
\* mean a lost connection.
WinReadCode(rc, e) ==
  CASE rc > 0 -> "ok"
    [] rc = 0 -> IF e = "ETIMEDOUT" THEN "eTimeout" ELSE "eConnectionLost"
    [] rc < 0 -> IF e = "ECONNRESET" THEN "eConnectionLost"
                 ELSE IF e = "ETIMEDOUT" THEN "eTimeout" ELSE "eUnknown"

WinReadCodes(t, o, n) == {WinReadCode(r[1], r[2]) : r \in WinKernelRead(t, o, n)}

\* A read leaves the last error behind; a send returns its count or eUnknown and
\* leaves the same errors.
WinReadOrWrite(t, o, n) ==
  /\ waiting[t] = NULL
  /\ object[o].class = "line"
  /\ \E r \in WinKernelRead(t, o, n) : SetErrno(t, r[2])
  /\ UNCHANGED <<sock, name, object, waiting, failed, managers, outlived>>

-------------------------------------------------------------------------------

WinNext ==
  \/ CreateFactory \/ DestroyFactory
  \/ \E t \in Threads :
       \/ \E o \in Objects :
            \/ \E a \in Ports : WinCreateServer(t, o, a) \/ WinConnect(t, o, a)
            \/ WinWaitConnection(t, o) \/ WinDestroyLine(t, o) \/ WinDestroyAcceptor(t, o)
            \/ \E n \in 0..1 : WinReadOrWrite(t, o, n)
       \/ \E a \in Ports : WinConnectFails(t, a)
       \/ WinBindFails(t) \/ WinListenOrSocketFails(t) \/ WinAcceptFails(t)

WinSpec == WinInit /\ [][WinNext]_winVars

-------------------------------------------------------------------------------

(***************************************************************************)
(* Every live line and acceptor has an open handle of its own, of its own   *)
(* kind, and handles leak through a bind, a setsockopt or a connect that    *)
(* fails, one each, and through nothing else: until an object outlives the  *)
(* last manager.  Its handle is then closed under it, and its calls fail    *)
(* (win_socket.cpp:30-33, :46-48, :112-113, :127-129, :139-142, :154-167).  *)
(***************************************************************************)
HandlesOwnedOrLeaked == ~outlived => DescriptorsOwnedOnce /\ LeaksAreFailures

(***************************************************************************)
(* read of at least one byte reports eConnectionLost only when the other    *)
(* end is gone: a timeout, or a handle that is no socket any more, is not   *)
(* taken for it.  It reports eTimeout only when the other end is there,     *)
(* unless the last error of the thread is still the WSAETIMEDOUT of an      *)
(* earlier call: a reader that has timed out once may then take the end of  *)
(* the stream for more timeouts (win_socket.cpp:51-72).                     *)
(***************************************************************************)
WinCodesAreTruthful ==
  \A t \in Threads, o \in Lines :
    /\ "eConnectionLost" \in WinReadCodes(t, o, 1) => Gone(o)
    /\ "eTimeout" \in WinReadCodes(t, o, 1) /\ errno[t] # "ETIMEDOUT" => ~Gone(o)
===============================================================================
