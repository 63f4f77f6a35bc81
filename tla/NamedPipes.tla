------------------------------ MODULE NamedPipes ------------------------------
(***************************************************************************)
(* local:// on Windows, src/src/win32/pipes.cpp: NamedPipeLine and          *)
(* NamedPipeAcceptor.  A client opens the acceptor's pipe and reads from it *)
(* the name of another pipe, made for it alone, which becomes its line; the *)
(* acceptor tells the name, hangs up and waits on that other pipe.          *)
(*                                                                          *)
(* Named pipes are external.  An instance is "listening" until a client     *)
(* opens it, "connected" until the client closes its end, then "closing";   *)
(* DisconnectNamedPipe makes it "disconnected", and only ConnectNamedPipe   *)
(* makes it "listening" again.  The handles are made without                *)
(* FILE_FLAG_OVERLAPPED, so ConnectNamedPipe never returns ERROR_IO_PENDING *)
(* and waits without a limit, whatever timeoutInMs says.  One that is       *)
(* asleep succeeds when a client opens the pipe, even if the client dies    *)
(* before the server looks; one that begins when the client is gone fails.  *)
(* Clients are processes of their own and may die anywhere.                 *)
(*                                                                          *)
(* A call that throws before it has changed anything is not a step: a       *)
(* server or a client whose name is taken or busy gets nullptr.             *)
(***************************************************************************)
EXTENDS Integers, Sequences, FiniteSets, FiniteSetsExt

CONSTANTS Addresses,   \* texts after local://, as sequences of characters
          Acceptors,   \* bound: the acceptors that exist at one time
          Threads,     \* server threads; each keeps one line at a time
          Clients,     \* client processes; each keeps one line at a time
          Garbage,     \* what m_counter, which nobody initialises, may start from
          MaxCounter,  \* bound: waitConnection stops being called there
          MaxPipes,    \* bound: open instances, those that leaked included
          NULL

ASSUME PipeAssumption ==
  /\ MaxCounter \in Nat /\ MaxPipes \in Nat /\ Garbage \subseteq 0..MaxCounter
  /\ NULL \notin Acceptors \cup Clients \cup 1..MaxPipes
  /\ \A a \in Addresses : Len(a) \in Nat /\ a = [i \in 1..Len(a) |-> a[i]]

VARIABLES pipe,      \* the instances
          acceptor,  \* NamedPipeAcceptor: m_address, m_pipe and m_counter
          thread,    \* server threads: in waitConnection with m_waitingPipe, perhaps
                     \* asleep in ConnectNamedPipe, or with the line on it
          client,    \* clients: in the constructor of NamedPipeLine, or with the line
          dropped,   \* history: pipes of server lines that were destroyed
          odd        \* history: "crash", and "clash" when names that are the same
                     \* got in each other's way

vars == <<pipe, acceptor, thread, client, dropped, odd>>

Pipes == 1..MaxPipes

\* to_string(n)
Digits[n \in Nat] == IF n < 10 THEN <<n>> ELSE Append(Digits[n \div 10], n % 10)

Names == Addresses \cup {a \o Digits[n] : a \in Addresses, n \in 0..MaxCounter}

NoPipe     == [mode |-> "none", name |-> <<>>, owner |-> NULL, state |-> "none", client |-> NULL, data |-> <<>>]
NoAcceptor == [m_address |-> NULL, m_pipe |-> NULL, m_counter |-> 0]
Idle       == [at |-> "idle", wait |-> "none", acceptor |-> NULL, name |-> <<>>, m_waitingPipe |-> NULL]
Outside    == [at |-> "idle", name |-> <<>>, pipe |-> NULL]

TypeOK ==
  /\ pipe \in [Pipes -> [mode : {"none", "message", "byte"}, name : Names \cup {<<>>},
                         owner : Acceptors \cup {NULL},
                         state : {"none", "listening", "connected", "closing", "disconnected"},
                         client : Clients \cup {NULL}, data : Seq(Names)]]
  /\ acceptor \in [Acceptors -> [m_address : Addresses \cup {NULL}, m_pipe : Pipes \cup {NULL},
                                 m_counter : 0..MaxCounter]]
  /\ thread \in [Threads -> [at : {"idle", "connect", "flush", "accept", "line"}, wait : {"none", "asleep"},
                             acceptor : Acceptors \cup {NULL}, name : Names \cup {<<>>},
                             m_waitingPipe : Pipes \cup {NULL}]]
  /\ client \in [Clients -> {Outside}
                   \cup [at : {"opened"}, name : {<<>>}, pipe : Pipes]
                   \cup [at : {"told"}, name : Names, pipe : {NULL}]
                   \cup [at : {"line"}, name : Names, pipe : Pipes]]
  /\ dropped \subseteq Pipes
  /\ odd \subseteq {"crash", "clash"}

Init ==
  /\ pipe = [p \in Pipes |-> NoPipe]
  /\ acceptor = [s \in Acceptors |-> NoAcceptor]
  /\ thread = [t \in Threads |-> Idle]
  /\ client = [c \in Clients |-> Outside]
  /\ dropped = {}
  /\ odd = {}

-------------------------------------------------------------------------------
\* Windows.

Open    == {p \in Pipes : pipe[p].mode # "none"}
Free    == Pipes \ Open
NewPipe == Min(Free)

\* CreateNamedPipe: the instances of a name have the same type.
MayCreate(n, mode) == \A p \in Open : pipe[p].name = n => pipe[p].mode = mode

Created(n, mode, s) == [NoPipe EXCEPT !.mode = mode, !.name = n, !.owner = s, !.state = "listening"]

\* CloseHandle at the server's end.  INVALID_HANDLE_VALUE is NULL.
CloseIn(pipes, h) == [p \in Pipes |-> IF p = h THEN NoPipe ELSE pipes[p]]

\* CreateFile: the instances that a client may be connected to.
Listening(n) == {p \in Open : pipe[p].name = n /\ pipe[p].state = "listening"}

Connected(p, c) == [pipe[p] EXCEPT !.state = "connected", !.client = c]

\* CloseHandle at the client's end, of one pipe or of all at the end of the process.
HangUp(c, ps) ==
  [p \in Pipes |-> IF p \in ps /\ pipe[p].client = c
                     THEN [pipe[p] EXCEPT !.state = "closing", !.client = NULL, !.data = <<>>]
                     ELSE pipe[p]]

-------------------------------------------------------------------------------
\* The server.

\* The constructor of NamedPipeAcceptor.  A second one of an address is not
\* refused: PIPE_UNLIMITED_INSTANCES.
CreateServer(s, a) ==
  /\ acceptor[s] = NoAcceptor
  /\ Free # {} /\ MayCreate(a, "message")
  /\ pipe' = [pipe EXCEPT ![NewPipe] = Created(a, "message", s)]
  /\ \E n \in Garbage :
       acceptor' = [acceptor EXCEPT ![s] = [m_address |-> a, m_pipe |-> NewPipe,
                                            m_counter |-> n]]
  /\ UNCHANGED <<thread, client, dropped, odd>>

Waiting(s) == {t \in Threads : thread[t].acceptor = s /\ thread[t].at # "line"}

DestroyAcceptor(s) ==
  /\ acceptor[s] # NoAcceptor
  /\ Waiting(s) = {}
  /\ pipe' = CloseIn(pipe, acceptor[s].m_pipe)
  /\ acceptor' = [acceptor EXCEPT ![s] = NoAcceptor]
  /\ UNCHANGED <<thread, client, dropped, odd>>

\* waitConnection up to its first connectPipe.  Nobody looks whether
\* CreateNamedPipe succeeded.  m_waitingPipe is a member, so an acceptor serves
\* one thread at a time.
CallWaitConnection(t, s) ==
  LET n  == acceptor[s].m_address \o Digits[acceptor[s].m_counter]
      ok == MayCreate(n, "byte")
  IN  /\ thread[t] = Idle
      /\ acceptor[s] # NoAcceptor /\ Waiting(s) = {}
      /\ Free # {} /\ acceptor[s].m_counter < MaxCounter
      /\ pipe' = IF ok THEN [pipe EXCEPT ![NewPipe] = Created(n, "byte", s)] ELSE pipe
      /\ acceptor' = [acceptor EXCEPT ![s].m_counter = @ + 1]
      /\ thread' = [thread EXCEPT ![t] = [at |-> "connect", wait |-> "none", acceptor |-> s, name |-> n,
                                          m_waitingPipe |-> IF ok THEN NewPipe ELSE NULL]]
      /\ odd' = odd \cup {"clash" : p \in {q \in Open : pipe[q].name = n /\ pipe[q].owner # s}}
      /\ UNCHANGED <<client, dropped>>

Rendezvous(t) == acceptor[thread[t].acceptor].m_pipe

\* ConnectNamedPipe on m_pipe finds nobody and sleeps; after an earlier
\* DisconnectNamedPipe the pipe listens again.
Listen(t) ==
  /\ thread[t].at = "connect" /\ thread[t].wait = "none"
  /\ pipe[Rendezvous(t)].state \in {"listening", "disconnected"}
  /\ pipe' = [pipe EXCEPT ![Rendezvous(t)].state = "listening"]
  /\ thread' = [thread EXCEPT ![t].wait = "asleep"]
  /\ UNCHANGED <<acceptor, client, dropped, odd>>

\* A client is there, ERROR_PIPE_CONNECTED included, or was: WriteFile of the name,
\* which fails when the client has died; nobody looks.
TellName(t) ==
  /\ thread[t].at = "connect"
  /\ \/ /\ pipe[Rendezvous(t)].state = "connected"
        /\ pipe' = [pipe EXCEPT ![Rendezvous(t)].data = Append(@, thread[t].name)]
     \/ /\ pipe[Rendezvous(t)].state = "closing" /\ thread[t].wait = "asleep"
        /\ UNCHANGED pipe
  /\ thread' = [thread EXCEPT ![t].at = "flush", ![t].wait = "none"]
  /\ UNCHANGED <<acceptor, client, dropped, odd>>

\* connectPipe(h) fails: CloseHandle(m_waitingPipe) and nullptr.
GiveUp(t) ==
  /\ pipe' = CloseIn(pipe, thread[t].m_waitingPipe)
  /\ thread' = [thread EXCEPT ![t] = Idle]
  /\ UNCHANGED <<acceptor, client, dropped, odd>>

\* Mutant: m_waitingPipe is not closed.
ClientGoneLeaks(t) ==
  /\ thread[t].at = "connect" /\ thread[t].wait = "none"
  /\ pipe[Rendezvous(t)].state = "closing"
  /\ thread' = [thread EXCEPT ![t] = Idle]
  /\ UNCHANGED <<pipe, acceptor, client, dropped, odd>>

\* The client had come and gone before, ERROR_NO_DATA.  m_pipe is not disconnected.
ClientGone(t) ==
  /\ thread[t].at = "connect" /\ thread[t].wait = "none"
  /\ pipe[Rendezvous(t)].state = "closing"
  /\ GiveUp(t)

\* Mutant: no FlushFileBuffers, the name is lost when the client is slow.
DisconnectUnflushed(t) ==
  /\ thread[t].at = "flush"
  /\ pipe' = [pipe EXCEPT ![Rendezvous(t)] = [@ EXCEPT !.state = "disconnected", !.client = NULL, !.data = <<>>]]
  /\ thread' = [thread EXCEPT ![t].at = "accept"]
  /\ UNCHANGED <<acceptor, client, dropped, odd>>

\* Mutant: no DisconnectNamedPipe.
DisconnectForgotten(t) ==
  /\ thread[t].at = "flush"
  /\ pipe[Rendezvous(t)].state = "closing"
  /\ thread' = [thread EXCEPT ![t].at = "accept"]
  /\ UNCHANGED <<pipe, acceptor, client, dropped, odd>>

\* FlushFileBuffers returns when the client has read or is gone;
\* DisconnectNamedPipe; connectPipe(m_waitingPipe) begins.
Disconnect(t) ==
  /\ thread[t].at = "flush"
  /\ pipe[Rendezvous(t)].state = "connected" => pipe[Rendezvous(t)].data = <<>>
  /\ pipe' = [pipe EXCEPT ![Rendezvous(t)] = [@ EXCEPT !.state = "disconnected", !.client = NULL, !.data = <<>>]]
  /\ thread' = [thread EXCEPT ![t].at = "accept"]
  /\ UNCHANGED <<acceptor, client, dropped, odd>>

\* ConnectNamedPipe on m_waitingPipe finds nobody and sleeps.
ListenForLine(t) ==
  /\ thread[t].at = "accept" /\ thread[t].wait = "none"
  /\ thread[t].m_waitingPipe # NULL /\ pipe[thread[t].m_waitingPipe].state = "listening"
  /\ thread' = [thread EXCEPT ![t].wait = "asleep"]
  /\ UNCHANGED <<pipe, acceptor, client, dropped, odd>>

\* Mutant: the second connectPipe is left out.
AcceptUnconnected(t) ==
  /\ thread[t].at = "accept"
  /\ thread' = [thread EXCEPT ![t].at = "line", ![t].wait = "none"]
  /\ UNCHANGED <<pipe, acceptor, client, dropped, odd>>

\* The client has opened the new pipe: new NamedPipeLine(m_waitingPipe), which
\* is the member as it is now.  A client that was gone before, or no pipe: nullptr.
Accept(t) ==
  /\ thread[t].at = "accept"
  /\ \/ /\ thread[t].m_waitingPipe # NULL
        /\ \/ pipe[thread[t].m_waitingPipe].state = "connected"
           \/ pipe[thread[t].m_waitingPipe].state = "closing" /\ thread[t].wait = "asleep"
        /\ thread' = [thread EXCEPT ![t].at = "line", ![t].wait = "none"]
        /\ UNCHANGED <<pipe, acceptor, client, dropped, odd>>
     \/ /\ thread[t].wait = "none"
        /\ thread[t].m_waitingPipe # NULL => pipe[thread[t].m_waitingPipe].state \in {"none", "closing"}
        /\ GiveUp(t)

\* ~NamedPipeLine at the server: the handle stays open.
DropServerLine(t) ==
  /\ thread[t].at = "line"
  /\ thread' = [thread EXCEPT ![t] = Idle]
  /\ dropped' = dropped \cup {thread[t].m_waitingPipe}
  /\ UNCHANGED <<pipe, acceptor, client, odd>>

-------------------------------------------------------------------------------
\* A client.

\* CreateFile on the acceptor's pipe and SetNamedPipeHandleState, which fails
\* on a pipe that is somebody's line; the exception leaves the pipe open.
OpenServerPipe(c, a) ==
  /\ client[c] = Outside
  /\ \E p \in Listening(a) :
       /\ pipe' = [pipe EXCEPT ![p] = Connected(p, c)]
       /\ \/ /\ pipe[p].mode = "message"
             /\ client' = [client EXCEPT ![c] = [at |-> "opened", name |-> <<>>, pipe |-> p]]
             /\ UNCHANGED odd
          \/ /\ pipe[p].mode = "byte"
             /\ odd' = odd \cup {"clash"}
             /\ UNCHANGED client
  /\ UNCHANGED <<acceptor, thread, dropped>>

\* ReadFile and CloseHandle.  Without a name (the server has hung up) the
\* constructor throws.
ReadName(c) ==
  LET p == client[c].pipe
  IN  /\ client[c].at = "opened"
      /\ \/ /\ pipe[p].client = c /\ pipe[p].data # <<>>
            /\ client' = [client EXCEPT ![c].at = "told", ![c].name = Head(pipe[p].data), ![c].pipe = NULL]
         \/ /\ pipe[p].client # c
            /\ client' = [client EXCEPT ![c] = Outside]
      /\ pipe' = HangUp(c, {p})
      /\ UNCHANGED <<acceptor, thread, dropped, odd>>

\* CreateFile on the new name; without one that listens the constructor throws.
OpenLine(c) ==
  /\ client[c].at = "told"
  /\ \/ \E p \in Listening(client[c].name) :
          /\ pipe' = [pipe EXCEPT ![p] = Connected(p, c)]
          /\ client' = [client EXCEPT ![c].at = "line", ![c].pipe = p]
     \/ /\ Listening(client[c].name) = {}
        /\ client' = [client EXCEPT ![c] = Outside]
        /\ UNCHANGED pipe
  /\ UNCHANGED <<acceptor, thread, dropped, odd>>

\* ~NamedPipeLine at the client: the handle stays open until the process ends.
DropClientLine(c) ==
  /\ client[c].at = "line"
  /\ client' = [client EXCEPT ![c] = Outside]
  /\ UNCHANGED <<pipe, acceptor, thread, dropped, odd>>

\* The process dies, and with it its handles.
Crash(c) ==
  /\ client[c] # Outside
  /\ pipe' = HangUp(c, Pipes)
  /\ client' = [client EXCEPT ![c] = Outside]
  /\ odd' = odd \cup {"crash"}
  /\ UNCHANGED <<acceptor, thread, dropped>>

-------------------------------------------------------------------------------

InCall(t) == Listen(t) \/ TellName(t) \/ ClientGone(t) \/ Disconnect(t) \/ ListenForLine(t) \/ Accept(t)

Next ==
  \/ \E s \in Acceptors : DestroyAcceptor(s) \/ \E a \in Addresses : CreateServer(s, a)
  \/ \E t \in Threads : InCall(t) \/ DropServerLine(t) \/ \E s \in Acceptors : CallWaitConnection(t, s)
  \/ \E c \in Clients : \/ ReadName(c) \/ OpenLine(c) \/ DropClientLine(c) \/ Crash(c)
                        \/ \E a \in Addresses : OpenServerPipe(c, a)

Spec == Init /\ [][Next]_vars

-------------------------------------------------------------------------------

(***************************************************************************)
(* The pipes that the server holds open are those of its acceptors, of the  *)
(* calls of waitConnection in progress and of its lines: every way out of   *)
(* waitConnection (pipes.cpp:126-154) closes what it made or hands it on.   *)
(* The exceptions are the lines that were destroyed, since ~NamedPipeLine   *)
(* closes nothing (:56-58).                                                 *)
(***************************************************************************)
HandlesAccounted ==
  Open = ({acceptor[s].m_pipe : s \in Acceptors}
            \cup {thread[t].m_waitingPipe : t \in Threads}
            \cup dropped) \ {NULL}

(***************************************************************************)
(* The two ends of a rendezvous meet on a pipe of their own: a line that    *)
(* waitConnection returned has a client at the other end that asked for     *)
(* that acceptor's address and was told that pipe's name, and no other      *)
(* thread has it; a client never takes an acceptor's pipe for its line      *)
(* (pipes.cpp:21-49 against :126-154).  Excepted are names that clash       *)
(* and clients that died.                                                   *)
(***************************************************************************)
PrivateRendezvous ==
  odd = {} =>
    /\ \A t \in Threads : thread[t].at = "line" => pipe[thread[t].m_waitingPipe].state = "connected"
    /\ \A t \in Threads, c \in Clients :
         thread[t].at = "line" /\ client[c].at = "line" /\ thread[t].m_waitingPipe = client[c].pipe
           => thread[t].name = client[c].name
              /\ pipe[client[c].pipe].owner = thread[t].acceptor
              /\ \A u \in Threads : thread[u].at = "line" /\ thread[u].m_waitingPipe = thread[t].m_waitingPipe => u = t
    /\ \A c \in Clients : client[c].at = "line" => pipe[client[c].pipe].mode = "byte"

(***************************************************************************)
(* An acceptor's pipe is left with a client that has gone only when a       *)
(* client dies before it is told its name.  If no thread was asleep in      *)
(* ConnectNamedPipe then, the acceptor is useless from that time on: the    *)
(* call fails at once and no client can open the pipe (pipes.cpp:95-139).   *)
(* Whatever else happens the pipe can be used again.                        *)
(***************************************************************************)
WedgedOnlyByCrash ==
  \A s \in Acceptors :
    acceptor[s] # NoAcceptor /\ pipe[acceptor[s].m_pipe].state = "closing"
      => "crash" \in odd \/ \E t \in Waiting(s) : thread[t].at = "flush"

(***************************************************************************)
(* The second wait of waitConnection, which has no limit in effect, is for  *)
(* a client that is there or on its way: it has been told the name and the  *)
(* pipe of that name listens for it.  So neither end of a rendezvous waits  *)
(* forever, unless a client dies in it or names clash (pipes.cpp:141-153    *)
(* against :39-48).                                                         *)
(***************************************************************************)
SecondWaitHasClient ==
  odd = {} =>
    \A t \in Threads :
      thread[t].at = "accept" =>
        \/ pipe[thread[t].m_waitingPipe].state = "connected"
        \/ \E c \in Clients : client[c].at = "told" /\ Listening(client[c].name) = {thread[t].m_waitingPipe}
===============================================================================
