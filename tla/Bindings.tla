------------------------------- MODULE Bindings -------------------------------
(***************************************************************************)
(* The library behind its bindings: the Python module                       *)
(* (src/bindings/python/python_bindings.cpp) and the C functions            *)
(* (src/src/cppio_c.cpp) as the Go package calls them                       *)
(* (src/bindings/go/cppio.go).  The subject is who destroys a native object *)
(* and when, which locks are held while a call waits, and what an exception *)
(* or an assertion of the library does to the process.                      *)
(*                                                                          *)
(* A Python object owns its native object, which is deleted with the last   *)
(* reference; a MessageProtocol has a bare pointer to its line.  A Go value *)
(* is a pointer: the program closes lines, acceptors and protocols, each    *)
(* once and when nothing uses them any more, and the garbage collector      *)
(* deletes messages.  The collector may do so as soon as no statement that  *)
(* is still to run mentions the message, which is during the C call that    *)
(* mentions it last.                                                        *)
(*                                                                          *)
(* What travels over a line is left out; how the two ends of an inproc line *)
(* find each other is kept as far as it takes gs_mutex and waits.           *)
(***************************************************************************)
EXTENDS Naturals, FiniteSets

CONSTANTS Programs,     \* the transports that a program uses: one of these sets
          Threads,      \* Python threads or goroutines
          InprocLines,  \* bounds: the native objects of each class that exist at
          Sockets,      \* one time, by their addresses, which are used again
          InprocAcceptors, SocketAcceptors, Protocols, Messages,
          MaxFrames,    \* bound: the frames of a message
          NULL

Lines     == InprocLines \cup Sockets
Acceptors == InprocAcceptors \cup SocketAcceptors
Handles   == Lines \cup Acceptors \cup Protocols \cup Messages

ASSUME BindingsAssumption ==
  /\ MaxFrames \in Nat /\ Programs \subseteq SUBSET {"inproc", "sockets"}
  /\ NULL \notin Handles \cup Threads
  /\ InprocLines \cap Sockets = {} /\ InprocAcceptors \cap SocketAcceptors = {}
  /\ Lines \cap (Acceptors \cup Protocols \cup Messages) = {}
  /\ Acceptors \cap (Protocols \cup Messages) = {} /\ Protocols \cap Messages = {}

VARIABLES language,  \* "python" or "go"
          schemes,   \* the transports that the program uses
          native,    \* the native objects that exist
          line,      \* MessageProtocol: m_impl->line
          frames,    \* Message: m_frames.size()
          refs,      \* what the variables of each thread refer to
          call,      \* the call into the library that each thread is in
          gil,       \* the thread that holds Python's global interpreter lock
          gs_mutex,  \* the thread that holds the mutex of inproc.cpp
          process,   \* "runs", or what ended it
          abandoned  \* history: the lines of socket clients that could not connect

vars == <<language, schemes, native, line, frames, refs, call, gil, gs_mutex, process, abandoned>>

Creations  == {"createClient", "createServer"}
Transfers  == {"read or write", "sendMessage", "readMessage"}
OnMessages == {"addFrame", "getFrame", "clear"}
Operations == Creations \cup Transfers \cup OnMessages \cup {"waitConnection", "setOption", "~IoAcceptor"}

NoCall == [op |-> "none", at |-> "outside", args |-> {}, result |-> NULL]

TypeOK ==
  /\ language \in {"python", "go"} /\ schemes \in Programs
  /\ native \subseteq Handles
  /\ line \in [Protocols -> Lines \cup {NULL}]
  /\ frames \in [Messages -> 0..MaxFrames]
  /\ refs \in [Threads -> SUBSET Handles]
  /\ call \in [Threads -> {NoCall} \cup [op : Operations, at : {"begin", "locked", "asleep", "done"},
                                         args : SUBSET Handles, result : Handles \cup {NULL}]]
  /\ gil \in Threads \cup {NULL}
  /\ gs_mutex \in Threads \cup {NULL}
  /\ process \in {"runs", "out_of_range", "UnsupportedOption", "bad_alloc", "no object", "assertion"}
  /\ abandoned \subseteq Sockets

Init ==
  /\ language \in {"python", "go"} /\ schemes \in Programs
  /\ native = {}
  /\ line = [p \in Protocols |-> NULL]
  /\ frames = [m \in Messages |-> 0]
  /\ refs = [t \in Threads |-> {}]
  /\ call = [t \in Threads |-> NoCall]
  /\ gil = NULL
  /\ gs_mutex = NULL
  /\ process = "runs"
  /\ abandoned = {}

-------------------------------------------------------------------------------
\* Threads.

Runs(t) == process = "runs" /\ call[t] = NoCall /\ (language = "python" => gil = t)

At(t, op, at) == process = "runs" /\ call[t].op = op /\ call[t].at = at

\* The interpreter goes over to another thread between two statements.
TakeGil(t) ==
  /\ process = "runs" /\ language = "python" /\ gil = NULL /\ call[t] = NoCall
  /\ gil' = t
  /\ UNCHANGED <<language, schemes, native, line, frames, refs, call, gs_mutex, process, abandoned>>

LeaveGil(t) ==
  /\ Runs(t) /\ language = "python"
  /\ gil' = NULL
  /\ UNCHANGED <<language, schemes, native, line, frames, refs, call, gs_mutex, process, abandoned>>

\* Another thread gets to see an object.
Share(t, u, h) ==
  /\ Runs(t) /\ h \notin refs[u]
  /\ refs' = [refs EXCEPT ![u] = @ \cup {h}]
  /\ UNCHANGED <<language, schemes, native, line, frames, call, gil, gs_mutex, process, abandoned>>

Fresh(kind) == kind \ native

\* Mutant: createClient keeps the lock, as createServer does.
ReleasesButCreate == Transfers \cup {"waitConnection"}

\* Mutant: addFrame gives up the lock as well.
ReleasesAddFrame == Transfers \cup {"waitConnection", "createClient", "addFrame"}

\* The Python functions with a ScopedGILRelease.
Releases == Transfers \cup {"waitConnection", "createClient"}

\* A call into the library begins.  In Go it may be the last that mentions
\* the message.
Begin(t, op, args) ==
  /\ Runs(t) /\ args \subseteq refs[t]
  /\ call' = [call EXCEPT ![t] = [NoCall EXCEPT !.op = op, !.at = "begin", !.args = args]]
  /\ gil' = IF op \in Releases THEN NULL ELSE gil
  /\ \E last \in SUBSET (args \cap Messages) :
       /\ language = "python" => last = {}
       /\ refs' = [refs EXCEPT ![t] = @ \ last]
  /\ UNCHANGED <<language, schemes, native, line, frames, gs_mutex, process, abandoned>>

\* ~ScopedGILRelease, also when an exception passes; the result, if it is an
\* object, becomes one of the language: manage_new_object, or a Go struct.
Return(t) ==
  /\ process = "runs" /\ call[t].at = "done"
  /\ gil \in {NULL, t}
  /\ gil' = IF language = "python" THEN t ELSE NULL
  /\ refs' = [refs EXCEPT ![t] = @ \cup ({call[t].result} \ {NULL})]
  /\ call' = [call EXCEPT ![t] = NoCall]
  /\ UNCHANGED <<language, schemes, native, line, frames, gs_mutex, process, abandoned>>

-------------------------------------------------------------------------------
\* Objects come and go.

\* Message() and cppio_create_message.
CreateMessage(t, m) ==
  /\ Runs(t) /\ m \in Fresh(Messages)
  /\ native' = native \cup {m}
  /\ frames' = [frames EXCEPT ![m] = 0]
  /\ refs' = [refs EXCEPT ![t] = @ \cup {m}]
  /\ UNCHANGED <<language, schemes, line, call, gil, gs_mutex, process, abandoned>>

\* MessageProtocol(line); the line may be what a failed createClient or
\* waitConnection gave, None or an IoLine without a pointer.
CreateMessageProtocol(t, p, l) ==
  /\ Runs(t) /\ p \in Fresh(Protocols)
  /\ l \in refs[t] \cup {NULL}
  /\ native' = native \cup {p}
  /\ line' = [line EXCEPT ![p] = l]
  /\ refs' = [refs EXCEPT ![t] = @ \cup {p}]
  /\ UNCHANGED <<language, schemes, frames, call, gil, gs_mutex, process, abandoned>>

\* Mutant: ~MessageProtocol deletes the line.
DeletedWithLine(h) == {h} \cup (IF h \in Protocols THEN {line[h]} ELSE {})

\* What the destructor of an object deletes.  ~MessageProtocol leaves the line
\* alone.
Deleted(h) == {h}

\* A deleted object has no contents.
Delete(hs) ==
  /\ native' = native \ hs
  /\ line' = [p \in Protocols |-> IF p \in hs THEN NULL ELSE line[p]]
  /\ frames' = [m \in Messages |-> IF m \in hs THEN 0 ELSE frames[m]]

\* Mutant: the wrapper does not own its object (reference_existing_object).
DropUnowned(t, h) ==
  /\ Runs(t) /\ language = "python"
  /\ refs' = [refs EXCEPT ![t] = @ \ {h}]
  /\ UNCHANGED <<language, schemes, native, line, frames, call, gil, gs_mutex, process, abandoned>>

\* Python: a reference goes, and the native object with the last one.
\* ~InprocAcceptor takes gs_mutex, with the interpreter's lock held.
Drop(t, h) ==
  /\ Runs(t) /\ language = "python"
  /\ refs' = [refs EXCEPT ![t] = @ \ {h}]
  /\ IF \E u \in Threads \ {t} : h \in refs[u] \cup call[u].args
       THEN UNCHANGED <<native, line, frames, call>>
       ELSE IF h \in InprocAcceptors
       THEN /\ call' = [call EXCEPT ![t] = [NoCall EXCEPT !.op = "~IoAcceptor", !.at = "begin", !.args = {h}]]
            /\ UNCHANGED <<native, line, frames>>
       ELSE Delete(Deleted(h)) /\ UNCHANGED call
  /\ UNCHANGED <<language, schemes, gil, gs_mutex, process, abandoned>>

\* The native objects that a call works on.
Uses(c) == c.args \cup {line[p] : p \in c.args \cap Protocols}

\* Go: Close, by a program that does not use the object any more, nor the
\* protocols on a line.
Close(t, h) ==
  /\ Runs(t) /\ language = "go" /\ h \notin Messages
  /\ \A u \in Threads : h \notin Uses(call[u])
  /\ refs' = [u \in Threads |-> refs[u] \ ({h} \cup {p \in Protocols : line[p] = h})]
  /\ IF h \in InprocAcceptors
       THEN /\ call' = [call EXCEPT ![t] = [NoCall EXCEPT !.op = "~IoAcceptor", !.at = "begin", !.args = {h}]]
            /\ UNCHANGED <<native, line, frames>>
       ELSE Delete(Deleted(h)) /\ UNCHANGED call
  /\ UNCHANGED <<language, schemes, gil, gs_mutex, process, abandoned>>

\* Go: the finalizer of a message that no variable refers to.
Finalize(m) ==
  /\ process = "runs" /\ language = "go" /\ m \in native
  /\ \A t \in Threads : m \notin refs[t]
  /\ Delete({m})
  /\ UNCHANGED <<language, schemes, refs, call, gil, gs_mutex, process, abandoned>>

-------------------------------------------------------------------------------
\* Inside the library: connections.

Done(t, result) == [call EXCEPT ![t].at = "done", ![t].result = result]

\* createClient or createServer of a socket, or nullptr: the address is no
\* good or an IoException was caught.  When it is connect that throws, the line
\* that createClient has made stays behind.
CreateAtOnce(t) ==
  /\ At(t, "createClient", "begin") \/ At(t, "createServer", "begin")
  /\ \/ call' = Done(t, NULL) /\ UNCHANGED <<native, abandoned>>
     \/ \E r \in Fresh(IF call[t].op = "createClient" THEN Sockets ELSE SocketAcceptors) :
          /\ "sockets" \in schemes
          /\ native' = native \cup {r}
          /\ \/ call' = Done(t, r) /\ UNCHANGED abandoned
             \/ call[t].op = "createClient" /\ call' = Done(t, NULL) /\ abandoned' = abandoned \cup {r}
  /\ UNCHANGED <<language, schemes, line, frames, refs, gil, gs_mutex, process>>

\* waitConnection of a socket acceptor: accept gives a line, or fails.
AcceptSocket(t) ==
  /\ \/ /\ At(t, "waitConnection", "begin") /\ call[t].args \subseteq SocketAcceptors
        /\ call' = [call EXCEPT ![t].at = "asleep"]
        /\ UNCHANGED native
     \/ /\ At(t, "waitConnection", "asleep") /\ call[t].args \subseteq SocketAcceptors
        /\ \E r \in {NULL} \cup Fresh(Sockets) : native' = native \cup ({r} \ {NULL}) /\ call' = Done(t, r)
  /\ UNCHANGED <<language, schemes, line, frames, refs, gil, gs_mutex, process, abandoned>>

\* inproc: createClient, createServer, waitConnection and ~InprocAcceptor.
Lock(t) ==
  /\ \E op \in Creations \cup {"waitConnection", "~IoAcceptor"} : At(t, op, "begin")
  /\ "inproc" \in schemes /\ call[t].args \subseteq InprocAcceptors
  /\ gs_mutex = NULL
  /\ gs_mutex' = t
  /\ call' = [call EXCEPT ![t].at = "locked"]
  /\ UNCHANGED <<language, schemes, native, line, frames, refs, gil, process, abandoned>>

\* createClient: into the queue, and waitForConnection.
Queue(t) ==
  /\ At(t, "createClient", "locked")
  /\ gs_mutex' = NULL
  /\ call' = [call EXCEPT ![t].at = "asleep"]
  /\ UNCHANGED <<language, schemes, native, line, frames, refs, gil, process, abandoned>>

CreateServer(t) ==
  /\ At(t, "createServer", "locked")
  /\ \E r \in {NULL} \cup Fresh(InprocAcceptors) :
       /\ native' = native \cup ({r} \ {NULL})
       /\ call' = Done(t, r)
  /\ gs_mutex' = NULL
  /\ UNCHANGED <<language, schemes, line, frames, refs, gil, process, abandoned>>

\* waitConnection finds a client: both get a line.
Connect(t, u) ==
  /\ At(t, "waitConnection", "locked") /\ At(u, "createClient", "asleep")
  /\ \E l, k \in Fresh(InprocLines) :
       /\ l # k
       /\ native' = native \cup {l, k}
       /\ call' = [call EXCEPT ![t].at = "done", ![t].result = l, ![u].at = "done", ![u].result = k]
  /\ gs_mutex' = NULL
  /\ UNCHANGED <<language, schemes, line, frames, refs, gil, process, abandoned>>

\* waitConnection finds none and waits, wakes up to look again, or times out.
WaitForClient(t) ==
  /\ \/ At(t, "waitConnection", "locked") /\ gs_mutex' = NULL
        /\ \/ call' = [call EXCEPT ![t].at = "asleep"]
           \/ call' = Done(t, NULL)
     \/ At(t, "waitConnection", "asleep") /\ call[t].args \subseteq InprocAcceptors /\ UNCHANGED gs_mutex
        /\ call' = [call EXCEPT ![t].at = "begin"]
  /\ UNCHANGED <<language, schemes, native, line, frames, refs, gil, process, abandoned>>

DestroyAcceptor(t) ==
  /\ At(t, "~IoAcceptor", "locked")
  /\ Delete(call[t].args)
  /\ gs_mutex' = NULL
  /\ call' = Done(t, NULL)
  /\ UNCHANGED <<language, schemes, refs, gil, process, abandoned>>

-------------------------------------------------------------------------------
\* Inside the library: data.

\* assert(m.size() == 0) in readMessage.
Refused(c) == c.op = "readMessage" /\ \E m \in c.args \cap Messages : frames[m] > 0

\* A call that moves data waits for the other end.
Sleep(t) ==
  /\ \E op \in Transfers : At(t, op, "begin")
  /\ NULL \notin Uses(call[t]) /\ ~Refused(call[t])
  /\ call' = [call EXCEPT ![t].at = "asleep"]
  /\ UNCHANGED <<language, schemes, native, line, frames, refs, gil, gs_mutex, process, abandoned>>

ReadOrWrite(t) ==
  /\ At(t, "read or write", "asleep")
  /\ call' = Done(t, NULL)
  /\ UNCHANGED <<language, schemes, native, line, frames, refs, gil, gs_mutex, process, abandoned>>

SendMessage(t) ==
  /\ At(t, "sendMessage", "asleep")
  /\ call' = Done(t, NULL)
  /\ UNCHANGED <<language, schemes, native, line, frames, refs, gil, gs_mutex, process, abandoned>>

\* readMessage adds frames, all or, when it fails, some.  The Python function
\* has a message of its own for them, and returns it whatever the code.
ReadMessage(t) ==
  /\ At(t, "readMessage", "asleep")
  /\ \E n \in 0..MaxFrames :
       \/ /\ language = "python"
          /\ \E m \in Fresh(Messages) :
               /\ native' = native \cup {m}
               /\ frames' = [frames EXCEPT ![m] = n]
               /\ call' = Done(t, m)
       \/ /\ language = "go"
          /\ frames' = [m \in Messages |-> IF m \in call[t].args THEN n ELSE frames[m]]
          /\ call' = Done(t, NULL)
          /\ UNCHANGED native
  /\ UNCHANGED <<language, schemes, line, refs, gil, gs_mutex, process, abandoned>>

UseMessage(t) ==
  /\ \/ /\ At(t, "addFrame", "begin")
        /\ \A m \in call[t].args : frames[m] < MaxFrames
        /\ frames' = [m \in Messages |-> IF m \in call[t].args THEN frames[m] + 1 ELSE frames[m]]
     \/ /\ At(t, "clear", "begin")
        /\ frames' = [m \in Messages |-> IF m \in call[t].args THEN 0 ELSE frames[m]]
     \/ At(t, "getFrame", "begin") /\ UNCHANGED frames
     \/ At(t, "setOption", "begin") /\ UNCHANGED frames
  /\ call' = Done(t, NULL)
  /\ UNCHANGED <<language, schemes, native, line, refs, gil, gs_mutex, process, abandoned>>

-------------------------------------------------------------------------------
\* What can go wrong in the library.

\* The exceptions that leave the library: an address that is too short, the
\* SendTimeout of an inproc line, and no memory for a frame or a message; the
\* length of a frame that is read comes from the other end.  An IoException of
\* a creation ends as nullptr.
Thrown(c) ==
  CASE c.op \in Creations /\ c.at = "begin"                  -> {"out_of_range"}
    [] c.op \in {"addFrame", "sendMessage"} /\ c.at = "begin" -> {"bad_alloc"}
    [] c.op = "readMessage" /\ c.at = "asleep"                -> {"bad_alloc"}
    [] c.op = "setOption" /\ c.at = "begin"                   ->
         IF c.args \subseteq InprocLines THEN {"UnsupportedOption"} ELSE {}
    [] OTHER                                                  -> {}

\* The process ends, and with it everything in it.
Ends(why) ==
  /\ process' = why
  /\ native' = {} /\ abandoned' = {}
  /\ line' = [p \in Protocols |-> NULL]
  /\ frames' = [m \in Messages |-> 0]
  /\ refs' = [t \in Threads |-> {}]
  /\ call' = [t \in Threads |-> NoCall]
  /\ gil' = NULL /\ gs_mutex' = NULL
  /\ UNCHANGED <<language, schemes>>

\* Boost.Python makes a Python exception of it; nothing catches it in Go.
Throw(t) ==
  /\ process = "runs"
  /\ \E e \in Thrown(call[t]) :
       \/ /\ language = "python" /\ call' = Done(t, NULL)
          /\ UNCHANGED <<language, schemes, native, line, frames, refs, gil, gs_mutex, process, abandoned>>
       \/ language = "go" /\ Ends(e)

\* A protocol without a line is used.
NoLine(t) ==
  /\ process = "runs" /\ call[t].at = "begin"
  /\ NULL \in Uses(call[t]) /\ ~Refused(call[t])
  /\ Ends("no object")

\* readMessage into a message that has frames.
NotEmpty(t) ==
  /\ process = "runs" /\ call[t].at = "begin" /\ Refused(call[t])
  /\ Ends("assertion")

-------------------------------------------------------------------------------

\* The calls of the Python module.
CallPython(t) ==
  /\ language = "python"
  /\ \/ \E op \in Creations : Begin(t, op, {})
     \/ \E a \in Acceptors : Begin(t, "waitConnection", {a})
     \/ \E l \in Lines : Begin(t, "read or write", {l})
     \/ \E p \in Protocols : Begin(t, "readMessage", {p}) \/ \E m \in Messages : Begin(t, "sendMessage", {p, m})
     \/ \E m \in Messages, op \in {"addFrame", "getFrame"} : Begin(t, op, {m})

\* The C functions that the Go package calls.  The line or the acceptor may be
\* one without a pointer, as a creation or a wait that failed returns it; nobody
\* looks.
CallC(t) ==
  /\ language = "go"
  /\ \/ \E op \in Creations : Begin(t, op, {})
     \/ \E a \in Acceptors : Begin(t, "waitConnection", {a})
     \/ \E l \in Lines, op \in {"read or write", "setOption"} : Begin(t, op, {l})
     \/ Runs(t) /\ Ends("no object")
     \/ \E p \in Protocols, m \in Messages, op \in {"sendMessage", "readMessage"} : Begin(t, op, {p, m})
     \/ \E m \in Messages, op \in OnMessages : Begin(t, op, {m})

InLibrary(t) ==
  \/ CreateAtOnce(t) \/ AcceptSocket(t)
  \/ Lock(t) \/ Queue(t) \/ CreateServer(t) \/ WaitForClient(t) \/ DestroyAcceptor(t)
  \/ \E u \in Threads : Connect(t, u)
  \/ Sleep(t) \/ ReadOrWrite(t) \/ SendMessage(t) \/ ReadMessage(t) \/ UseMessage(t)
  \/ Throw(t) \/ NoLine(t) \/ NotEmpty(t)

Next ==
  \/ \E t \in Threads :
       \/ TakeGil(t) \/ LeaveGil(t) \/ CallPython(t) \/ CallC(t) \/ InLibrary(t) \/ Return(t)
       \/ \E m \in Messages : CreateMessage(t, m)
       \/ \E p \in Protocols, l \in Lines \cup {NULL} : CreateMessageProtocol(t, p, l)
       \/ \E h \in refs[t] : Drop(t, h) \/ Close(t, h) \/ \E u \in Threads : Share(t, u, h)
  \/ \E m \in Messages : Finalize(m)

Spec == Init /\ [][Next]_vars

-------------------------------------------------------------------------------

(***************************************************************************)
(* A native object exists as long as a call of some thread works on it,     *)
(* although other threads drop, close and collect objects meanwhile and     *)
(* addresses are used again.  There are two exceptions.  In Python, the     *)
(* line of a protocol: the protocol does not keep the line's Python object  *)
(* (python_bindings.cpp:163).  In Go, a message during the C call that      *)
(* mentions it last: nothing keeps it alive until the call is over          *)
(* (cppio.go:142-194).                                                      *)
(***************************************************************************)
UsesAreLive ==
  \A t \in Threads :
    \A h \in Uses(call[t]) \ (native \cup {NULL}) :
      \/ language = "python" /\ h \in Lines /\ h \notin call[t].args
      \/ language = "go" /\ h \in Messages
      \/ call[t].op = "~IoAcceptor" /\ call[t].at = "done"

(***************************************************************************)
(* Python: whatever the threads do, the one that holds the interpreter's    *)
(* lock is not waiting for another thread, which would need that lock to    *)
(* get on: it is not asleep in the library, and when it needs gs_mutex, as  *)
(* createServer and ~InprocAcceptor do, the thread that has it will give it *)
(* back without the interpreter's lock (python_bindings.cpp:30-44, :67-130, *)
(* :140-165).                                                               *)
(***************************************************************************)
NobodyStuckOnGil ==
  \A t \in Threads :
    gil = t =>
      /\ call[t].at # "asleep"
      /\ gs_mutex \in Threads \ {t} => call[gs_mutex].at = "locked" /\ call[gs_mutex].op \in Releases

(***************************************************************************)
(* Python: two calls work on the same message at the same time only when    *)
(* sendMessage is one of them; it gives up the interpreter's lock while it  *)
(* reads the frames, so that appendFrame may change them under it           *)
(* (python_bindings.cpp:57-65, :126-130).  The other functions keep the     *)
(* lock, and readMessage fills a message that nobody else has (:118-124).   *)
(***************************************************************************)
OnlySendsOverlap ==
  language = "python" =>
    \A t, u \in Threads :
      t # u /\ call[t].args \cap call[u].args \cap Messages # {}
        => "sendMessage" \in {call[t].op, call[u].op}

(***************************************************************************)
(* Python: every native object that exists can still be destroyed: a        *)
(* variable refers to it, or a call is about to return it or to destroy it, *)
(* also when calls failed or threw (manage_new_object,                      *)
(* python_bindings.cpp:140-165).  The exceptions are exactly the lines that *)
(* the socket factories leave behind when connect throws                    *)
(* (io_socket.cpp:167-173, :341-347, win_socket.cpp:174-180): nobody ever   *)
(* gets at one of those again.                                              *)
(***************************************************************************)
OnlyFailedConnectsLeak ==
  language = "python" =>
    abandoned = {h \in native : \A t \in Threads : h \notin refs[t] \cup call[t].args \cup {call[t].result}}
===============================================================================
