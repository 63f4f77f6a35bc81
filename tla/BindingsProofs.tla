---------------------------- MODULE BindingsProofs ----------------------------
(***************************************************************************)
(* Theorems about Bindings: for any number of threads and of native objects *)
(* of each class.                                                           *)
(***************************************************************************)
EXTENDS Bindings, TLAPS

-------------------------------------------------------------------------------
\* The inductive invariant.

CallType ==
  [op : Operations \cup {"none"}, at : {"outside", "begin", "locked", "asleep", "done"},
   args : SUBSET Handles, result : Handles \cup {NULL}]

\* Which calls get where, with which arguments and results.
CallShape(c) ==
  /\ c.op = "none" <=> c.at = "outside"
  /\ c.op = "none" => c.args = {}
  /\ c.at # "done" => c.result = NULL
  /\ c.at = "locked" => c.op \in Creations \cup {"waitConnection", "~IoAcceptor"}
  /\ c.at = "asleep" => c.op \in Transfers \cup {"createClient", "waitConnection"}
  /\ c.op = "~IoAcceptor" => c.args \subseteq Acceptors
  /\ c.args \cap Messages # {} => c.op \in {"sendMessage", "readMessage"} \cup OnMessages
  /\ language = "python" /\ c.op = "readMessage" => c.args \cap Messages = {}
  /\ c.result \notin Protocols
  /\ language = "go" => c.result \notin Messages

Typed ==
  /\ language \in {"python", "go"}
  /\ native \subseteq Handles
  /\ line \in [Protocols -> Lines \cup {NULL}]
  /\ frames \in [Messages -> 0..MaxFrames]
  /\ refs \in [Threads -> SUBSET Handles]
  /\ call \in [Threads -> CallType]
  /\ gil \in Threads \cup {NULL}
  /\ gs_mutex \in Threads \cup {NULL}
  /\ process \in {"runs", "out_of_range", "UnsupportedOption", "bad_alloc", "no object", "assertion"}
  /\ abandoned \subseteq Sockets
  /\ \A t \in Threads : CallShape(call[t])

\* A thread keeps the interpreter's lock exactly during the calls that do not
\* release it, and has gs_mutex exactly where the code holds it.
Locking ==
  /\ language = "go" => gil = NULL
  /\ \A t \in Threads :
       /\ language = "python" /\ call[t].op \notin Releases \cup {"none"} => gil = t
       /\ gil = t => call[t].op \notin Releases
       /\ gs_mutex = t <=> call[t].at = "locked"

\* What a call works on, and what it is about to destroy.
Args(c) == IF c.op = "~IoAcceptor" THEN {} ELSE c.args
Doomed(c) == IF c.op = "~IoAcceptor" /\ c.at # "done" THEN c.args ELSE {}

\* Variables refer to objects that exist, and so do results on their way; what
\* is about to be destroyed is out of everybody's reach, and a result in reach
\* of nobody but the thread that gets it.
Apart ==
  \A t \in Threads :
    /\ refs[t] \subseteq native
    /\ Doomed(call[t]) \subseteq native
    /\ call[t].result \in native \cup {NULL}
    /\ \A u \in Threads :
         /\ Doomed(call[t]) \cap refs[u] = {}
         /\ Doomed(call[t]) \cap Args(call[u]) = {}
         /\ call[u].result \notin Doomed(call[t])
         /\ call[t].result \notin refs[u]
         /\ t # u => Doomed(call[t]) \cap Doomed(call[u]) = {}
         /\ t # u => call[t].result = NULL \/ call[t].result # call[u].result

\* A Python call keeps references to its arguments; a Go program does not close
\* what it uses.
ArgsLive ==
  \A t \in Threads :
    /\ language = "python" => Args(call[t]) \subseteq refs[t]
    /\ language = "go" =>
         /\ Args(call[t]) \ Messages \subseteq native
         /\ \A p \in Protocols : p \in refs[t] \cup Args(call[t]) => line[p] \in native \cup {NULL}

\* A line that was left behind is out of reach; what keeps any other object
\* alive in Python.
Kept ==
  /\ abandoned \subseteq native
  /\ \A t \in Threads : abandoned \cap refs[t] = {} /\ call[t].result \notin abandoned
  /\ language = "python" =>
       \A h \in native \ abandoned : \E t \in Threads :
         h \in refs[t] \/ h \in Doomed(call[t]) \/ h = call[t].result

Inv == Typed /\ Locking /\ Apart /\ ArgsLive /\ Kept
-------------------------------------------------------------------------------
\* Facts that the steps share.

(***************************************************************************)
(* A thread that is not in a call works on nothing and destroys nothing.    *)
(***************************************************************************)
LEMMA OutsideFacts ==
  /\ NoCall \in CallType /\ CallShape(NoCall)
  /\ NoCall.op = "none" /\ NoCall.at = "outside" /\ NoCall.args = {} /\ NoCall.result = NULL
  /\ Args(NoCall) = {} /\ Doomed(NoCall) = {}
<1>1. /\ NoCall.op = "none" /\ NoCall.at = "outside" /\ NoCall.args = {} /\ NoCall.result = NULL
      /\ NoCall \in CallType
  BY DEF NoCall, CallType
<1>2. NULL \notin Protocols /\ NULL \notin Messages
  BY BindingsAssumption DEF Handles
<1>3. CallShape(NoCall) BY <1>1, <1>2 DEF CallShape
<1>4. Args(NoCall) = {} /\ Doomed(NoCall) = {} BY <1>1 DEF Args, Doomed
<1> QED BY <1>1, <1>3, <1>4

(***************************************************************************)
(* The objects are as before when nothing is made, deleted or handed over.  *)
(***************************************************************************)
LEMMA SameObjects ==
  ASSUME Apart, ArgsLive, Kept, UNCHANGED <<language, native, line, refs, abandoned>>,
         \A u \in Threads : /\ Args(call'[u]) = Args(call[u])
                            /\ Doomed(call'[u]) = Doomed(call[u])
                            /\ call'[u].result = call[u].result
  PROVE  Apart' /\ ArgsLive' /\ Kept'
<1>1. Apart' BY DEF Apart
<1>2. ArgsLive' BY DEF ArgsLive
<1>3. Kept' BY DEF Kept
<1> QED BY <1>1, <1>2, <1>3

(***************************************************************************)
(* New objects are the results of calls that had none.                      *)
(***************************************************************************)
LEMMA NewResults ==
  ASSUME Typed, Apart, ArgsLive, Kept, UNCHANGED <<language, line, refs, abandoned>>,
         NEW N, N \subseteq Handles, N \cap native = {}, native' = native \cup N,
         \A u \in Threads : /\ Args(call'[u]) = Args(call[u])
                            /\ Doomed(call'[u]) = Doomed(call[u])
                            /\ \/ call'[u].result = call[u].result
                               \/ call[u].result = NULL /\ call'[u].result \in N,
         \A u, v \in Threads :
            u # v /\ call'[u].result \in N => call'[u].result # call'[v].result,
         \A h \in N : \E u \in Threads : h = call'[u].result
  PROVE  Apart' /\ ArgsLive' /\ Kept'
<1>1. \A u \in Threads : /\ refs'[u] \subseteq native' /\ Doomed(call'[u]) \subseteq native'
                         /\ call'[u].result \in native' \cup {NULL}
  BY DEF Apart
<1>2. ASSUME NEW t \in Threads, NEW u \in Threads
      PROVE  /\ Doomed(call'[t]) \cap refs'[u] = {}
             /\ Doomed(call'[t]) \cap Args(call'[u]) = {}
             /\ call'[u].result \notin Doomed(call'[t])
             /\ call'[t].result \notin refs'[u]
             /\ t # u => Doomed(call'[t]) \cap Doomed(call'[u]) = {}
  BY DEF Apart
<1>3. ASSUME NEW t \in Threads, NEW u \in Threads, t # u
      PROVE  call'[t].result = NULL \/ call'[t].result # call'[u].result
  BY <1>3 DEF Apart
<1>4. Apart' BY <1>1, <1>2, <1>3 DEF Apart
<1>5. ArgsLive' BY DEF ArgsLive
<1>6. ASSUME language = "python", NEW h \in native \ abandoned
      PROVE  \E t \in Threads : h \in refs'[t] \/ h \in Doomed(call'[t]) \/ h = call'[t].result
  <2>1. PICK t \in Threads : h \in refs[t] \/ h \in Doomed(call[t]) \/ h = call[t].result
    BY <1>6 DEF Kept
  <2>2. h # NULL
    <3>1. h \in Handles BY DEF Typed
    <3> QED BY <3>1, BindingsAssumption
  <2> QED BY <2>1, <2>2
<1>7. Kept' BY <1>6 DEF Kept
<1> QED BY <1>4, <1>5, <1>7

\* The call of t gets to x with the result r.
Moves(t, x, r) ==
  /\ call' \in [Threads -> CallType]
  /\ \A u \in Threads \ {t} : call'[u] = call[u]
  /\ call'[t].op = call[t].op /\ call'[t].args = call[t].args
  /\ call'[t].at = x /\ call'[t].result = r

(***************************************************************************)
(* How an assignment to the place of a call reads.                          *)
(***************************************************************************)
LEMMA CallMoves ==
  ASSUME call \in [Threads -> CallType], NEW t \in Threads,
         NEW x \in {"begin", "locked", "asleep", "done"}, NEW r \in Handles \cup {NULL}
  PROVE  /\ call' = [call EXCEPT ![t].at = x] => Moves(t, x, call[t].result)
         /\ call' = [call EXCEPT ![t].at = x, ![t].result = r] => Moves(t, x, r)
         /\ x = "done" /\ call' = Done(t, r) => Moves(t, "done", r)
<1>1. call[t] \in CallType OBVIOUS
<1>2. [call[t] EXCEPT !.at = x] \in CallType /\ [call[t] EXCEPT !.at = x, !.result = r] \in CallType
  BY <1>1 DEF CallType
<1>3. call' = [call EXCEPT ![t].at = x] => Moves(t, x, call[t].result)
  BY <1>1, <1>2 DEF Moves, CallType
<1>4. call' = [call EXCEPT ![t].at = x, ![t].result = r] => Moves(t, x, r)
  BY <1>1, <1>2 DEF Moves, CallType
<1> QED BY <1>3, <1>4 DEF Done

(***************************************************************************)
(* A call in progress moves on: its shape and the locks.                    *)
(***************************************************************************)
LEMMA MoveLocks ==
  ASSUME Typed, Locking, NEW t \in Threads, NEW x, NEW r, Moves(t, x, r),
         call[t].op # "none", x # "outside",
         x # "done" => r = NULL,
         x = "locked" => call[t].op \in Creations \cup {"waitConnection", "~IoAcceptor"},
         x = "asleep" => call[t].op \in Transfers \cup {"createClient", "waitConnection"},
         r \notin Protocols, language = "go" => r \notin Messages,
         x = "locked" => gs_mutex = NULL /\ gs_mutex' = t,
         x # "locked" => gs_mutex' = IF call[t].at = "locked" THEN NULL ELSE gs_mutex,
         UNCHANGED <<language, gil>>
  PROVE  /\ \A u \in Threads : CallShape(call[u])'
         /\ Locking' /\ gs_mutex' \in Threads \cup {NULL}
<1>1. CallShape(call[t])' BY DEF CallShape, Moves, Typed
<1>2. ASSUME NEW u \in Threads PROVE CallShape(call[u])'
  <2>1. CASE u # t
    <3>1. call'[u] = call[u] /\ CallShape(call[u]) BY <2>1 DEF Moves, Typed
    <3> QED BY <3>1 DEF CallShape
  <2> QED BY <1>1, <2>1
<1>3. \A u \in Threads : gs_mutex' = u <=> call'[u].at = "locked"
  <2>1. \A u \in Threads : gs_mutex = u <=> call[u].at = "locked" BY DEF Locking
  <2>2. NULL \notin Threads BY BindingsAssumption
  <2>3. CASE x = "locked" BY <2>1, <2>2, <2>3 DEF Moves
  <2>4. CASE x # "locked" BY <2>1, <2>2, <2>4 DEF Moves
  <2> QED BY <2>3, <2>4
<1>4. \A u \in Threads : call'[u].op = call[u].op BY DEF Moves
<1>5. Locking' BY <1>3, <1>4 DEF Locking
<1>6. gs_mutex' \in Threads \cup {NULL} BY DEF Typed
<1> QED BY <1>2, <1>5, <1>6

(***************************************************************************)
(* A call that moves on without an object coming or going.                  *)
(***************************************************************************)
LEMMA MoveObjects ==
  ASSUME Typed, Apart, ArgsLive, Kept, NEW t \in Threads, NEW x, Moves(t, x, NULL),
         call[t].at # "done", call[t].op = "~IoAcceptor" => x # "done",
         UNCHANGED <<language, native, line, refs, abandoned>>
  PROVE  Apart' /\ ArgsLive' /\ Kept'
<1>1. call[t].result = NULL BY DEF Typed, CallShape
<1>2. Args(call'[t]) = Args(call[t]) BY DEF Moves, Args
<1>3. Doomed(call'[t]) = Doomed(call[t]) BY DEF Moves, Doomed
<1>4. \A u \in Threads : /\ Args(call'[u]) = Args(call[u])
                         /\ Doomed(call'[u]) = Doomed(call[u])
                         /\ call'[u].result = call[u].result
  BY <1>1, <1>2, <1>3 DEF Moves
<1> QED BY <1>4, SameObjects

(***************************************************************************)
(* All of it for a step inside the library that gives no object back.       *)
(***************************************************************************)
LEMMA InsideInv ==
  ASSUME Inv, NEW t \in Threads, NEW x \in {"begin", "locked", "asleep", "done"}, Moves(t, x, NULL),
         process = "runs", call[t].op # "none", call[t].at # "done",
         call[t].op = "~IoAcceptor" => x # "done",
         x = "locked" => call[t].op \in Creations \cup {"waitConnection", "~IoAcceptor"},
         x = "asleep" => call[t].op \in Transfers \cup {"createClient", "waitConnection"},
         x = "locked" => gs_mutex = NULL /\ gs_mutex' = t,
         x # "locked" => gs_mutex' = IF call[t].at = "locked" THEN NULL ELSE gs_mutex,
         frames' \in [Messages -> 0..MaxFrames],
         UNCHANGED <<language, native, line, refs, gil, process, abandoned>>
  PROVE  Inv'
<1>1. /\ Typed /\ Locking /\ Apart /\ ArgsLive /\ Kept BY DEF Inv
<1>2. NULL \notin Protocols /\ NULL \notin Messages BY BindingsAssumption DEF Handles
<1>3. /\ \A u \in Threads : CallShape(call[u])'
      /\ Locking' /\ gs_mutex' \in Threads \cup {NULL}
  BY <1>1, <1>2, MoveLocks
<1>4. Apart' /\ ArgsLive' /\ Kept' BY <1>1, MoveObjects
<1>5. call' \in [Threads -> CallType] BY DEF Moves
<1>6. Typed' BY <1>1, <1>3, <1>5 DEF Typed
<1> QED BY <1>3, <1>4, <1>6 DEF Inv

-------------------------------------------------------------------------------
\* The steps, by what they do to the objects.

(***************************************************************************)
(* The interpreter's lock changes hands between statements.                 *)
(***************************************************************************)
LEMMA GilInv ==
  ASSUME Inv, NEW t \in Threads, TakeGil(t) \/ LeaveGil(t)
  PROVE  Inv'
<1>1. /\ Typed /\ Locking /\ Apart /\ ArgsLive /\ Kept BY DEF Inv
<1>2. /\ UNCHANGED <<language, native, line, frames, refs, call, gs_mutex, process, abandoned>>
      /\ process = "runs" /\ language = "python" /\ call[t] = NoCall
      /\ gil' \in {t, NULL}
      /\ gil \in {t, NULL}
  BY DEF TakeGil, LeaveGil, Runs
<1>3. call[t].op = "none" BY <1>2, OutsideFacts
<1>4. \A u \in Threads : CallShape(call[u])' BY <1>1, <1>2 DEF Typed, CallShape
<1>5. Typed' BY <1>1, <1>2, <1>4 DEF Typed
<1>6. Locking'
  <2>1. "none" \notin Releases BY DEF Releases, Transfers
  <2>2. NULL \notin Threads BY BindingsAssumption
  <2> HIDE DEF Releases
  <2> QED BY <1>1, <1>2, <1>3, <2>1, <2>2 DEF Locking
<1>7. Apart' /\ ArgsLive' /\ Kept' BY <1>1, <1>2, SameObjects
<1> QED BY <1>5, <1>6, <1>7 DEF Inv

(***************************************************************************)
(* Steps that leave the calls and the locks alone: types and locks.         *)
(***************************************************************************)
LEMMA StatementInv ==
  ASSUME Inv, process = "runs", UNCHANGED <<language, call, gil, gs_mutex, process, abandoned>>,
         native' \subseteq Handles, line' \in [Protocols -> Lines \cup {NULL}],
         frames' \in [Messages -> 0..MaxFrames], refs' \in [Threads -> SUBSET Handles],
         Apart', ArgsLive', Kept'
  PROVE  Inv'
<1>1. Typed /\ Locking BY DEF Inv
<1>2. \A u \in Threads : CallShape(call[u])' BY <1>1 DEF Typed, CallShape
<1>3. Typed' BY <1>1, <1>2 DEF Typed
<1>4. Locking' BY <1>1 DEF Locking
<1> QED BY <1>3, <1>4 DEF Inv

(***************************************************************************)
(* Another thread gets to see an object.                                    *)
(***************************************************************************)
LEMMA ShareInv ==
  ASSUME Inv, NEW t \in Threads, NEW u \in Threads, NEW h \in refs[t], Share(t, u, h)
  PROVE  Inv'
<1>1. /\ Typed /\ Apart /\ ArgsLive /\ Kept BY DEF Inv
<1>2. /\ h \in Handles /\ process = "runs"
      /\ refs' = [refs EXCEPT ![u] = @ \cup {h}]
      /\ UNCHANGED <<language, native, line, frames, call, gil, gs_mutex, process, abandoned>>
  BY <1>1 DEF Share, Runs, Typed
<1>3. /\ refs'[u] = refs[u] \cup {h} /\ \A v \in Threads \ {u} : refs'[v] = refs[v]
      /\ refs' \in [Threads -> SUBSET Handles]
  BY <1>1, <1>2 DEF Typed
<1>4. Apart' BY <1>1, <1>2, <1>3 DEF Apart
<1>5. ArgsLive' BY <1>1, <1>2, <1>3 DEF ArgsLive
<1>6. Kept' BY <1>1, <1>2, <1>3 DEF Kept
<1> QED BY <1>1, <1>2, <1>3, <1>4, <1>5, <1>6, StatementInv DEF Typed

(***************************************************************************)
(* A message or a protocol is made; the line of a protocol is one that the  *)
(* thread has, or none.                                                     *)
(***************************************************************************)
LEMMA MakeObjects ==
  ASSUME Inv, NEW t \in Threads, NEW h \in Handles \ native,
         h \in Messages \cup Protocols,
         h \in Protocols => line'[h] \in refs[t] \cup {NULL},
         native' = native \cup {h}, refs' = [refs EXCEPT ![t] = @ \cup {h}],
         \A p \in Protocols : p # h => line'[p] = line[p],
         UNCHANGED <<language, call, abandoned>>
  PROVE  Apart' /\ ArgsLive' /\ Kept' /\ refs' \in [Threads -> SUBSET Handles]
<1>1. /\ Typed /\ Apart /\ ArgsLive /\ Kept BY DEF Inv
<1>2. /\ refs'[t] = refs[t] \cup {h} /\ \A v \in Threads \ {t} : refs'[v] = refs[v]
      /\ refs' \in [Threads -> SUBSET Handles]
  BY <1>1 DEF Typed
<1>3. h # NULL BY BindingsAssumption
<1>4. Apart' BY <1>1, <1>2, <1>3 DEF Apart
<1>5. ASSUME NEW u \in Threads
      PROVE  /\ language = "python" => Args(call[u]) \subseteq refs'[u]
             /\ language = "go" => Args(call[u]) \ Messages \subseteq native'
  BY <1>1, <1>2 DEF ArgsLive
<1>6. ASSUME NEW u \in Threads, language = "go", NEW p \in Protocols, p \in refs'[u] \cup Args(call[u])
      PROVE  line'[p] \in native' \cup {NULL}
  <2>1. Protocols \cap Messages = {} BY BindingsAssumption
  <2>2. CASE p = h BY <1>1, <2>1, <2>2 DEF Apart
  <2>3. CASE p # h
    <3>1. p \in refs[u] \cup Args(call[u]) BY <1>2, <1>6, <2>3
    <3> QED BY <1>1, <1>6, <2>3, <3>1 DEF ArgsLive
  <2> QED BY <2>2, <2>3
<1>7. ArgsLive' BY <1>5, <1>6 DEF ArgsLive
<1>8. Kept' BY <1>1, <1>2 DEF Kept
<1> QED BY <1>2, <1>4, <1>7, <1>8

LEMMA CreateInv ==
  ASSUME Inv, NEW t \in Threads,
         \/ \E m \in Messages : CreateMessage(t, m)
         \/ \E p \in Protocols, l \in Lines \cup {NULL} : CreateMessageProtocol(t, p, l)
  PROVE  Inv'
<1>1. Typed BY DEF Inv
<1>2. ASSUME NEW m \in Messages, CreateMessage(t, m) PROVE Inv'
  <2>1. /\ m \in Handles \ native /\ native' = native \cup {m} /\ process = "runs"
        /\ frames' = [frames EXCEPT ![m] = 0] /\ refs' = [refs EXCEPT ![t] = @ \cup {m}]
        /\ UNCHANGED <<language, line, call, gil, gs_mutex, process, abandoned>>
    BY <1>2 DEF CreateMessage, Runs, Fresh, Handles
  <2>2. Apart' /\ ArgsLive' /\ Kept' /\ refs' \in [Threads -> SUBSET Handles]
    <3>1. /\ m \in Messages \cup Protocols /\ m \notin Protocols
          /\ \A p \in Protocols : p # m => line'[p] = line[p]
      BY <2>1, BindingsAssumption
    <3> QED BY <2>1, <3>1, MakeObjects
  <2>3. frames' \in [Messages -> 0..MaxFrames] BY <1>1, <2>1, BindingsAssumption DEF Typed
  <2>4. native' \subseteq Handles /\ line' \in [Protocols -> Lines \cup {NULL}] BY <1>1, <2>1 DEF Typed
  <2> QED BY <2>1, <2>2, <2>3, <2>4, StatementInv
<1>3. ASSUME NEW p \in Protocols, NEW l \in Lines \cup {NULL}, CreateMessageProtocol(t, p, l) PROVE Inv'
  <2>1. /\ p \in Handles \ native /\ native' = native \cup {p} /\ process = "runs"
        /\ l \in refs[t] \cup {NULL}
        /\ line' = [line EXCEPT ![p] = l] /\ refs' = [refs EXCEPT ![t] = @ \cup {p}]
        /\ UNCHANGED <<language, frames, call, gil, gs_mutex, process, abandoned>>
    BY <1>3 DEF CreateMessageProtocol, Runs, Fresh, Handles
  <2>2. /\ line'[p] = l /\ \A q \in Protocols : q # p => line'[q] = line[q]
        /\ line' \in [Protocols -> Lines \cup {NULL}]
    BY <1>1, <2>1 DEF Typed
  <2>3. Apart' /\ ArgsLive' /\ Kept' /\ refs' \in [Threads -> SUBSET Handles]
    BY <2>1, <2>2, MakeObjects
  <2>4. native' \subseteq Handles /\ frames' \in [Messages -> 0..MaxFrames] BY <1>1, <2>1 DEF Typed
  <2> QED BY <2>1, <2>2, <2>3, <2>4, StatementInv
<1> QED BY <1>2, <1>3

(***************************************************************************)
(* A call begins: its arguments are objects that the thread refers to.      *)
(***************************************************************************)
LEMMA BeginInv ==
  ASSUME Inv, NEW t \in Threads, NEW op \in Operations \ {"~IoAcceptor"}, NEW args \in SUBSET Handles,
         Begin(t, op, args),
         args \cap Messages # {} => op \in {"sendMessage", "readMessage"} \cup OnMessages,
         language = "python" /\ op = "readMessage" => args \cap Messages = {}
  PROVE  Inv'
<1> DEFINE c == [NoCall EXCEPT !.op = op, !.at = "begin", !.args = args]
<1>1. /\ Typed /\ Locking /\ Apart /\ ArgsLive /\ Kept BY DEF Inv
<1>2. /\ process = "runs" /\ call[t] = NoCall /\ args \subseteq refs[t]
      /\ language = "python" => gil = t
      /\ call' = [call EXCEPT ![t] = c] /\ gil' = IF op \in Releases THEN NULL ELSE gil
      /\ UNCHANGED <<language, native, line, frames, gs_mutex, process, abandoned>>
  BY DEF Begin, Runs
<1>3. PICK last \in SUBSET (args \cap Messages) :
        /\ language = "python" => last = {}
        /\ refs' = [refs EXCEPT ![t] = @ \ last]
  BY DEF Begin
<1>4. /\ c.op = op /\ c.at = "begin" /\ c.args = args /\ c.result = NULL /\ c \in CallType
  BY DEF NoCall, CallType
<1> HIDE DEF c
<1>5. op # "none" BY DEF Operations, Creations, Transfers, OnMessages
<1>6. NULL \notin Protocols /\ NULL \notin Messages /\ NULL \notin Threads
  BY BindingsAssumption DEF Handles
<1>7. CallShape(c)' BY <1>2, <1>4, <1>5, <1>6 DEF CallShape
<1>8. call'[t] = c /\ (\A u \in Threads \ {t} : call'[u] = call[u]) /\ call' \in [Threads -> CallType]
  BY <1>1, <1>2, <1>4 DEF Typed
<1>9. /\ refs'[t] = refs[t] \ last /\ \A u \in Threads \ {t} : refs'[u] = refs[u]
      /\ refs' \in [Threads -> SUBSET Handles]
  BY <1>1, <1>3 DEF Typed
<1>10. \A u \in Threads : CallShape(call[u])'
  <2>1. ASSUME NEW u \in Threads \ {t} PROVE CallShape(call[u])'
    <3>1. call'[u] = call[u] /\ CallShape(call[u]) BY <1>1, <1>8 DEF Typed
    <3> QED BY <1>2, <3>1 DEF CallShape
  <2>2. CallShape(call[t])' BY <1>7, <1>8 DEF CallShape
  <2> QED BY <2>1, <2>2
<1>11. Typed' BY <1>1, <1>2, <1>8, <1>9, <1>10 DEF Typed
<1>12. Locking'
  <2>1. call[t].op = "none" /\ call[t].at = "outside" BY <1>2, OutsideFacts
  <2>2. \A u \in Threads : gs_mutex' = u <=> call'[u].at = "locked"
    BY <1>1, <1>2, <1>4, <1>8, <2>1 DEF Locking
  <2>3. "none" \notin Releases BY DEF Releases, Transfers
  <2>4. ASSUME NEW u \in Threads
        PROVE  /\ language = "python" /\ call'[u].op \notin Releases \cup {"none"} => gil' = u
               /\ gil' = u => call'[u].op \notin Releases
    <3>1. CASE u = t BY <1>1, <1>2, <1>4, <1>6, <1>8, <3>1 DEF Locking
    <3>2. CASE u # t BY <1>1, <1>2, <1>6, <1>8, <3>2 DEF Locking
    <3> QED BY <3>1, <3>2
  <2>5. language' = "go" => gil' = NULL BY <1>1, <1>2 DEF Locking
  <2> QED BY <1>2, <2>2, <2>4, <2>5 DEF Locking
<1>13. /\ Args(c) = args /\ Doomed(c) = {} /\ Args(call[t]) = {} /\ Doomed(call[t]) = {}
       /\ call[t].result = NULL
  BY <1>2, <1>4, OutsideFacts DEF Args, Doomed
<1>14. \A u \in Threads : /\ refs'[u] \subseteq refs[u] /\ Doomed(call'[u]) = Doomed(call[u])
                          /\ call'[u].result = call[u].result
                          /\ Args(call'[u]) \subseteq Args(call[u]) \cup refs[u]
  BY <1>2, <1>4, <1>8, <1>9, <1>13
<1>15. Apart' BY <1>1, <1>2, <1>14 DEF Apart
<1>16. ASSUME NEW u \in Threads
       PROVE  /\ language = "python" => Args(call'[u]) \subseteq refs'[u]
              /\ language = "go" => Args(call'[u]) \ Messages \subseteq native
    BY <1>1, <1>2, <1>3, <1>8, <1>9, <1>13 DEF ArgsLive, Apart
<1>17. ASSUME NEW u \in Threads, language = "go", NEW p \in Protocols, p \in refs'[u] \cup Args(call'[u])
       PROVE  line[p] \in native \cup {NULL}
  BY <1>1, <1>14, <1>17 DEF ArgsLive
<1>18. ArgsLive' BY <1>2, <1>16, <1>17 DEF ArgsLive
<1>19. Kept'
  <2>1. language = "python" => \A u \in Threads : refs'[u] = refs[u] BY <1>3, <1>9
  <2> QED BY <1>1, <1>2, <1>14, <2>1 DEF Kept
<1> QED BY <1>11, <1>12, <1>15, <1>18, <1>19 DEF Inv

(***************************************************************************)
(* A call returns: the thread refers to the result, which nobody else does. *)
(***************************************************************************)
LEMMA ReturnInv ==
  ASSUME Inv, NEW t \in Threads, Return(t)
  PROVE  Inv'
<1> DEFINE r == call[t].result
<1>1. /\ Typed /\ Locking /\ Apart /\ ArgsLive /\ Kept BY DEF Inv
<1>2. /\ process = "runs" /\ call[t].at = "done" /\ gil \in {NULL, t}
      /\ gil' = IF language = "python" THEN t ELSE NULL
      /\ refs' = [refs EXCEPT ![t] = @ \cup ({r} \ {NULL})]
      /\ call' = [call EXCEPT ![t] = NoCall]
      /\ UNCHANGED <<language, native, line, frames, gs_mutex, process, abandoned>>
  BY DEF Return
<1>3. r \in Handles \cup {NULL} /\ r \notin Protocols /\ (language = "go" => r \notin Messages)
  BY <1>1 DEF Typed, CallShape, CallType
<1>4. r \in native \cup {NULL} BY <1>1 DEF Apart
<1>5. call'[t] = NoCall /\ (\A u \in Threads \ {t} : call'[u] = call[u]) /\ call' \in [Threads -> CallType]
  BY <1>1, <1>2, OutsideFacts DEF Typed
<1>6. /\ refs'[t] = refs[t] \cup ({r} \ {NULL}) /\ \A u \in Threads \ {t} : refs'[u] = refs[u]
      /\ refs' \in [Threads -> SUBSET Handles]
  BY <1>1, <1>2, <1>3 DEF Typed
<1>7. \A u \in Threads : CallShape(call[u])'
  <2>1. ASSUME NEW u \in Threads \ {t} PROVE CallShape(call[u])'
    <3>1. call'[u] = call[u] /\ CallShape(call[u]) BY <1>1, <1>5 DEF Typed
    <3> QED BY <1>2, <3>1 DEF CallShape
  <2>2. CallShape(NoCall)' BY <1>2, OutsideFacts DEF CallShape
  <2>3. CallShape(call[t])' BY <1>5, <2>2 DEF CallShape
  <2> QED BY <2>1, <2>3
<1>8. gil' \in Threads \cup {NULL} BY <1>2
<1>9. Typed' BY <1>1, <1>2, <1>5, <1>6, <1>7, <1>8 DEF Typed
<1>10. Locking'
  <2>1. NoCall.op = "none" /\ NoCall.at = "outside" BY OutsideFacts
  <2>2. \A u \in Threads : gs_mutex' = u <=> call'[u].at = "locked"
    BY <1>1, <1>2, <1>5, <2>1 DEF Locking
  <2>3. "none" \notin Releases /\ NULL \notin Threads BY BindingsAssumption DEF Releases, Transfers
  <2>4. ASSUME NEW u \in Threads
        PROVE  /\ language = "python" /\ call'[u].op \notin Releases \cup {"none"} => gil' = u
               /\ gil' = u => call'[u].op \notin Releases
    <3>1. CASE u = t BY <1>5, <2>1, <2>3, <3>1
    <3>2. CASE u # t BY <1>1, <1>2, <1>5, <2>3, <3>2 DEF Locking
    <3> QED BY <3>1, <3>2
  <2> QED BY <1>2, <2>2, <2>4 DEF Locking
<1>11. Doomed(call[t]) = {} BY <1>2 DEF Doomed
<1>12. \A u \in Threads \ {t} : /\ Doomed(call'[u]) = Doomed(call[u]) /\ Args(call'[u]) = Args(call[u])
                                /\ call'[u].result = call[u].result
  BY <1>5
<1>13. Doomed(call'[t]) = {} /\ Args(call'[t]) = {} /\ call'[t].result = NULL
  BY <1>5, OutsideFacts
<1>14. Apart'
  <2>1. ASSUME NEW u \in Threads
        PROVE  /\ refs'[u] \subseteq native /\ Doomed(call'[u]) \subseteq native
               /\ call'[u].result \in native \cup {NULL}
    BY <1>1, <1>4, <1>6, <1>12, <1>13 DEF Apart
  <2>2. ASSUME NEW u \in Threads, NEW v \in Threads
        PROVE  /\ Doomed(call'[u]) \cap refs'[v] = {}
               /\ Doomed(call'[u]) \cap Args(call'[v]) = {}
               /\ call'[v].result \notin Doomed(call'[u])
    <3>1. CASE u = t BY <1>13, <3>1
    <3>2. CASE u # t
      <4>1. Doomed(call[u]) \subseteq Handles /\ NULL \notin Handles BY <1>1, BindingsAssumption DEF Apart, Typed
      <4> QED BY <1>1, <1>6, <1>12, <1>13, <3>2, <4>1 DEF Apart
    <3> QED BY <3>1, <3>2
  <2>3. ASSUME NEW u \in Threads, NEW v \in Threads
        PROVE  call'[u].result \notin refs'[v]
    <3>1. NULL \notin refs'[v] BY <1>6, BindingsAssumption
    <3> QED BY <1>1, <1>6, <1>12, <1>13, <3>1 DEF Apart
  <2>4. ASSUME NEW u \in Threads, NEW v \in Threads, u # v
        PROVE  /\ Doomed(call'[u]) \cap Doomed(call'[v]) = {}
               /\ call'[u].result = NULL \/ call'[u].result # call'[v].result
    BY <1>1, <1>12, <1>13, <2>4 DEF Apart
  <2> QED BY <1>2, <2>1, <2>2, <2>3, <2>4 DEF Apart
<1>15. ArgsLive' BY <1>1, <1>2, <1>3, <1>6, <1>12, <1>13 DEF ArgsLive
<1>16. Kept'
  <2> SUFFICES ASSUME language = "python", NEW h \in native \ abandoned
               PROVE  \E u \in Threads : h \in refs'[u] \/ h \in Doomed(call'[u]) \/ h = call'[u].result
    <3>1. \A u \in Threads : abandoned \cap refs'[u] = {} BY <1>1, <1>6 DEF Kept
    <3>2. \A u \in Threads : call'[u].result \notin abandoned
      <4>1. NULL \notin abandoned BY <1>1, BindingsAssumption DEF Kept, Typed
      <4> QED BY <1>1, <1>12, <1>13, <4>1 DEF Kept
    <3> QED BY <1>1, <1>2, <3>1, <3>2 DEF Kept
  <2>1. PICK u \in Threads : h \in refs[u] \/ h \in Doomed(call[u]) \/ h = call[u].result
    BY <1>1 DEF Kept
  <2>2. h # NULL BY <1>1, BindingsAssumption DEF Typed
  <2> QED BY <1>6, <1>11, <1>12, <2>1, <2>2
<1> QED BY <1>9, <1>10, <1>14, <1>15, <1>16 DEF Inv

(***************************************************************************)
(* A call ends with a new object, or with none.                             *)
(***************************************************************************)
LEMMA ResultInv ==
  ASSUME Inv, NEW t \in Threads, NEW r \in Handles \cup {NULL}, r \notin native, Moves(t, "done", r),
         process = "runs", call[t].op \notin {"none", "~IoAcceptor"}, call[t].at # "done",
         r \notin Protocols, language = "go" => r \notin Messages,
         native' = native \cup ({r} \ {NULL}),
         gs_mutex' = IF call[t].at = "locked" THEN NULL ELSE gs_mutex,
         frames' \in [Messages -> 0..MaxFrames],
         UNCHANGED <<language, line, refs, gil, process, abandoned>>
  PROVE  Inv'
<1> DEFINE N == {r} \ {NULL}
<1>1. /\ Typed /\ Locking /\ Apart /\ ArgsLive /\ Kept BY DEF Inv
<1>2. /\ \A u \in Threads : CallShape(call[u])'
      /\ Locking' /\ gs_mutex' \in Threads \cup {NULL}
  BY <1>1, MoveLocks
<1>3. call' \in [Threads -> CallType] /\ native' \subseteq Handles BY <1>1 DEF Moves, Typed
<1>4. Typed' BY <1>1, <1>2, <1>3 DEF Typed
<1>5. call[t].result = NULL BY <1>1 DEF Typed, CallShape
<1>6. Args(call'[t]) = Args(call[t]) /\ Doomed(call'[t]) = Doomed(call[t])
  BY DEF Moves, Args, Doomed
<1>7. \A u \in Threads : /\ Args(call'[u]) = Args(call[u])
                         /\ Doomed(call'[u]) = Doomed(call[u])
                         /\ \/ call'[u].result = call[u].result
                            \/ call[u].result = NULL /\ call'[u].result \in N
  BY <1>5, <1>6 DEF Moves
<1>8. /\ N \subseteq Handles /\ N \cap native = {} /\ native' = native \cup N
      /\ \A u, v \in Threads : u # v /\ call'[u].result \in N => call'[u].result # call'[v].result
      /\ \A h \in N : \E u \in Threads : h = call'[u].result
  BY <1>1 DEF Moves, Apart
<1> HIDE DEF N
<1>9. Apart' /\ ArgsLive' /\ Kept' BY <1>1, <1>7, <1>8, NewResults
<1> QED BY <1>2, <1>4, <1>9 DEF Inv

(***************************************************************************)
(* createClient fails and leaves its line behind.                           *)
(***************************************************************************)
LEMMA AbandonInv ==
  ASSUME Inv, NEW t \in Threads, NEW r \in Sockets, r \notin native, Moves(t, "done", NULL),
         process = "runs", call[t].op = "createClient", call[t].at = "begin",
         native' = native \cup {r}, abandoned' = abandoned \cup {r},
         UNCHANGED <<language, line, frames, refs, gil, gs_mutex, process>>
  PROVE  Inv'
<1>1. /\ Typed /\ Locking /\ Apart /\ ArgsLive /\ Kept BY DEF Inv
<1>2. NULL \notin Protocols /\ NULL \notin Messages BY BindingsAssumption DEF Handles
<1>3. /\ \A u \in Threads : CallShape(call[u])'
      /\ Locking' /\ gs_mutex' \in Threads \cup {NULL}
  BY <1>1, <1>2, MoveLocks
<1>4. r \in Handles /\ r # NULL BY BindingsAssumption DEF Handles, Lines
<1>5. call' \in [Threads -> CallType] BY DEF Moves
<1>6. Typed' BY <1>1, <1>3, <1>4, <1>5 DEF Typed
<1>7. call[t].result = NULL BY <1>1 DEF Typed, CallShape
<1>8. \A u \in Threads : /\ Args(call'[u]) = Args(call[u]) /\ Doomed(call'[u]) = Doomed(call[u])
                         /\ call'[u].result = call[u].result
  <2>1. Args(call'[t]) = Args(call[t]) /\ Doomed(call'[t]) = Doomed(call[t]) BY DEF Moves, Args, Doomed
  <2> QED BY <1>7, <2>1 DEF Moves
<1>9. Apart' BY <1>1, <1>8 DEF Apart
<1>10. ArgsLive' BY <1>1, <1>8 DEF ArgsLive
<1>11. Kept'
  <2>1. \A u \in Threads : r \notin refs[u] /\ call[u].result # r BY <1>1, <1>4 DEF Apart
  <2> QED BY <1>1, <1>8, <2>1 DEF Kept
<1> QED BY <1>3, <1>6, <1>9, <1>10, <1>11 DEF Inv

(***************************************************************************)
(* A call that makes an object ends with it, or with none.                  *)
(***************************************************************************)
LEMMA ObtainInv ==
  ASSUME Inv, NEW t \in Threads, NEW r \in {NULL} \cup Fresh(Lines \cup Acceptors),
         process = "runs", call[t].op \in Creations \cup {"waitConnection"}, call[t].at # "done",
         call' = Done(t, r), native' = native \cup ({r} \ {NULL}),
         gs_mutex' = IF call[t].at = "locked" THEN NULL ELSE gs_mutex,
         UNCHANGED <<language, line, frames, refs, gil, process, abandoned>>
  PROVE  Inv'
<1>1. /\ r \in Handles \cup {NULL} /\ r \notin native /\ r \notin Protocols /\ r \notin Messages
  BY BindingsAssumption DEF Fresh, Handles, Inv, Typed
<1>2. Moves(t, "done", r) BY <1>1, CallMoves DEF Inv, Typed
<1>3. frames' \in [Messages -> 0..MaxFrames] BY DEF Inv, Typed
<1>4. call[t].op \notin {"none", "~IoAcceptor"} BY DEF Creations
<1> QED BY <1>1, <1>2, <1>3, <1>4, ResultInv

(***************************************************************************)
(* createClient and createServer.                                           *)
(***************************************************************************)
LEMMA CreationInv ==
  ASSUME Inv, NEW t \in Threads, CreateAtOnce(t) \/ CreateServer(t)
  PROVE  Inv'
<1>1. CASE CreateServer(t)
  <2>1. PICK r \in {NULL} \cup Fresh(InprocAcceptors) :
          native' = native \cup ({r} \ {NULL}) /\ call' = Done(t, r)
    BY <1>1 DEF CreateServer
  <2>2. r \in {NULL} \cup Fresh(Lines \cup Acceptors) BY DEF Fresh, Acceptors
  <2>3. /\ process = "runs" /\ call[t].op \in Creations /\ call[t].at = "locked" /\ gs_mutex' = NULL
        /\ UNCHANGED <<language, line, frames, refs, gil, process, abandoned>>
    BY <1>1 DEF CreateServer, At, Creations
  <2> QED BY <2>1, <2>2, <2>3, ObtainInv
<1>2. CASE CreateAtOnce(t)
  <2>1. /\ process = "runs" /\ call[t].op \in Creations /\ call[t].at = "begin"
        /\ UNCHANGED <<language, line, frames, refs, gil, gs_mutex, process>>
    BY <1>2 DEF CreateAtOnce, At, Creations
  <2>2. ASSUME call' = Done(t, NULL), UNCHANGED <<native, abandoned>> PROVE Inv'
    BY <2>1, <2>2, ObtainInv
  <2>3. ASSUME NEW r \in Fresh(Sockets \cup SocketAcceptors), native' = native \cup {r}, call' = Done(t, r),
               UNCHANGED abandoned
        PROVE  Inv'
    <3>1. r \in Fresh(Lines \cup Acceptors) /\ r # NULL
      BY BindingsAssumption DEF Fresh, Lines, Acceptors, Handles
    <3> QED BY <2>1, <2>3, <3>1, ObtainInv
  <2>4. ASSUME NEW r \in Fresh(Sockets), native' = native \cup {r}, call[t].op = "createClient",
               call' = Done(t, NULL), abandoned' = abandoned \cup {r}
        PROVE  Inv'
    <3>1. Moves(t, "done", NULL) BY <2>4, CallMoves DEF Inv, Typed
    <3> QED BY <2>1, <2>4, <3>1, AbandonInv DEF Fresh
  <2>5. \/ call' = Done(t, NULL) /\ UNCHANGED <<native, abandoned>>
        \/ \E r \in Fresh(IF call[t].op = "createClient" THEN Sockets ELSE SocketAcceptors) :
             /\ native' = native \cup {r}
             /\ \/ call' = Done(t, r) /\ UNCHANGED abandoned
                \/ call[t].op = "createClient" /\ call' = Done(t, NULL) /\ abandoned' = abandoned \cup {r}
    BY <1>2 DEF CreateAtOnce
  <2>6. Fresh(Sockets) \subseteq Fresh(Sockets \cup SocketAcceptors)
        /\ Fresh(SocketAcceptors) \subseteq Fresh(Sockets \cup SocketAcceptors)
    BY DEF Fresh
  <2> QED BY <2>2, <2>3, <2>4, <2>5, <2>6
<1> QED BY <1>1, <1>2

(***************************************************************************)
(* waitConnection of a socket acceptor.                                     *)
(***************************************************************************)
LEMMA AcceptInv ==
  ASSUME Inv, NEW t \in Threads, AcceptSocket(t)
  PROVE  Inv'
<1>1. Typed BY DEF Inv
<1>2. /\ process = "runs" /\ call[t].op = "waitConnection"
      /\ UNCHANGED <<language, line, frames, refs, gil, gs_mutex, process, abandoned>>
  BY DEF AcceptSocket, At
<1>3. ASSUME call[t].at = "begin", call' = [call EXCEPT ![t].at = "asleep"], UNCHANGED native
      PROVE  Inv'
  <2>1. call[t].result = NULL BY <1>1, <1>3 DEF Typed, CallShape
  <2>2. Moves(t, "asleep", NULL)
    <3>1. NULL \in Handles \cup {NULL} OBVIOUS
    <3>2. Moves(t, "asleep", call[t].result) BY <1>1, <1>3, <3>1, CallMoves DEF Typed
    <3> QED BY <2>1, <3>2
  <2>3. frames' \in [Messages -> 0..MaxFrames] BY <1>1, <1>2 DEF Typed
  <2> QED BY <1>2, <1>3, <2>2, <2>3, InsideInv
<1>4. ASSUME call[t].at = "asleep", NEW r \in {NULL} \cup Fresh(Sockets),
             native' = native \cup ({r} \ {NULL}), call' = Done(t, r)
      PROVE  Inv'
  <2>1. r \in {NULL} \cup Fresh(Lines \cup Acceptors) BY DEF Fresh, Lines
  <2> QED BY <1>2, <1>4, <2>1, ObtainInv
<1> QED BY <1>3, <1>4 DEF AcceptSocket, At

(***************************************************************************)
(* waitConnection gives both ends of an inproc connection a line.           *)
(***************************************************************************)
LEMMA ConnectInv ==
  ASSUME Inv, NEW t \in Threads, NEW u \in Threads, Connect(t, u)
  PROVE  Inv'
<1>1. /\ Typed /\ Locking /\ Apart /\ ArgsLive /\ Kept BY DEF Inv
<1>2. /\ process = "runs" /\ call[t].op = "waitConnection" /\ call[t].at = "locked"
      /\ call[u].op = "createClient" /\ call[u].at = "asleep" /\ gs_mutex' = NULL
      /\ UNCHANGED <<language, line, frames, refs, gil, process, abandoned>>
  BY DEF Connect, At
<1>3. PICK l \in Fresh(InprocLines), k \in Fresh(InprocLines) :
        /\ l # k /\ native' = native \cup {l, k}
        /\ call' = [call EXCEPT ![t].at = "done", ![t].result = l, ![u].at = "done", ![u].result = k]
  BY DEF Connect
<1> DEFINE N == {l, k}
           c == [call[t] EXCEPT !.at = "done", !.result = l]
           d == [call[u] EXCEPT !.at = "done", !.result = k]
<1>4. /\ N \subseteq Handles /\ N \cap native = {} /\ N \cap Protocols = {} /\ N \cap Messages = {}
      /\ NULL \notin N
  BY BindingsAssumption DEF Fresh, Handles, Lines
<1>5. t # u BY <1>2
<1>6. /\ c \in CallType /\ c.op = call[t].op /\ c.args = call[t].args /\ c.at = "done" /\ c.result = l
      /\ d \in CallType /\ d.op = call[u].op /\ d.args = call[u].args /\ d.at = "done" /\ d.result = k
  <2>1. call[t] \in CallType /\ call[u] \in CallType BY <1>1 DEF Typed
  <2> QED BY <1>4, <2>1 DEF CallType
<1>7. /\ call'[t] = c /\ call'[u] = d /\ call' \in [Threads -> CallType]
      /\ \A v \in Threads \ {t, u} : call'[v] = call[v]
  <2>1. call \in [Threads -> CallType] BY <1>1 DEF Typed
  <2>2. call' = [call EXCEPT ![t] = c, ![u] = d] BY <1>3, <1>5, <2>1
  <2> HIDE DEF c, d
  <2> QED BY <1>5, <1>6, <2>1, <2>2
<1> HIDE DEF c, d
<1>8. /\ CallShape(call[t]) /\ CallShape(call[u]) BY <1>1 DEF Typed
<1>9. ASSUME NEW v \in Threads PROVE CallShape(call[v])'
  <2>1. CASE v = t
    <3>1. call'[v].op = "waitConnection" /\ call'[v].at = "done" /\ call'[v].args = call[t].args
          /\ call'[v].result = l
      BY <1>2, <1>6, <1>7, <2>1
    <3> QED BY <1>2, <1>4, <1>8, <3>1 DEF CallShape
  <2>2. CASE v = u
    <3>1. call'[v].op = "createClient" /\ call'[v].at = "done" /\ call'[v].args = call[u].args
          /\ call'[v].result = k
      BY <1>2, <1>6, <1>7, <2>2
    <3> QED BY <1>2, <1>4, <1>8, <3>1 DEF CallShape
  <2>3. CASE v \notin {t, u}
    <3>1. call'[v] = call[v] /\ CallShape(call[v]) BY <1>1, <1>7, <2>3 DEF Typed
    <3> QED BY <1>2, <3>1 DEF CallShape
  <2> QED BY <2>1, <2>2, <2>3
<1>10. native' \subseteq Handles BY <1>1, <1>3, <1>4 DEF Typed
<1>11. Typed' BY <1>1, <1>2, <1>7, <1>9, <1>10 DEF Typed
<1>12. \A v \in Threads : call'[v].op = call[v].op BY <1>6, <1>7
<1>13. \A v \in Threads : gs_mutex' = v <=> call'[v].at = "locked"
  <2>1. NULL \notin Threads BY BindingsAssumption
  <2>2. \A v \in Threads : gs_mutex = v <=> call[v].at = "locked" BY <1>1 DEF Locking
  <2>3. gs_mutex = t BY <1>2, <2>2
  <2>4. \A v \in Threads \ {t, u} : call'[v].at # "locked" BY <1>7, <2>2, <2>3
  <2> QED BY <1>2, <1>6, <1>7, <2>1, <2>4
<1>14. Locking' BY <1>1, <1>2, <1>12, <1>13 DEF Locking
<1>15. \A v \in {t, u} : /\ Args(call'[v]) = Args(call[v]) /\ Doomed(call'[v]) = Doomed(call[v])
                         /\ call[v].result = NULL
  BY <1>2, <1>6, <1>7, <1>8 DEF Args, Doomed, CallShape
<1>16. \A v \in Threads : /\ Args(call'[v]) = Args(call[v])
                          /\ Doomed(call'[v]) = Doomed(call[v])
                          /\ \/ call'[v].result = call[v].result
                             \/ call[v].result = NULL /\ call'[v].result \in N
  BY <1>6, <1>7, <1>15
<1>17. \A v, w \in Threads : v # w /\ call'[v].result \in N => call'[v].result # call'[w].result
  <2>1. \A v \in Threads \ {t, u} : call'[v].result \notin N
    BY <1>1, <1>4, <1>7 DEF Apart
  <2> QED BY <1>3, <1>6, <1>7, <2>1
<1>18. \A h \in N : \E v \in Threads : h = call'[v].result BY <1>6, <1>7
<1>19. native' = native \cup N BY <1>3
<1> HIDE DEF N
<1>20. Apart' /\ ArgsLive' /\ Kept'
  BY <1>1, <1>2, <1>4, <1>16, <1>17, <1>18, <1>19, NewResults
<1> QED BY <1>11, <1>14, <1>20 DEF Inv

-------------------------------------------------------------------------------
\* Objects go.

(***************************************************************************)
(* A deleted object has no contents.                                        *)
(***************************************************************************)
LEMMA DeleteTyped ==
  ASSUME Typed, NEW hs, Delete(hs)
  PROVE  /\ native' = native \ hs /\ native' \subseteq Handles
         /\ \A p \in Protocols : line'[p] = IF p \in hs THEN NULL ELSE line[p]
         /\ line' \in [Protocols -> Lines \cup {NULL}]
         /\ frames' \in [Messages -> 0..MaxFrames]
<1>1. native' = native \ hs /\ native' \subseteq Handles BY DEF Typed, Delete
<1>2. /\ \A p \in Protocols : line'[p] = IF p \in hs THEN NULL ELSE line[p]
      /\ line' \in [Protocols -> Lines \cup {NULL}]
  BY DEF Typed, Delete
<1>3. 0 \in 0..MaxFrames BY BindingsAssumption
<1>4. frames' \in [Messages -> 0..MaxFrames] BY <1>3 DEF Typed, Delete
<1> QED BY <1>1, <1>2, <1>4

(***************************************************************************)
(* What is deleted is out of reach.                                         *)
(***************************************************************************)
LEMMA DeleteObjects ==
  ASSUME Typed, Apart, ArgsLive, Kept, NEW hs, Delete(hs), UNCHANGED <<language, abandoned>>,
         abandoned \cap hs = {},
         \A u \in Threads :
            /\ Args(call'[u]) = Args(call[u]) /\ call'[u].result = call[u].result
            /\ Doomed(call'[u]) = Doomed(call[u]) \ hs
            /\ refs'[u] \subseteq refs[u] \ hs
            /\ call[u].result \notin hs
            /\ language = "python" => refs'[u] = refs[u] \ hs /\ Args(call[u]) \cap hs = {}
            /\ language = "go" =>
                 /\ (Args(call[u]) \ Messages) \cap hs = {}
                 /\ \A p \in Protocols : p \in refs'[u] \cup Args(call[u]) => line[p] \notin hs
  PROVE  Apart' /\ ArgsLive' /\ Kept'
<1>1. /\ native' = native \ hs
      /\ \A p \in Protocols : line'[p] = IF p \in hs THEN NULL ELSE line[p]
  BY DeleteTyped
<1>2. Apart'
  <2>1. ASSUME NEW u \in Threads
        PROVE  /\ refs'[u] \subseteq native' /\ Doomed(call'[u]) \subseteq native'
               /\ call'[u].result \in native' \cup {NULL}
    BY <1>1 DEF Apart
  <2>2. ASSUME NEW u \in Threads, NEW v \in Threads
        PROVE  /\ Doomed(call'[u]) \cap refs'[v] = {}
               /\ Doomed(call'[u]) \cap Args(call'[v]) = {}
               /\ call'[v].result \notin Doomed(call'[u])
               /\ call'[u].result \notin refs'[v]
               /\ u # v => Doomed(call'[u]) \cap Doomed(call'[v]) = {}
    BY DEF Apart
  <2>3. ASSUME NEW u \in Threads, NEW v \in Threads, u # v
        PROVE  call'[u].result = NULL \/ call'[u].result # call'[v].result
    BY <2>3 DEF Apart
  <2> QED BY <2>1, <2>2, <2>3 DEF Apart
<1>3. ASSUME NEW u \in Threads
      PROVE  /\ language = "python" => Args(call'[u]) \subseteq refs'[u]
             /\ language = "go" => Args(call'[u]) \ Messages \subseteq native'
  BY <1>1 DEF ArgsLive
<1>4. ASSUME NEW u \in Threads, language = "go", NEW p \in Protocols, p \in refs'[u] \cup Args(call'[u])
      PROVE  line'[p] \in native' \cup {NULL}
  <2>1. p \in refs[u] \cup Args(call[u]) BY <1>4
  <2>2. line[p] \in native \cup {NULL} BY <1>4, <2>1 DEF ArgsLive
  <2>3. line[p] \notin hs BY <1>4
  <2> QED BY <1>1, <2>2, <2>3
<1>5. ArgsLive' BY <1>3, <1>4 DEF ArgsLive
<1>6. Kept'
  <2> SUFFICES ASSUME language = "python", NEW h \in native \ (hs \cup abandoned)
               PROVE  \E u \in Threads : h \in refs'[u] \/ h \in Doomed(call'[u]) \/ h = call'[u].result
    BY <1>1 DEF Kept
  <2>1. PICK u \in Threads : h \in refs[u] \/ h \in Doomed(call[u]) \/ h = call[u].result
    BY DEF Kept
  <2> QED BY <2>1
<1> QED BY <1>2, <1>5, <1>6

(***************************************************************************)
(* ~InprocAcceptor begins, for an acceptor that nobody else has.            *)
(***************************************************************************)
LEMMA DoomInv ==
  ASSUME Inv, NEW t \in Threads, NEW h \in Acceptors, h \in refs[t], Runs(t),
         call' = [call EXCEPT ![t] = [NoCall EXCEPT !.op = "~IoAcceptor", !.at = "begin", !.args = {h}]],
         refs' \in [Threads -> SUBSET Handles],
         \A u \in Threads : /\ refs'[u] \subseteq refs[u] \ {h}
                            /\ language = "python" => refs'[u] = refs[u] \ {h}
                            /\ h \notin Args(call[u]),
         UNCHANGED <<language, native, line, frames, gil, gs_mutex, process, abandoned>>
  PROVE  Inv'
<1> DEFINE c == [NoCall EXCEPT !.op = "~IoAcceptor", !.at = "begin", !.args = {h}]
<1>1. /\ Typed /\ Locking /\ Apart /\ ArgsLive /\ Kept BY DEF Inv
<1>2. /\ process = "runs" /\ call[t] = NoCall /\ (language = "python" => gil = t)
  BY DEF Runs
<1>3. c.op = "~IoAcceptor" /\ c.at = "begin" /\ c.args = {h} /\ c.result = NULL /\ c \in CallType
  BY DEF NoCall, CallType, Operations, Handles
<1>4. /\ call'[t] = c /\ (\A u \in Threads \ {t} : call'[u] = call[u]) /\ call' \in [Threads -> CallType]
  <2>1. call \in [Threads -> CallType] /\ call' = [call EXCEPT ![t] = c] BY <1>1 DEF Typed
  <2> HIDE DEF c
  <2> QED BY <1>3, <2>1
<1> HIDE DEF c
<1>5. /\ NULL \notin Protocols /\ NULL \notin Messages /\ NULL \notin Threads /\ h \notin Messages
      /\ h # NULL
  BY BindingsAssumption DEF Handles
<1>6. ASSUME NEW u \in Threads PROVE CallShape(call[u])'
  <2>1. CASE u = t
    <3>1. /\ call'[u].op = "~IoAcceptor" /\ call'[u].at = "begin" /\ call'[u].result = NULL
          /\ call'[u].args \cap Messages = {} /\ call'[u].args \subseteq Acceptors
      <4>1. call'[u] = c BY <1>4, <2>1
      <4>2. {h} \cap Messages = {} /\ {h} \subseteq Acceptors BY <1>5
      <4> QED BY <1>3, <4>1, <4>2
    <3> QED BY <1>5, <3>1 DEF CallShape
  <2>2. CASE u # t
    <3>1. call'[u] = call[u] /\ CallShape(call[u]) BY <1>1, <1>4, <2>2 DEF Typed
    <3> QED BY <3>1 DEF CallShape
  <2> QED BY <2>1, <2>2
<1>7. Typed' BY <1>1, <1>4, <1>6 DEF Typed
<1>8. Locking'
  <2>1. call[t].op = "none" /\ call[t].at = "outside" BY <1>2, OutsideFacts
  <2>2. \A u \in Threads : gs_mutex' = u <=> call'[u].at = "locked"
    BY <1>1, <1>3, <1>4, <2>1 DEF Locking
  <2>3. "~IoAcceptor" \notin Releases BY DEF Releases, Transfers
  <2>4. ASSUME NEW u \in Threads
        PROVE  /\ language = "python" /\ call'[u].op \notin Releases \cup {"none"} => gil' = u
               /\ gil' = u => call'[u].op \notin Releases
    <3>1. CASE u = t BY <1>2, <1>3, <1>4, <2>3, <3>1
    <3>2. CASE u # t BY <1>1, <1>4, <3>2 DEF Locking
    <3> QED BY <3>1, <3>2
  <2> QED BY <1>1, <2>2, <2>4 DEF Locking
<1>9. Args(call'[t]) = {} /\ Doomed(call'[t]) = {h} /\ call'[t].result = NULL
  BY <1>3, <1>4 DEF Args, Doomed
<1>10. Args(call[t]) = {} /\ Doomed(call[t]) = {} /\ call[t].result = NULL
  BY <1>2, OutsideFacts
<1>11. \A u \in Threads \ {t} : /\ Args(call'[u]) = Args(call[u]) /\ Doomed(call'[u]) = Doomed(call[u])
                                /\ call'[u].result = call[u].result
  BY <1>4
<1>12. Apart'
  <2>1. ASSUME NEW u \in Threads
        PROVE  /\ refs'[u] \subseteq native /\ Doomed(call'[u]) \subseteq native
               /\ call'[u].result \in native \cup {NULL}
    BY <1>1, <1>9, <1>11 DEF Apart
  <2>2. ASSUME NEW u \in Threads, NEW v \in Threads
        PROVE  /\ Doomed(call'[u]) \cap refs'[v] = {}
               /\ Doomed(call'[u]) \cap Args(call'[v]) = {}
               /\ call'[v].result \notin Doomed(call'[u])
    <3>1. CASE u = t BY <1>1, <1>5, <1>9, <1>11, <3>1 DEF Apart
    <3>2. CASE u # t BY <1>1, <1>9, <1>10, <1>11, <3>2 DEF Apart
    <3> QED BY <3>1, <3>2
  <2>3. ASSUME NEW u \in Threads, NEW v \in Threads
        PROVE  call'[u].result \notin refs'[v]
    BY <1>1, <1>9, <1>10, <1>11 DEF Apart
  <2>4. ASSUME NEW u \in Threads, NEW v \in Threads, u # v
        PROVE  /\ Doomed(call'[u]) \cap Doomed(call'[v]) = {}
               /\ call'[u].result = NULL \/ call'[u].result # call'[v].result
    BY <1>1, <1>9, <1>10, <1>11, <2>4 DEF Apart
  <2> QED BY <2>1, <2>2, <2>3, <2>4 DEF Apart
<1>13. \A u \in Threads : Args(call'[u]) = Args(call[u]) BY <1>9, <1>10, <1>11
<1>14. ArgsLive' BY <1>1, <1>13 DEF ArgsLive
<1>15. Kept'
  <2> SUFFICES ASSUME language = "python", NEW g \in native \ abandoned
               PROVE  \E u \in Threads : g \in refs'[u] \/ g \in Doomed(call'[u]) \/ g = call'[u].result
    <3>1. NULL \notin abandoned BY <1>1, BindingsAssumption DEF Kept, Typed
    <3> QED BY <1>1, <1>9, <1>11, <3>1 DEF Kept
  <2>1. PICK u \in Threads : g \in refs[u] \/ g \in Doomed(call[u]) \/ g = call[u].result
    BY <1>1 DEF Kept
  <2>2. g # NULL
    <3>1. g \in Handles BY <1>1 DEF Typed
    <3> QED BY <3>1, BindingsAssumption
  <2>3. CASE g = h BY <1>9, <2>3
  <2>4. CASE g # h BY <1>10, <1>11, <2>1, <2>2, <2>4
  <2> QED BY <2>3, <2>4
<1> QED BY <1>7, <1>8, <1>12, <1>14, <1>15 DEF Inv

(***************************************************************************)
(* Python: an object goes with the last reference to it, and not before.    *)
(***************************************************************************)
LEMMA DropInv ==
  ASSUME Inv, NEW t \in Threads, NEW h \in refs[t], Drop(t, h)
  PROVE  Inv'
<1>1. /\ Typed /\ Locking /\ Apart /\ ArgsLive /\ Kept BY DEF Inv
<1>2. /\ Runs(t) /\ process = "runs" /\ call[t] = NoCall /\ gil = t
      /\ language = "python" /\ h \in refs[t]
      /\ refs' = [refs EXCEPT ![t] = @ \ {h}]
      /\ UNCHANGED <<language, gil, gs_mutex, process, abandoned>>
  BY DEF Drop, Runs
<1>3. /\ refs'[t] = refs[t] \ {h} /\ \A u \in Threads \ {t} : refs'[u] = refs[u]
      /\ refs' \in [Threads -> SUBSET Handles]
  BY <1>1, <1>2 DEF Typed
<1>4. Args(call[t]) = {} /\ Doomed(call[t]) = {} /\ call[t].result = NULL /\ call[t].args = {}
  BY <1>2, OutsideFacts
<1>5. CASE \E u \in Threads \ {t} : h \in refs[u] \cup call[u].args
  <2>1. UNCHANGED <<native, line, frames, call>> BY <1>5 DEF Drop
  <2>2. PICK u \in Threads \ {t} : h \in refs[u] \cup call[u].args BY <1>5
  <2>3. h \in refs[u]
    <3>1. "~IoAcceptor" \notin Releases \cup {"none"} BY DEF Releases, Transfers
    <3>2. call[u].op # "~IoAcceptor" BY <1>1, <1>2, <2>2, <3>1 DEF Locking
    <3>3. Args(call[u]) = call[u].args BY <3>2 DEF Args
    <3> QED BY <1>1, <1>2, <2>2, <3>3 DEF ArgsLive
  <2>4. \A v \in Threads : refs'[v] \subseteq refs[v] BY <1>3
  <2>5. Apart' BY <1>1, <2>1, <2>4 DEF Apart
  <2>6. ArgsLive' BY <1>1, <1>2, <1>3, <1>4, <2>1 DEF ArgsLive
  <2>7. ASSUME NEW g \in native \ abandoned
        PROVE  \E v \in Threads : g \in refs'[v] \/ g \in Doomed(call[v]) \/ g = call[v].result
    <3>1. PICK v \in Threads : g \in refs[v] \/ g \in Doomed(call[v]) \/ g = call[v].result
      BY <1>1, <1>2 DEF Kept
    <3>2. CASE g = h BY <1>3, <2>2, <2>3, <3>2
    <3>3. CASE g # h BY <1>3, <3>1, <3>3
    <3> QED BY <3>2, <3>3
  <2>8. Kept' BY <1>1, <1>2, <2>1, <2>4, <2>7 DEF Kept
  <2>9. /\ native' \subseteq Handles /\ line' \in [Protocols -> Lines \cup {NULL}]
        /\ frames' \in [Messages -> 0..MaxFrames]
    BY <1>1, <2>1 DEF Typed
  <2> QED BY <1>2, <1>3, <2>1, <2>5, <2>6, <2>8, <2>9, StatementInv
<1>6. CASE \A u \in Threads \ {t} : h \notin refs[u] \cup call[u].args
  <2>1. \A u \in Threads : /\ refs'[u] = refs[u] \ {h} /\ h \notin Args(call[u])
    BY <1>3, <1>4, <1>6 DEF Args
  <2>2. CASE h \in InprocAcceptors
    <3>1. /\ call' = [call EXCEPT ![t] = [NoCall EXCEPT !.op = "~IoAcceptor", !.at = "begin", !.args = {h}]]
          /\ UNCHANGED <<native, line, frames>>
      BY <1>6, <2>2 DEF Drop
    <3>2. h \in Acceptors BY <2>2 DEF Acceptors
    <3> QED BY <1>2, <1>3, <2>1, <3>1, <3>2, DoomInv
  <2>3. CASE h \notin InprocAcceptors
    <3>1. Delete({h}) /\ call' = call BY <1>6, <2>3 DEF Drop, Deleted
    <3>2. \A u \in Threads : Doomed(call'[u]) = Doomed(call[u]) \ {h} /\ call[u].result # h
      BY <1>1, <1>2, <3>1 DEF Apart
    <3>3. Apart' /\ ArgsLive' /\ Kept'
      <4>1. abandoned \cap {h} = {} BY <1>1 DEF Kept
      <4> QED BY <1>1, <1>2, <2>1, <3>1, <3>2, <4>1, DeleteObjects
    <3> QED BY <1>1, <1>2, <1>3, <3>1, <3>3, DeleteTyped, StatementInv
  <2> QED BY <2>2, <2>3
<1> QED BY <1>5, <1>6

(***************************************************************************)
(* Go: the program closes what it does not use any more.                    *)
(***************************************************************************)
LEMMA CloseInv ==
  ASSUME Inv, NEW t \in Threads, NEW h \in refs[t], Close(t, h)
  PROVE  Inv'
<1>1. /\ Typed /\ Locking /\ Apart /\ ArgsLive /\ Kept BY DEF Inv
<1>2. /\ Runs(t) /\ process = "runs" /\ call[t] = NoCall
      /\ language = "go" /\ h \in refs[t] \ Messages
      /\ \A u \in Threads : h \notin Uses(call[u])
      /\ refs' = [u \in Threads |-> refs[u] \ ({h} \cup {p \in Protocols : line[p] = h})]
      /\ UNCHANGED <<language, gil, gs_mutex, process, abandoned>>
  BY DEF Close, Runs
<1>3. /\ \A u \in Threads : refs'[u] = refs[u] \ ({h} \cup {p \in Protocols : line[p] = h})
      /\ refs' \in [Threads -> SUBSET Handles]
  BY <1>1, <1>2 DEF Typed
<1>4. ASSUME NEW u \in Threads
      PROVE  /\ refs'[u] \subseteq refs[u] \ {h} /\ h \notin Args(call[u])
             /\ \A p \in Protocols : p \in refs'[u] \cup Args(call[u]) => line[p] # h
  BY <1>2, <1>3 DEF Uses, Args
<1>5. CASE h \in InprocAcceptors
  <2>1. /\ call' = [call EXCEPT ![t] = [NoCall EXCEPT !.op = "~IoAcceptor", !.at = "begin", !.args = {h}]]
        /\ UNCHANGED <<native, line, frames>>
    BY <1>5 DEF Close
  <2>2. h \in Acceptors BY <1>5 DEF Acceptors
  <2> QED BY <1>2, <1>3, <1>4, <2>1, <2>2, DoomInv
<1>6. CASE h \notin InprocAcceptors
  <2>1. Delete({h}) /\ call' = call BY <1>6 DEF Close, Deleted
  <2>2. \A u \in Threads : Doomed(call'[u]) = Doomed(call[u]) \ {h} /\ call[u].result # h
    BY <1>1, <1>2, <2>1 DEF Apart
  <2>3. Apart' /\ ArgsLive' /\ Kept'
    <3>1. abandoned \cap {h} = {} BY <1>1 DEF Kept
    <3> QED BY <1>1, <1>2, <1>4, <2>1, <2>2, <3>1, DeleteObjects
  <2> QED BY <1>1, <1>2, <1>3, <2>1, <2>3, DeleteTyped, StatementInv
<1> QED BY <1>5, <1>6

(***************************************************************************)
(* Go: the collector deletes a message.                                     *)
(***************************************************************************)
LEMMA FinalizeInv ==
  ASSUME Inv, NEW m \in Messages, Finalize(m)
  PROVE  Inv'
<1>1. /\ Typed /\ Locking /\ Apart /\ ArgsLive /\ Kept BY DEF Inv
<1>2. /\ process = "runs" /\ language = "go" /\ Delete({m}) /\ \A u \in Threads : m \notin refs[u]
      /\ UNCHANGED <<language, refs, call, gil, gs_mutex, process, abandoned>>
  BY DEF Finalize
<1>3. m \notin Acceptors /\ m \notin Lines /\ m # NULL BY BindingsAssumption DEF Handles
<1>4. ASSUME NEW u \in Threads
      PROVE  Doomed(call'[u]) = Doomed(call[u]) \ {m} /\ call[u].result # m
  BY <1>1, <1>2, <1>3 DEF Typed, CallShape, Doomed
<1>5. \A p \in Protocols : line[p] # m BY <1>1, <1>3 DEF Typed
<1>6. Apart' /\ ArgsLive' /\ Kept'
  <2>1. abandoned \cap {m} = {} BY <1>1, <1>3 DEF Typed, Lines
  <2> QED BY <1>1, <1>2, <1>4, <1>5, <2>1, DeleteObjects
<1>7. refs' \in [Threads -> SUBSET Handles] BY <1>1, <1>2 DEF Typed
<1> QED BY <1>1, <1>2, <1>6, <1>7, DeleteTyped, StatementInv

(***************************************************************************)
(* ~InprocAcceptor under gs_mutex.                                          *)
(***************************************************************************)
LEMMA DestroyInv ==
  ASSUME Inv, NEW t \in Threads, DestroyAcceptor(t)
  PROVE  Inv'
<1> DEFINE hs == call[t].args
<1>1. /\ Typed /\ Locking /\ Apart /\ ArgsLive /\ Kept BY DEF Inv
<1>2. /\ process = "runs" /\ call[t].op = "~IoAcceptor" /\ call[t].at = "locked" /\ Delete(hs)
      /\ gs_mutex' = NULL /\ call' = Done(t, NULL) /\ UNCHANGED <<language, refs, gil, process, abandoned>>
  BY DEF DestroyAcceptor, At
<1>3. Moves(t, "done", NULL) BY <1>1, <1>2, CallMoves DEF Typed
<1>4. /\ NULL \notin Protocols /\ NULL \notin Messages /\ NULL \notin Acceptors BY BindingsAssumption DEF Handles
<1>5. /\ \A u \in Threads : CallShape(call[u])'
      /\ Locking' /\ gs_mutex' \in Threads \cup {NULL}
  BY <1>1, <1>2, <1>3, <1>4, MoveLocks
<1>6. Doomed(call[t]) = hs /\ Doomed(call'[t]) = {} /\ Args(call'[t]) = Args(call[t])
  BY <1>2, <1>3 DEF Doomed, Args, Moves
<1>7. /\ hs \subseteq Acceptors /\ call[t].result = NULL BY <1>1, <1>2 DEF Typed, CallShape
<1>8. \A p \in Protocols : line[p] \notin hs
  BY <1>1, <1>4, <1>7, BindingsAssumption DEF Typed
<1> HIDE DEF hs
<1>9. ASSUME NEW u \in Threads
      PROVE  /\ Args(call'[u]) = Args(call[u]) /\ call'[u].result = call[u].result
             /\ Doomed(call'[u]) = Doomed(call[u]) \ hs
             /\ refs'[u] = refs[u] \ hs
             /\ call[u].result \notin hs /\ Args(call[u]) \cap hs = {}
  <2>1. CASE u = t BY <1>1, <1>2, <1>3, <1>4, <1>6, <1>7, <2>1 DEF Moves, Apart
  <2>2. CASE u # t BY <1>1, <1>2, <1>3, <1>6, <2>2 DEF Moves, Apart
  <2> QED BY <2>1, <2>2
<1>10. Apart' /\ ArgsLive' /\ Kept'
  <2>1. abandoned \cap hs = {} BY <1>1, <1>7, BindingsAssumption DEF Typed, Lines
  <2> QED BY <1>1, <1>2, <1>8, <1>9, <2>1, DeleteObjects
<1>11. Typed'
  <2>1. call' \in [Threads -> CallType] BY <1>3 DEF Moves
  <2>2. /\ native' \subseteq Handles /\ line' \in [Protocols -> Lines \cup {NULL}]
        /\ frames' \in [Messages -> 0..MaxFrames]
    BY <1>1, <1>2, DeleteTyped
  <2> QED BY <1>1, <1>2, <1>5, <2>1, <2>2 DEF Typed
<1> QED BY <1>5, <1>10, <1>11 DEF Inv

-------------------------------------------------------------------------------
\* The rest of the library, and all of it.

(***************************************************************************)
(* Locks are taken and given back, calls fall asleep, wake up and end.      *)
(***************************************************************************)
LEMMA WaitingInv ==
  ASSUME Inv, NEW t \in Threads,
         \/ Lock(t) \/ Queue(t) \/ WaitForClient(t)
         \/ Sleep(t) \/ ReadOrWrite(t) \/ SendMessage(t)
  PROVE  Inv'
<1>1. Typed /\ Locking BY DEF Inv
<1>2. frames' = frames => frames' \in [Messages -> 0..MaxFrames] BY <1>1 DEF Typed
<1>3. call[t].at # "done" => call[t].result = NULL BY <1>1 DEF Typed, CallShape
<1>4. ASSUME NEW x \in {"begin", "locked", "asleep"}, call' = [call EXCEPT ![t].at = x], call[t].at # "done"
      PROVE  Moves(t, x, NULL)
  <2>1. NULL \in Handles \cup {NULL} OBVIOUS
  <2>2. Moves(t, x, call[t].result) BY <1>1, <1>4, <2>1, CallMoves DEF Typed
  <2> QED BY <1>3, <1>4, <2>2
<1>5. ASSUME call' = Done(t, NULL) PROVE Moves(t, "done", NULL)
  BY <1>1, <1>5, CallMoves DEF Typed
<1>6. "~IoAcceptor" \notin Transfers /\ "none" \notin Transfers /\ "createClient" \in Creations
  BY DEF Transfers, Creations
<1>7. CASE Lock(t)
  <2>1. PICK op \in Creations \cup {"waitConnection", "~IoAcceptor"} : At(t, op, "begin")
    BY <1>7 DEF Lock
  <2>2. /\ process = "runs" /\ call[t].op = op /\ call[t].at = "begin" /\ op # "none"
        /\ gs_mutex = NULL /\ gs_mutex' = t /\ call' = [call EXCEPT ![t].at = "locked"]
        /\ UNCHANGED <<language, native, line, frames, refs, gil, process, abandoned>>
    BY <1>7, <2>1 DEF Lock, At, Creations
  <2>3. Moves(t, "locked", NULL) BY <1>4, <2>2
  <2> QED BY <1>2, <2>1, <2>2, <2>3, InsideInv
<1>8. CASE Queue(t)
  <2>1. /\ process = "runs" /\ call[t].op = "createClient" /\ call[t].at = "locked"
        /\ gs_mutex' = NULL /\ call' = [call EXCEPT ![t].at = "asleep"]
        /\ UNCHANGED <<language, native, line, frames, refs, gil, process, abandoned>>
    BY <1>8 DEF Queue, At
  <2>2. Moves(t, "asleep", NULL) BY <1>4, <2>1
  <2> QED BY <1>2, <2>1, <2>2, InsideInv
<1>9. CASE WaitForClient(t)
  <2>1. /\ process = "runs" /\ call[t].op = "waitConnection" /\ call[t].at # "done"
        /\ gs_mutex' = IF call[t].at = "locked" THEN NULL ELSE gs_mutex
        /\ UNCHANGED <<language, native, line, frames, refs, gil, process, abandoned>>
        /\ \/ call' = [call EXCEPT ![t].at = "asleep"]
           \/ call' = [call EXCEPT ![t].at = "begin"]
           \/ call' = Done(t, NULL)
    BY <1>9 DEF WaitForClient, At
  <2>2. Moves(t, "asleep", NULL) \/ Moves(t, "begin", NULL) \/ Moves(t, "done", NULL)
    BY <1>4, <1>5, <2>1
  <2>3. CASE Moves(t, "asleep", NULL) BY <1>2, <2>1, <2>3, InsideInv
  <2>4. CASE Moves(t, "begin", NULL) BY <1>2, <2>1, <2>4, InsideInv
  <2>5. CASE Moves(t, "done", NULL) BY <1>2, <2>1, <2>5, InsideInv
  <2> QED BY <2>2, <2>3, <2>4, <2>5
<1>10. CASE Sleep(t)
  <2>1. /\ process = "runs" /\ call[t].op \in Transfers /\ call[t].at = "begin"
        /\ call' = [call EXCEPT ![t].at = "asleep"]
        /\ UNCHANGED <<language, native, line, frames, refs, gil, gs_mutex, process, abandoned>>
    BY <1>10 DEF Sleep, At
  <2>2. Moves(t, "asleep", NULL) BY <1>4, <2>1
  <2> QED BY <1>2, <1>6, <2>1, <2>2, InsideInv
<1>11. CASE ReadOrWrite(t) \/ SendMessage(t)
  <2>1. /\ process = "runs" /\ call[t].op \in Transfers /\ call[t].at = "asleep"
        /\ call' = Done(t, NULL)
        /\ UNCHANGED <<language, native, line, frames, refs, gil, gs_mutex, process, abandoned>>
    BY <1>11 DEF ReadOrWrite, SendMessage, At, Transfers
  <2>2. Moves(t, "done", NULL) BY <1>5, <2>1
  <2> QED BY <1>2, <1>6, <2>1, <2>2, InsideInv
<1> QED BY <1>7, <1>8, <1>9, <1>10, <1>11

(***************************************************************************)
(* Messages are read and used.                                              *)
(***************************************************************************)
LEMMA MessageInv ==
  ASSUME Inv, NEW t \in Threads, ReadMessage(t) \/ UseMessage(t)
  PROVE  Inv'
<1>1. Typed /\ Locking BY DEF Inv
<1>2. ASSUME call' = Done(t, NULL) PROVE Moves(t, "done", NULL)
  BY <1>1, <1>2, CallMoves DEF Typed
<1>3. CASE ReadMessage(t)
  <2>1. /\ process = "runs" /\ call[t].op = "readMessage" /\ call[t].at = "asleep"
        /\ UNCHANGED <<language, line, refs, gil, gs_mutex, process, abandoned>>
    BY <1>3 DEF ReadMessage, At
  <2>2. ASSUME NEW n \in 0..MaxFrames, language = "python", NEW m \in Fresh(Messages),
               native' = native \cup {m}, frames' = [frames EXCEPT ![m] = n], call' = Done(t, m)
        PROVE  Inv'
    <3>1. /\ m \in Handles \cup {NULL} /\ m \notin native /\ m \notin Protocols /\ m \in Messages
          /\ m # NULL
      BY BindingsAssumption DEF Fresh, Handles
    <3>2. Moves(t, "done", m) BY <1>1, <2>2, <3>1, CallMoves DEF Typed
    <3>3. frames' \in [Messages -> 0..MaxFrames] BY <1>1, <2>2, <3>1 DEF Typed
    <3>4. native' = native \cup ({m} \ {NULL}) BY <2>2, <3>1
    <3> QED BY <2>1, <2>2, <3>1, <3>2, <3>3, <3>4, ResultInv
  <2>3. ASSUME NEW n \in 0..MaxFrames, call' = Done(t, NULL), native' = native,
               frames' = [m \in Messages |-> IF m \in call[t].args THEN n ELSE frames[m]]
        PROVE  Inv'
    <3>1. frames' \in [Messages -> 0..MaxFrames] BY <1>1, <2>3 DEF Typed
    <3> QED BY <1>2, <2>1, <2>3, <3>1, InsideInv
  <2> QED BY <1>3, <2>2, <2>3 DEF ReadMessage
<1>4. CASE UseMessage(t)
  <2>1. /\ process = "runs" /\ call[t].op \in OnMessages \cup {"setOption"} /\ call[t].at = "begin"
        /\ call' = Done(t, NULL)
        /\ UNCHANGED <<language, native, line, refs, gil, gs_mutex, process, abandoned>>
    BY <1>4 DEF UseMessage, At, OnMessages
  <2>2. /\ "~IoAcceptor" \notin OnMessages \cup {"setOption"} /\ "none" \notin OnMessages \cup {"setOption"}
    BY DEF OnMessages
  <2>3. frames' \in [Messages -> 0..MaxFrames]
    <3>1. CASE /\ \A m \in call[t].args : frames[m] < MaxFrames
               /\ frames' = [m \in Messages |-> IF m \in call[t].args THEN frames[m] + 1 ELSE frames[m]]
      <4>1. ASSUME NEW m \in Messages
            PROVE  (IF m \in call[t].args THEN frames[m] + 1 ELSE frames[m]) \in 0..MaxFrames
        <5>1. frames[m] \in 0..MaxFrames /\ MaxFrames \in Nat BY <1>1, BindingsAssumption DEF Typed
        <5> QED BY <3>1, <5>1
      <4> QED BY <3>1, <4>1
    <3>2. CASE frames' = [m \in Messages |-> IF m \in call[t].args THEN 0 ELSE frames[m]]
      <4>1. 0 \in 0..MaxFrames BY BindingsAssumption
      <4> QED BY <1>1, <3>2, <4>1 DEF Typed
    <3>3. CASE frames' = frames BY <1>1, <3>3 DEF Typed
    <3> QED BY <1>4, <3>1, <3>2, <3>3 DEF UseMessage
  <2> QED BY <1>2, <2>1, <2>2, <2>3, InsideInv
<1> QED BY <1>3, <1>4

(***************************************************************************)
(* A process in which there is nothing, before its first call or at its end. *)
(***************************************************************************)
Empty ==
  /\ language \in {"python", "go"}
  /\ native = {} /\ abandoned = {}
  /\ line = [p \in Protocols |-> NULL]
  /\ frames = [m \in Messages |-> 0]
  /\ refs = [t \in Threads |-> {}]
  /\ call = [t \in Threads |-> NoCall]
  /\ gil = NULL /\ gs_mutex = NULL
  /\ process \in {"runs", "out_of_range", "UnsupportedOption", "bad_alloc", "no object", "assertion"}

LEMMA EmptyInv == Empty => Inv
<1> SUFFICES ASSUME Empty PROVE Inv
  OBVIOUS
<1>1. \A t \in Threads : call[t] = NoCall /\ refs[t] = {} BY DEF Empty
<1>2. NULL \notin Threads BY BindingsAssumption
<1>3. Typed
  <2>1. call \in [Threads -> CallType] BY OutsideFacts DEF Empty
  <2>2. \A t \in Threads : CallShape(call[t]) BY <1>1, OutsideFacts
  <2>3. /\ line \in [Protocols -> Lines \cup {NULL}] /\ frames \in [Messages -> 0..MaxFrames]
        /\ refs \in [Threads -> SUBSET Handles]
    <3>1. 0 \in 0..MaxFrames BY BindingsAssumption
    <3> QED BY <3>1 DEF Empty
  <2> QED BY <1>1, <2>1, <2>2, <2>3 DEF Empty, Typed
<1>4. Locking
  <2>1. "none" \notin Releases BY DEF Releases, Transfers
  <2> QED BY <1>1, <1>2, <2>1, OutsideFacts DEF Locking, Empty
<1>5. Apart /\ ArgsLive /\ Kept BY <1>1, OutsideFacts DEF Apart, ArgsLive, Kept, Empty
<1> QED BY <1>3, <1>4, <1>5 DEF Inv

LEMMA EmptyNextInv == Empty' => Inv'
  BY EmptyInv, PTL

LEMMA EndsInv ==
  ASSUME Inv, NEW why \in {"out_of_range", "UnsupportedOption", "bad_alloc", "no object", "assertion"},
         Ends(why)
  PROVE  Inv'
<1>1. Empty' BY DEF Ends, Empty, Inv, Typed
<1> QED BY <1>1, EmptyNextInv

(***************************************************************************)
(* Exceptions, a missing line and the assertion.                            *)
(***************************************************************************)
LEMMA FailureInv ==
  ASSUME Inv, NEW t \in Threads, Throw(t) \/ NoLine(t) \/ NotEmpty(t)
  PROVE  Inv'
<1>1. Typed BY DEF Inv
<1>2. CASE Throw(t)
  <2>1. PICK e \in Thrown(call[t]) :
          \/ /\ call' = Done(t, NULL)
             /\ UNCHANGED <<language, native, line, frames, refs, gil, gs_mutex, process, abandoned>>
          \/ Ends(e)
    BY <1>2 DEF Throw
  <2>2. /\ process = "runs"
        /\ call[t].op \in Creations \cup {"addFrame", "sendMessage", "readMessage", "setOption"}
        /\ call[t].at \in {"begin", "asleep"}
        /\ e \in {"out_of_range", "UnsupportedOption", "bad_alloc"}
    BY <1>2, <2>1 DEF Throw, Thrown
  <2>3. ASSUME call' = Done(t, NULL),
               UNCHANGED <<language, native, line, frames, refs, gil, gs_mutex, process, abandoned>>
        PROVE  Inv'
    <3>1. Moves(t, "done", NULL) BY <1>1, <2>3, CallMoves DEF Typed
    <3>2. call[t].op \notin {"none", "~IoAcceptor"} BY <2>2 DEF Creations
    <3>3. frames' \in [Messages -> 0..MaxFrames] BY <1>1, <2>3 DEF Typed
    <3> QED BY <2>2, <2>3, <3>1, <3>2, <3>3, InsideInv
  <2> QED BY <2>1, <2>2, <2>3, EndsInv
<1>3. CASE NoLine(t) BY <1>3, EndsInv DEF NoLine
<1>4. CASE NotEmpty(t) BY <1>4, EndsInv DEF NotEmpty
<1> QED BY <1>2, <1>3, <1>4

(***************************************************************************)
(* The calls that a program makes.                                          *)
(***************************************************************************)
LEMMA CallInv ==
  ASSUME Inv, NEW t \in Threads, CallPython(t) \/ CallC(t)
  PROVE  Inv'
<1>1. /\ {"createClient", "createServer"} = Creations
      /\ OnMessages = {"addFrame", "getFrame", "clear"}
      /\ Creations \cup Transfers \cup OnMessages \cup {"waitConnection", "setOption"}
           \subseteq Operations \ {"~IoAcceptor"}
      /\ Transfers = {"read or write", "sendMessage", "readMessage"}
  BY DEF Creations, Transfers, OnMessages, Operations
<1>2. /\ \A a \in Acceptors : {a} \in SUBSET Handles /\ {a} \cap Messages = {}
      /\ \A l \in Lines : {l} \in SUBSET Handles /\ {l} \cap Messages = {}
      /\ \A p \in Protocols : {p} \in SUBSET Handles /\ {p} \cap Messages = {}
      /\ \A m \in Messages : {m} \in SUBSET Handles
      /\ \A p \in Protocols, m \in Messages : {p, m} \in SUBSET Handles
  BY BindingsAssumption DEF Handles
<1>3. ASSUME NEW op \in Creations, Begin(t, op, {}) PROVE Inv'
  BY <1>1, <1>3, BeginInv
<1>4. ASSUME NEW a \in Acceptors, Begin(t, "waitConnection", {a}) PROVE Inv'
  BY <1>1, <1>2, <1>4, BeginInv
<1>5. ASSUME NEW l \in Lines, NEW op \in {"read or write", "setOption"}, Begin(t, op, {l}) PROVE Inv'
  BY <1>1, <1>2, <1>5, BeginInv
<1>6. ASSUME NEW p \in Protocols, Begin(t, "readMessage", {p}) PROVE Inv'
  BY <1>1, <1>2, <1>6, BeginInv
<1>7. ASSUME NEW p \in Protocols, NEW m \in Messages, Begin(t, "sendMessage", {p, m}) PROVE Inv'
  BY <1>1, <1>2, <1>7, BeginInv
<1>8. ASSUME language = "go", NEW p \in Protocols, NEW m \in Messages, Begin(t, "readMessage", {p, m})
      PROVE  Inv'
  BY <1>1, <1>2, <1>8, BeginInv
<1>9. ASSUME NEW m \in Messages, NEW op \in OnMessages, Begin(t, op, {m}) PROVE Inv'
  <2>1. op # "readMessage" BY <1>1
  <2> QED BY <1>1, <1>2, <1>9, <2>1, BeginInv
<1>10. CASE CallPython(t)
  BY <1>1, <1>3, <1>4, <1>5, <1>6, <1>7, <1>9, <1>10 DEF CallPython
<1>11. CASE CallC(t)
  BY <1>1, <1>3, <1>4, <1>5, <1>7, <1>8, <1>9, <1>11, EndsInv DEF CallC
<1> QED BY <1>10, <1>11

LEMMA StepInv == Inv /\ [Next]_vars => Inv'
<1> SUFFICES ASSUME Inv, [Next]_vars PROVE Inv'
  OBVIOUS
<1>1. CASE UNCHANGED vars
  <2>1. UNCHANGED <<language, native, line, frames, refs, call, gil, gs_mutex, process, abandoned>>
    BY <1>1 DEF vars
  <2>2. Typed' BY <2>1 DEF Inv, Typed, CallShape
  <2>3. Locking' BY <2>1 DEF Inv, Locking
  <2>4. Apart' /\ ArgsLive' /\ Kept' BY <2>1, SameObjects DEF Inv
  <2> QED BY <2>2, <2>3, <2>4 DEF Inv
<1>2. ASSUME NEW t \in Threads, InLibrary(t) PROVE Inv'
  BY <1>2, CreationInv, AcceptInv, WaitingInv, DestroyInv, ConnectInv, MessageInv, FailureInv DEF InLibrary
<1>3. ASSUME NEW t \in Threads, TakeGil(t) \/ LeaveGil(t) \/ CallPython(t) \/ CallC(t) \/ Return(t) PROVE Inv'
  BY <1>3, GilInv, CallInv, ReturnInv
<1>4. ASSUME NEW t \in Threads, NEW h \in refs[t],
             Drop(t, h) \/ Close(t, h) \/ \E u \in Threads : Share(t, u, h)
      PROVE  Inv'
  BY <1>4, DropInv, CloseInv, ShareInv
<1> QED BY <1>1, <1>2, <1>3, <1>4, CreateInv, FinalizeInv DEF Next

LEMMA InitInv == Init => Inv
  BY EmptyInv DEF Init, Empty

LEMMA BindingsInvariant == Spec => []Inv
  BY InitInv, StepInv, PTL DEF Spec

-------------------------------------------------------------------------------
\* The theorems.

(***************************************************************************)
(* No call works on a native object that is gone, with the two exceptions   *)
(* that UsesAreLive names, for any number of threads and objects and        *)
(* whatever addresses are used again (python_bindings.cpp:140-165,          *)
(* cppio.go:142-194).                                                       *)
(***************************************************************************)
THEOREM CallsUseLiveObjects == Spec => []UsesAreLive
<1>1. Inv => UsesAreLive
  <2> SUFFICES ASSUME Inv, NEW t \in Threads, NEW h \in Uses(call[t]) \ (native \cup {NULL})
               PROVE  \/ language = "python" /\ h \in Lines /\ h \notin call[t].args
                      \/ language = "go" /\ h \in Messages
                      \/ call[t].op = "~IoAcceptor" /\ call[t].at = "done"
    BY DEF UsesAreLive
  <2>1. Typed /\ Apart /\ ArgsLive BY DEF Inv
  <2>2. h \in call[t].args \/ \E p \in call[t].args \cap Protocols : h = line[p]
    BY DEF Uses
  <2>3. CASE call[t].op = "~IoAcceptor" /\ call[t].at # "done"
    <3>1. call[t].args \subseteq native BY <2>1, <2>3 DEF Apart, Doomed
    <3>2. call[t].args \cap Protocols = {}
      BY <2>1, <2>3, BindingsAssumption DEF Typed, CallShape
    <3> QED BY <2>2, <3>1, <3>2
  <2>4. CASE call[t].op # "~IoAcceptor"
    <3>1. Args(call[t]) = call[t].args BY <2>4 DEF Args
    <3>2. CASE language = "python"
      <4>1. call[t].args \subseteq native BY <2>1, <3>1, <3>2 DEF ArgsLive, Apart
      <4>2. \A p \in Protocols : line[p] \in Lines \cup {NULL} BY <2>1 DEF Typed
      <4> QED BY <2>2, <3>2, <4>1, <4>2
    <3>3. CASE language = "go"
      <4>1. call[t].args \ Messages \subseteq native BY <2>1, <3>1, <3>3 DEF ArgsLive
      <4>2. \A p \in Protocols : p \in call[t].args => line[p] \in native \cup {NULL}
        BY <2>1, <3>1, <3>3 DEF ArgsLive
      <4> QED BY <2>2, <3>3, <4>1, <4>2
    <3> QED BY <2>1, <3>2, <3>3 DEF Typed
  <2> QED BY <2>3, <2>4
<1> QED BY <1>1, BindingsInvariant, PTL

(***************************************************************************)
(* Whoever holds Python's lock does not wait for a thread that needs it, so *)
(* that the lock and gs_mutex make no deadlock (python_bindings.cpp:30-44). *)
(***************************************************************************)
THEOREM GilIsNeverStuck == Spec => []NobodyStuckOnGil
<1>1. Inv => NobodyStuckOnGil
  <2> SUFFICES ASSUME Inv, NEW t \in Threads, gil = t
               PROVE  /\ call[t].at # "asleep"
                      /\ gs_mutex \in Threads \ {t} =>
                           call[gs_mutex].at = "locked" /\ call[gs_mutex].op \in Releases
    BY DEF NobodyStuckOnGil
  <2>1. Typed /\ Locking BY DEF Inv
  <2>2. language = "python"
    BY <2>1, BindingsAssumption DEF Locking, Typed
  <2>3. call[t].at # "asleep"
    <3>1. CallShape(call[t]) /\ call[t].op \notin Releases BY <2>1 DEF Typed, Locking
    <3> QED BY <3>1 DEF CallShape, Releases
  <2>4. ASSUME gs_mutex \in Threads \ {t}
        PROVE  call[gs_mutex].at = "locked" /\ call[gs_mutex].op \in Releases
    <3>1. call[gs_mutex].at = "locked" BY <2>1, <2>4 DEF Locking
    <3>2. call[gs_mutex].op # "none"
      <4>1. CallShape(call[gs_mutex]) BY <2>1, <2>4 DEF Typed
      <4> QED BY <3>1, <4>1 DEF CallShape
    <3> QED BY <2>1, <2>2, <2>4, <3>1, <3>2 DEF Locking
  <2> QED BY <2>3, <2>4
<1> QED BY <1>1, BindingsInvariant, PTL

(***************************************************************************)
(* Python: of two calls that work on one message at the same time one is    *)
(* sendMessage (python_bindings.cpp:57-65, :118-130).                       *)
(***************************************************************************)
THEOREM OthersDoNotOverlap == Spec => []OnlySendsOverlap
<1>1. Inv => OnlySendsOverlap
  <2> SUFFICES ASSUME Inv, language = "python", NEW t \in Threads, NEW u \in Threads,
                      t # u, call[t].args \cap call[u].args \cap Messages # {},
                      call[t].op # "sendMessage", call[u].op # "sendMessage"
               PROVE  FALSE
    BY DEF OnlySendsOverlap
  <2>1. Typed /\ Locking BY DEF Inv
  <2>2. ASSUME NEW v \in {t, u} PROVE gil = v
    <3>1. CallShape(call[v]) /\ call[v].args \cap Messages # {} /\ call[v].op # "sendMessage"
      BY <2>1 DEF Typed
    <3>2. call[v].op \in OnMessages BY <3>1 DEF CallShape
    <3>3. call[v].op \notin Releases \cup {"none"} BY <3>2 DEF OnMessages, Releases, Transfers
    <3> QED BY <2>1, <3>3 DEF Locking
  <2> QED BY <2>2
<1> QED BY <1>1, BindingsInvariant, PTL

(***************************************************************************)
(* Python: every native object that exists is still going to be destroyed   *)
(* by somebody, except for the lines of socket clients that could not       *)
(* connect; those are out of everybody's reach and stay so                  *)
(* (python_bindings.cpp:140-165, io_socket.cpp:167-173, :341-347).          *)
(***************************************************************************)
THEOREM PythonLeaksOnlyFailedConnects == Spec => []OnlyFailedConnectsLeak
<1>1. Inv => OnlyFailedConnectsLeak
  <2> SUFFICES ASSUME Inv, language = "python"
               PROVE  abandoned = {h \in native :
                        \A t \in Threads : h \notin refs[t] \cup call[t].args \cup {call[t].result}}
    BY DEF OnlyFailedConnectsLeak
  <2>1. Typed /\ ArgsLive /\ Kept BY DEF Inv
  <2>2. \A t \in Threads : Doomed(call[t]) \subseteq call[t].args BY DEF Doomed
  <2>3. ASSUME NEW h \in abandoned, NEW t \in Threads
        PROVE  h \notin refs[t] \cup call[t].args \cup {call[t].result}
    <3>1. h \notin refs[t] /\ h # call[t].result BY <2>1 DEF Kept
    <3>2. h \notin call[t].args
      <4>1. CASE call[t].op = "~IoAcceptor"
        <5>1. call[t].args \subseteq Acceptors BY <2>1, <4>1 DEF Typed, CallShape
        <5>2. h \in Lines BY <2>1 DEF Typed, Lines
        <5> QED BY <5>1, <5>2, BindingsAssumption
      <4>2. CASE call[t].op # "~IoAcceptor" BY <2>1, <3>1, <4>2 DEF ArgsLive, Args
      <4> QED BY <4>1, <4>2
    <3> QED BY <3>1, <3>2
  <2> QED BY <2>1, <2>2, <2>3 DEF Kept
<1> QED BY <1>1, BindingsInvariant, PTL

===============================================================================
