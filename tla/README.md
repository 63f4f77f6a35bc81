# libcppio: TLA+ models, checks and proofs

libcppio gives a C++, C, Go or Python program one interface, `IoLine`, to
several kinds of byte lines: pairs of queues inside the process (`inproc://`),
Unix sockets or, on Windows, named pipes (`local://`), TCP sockets (`tcp://`),
and on top of a line a protocol of messages made of frames. This directory
models the parts that carry its logic, checks them with TLC on small instances,
and proves all of their safety properties with TLAPS, for every size and every
number of threads, objects, addresses and messages.

All source paths below are relative to the repository root (`src/` in
`PROJECT.json` is that root: `src/src/common/inproc.cpp` there is
`src/common/inproc.cpp` here).

## 1. Inventory

| Component | State | Operations | Talks to |
|---|---|---|---|
| `RingBuffer` (`inproc.cpp:14-119`) | array, read and write pointer; one slot stays free | `read`, `write` (recursive at the wrap), the available sizes | owned by a `DataQueue` |
| `DataQueue` (`inproc.cpp:121-212`) | ring, `m_connected`, `m_mutex`, `m_readCondition`, `m_writeCondition` | `read`, `readWithTimeout`, `write`, `setConnectionFlag` | shared by two `InprocLine`s, used by the threads of both |
| `InprocLine` (`:479-542`) | `m_in`, `m_out`, `m_address`, timeout, `m_mutex`, `m_condition` | constructor (new, or connecting to another line), `read`, `write`, `setOption`, `waitForConnection`, destructor | two `DataQueue`s |
| `InprocAcceptor`, `InprocLineFactory` (`:544-639`) | process-wide `gs_acceptors`, `gs_connectQueue`, `gs_mutex`, `gs_cond` | `createClient`, `createServer`, `waitConnection`, destructors of acceptor and factory | lines, every manager of the process |
| `IoLineManager` (`iolinemanager.cpp`) | the factories | `createClient`, `createServer`, `registerFactory`, destructor | factories by scheme; turns `IoException` into `nullptr` |
| Unix and TCP sockets (`posix/io_socket.cpp`) | a descriptor and an address per line and acceptor | constructors, `connect`, `waitConnection`, `read`, `write`, `setOption`, destructors | the kernel, through descriptors, names and `errno` |
| `Message`, `Frame`, `MessageProtocol` (`message.cpp`) | frames; nothing is kept between calls | `messageSize`, `writeMessage`, `readMessage` from a buffer and from a line, `sendMessage` | any `IoLine` |
| lock-free `RingBuffer`, `DataQueue` (`inproc.cpp:213-472`) | - | - | never compiled: `src/CMakeLists.txt` defines `CPPIO_BLOCKING_INPROC`, and the signatures no longer match the header |
| `SelectPoller` (`common/select_poller.*`) | descriptors and callbacks | `addCallback`, `poll` | leaves `Poller`'s functions pure, so it cannot be instantiated |
| Windows pipes (`win32/pipes.cpp`) | a pipe per line; per acceptor a pipe, `m_waitingPipe` and a counter | constructors, `waitConnection` (tells a client the name of a pipe of its own), `read`, `write`, destructors | Windows, through named pipe instances; clients in other processes |
| Windows sockets (`win32/win_socket.cpp`) | a handle and an address per line and acceptor; Winsock, started and ended by the factories | as the POSIX TCP classes | Winsock, through handles, ports and the last error |
| C interface (`cppio_c.cpp`) | none | casts and forwards; `nullptr` for an `IoException` | everything above |
| Go and Python bindings | Go: pointers, finalizers of messages. Python: objects that own native ones, the interpreter's lock | the calls of the interface; `Close`, garbage collection, dropped references | Go through the C interface, Python with the C++ classes |

What is hard here, and what makes each part correct:

* **Ring buffer.** Both calls recurse when the data wrap; the sizes reserve a
  slot. Correct: it is a first-in first-out queue of `Size - 1` bytes, and the
  sizes announce exactly what the next call moves.
* **Queue.** Blocking, timed and spurious wake-ups race; `setConnectionFlag`
  takes no lock; `read` notifies writers *before* it takes bytes. Correct: a
  bounded byte stream, no reader asleep on data, the two ends never asleep
  together, timed reads end, hang-ups are noticed.
* **Registry.** Acceptors of all addresses sleep on one condition variable; a
  client may come at the deadline; acceptors, clients and whole managers come
  and go. Correct: every client is joined to one acceptor of its address, with
  the queues crossed; a client that is queued for an acceptor in time is served.
* **Sockets.** Descriptors are reused, constructors fail half way, destructors
  unlink by name, `errno` outlives the call that set it. Correct: one owner per
  descriptor, names lead to live acceptors, error codes tell the truth.
* **Messages.** Lines return short counts and errors anywhere in a message.
  Correct: what is received is what was sent, and success means sent.

* **Named pipes.** A rendezvous of two processes in five steps, either of which
  may fail or die; names made of an address and a counter; a wait without a limit.
  Correct: the ends meet on a pipe of their own, every way out closes what was
  made, the acceptor can be used again.
* **Windows sockets.** The last error outlives calls as `errno` does, ports can be
  shared, and the last manager takes all sockets with it.
* **Bindings.** Objects are destroyed by reference counts, finalizers or `Close`
  while other threads are inside calls; Python's lock meets `gs_mutex`; exceptions
  and assertions meet languages without them. Correct: an object outlives the
  calls that use it, nobody waits with the interpreter's lock, and nothing leaks
  behind Python's back.

`PROJECT.json` lists each hazard at its line with the properties aimed at it.

## 2. Modules

| Module | What it is |
|---|---|
| `RingBuffer` | the ring as a record and its functions as operators, one `ReadPass`/`WritePass` per activation of the recursive C++ function; `Contents` is the abstraction |
| `RingBufferSpec` | the ring as a state machine: reads and writes of any length |
| `ByteFifo` | abstract: a bounded first-in first-out queue |
| `DataQueue` | the queue with its threads, mutex, condition variables, deadlines and hang-ups |
| `ByteStream` | abstract: what a call on one direction of an inproc connection may return |
| `InprocRegistry` | connecting: `createClient`, `createServer`, `waitConnection`, destruction of acceptors and managers |
| `MessageProtocol` | a sender and a reader of messages over an unreliable, fragmenting line |
| `IoLineManager` | operators: which factory an address reaches, and with what |
| `SocketLines` | Unix and TCP lines and acceptors over an external kernel |
| `WinSockets` | Windows TCP lines and acceptors, on the objects and sockets of `SocketLines`, and Winsock's start and end |
| `NamedPipes` | the rendezvous over Windows named pipes |
| `Bindings` | native objects behind Python and Go: lifetimes, leaks, locks, and the ways the process ends |
| `RingBufferProofs`, `DataQueueProofs`, `InprocRegistryProofs`, `MessageProtocolProofs`, `SocketProofs`, `NamedPipesProofs`, `BindingsProofs` | theorems and proofs; `SocketProofs` covers `SocketLines` and `WinSockets` |
| `BasicLemmas` | lemmas that several of the proofs share: induction up to a number, recursive functions, least elements and sizes of sets, parts of sequences |
| `MC...` | symmetry sets and message sets for TLC |

How the composition goes: `DataQueue` EXTENDS `RingBuffer` and calls its
operators inside the critical sections; `InprocRegistry` ends where a connection
exists, with two queues, each of which `DataQueue` takes up; `MessageProtocol`
abstracts its line to what `DataQueue` (through `ByteStream`) and `SocketLines`
both allow: some bytes in order, a wait, or a code that is not positive; `SocketLines` EXTENDS
`IoLineManager` and gets its paths and ports from the texts a program passes to
it; `WinSockets` EXTENDS `SocketLines`, takes over what Windows does alike
(destruction, accepting) and defines what it does not; `Bindings` keeps of the
registry what takes `gs_mutex` and waits, and of a line that a call on it may
wait. Definitions whose
names start with the name of another one and that are commented *Mutant* are
seeded bugs: each property is shown to fail when one of them replaces the
definition it is named after.

### Correspondence to the code

*Atomicity.* A critical section that touches nothing shared outside its mutex is
one step. What escapes the mutexes gets steps of its own: every read of
`m_connected` in `DataQueue` (`ReadCheck`, `WriteCheck`, `ReadRecheck`,
`TimedFinal`), every statement of `setConnectionFlag` (`ClearFlag`,
`NotifyRead`, `NotifyWrite`), and `~InprocLineFactory`, which may run inside
another thread's `waitConnection` (between `TakeClient` and `Connect`). The plain
`bool m_connected` is formally a data race; its outcomes are the old or the new
value, both of which the interleavings produce.

*Condition variables.* The set of threads that sleep and have not been notified.
Registration and the release of the mutex are one step (`ReadWait`, `WriteWait`,
`Sleep`); leaving the set (notification, `SpuriousWake`, a deadline) does not
give the mutex back, which is a step of its own (`ReadWake`, `TimedWake`, ...).
Spurious wake-ups are in every model that sleeps.

*Lines.* `Connect` and `Destroy` of `DataQueue` are the connecting constructor and
the destructor of `InprocLine`; either end hangs up at any time outside its own
calls. `ReceiveTimeout` is the choice between `read` and `timed` at each call.

*Messages.* `Failures` is what a failed write may return: the negative codes of
inproc lines and sockets in the runs; a Windows pipe returns 0, with which
`sendMessage` never ends. A write that finds no room and somebody at the other end
goes to sleep (`WriteWaits`). When the other end then hangs up it may fail
(`WriteFails`, as on a socket) or sleep on (as on an inproc line, `inproc.cpp:179`),
and nothing is assumed of which. A byte has `Base` values, a `uint32_t` is `WordSize` bytes, an `int`
less than `IntLimit`, so that fragmentation inside a word and the overflow of
`towrite` are within reach. Bytes outside the buffer that `sendMessage` may send
after a failed write are arbitrary, and so are those behind a cut buffer that
`Message::readMessage` looks at before it compares lengths (`ReadBuffer`). The loops
over frames and over the bytes of a word are recursive functions: value `i` is the
state of the loop after `i` rounds. `MessagesAssumption` says that the messages are
within the code's own limits: their counts and lengths fit a `uint32_t`
(`message.cpp:105`, `:110`) and their size an `int` (`:206`), with 32 bits less than
2 GiB. Beyond that `writeMessage` cuts the lengths and `towrite` is negative from
the start.

*Addresses.* A text is a sequence of characters in which the name of a scheme
counts as one; `Resolve` gives `nullptr`, `std::out_of_range` or a factory and the
rest, as the code does. `TextsAssumption` is about the callers: behind the scheme,
where the code skips three characters whatever they are, a text that is long enough
has all of `://`.

*Sockets.* `socket` and `accept` return the lowest free descriptor. A path stays
when its socket is closed and blocks the next `bind`; a port does not.
Constructors that throw leave their descriptor open, as the code does.
`setOption` keeps nothing but a timeout, so any read or write that would wait
may time out. Of the data only matters whether there are any; `errno` is kept
per thread, because `read` looks at it after a call that did not set it.
`ENOTCONN` is treated as `ECONNRESET` is and not kept apart from it. Short
counts are left to `MessageProtocol`. On Windows no handle is 0, a call that
succeeds may or may not reset the last error, and the network does not fail;
what becomes of handles that outlive Winsock once it is started again is not
followed.

*Named pipes.* An instance is listening, connected, closing (the client has gone)
or disconnected. The handles are made without `FILE_FLAG_OVERLAPPED`, so the
timeout of `connectPipe` is never in effect and its `ERROR_IO_PENDING` branch is
dead. `ConnectNamedPipe` reports success for a client that connected, and died,
while it was asleep, and `ERROR_NO_DATA` for one that had died before; `wait` tells
the two apart. In the first case `WriteFile` fails unnoticed and the second wait has
nobody to wait for. `m_counter` is never initialised: `Garbage` is what it may start from. An
acceptor is used by one thread at a time; with two, `m_waitingPipe` is
overwritten.

*Bindings.* `language` is chosen in `Init` and stays. A call goes through `begin`,
`locked` (it has `gs_mutex`), `asleep` and `done`; a Python function with a
`ScopedGILRelease` gives up the lock in `Begin` and takes it again in `Return`,
also when an exception passes. A Python variable keeps its object; a protocol does
not keep its line. A Go program closes each object once, when no call uses it, and
does not use a protocol after its line; a message may be collected as soon as no
later statement mentions it, which `Begin` chooses. The assertion in `readMessage`
is active, since no build type is set. A `nullptr` from a failed creation may be
passed on to `MessageProtocol`; in Go it is an `IoLine` or `IoAcceptor` like any
other, and the first call on it ends the process, as does an exception that leaves
the C functions: a short address, the `SendTimeout` of an inproc line, or no memory
for a message or a frame. When `connect` throws, the socket factories leave the new
line behind (`abandoned`). `schemes` is the choice of transports that a program
makes. Frame numbers are in range, and the panic of the Go package on an empty
slice (`&data[0]`) comes before the library is called and is left out.

## 3. Runs

| Run | Instance | Shows |
|---|---|---|
| `ring_buffer` | `Size` 5, 2 byte values, buffers of 0..5 bytes | refinement of `ByteFifo`, recursion depth at most two activations, exact sizes |
| `queue_content` | 1 reader, 1 writer, 2-byte ring, 2 byte values, lengths 0..3 | refinement of `ByteStream`; mutual exclusion, observations that survive until the wait, no reader asleep on data, the two ends never asleep together |
| `queue_liveness` | 1 reader, 1 writer, `FairSpec` | calls that must end do |
| `registry` | 2 managers, 2 clients, 2 servers, 2 addresses, 3 lines, symmetry | no missed client, crosswise private wiring; queueing until a manager is destroyed |
| `registry_liveness` | 1 manager, 2 clients, 2 servers, 2 addresses, `FairSpec` | `waitConnection` and a connected `createClient` return; a queued client is served |
| `message_protocol` | messages of 2, 7 and 8 bytes, a line of 7, timeouts and hang-ups at both ends, `FairSpec` | order and integrity until a call fails inside a message; success means sent for what fits; buffers parse back and cut ones are refused; readers get on, and so do senders that are not asleep in a write |
| `sockets` | 1 path, 1 port, 3 descriptors, 3 objects, 2 threads, symmetry | ownership, exact leaks, names that lead to live acceptors, truthful codes, addresses that reach their factory unchanged |
| `win_sockets` | 2 ports, 3 handles, 3 objects, 2 managers, symmetry | ownership and leaks until an object outlives Winsock, truthful codes but for a stale error |
| `named_pipes` | 2 clashing addresses, 2 acceptors, 2 threads, 2 clients, 3 instances, symmetry | handles accounted for, private rendezvous, what wedges an acceptor, no wait without a client |
| `bindings` | Python and Go, 2 threads, 1 protocol, 1 message, and either 2 inproc lines and an inproc acceptor or 1 socket and a socket acceptor; symmetry | lifetimes, the interpreter's lock, overlapping uses of messages, what leaks |
| `reader_misses_hangup` | violation | see below |
| `send_reports_success` | violation | see below |

*Bounds.* A ring of three slots (two bytes) is the smallest in which a write can
be split by the wrap and be full, empty or half full; lengths go up to the one
that `write` refuses. The queue runs have one thread at each end; the theorems
of section 4 are about any number. Two acceptors of two addresses
are what a notification that wakes the wrong one needs; a third line lets a
client come back. Three descriptors are what an acceptor, a client and an
accepted line need, so that one more of anything meets the limit; descriptor 0
is among them because `newsock > 0` treats it apart. With two acceptors whose
addresses clash two rendezvous can get in each other's way, and three pipe
instances make the ones that leak matter. One connection with a protocol and a
message on it has every kind of native object; two threads are what it takes to
destroy one under a call. A program of this run uses inproc lines or sockets,
whose objects would multiply the states of each other; the theorems are about
programs that use both as well (`Programs`). `MaxWrote` stops only a sender that
sends bytes again after a failed write.
`CHECK_DEADLOCK` is off everywhere except in `ring_buffer`: an idle program whose
lines are closed, or whose threads wait for calls nobody has to make, may stop.

*Types.* Each module states the ranges of its variables in a type invariant.
`ring_buffer` checks the ring's, which `DataQueue` builds on, and section 4 proves
them and, as part of the inductive invariants, those of the other modules it is
about; they document the state and are not properties of a run.

*Fairness.* A thread inside a call that can go on does (weak fairness: an OS
scheduler runs runnable threads). A thread that asks for a mutex gets it in the
end although others take it again and again (strong fairness on the steps that
acquire it; `std::mutex` does not promise it, but without it nothing could be
said of any mutex). A writer of `MessageProtocol` that is asleep for room goes on
when there is a reader inside a call to make some, and not because of a hang-up. Deadlines pass. A destructor that has begun ends. No call, no
hang-up, no spurious wake-up and no timeout of `readMessage` is assumed to
happen.

### What the code does not give

Two disagreements with the repository's own words are runs that TLC refutes:

* `reader_misses_hangup`: `setConnectionFlag` (`inproc.cpp:199-210`) takes no
  lock, so a hang-up between a reader's test of `m_connected` and its wait is
  never seen.
* `send_reports_success`: `sendMessage` (`message.cpp:207-213`) subtracts error
  codes from `towrite` until it overflows, then returns 1.

Further limits are in the models and bound what is stated:

* `readMessage` (`message.cpp:165-192`) drops half a message on a timeout; the rest
  is then read as another message. `UntornInOrder` holds until then.
* `~UnixSocket` (`io_socket.cpp:33`) unlinks the path of the server the client was
  connected to; the second half of `NamesLeadToAcceptors` speaks of TCP only.
* A writer asleep on a full queue never learns of a hang-up: the predicate at
  `inproc.cpp:179` ignores `m_connected`, so the check at `:181` is dead.
  `CallsAfterHangupReturn` therefore speaks of later calls only, and `SendReturns`
  of a `sendMessage` that is not asleep in a write. On a Windows pipe, whose writes
  fail with 0 (`pipes.cpp:71`), `sendMessage` does not end either.
* A reader that had to wait takes bytes without notifying writers
  (`:140-145`), so a writer may sleep beside free room until the *next* read
  call; `NextReadFreesWriter` says that this call suffices.
* `~InprocLineFactory` (`:602-606`) empties the lists of every other manager of
  the process. `WaitingClientIsQueued` and `DueClientIsServed` hold until then.
* `createClient` on inproc has no timeout (`:541`), and the socket acceptors ignore
  theirs (`io_socket.cpp:146`, `:320`).
* After a `connect` that failed with `ETIMEDOUT` the same thread's `read` reports
  the end of a stream as `eTimeout` (`io_socket.cpp:59-66`, `:227-232`);
  `CodesAreTruthful` excepts it. On Windows any read that timed out does the
  same (`win_socket.cpp:64-70`); `WinCodesAreTruthful` excepts it.
* A line or acceptor that outlives the last manager loses its socket on Windows
  (`win_socket.cpp:166`).
* A client that dies before `waitConnection` listens for it makes a Windows acceptor
  useless (`pipes.cpp:101-139`), one that dies later is waited for without a limit
  (`:147`), and `~NamedPipeLine` (`:56`) closes nothing.
* A Python `MessageProtocol` may outlive its line (`python_bindings.cpp:163`), a
  Go message may be finalized during its last call (`cppio.go:142-194`), and
  `sendMessage` may overlap with `appendFrame` (`python_bindings.cpp:126-130`).
* A socket `createClient` that cannot connect leaves its line, and its descriptor,
  behind in every language (`io_socket.cpp:167-173`, `:341-347`,
  `win_socket.cpp:174-180`). `OnlyFailedConnectsLeak` counts exactly these lines.
* Through the C functions a short address, the `SendTimeout` of an inproc line, a
  frame too long for the memory or a message that is read into twice ends the
  process, and in Go so does a call on a line or acceptor that could not be made;
  in every language so does a protocol without a line. The models have these ends;
  no property is about them.

## 4. Proofs

Everything below is checked by TLAPS for every value of the constants. Every
invariant and every refinement that a passing run checks is the statement of a
theorem.

`RingBufferProofs` (assumption: `Size` is a positive
natural): the ring stays well-typed (`RingTypeCorrect`); the recursion has at
most two activations (`RecursionIsBounded`); the available sizes are what a call
moves (`AvailableSizesAreExact`); and the ring implements `ByteFifo`
(`RingImplementsFifo`). The argument is by cases on the order of the two
pointers: a pass moves one contiguous piece, `Contents` splits at the wrap, and
after a pass that ends at the wrap the pointer is 0, where the second pass
cannot wrap again. The type invariant is inductive as it stands.

`DataQueueProofs` (assumptions: `Readers` and `Writers` are disjoint, `MaxLen` a
natural; `OneReaderNoMutualSleep` also assumes one reader and `Size > 1`):

* `QueueTypeCorrect` - types.
* `CriticalSectionsAreSound` - `QueueInv`, the inductive invariant. *No reader
  sleeps on data* is not inductive alone: a reader registers on the condition
  variable in a step after the one in which it saw the ring empty. `QueueInv`
  carries the observation across (a thread past its test still sees the ring as
  it was, because it holds the mutex), which needs the exact correspondence of
  `m_mutex` with the program counters.
* `ReadersAreNotStranded` - its consequence `NoStrandedReader`.
* `OneReaderNoMutualSleep` - a writer asleep means that since the last read call
  began nobody could have emptied the ring; the strengthening says for each
  position of the reader whether writers may be asleep.

* `QueueImplementsByteStream` - the refinement of `ByteStream`. `CallInv` is added
  to `QueueInv`: a result is pending exactly while its call runs, both ends of the
  queue are handed out in one step, and a buffer that does not fit never gets past
  the test at `inproc.cpp:173`. Each action is then a step of the stream (the one
  that moves bytes, returns an error, connects or hangs up) or none of it; the
  bytes are those of the ring lemmas.

`InprocRegistryProofs` (assumption: `NULL` is none of the numbers and queues that a
line may have): `RegistryTypeCorrect`, `NoClientIsMissed`,
`ConnectionsAreCrossWired` and `WaitingClientHasOnePlace`. The inductive invariant joins what none of the
properties says: who holds `gs_mutex` where (`Locking`), that lines mentioned
anywhere exist (`LinesExist`), that a line is queued at most once and unconnected
while it is (`QueuedOnce`), which queues each connection has (`Wired`), that the
sleepers of `gs_cond` are in `waitConnection` (`SleepersWait`) and where a waiting
client is (`WaitersHaveAPlace`). `NoMissedClient` is needed for itself: an acceptor
falls asleep only after it has searched the queue under `gs_mutex`.

`SocketProofs` (assumptions: descriptors 0 to `MaxFd` with the standard ones among
them; marks in a backlog are not numbers): `DescriptorsAreOwnedOnce`,
`OnlyFailuresLeak`, `NamesAlwaysLeadToAcceptors`, `CodesAreAlwaysTruthful`, and for
Windows `HandlesAreOwnedOrLeaked` and `WinCodesAreAlwaysTruthful`. The invariant adds
to ownership and names the exact count of the descriptors that belong to nobody:
each step keeps it, adds one and counts a failure, or moves one between owned and
closed. For this `NewFd` has to be closed before it is given out, which is
`MinIsMember` of `BasicLemmas`. On Windows ownership is kept only until an object
outlives Winsock, and nobody can be in a call then (`WinInv`). The truth of the
codes is a fact about every well-typed state, not an induction. `AddressesAreRests`
(also assumes `TextsAssumption`): `FirstOfFacts` says what `find_first_of` finds, and
`ResolveFacts` that the characters it finds behind a known scheme, and the two that
are skipped with them, are `://`.

`NamedPipesProofs` (assumption: addresses are sequences): `ServerHandlesAreAccounted`,
`OnlyCrashesWedge`, `RendezvousIsPrivate`, `SecondWaitIsAnswered`. `Safe` holds
whatever happens: who holds which instance (`Held`), one call per acceptor
(`Serving`), one type per name (`Named`), and that a name lies in an acceptor's pipe,
or a client has left it, only while the acceptor flushes (`Wedging`). `Quiet` is the
course of a rendezvous, step by step for both ends, and holds until a client dies or
names clash: the client that was told a name is the only one, the call that told it
is the only one of that name, and its pipe is the only one that listens. That
`CreateNamedPipe` succeeds then rests on `to_string` never being empty:
`DigitsUnfold` proves that the recursive `Digits` satisfies its own equation (by
building the function up to each number and taking a least counterexample), and
`DigitsNotEmpty` follows the same way.

`BindingsProofs` (assumptions: the handles of different classes are different, `NULL`
is none of them): `CallsUseLiveObjects`, `GilIsNeverStuck`, `OthersDoNotOverlap`,
`PythonLeaksOnlyFailedConnects`. The invariant says which calls get how far with
which arguments (`CallShape`), where the two locks are (`Locking`), that what a
destructor is about to delete is out of everybody's reach and a result is in the
reach of one thread (`Apart`), that arguments are kept alive (`ArgsLive`), and who
keeps the rest, the abandoned lines excepted, which nobody reaches (`Kept`). The
end of the process empties everything, as its beginning does: `EmptyInv` covers
both.

`MessageProtocolProofs` (assumptions: a byte has at least two values, words are not
empty, and `MessagesAssumption`): `TypeCorrect`, `MessagesInOrder`,
`FittingMessagesAreSent`, `BuffersAreReadBack`.

* The format. `WordRoundTrip`: a word that holds a number gives it back.
  `FrameEndsFacts` and `WrittenFacts`: `writeMessage` fills exactly the bytes that
  `messageSize` counted. `Layout`: where each length word and each frame is.
* The invariant `Inv`. `RecordsOK` is the types; `BufferOK` says whose buffer is
  being sent; `ProgressOK` that, as long as no write failed, the line has taken the
  first `wrote` bytes of a message that fits, and none of one that does not, whose
  `towrite` only grows until it overflows below zero. `UntornInOrder` speaks of
  whole messages, but a reader is mostly inside one, so `UntornOK` speaks of bytes:
  `Wire` is the buffers of the messages taken, one behind the other, and it is
  exactly what has been read, the bytes in the reader's hands, the bytes on the line
  and those not yet sent. `ReaderFollows` ties the reader's frames and the counts it
  has decoded to the message it is in.
* The steps. A write takes a piece from the unsent end to the line (`WriteFollows`),
  a read one from the line to the reader (`ReadFollows`); when a loop of
  `readMessage` is done, its bytes are a part of the buffer whose place `Layout`
  knows, so the word it decodes is the count or length that was written, and the
  next loop begins where the next part does (`PartsOnWire`, `NextFrameFollows`).
* `BuffersAreReadBack` follows the loop of `Message::readMessage` through the buffer
  (`FrontIsRead`); in a cut buffer the frame that the cut is in, or lies behind,
  fails the comparison, whatever the word behind the end looks like.

What loops compute for every input is proved by induction without a predicate as a
parameter: `UpTo` says that a *set* of numbers that contains 0 and with each number
the next contains all up to a limit, and each use names the set of the rounds that
the claim is true of. `Recursion` gives a recursive function on `0..n` its equation,
and `StaysIn` its range.

TLC checked each inductive invariant on the instance of the component's run before it
was proved.

Only model-checked:

* Everything with fairness (`queue_liveness`, `registry_liveness`, and the liveness
  properties of `message_protocol`): liveness is out of the prover's reach here.
* The two runs that TLC refutes.

## 5. Plan

The plan is done: the inproc transport (ring, queue, connection), the message
protocol on a line, the POSIX and Windows sockets, the Windows pipes and the manager,
the C interface and the bindings, their runs, and a theorem for each safety property.
What could still be added is in section 6.

## 6. Not modelled

* The lock-free ring and queue (`inproc.cpp:213-472`): no build contains them, and
  their signatures no longer match the header, so there is no program to be
  faithful to.
* `SelectPoller`: its functions do not override those of `Poller`, so no object of
  it can exist, and no line returns a native handle.
* `Frame::fromValue` and `Message::get`: copies of a value's bytes.
* The bytes of socket and pipe lines, and the parsing of host and port: external,
  or without a state that a property could be about.
* A path too long for `sa_data` (`io_socket.cpp:125`): undefined behaviour whose
  outcome depends on what follows in memory.
