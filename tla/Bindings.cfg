\* Both languages, two threads, and the objects of one inproc connection with a
\* protocol and a message on it, or a socket and an acceptor for one instead.
CONSTANTS
  Programs = {{"inproc"}, {"sockets"}}
  Threads = {t1, t2}
  InprocLines = {l1, l2}
  Sockets = {k1}
  InprocAcceptors = {a1}
  SocketAcceptors = {b1}
  Protocols = {p1}
  Messages = {m1}
  MaxFrames = 1
  NULL = NULL
SPECIFICATION Spec
SYMMETRY Symmetry
INVARIANTS UsesAreLive NobodyStuckOnGil OnlySendsOverlap OnlyFailedConnectsLeak
\* The process may end, and every thread may wait for one that never comes.
CHECK_DEADLOCK FALSE
