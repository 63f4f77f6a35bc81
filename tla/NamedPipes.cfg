\* Two acceptors whose addresses clash ("a" with the counter 0 appended is the other
\* address), two server threads and two clients; three instances, so that those that
\* leak matter; a counter that starts from 0.
CONSTANTS
  Addresses <- ClashingAddresses
  Acceptors = {s1, s2}
  Threads = {t1, t2}
  Clients = {c1, c2}
  Garbage = {0}
  MaxCounter = 2
  MaxPipes = 3
  NULL = NULL
SPECIFICATION Spec
SYMMETRY Symmetry
INVARIANTS HandlesAccounted PrivateRendezvous WedgedOnlyByCrash SecondWaitHasClient
\* Everyone may wait for a client that never comes.
CHECK_DEADLOCK FALSE
