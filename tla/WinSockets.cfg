\* Two ports and two managers.  No handle is 0; three others are enough for an
\* acceptor, a client and the line accepted from it, or for two acceptors of a port
\* and a client.  One thread, beside which managers come and go; the sockets run
\* has two.
CONSTANTS
  Texts <- TwoPorts
  MaxFd = 3
  Std = {0}
  Objects = {o1, o2, o3}
  Threads = {t1}
  MaxManagers = 2
  NULL = NULL
  GONE = GONE
  PENDING = PENDING
  STALE = STALE
SPECIFICATION WinSpec
SYMMETRY Symmetry
INVARIANTS HandlesOwnedOrLeaked WinCodesAreTruthful
\* Every thread may wait for a client that never comes.
CHECK_DEADLOCK FALSE
