\* One path and one port, two threads; three descriptors, 0 among them: enough for
\* an acceptor, a client and the line accepted from it, and no more.
CONSTANTS
  Texts <- SocketTexts
  MaxFd = 2
  Std = {}
  Objects = {o1, o2, o3}
  Threads = {t1, t2}
  NULL = NULL
  GONE = GONE
  PENDING = PENDING
  STALE = STALE
SPECIFICATION Spec
SYMMETRY Symmetry
INVARIANTS DescriptorsOwnedOnce LeaksAreFailures NamesLeadToAcceptors CodesAreTruthful AddressIsRest
\* Every thread may wait for a client that never comes.
CHECK_DEADLOCK FALSE
