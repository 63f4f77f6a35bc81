\* One IoLineManager and one line per client; two servers and two addresses.
CONSTANTS
  Clients = {c1, c2}
  Servers = {s1, s2}
  Addresses = {a1, a2}
  Managers = {m1}
  MaxLines = 2
  NULL = NULL
SPECIFICATION FairSpec
PROPERTIES WaitConnectionReturns ConnectedClientReturns DueClientIsServed
\* When the manager, the acceptors and the lines are gone nothing is left to do.
CHECK_DEADLOCK FALSE
