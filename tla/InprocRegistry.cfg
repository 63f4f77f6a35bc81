\* Two IoLineManagers, either of which may be destroyed at any time; two clients,
\* two servers and two addresses: acceptors of both sleep on gs_cond together.
\* One client makes a second line.
CONSTANTS
  Clients = {c1, c2}
  Servers = {s1, s2}
  Addresses = {a1, a2}
  Managers = {m1, m2}
  MaxLines = 3
  NULL = NULL
SPECIFICATION Spec
SYMMETRY Symmetry
INVARIANTS NoMissedClient CrossWired WaitingClientIsQueued
\* When the managers, the acceptors and the lines are gone nothing is left to do.
CHECK_DEADLOCK FALSE
