--------------------------- MODULE MCInprocRegistry ---------------------------
(***************************************************************************)
(* InprocRegistry for TLC.  Clients, servers, addresses and managers are    *)
(* interchangeable; the symmetry is for the run without liveness only.      *)
(***************************************************************************)
EXTENDS InprocRegistry, TLC

Symmetry == Permutations(Clients) \cup Permutations(Servers)
              \cup Permutations(Addresses) \cup Permutations(Managers)
===============================================================================
