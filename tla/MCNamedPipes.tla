----------------------------- MODULE MCNamedPipes -----------------------------
(***************************************************************************)
(* NamedPipes for TLC.  Threads, clients and acceptors are interchangeable. *)
(***************************************************************************)
EXTENDS NamedPipes, TLC

Symmetry == Permutations(Threads) \cup Permutations(Clients) \cup Permutations(Acceptors)

\* "a" and "a0": the second is also the name of a pipe that an acceptor of the
\* first makes for a client.
ClashingAddresses == {<<"a">>, <<"a", 0>>}
===============================================================================
