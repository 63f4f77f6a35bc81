------------------------------ MODULE MCBindings ------------------------------
(***************************************************************************)
(* Bindings for TLC.  Threads and inproc lines are interchangeable.         *)
(***************************************************************************)
EXTENDS Bindings, TLC

Symmetry == Permutations(Threads) \cup Permutations(InprocLines)
===============================================================================
