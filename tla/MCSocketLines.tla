----------------------------- MODULE MCSocketLines -----------------------------
(***************************************************************************)
(* SocketLines for TLC.  The objects and the threads are interchangeable.   *)
(***************************************************************************)
EXTENDS SocketLines

Symmetry == Permutations(Objects) \cup Permutations(Threads)

\* The path local:///p, the port tcp://h:1, and texts that no socket factory gets to see.
SocketTexts ==
  {<<"local", ":", "/", "/", "/", "p">>, <<"tcp", ":", "/", "/", "h", ":", "1">>,
   <<"tcp", ":">>, <<"local">>, <<"inproc", ":", "/", "/", "p">>, <<"http", ":", "/", "/", "p">>}
===============================================================================
