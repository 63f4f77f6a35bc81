----------------------------- MODULE MCWinSockets -----------------------------
(***************************************************************************)
(* WinSockets for TLC.  The objects are interchangeable.                    *)
(***************************************************************************)
EXTENDS WinSockets

Symmetry == Permutations(Objects)

\* Two ports, tcp://h:1 and tcp://h:2.
TwoPorts == {<<"tcp", ":", "/", "/", "h", ":", "1">>, <<"tcp", ":", "/", "/", "h", ":", "2">>}
===============================================================================
