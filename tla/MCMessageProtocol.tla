--------------------------- MODULE MCMessageProtocol ---------------------------
(***************************************************************************)
(* MessageProtocol for TLC.  With Base = 2 and WordSize = 2 a word holds     *)
(* 0..3 and can itself arrive in pieces.                                    *)
(***************************************************************************)
EXTENDS MessageProtocol

\* Two, seven and eight bytes long: no frame; an empty frame and a frame of one
\* byte; and a message that a line of seven bytes refuses.
ShortMessages == {<<>>, <<<<>>, <<1>>>>, <<<<0, 1>>, <<>>>>}
===============================================================================
