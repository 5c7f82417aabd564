--------------------------- MODULE MCSPController ---------------------------
(***************************************************************************)
(* SPController with buffers of three and two bytes, so that both wrap     *)
(* around at different places, and four bytes to echo.                     *)
(***************************************************************************)
EXTENDS SPController

MCMarks == {<<0, Unlimited>>, <<3, 0>>}
=============================================================================
