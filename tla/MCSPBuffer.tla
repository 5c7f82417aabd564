---------------------------- MODULE MCSPBuffer ----------------------------
(***************************************************************************)
(* SPBuffer on a ring of three bytes: it wraps, fills and empties at every *)
(* position, and a caller may write or ask for one byte more than fits.    *)
(***************************************************************************)
EXTENDS SPBuffer

\* All byte strings no longer than one more than the capacity.
MCData == UNION {[1 .. n -> Byte] : n \in 0 .. (BSIZE + 1)}
MCLengths == 0 .. (BSIZE + 1)
===========================================================================
