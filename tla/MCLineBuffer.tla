---------------------------- MODULE MCLineBuffer ----------------------------
(* LineBuffer with one ordinary byte and the delimiter, a buffer of three   *)
(* bytes (Capacity - 1) and a peer that sends up to seven: the buffer fills,*)
(* is read up to the middle, and is received into again.                    *)
EXTENDS LineBuffer

=============================================================================
