--------------------------- MODULE MCTelnetServer ---------------------------
(* TelnetServer with one connection whose client may send anything, or with *)
(* two, one flooding the server while the other asks to be accepted.        *)
EXTENDS TelnetServer

=============================================================================
