----------------------------- MODULE LineStream -----------------------------
(***************************************************************************)
(* What a driver's line-wise receive() promises: the bytes the peer sent   *)
(* are taken from the front, in order, a whole line at a time, none of     *)
(* them twice and none of them skipped.                                    *)
(***************************************************************************)
EXTENDS Naturals, Sequences

CONSTANTS Byte, Delim

VARIABLES
  sent,    (* every byte the peer has sent                                 *)
  taken    (* the bytes of the lines taken so far                          *)

Init == sent = <<>> /\ taken = <<>>

Send(byte) ==
  /\ sent' = Append(sent, byte)
  /\ UNCHANGED taken

(* The line that follows what was taken ends n bytes further on.            *)
LineEnds(n) ==
  /\ n \in 1..(Len(sent) - Len(taken))
  /\ sent[Len(taken) + n] = Delim
  /\ \A k \in 1..(n - 1) : sent[Len(taken) + k] # Delim

TakeLine ==
  /\ \E n \in 1..Len(sent) :
       LineEnds(n) /\ taken' = SubSeq(sent, 1, Len(taken) + n)
  /\ UNCHANGED sent

Next == (\E byte \in Byte : Send(byte)) \/ TakeLine

Spec == Init /\ [][Next]_<<sent, taken>>

=============================================================================
