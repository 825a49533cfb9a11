------------------------------ MODULE MCThings ------------------------------
(* Things with a root, two clones, a wizard's frame and one of nobody's.    *)
EXTENDS Things, TLC

CONSTANTS f1, f2

Owners == (f1 :> 0) @@ (f2 :> -1)

Methods == {initialize, builtin}

(* One and two names.                                                       *)
Paths == {<<"a">>, <<"a", "a">>}

(* Entries that only their owner may read and write.                        *)
Modes == {{<<"owner", "r">>, <<"owner", "w">>}}

Alike == Permutations(Lambda)

=============================================================================
