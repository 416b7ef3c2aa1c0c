------------------------- MODULE MCFinalityVoting -------------------------
(***************************************************************************)
(* Four validators, one of them faulty, on a tree with two branches that   *)
(* spans an epoch boundary (interval 2, epoch 4: heights 4 and 6 are       *)
(* rounds 0 and 1 of epoch 1, height 8 is round 0 of epoch 2).             *)
(*                                                                         *)
(*        a4 --- a6                                                        *)
(*               b6 --- b8                                                 *)
(***************************************************************************)
EXTENDS FinalityVoting, TLC

CONSTANTS v1, v2, v3, v4

Ref(height, hash) == [height |-> height, hash |-> hash]

A4 == Ref(4, "a4")
A6 == Ref(6, "a6")
B6 == Ref(6, "b6")
B8 == Ref(8, "b8")

MCValidator == {v1, v2, v3, v4}
MCFaulty == {v4}
MCCheckpoint == {A4, A6, B6, B8}
MCAncestors == A4 :> {A4} @@ A6 :> {A4, A6} @@ B6 :> {B6} @@ B8 :> {B6, B8}
MCMembers == [e \in {1, 2} |-> MCValidator]

Symmetry == Permutations({v1, v2, v3})
=============================================================================
