------------------------ MODULE MCFinalityDaemon ------------------------
(***************************************************************************)
(* Two chains that share heights 1 to ForkHeight - 1, over epochs of four  *)
(* blocks with a checkpoint every second block.  The fork is in the middle *)
(* of epoch 1, so that the chains' checkpoints 6 and 8 differ and lie on   *)
(* both sides of an epoch boundary.  The three other keys are a quorum of  *)
(* every epoch: any PREVOTE certificate may exist.                         *)
(***************************************************************************)
EXTENDS DaemonVoting, TLC

CONSTANTS o1, o2, o3, a, b, c, ChainLength, ForkHeight

ChainOf(name) == [h \in 1..ChainLength |-> IF h < ForkHeight THEN <<c, h>> ELSE <<name, h>>]

MCOthers == {o1, o2, o3}
MCBranch == {ChainOf(a), ChainOf(b)}
MCMembers == [e \in 0..EpochOf(ChainLength) |-> {Me} \cup MCOthers]
Symmetry == Permutations({a, b})
=============================================================================
