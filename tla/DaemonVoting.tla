---------------------------- MODULE DaemonVoting ----------------------------
(***************************************************************************)
(* The stepwise daemon of FinalityDaemon journals no other votes than the  *)
(* atomic actions of FinalityVoting.                                       *)
(***************************************************************************)
EXTENDS FinalityDaemon

\* The votes of the others behind the certificates this validator relies on now:
\* the PREVOTE certificate it was shown, the one its lock was taken on, and the
\* precommits of the finalized records it has used: the node's, the one Tick
\* cached, and the one its last vote names.
OthersVoted ==
    LET Sources == Checkpoint \cup {NullRef}
        Recorded == {finalized, tick.source} \cup
            (IF disk.last_vote = NoVote THEN {} ELSE {disk.last_vote.source})
    IN
    (IF memory.prevote_qc = NoQc THEN {}
     ELSE [phase : {PREVOTE}, source : {memory.prevote_qc.source},
           target : {memory.prevote_qc.target}])
    \cup (IF memory.lock.held
          THEN [phase : {PREVOTE}, source : Sources, target : {memory.lock.target}] ELSE {})
    \cup [phase : {PRECOMMIT}, source : Sources, target : Recorded]

Voting == INSTANCE FinalityVoting
    WITH Validator <- {Me} \cup Others, Faulty <- {},
         journal <- [v \in {Me} \cup Others |-> IF v = Me THEN disk ELSE EmptyJournal],
         votes <- [v \in {Me} \cup Others |-> IF v = Me THEN persisted ELSE OthersVoted]

\* Every durable vote is one that the atomic Prevote or Precommit of
\* FinalityVoting allows this validator, on the certificates it has in hand:
\* crashes, failed writes, expired grants and one reorganization per Tick lead to
\* no step of the journal that the agreement proof does not know.  With two
\* reorganizations in one Tick this fails (PrevoteExtendsLock).
ImplementsVoting ==
    [][<<disk, persisted>>' # <<disk, persisted>> =>
          LET vote == disk'.last_vote
              cl == [source |-> vote.source, target |-> vote.target]
          IN
          /\ cl \in Voting!Claim
          /\ persisted' = persisted \cup {vote}
          /\ \/ /\ vote = Voting!VoteOf(PRECOMMIT, cl)
                /\ Voting!Precommittable(Me, cl) /\ disk'.lock = LockOn(cl.target)
             \/ /\ vote = Voting!VoteOf(PREVOTE, cl)
                /\ disk'.lock \in Voting!HeldLocks(Me)
                /\ Voting!Prevotable(Me, cl, disk'.lock)]_vars
=============================================================================
