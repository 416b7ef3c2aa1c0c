-------------------------- MODULE FinalityVoting --------------------------
(***************************************************************************)
(* All validators voting on checkpoints of a block tree: the vote rules of *)
(* FinalityVoter (finality_producer.h) under the journal discipline of     *)
(* FinalityDaemon::Tick (finality_daemon.h).                               *)
(*                                                                         *)
(* Every validator's node may be on any branch at any moment, so the       *)
(* checkpoint it considers is any member of Checkpoint.  One action is one *)
(* Tick that produced a vote: sign, persist the journal, gossip.  Votes    *)
(* may be lost or late: a certificate is a set of votes that exist, and    *)
(* whether a validator ever observes it is left open.  Restarts reload the *)
(* journal, which is the only per-validator state kept here; the module    *)
(* FinalityDaemon checks that the stepwise Tick, with its crashes and      *)
(* interleaved reads, journals no other votes than these actions do, as    *)
(* long as the node reorganizes at most once during one Tick.              *)
(*                                                                         *)
(* Faulty validators may sign anything, so their signatures are available  *)
(* to every certificate and need no state.                                 *)
(***************************************************************************)
EXTENDS FinalityQC

CONSTANTS
    Validator,    \* all keys that are ever in an epoch snapshot
    Faulty,       \* those that do not follow the program
    Checkpoint,   \* the scheduled checkpoints of all branches, as references
    Ancestors,    \* Ancestors[c]: the checkpoints on the branch ending in c
    Members,      \* Members[e]: the entries of the snapshot of epoch e
    NoVote

Honest == Validator \ Faulty
Epochs == {EpochOf(c.height) : c \in Checkpoint}

Claim == {cl \in [source : Checkpoint \cup {NullRef}, target : Checkpoint] :
            SourceRefWellFormed(cl.source, cl.target)}
Vote == [phase : Phase, source : Checkpoint \cup {NullRef}, target : Checkpoint]
SnapshotOf(e) == [epoch_id |-> e, entries |-> Members[e]]
Lock == {NoLock} \cup {LockOn(c) : c \in Checkpoint}

\* A hash commits to the block's whole ancestry: the ancestors of a block are
\* a chain, one per height, that contains the ancestors of each of them.
ASSUME TreeAssumption ==
    /\ NullRef \notin Checkpoint
    /\ \A c \in Checkpoint : c.height \in Nat /\ IsScheduledCheckpoint(c.height)
    /\ Ancestors \in [Checkpoint -> SUBSET Checkpoint]
    /\ \A c \in Checkpoint :
          /\ c \in Ancestors[c]
          /\ \A a \in Ancestors[c] :
                /\ Ancestors[a] \subseteq Ancestors[c]
                /\ a.height <= c.height
                /\ a.height = c.height => a = c

ASSUME SetAssumption ==
    /\ IsFiniteSet(Validator)
    /\ Faulty \subseteq Validator
    /\ Members \in [Epochs -> SUBSET Validator]
    /\ NoVote \notin Vote

\* Any two quorums, of one epoch or of two, share a validator that follows the
\* program.  Within one epoch this is "at most one third is faulty" (lemma
\* QuorumsIntersect); across epochs the code does not enforce it.
ASSUME QuorumAssumption ==
    \A e1, e2 \in Epochs : \A Q1 \in Quorums(Members[e1]), Q2 \in Quorums(Members[e2]) :
        Q1 \cap Q2 \cap Honest # {}

VARIABLES
    journal,   \* journal[v]: the durable DaemonJournal, lock and last vote
    votes      \* votes[v]: every vote v has signed and persisted

vars == <<journal, votes>>

Init ==
    /\ journal = [v \in Honest |-> [lock |-> NoLock, last_vote |-> NoVote]]
    /\ votes = [v \in Honest |-> {}]

-----------------------------------------------------------------------------

\* The snapshot of the target's epoch qualifies and holds the voter's key.
MemberOf(v, target) ==
    /\ SnapshotQualifies(SnapshotOf(EpochOf(target.height)))
    /\ v \in Members[EpochOf(target.height)]

VoteOf(phase, cl) == [phase |-> phase, source |-> cl.source, target |-> cl.target]

\* The keys whose signature on the claim is available: a faulty key signs
\* anything, any other key only what it voted.
Signers(phase, cl) ==
    {v \in Members[EpochOf(cl.target.height)] :
        v \in Honest => VoteOf(phase, cl) \in votes[v]}

\* A certificate for the claim can be assembled: every signer agrees on phase,
\* source and target, and the signers are a quorum of the target's epoch.
QC(phase, cl) == Signers(phase, cl) \in Quorums(Members[EpochOf(cl.target.height)])

\* (variant for mutation) a PREVOTE certificate is enough for a source
FinalizedSource_Prevoted(source) ==
    \/ source = NullRef
    \/ \E cl \in Claim : cl.target = source /\ QC(PREVOTE, cl)

\* The source is the target of the node's retained finalized record, or null.
FinalizedSource(source) ==
    \/ source = NullRef
    \/ \E cl \in Claim : cl.target = source /\ QC(PRECOMMIT, cl)

\* (variant for mutation) any vote in a frame that is not older
JournalAllows_SameFrame(last, phase, cl) ==
    last # NoVote =>
        \/ FrameNewer(cl.target.height, last.target.height)
        \/ SameFrame(cl.target.height, last.target.height)

\* Tick's journal test: only a newer frame, or PREVOTE then PRECOMMIT of the
\* exact claim of the last vote.
JournalAllows(last, phase, cl) ==
    last # NoVote =>
        \/ FrameNewer(cl.target.height, last.target.height)
        \/ phase = PRECOMMIT /\ last = VoteOf(PREVOTE, cl)

\* The held lock lies on the branch that ends in the new target.
ExtendsLock(lock, target) ==
    lock.held /\ target.height > lock.target.height /\ lock.target \in Ancestors[target]

\* A vote becomes durable and public.
Publish(v, vote, lock) ==
    /\ journal' = [journal EXCEPT ![v] = [lock |-> lock, last_vote |-> vote]]
    /\ votes' = [votes EXCEPT ![v] = @ \cup {vote}]

\* (variant for mutation) the journal of older frames is not consulted
Precommittable_NoJournal(v, cl) ==
    /\ MemberOf(v, cl.target)
    /\ FinalizedSource(cl.source)
    /\ QC(PREVOTE, cl)
    /\ LockedPrecommitAllowed(journal[v].lock, EpochOf(cl.target.height),
                              CheckpointRound(cl.target.height), cl.target)

\* The daemon reaches FinalityVoter::Precommit and it signs.
Precommittable(v, cl) ==
    /\ MemberOf(v, cl.target)
    /\ FinalizedSource(cl.source)
    /\ JournalAllows(journal[v].last_vote, PRECOMMIT, cl)
    /\ QC(PREVOTE, cl)
    /\ LockedPrecommitAllowed(journal[v].lock, EpochOf(cl.target.height),
                              CheckpointRound(cl.target.height), cl.target)

\* The locks the voter may hold in memory: the journal's, or one it took for a
\* precommit whose work grant expired before the precommit was journaled.
HeldLocks(v) ==
    {journal[v].lock} \cup {LockOn(cl.target) : cl \in {c \in Claim : Precommittable(v, c)}}

\* The daemon reaches FinalityVoter::Prevote and it signs under that lock.  A
\* PREVOTE certificate for the target, whatever its source, is an unlock proof.
Prevotable(v, cl, lock) ==
    /\ MemberOf(v, cl.target)
    /\ FinalizedSource(cl.source)
    /\ JournalAllows(journal[v].last_vote, PREVOTE, cl)
    /\ LockedPrevoteAllowed(lock, EpochOf(cl.target.height),
                            CheckpointRound(cl.target.height), cl.target,
                            \E other \in Claim : other.target = cl.target /\ QC(PREVOTE, other),
                            ExtendsLock(lock, cl.target))

Prevote(v, cl, lock) ==
    /\ Prevotable(v, cl, lock)
    /\ Publish(v, VoteOf(PREVOTE, cl), lock)

Precommit(v, cl) ==
    /\ Precommittable(v, cl)
    /\ Publish(v, VoteOf(PRECOMMIT, cl), LockOn(cl.target))

Next ==
    \E v \in Honest, cl \in Claim :
        \/ \E lock \in HeldLocks(v) : Prevote(v, cl, lock)
        \/ Precommit(v, cl)

Spec == Init /\ [][Next]_vars

-----------------------------------------------------------------------------
(* Properties *)

\* The journal and the votes have the shapes the code gives them.
TypeOK ==
    /\ journal \in [Honest -> [lock : Lock, last_vote : Vote \cup {NoVote}]]
    /\ votes \in [Honest -> SUBSET Vote]

\* Two checkpoints that both gather a PRECOMMIT certificate lie on one branch:
\* finality_qc.h's locking section promises that the lock "prevents the honest
\* majority from ever producing the conflict in the first place".
Agreement ==
    \A c1, c2 \in Claim :
        (QC(PRECOMMIT, c1) /\ QC(PRECOMMIT, c2) /\ c1.target.height <= c2.target.height)
        => c1.target \in Ancestors[c2.target]

\* A validator that follows the program never produces a pair of votes that
\* IsEquivocation (finality_votes.h) would slash it for.
NeverSlashable ==
    \A v \in Honest : \A a, b \in votes[v] : ~IsEquivocation(a, b)

\* Every certificate's justified source is a checkpoint of the certified
\* branch, although source and target reach the voter from different reads.
JustifiedLineage ==
    \A cl \in Claim :
        (QC(PRECOMMIT, cl) /\ cl.source # NullRef) => cl.source \in Ancestors[cl.target]

\* A voter's lock is never dropped, and moves only to a newer (epoch, round),
\* although the round number restarts at every epoch boundary.
LockMovesForward ==
    [][\A v \in Honest :
          (journal[v].lock.held /\ journal'[v].lock # journal[v].lock)
          => /\ journal'[v].lock.held
             /\ journal'[v].lock.target.height > journal[v].lock.target.height]_vars

-----------------------------------------------------------------------------
(* The inductive invariant behind them *)

Precommitted(v, target) ==
    \E x \in votes[v] : x.phase = PRECOMMIT /\ x.target = target

\* Every quorum that could certify the target holds a validator that follows
\* the program, has moved past the target's frame and never precommitted it.
\* Nothing undoes this: the target can no longer be finalized.
Blocked(target) ==
    \A Q \in Quorums(Members[EpochOf(target.height)]) : \E v \in Q \cap Honest :
        /\ journal[v].last_vote # NoVote
        /\ journal[v].last_vote.target.height > target.height
        /\ ~Precommitted(v, target)

\* The journal's last vote is the newest one, and votes in its frame repeat its
\* claim; a PREVOTE there means no PRECOMMIT has been cast in the frame.
JournalIsNewest ==
    \A v \in Honest : \A x \in votes[v] :
        LET last == journal[v].last_vote IN
        /\ last # NoVote
        /\ x.target.height <= last.target.height
        /\ x.target.height = last.target.height =>
              /\ x.source = last.source /\ x.target = last.target
              /\ last.phase = PREVOTE => x = last

\* One validator, one frame: one claim.
OneClaimPerFrame ==
    \A v \in Honest : \A a, b \in votes[v] :
        a.target.height = b.target.height => a.source = b.source /\ a.target = b.target

\* The lock covers every precommit of its owner, and stands on a target that
\* gathered a PREVOTE certificate.
LockCoversPrecommits ==
    \A v \in Honest :
        LET lock == journal[v].lock IN
        /\ lock.held => \E cl \in Claim : cl.target = lock.target /\ QC(PREVOTE, cl)
        /\ \A x \in votes[v] : x.phase = PRECOMMIT =>
              /\ lock.held
              /\ x.target.height <= lock.target.height
              /\ x.target.height = lock.target.height => x.target = lock.target

\* Votes are well-formed claims; a precommit rests on a PREVOTE certificate.
PrecommitsJustified ==
    \A v \in Honest : \A x \in votes[v] :
        LET cl == [source |-> x.source, target |-> x.target] IN
        /\ cl \in Claim
        /\ x.phase = PRECOMMIT => QC(PREVOTE, cl)
        /\ FinalizedSource(x.source)

\* A prevote that leaves behind a lower target of another branch: its signer
\* never precommitted that target, or the target is blocked for everyone.
PrevotesSafe ==
    \A v \in Honest : \A x \in votes[v] : \A t \in Checkpoint :
        (/\ x.phase = PREVOTE
         /\ t.height < x.target.height
         /\ t \notin Ancestors[x.target])
        => ~Precommitted(v, t) \/ Blocked(t)

\* The strengthening of Agreement, NeverSlashable and JustifiedLineage that
\* every step of a voter preserves.
VotingInv ==
    /\ TypeOK
    /\ JournalIsNewest
    /\ OneClaimPerFrame
    /\ LockCoversPrecommits
    /\ PrecommitsJustified
    /\ PrevotesSafe
=============================================================================
