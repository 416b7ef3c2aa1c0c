---------------------------- MODULE FinalityQC ----------------------------
(***************************************************************************)
(* The pure rules of the locked-quorum-certificate finality layer:         *)
(* include/consensus/finality_qc.h, finality_votes.h, finality_snapshot.h  *)
(* and security_upgrade.h.  No state; every stateful module extends it.    *)
(*                                                                         *)
(* A checkpoint reference is a record [height, hash].  Hashes are opaque.  *)
(* An epoch snapshot is [epoch_id, entries] with entries the set of member *)
(* keys: every member weighs exactly BOND_PER_KEY_UNITS, so a weight is a  *)
(* number of keys and the bond cancels out of every comparison; the root   *)
(* commits to the whole set, so two roots are equal iff the sets are.      *)
(***************************************************************************)
EXTENDS Integers, FiniteSets

CONSTANTS
    EPOCH_BLOCKS,                  \* 480 in the code
    CHECKPOINT_INTERVAL,           \* 20
    MIN_VALIDATOR_COUNT,           \* 7
    MAX_FINALITY_VALIDATOR_COUNT,  \* 3398
    CONSENSUS_SECURITY_UPGRADE_HEIGHT, \* 2880; 0 means never
    NoHash                         \* the all-zero hash

\* BLOCKS_PER_DAY is a positive multiple of BLOCKS_PER_DAY / 24.
ASSUME ProfileAssumption ==
    /\ CHECKPOINT_INTERVAL \in Nat \ {0}
    /\ EPOCH_BLOCKS \in Nat \ {0}
    /\ EPOCH_BLOCKS % CHECKPOINT_INTERVAL = 0
    /\ MIN_VALIDATOR_COUNT \in Nat \ {0}
    /\ MAX_FINALITY_VALIDATOR_COUNT \in Nat
    /\ CONSENSUS_SECURITY_UPGRADE_HEIGHT \in Nat

VOTE_WINDOW_BLOCKS == CHECKPOINT_INTERVAL

PREVOTE == 1
PRECOMMIT == 2
Phase == {PREVOTE, PRECOMMIT}

NullRef == [height |-> 0, hash |-> NoHash]

-----------------------------------------------------------------------------
(* Heights, epochs, rounds *)

IsScheduledCheckpoint(height) == height # 0 /\ height % CHECKPOINT_INTERVAL = 0

CheckpointRound(height) == (height % EPOCH_BLOCKS) \div CHECKPOINT_INTERVAL

EpochOf(height) == height \div EPOCH_BLOCKS

EpochStart(epoch_id) == epoch_id * EPOCH_BLOCKS

\* Epoch is the high-order part of a consensus round.
ConsensusRoundNewer(epoch, round, prior_epoch, prior_round) ==
    \/ epoch > prior_epoch
    \/ epoch = prior_epoch /\ round > prior_round

\* The frame of one checkpoint height is newer than that of another.
FrameNewer(height, prior_height) ==
    ConsensusRoundNewer(EpochOf(height), CheckpointRound(height),
                        EpochOf(prior_height), CheckpointRound(prior_height))

SameFrame(height, other) ==
    /\ EpochOf(height) = EpochOf(other)
    /\ CheckpointRound(height) = CheckpointRound(other)

\* (variant for mutation) certificates may arrive one interval later
InVoteWindow_Twice(target_height, inclusion_height) ==
    /\ inclusion_height > target_height
    /\ inclusion_height <= target_height + 2 * VOTE_WINDOW_BLOCKS

InVoteWindow(target_height, inclusion_height) ==
    /\ inclusion_height > target_height
    /\ inclusion_height <= target_height + VOTE_WINDOW_BLOCKS

SourceRefWellFormed(source, target) ==
    \/ source = NullRef
    \/ /\ source.height # 0
       /\ IsScheduledCheckpoint(source.height)
       /\ source.height < target.height

ConsensusSecurityUpgradeActive(height) ==
    /\ CONSENSUS_SECURITY_UPGRADE_HEIGHT # 0
    /\ height >= CONSENSUS_SECURITY_UPGRADE_HEIGHT

-----------------------------------------------------------------------------
(* Quorums over an epoch snapshot *)

\* Strictly more than two thirds; a zero total never has a quorum.
IsSupermajority(weight, total_weight) ==
    /\ total_weight # 0
    /\ weight * 3 > total_weight * 2

Quorums(entries) ==
    {Q \in SUBSET entries : IsSupermajority(Cardinality(Q), Cardinality(entries))}

\* TOTAL_BOND_FLOOR is MIN_VALIDATOR_COUNT bonds, so the third conjunct of
\* EpochSnapshot::Qualified is the first one.
SnapshotQualifies(s) ==
    /\ Cardinality(s.entries) >= MIN_VALIDATOR_COUNT
    /\ Cardinality(s.entries) <= MAX_FINALITY_VALIDATOR_COUNT

-----------------------------------------------------------------------------
(* Locks and votes *)

NoLock == [held |-> FALSE, epoch_id |-> 0, round |-> 0, target |-> NullRef]

\* The lock a voter takes when it signs a precommit for target.
LockOn(target) ==
    [held |-> TRUE, epoch_id |-> EpochOf(target.height),
     round |-> CheckpointRound(target.height), target |-> target]

\* (variant for mutation) a higher target counts as a descendant of the lock
LockedPrevoteAllowed_HeightOnly(lock, new_epoch, new_round, new_target, unlock_proof, extends_lock) ==
    \/ ~lock.held
    \/ lock.target = new_target
    \/ ConsensusRoundNewer(new_epoch, new_round, lock.epoch_id, lock.round)

\* unlock_proof: a verified PREVOTE certificate for exactly this target is
\* supplied.  Its epoch and round are those of the target (QcWellFormed).
LockedPrevoteAllowed(lock, new_epoch, new_round, new_target, unlock_proof, extends_lock) ==
    \/ ~lock.held
    \/ lock.target = new_target
    \/ /\ ConsensusRoundNewer(new_epoch, new_round, lock.epoch_id, lock.round)
       /\ \/ extends_lock /\ new_target.height > lock.target.height
          \/ unlock_proof

\* The lock test of FinalityVoter::Precommit.
LockedPrecommitAllowed(lock, new_epoch, new_round, new_target) ==
    \/ ~lock.held
    \/ lock.target = new_target
    \/ ConsensusRoundNewer(new_epoch, new_round, lock.epoch_id, lock.round)

\* Two votes of one signer that slashing treats as an offence.
IsEquivocation(a, b) ==
    /\ a.phase = b.phase
    /\ SameFrame(a.target.height, b.target.height)
    /\ a.target # b.target
=============================================================================
