--------------------------- MODULE FinalityState ---------------------------
(***************************************************************************)
(* One node's retained finality state (finality_state.h) on a chain that   *)
(* reorganizes: the per-block order of node.h (OnBlockHeight, certificate, *)
(* epoch snapshot), the two finality gates of ReorganizeBounded_           *)
(* (blockchain.h), and the miner's certificate filter.                     *)
(*                                                                         *)
(* A branch is a sequence of frames, one per height from 1.  A frame holds *)
(* the block's hash and the FinalityState after the block: the state is a  *)
(* function of the branch, which the node recomputes by replay and the     *)
(* model stores.  Every fork of the tree has a number; the hash of a block *)
(* is the number of the fork it was mined on (with the height, unique).    *)
(*                                                                         *)
(* The blocks a block tree holds beside the canonical chain are one side   *)
(* branch; a reorganization leaves the displaced tail as the new one, so   *)
(* the node can return.  Work is not modelled: any side branch may turn    *)
(* out to be the heavier one.                                              *)
(***************************************************************************)
EXTENDS FinalityQC, Sequences

CONSTANTS
    SNAPSHOT_RETENTION,   \* 2
    MAX_REORG_DEPTH,      \* 100
    SnapshotSets,         \* the validator sets an epoch snapshot may find
    MaxHeight,            \* bound: height of any block
    MaxForks              \* bound: number of forks ever started

VARIABLES
    chain,   \* the canonical branch
    side,    \* the side branch: [ancestor, frames], frames empty if none
    forks    \* forks numbered so far, the first being number 0

vars == <<chain, side, forks>>

NullRecord == [epoch_id |-> 0, target |-> NullRef, set_root |-> {}, carrier |-> NullRef]

EmptyState ==
    [consecutive_qualified_epochs |-> 0, finality_ever_active |-> FALSE,
     snapshots |-> <<>>, record |-> NullRecord,
     certified_carrier_record |-> NullRecord, security_upgrade_active |-> FALSE]

NoSide == [ancestor |-> 0, frames |-> <<>>]

\* The state a branch ends in, and the reference to its block at a height.
StateOf(branch) == IF branch = <<>> THEN EmptyState ELSE branch[Len(branch)].state
RefAt(branch, h) == [height |-> h, hash |-> branch[h].hash]
Has(branch, ref) == ref.height \in 1..Len(branch) /\ branch[ref.height].hash = ref.hash

\* (variant for mutation) one qualified epoch is enough
FinalityActive_OneEpoch(state) == state.consecutive_qualified_epochs >= 1

FinalityActive(state) == state.consecutive_qualified_epochs >= 2

-----------------------------------------------------------------------------
(* FinalityState's transitions *)

OnBlockHeight(state, height) ==
    IF ConsensusSecurityUpgradeActive(height) /\ ~state.security_upgrade_active
    THEN [state EXCEPT !.certified_carrier_record = state.record,
                       !.security_upgrade_active = TRUE]
    ELSE state

AnchorAuthorizationRecord(state) ==
    IF state.security_upgrade_active THEN state.certified_carrier_record ELSE state.record

RequiredReorgAncestor(state) ==
    IF state.record = NullRecord THEN 0
    ELSE IF ConsensusSecurityUpgradeActive(state.record.carrier.height)
         THEN state.record.target.height
         ELSE state.record.carrier.height

\* (variant for mutation) the finalized block survives, its proof may not
CandidateRetainsFinality_TargetOnly(state, candidate, branch) ==
    state.record # NullRecord => Has(branch, state.record.target)

CandidateRetainsFinality(state, candidate, branch) ==
    state.record # NullRecord =>
        /\ Has(branch, state.record.target)
        /\ IF ConsensusSecurityUpgradeActive(state.record.carrier.height)
           THEN /\ candidate.record # NullRecord
                /\ candidate.record.target.height >= state.record.target.height
                /\ \/ candidate.record.target.height # state.record.target.height
                   \/ candidate.record.target.hash = state.record.target.hash
           ELSE Has(branch, state.record.carrier)

\* A precommit certificate carried at carrier advances the record: its set is
\* retained, its signatures are of that set, finality is active, its target is
\* the block of this branch, its source is the retained target.
CertificateAccepted(state, qc, carrier, branch) ==
    /\ InVoteWindow(qc.target.height, carrier.height)
    /\ qc.epoch_id \in DOMAIN state.snapshots
    /\ qc.set_root = state.snapshots[qc.epoch_id]
    /\ Has(branch, qc.target)
    /\ FinalityActive(state)
    /\ IF state.record = NullRecord
       THEN qc.source = NullRef
       ELSE /\ qc.source = state.record.target
            /\ qc.target.height > state.record.target.height
            /\ qc.epoch_id >= state.record.epoch_id
    /\ IsScheduledCheckpoint(qc.target.height)
    /\ qc.epoch_id = EpochOf(qc.target.height)
    /\ SourceRefWellFormed(qc.source, qc.target)
    /\ SnapshotQualifies([epoch_id |-> qc.epoch_id, entries |-> state.snapshots[qc.epoch_id]])

\* (variant for mutation) a fresh certificate authorizes anchors at once
OnCertificate_AuthorizesItself(state, qc, carrier) ==
    LET record == [epoch_id |-> qc.epoch_id, target |-> qc.target,
                   set_root |-> qc.set_root, carrier |-> carrier]
    IN  [state EXCEPT !.certified_carrier_record = record, !.record = record]

OnCertificate(state, qc, carrier) ==
    [state EXCEPT
        !.certified_carrier_record =
            IF /\ state.security_upgrade_active
               /\ state.record # NullRecord
               /\ qc.target.height >= state.record.carrier.height
            THEN state.record ELSE @,
        !.record = [epoch_id |-> qc.epoch_id, target |-> qc.target,
                    set_root |-> qc.set_root, carrier |-> carrier]]

\* (variant for mutation) the previous epoch's set is dropped at the boundary
Retain_NewestOnly(snapshots, epoch, entries) == [e \in {epoch} |-> entries]

\* The snapshots kept after one more epoch: the newest SNAPSHOT_RETENTION ones.
Retain(snapshots, epoch, entries) ==
    LET known == DOMAIN snapshots \cup {epoch}
        kept == {e \in known : Cardinality({f \in known : f > e}) < SNAPSHOT_RETENTION}
    IN  [e \in kept |-> IF e = epoch THEN entries ELSE snapshots[e]]

\* (variant for mutation) a dip pauses the warm-up instead of restarting it
OnEpochBoundary_Pauses(state, epoch, entries) ==
    LET count == IF SnapshotQualifies([epoch_id |-> epoch, entries |-> entries])
                 THEN state.consecutive_qualified_epochs + 1
                 ELSE state.consecutive_qualified_epochs
    IN  [state EXCEPT !.snapshots = Retain(@, epoch, entries),
                      !.consecutive_qualified_epochs = count,
                      !.finality_ever_active = @ \/ count >= 2]

OnEpochBoundary(state, epoch, entries) ==
    LET count == IF SnapshotQualifies([epoch_id |-> epoch, entries |-> entries])
                 THEN state.consecutive_qualified_epochs + 1
                 ELSE 0
    IN  [state EXCEPT !.snapshots = Retain(@, epoch, entries),
                      !.consecutive_qualified_epochs = count,
                      !.finality_ever_active = @ \/ count >= 2]

IsEpochBoundary(height) == height + 1 = EpochStart(EpochOf(height) + 1)

-----------------------------------------------------------------------------
(* Applying one block to a branch *)

\* Every certificate that names a target of either branch; NoCert is none.
NoCert == [epoch_id |-> 0, set_root |-> {}, source |-> NullRef, target |-> NullRef]

SideBranch == SubSeq(chain, 1, side.ancestor) \o side.frames

\* The blocks of a branch whose certificate a block at height may carry.
WindowRefs(branch, height) ==
    {RefAt(branch, h) : h \in {k \in 1..Len(branch) : InVoteWindow(k, height)}}

CertificatesFor(branch, height) ==
    LET refs == WindowRefs(branch, height) \cup WindowRefs(chain, height)
                    \cup WindowRefs(SideBranch, height)
        sources == {NullRef, StateOf(branch).record.target, StateOf(chain).record.target}
    IN  {NoCert} \cup
        [epoch_id : {EpochOf(r.height) : r \in refs}, set_root : SnapshotSets,
         source : sources, target : refs]

\* The block's height advances the state, then its certificate is ingested
\* (an unacceptable one makes the block invalid), then the last block of an
\* epoch freezes the next epoch's validator set.
BlockValid(branch, height, qc) ==
    LET state == OnBlockHeight(StateOf(branch), height)
    IN  qc # NoCert => CertificateAccepted(state, qc, [height |-> height, hash |-> NoHash], branch)

AfterBlock(branch, hash, qc, entries) ==
    LET height == Len(branch) + 1
        begun == OnBlockHeight(StateOf(branch), height)
        fed == IF qc = NoCert THEN begun
               ELSE OnCertificate(begun, qc, [height |-> height, hash |-> hash])
        done == IF IsEpochBoundary(height)
                THEN OnEpochBoundary(fed, EpochOf(height) + 1, entries)
                ELSE fed
    IN  Append(branch, [hash |-> hash, state |-> done])

\* The validator sets the registry may hold after a block: they matter only
\* where a snapshot is taken.
SetsAt(height) ==
    IF IsEpochBoundary(height) THEN SnapshotSets ELSE {CHOOSE s \in SnapshotSets : TRUE}

ForkOf(branch) == IF branch = <<>> THEN 0 ELSE branch[Len(branch)].hash

-----------------------------------------------------------------------------

Init ==
    /\ chain = <<>>
    /\ side = NoSide
    /\ forks = 0

\* A block extends the canonical tip.
ConnectBlock ==
    LET height == Len(chain) + 1 IN
    /\ height <= MaxHeight
    /\ \E qc \in CertificatesFor(chain, height), entries \in SetsAt(height) :
          /\ BlockValid(chain, height, qc)
          /\ chain' = AfterBlock(chain, ForkOf(chain), qc, entries)
    /\ UNCHANGED <<side, forks>>

\* A block on another parent arrives and starts a new side branch; the block
\* tree forgets the previous one.
StartSide ==
    \E ancestor \in 0..(Len(chain) - 1) :
        LET prefix == SubSeq(chain, 1, ancestor) IN
        /\ forks < MaxForks
        /\ Len(chain) - ancestor < MAX_REORG_DEPTH
        /\ \E qc \in CertificatesFor(prefix, ancestor + 1), entries \in SetsAt(ancestor + 1) :
              /\ BlockValid(prefix, ancestor + 1, qc)
              /\ side' = [ancestor |-> ancestor,
                          frames |-> <<AfterBlock(prefix, forks + 1, qc, entries)[ancestor + 1]>>]
        /\ forks' = forks + 1
        /\ UNCHANGED chain

\* A block extends the side branch.
ExtendSide ==
    LET branch == SideBranch
        height == Len(branch) + 1
    IN
    /\ side.frames # <<>>
    /\ height <= MaxHeight
    /\ \E qc \in CertificatesFor(branch, height), entries \in SetsAt(height) :
          /\ BlockValid(branch, height, qc)
          /\ side' = [side EXCEPT !.frames =
                        Append(@, AfterBlock(branch, ForkOf(branch), qc, entries)[height])]
    /\ UNCHANGED <<chain, forks>>

\* ReorganizeBounded_: depth, the early finality gate on the common ancestor,
\* then, after the whole suffix is replayed, the retention gate; any refusal
\* restores the old chain.
Reorganize ==
    LET candidate == SideBranch IN
    /\ side.frames # <<>>
    /\ Len(chain) - side.ancestor < MAX_REORG_DEPTH
    /\ side.ancestor >= RequiredReorgAncestor(StateOf(chain))
    /\ CandidateRetainsFinality(StateOf(chain), StateOf(candidate), candidate)
    /\ chain' = candidate
    /\ side' = [ancestor |-> side.ancestor,
                frames |-> SubSeq(chain, side.ancestor + 1, Len(chain))]
    /\ UNCHANGED forks

Next == ConnectBlock \/ StartSide \/ ExtendSide \/ Reorganize

Spec == Init /\ [][Next]_vars

-----------------------------------------------------------------------------
(* Properties *)

Record == StateOf(chain).record
Authorization == AnchorAuthorizationRecord(StateOf(chain))

\* The state holds what the code's fields can hold.
TypeOK ==
    /\ forks \in 0..MaxForks
    /\ side.ancestor \in 0..Len(chain)
    /\ \A h \in 1..Len(chain) :
          /\ chain[h].hash \in 0..forks
          /\ chain[h].state.consecutive_qualified_epochs \in Nat
          /\ DOMAIN chain[h].state.snapshots \subseteq Nat
          /\ Cardinality(DOMAIN chain[h].state.snapshots) <= SNAPSHOT_RETENTION

\* The retained record describes the canonical chain: target and carrier are
\* canonical blocks, by height and hash, the carrier in the target's window.
RecordCanonical ==
    Record # NullRecord =>
        /\ Has(chain, Record.target)
        /\ Has(chain, Record.carrier)
        /\ InVoteWindow(Record.target.height, Record.carrier.height)

\* No block replaces a finalized one and the finalized height never falls, in
\* particular when a reorganization replaces the carrier of the certificate
\* (RequiredReorgAncestor and CandidateRetainsFinality together).
FinalizedNeverReverted ==
    [][Record # NullRecord =>
          /\ Has(chain', Record.target)
          /\ Record'.target.height >= Record.target.height]_vars

\* The record that may authorize a permanent Bitcoin anchor never goes away:
\* its carrier stays canonical through every later reorganization, across the
\* upgrade height too, although newer carriers may be replaced.
AuthorizationPermanent ==
    [][Authorization # NullRecord =>
          /\ Has(chain', Authorization.carrier)
          /\ Authorization'.target.height >= Authorization.target.height]_vars

\* After the upgrade, every certificate makes the record it supersedes the
\* authorizing one: the test "target.height >= record.carrier.height" in
\* OnCertificate never withholds it, so no anchor waits for a second one.
SupersededAuthorizes ==
    [][(/\ Len(chain') > Len(chain)
        /\ SubSeq(chain', 1, Len(chain)) = chain
        /\ StateOf(chain').security_upgrade_active
        /\ Record # NullRecord
        /\ Record' # Record)
       => Authorization' = Record]_vars

\* While finality is active, every retained validator set qualifies: the
\* warm-up counts consecutive qualified epochs and restarts on a dip.
ActiveSetsQualified ==
    FinalityActive(StateOf(chain)) =>
        \A e \in DOMAIN StateOf(chain).snapshots :
            SnapshotQualifies([epoch_id |-> e, entries |-> StateOf(chain).snapshots[e]])

\* The state is one the code's fields can hold, describes the canonical chain, and
\* counts only qualified sets towards active finality.
StateConsistent == TypeOK /\ RecordCanonical /\ ActiveSetsQualified

\* Two snapshots are enough: the set of every checkpoint that the next block
\* may carry a certificate for is retained.
WindowSetsRetained ==
    \A t \in 1..Len(chain) :
        (/\ IsScheduledCheckpoint(t)
         /\ InVoteWindow(t, Len(chain) + 1)
         /\ EpochOf(t) # 0)
        => EpochOf(t) \in DOMAIN StateOf(chain).snapshots

\* The filter PendingFinalityCoinbaseMetadataUnderTransition_ applies before a
\* certificate enters a block template, for well-formed certificates.
PendingCertificate(qc, height) ==
    LET state == StateOf(chain) IN
    /\ FinalityActive(state)
    /\ qc.epoch_id \in DOMAIN state.snapshots
    /\ qc.set_root = state.snapshots[qc.epoch_id]
    /\ InVoteWindow(qc.target.height, height)
    /\ Has(chain, qc.target)
    /\ IF state.record = NullRecord
       THEN qc.source = NullRef
       ELSE /\ qc.source = state.record.target
            /\ qc.target.height > state.record.target.height

WellFormedCertificate(qc) ==
    /\ IsScheduledCheckpoint(qc.target.height)
    /\ qc.epoch_id = EpochOf(qc.target.height)
    /\ SourceRefWellFormed(qc.source, qc.target)

\* A miner never burns work on a certificate the block rules refuse, and never
\* withholds one they accept.
TemplateMatchesRules ==
    \A qc \in CertificatesFor(chain, Len(chain) + 1) \ {NoCert} :
        WellFormedCertificate(qc) =>
            (PendingCertificate(qc, Len(chain) + 1) <=> BlockValid(chain, Len(chain) + 1, qc))
=============================================================================
