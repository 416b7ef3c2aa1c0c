---------------------------- MODULE VoteIntake ----------------------------
(***************************************************************************)
(* How a node takes in finality votes: VerifyFinalityVoteWire_ of          *)
(* include/node/node.h with the CertAssembler of finality_producer.h, the  *)
(* equivocation detector and collector of finality_equivocation.h, the     *)
(* evidence journal, and the retirement of votes when a certificate has    *)
(* been carried by a durable block.                                        *)
(*                                                                         *)
(* A vote is checked under the consensus-transition lock, authenticated    *)
(* with no lock held, and checked again before it changes anything; blocks,*)
(* reorganizations and other votes come in between.                        *)
(*                                                                         *)
(* A vote is [signer, phase, height, hash].  Height gives epoch and round, *)
(* and the target gives the source: while the target is in its vote window *)
(* the record it builds on cannot change except to the target itself.      *)
(* Votes naming another source never match the canonical frame.            *)
(***************************************************************************)
EXTENDS FinalityQC

CONSTANTS
    Honest, Faulty,       \* the members of every epoch's snapshot
    Hashes,               \* two block hashes per height
    HonestTarget,         \* [Honest -> Hashes]: the one each honest member signs
    VoteHeights,          \* checkpoints somebody votes on
    VotePhases,           \* phases somebody votes in
    MAX_POOL_VOTES,       \* assembler capacity
    MAX_PENDING_VOTES,    \* detector capacity
    MAX_COMPLETED_PAIRS,  \* collector capacity
    FINALITY_EQUIV_EVIDENCE_WINDOW,
    StartHeight, MaxHeight, MaxReorgs, MaxInFlight, MaxFaults, MaxRestarts

VARIABLES
    tip_height, canon,    \* height and hash of every canonical block
    finalized,            \* height of the finalized record
    checking,             \* votes authenticated with no lock held
    firsts, conflicts,    \* signer_rounds_: first vote, conflicting vote
    bucket,               \* pool_: the votes that count
    vote_count, highest,  \* vote_count_, highest_epoch_ (-1: none yet)
    detector,             \* pending_ and fifo_: the place of every vote, the oldest's is 1
    collector,            \* records_: completed pairs
    uncertain,            \* fin_equivocation_journal_uncertain_
    file,                 \* the journal file
    olders, inherited,    \* what a power cut may bring back instead: written
                          \* by this process, or before it started
    proved,               \* <<epoch, signer>> proved since the last start
    faults, reorgs, restarts

chainVars == <<tip_height, canon, finalized, reorgs>>
poolVars == <<firsts, conflicts, bucket, vote_count, highest>>
evidenceVars == <<detector, collector, uncertain>>
diskVars == <<file, olders, inherited, faults>>
intakeVars == <<chainVars, checking, poolVars, evidenceVars, diskVars, proved, restarts>>

Signers == Honest \cup Faulty

\* An honest member signs one hash per height; a faulty one signs anything.
Vote ==
    [signer : Faulty, phase : VotePhases, height : VoteHeights, hash : Hashes]
    \cup {[signer |-> s, phase |-> p, height |-> h, hash |-> HonestTarget[s]] :
             s \in Honest, p \in VotePhases, h \in VoteHeights}

Epoch(v) == EpochOf(v.height)
OffenseKey(v) == <<Epoch(v), v.signer>>
SameRound(v, w) == v.signer = w.signer /\ v.phase = w.phase /\ v.height = w.height

NoPending == [v \in {} |-> 0]

IntakeInit ==
    /\ tip_height = StartHeight
    /\ canon \in {[h \in 0..MaxHeight |-> x] : x \in {CHOOSE y \in Hashes : TRUE}}
    /\ finalized = 0
    /\ checking = {} /\ firsts = {} /\ conflicts = {} /\ bucket = {}
    /\ vote_count = 0 /\ highest = -1
    /\ detector = NoPending /\ collector = {} /\ uncertain = FALSE
    /\ file = {} /\ olders = {} /\ inherited = {} /\ proved = {}
    /\ faults = 0 /\ reorgs = 0 /\ restarts = 0

-----------------------------------------------------------------------------
(* CertAssembler *)

\* HasVoteClaim: the claim is held for this signer's round.  Two signatures
\* over one claim are one vote here.
HasVoteClaim(v) == v \in firsts \cup conflicts

\* RecomputeAccountingLocked_.
Accounted(f, c) == Cardinality(f) + Cardinality(c)

\* PruneBelowEpochLocked_(e - 1) on one of the maps.
KeepFromEpoch(S, e) == {v \in S : Epoch(v) + 1 >= e}

\* StoreAuthenticatedVote_ for a claim not held yet.  The first vote of a
\* signer's round counts; one conflicting vote per signer and epoch is kept
\* beside it (evidence_signers_) and does not count.
StoreAuthenticatedVote_(v) ==
    LET top == IF Epoch(v) > highest THEN Epoch(v) ELSE highest
        kept == KeepFromEpoch(firsts, top)
        pairs == KeepFromEpoch(conflicts, top)
        count == IF top > highest THEN Accounted(kept, pairs) ELSE vote_count
        known == \E w \in kept : SameRound(v, w)
        stored == /\ Epoch(v) + 1 >= top
                  /\ count < MAX_POOL_VOTES
                  /\ known => ~\E w \in pairs : OffenseKey(w) = OffenseKey(v)
    IN  /\ highest' = top
        /\ firsts' = IF stored /\ ~known THEN kept \cup {v} ELSE kept
        /\ conflicts' = IF stored /\ known THEN pairs \cup {v} ELSE pairs
        /\ bucket' = KeepFromEpoch(bucket, top)
                         \cup (IF stored /\ ~known THEN {v} ELSE {})
        /\ vote_count' = IF stored THEN count + 1 ELSE count

\* RemoveSignerEpoch for the signer and epoch of v.
RemoveSignerEpoch(v) ==
    LET others(S) == {w \in S : OffenseKey(w) # OffenseKey(v)}
    IN  /\ firsts' = others(firsts)
        /\ conflicts' = others(conflicts)
        /\ bucket' = others(bucket)
        /\ vote_count' = Accounted(firsts', conflicts')
        /\ UNCHANGED highest

\* (variant for mutation) the first vote of a conflict pair is forgotten too
RemoveFinalizedClaim_Pairs(claims) ==
    LET done == {v \in bucket : <<v.height, v.hash>> \in claims}
    IN  /\ firsts' = firsts \ done
        /\ bucket' = bucket \ done
        /\ vote_count' = vote_count - Cardinality({v \in done : ~\E w \in conflicts : SameRound(v, w)})
        /\ UNCHANGED <<conflicts, highest>>

\* RemoveFinalizedClaim for each claim <<height, hash>>: both phases' buckets
\* go; the first vote of a conflict pair stays in signer_rounds_.
RemoveFinalizedClaim(claims) ==
    LET done == {v \in bucket : <<v.height, v.hash>> \in claims}
        freed == {v \in done : ~\E w \in conflicts : SameRound(v, w)}
    IN  /\ firsts' = firsts \ freed
        /\ bucket' = bucket \ done
        /\ vote_count' = vote_count - Cardinality(freed)
        /\ UNCHANGED <<conflicts, highest>>

-----------------------------------------------------------------------------
(* Detector, collector and journal *)

\* FinalityEvidenceVoteWellFormed: any branch, inside the evidence window.
EvidenceVoteWellFormed(v) ==
    /\ v.height <= tip_height
    /\ tip_height - v.height <= FINALITY_EQUIV_EVIDENCE_WINDOW

HasOffense(v) == \E p \in collector : p.key = OffenseKey(v)

\* (variant for mutation) two votes of one epoch conflict at any height
Sibling_AnyHeight(v) ==
    {w \in DOMAIN detector : /\ w.signer = v.signer /\ w.phase = v.phase
                             /\ <<w.height, w.hash>> # <<v.height, v.hash>>}

\* The votes of the same frame for another target that the detector holds.
Sibling(v) == {w \in DOMAIN detector : SameRound(w, v) /\ w.hash # v.hash}

\* The pending votes that are left when the others are erased, in their order.
Remaining(votes) ==
    [w \in votes |-> Cardinality({u \in votes : detector[u] <= detector[w]})]

\* ObserveAuthenticated without a sibling: the oldest votes make room.
Observe(v) ==
    IF v \in DOMAIN detector THEN detector
    ELSE LET over == Cardinality(DOMAIN detector) + 1 - MAX_PENDING_VOTES
             kept == {w \in DOMAIN detector : detector[w] > over}
         IN  [w \in kept \cup {v} |->
                 IF w = v THEN Cardinality(kept) + 1 ELSE Remaining(kept)[w]]

EraseSignerEpoch(v) == Remaining({w \in DOMAIN detector : OffenseKey(w) # OffenseKey(v)})

PairOf(v, w) == [key |-> OffenseKey(v), height |-> v.height,
                 phase |-> v.phase, hashes |-> {v.hash, w.hash}]

\* PersistFinalityEvidenceLocked_ as its caller learns of it: written and
\* synced, written but not known synced, not written, or written and then
\* unreadable, which the caller is told as not written.
Outcome == {"Committed", "CommitUncertain", "NotCommitted", "Unread"}

\* (variant for mutation) a write whose sync failed counts as committed
Persist_Optimistic(records, out, f, o, u) ==
    /\ file' = IF out = "NotCommitted" THEN f ELSE records
    /\ olders' = CASE out = "Committed" -> {}
                   [] out = "NotCommitted" -> o
                   [] OTHER -> o \cup {f}
    /\ inherited' = IF out = "Committed" THEN {} ELSE inherited
    /\ uncertain' = FALSE
    /\ faults' = IF out = "Committed" THEN faults ELSE faults + 1

\* The disk and the flag after an attempt to write records over f and o, the
\* flag being u before.
Persist(records, out, f, o, u) ==
    /\ file' = IF out = "NotCommitted" THEN f ELSE records
    /\ olders' = CASE out = "Committed" -> {}
                   [] out = "NotCommitted" -> o
                   [] OTHER -> o \cup {f}
    /\ inherited' = IF out = "Committed" THEN {} ELSE inherited
    /\ uncertain' = CASE out = "Committed" -> FALSE
                      [] out = "CommitUncertain" -> TRUE
                      [] OTHER -> u
    /\ faults' = IF out = "Committed" THEN faults ELSE faults + 1

MayHappen(out) == out = "Committed" \/ faults < MaxFaults

-----------------------------------------------------------------------------
(* VerifyFinalityVoteWire_ *)

\* First critical section.  An exact copy of a held vote is answered here;
\* the same claim signed again goes on like any other vote.
CheckVote(v) ==
    /\ Cardinality(checking) < MaxInFlight
    /\ v \notin checking
    /\ EvidenceVoteWellFormed(v)
    /\ checking' = checking \cup {v}
    /\ UNCHANGED <<chainVars, poolVars, evidenceVars, diskVars, proved, restarts>>

\* The signature has been verified; the second critical section begins.
Authenticated(v) ==
    /\ v \in checking
    /\ checking' = checking \ {v}
    /\ UNCHANGED <<chainVars, restarts>>

\* The vote has left the evidence window meanwhile.
RejectStale(v) ==
    /\ Authenticated(v)
    /\ ~EvidenceVoteWellFormed(v)
    /\ UNCHANGED <<poolVars, evidenceVars, diskVars, proved>>

\* The journal is uncertain and writing it again does not settle it.
RejectUncertain(v, out) ==
    /\ Authenticated(v)
    /\ EvidenceVoteWellFormed(v)
    /\ uncertain /\ out # "Committed" /\ MayHappen(out)
    /\ Persist(collector, out, file, olders, uncertain)
    /\ UNCHANGED <<poolVars, detector, collector, proved>>

\* The journal as it is once an uncertain one has been written again.
ConfirmedFile == IF uncertain THEN collector ELSE file
ConfirmedOlders == IF uncertain THEN {} ELSE olders
Confirmed ==
    /\ file' = ConfirmedFile /\ olders' = ConfirmedOlders /\ uncertain' = FALSE
    /\ inherited' = IF uncertain THEN {} ELSE inherited

\* A vote of a signer already in the collector for this epoch.
KnownOffender(v) ==
    /\ Authenticated(v)
    /\ EvidenceVoteWellFormed(v)
    /\ HasOffense(v)
    /\ Confirmed
    /\ detector' = EraseSignerEpoch(v)
    /\ RemoveSignerEpoch(v)
    /\ UNCHANGED <<collector, faults, proved>>

\* The vote completes a pair.  Stored durably, the signer is done with for the
\* epoch; otherwise the pair is dropped or hidden and the detector keeps its
\* vote so that the sibling can be sent again.
ProveConflict(v, out) ==
    /\ Authenticated(v)
    /\ EvidenceVoteWellFormed(v)
    /\ ~HasOffense(v)
    /\ MayHappen(out)
    /\ \E w \in Sibling(v) :
         LET pair == PairOf(v, w)
             records == collector \cup {pair}
         IN  /\ Cardinality(collector) < MAX_COMPLETED_PAIRS
             /\ Persist(records, out, ConfirmedFile, ConfirmedOlders, FALSE)
             /\ collector' = IF out \in {"Committed", "CommitUncertain"}
                             THEN records ELSE collector
    /\ detector' = IF out = "Committed" THEN EraseSignerEpoch(v) ELSE detector
    /\ RemoveSignerEpoch(v)
    /\ proved' = proved \cup {OffenseKey(v)}

\* The vote completes a pair the full collector cannot take.
ConflictUnstored(v) ==
    /\ Authenticated(v)
    /\ EvidenceVoteWellFormed(v)
    /\ ~HasOffense(v)
    /\ Sibling(v) # {}
    /\ Cardinality(collector) >= MAX_COMPLETED_PAIRS
    /\ Confirmed
    /\ RemoveSignerEpoch(v)
    /\ proved' = proved \cup {OffenseKey(v)}
    /\ UNCHANGED <<detector, collector, faults>>

\* VoteMatchesCanonicalFrame at the second critical section's tip.
MatchesCanonicalFrame(v) ==
    /\ InVoteWindow(v.height, tip_height)
    /\ v.hash = canon[v.height]
    /\ v.height > finalized

\* No offence: the detector remembers the vote, and a canonical vote not held
\* yet reaches the assembler.
ObserveVote(v) ==
    /\ Authenticated(v)
    /\ EvidenceVoteWellFormed(v)
    /\ ~HasOffense(v)
    /\ Sibling(v) = {}
    /\ Confirmed
    /\ detector' = Observe(v)
    /\ IF MatchesCanonicalFrame(v) /\ ~HasVoteClaim(v)
       THEN StoreAuthenticatedVote_(v)
       ELSE UNCHANGED poolVars
    /\ UNCHANGED <<collector, faults, proved>>

-----------------------------------------------------------------------------
(* Blocks, reorganizations, restarts *)

\* A certificate for height h can ride in the block at height at: some quorum
\* may have signed the canonical hash there.
Carriable(h, at, hashes) ==
    /\ h \in VoteHeights /\ h > finalized
    /\ InVoteWindow(h, at)
    /\ IsSupermajority(Cardinality(Faulty) + Cardinality({s \in Honest : HonestTarget[s] = hashes[h]}),
                       Cardinality(Signers))

Expired(height, t) == t > height /\ t - height > FINALITY_EQUIV_EVIDENCE_WINDOW

\* PruneFinalityEvidenceAfterDurableTip_: also where an uncertain journal is
\* written again.
PruneEvidence(t, out) ==
    LET kept == {p \in collector : ~Expired(p.height, t)}
    IN  /\ detector' = Remaining({w \in DOMAIN detector : ~Expired(w.height, t)})
        /\ collector' = kept
        /\ IF kept # collector \/ uncertain
           THEN MayHappen(out) /\ Persist(kept, out, file, olders, uncertain)
           ELSE out = "Committed" /\ UNCHANGED <<diskVars, uncertain>>

\* The hashes a new block can have; only voted checkpoints need two.
NewHash == IF tip_height + 1 \in VoteHeights THEN Hashes ELSE {CHOOSE y \in Hashes : TRUE}

\* One block more, with a certificate for height h or (h = 0) without.
ConnectBlock(hash, h, out) ==
    /\ tip_height < MaxHeight
    /\ tip_height' = tip_height + 1
    /\ canon' = [canon EXCEPT ![tip_height + 1] = hash]
    /\ IF h = 0 THEN UNCHANGED <<finalized, poolVars>>
       ELSE /\ Carriable(h, tip_height + 1, canon)
            /\ finalized' = h
            /\ RemoveFinalizedClaim({<<h, canon[h]>>})
    /\ PruneEvidence(tip_height + 1, out)
    /\ UNCHANGED <<checking, proved, reorgs, restarts>>

\* The hashes after every block from height h on has been replaced; only voted
\* checkpoints need another.
Replaced(h) ==
    [x \in DOMAIN canon |->
        IF x \in VoteHeights /\ x >= h /\ x <= tip_height
        THEN CHOOSE y \in Hashes : y # canon[x] ELSE canon[x]]

\* A reorganization of one block more than it removes.  Its carriers are
\* staged, and retired when the last block is durable.
Reorganize(from, hash, h, out) ==
    /\ reorgs < MaxReorgs /\ reorgs' = reorgs + 1
    /\ from > finalized /\ from <= tip_height /\ tip_height < MaxHeight
    /\ tip_height' = tip_height + 1
    /\ canon' = [Replaced(from) EXCEPT ![tip_height + 1] = hash]
    /\ IF h = 0 THEN UNCHANGED <<finalized, poolVars>>
       ELSE /\ \E at \in from..(tip_height + 1) : Carriable(h, at, canon')
            /\ finalized' = h
            /\ RemoveFinalizedClaim({<<h, canon'[h]>>})
    /\ PruneEvidence(tip_height + 1, out)
    /\ UNCHANGED <<checking, proved, restarts>>

\* (variant for mutation) a carrier is retired when its block is staged
ReorganizeAborted_RetiredEarly(from, h) ==
    /\ reorgs < MaxReorgs /\ reorgs' = reorgs + 1
    /\ from > finalized /\ from <= tip_height /\ tip_height < MaxHeight
    /\ \E at \in from..tip_height : Carriable(h, at, Replaced(from))
    /\ RemoveFinalizedClaim({<<h, Replaced(from)[h]>>})
    /\ UNCHANGED <<tip_height, canon, finalized, checking, evidenceVars, diskVars, proved, restarts>>

\* A later block of the branch is refused: the chain is put back, and the
\* staged carrier of height h is forgotten with it.
ReorganizeAborted(from, h) ==
    /\ reorgs < MaxReorgs /\ reorgs' = reorgs + 1
    /\ from > finalized /\ from <= tip_height /\ tip_height < MaxHeight
    /\ \E at \in from..tip_height : Carriable(h, at, Replaced(from))
    /\ UNCHANGED <<tip_height, canon, finalized, checking, poolVars, evidenceVars, diskVars, proved, restarts>>

\* The process ends, or the power does, and the node starts again.
\* LoadFinalityEvidence_ restores the journal it finds; it writes it only when
\* rows have expired, and then does not start without having done so.  Found
\* unchanged, a file whose sync had failed is taken as it is.
Restart(power, found) ==
    LET live == {p \in found : ~Expired(p.height, tip_height)}
        unsynced == olders \cup inherited
    IN  /\ restarts < MaxRestarts /\ restarts' = restarts + 1
        /\ found \in IF power THEN {file} \cup unsynced ELSE {file}
        /\ file' = live /\ collector' = live
        /\ inherited' = IF power \/ live # found THEN {} ELSE unsynced
        /\ olders' = {}
        /\ uncertain' = FALSE /\ detector' = NoPending
        /\ checking' = {} /\ proved' = {}
        /\ firsts' = {} /\ conflicts' = {} /\ bucket' = {}
        /\ vote_count' = 0 /\ highest' = -1
        /\ UNCHANGED <<chainVars, faults>>

IntakeNext ==
    \/ \E v \in Vote : CheckVote(v)
    \/ \E v \in Vote :
         \/ RejectStale(v)
         \/ \E out \in Outcome : RejectUncertain(v, out)
         \/ KnownOffender(v)
         \/ \E out \in Outcome : ProveConflict(v, out)
         \/ ConflictUnstored(v)
         \/ ObserveVote(v)
    \/ \E hash \in NewHash, h \in {0} \cup VoteHeights, out \in Outcome :
         \/ ConnectBlock(hash, h, out)
         \/ \E from \in 1..MaxHeight : Reorganize(from, hash, h, out)
    \/ \E from \in 1..MaxHeight, h \in VoteHeights : ReorganizeAborted(from, h)
    \/ \E power \in BOOLEAN, found \in {file} \cup olders \cup inherited :
         Restart(power, found)

IntakeSpec == IntakeInit /\ [][IntakeNext]_intakeVars

-----------------------------------------------------------------------------

Pair == [key : Int \X Signers, height : VoteHeights, phase : Phase, hashes : SUBSET Hashes]

\* Heights, sets of votes and sets of pairs stay in their types.
IntakeTypeOK ==
    /\ tip_height \in StartHeight..MaxHeight /\ canon \in [0..MaxHeight -> Hashes]
    /\ finalized \in {0} \cup VoteHeights
    /\ checking \subseteq Vote /\ firsts \subseteq Vote
    /\ conflicts \subseteq Vote /\ bucket \subseteq Vote
    /\ vote_count \in 0..MAX_POOL_VOTES /\ highest \in Int
    /\ DOMAIN detector \subseteq Vote
    /\ \A S \in {collector, file} \cup olders \cup inherited : \A p \in S : p \in Pair
    /\ uncertain \in BOOLEAN

\* The assembler's three indexes agree: the running count is the number of
\* votes held, a signer has one first vote per round and one conflicting vote
\* per epoch, each conflicting vote still has its first, and only first votes
\* count (StoreAuthenticatedVote_, RemoveBucketLocked_, RemoveSignerEpoch).
PoolConsistent ==
    /\ vote_count = Cardinality(firsts) + Cardinality(conflicts)
    /\ bucket \subseteq firsts
    /\ \A v, w \in firsts : SameRound(v, w) => v = w
    /\ \A v, w \in conflicts : OffenseKey(v) = OffenseKey(w) => v = w
    /\ \A v \in conflicts : v \notin firsts /\ \E w \in firsts : SameRound(v, w)

\* No vote of a signer whose pair the collector holds for the epoch counts
\* towards a certificate, however votes, blocks and writes interleave
\* (RemoveSignerEpoch: "neither sibling may remain eligible").
OffenderRevoked ==
    \A p \in collector : ~\E v \in bucket : OffenseKey(v) = p.key

\* Votes and evidence agree (CertAssembler, SignerEpochRevoked).
IntakeConsistent == IntakeTypeOK /\ PoolConsistent /\ OffenderRevoked

\* A member that signs one target per round is never recorded as an offender,
\* whatever reorganizations its votes arrive across.
HonestNeverAccused ==
    \A p \in collector \cup file : p.key[2] \notin Honest

\* While the journal is not flagged uncertain, every pair an operator is shown
\* is in whatever a crash or a power cut leaves of what this process wrote.
ShownEvidenceDurable ==
    ~uncertain => \A f \in {file} \cup olders : collector \subseteq f

\* A signer proved to have signed twice does not count again in that epoch,
\* whether or not the pair could be stored: "storage pressure cannot turn an
\* equivocator back into an assembling voter".
ProvedStaysRevoked == ~\E v \in bucket : OffenseKey(v) \in proved

\* A counted vote stops counting only because its claim was finalized by a
\* durable block, its epoch was pruned, its signer was caught, or the node
\* restarted: an abandoned reorganization never consumes votes.
LeavesForCause ==
    \A v \in bucket \ bucket' :
        \/ finalized' = v.height /\ canon'[v.height] = v.hash
        \/ Epoch(v) + 1 < highest'
        \/ OffenseKey(v) \in proved' \/ \E p \in collector : p.key = OffenseKey(v)
        \/ restarts' # restarts

\* A vote starts to count only if, at that moment, it is for the canonical
\* block of an unfinalized checkpoint in its window: what was true before the
\* signature check is not relied on.
CountsWhenCanonical ==
    \A v \in bucket' \ bucket :
        /\ canon[v.height] = v.hash
        /\ InVoteWindow(v.height, tip_height)
        /\ v.height > finalized

\* Evidence on disk stays until it expires: no confirmed pair leaves the
\* journal earlier, across writes that fail and restarts.
KeepsEvidence ==
    \A p \in collector \ collector' :
        \/ Expired(p.height, tip_height')
        \/ uncertain
        \/ inherited # {}

\* The three together: a vote starts to count, stops counting, and a pair
\* leaves the collector, only for a cause the code names.
Caused == CountsWhenCanonical /\ LeavesForCause /\ KeepsEvidence
ChangesHaveCause == [][Caused]_intakeVars
=============================================================================
