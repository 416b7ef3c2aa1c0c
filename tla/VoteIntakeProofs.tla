--------------------------- MODULE VoteIntakeProofs ---------------------------
(***************************************************************************)
(* A node that takes votes in (VoteIntake) counts no vote of a recorded    *)
(* offender, records no member that signs one target per round, and loses  *)
(* evidence it has shown only where it says so, for any members,           *)
(* checkpoints, capacities and faults.  The argument: the assembler's      *)
(* indexes move together (PoolInv), and whatever a restart may find holds  *)
(* pairs of equivocators only and, unless the journal is flagged, all that *)
(* was shown (EvidenceInv).                                                *)
(***************************************************************************)
EXTENDS VoteIntake, FiniteSetTheorems, TLAPS

\* What the node's parameters are: members sign as their kind does, there is
\* another hash for every hash, and votes are for phases and heights.
Setting ==
    /\ Honest \cap Faulty = {} /\ HonestTarget \in [Honest -> Hashes]
    /\ Hashes # {} /\ \A x \in Hashes : \E y \in Hashes : y # x
    /\ VoteHeights \subseteq Nat /\ VotePhases \subseteq Phase
    /\ MAX_POOL_VOTES \in Nat /\ StartHeight \in Nat /\ MaxHeight \in Nat /\ StartHeight <= MaxHeight

\* The chain and the votes in flight.
ChainInv ==
    /\ tip_height \in StartHeight..MaxHeight /\ canon \in [0..MaxHeight -> Hashes]
    /\ finalized \in {0} \cup VoteHeights /\ checking \subseteq Vote /\ restarts \in Nat

\* The assembler: its indexes agree, and hold nothing of a pruned epoch.
PoolInv ==
    /\ firsts \subseteq Vote /\ conflicts \subseteq Vote
    /\ IsFiniteSet(firsts) /\ IsFiniteSet(conflicts)
    /\ vote_count \in 0..MAX_POOL_VOTES /\ highest \in Int
    /\ PoolConsistent
    /\ \A v \in firsts \cup conflicts : Epoch(v) + 1 >= highest

\* A pair names a signer that may sign twice.
Guilty == {p \in Pair : p.key[2] \notin Honest}

\* The evidence, in memory and wherever a restart may find it.
EvidenceInv ==
    /\ DOMAIN detector \subseteq Vote
    /\ collector \subseteq Guilty /\ file \subseteq Guilty
    /\ \A f \in olders \cup inherited : f \subseteq Guilty
    /\ uncertain \in BOOLEAN
    /\ ShownEvidenceDurable

IntakeInv == ChainInv /\ PoolInv /\ EvidenceInv /\ OffenderRevoked

-----------------------------------------------------------------------------
\* The parts of a vote, and the one hash an honest member signs.
LEMMA VoteIs ==
    ASSUME Setting, NEW v \in Vote
    PROVE  /\ v.signer \in Signers /\ v.phase \in Phase /\ v.height \in VoteHeights
           /\ v.height \in Nat /\ v.hash \in Hashes
           /\ v.signer \in Honest => v.hash = HonestTarget[v.signer]
           /\ Epoch(v) \in Int /\ OffenseKey(v) \in Int \X Signers
PROOF
  <1>1. /\ v.signer \in Signers /\ v.phase \in VotePhases /\ v.height \in VoteHeights
        /\ v.hash \in Hashes
        /\ v.signer \in Honest => v.hash = HonestTarget[v.signer]
    <2>1. CASE v \in [signer : Faulty, phase : VotePhases, height : VoteHeights, hash : Hashes]
      BY <2>1 DEF Setting, Signers
    <2>2. CASE \E s \in Honest, p \in VotePhases, h \in VoteHeights :
                  v = [signer |-> s, phase |-> p, height |-> h, hash |-> HonestTarget[s]]
      BY <2>2 DEF Setting, Signers
    <2>3. QED
      BY <2>1, <2>2 DEF Vote
  <1>2. v.height \in Nat /\ v.phase \in Phase
    BY <1>1, Zenon DEF Setting
  <1>3. EpochOf(v.height) \in Int
    BY <1>2, ProfileAssumption DEF EpochOf
  <1>4. QED
    BY <1>1, <1>2, <1>3 DEF Epoch, OffenseKey

\* Votes of one round are of one epoch.
LEMMA RoundEpoch ==
    ASSUME NEW v, NEW w, SameRound(v, w)
    PROVE  OffenseKey(v) = OffenseKey(w) /\ Epoch(v) = Epoch(w)
PROOF BY DEF SameRound, OffenseKey, Epoch

\* A part of the two indexes is finite and counts no more votes.
LEMMA FewerVotes ==
    ASSUME NEW f, NEW c, IsFiniteSet(f), IsFiniteSet(c), NEW f2 \in SUBSET f, NEW c2 \in SUBSET c
    PROVE  /\ IsFiniteSet(f2) /\ IsFiniteSet(c2)
           /\ Cardinality(f2) \in Nat /\ Cardinality(c2) \in Nat
           /\ Cardinality(f2) + Cardinality(c2) \in 0..(Cardinality(f) + Cardinality(c))
PROOF
  <1>1. IsFiniteSet(f2) /\ Cardinality(f2) <= Cardinality(f)
    BY FS_Subset
  <1>2. IsFiniteSet(c2) /\ Cardinality(c2) <= Cardinality(c)
    BY FS_Subset
  <1>3. /\ Cardinality(f2) \in Nat /\ Cardinality(c2) \in Nat
        /\ Cardinality(f) \in Nat /\ Cardinality(c) \in Nat
    BY <1>1, <1>2, FS_CardinalityType
  <1>4. QED
    BY <1>1, <1>2, <1>3

\* One vote more counts as one.
LEMMA OneMore ==
    ASSUME NEW f, IsFiniteSet(f), NEW v, v \notin f
    PROVE  IsFiniteSet(f \cup {v}) /\ Cardinality(f \cup {v}) = Cardinality(f) + 1
PROOF BY FS_AddElement
-----------------------------------------------------------------------------
(* The assembler *)

\* The two indexes after some votes have gone: with a first vote goes the
\* conflicting vote of its round.
LEMMA PartKeeps ==
    ASSUME Setting, PoolInv, NEW f \in SUBSET firsts, NEW c \in SUBSET conflicts,
           \A v \in c : \A w \in firsts : SameRound(v, w) => w \in f,
           firsts' = f, conflicts' = c, bucket' \subseteq f,
           vote_count' = Cardinality(f) + Cardinality(c), UNCHANGED highest
    PROVE  PoolInv'
PROOF
  <1>1. /\ IsFiniteSet(f) /\ IsFiniteSet(c)
        /\ Cardinality(f) + Cardinality(c) \in 0..(Cardinality(firsts) + Cardinality(conflicts))
    BY FewerVotes DEF PoolInv
  <1>2. Cardinality(f) + Cardinality(c) \in 0..MAX_POOL_VOTES
    BY <1>1 DEF PoolInv, PoolConsistent, Setting
  <1>3. \A v \in c : v \notin f /\ \E w \in f : SameRound(v, w)
    BY DEF PoolInv, PoolConsistent
  <1>4. PoolConsistent'
    BY <1>3 DEF PoolInv, PoolConsistent
  <1>5. QED
    BY <1>1, <1>2, <1>4 DEF PoolInv

\* RemoveSignerEpoch keeps the indexes in step, and leaves nothing of the signer.
LEMMA RemoveSignerKeeps ==
    ASSUME Setting, PoolInv, NEW v \in Vote, RemoveSignerEpoch(v)
    PROVE  /\ PoolInv' /\ bucket' \subseteq bucket
           /\ \A w \in bucket' : OffenseKey(w) # OffenseKey(v)
           /\ \A w \in bucket \ bucket' : OffenseKey(w) = OffenseKey(v)
PROOF
  <1> DEFINE f == {w \in firsts : OffenseKey(w) # OffenseKey(v)}
             c == {w \in conflicts : OffenseKey(w) # OffenseKey(v)}
             b == {w \in bucket : OffenseKey(w) # OffenseKey(v)}
  <1>1. /\ firsts' = f /\ conflicts' = c /\ bucket' = b /\ highest' = highest
        /\ vote_count' = Cardinality(f) + Cardinality(c)
    BY DEF RemoveSignerEpoch, Accounted
  <1>2. b \subseteq f
    BY DEF PoolInv, PoolConsistent
  <1>3. \A x \in c : \A w \in firsts : SameRound(x, w) => w \in f
    BY RoundEpoch
  <1>4. f \in SUBSET firsts /\ c \in SUBSET conflicts
    OBVIOUS
  <1>5. PoolInv'
    <2> HIDE DEF f, c, b
    <2> QED
      BY <1>1, <1>2, <1>3, <1>4, PartKeeps
  <1>6. QED
    BY <1>1, <1>5

\* RemoveFinalizedClaim keeps them in step: a first vote that still has its
\* conflicting vote stays.
LEMMA RemoveClaimKeeps ==
    ASSUME Setting, PoolInv, NEW claims, RemoveFinalizedClaim(claims)
    PROVE  /\ PoolInv' /\ bucket' \subseteq bucket
           /\ \A w \in bucket \ bucket' : <<w.height, w.hash>> \in claims
PROOF
  <1> DEFINE done == {v \in bucket : <<v.height, v.hash>> \in claims}
             freed == {v \in done : ~\E w \in conflicts : SameRound(v, w)}
  <1>1. /\ firsts' = firsts \ freed /\ bucket' = bucket \ done
        /\ vote_count' = vote_count - Cardinality(freed)
        /\ conflicts' = conflicts /\ highest' = highest
    BY DEF RemoveFinalizedClaim
  <1>2. freed \subseteq firsts /\ freed \subseteq done /\ bucket \subseteq firsts
    BY DEF PoolInv, PoolConsistent
  <1>3. Cardinality(firsts \ freed) = Cardinality(firsts) - Cardinality(freed)
    <2>1. IsFiniteSet(firsts) /\ IsFiniteSet(freed) /\ Cardinality(freed) \in Nat
      BY <1>2, FS_Subset, FS_CardinalityType, Zenon DEF PoolInv
    <2>2. firsts \cap freed = freed
      BY <1>2
    <2>3. Cardinality(firsts \ freed) = Cardinality(firsts) - Cardinality(firsts \cap freed)
      BY <2>1, FS_Difference, Zenon
    <2>4. QED
      BY <2>2, <2>3, Zenon
  <1>4. vote_count' = Cardinality(firsts \ freed) + Cardinality(conflicts)
    <2>1. /\ Cardinality(firsts) \in Nat /\ Cardinality(freed) \in Nat
          /\ Cardinality(conflicts) \in Nat
      BY <1>2, FS_Subset, FS_CardinalityType, Zenon DEF PoolInv
    <2>2. vote_count = Cardinality(firsts) + Cardinality(conflicts)
      BY DEF PoolInv, PoolConsistent
    <2>3. QED
      BY <1>1, <1>3, <2>1, <2>2
  <1>5. \A x \in conflicts : \A w \in firsts : SameRound(x, w) => w \in firsts \ freed
    BY DEF SameRound
  <1>6. bucket \ done \subseteq firsts \ freed
    BY <1>2
  <1>7. PoolInv'
    <2> DEFINE left == firsts \ freed
    <2>1. left \in SUBSET firsts /\ conflicts \in SUBSET conflicts
      OBVIOUS
    <2>2. /\ firsts' = left /\ bucket' \subseteq left
          /\ vote_count' = Cardinality(left) + Cardinality(conflicts)
          /\ \A x \in conflicts : \A w \in firsts : SameRound(x, w) => w \in left
      BY <1>1, <1>4, <1>5, <1>6
    <2> HIDE DEF left
    <2>3. QED
      BY <1>1, <2>1, <2>2, PartKeeps
  <1>8. QED
    BY <1>1, <1>7
\* StoreAuthenticatedVote_ keeps them in step, prunes old epochs only, and
\* counts no vote but v.
LEMMA StoreKeeps ==
    ASSUME Setting, PoolInv, NEW v \in Vote, ~HasVoteClaim(v), StoreAuthenticatedVote_(v)
    PROVE  /\ PoolInv' /\ bucket' \subseteq bucket \cup {v}
           /\ \A w \in bucket \ bucket' : Epoch(w) + 1 < highest'
PROOF
  <1> DEFINE top == IF Epoch(v) > highest THEN Epoch(v) ELSE highest
             kept == KeepFromEpoch(firsts, top)
             pairs == KeepFromEpoch(conflicts, top)
             count == IF top > highest THEN Accounted(kept, pairs) ELSE vote_count
             known == \E w \in kept : SameRound(v, w)
             stored == /\ Epoch(v) + 1 >= top
                       /\ count < MAX_POOL_VOTES
                       /\ known => ~\E w \in pairs : OffenseKey(w) = OffenseKey(v)
  <1>1. /\ highest' = top
        /\ firsts' = IF stored /\ ~known THEN kept \cup {v} ELSE kept
        /\ conflicts' = IF stored /\ known THEN pairs \cup {v} ELSE pairs
        /\ bucket' = KeepFromEpoch(bucket, top) \cup (IF stored /\ ~known THEN {v} ELSE {})
        /\ vote_count' = IF stored THEN count + 1 ELSE count
    BY SMTT(120) DEF StoreAuthenticatedVote_
  <1>2. /\ \A w \in Vote : Epoch(w) \in Int /\ w.height \in Nat
        /\ top \in Int /\ highest \in Int /\ top >= highest
        /\ firsts \subseteq Vote /\ conflicts \subseteq Vote
    BY VoteIs DEF PoolInv
  <1>3. /\ kept \in SUBSET firsts /\ pairs \in SUBSET conflicts
        /\ \A w \in kept \cup pairs : Epoch(w) + 1 >= top
    BY DEF KeepFromEpoch
  <1>4. /\ IsFiniteSet(kept) /\ IsFiniteSet(pairs)
        /\ Cardinality(kept) \in Nat /\ Cardinality(pairs) \in Nat
        /\ Cardinality(kept) + Cardinality(pairs) \in 0..MAX_POOL_VOTES
    <2>1. IsFiniteSet(firsts) /\ IsFiniteSet(conflicts)
      BY DEF PoolInv
    <2>2. /\ IsFiniteSet(kept) /\ IsFiniteSet(pairs)
          /\ Cardinality(kept) \in Nat /\ Cardinality(pairs) \in Nat
          /\ Cardinality(kept) + Cardinality(pairs)
                 \in 0..(Cardinality(firsts) + Cardinality(conflicts))
      BY ONLY <2>1, <1>3, FewerVotes
    <2>3. Cardinality(firsts) + Cardinality(conflicts) \in 0..MAX_POOL_VOTES
      BY DEF PoolInv, PoolConsistent
    <2> HIDE DEF kept, pairs
    <2>4. QED
      BY <2>2, <2>3 DEF Setting
  <1>5. count = Cardinality(kept) + Cardinality(pairs)
    <2>1. CASE top > highest
      BY <2>1 DEF Accounted
    <2>2. CASE ~(top > highest)
      <3>1. top = highest
        BY <2>2, <1>2
      <3>2. kept = firsts /\ pairs = conflicts
        BY <3>1 DEF KeepFromEpoch, PoolInv
      <3>3. QED
        BY <2>2, <3>2 DEF PoolInv, PoolConsistent
    <2>3. QED
      BY <2>1, <2>2
  <1>6. /\ \A x, y \in kept : SameRound(x, y) => x = y
        /\ \A x, y \in pairs : OffenseKey(x) = OffenseKey(y) => x = y
        /\ \A x \in pairs : x \notin kept /\ \E w \in kept : SameRound(x, w)
    <2>1. ASSUME NEW x \in pairs PROVE \E w \in kept : SameRound(x, w)
      <3>1. PICK w \in firsts : SameRound(x, w)
        BY <1>3 DEF PoolInv, PoolConsistent
      <3>2. Epoch(w) = Epoch(x)
        BY <3>1, RoundEpoch
      <3>3. QED
        BY <3>1, <3>2, <1>3 DEF KeepFromEpoch
    <2>2. QED
      BY <2>1, <1>3 DEF PoolInv, PoolConsistent
  <1>7. v \notin firsts /\ v \notin conflicts /\ SameRound(v, v)
    BY DEF HasVoteClaim, SameRound
  <1>8. /\ KeepFromEpoch(bucket, top) \subseteq kept /\ KeepFromEpoch(bucket, top) \subseteq bucket
        /\ \A w \in bucket : w \notin KeepFromEpoch(bucket, top) => Epoch(w) + 1 < top
    <2>1. bucket \subseteq firsts
      BY DEF PoolInv, PoolConsistent
    <2>2. QED
      BY <2>1, <1>2 DEF KeepFromEpoch
  <1> HIDE DEF top, kept, pairs, count
  <1>9. PoolInv'
    <2>1. CASE stored /\ ~known
      <3>1. firsts' = kept \cup {v} /\ conflicts' = pairs /\ vote_count' = count + 1
        BY <1>1, <2>1
      <3>2. IsFiniteSet(firsts') /\ Cardinality(firsts') = Cardinality(kept) + 1
        <4>1. v \notin kept
          BY <1>7, <1>3
        <4>2. QED
          BY <4>1, <3>1, <1>4, OneMore
      <3>3. PoolConsistent'
        <4>1. vote_count' = Cardinality(firsts') + Cardinality(conflicts')
          BY <3>1, <3>2, <1>4, <1>5
        <4>2. bucket' \subseteq firsts'
          BY <3>1, <1>1, <1>8
        <4>3. \A x, y \in firsts' : SameRound(x, y) => x = y
          BY <3>1, <1>6, <2>1 DEF SameRound
        <4>4. /\ \A x, y \in conflicts' : OffenseKey(x) = OffenseKey(y) => x = y
              /\ \A x \in conflicts' : x \notin firsts' /\ \E w \in firsts' : SameRound(x, w)
          BY <3>1, <1>6, <1>7, <1>3
        <4>5. QED
          BY <4>1, <4>2, <4>3, <4>4 DEF PoolConsistent
      <3>4. \A w \in firsts' \cup conflicts' : Epoch(w) + 1 >= highest'
        BY <3>1, <1>1, <1>3, <2>1
      <3>5. firsts' \subseteq Vote /\ conflicts' \subseteq Vote
        BY <3>1, <1>2, <1>3
      <3>6. vote_count' \in 0..MAX_POOL_VOTES /\ highest' \in Int
        BY <3>1, <1>1, <1>2, <1>4, <1>5, <2>1 DEF Setting
      <3>7. QED
        BY <3>1, <3>2, <3>3, <3>4, <3>5, <3>6, <1>4 DEF PoolInv
    <2>2. CASE stored /\ known
      <3>1. firsts' = kept /\ conflicts' = pairs \cup {v} /\ vote_count' = count + 1
        BY <1>1, <2>2
      <3>2. IsFiniteSet(conflicts') /\ Cardinality(conflicts') = Cardinality(pairs) + 1
        <4>1. v \notin pairs
          BY <1>7, <1>3
        <4>2. QED
          BY <4>1, <3>1, <1>4, OneMore
      <3>3. PoolConsistent'
        <4>1. vote_count' = Cardinality(firsts') + Cardinality(conflicts')
          BY <3>1, <3>2, <1>4, <1>5
        <4>2. bucket' \subseteq firsts'
          BY <3>1, <1>1, <1>8, <2>2
        <4>3. \A x, y \in firsts' : SameRound(x, y) => x = y
          BY <3>1, <1>6
        <4>4. \A x, y \in conflicts' : OffenseKey(x) = OffenseKey(y) => x = y
          BY <3>1, <1>6, <2>2
        <4>5. \A x \in conflicts' : x \notin firsts' /\ \E w \in firsts' : SameRound(x, w)
          BY <3>1, <1>3, <1>6, <1>7, <2>2
        <4>6. QED
          BY <4>1, <4>2, <4>3, <4>4, <4>5 DEF PoolConsistent
      <3>4. \A w \in firsts' \cup conflicts' : Epoch(w) + 1 >= highest'
        BY <3>1, <1>1, <1>3, <2>2
      <3>5. firsts' \subseteq Vote /\ conflicts' \subseteq Vote
        BY <3>1, <1>2, <1>3
      <3>6. vote_count' \in 0..MAX_POOL_VOTES /\ highest' \in Int
        BY <3>1, <1>1, <1>2, <1>4, <1>5, <2>2, SMTT(30) DEF Setting
      <3>7. QED
        BY <3>1, <3>2, <3>3, <3>4, <3>5, <3>6, <1>4 DEF PoolInv
    <2>3. CASE ~stored
      <3>1. firsts' = kept /\ conflicts' = pairs /\ vote_count' = count
        BY <1>1, <2>3
      <3>2. bucket' \subseteq firsts'
        BY <3>1, <1>1, <1>8, <2>3
      <3>3. PoolConsistent'
        BY <3>1, <3>2, <1>5, <1>6 DEF PoolConsistent
      <3>4. QED
        BY <3>1, <3>3, <1>1, <1>2, <1>3, <1>4, <1>5, Zenon DEF PoolInv
    <2>4. QED
      BY <2>1, <2>2, <2>3
  <1>10. QED
    BY <1>1, <1>8, <1>9, SMTT(30)
-----------------------------------------------------------------------------
(* Detector, collector and journal *)

\* The detector never holds a vote it has not been shown.
LEMMA DetectorHolds ==
    ASSUME DOMAIN detector \subseteq Vote, NEW v \in Vote
    PROVE  /\ \A S \in SUBSET DOMAIN detector : DOMAIN Remaining(S) = S
           /\ DOMAIN EraseSignerEpoch(v) \subseteq Vote /\ DOMAIN Observe(v) \subseteq Vote
PROOF
  <1>1. \A S \in SUBSET DOMAIN detector : DOMAIN Remaining(S) = S
    BY DEF Remaining
  <1>2. DOMAIN EraseSignerEpoch(v) \subseteq Vote
    BY <1>1 DEF EraseSignerEpoch
  <1>3. DOMAIN Observe(v) \subseteq Vote
    <2>1. CASE v \in DOMAIN detector
      BY <2>1 DEF Observe
    <2>2. CASE v \notin DOMAIN detector
      <3> DEFINE over == Cardinality(DOMAIN detector) + 1 - MAX_PENDING_VOTES
                 kept == {w \in DOMAIN detector : detector[w] > over}
      <3>1. DOMAIN Observe(v) = kept \cup {v}
        BY <2>2 DEF Observe
      <3>2. QED
        BY <3>1
    <2>3. QED
      BY <2>1, <2>2
  <1>4. QED
    BY <1>1, <1>2, <1>3

\* An attempt to write records leaves what a restart may find sound, whatever
\* becomes of it.
LEMMA PersistKeeps ==
    ASSUME NEW records \in SUBSET Guilty, NEW out \in Outcome, NEW f \in SUBSET Guilty, NEW o,
           NEW u \in BOOLEAN, \A g \in o \cup inherited : g \subseteq Guilty,
           Persist(records, out, f, o, u), collector' \subseteq records,
           ~u /\ out \in {"NotCommitted", "Unread"} => \A g \in {f} \cup o : collector' \subseteq g,
           DOMAIN detector' \subseteq Vote
    PROVE  EvidenceInv'
PROOF
  <1>1. /\ file' = IF out = "NotCommitted" THEN f ELSE records
        /\ inherited' = IF out = "Committed" THEN {} ELSE inherited
    BY DEF Persist
  <1>2. /\ out = "Committed" => olders' = {} /\ uncertain' = FALSE
        /\ out = "CommitUncertain" => olders' = o \cup {f} /\ uncertain' = TRUE
        /\ out = "NotCommitted" => olders' = o /\ uncertain' = u
        /\ out = "Unread" => olders' = o \cup {f} /\ uncertain' = u
    BY Zenon DEF Persist
  <1>3. ShownEvidenceDurable'
    <2>1. CASE out = "Committed"
      BY <2>1, <1>1, <1>2 DEF ShownEvidenceDurable
    <2>2. CASE out = "CommitUncertain"
      BY <2>2, <1>2 DEF ShownEvidenceDurable
    <2>3. CASE out = "NotCommitted"
      BY <2>3, <1>1, <1>2 DEF ShownEvidenceDurable
    <2>4. CASE out = "Unread"
      BY <2>4, <1>1, <1>2 DEF ShownEvidenceDurable
    <2>5. QED
      BY <2>1, <2>2, <2>3, <2>4 DEF Outcome
  <1>4. uncertain' \in BOOLEAN
    BY <1>2, Zenon DEF Outcome
  <1>5. \A g \in olders' \cup inherited' : g \subseteq Guilty
    BY <1>1, <1>2 DEF Outcome
  <1>6. QED
    BY <1>1, <1>3, <1>4, <1>5 DEF EvidenceInv

\* An uncertain journal that could be written again is a sound one.
LEMMA ConfirmedKeeps ==
    ASSUME EvidenceInv, Confirmed, collector' = collector, DOMAIN detector' \subseteq Vote
    PROVE  EvidenceInv'
PROOF BY Zenon DEF EvidenceInv, Confirmed, ConfirmedFile, ConfirmedOlders, ShownEvidenceDurable

\* Only a signer that is not honest completes a pair.
LEMMA PairIsGuilty ==
    ASSUME Setting, DOMAIN detector \subseteq Vote, NEW v \in Vote, NEW w \in Sibling(v)
    PROVE  PairOf(v, w) \in Guilty /\ PairOf(v, w).key = OffenseKey(v)
PROOF
  <1>1. w \in Vote /\ v.signer = w.signer /\ w.hash # v.hash
    BY DEF Sibling, SameRound
  <1>2. /\ v.signer \in Signers /\ v.phase \in Phase /\ v.height \in VoteHeights
        /\ v.hash \in Hashes /\ w.hash \in Hashes /\ OffenseKey(v) \in Int \X Signers
    BY <1>1, VoteIs
  <1>3. v.signer \notin Honest
    BY <1>1, VoteIs
  <1>4. OffenseKey(v)[2] = v.signer
    BY DEF OffenseKey
  <1>5. QED
    BY <1>2, <1>3, <1>4 DEF PairOf, Pair, Guilty

\* PruneFinalityEvidenceAfterDurableTip_: only expired pairs go.
LEMMA PruneKeeps ==
    ASSUME EvidenceInv, NEW t, NEW out \in Outcome, PruneEvidence(t, out)
    PROVE  /\ EvidenceInv' /\ collector' \subseteq collector
           /\ \A p \in collector \ collector' : Expired(p.height, t)
PROOF
  <1> DEFINE kept == {p \in collector : ~Expired(p.height, t)}
             young == {w \in DOMAIN detector : ~Expired(w.height, t)}
  <1>1. /\ detector' = Remaining(young) /\ collector' = kept
        /\ IF kept # collector \/ uncertain
           THEN MayHappen(out) /\ Persist(kept, out, file, olders, uncertain)
           ELSE out = "Committed" /\ UNCHANGED <<diskVars, uncertain>>
    BY DEF PruneEvidence
  <1>2. DOMAIN detector' \subseteq Vote
    BY <1>1 DEF Remaining, EvidenceInv
  <1>3. CASE kept # collector \/ uncertain
    <2>1. /\ kept \in SUBSET Guilty /\ file \in SUBSET Guilty /\ uncertain \in BOOLEAN
          /\ \A g \in olders \cup inherited : g \subseteq Guilty
      BY DEF EvidenceInv
    <2>2. Persist(kept, out, file, olders, uncertain)
      BY <1>1, <1>3
    <2>3. ~uncertain => \A g \in {file} \cup olders : kept \subseteq g
      BY DEF EvidenceInv, ShownEvidenceDurable
    <2>4. collector' = kept /\ \A p \in collector \ kept : Expired(p.height, t)
      BY <1>1
    <2>5. kept \subseteq collector
      OBVIOUS
    <2> HIDE DEF kept
    <2>6. EvidenceInv'
      BY <2>1, <2>2, <2>3, <2>4, <1>2, PersistKeeps
    <2>7. QED
      BY <2>4, <2>5, <2>6
  <1>4. CASE kept = collector /\ ~uncertain
    <2>1. UNCHANGED <<file, olders, inherited, uncertain, collector>>
      BY <1>1, <1>4 DEF diskVars
    <2>2. QED
      BY <1>2, <2>1 DEF EvidenceInv, ShownEvidenceDurable
  <1>5. QED
    BY <1>3, <1>4
-----------------------------------------------------------------------------
(* The steps *)

\* What neither the pool nor the evidence can disturb.
LEMMA NothingCounts ==
    ASSUME OffenderRevoked, bucket' \subseteq bucket, collector' \subseteq collector
    PROVE  OffenderRevoked' /\ CountsWhenCanonical
PROOF BY DEF OffenderRevoked, CountsWhenCanonical

\* IntakeInv holds initially.
LEMMA IntakeStarts == ASSUME Setting, IntakeInit PROVE IntakeInv
PROOF
  <1>1. (CHOOSE y \in Hashes : TRUE) \in Hashes
    BY DEF Setting
  <1>2. ChainInv
    BY <1>1 DEF IntakeInit, ChainInv, Setting
  <1>3. IsFiniteSet({}) /\ Cardinality({}) = 0
    BY FS_EmptySet
  <1>4. PoolInv
    BY <1>3 DEF IntakeInit, PoolInv, PoolConsistent, Setting
  <1>5. EvidenceInv
    BY Zenon DEF IntakeInit, NoPending, EvidenceInv, ShownEvidenceDurable
  <1>6. OffenderRevoked
    BY DEF IntakeInit, OffenderRevoked
  <1>7. QED
    BY <1>2, <1>4, <1>5, <1>6 DEF IntakeInv

\* A vote that comes in, or is refused, changes neither votes nor evidence.
LEMMA RefusingKeeps ==
    ASSUME Setting, IntakeInv, NEW v \in Vote, NEW out \in Outcome,
           CheckVote(v) \/ RejectStale(v) \/ RejectUncertain(v, out)
    PROVE  IntakeInv' /\ Caused
PROOF
  <1>1. /\ UNCHANGED <<chainVars, poolVars, detector, collector, restarts>>
        /\ checking' \subseteq checking \cup {v}
    BY DEF CheckVote, RejectStale, RejectUncertain, Authenticated, evidenceVars
  <1>2. ChainInv' /\ PoolInv'
    BY <1>1 DEF IntakeInv, ChainInv, PoolInv, PoolConsistent, chainVars, poolVars
  <1>3. OffenderRevoked' /\ CountsWhenCanonical
    BY <1>1, NothingCounts DEF IntakeInv, poolVars
  <1>4. LeavesForCause /\ KeepsEvidence
    BY <1>1 DEF LeavesForCause, KeepsEvidence, poolVars
  <1>5. EvidenceInv'
    <2>1. CASE CheckVote(v) \/ RejectStale(v)
      BY <2>1, <1>1 DEF CheckVote, RejectStale, evidenceVars, diskVars, IntakeInv, EvidenceInv,
                        ShownEvidenceDurable
    <2>2. CASE RejectUncertain(v, out)
      <3>1. /\ Persist(collector, out, file, olders, uncertain) /\ uncertain
            /\ collector' = collector /\ detector' = detector
        BY <2>2, Zenon DEF RejectUncertain
      <3>2. /\ collector \in SUBSET Guilty /\ file \in SUBSET Guilty /\ uncertain \in BOOLEAN
            /\ \A g \in olders \cup inherited : g \subseteq Guilty /\ DOMAIN detector \subseteq Vote
        BY DEF IntakeInv, EvidenceInv
      <3>3. QED
        BY <3>1, <3>2, PersistKeeps, Zenon DEF IntakeInv, EvidenceInv
    <2>3. QED
      BY <2>1, <2>2
  <1>6. QED
    BY <1>2, <1>3, <1>4, <1>5 DEF IntakeInv, Caused

\* A vote of a known offender, or one that completes a pair the collector cannot
\* take: the signer's votes go.
LEMMA RevokingKeeps ==
    ASSUME Setting, IntakeInv, NEW v \in Vote, KnownOffender(v) \/ ConflictUnstored(v)
    PROVE  IntakeInv' /\ Caused
PROOF
  <1>1. /\ UNCHANGED <<chainVars, collector, restarts>> /\ checking' \subseteq checking
        /\ Confirmed /\ RemoveSignerEpoch(v)
        /\ OffenseKey(v) \in proved' \/ HasOffense(v)
        /\ detector' = detector \/ detector' = EraseSignerEpoch(v)
    BY DEF KnownOffender, ConflictUnstored, Authenticated
  <1>2. ChainInv'
    BY <1>1 DEF IntakeInv, ChainInv, chainVars
  <1>3. /\ PoolInv' /\ bucket' \subseteq bucket
        /\ \A w \in bucket \ bucket' : OffenseKey(w) = OffenseKey(v)
    BY <1>1, RemoveSignerKeeps DEF IntakeInv
  <1>4. EvidenceInv'
    <2>1. DOMAIN detector' \subseteq Vote
      BY <1>1, DetectorHolds DEF IntakeInv, EvidenceInv
    <2>2. QED
      BY <1>1, <2>1, ConfirmedKeeps DEF IntakeInv
  <1>5. OffenderRevoked' /\ CountsWhenCanonical
    BY <1>1, <1>3, NothingCounts, SMTT(30) DEF IntakeInv
  <1>6. LeavesForCause /\ KeepsEvidence
    BY <1>1, <1>3, Zenon DEF LeavesForCause, KeepsEvidence, HasOffense
  <1>7. QED
    BY <1>2, <1>3, <1>4, <1>5, <1>6 DEF IntakeInv, Caused

\* A completed pair is recorded durably or not, and revokes its signer either way.
LEMMA ProvingKeeps ==
    ASSUME Setting, IntakeInv, NEW v \in Vote, NEW out \in Outcome, ProveConflict(v, out)
    PROVE  IntakeInv' /\ Caused
PROOF
  <1>1. /\ UNCHANGED <<chainVars, restarts>> /\ checking' \subseteq checking
        /\ RemoveSignerEpoch(v)
        /\ OffenseKey(v) \in proved'
        /\ detector' = detector \/ detector' = EraseSignerEpoch(v)
    BY DEF ProveConflict, Authenticated
  <1>2. PICK w \in Sibling(v) :
           /\ Persist(collector \cup {PairOf(v, w)}, out, ConfirmedFile, ConfirmedOlders, FALSE)
           /\ collector' = IF out \in {"Committed", "CommitUncertain"}
                           THEN collector \cup {PairOf(v, w)} ELSE collector
    BY Zenon DEF ProveConflict
  <1> DEFINE pair == PairOf(v, w)
             records == collector \cup {pair}
  <1>3. pair \in Guilty /\ pair.key = OffenseKey(v)
    BY PairIsGuilty DEF IntakeInv, EvidenceInv
  <1>4. ChainInv'
    BY <1>1 DEF IntakeInv, ChainInv, chainVars
  <1>5. /\ PoolInv' /\ bucket' \subseteq bucket
        /\ \A x \in bucket' : OffenseKey(x) # OffenseKey(v)
        /\ \A x \in bucket \ bucket' : OffenseKey(x) = OffenseKey(v)
    BY <1>1, RemoveSignerKeeps DEF IntakeInv
  <1>6. /\ collector \subseteq collector' /\ collector' \subseteq records
        /\ out \in {"NotCommitted", "Unread"} => collector' = collector
    BY <1>2
  <1>7. EvidenceInv'
    <2>1. DOMAIN detector' \subseteq Vote
      BY <1>1, DetectorHolds DEF IntakeInv, EvidenceInv
    <2>2. /\ records \in SUBSET Guilty /\ ConfirmedFile \in SUBSET Guilty
          /\ \A g \in ConfirmedOlders \cup inherited : g \subseteq Guilty
      BY <1>3 DEF IntakeInv, EvidenceInv, ConfirmedFile, ConfirmedOlders
    <2>3. \A g \in {ConfirmedFile} \cup ConfirmedOlders : collector \subseteq g
      BY DEF IntakeInv, EvidenceInv, ShownEvidenceDurable, ConfirmedFile, ConfirmedOlders
    <2>4. Persist(records, out, ConfirmedFile, ConfirmedOlders, FALSE)
      BY <1>2, Zenon
    <2> HIDE DEF records
    <2>5. QED
      BY <1>6, <2>1, <2>2, <2>3, <2>4, PersistKeeps, Zenon
  <1>8. OffenderRevoked'
    BY <1>3, <1>5, <1>6 DEF IntakeInv, OffenderRevoked
  <1>9. Caused
    BY <1>1, <1>5, <1>6, Zenon DEF Caused, CountsWhenCanonical, LeavesForCause, KeepsEvidence
  <1>10. QED
    BY <1>4, <1>5, <1>7, <1>8, <1>9 DEF IntakeInv

\* A vote without a sibling is remembered, and counts if it is canonical now.
LEMMA ObservingKeeps ==
    ASSUME Setting, IntakeInv, NEW v \in Vote, ObserveVote(v)
    PROVE  IntakeInv' /\ Caused
PROOF
  <1>1. /\ UNCHANGED <<chainVars, collector, restarts>> /\ checking' \subseteq checking
        /\ ~HasOffense(v) /\ Confirmed /\ detector' = Observe(v)
    BY DEF ObserveVote, Authenticated
  <1>2. ChainInv'
    BY <1>1 DEF IntakeInv, ChainInv, chainVars
  <1>3. EvidenceInv'
    <2>1. DOMAIN detector' \subseteq Vote
      BY <1>1, DetectorHolds DEF IntakeInv, EvidenceInv
    <2>2. QED
      BY <1>1, <2>1, ConfirmedKeeps, SMTT(30) DEF IntakeInv
  <1>4. KeepsEvidence
    BY <1>1 DEF KeepsEvidence
  <1>5. CASE MatchesCanonicalFrame(v) /\ ~HasVoteClaim(v)
    <2>1. /\ PoolInv' /\ bucket' \subseteq bucket \cup {v}
          /\ \A w \in bucket \ bucket' : Epoch(w) + 1 < highest'
      BY <1>5, StoreKeeps DEF ObserveVote, IntakeInv
    <2>2. OffenderRevoked'
      BY <1>1, <2>1 DEF IntakeInv, OffenderRevoked, HasOffense
    <2>3. LeavesForCause
      BY <2>1 DEF LeavesForCause
    <2>4. CountsWhenCanonical
      BY <2>1, <1>5 DEF CountsWhenCanonical, MatchesCanonicalFrame
    <2>5. QED
      BY <1>2, <1>3, <1>4, <2>1, <2>2, <2>3, <2>4 DEF IntakeInv, Caused
  <1>6. CASE ~(MatchesCanonicalFrame(v) /\ ~HasVoteClaim(v))
    <2>1. UNCHANGED <<firsts, conflicts, bucket, vote_count, highest>>
      BY <1>6 DEF ObserveVote, poolVars
    <2>2. PoolInv'
      BY <2>1 DEF IntakeInv, PoolInv, PoolConsistent
    <2>3. OffenderRevoked' /\ CountsWhenCanonical
      BY <1>1, <2>1, NothingCounts, SMTT(30) DEF IntakeInv
    <2>4. LeavesForCause
      BY <2>1 DEF LeavesForCause
    <2>5. QED
      BY <1>2, <1>3, <1>4, <2>2, <2>3, <2>4 DEF IntakeInv, Caused
  <1>7. QED
    BY <1>5, <1>6
\* Blocks carry a hash, also where the branch has been replaced.
LEMMA HashesStay ==
    ASSUME Setting, ChainInv, tip_height < MaxHeight, NEW hash \in NewHash, NEW from
    PROVE  /\ tip_height + 1 \in StartHeight..MaxHeight
           /\ [canon EXCEPT ![tip_height + 1] = hash] \in [0..MaxHeight -> Hashes]
           /\ [Replaced(from) EXCEPT ![tip_height + 1] = hash] \in [0..MaxHeight -> Hashes]
PROOF
  <1>1. (CHOOSE y \in Hashes : TRUE) \in Hashes
    BY DEF Setting
  <1>2. hash \in Hashes
    BY <1>1 DEF NewHash
  <1>3. ASSUME NEW x \in 0..MaxHeight PROVE (CHOOSE y \in Hashes : y # canon[x]) \in Hashes
    BY DEF Setting, ChainInv
  <1>4. Replaced(from) \in [0..MaxHeight -> Hashes]
    BY <1>3 DEF Replaced, ChainInv
  <1>5. QED
    BY <1>2, <1>4 DEF ChainInv, Setting

\* A block, alone or at the end of a reorganization, retires what it finalizes
\* and lets expired evidence go.
LEMMA BlocksKeep ==
    ASSUME Setting, IntakeInv, NEW out \in Outcome, NEW h \in {0} \cup VoteHeights,
           tip_height' \in StartHeight..MaxHeight, tip_height' = tip_height + 1, canon' \in [0..MaxHeight -> Hashes],
           checking' = checking, restarts' = restarts,
           \/ UNCHANGED <<finalized, poolVars>>
           \/ finalized' = h /\ RemoveFinalizedClaim({<<h, canon'[h]>>}),
           PruneEvidence(tip_height + 1, out)
    PROVE  IntakeInv' /\ Caused
PROOF
  <1>1. ChainInv'
    BY DEF IntakeInv, ChainInv
  <1>2. /\ EvidenceInv' /\ collector' \subseteq collector
        /\ \A p \in collector \ collector' : Expired(p.height, tip_height + 1)
    <2> DEFINE t == tip_height + 1
    <2>1. PruneEvidence(t, out) /\ EvidenceInv
      BY DEF IntakeInv
    <2> HIDE DEF t
    <2>2. /\ EvidenceInv' /\ collector' \subseteq collector
          /\ \A p \in collector \ collector' : Expired(p.height, t)
      BY <2>1, PruneKeeps
    <2>3. QED
      BY <2>2 DEF t
  <1>3. KeepsEvidence
    BY <1>2 DEF KeepsEvidence
  <1>4. /\ PoolInv' /\ bucket' \subseteq bucket
        /\ \A w \in bucket \ bucket' : finalized' = h /\ <<w.height, w.hash>> = <<h, canon'[h]>>
    <2>1. CASE UNCHANGED <<finalized, poolVars>>
      BY <2>1 DEF poolVars, IntakeInv, PoolInv, PoolConsistent
    <2>2. CASE finalized' = h /\ RemoveFinalizedClaim({<<h, canon'[h]>>})
      <3> DEFINE claims == {<<h, canon'[h]>>}
      <3>1. RemoveFinalizedClaim(claims) /\ PoolInv
        BY <2>2 DEF IntakeInv
      <3> HIDE DEF claims
      <3>2. /\ PoolInv' /\ bucket' \subseteq bucket
            /\ \A w \in bucket \ bucket' : <<w.height, w.hash>> \in claims
        BY <3>1, RemoveClaimKeeps
      <3>3. QED
        BY <2>2, <3>2 DEF claims
    <2>3. QED
      BY <2>1, <2>2, SMTT(30)
  <1>5. LeavesForCause
    BY <1>4 DEF LeavesForCause
  <1>6. OffenderRevoked' /\ CountsWhenCanonical
    BY <1>2, <1>4, NothingCounts DEF IntakeInv
  <1>7. QED
    BY <1>1, <1>2, <1>3, <1>4, <1>5, <1>6 DEF IntakeInv, Caused

\* One block more (ConnectBlock).
LEMMA ConnectBlockKeeps ==
    ASSUME Setting, IntakeInv, NEW hash \in NewHash, NEW h \in {0} \cup VoteHeights,
           NEW out \in Outcome, ConnectBlock(hash, h, out)
    PROVE  IntakeInv' /\ Caused
PROOF
  <1>1. /\ tip_height < MaxHeight /\ tip_height' = tip_height + 1 /\ canon' = [canon EXCEPT ![tip_height + 1] = hash]
        /\ checking' = checking /\ restarts' = restarts /\ PruneEvidence(tip_height + 1, out)
    BY DEF ConnectBlock
  <1>2. tip_height + 1 \in StartHeight..MaxHeight /\ canon' \in [0..MaxHeight -> Hashes]
    BY <1>1, HashesStay DEF IntakeInv
  <1>3. \/ UNCHANGED <<finalized, poolVars>>
        \/ finalized' = h /\ RemoveFinalizedClaim({<<h, canon'[h]>>})
    <2>1. CASE h = 0
      BY <2>1, SMTT(30) DEF ConnectBlock
    <2>2. CASE h # 0
      <3>1. /\ Carriable(h, tip_height + 1, canon) /\ finalized' = h
            /\ RemoveFinalizedClaim({<<h, canon[h]>>})
        BY <2>2 DEF ConnectBlock
      <3>2. tip_height + 1 > h /\ h \in Nat /\ tip_height \in Nat
        BY <3>1, <1>2 DEF Carriable, InVoteWindow, Setting, IntakeInv, ChainInv
      <3>3. canon'[h] = canon[h]
        BY <1>1, <1>2, <3>2 DEF IntakeInv, ChainInv, Setting
      <3>4. QED
        BY <3>1, <3>3
    <2>3. QED
      BY <2>1, <2>2
  <1>4. QED
    BY <1>1, <1>2, <1>3, BlocksKeep, Zenon

\* A completed reorganization.
LEMMA ReorganizeKeeps ==
    ASSUME Setting, IntakeInv, NEW from, NEW hash \in NewHash, NEW h \in {0} \cup VoteHeights,
           NEW out \in Outcome, Reorganize(from, hash, h, out)
    PROVE  IntakeInv' /\ Caused
PROOF
  <1>1. /\ tip_height < MaxHeight /\ tip_height' = tip_height + 1
        /\ canon' = [Replaced(from) EXCEPT ![tip_height + 1] = hash]
        /\ checking' = checking /\ restarts' = restarts /\ PruneEvidence(tip_height + 1, out)
    BY DEF Reorganize
  <1>2. tip_height + 1 \in StartHeight..MaxHeight /\ canon' \in [0..MaxHeight -> Hashes]
    BY <1>1, HashesStay DEF IntakeInv
  <1>3. \/ UNCHANGED <<finalized, poolVars>>
        \/ finalized' = h /\ RemoveFinalizedClaim({<<h, canon'[h]>>})
    BY DEF Reorganize
  <1>4. QED
    BY <1>1, <1>2, <1>3, BlocksKeep, Zenon

\* A reorganization that is given up changes nothing but how many there were.
LEMMA IdleKeeps ==
    ASSUME IntakeInv, UNCHANGED <<tip_height, canon, finalized, checking, poolVars, evidenceVars>>,
           UNCHANGED <<file, olders, inherited, restarts>>
    PROVE  IntakeInv' /\ Caused
PROOF
  <1>1. ChainInv' /\ PoolInv' /\ EvidenceInv' /\ OffenderRevoked'
    BY SMTT(30) DEF IntakeInv, ChainInv, PoolInv, PoolConsistent, EvidenceInv, ShownEvidenceDurable,
           OffenderRevoked, poolVars, evidenceVars
  <1>2. Caused
    BY DEF Caused, CountsWhenCanonical, LeavesForCause, KeepsEvidence, poolVars, evidenceVars
  <1>3. QED
    BY <1>1, <1>2, SMTT(30) DEF IntakeInv

\* A restart finds sound evidence, and all that was shown unless an earlier
\* process had left the file unsynced.
LEMMA RestartKeeps ==
    ASSUME Setting, IntakeInv, NEW power \in BOOLEAN, NEW found, Restart(power, found)
    PROVE  IntakeInv' /\ Caused
PROOF
  <1> DEFINE live == {p \in found : ~Expired(p.height, tip_height)}
             unsynced == olders \cup inherited
  <1>1. /\ found \in {file} \cup unsynced
        /\ file' = live /\ collector' = live /\ olders' = {} /\ uncertain' = FALSE
        /\ inherited' \in {{}, unsynced} /\ detector' = NoPending /\ restarts' = restarts + 1
        /\ UNCHANGED <<tip_height, canon, finalized>> /\ checking' = {}
        /\ firsts' = {} /\ conflicts' = {} /\ bucket' = {} /\ vote_count' = 0 /\ highest' = -1
    BY DEF Restart, chainVars
  <1>2. ChainInv'
    BY <1>1 DEF IntakeInv, ChainInv
  <1>3. IsFiniteSet({}) /\ Cardinality({}) = 0
    BY FS_EmptySet
  <1>4. PoolInv'
    BY <1>1, <1>3 DEF PoolInv, PoolConsistent, Setting
  <1>5. EvidenceInv'
    <2>1. live \subseteq Guilty /\ \A g \in unsynced : g \subseteq Guilty
      BY <1>1 DEF IntakeInv, EvidenceInv
    <2>2. DOMAIN detector' \subseteq Vote
      BY <1>1, SMTT(30) DEF NoPending
    <2> HIDE DEF live, unsynced
    <2>3. QED
      BY <1>1, <2>1, <2>2, Zenon DEF EvidenceInv, ShownEvidenceDurable
  <1>6. OffenderRevoked' /\ CountsWhenCanonical
    BY <1>1 DEF OffenderRevoked, CountsWhenCanonical
  <1>7. KeepsEvidence
    <2>1. ASSUME NEW p \in collector \ collector', ~uncertain, inherited = {}
          PROVE  Expired(p.height, tip_height')
      <3>1. p \in found
        BY <1>1, <2>1 DEF IntakeInv, EvidenceInv, ShownEvidenceDurable
      <3>2. QED
        BY <1>1, <2>1, <3>1
    <2>2. QED
      BY <2>1 DEF KeepsEvidence
  <1>8. LeavesForCause
    BY <1>1 DEF LeavesForCause, IntakeInv, ChainInv
  <1>9. QED
    BY <1>2, <1>4, <1>5, <1>6, <1>7, <1>8 DEF IntakeInv, Caused

\* Every step keeps IntakeInv and has a cause for what it changes.
LEMMA IntakeStep == ASSUME Setting, IntakeInv, [IntakeNext]_intakeVars PROVE IntakeInv' /\ Caused
PROOF
  <1>1. CASE UNCHANGED intakeVars
    BY <1>1, IdleKeeps DEF intakeVars, chainVars, diskVars
  <1>2. ASSUME NEW v \in Vote, CheckVote(v) \/ RejectStale(v) PROVE IntakeInv' /\ Caused
    <2>1. "Committed" \in Outcome
      BY DEF Outcome
    <2>2. QED
      BY <1>2, <2>1, RefusingKeeps
  <1>3. ASSUME NEW v \in Vote, NEW out \in Outcome, RejectUncertain(v, out) PROVE IntakeInv' /\ Caused
    BY <1>3, RefusingKeeps
  <1>4. ASSUME NEW v \in Vote, KnownOffender(v) \/ ConflictUnstored(v) PROVE IntakeInv' /\ Caused
    BY <1>4, RevokingKeeps
  <1>5. ASSUME NEW v \in Vote, NEW out \in Outcome, ProveConflict(v, out) PROVE IntakeInv' /\ Caused
    BY <1>5, ProvingKeeps
  <1>6. ASSUME NEW v \in Vote, ObserveVote(v) PROVE IntakeInv' /\ Caused
    BY <1>6, ObservingKeeps
  <1>7. ASSUME NEW hash \in NewHash, NEW h \in {0} \cup VoteHeights, NEW out \in Outcome,
               ConnectBlock(hash, h, out) \/ \E from \in 1..MaxHeight : Reorganize(from, hash, h, out)
        PROVE  IntakeInv' /\ Caused
    BY <1>7, ConnectBlockKeeps, ReorganizeKeeps
  <1>8. ASSUME NEW from \in 1..MaxHeight, NEW h \in VoteHeights, ReorganizeAborted(from, h)
        PROVE  IntakeInv' /\ Caused
    BY <1>8, IdleKeeps DEF ReorganizeAborted, diskVars
  <1>9. ASSUME NEW power \in BOOLEAN, NEW found, Restart(power, found) PROVE IntakeInv' /\ Caused
    BY <1>9, RestartKeeps
  <1>10. CASE IntakeNext
    BY <1>10, <1>2, <1>3, <1>4, <1>5, <1>6, <1>7, <1>8, <1>9 DEF IntakeNext
  <1>11. QED
    BY <1>1, <1>10

-----------------------------------------------------------------------------
\* The inductive invariant of the intake.
THEOREM IntakeInvariant == ASSUME Setting PROVE IntakeSpec => []IntakeInv
PROOF
  <1>1. IntakeInit => IntakeInv
    BY IntakeStarts
  <1>2. IntakeInv /\ [IntakeNext]_intakeVars => IntakeInv'
    BY IntakeStep
  <1>3. QED
    BY <1>1, <1>2, PTL DEF IntakeSpec

\* The assembler's indexes agree, and no vote of a recorded offender counts, for
\* any members, checkpoints and capacities (CertAssembler, SignerEpochRevoked).
THEOREM IntakeStaysConsistent == ASSUME Setting PROVE IntakeSpec => []IntakeConsistent
PROOF
  <1>1. IntakeInv => IntakeConsistent
    <2>1. SUFFICES ASSUME IntakeInv PROVE IntakeConsistent
      OBVIOUS
    <2>2. bucket \subseteq Vote
      BY <2>1 DEF IntakeInv, PoolInv, PoolConsistent
    <2>3. \A S \in {collector, file} \cup olders \cup inherited : \A p \in S : p \in Pair
      BY <2>1 DEF IntakeInv, EvidenceInv, Guilty
    <2>4. IntakeTypeOK
      BY <2>1, <2>2, <2>3 DEF IntakeInv, ChainInv, PoolInv, EvidenceInv, IntakeTypeOK
    <2>5. QED
      BY <2>1, <2>4 DEF IntakeInv, PoolInv, IntakeConsistent
  <1>2. QED
    BY <1>1, IntakeInvariant, PTL

\* A member that signs one target per round is never recorded as an offender,
\* whatever crosses its votes (FinalityEquivocationDetector).
THEOREM HonestStaysUnaccused == ASSUME Setting PROVE IntakeSpec => []HonestNeverAccused
PROOF
  <1>1. IntakeInv => HonestNeverAccused
    BY DEF IntakeInv, EvidenceInv, Guilty, HonestNeverAccused
  <1>2. QED
    BY <1>1, IntakeInvariant, PTL

\* What an operator is shown survives a power cut, unless the journal is flagged
\* (PersistFinalityEvidenceLocked_).
THEOREM EvidenceStaysDurable == ASSUME Setting PROVE IntakeSpec => []ShownEvidenceDurable
PROOF
  <1>1. IntakeInv => ShownEvidenceDurable
    BY DEF IntakeInv, EvidenceInv
  <1>2. QED
    BY <1>1, IntakeInvariant, PTL

\* A vote starts and stops counting, and a pair leaves the collector, only for a
\* cause the code names (VerifyFinalityVoteWire_, RemoveFinalizedClaim).
THEOREM ChangesAreCaused == ASSUME Setting PROVE IntakeSpec => ChangesHaveCause
PROOF
  <1>1. IntakeInv /\ [IntakeNext]_intakeVars => [Caused]_intakeVars
    BY IntakeStep
  <1>2. QED
    BY <1>1, IntakeInvariant, PTL DEF IntakeSpec, ChangesHaveCause
==============================================================================
