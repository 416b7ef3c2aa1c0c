----------------------- MODULE FinalityVotingProofs -----------------------
(***************************************************************************)
(* Safety of the two-phase locked voting, for every number of validators,  *)
(* every block tree and every epoch profile: VotingInv is inductive, and   *)
(* Agreement, NeverSlashable, JustifiedLineage and LockMovesForward follow *)
(* from it.                                                                *)
(*                                                                         *)
(* The argument.  A target with a PREVOTE certificate blocks every lower   *)
(* target of another branch (CertificateBlocks): a quorum for the lower    *)
(* one would share an honest signer with the certificate, and that signer  *)
(* either never precommitted the lower target and is past its frame, or    *)
(* was locked on it and let go only on the strength of another certificate *)
(* that already blocks it.  Blocking is permanent (BlockedStable).         *)
(*                                                                         *)
(* It rests on two facts about the pure rules of FinalityQC, for every     *)
(* profile: (epoch, round) frames are ordered as checkpoint heights, and   *)
(* quorums of one snapshot share a validator that follows the program.     *)
(*                                                                         *)
(* The voting takes for granted that a validator remembers its last vote   *)
(* across restarts.  The file that remembers it (FinalityJournal) is       *)
(* complete or refused, for every frame an older version may have left and *)
(* any number of votes and starts.  The argument: whatever a power cut may *)
(* bring back either holds every frame that was answered for or sent, or   *)
(* lacks the marker and the journal, and that only while nothing newer     *)
(* than the older version's frame was answered for or sent.                *)
(***************************************************************************)
EXTENDS FinalityVoting, FiniteSetTheorems, TLAPS

-----------------------------------------------------------------------------
(* Division *)

\* Quotient and remainder of a natural number.
LEMMA DivMod ==
    ASSUME NEW h \in Nat, NEW d \in Nat \ {0}
    PROVE  /\ h \div d \in Nat
           /\ h % d \in Nat
           /\ h % d < d
           /\ h = d * (h \div d) + (h % d)
  OBVIOUS

\* Quotient and remainder are determined by the equation they satisfy.
LEMMA DivModUnique ==
    ASSUME NEW a \in Nat, NEW b \in Nat, NEW r \in Nat, NEW d \in Nat \ {0},
           r < d, a = d * b + r
    PROVE  a \div d = b /\ a % d = r
<1> DEFINE q == a \div d
<1> DEFINE s == a % d
<1>1. q \in Nat /\ s \in Nat /\ s < d /\ a = d * q + s
  BY DivMod
<1> HIDE DEF q, s
<1>2. d * q + s = d * b + r
  BY <1>1
<1>3. ~(q < b)
  <2> SUFFICES ASSUME q < b PROVE FALSE
    OBVIOUS
  <2>1. d * (q + 1) <= d * b
    BY <1>1
  <2>2. d * (q + 1) = d * q + d
    BY <1>1
  <2> QED
    BY <1>1, <1>2, <2>1, <2>2
<1>4. ~(q > b)
  <2> SUFFICES ASSUME q > b PROVE FALSE
    OBVIOUS
  <2>1. d * (b + 1) <= d * q
    BY <1>1
  <2>2. d * (b + 1) = d * b + d
    BY <1>1
  <2> QED
    BY <1>1, <1>2, <2>1, <2>2
<1>5. q = b
  BY <1>1, <1>3, <1>4
<1> QED
  BY <1>1, <1>2, <1>5 DEF q, s

\* Multiplication by a positive number keeps the order.
LEMMA MultMonotone ==
    ASSUME NEW d \in Nat \ {0}, NEW a \in Int, NEW b \in Int
    PROVE  /\ a < b => d * a + d <= d * b
           /\ a > b <=> d * a > d * b
           /\ a = b <=> d * a = d * b
<1>1. ASSUME NEW x \in Int, NEW y \in Int, x < y PROVE d * x + d <= d * y
  <2>1. y - x - 1 \in Nat
    BY <1>1
  <2>2. d * (y - x - 1) \in Nat
    BY <2>1
  <2>3. d * (y - x - 1) = d * y - d * x - d
    OBVIOUS
  <2> QED
    BY <2>2, <2>3
<1>2. a < b => d * a + d <= d * b
  BY <1>1
<1>3. b < a => d * b + d <= d * a
  BY <1>1
<1>4. d * a \in Int /\ d * b \in Int
  OBVIOUS
<1> QED
  BY <1>2, <1>3, <1>4

-----------------------------------------------------------------------------
(* Frames *)

\* A scheduled checkpoint height is (epoch, round) written in blocks.
LEMMA FrameOfHeight ==
    ASSUME NEW h \in Nat, IsScheduledCheckpoint(h)
    PROVE  /\ EpochOf(h) \in Nat
           /\ CheckpointRound(h) \in Nat
           /\ CHECKPOINT_INTERVAL * CheckpointRound(h) < EPOCH_BLOCKS
           /\ h = EPOCH_BLOCKS * EpochOf(h) + CHECKPOINT_INTERVAL * CheckpointRound(h)
<1> DEFINE I == CHECKPOINT_INTERVAL
           E == EPOCH_BLOCKS
           k == E \div I
           m == h \div I
           q == h \div E
           r == h % E
<1>1. I \in Nat \ {0} /\ E \in Nat \ {0} /\ E % I = 0
  BY ProfileAssumption
<1>2. k \in Nat /\ E = I * k
  BY <1>1, DivMod
<1>3. m \in Nat /\ h = I * m
  BY <1>1, DivMod DEF IsScheduledCheckpoint
<1>4. q \in Nat /\ r \in Nat /\ r < E /\ h = E * q + r
  BY <1>1, DivMod
<1> HIDE DEF I, E, k, m, q, r
<1>5. r = I * (m - k * q)
  <2>1. E * q = I * (k * q)
    BY <1>1, <1>2, <1>4
  <2>2. I * m - I * (k * q) = I * (m - k * q)
    BY <1>1, <1>2, <1>3, <1>4
  <2> QED
    BY <1>1, <1>2, <1>3, <1>4, <2>1, <2>2
<1>6. m - k * q \in Nat
  <2>1. m - k * q \in Int
    BY <1>2, <1>3, <1>4
  <2>2. ~(m - k * q < 0)
    BY <1>1, <1>4, <1>5, <2>1, MultMonotone
  <2> QED
    BY <2>1, <2>2
<1>7. r \div I = m - k * q
  BY <1>1, <1>4, <1>5, <1>6, DivModUnique
<1>8. EpochOf(h) = q /\ CheckpointRound(h) = r \div I
  BY DEF EpochOf, CheckpointRound, q, r, I, E
<1> QED
  BY <1>1, <1>4, <1>5, <1>6, <1>7, <1>8 DEF I, E

\* The lexicographic order on (epoch, round), which Tick, Prevote and Precommit
\* compare, is the order of the checkpoint heights, although the round restarts
\* at every epoch boundary; equal frames are equal heights.
THEOREM FrameOrder ==
    ASSUME NEW h \in Nat, NEW g \in Nat,
           IsScheduledCheckpoint(h), IsScheduledCheckpoint(g)
    PROVE  /\ FrameNewer(h, g) <=> h > g
           /\ SameFrame(h, g) <=> h = g
<1> DEFINE I == CHECKPOINT_INTERVAL
           E == EPOCH_BLOCKS
           qh == EpochOf(h)
           qg == EpochOf(g)
           rh == CheckpointRound(h)
           rg == CheckpointRound(g)
<1>1. I \in Nat \ {0} /\ E \in Nat \ {0}
  BY ProfileAssumption
<1>2. qh \in Nat /\ rh \in Nat /\ I * rh < E /\ h = E * qh + I * rh
  BY FrameOfHeight
<1>3. qg \in Nat /\ rg \in Nat /\ I * rg < E /\ g = E * qg + I * rg
  BY FrameOfHeight
<1>4. /\ FrameNewer(h, g) <=> (qh > qg \/ (qh = qg /\ rh > rg))
      /\ SameFrame(h, g) <=> (qh = qg /\ rh = rg)
  BY DEF FrameNewer, SameFrame, ConsensusRoundNewer
<1> HIDE DEF I, E, qh, qg, rh, rg
<1>5. /\ I * rh \in Nat /\ I * rg \in Nat
      /\ E * qh \in Nat /\ E * qg \in Nat
  BY <1>1, <1>2, <1>3
<1>6. /\ qh < qg => E * qh + E <= E * qg
      /\ qg < qh => E * qg + E <= E * qh
  BY <1>1, <1>2, <1>3, MultMonotone
<1>7. /\ rh > rg <=> I * rh > I * rg
      /\ rh = rg <=> I * rh = I * rg
  BY <1>1, <1>2, <1>3, MultMonotone
<1>8. CASE qh = qg
  BY <1>2, <1>3, <1>4, <1>5, <1>7, <1>8
<1>9. CASE qh < qg
  BY <1>1, <1>2, <1>3, <1>4, <1>5, <1>6, <1>9
<1>10. CASE qh > qg
  BY <1>1, <1>2, <1>3, <1>4, <1>5, <1>6, <1>10
<1> QED
  BY <1>2, <1>3, <1>8, <1>9, <1>10

-----------------------------------------------------------------------------
(* Quorums *)

\* Adding signatures to a quorum leaves a quorum.
LEMMA QuorumMonotone ==
    ASSUME NEW M, IsFiniteSet(M),
           NEW Q \in Quorums(M), NEW R \in SUBSET M, Q \subseteq R
    PROVE  R \in Quorums(M)
<1>1. IsFiniteSet(R) /\ IsFiniteSet(Q)
  BY FS_Subset DEF Quorums
<1>2. /\ Cardinality(Q) \in Nat
      /\ Cardinality(R) \in Nat
      /\ Cardinality(M) \in Nat
      /\ Cardinality(Q) <= Cardinality(R)
  BY <1>1, FS_Subset, FS_CardinalityType
<1> QED
  BY <1>2 DEF Quorums, IsSupermajority

\* Two strict two-thirds quorums of one snapshot share a member outside any set
\* that holds at most a third of it: the reason IsSupermajority is strict.
THEOREM QuorumsIntersect ==
    ASSUME NEW M, IsFiniteSet(M),
           NEW F \in SUBSET M, 3 * Cardinality(F) <= Cardinality(M),
           NEW Q1 \in Quorums(M), NEW Q2 \in Quorums(M)
    PROVE  (Q1 \cap Q2) \ F # {}
<1> SUFFICES ASSUME Q1 \cap Q2 \subseteq F PROVE FALSE
  OBVIOUS
<1>1. Q1 \subseteq M /\ Q2 \subseteq M
  BY DEF Quorums
<1>2. /\ IsFiniteSet(Q1) /\ IsFiniteSet(Q2) /\ IsFiniteSet(F)
      /\ IsFiniteSet(Q1 \cup Q2) /\ IsFiniteSet(Q1 \cap Q2)
  BY <1>1, FS_Subset
<1>3. Cardinality(Q1 \cup Q2)
        = Cardinality(Q1) + Cardinality(Q2) - Cardinality(Q1 \cap Q2)
  BY <1>2, FS_Union
<1>4. /\ Cardinality(Q1 \cup Q2) <= Cardinality(M)
      /\ Cardinality(Q1 \cap Q2) <= Cardinality(F)
  BY <1>1, <1>2, FS_Subset
<1>5. /\ Cardinality(Q1) \in Nat /\ Cardinality(Q2) \in Nat /\ Cardinality(F) \in Nat
      /\ Cardinality(M) \in Nat
      /\ Cardinality(Q1 \cup Q2) \in Nat /\ Cardinality(Q1 \cap Q2) \in Nat
  BY <1>2, FS_CardinalityType
<1>6. /\ Cardinality(Q1) * 3 > Cardinality(M) * 2
      /\ Cardinality(Q2) * 3 > Cardinality(M) * 2
  BY DEF Quorums, IsSupermajority
<1> QED
  BY <1>3, <1>4, <1>5, <1>6

-----------------------------------------------------------------------------
(* Constants *)

\* Checkpoint heights are ordered as the frames the voters compare.
LEMMA CheckpointFrames ==
    ASSUME NEW c \in Checkpoint, NEW d \in Checkpoint
    PROVE  /\ c.height \in Nat
           /\ EpochOf(c.height) \in Epochs
           /\ FrameNewer(c.height, d.height) <=> c.height > d.height
           /\ SameFrame(c.height, d.height) <=> c.height = d.height
  BY TreeAssumption, FrameOrder DEF Epochs

\* Snapshots are finite sets of validators.
LEMMA MembersFinite ==
    ASSUME NEW e \in Epochs
    PROVE  Members[e] \subseteq Validator /\ IsFiniteSet(Members[e])
<1>1. Members[e] \subseteq Validator
  BY SetAssumption
<1> QED
  BY <1>1, SetAssumption, FS_Subset

\* What being a claim says of its source and target.
LEMMA ClaimType ==
    ASSUME NEW cl \in Claim
    PROVE  /\ cl.source \in Checkpoint \cup {NullRef}
           /\ cl.target \in Checkpoint
           /\ cl = [source |-> cl.source, target |-> cl.target]
           /\ \A phase \in Phase : VoteOf(phase, cl) \in Vote
  BY DEF Claim, Vote, VoteOf

\* The fields of the lock a precommit takes.
LEMMA LockType ==
    ASSUME NEW lock \in Lock, lock.held
    PROVE  lock.target \in Checkpoint /\ lock = LockOn(lock.target)
  BY DEF Lock, NoLock, LockOn

-----------------------------------------------------------------------------
(* Certificates *)

\* Certificates never disappear as votes are added.
LEMMA QCStable ==
    ASSUME NEW cl \in Claim, NEW phase \in Phase,
           \A w \in Honest : votes[w] \subseteq votes'[w],
           QC(phase, cl)
    PROVE  QC(phase, cl)'
<1> DEFINE M == Members[EpochOf(cl.target.height)]
<1>1. EpochOf(cl.target.height) \in Epochs
  BY ClaimType, CheckpointFrames
<1>2. IsFiniteSet(M)
  BY <1>1, MembersFinite
<1>3. Signers(phase, cl) \subseteq Signers(phase, cl)'
  BY DEF Signers
<1>4. Signers(phase, cl)' \in SUBSET M
  BY DEF Signers
<1>5. Signers(phase, cl) \in Quorums(M)
  BY DEF QC
<1> HIDE DEF M
<1>6. Signers(phase, cl)' \in Quorums(M)
  BY <1>2, <1>3, <1>4, <1>5, QuorumMonotone
<1> QED
  BY <1>6 DEF QC, M

\* The signers of a certificate include, in every quorum, one that follows the
\* program and cast that vote.
LEMMA CertificateMeetsQuorum ==
    ASSUME NEW cl \in Claim, NEW phase \in Phase, QC(phase, cl),
           NEW e \in Epochs, NEW Q \in Quorums(Members[e])
    PROVE  \E v \in Q \cap Honest : VoteOf(phase, cl) \in votes[v]
<1>1. EpochOf(cl.target.height) \in Epochs
  BY ClaimType, CheckpointFrames
<1>2. Q \cap Signers(phase, cl) \cap Honest # {}
  BY <1>1, QuorumAssumption DEF QC
<1> QED
  BY <1>2 DEF Signers

\* A PREVOTE certificate blocks every lower target of another branch.
LEMMA CertificateBlocks ==
    ASSUME TypeOK, JournalIsNewest, PrevotesSafe,
           NEW cl \in Claim, QC(PREVOTE, cl),
           NEW t \in Checkpoint, t.height < cl.target.height, t \notin Ancestors[cl.target]
    PROVE  Blocked(t)
<1>1. EpochOf(t.height) \in Epochs /\ t.height \in Nat /\ cl.target.height \in Nat
  BY ClaimType, CheckpointFrames
<1>2. SUFFICES ASSUME ~Blocked(t),
                      NEW Q \in Quorums(Members[EpochOf(t.height)])
               PROVE  \E v \in Q \cap Honest :
                         /\ journal[v].last_vote # NoVote
                         /\ journal[v].last_vote.target.height > t.height
                         /\ ~Precommitted(v, t)
  BY DEF Blocked
<1>3. PICK v \in Q \cap Honest : VoteOf(PREVOTE, cl) \in votes[v]
  BY <1>1, CertificateMeetsQuorum DEF Phase
<1>4. ~Precommitted(v, t)
  BY <1>2, <1>3 DEF PrevotesSafe, VoteOf
<1>5. /\ journal[v].last_vote # NoVote
      /\ cl.target.height <= journal[v].last_vote.target.height
  BY <1>3 DEF JournalIsNewest, VoteOf
<1>6. journal[v].last_vote.target.height \in Nat
  BY <1>3, <1>5, CheckpointFrames DEF TypeOK, Vote
<1> QED
  BY <1>1, <1>3, <1>4, <1>5, <1>6

-----------------------------------------------------------------------------
(* One published vote *)

\* What publishing a vote changes: one voter's journal and votes.
LEMMA PublishEffect ==
    ASSUME TypeOK, NEW v \in Honest, NEW vote \in Vote, NEW lock \in Lock,
           Publish(v, vote, lock)
    PROVE  /\ TypeOK'
           /\ journal'[v] = [lock |-> lock, last_vote |-> vote]
           /\ votes'[v] = votes[v] \cup {vote}
           /\ \A w \in Honest \ {v} : journal'[w] = journal[w] /\ votes'[w] = votes[w]
           /\ \A w \in Honest : votes[w] \subseteq votes'[w]
<1>1. /\ journal'[v] = [lock |-> lock, last_vote |-> vote]
      /\ votes'[v] = votes[v] \cup {vote}
      /\ \A w \in Honest \ {v} : journal'[w] = journal[w] /\ votes'[w] = votes[w]
  BY DEF TypeOK, Publish
<1>2. journal' \in [Honest -> [lock : Lock, last_vote : Vote \cup {NoVote}]]
  BY DEF TypeOK, Publish
<1>3. votes' \in [Honest -> SUBSET Vote]
  BY DEF TypeOK, Publish
<1> QED
  BY <1>1, <1>2, <1>3 DEF TypeOK

\* A vote the journal allows is not older than the last one, and in the same
\* frame it is the PRECOMMIT of the very claim that was prevoted.
LEMMA JournalOrder ==
    ASSUME TypeOK, NEW v \in Honest, NEW cl \in Claim, NEW phase \in Phase,
           JournalAllows(journal[v].last_vote, phase, cl),
           journal[v].last_vote # NoVote
    PROVE  LET last == journal[v].last_vote IN
           /\ last \in Vote
           /\ last.target.height \in Nat /\ cl.target.height \in Nat
           /\ \/ cl.target.height > last.target.height
              \/ phase = PRECOMMIT /\ last = VoteOf(PREVOTE, cl)
<1>1. journal[v].last_vote \in Vote
  BY DEF TypeOK
<1>2. journal[v].last_vote.target \in Checkpoint /\ cl.target \in Checkpoint
  BY <1>1, ClaimType DEF Vote
<1> QED
  BY <1>1, <1>2, CheckpointFrames DEF JournalAllows

\* A vote the journal allows is newer than, or repeats the claim of, all votes
\* cast before it.
LEMMA NewestVote ==
    ASSUME TypeOK, JournalIsNewest,
           NEW v \in Honest, NEW cl \in Claim, NEW phase \in Phase,
           JournalAllows(journal[v].last_vote, phase, cl),
           NEW x \in votes[v]
    PROVE  /\ x \in Vote
           /\ x.target.height \in Nat /\ cl.target.height \in Nat
           /\ x.target.height <= cl.target.height
           /\ x.target.height = cl.target.height =>
                 /\ x = VoteOf(PREVOTE, cl)
                 /\ phase = PRECOMMIT
<1>1. x \in Vote /\ x.target \in Checkpoint /\ x.target.height \in Nat
  BY CheckpointFrames DEF TypeOK, Vote
<1>2. journal[v].last_vote # NoVote
  BY DEF JournalIsNewest
<1>3. LET last == journal[v].last_vote IN
      /\ last \in Vote
      /\ last.target.height \in Nat /\ cl.target.height \in Nat
      /\ \/ cl.target.height > last.target.height
         \/ phase = PRECOMMIT /\ last = VoteOf(PREVOTE, cl)
  BY <1>2, JournalOrder
<1>4. LET last == journal[v].last_vote IN
      /\ x.target.height <= last.target.height
      /\ x.target.height = last.target.height => (last.phase = PREVOTE => x = last)
  BY DEF JournalIsNewest
<1> QED
  BY <1>1, <1>3, <1>4 DEF VoteOf

\* Publishing a vote that the journal allows keeps the journal discipline.
LEMMA JournalStep ==
    ASSUME TypeOK, JournalIsNewest, OneClaimPerFrame,
           NEW v \in Honest, NEW cl \in Claim, NEW phase \in Phase, NEW lock \in Lock,
           JournalAllows(journal[v].last_vote, phase, cl),
           Publish(v, VoteOf(phase, cl), lock)
    PROVE  JournalIsNewest' /\ OneClaimPerFrame'
<1> DEFINE vote == VoteOf(phase, cl)
<1>1. vote \in Vote /\ vote.phase = phase /\ vote.source = cl.source /\ vote.target = cl.target
  BY ClaimType DEF VoteOf
<1>2. vote # NoVote
  BY <1>1, SetAssumption
<1>3. /\ journal'[v] = [lock |-> lock, last_vote |-> vote]
      /\ votes'[v] = votes[v] \cup {vote}
      /\ \A w \in Honest \ {v} : journal'[w] = journal[w] /\ votes'[w] = votes[w]
  BY <1>1, PublishEffect
<1>4. cl.target.height \in Nat
  BY ClaimType, CheckpointFrames
<1>5. \A x \in votes[v] :
         /\ x.target.height <= vote.target.height
         /\ x.target.height = vote.target.height =>
               /\ x.source = vote.source /\ x.target = vote.target
               /\ vote.phase = PRECOMMIT
  BY <1>1, NewestVote DEF VoteOf
<1> HIDE DEF vote
<1>6. JournalIsNewest'
  <2> SUFFICES ASSUME NEW w \in Honest, NEW x \in votes'[w]
               PROVE  /\ journal'[w].last_vote # NoVote
                      /\ x.target.height <= journal'[w].last_vote.target.height
                      /\ x.target.height = journal'[w].last_vote.target.height =>
                            /\ x.source = journal'[w].last_vote.source
                            /\ x.target = journal'[w].last_vote.target
                            /\ journal'[w].last_vote.phase = PREVOTE => x = journal'[w].last_vote
    BY DEF JournalIsNewest
  <2>1. CASE w # v
    BY <1>3, <2>1 DEF JournalIsNewest
  <2>2. CASE w = v /\ x = vote
    BY <1>1, <1>2, <1>3, <1>4, <2>2
  <2>3. CASE w = v /\ x \in votes[v]
    BY <1>2, <1>3, <1>5, <2>3 DEF PREVOTE, PRECOMMIT
  <2> QED
    BY <1>3, <2>1, <2>2, <2>3
<1>7. OneClaimPerFrame'
  BY <1>3, <1>5 DEF OneClaimPerFrame
<1> QED
  BY <1>6, <1>7

\* Blocking is permanent: the blocking validator is past the target's frame, so
\* no vote its journal allows is a precommit of the target.
LEMMA BlockedStable ==
    ASSUME TypeOK, NEW v \in Honest, NEW cl \in Claim, NEW phase \in Phase, NEW lock \in Lock,
           JournalAllows(journal[v].last_vote, phase, cl),
           Publish(v, VoteOf(phase, cl), lock),
           NEW t \in Checkpoint, Blocked(t)
    PROVE  Blocked(t)'
<1> DEFINE vote == VoteOf(phase, cl)
<1>1. vote \in Vote /\ vote.target = cl.target
  BY ClaimType DEF VoteOf
<1>2. /\ journal'[v] = [lock |-> lock, last_vote |-> vote]
      /\ votes'[v] = votes[v] \cup {vote}
      /\ \A w \in Honest \ {v} : journal'[w] = journal[w] /\ votes'[w] = votes[w]
  BY <1>1, PublishEffect
<1>3. vote # NoVote
  BY <1>1, SetAssumption
<1>4. t.height \in Nat
  BY CheckpointFrames
<1>5. ASSUME NEW w \in Honest,
             journal[w].last_vote # NoVote,
             journal[w].last_vote.target.height > t.height,
             ~Precommitted(w, t)
      PROVE  /\ journal'[w].last_vote # NoVote
             /\ journal'[w].last_vote.target.height > t.height
             /\ ~Precommitted(w, t)'
  <2>1. CASE w # v
    BY <1>2, <1>5, <2>1 DEF Precommitted
  <2>2. CASE w = v
    <3>1. LET last == journal[v].last_vote IN
          /\ last.target.height \in Nat /\ cl.target.height \in Nat
          /\ \/ cl.target.height > last.target.height
             \/ last = VoteOf(PREVOTE, cl)
      BY <1>5, <2>2, JournalOrder
    <3>2. cl.target.height > t.height
      BY <1>4, <1>5, <2>2, <3>1 DEF VoteOf
    <3>3. ~Precommitted(v, t)'
      BY <1>1, <1>2, <1>4, <1>5, <2>2, <3>1, <3>2 DEF Precommitted
    <3> QED
      BY <1>1, <1>2, <1>3, <2>2, <3>2, <3>3
  <2> QED
    BY <2>1, <2>2
<1> HIDE DEF vote
<1> QED
  BY <1>5 DEF Blocked

-----------------------------------------------------------------------------
(* The inductive invariant *)

\* Sources stay finalized: their certificates do.
LEMMA SourceStable ==
    ASSUME NEW source, FinalizedSource(source),
           \A w \in Honest : votes[w] \subseteq votes'[w]
    PROVE  FinalizedSource(source)'
  BY QCStable DEF FinalizedSource, Phase

\* Every vote cast so far stays a justified claim, and so is the new one.
LEMMA JustifiedStep ==
    ASSUME TypeOK, PrecommitsJustified,
           NEW v \in Honest, NEW cl \in Claim, NEW phase \in Phase, NEW lock \in Lock,
           FinalizedSource(cl.source),
           phase = PRECOMMIT => QC(PREVOTE, cl),
           Publish(v, VoteOf(phase, cl), lock)
    PROVE  PrecommitsJustified'
<1>1. VoteOf(phase, cl) \in Vote
  BY ClaimType
<1>2. /\ votes'[v] = votes[v] \cup {VoteOf(phase, cl)}
      /\ \A w \in Honest \ {v} : votes'[w] = votes[w]
      /\ \A w \in Honest : votes[w] \subseteq votes'[w]
  BY <1>1, PublishEffect, Zenon
<1>3. \A c \in Claim : QC(PREVOTE, c) => QC(PREVOTE, c)'
  BY <1>2, QCStable DEF Phase
<1>4. \A source : FinalizedSource(source) => FinalizedSource(source)'
  BY <1>2, SourceStable
<1> SUFFICES ASSUME NEW w \in Honest, NEW x \in votes'[w]
             PROVE  /\ [source |-> x.source, target |-> x.target] \in Claim
                    /\ x.phase = PRECOMMIT =>
                          QC(PREVOTE, [source |-> x.source, target |-> x.target])'
                    /\ FinalizedSource(x.source)'
  BY Zenon DEF PrecommitsJustified
<1>5. CASE x \in votes[w]
  BY <1>3, <1>4, <1>5 DEF PrecommitsJustified
<1>6. CASE x = VoteOf(phase, cl)
  <2>1. x.phase = phase /\ x.source = cl.source /\ x.target = cl.target
    BY <1>6 DEF VoteOf
  <2>2. [source |-> x.source, target |-> x.target] = cl
    BY <2>1, ClaimType
  <2> QED
    BY <1>3, <1>4, <2>1, <2>2
<1> QED
  BY <1>2, <1>5, <1>6

\* A lock the voter may hold stands on a certified target, covers the voter's
\* precommits, and is the journal's lock or a newer one.
LEMMA HeldLock ==
    ASSUME VotingInv, NEW v \in Honest, NEW lock \in HeldLocks(v)
    PROVE  /\ lock \in Lock
           /\ lock.held => \E c \in Claim : c.target = lock.target /\ QC(PREVOTE, c)
           /\ \A x \in votes[v] : x.phase = PRECOMMIT =>
                 /\ lock.held
                 /\ x.target.height <= lock.target.height
                 /\ x.target.height = lock.target.height => x.target = lock.target
           /\ journal[v].lock.held =>
                 \/ lock = journal[v].lock
                 \/ lock.held /\ lock.target.height > journal[v].lock.target.height
<1>1. TypeOK /\ JournalIsNewest /\ LockCoversPrecommits
  BY DEF VotingInv
<1>2. CASE lock = journal[v].lock
  BY <1>1, <1>2 DEF TypeOK, LockCoversPrecommits
<1>3. CASE lock # journal[v].lock
  <2>1. PICK c \in Claim : Precommittable(v, c) /\ lock = LockOn(c.target)
    BY <1>3 DEF HeldLocks
  <2>2. /\ JournalAllows(journal[v].last_vote, PRECOMMIT, c)
        /\ QC(PREVOTE, c)
        /\ LockedPrecommitAllowed(journal[v].lock, EpochOf(c.target.height),
                                  CheckpointRound(c.target.height), c.target)
    BY <2>1 DEF Precommittable
  <2>3. lock.held /\ lock.target = c.target /\ c.target \in Checkpoint
    BY <2>1, ClaimType DEF LockOn
  <2>4. lock \in Lock
    BY <2>1, <2>3 DEF Lock
  <2>5. ASSUME NEW x \in votes[v], x.phase = PRECOMMIT
        PROVE  x.target.height <= c.target.height /\ x.target.height # c.target.height
    <3>1. /\ x.target.height <= c.target.height
          /\ x.target.height = c.target.height => x = VoteOf(PREVOTE, c)
      BY <1>1, <2>2, NewestVote DEF Phase
    <3> QED
      BY <2>5, <3>1 DEF VoteOf, PREVOTE, PRECOMMIT
  <2>6. ASSUME journal[v].lock.held
        PROVE  lock.target.height > journal[v].lock.target.height
    <3>1. /\ journal[v].lock.target \in Checkpoint
          /\ journal[v].lock = LockOn(journal[v].lock.target)
      BY <1>1, <2>6, LockType DEF TypeOK
    <3>2. journal[v].lock.target # c.target
      BY <1>3, <2>1, <3>1
    <3>3. FrameNewer(c.target.height, journal[v].lock.target.height)
      BY <2>2, <2>6, <3>1, <3>2 DEF LockedPrecommitAllowed, FrameNewer, LockOn
    <3> QED
      BY <2>3, <3>1, <3>3, CheckpointFrames
  <2> QED
    BY <2>2, <2>3, <2>4, <2>5, <2>6
<1> QED
  BY <1>2, <1>3

\* Journaling a held lock with a vote keeps the locks on certified targets and
\* above all precommits.
LEMMA LockStep ==
    ASSUME VotingInv, NEW v \in Honest, NEW cl \in Claim, NEW phase \in Phase,
           NEW lock \in HeldLocks(v), Publish(v, VoteOf(phase, cl), lock),
           phase = PRECOMMIT => lock = LockOn(cl.target)
    PROVE  LockCoversPrecommits'
<1>1. TypeOK /\ LockCoversPrecommits
  BY DEF VotingInv
<1>2. VoteOf(phase, cl) \in Vote /\ lock \in Lock
  BY ClaimType, HeldLock
<1>3. /\ journal'[v] = [lock |-> lock, last_vote |-> VoteOf(phase, cl)]
      /\ votes'[v] = votes[v] \cup {VoteOf(phase, cl)}
      /\ \A w \in Honest \ {v} : journal'[w] = journal[w] /\ votes'[w] = votes[w]
      /\ \A w \in Honest : votes[w] \subseteq votes'[w]
  BY <1>1, <1>2, PublishEffect
<1>4. \A c \in Claim : QC(PREVOTE, c) => QC(PREVOTE, c)'
  BY <1>3, QCStable DEF Phase
<1>5. cl.target.height \in Nat
  BY ClaimType, CheckpointFrames
<1> SUFFICES ASSUME NEW w \in Honest
             PROVE  /\ journal'[w].lock.held =>
                          \E c \in Claim : c.target = journal'[w].lock.target /\ QC(PREVOTE, c)'
                    /\ \A x \in votes'[w] : x.phase = PRECOMMIT =>
                          /\ journal'[w].lock.held
                          /\ x.target.height <= journal'[w].lock.target.height
                          /\ x.target.height = journal'[w].lock.target.height =>
                                x.target = journal'[w].lock.target
  BY DEF LockCoversPrecommits
<1>6. CASE w # v
  <2>1. journal'[w].lock = journal[w].lock /\ votes'[w] = votes[w]
    BY <1>3, <1>6
  <2>2. journal[w].lock.held =>
           \E c \in Claim : c.target = journal[w].lock.target /\ QC(PREVOTE, c)
    BY <1>1 DEF LockCoversPrecommits
  <2>3. \A x \in votes[w] : x.phase = PRECOMMIT =>
           /\ journal[w].lock.held
           /\ x.target.height <= journal[w].lock.target.height
           /\ x.target.height = journal[w].lock.target.height =>
                 x.target = journal[w].lock.target
    BY <1>1 DEF LockCoversPrecommits
  <2> QED
    BY <1>4, <2>1, <2>2, <2>3
<1>7. CASE w = v
  <2>1. lock.held => \E c \in Claim : c.target = lock.target /\ QC(PREVOTE, c)'
    BY <1>4, HeldLock
  <2>2. \A x \in votes[v] : x.phase = PRECOMMIT =>
           /\ lock.held
           /\ x.target.height <= lock.target.height
           /\ x.target.height = lock.target.height => x.target = lock.target
    BY HeldLock
  <2>3. VoteOf(phase, cl).phase = PRECOMMIT =>
           /\ lock.held /\ VoteOf(phase, cl).target = lock.target
           /\ VoteOf(phase, cl).target.height <= lock.target.height
    BY <1>5 DEF VoteOf, LockOn
  <2> QED
    BY <1>3, <1>7, <2>1, <2>2, <2>3
<1> QED
  BY <1>6, <1>7

\* A prevote past a lower target of another branch that its own signer had
\* precommitted: the lock rule let it through, so the target is blocked.
LEMMA LockRuleBlocks ==
    ASSUME VotingInv, NEW v \in Honest, NEW cl \in Claim, NEW lock \in HeldLocks(v),
           Prevote(v, cl, lock),
           NEW t \in Checkpoint, t.height < cl.target.height,
           t \notin Ancestors[cl.target], Precommitted(v, t)
    PROVE  Blocked(t)
<1> DEFINE L == lock.target
<1>1. TypeOK /\ JournalIsNewest /\ PrevotesSafe
  BY DEF VotingInv
<1>2. cl.target \in Checkpoint /\ t.height \in Nat /\ cl.target.height \in Nat
  BY ClaimType, CheckpointFrames
<1>3. /\ lock \in Lock /\ lock.held
      /\ t.height <= L.height
      /\ t.height = L.height => t = L
  BY HeldLock DEF Precommitted
<1>5. L \in Checkpoint /\ L.height \in Nat
  BY <1>3, LockType, CheckpointFrames
<1>7. PICK justified \in Claim : justified.target = L /\ QC(PREVOTE, justified)
  BY <1>3, HeldLock
<1>8. \/ L = cl.target
      \/ L \in Ancestors[cl.target]
      \/ \E other \in Claim : other.target = cl.target /\ QC(PREVOTE, other)
  BY <1>3 DEF Prevote, Prevotable, LockedPrevoteAllowed, ExtendsLock
<1> HIDE DEF L
<1>9. CASE L = cl.target
  BY <1>1, <1>7, <1>9, CertificateBlocks
<1>10. CASE L \in Ancestors[cl.target]
  <2>1. t \notin Ancestors[L]
    BY <1>2, <1>10, TreeAssumption
  <2>2. t # L
    BY <1>5, <2>1, TreeAssumption
  <2>3. t.height < L.height
    BY <1>2, <1>3, <1>5, <2>2
  <2> QED
    BY <1>1, <1>7, <2>1, <2>3, CertificateBlocks
<1>11. CASE \E other \in Claim : other.target = cl.target /\ QC(PREVOTE, other)
  BY <1>1, <1>11, CertificateBlocks
<1> QED
  BY <1>8, <1>9, <1>10, <1>11

\* Prevotes cast before a step stay safe.
LEMMA OldPrevotesStaySafe ==
    ASSUME TypeOK, JournalIsNewest, PrevotesSafe,
           NEW v \in Honest, NEW cl \in Claim, NEW phase \in Phase, NEW lock \in Lock,
           JournalAllows(journal[v].last_vote, phase, cl),
           Publish(v, VoteOf(phase, cl), lock),
           NEW w \in Honest, NEW x \in votes[w], NEW t \in Checkpoint,
           x.phase = PREVOTE, t.height < x.target.height, t \notin Ancestors[x.target]
    PROVE  ~Precommitted(w, t)' \/ Blocked(t)'
<1>1. VoteOf(phase, cl) \in Vote /\ VoteOf(phase, cl).target = cl.target
  BY ClaimType DEF VoteOf
<1>2. /\ votes'[v] = votes[v] \cup {VoteOf(phase, cl)}
      /\ \A u \in Honest \ {v} : votes'[u] = votes[u]
  BY <1>1, PublishEffect, Zenon
<1>3. CASE Blocked(t)
  BY <1>3, BlockedStable
<1>4. CASE ~Blocked(t)
  <2>1. ~Precommitted(w, t)
    BY <1>4 DEF PrevotesSafe
  <2>2. CASE w # v
    BY <1>2, <2>1, <2>2 DEF Precommitted
  <2>3. CASE w = v
    <3>1. /\ x.target.height <= cl.target.height
          /\ x.target.height \in Nat /\ cl.target.height \in Nat
      BY <2>3, NewestVote
    <3>2. cl.target # t
      BY <3>1, CheckpointFrames
    <3> QED
      BY <1>1, <1>2, <2>1, <2>3, <3>2 DEF Precommitted
  <2> QED
    BY <2>2, <2>3
<1> QED
  BY <1>3, <1>4

\* A prevote preserves the invariant.
LEMMA PrevoteStep ==
    ASSUME VotingInv, NEW v \in Honest, NEW cl \in Claim, NEW lock \in HeldLocks(v),
           Prevote(v, cl, lock)
    PROVE  VotingInv'
<1> DEFINE vote == VoteOf(PREVOTE, cl)
<1>1. /\ TypeOK /\ JournalIsNewest /\ OneClaimPerFrame
      /\ LockCoversPrecommits /\ PrecommitsJustified /\ PrevotesSafe
  BY DEF VotingInv
<1>2. /\ JournalAllows(journal[v].last_vote, PREVOTE, cl)
      /\ FinalizedSource(cl.source)
      /\ Publish(v, vote, lock)
  BY DEF Prevote, Prevotable
<1>3. lock \in Lock /\ PREVOTE \in Phase /\ PREVOTE # PRECOMMIT
  BY HeldLock DEF Phase, PREVOTE, PRECOMMIT
<1>4. vote \in Vote /\ vote.phase = PREVOTE /\ vote.target = cl.target
  BY <1>3, ClaimType DEF VoteOf
<1>5. /\ TypeOK'
      /\ journal'[v] = [lock |-> lock, last_vote |-> vote]
      /\ votes'[v] = votes[v] \cup {vote}
      /\ \A w \in Honest \ {v} : journal'[w] = journal[w] /\ votes'[w] = votes[w]
  BY <1>1, <1>2, <1>3, <1>4, PublishEffect
<1>6. JournalIsNewest' /\ OneClaimPerFrame'
  BY <1>1, <1>2, <1>3, JournalStep
<1>7. PrecommitsJustified'
  BY <1>1, <1>2, <1>3, JustifiedStep
<1>8. \A w \in Honest : \A t : Precommitted(w, t)' <=> Precommitted(w, t)
  BY <1>3, <1>4, <1>5 DEF Precommitted
<1>9. LockCoversPrecommits'
  BY <1>2, <1>3, LockStep
<1>10. PrevotesSafe'
  <2> SUFFICES ASSUME NEW w \in Honest, NEW x \in votes'[w], NEW t \in Checkpoint,
                      x.phase = PREVOTE, t.height < x.target.height,
                      t \notin Ancestors[x.target]
               PROVE  ~Precommitted(w, t)' \/ Blocked(t)'
    BY DEF PrevotesSafe
  <2>1. CASE x \in votes[w]
    BY <1>1, <1>2, <1>3, <2>1, OldPrevotesStaySafe
  <2>2. CASE w = v /\ x = vote
    <3>1. CASE Precommitted(v, t)
      <4>1. Blocked(t)
        BY <1>4, <2>2, <3>1, LockRuleBlocks
      <4> QED
        BY <1>1, <1>2, <1>3, <4>1, BlockedStable, SMTT(30)
    <3>2. CASE ~Precommitted(v, t)
      BY <1>8, <2>2, <3>2
    <3> QED
      BY <3>1, <3>2, SMTT(30)
  <2> QED
    BY <1>5, <2>1, <2>2
<1> QED
  BY <1>5, <1>6, <1>7, <1>9, <1>10 DEF VotingInv

\* A precommit preserves the invariant.
LEMMA PrecommitStep ==
    ASSUME VotingInv, NEW v \in Honest, NEW cl \in Claim, Precommit(v, cl)
    PROVE  VotingInv'
<1> DEFINE vote == VoteOf(PRECOMMIT, cl)
           newlock == LockOn(cl.target)
<1>1. /\ TypeOK /\ JournalIsNewest /\ OneClaimPerFrame
      /\ LockCoversPrecommits /\ PrecommitsJustified /\ PrevotesSafe
  BY SMTT(30) DEF VotingInv
<1>2. /\ JournalAllows(journal[v].last_vote, PRECOMMIT, cl)
      /\ FinalizedSource(cl.source)
      /\ QC(PREVOTE, cl)
      /\ Publish(v, vote, newlock)
      /\ newlock \in HeldLocks(v)
  BY DEF Precommit, Precommittable, HeldLocks
<1>3. newlock \in Lock /\ PRECOMMIT \in Phase /\ PREVOTE # PRECOMMIT
  BY ClaimType DEF Lock, Phase, PREVOTE, PRECOMMIT
<1>4. vote \in Vote /\ vote.phase = PRECOMMIT /\ vote.target = cl.target
  BY <1>3, ClaimType DEF VoteOf
<1>5. /\ TypeOK'
      /\ journal'[v] = [lock |-> newlock, last_vote |-> vote]
      /\ votes'[v] = votes[v] \cup {vote}
      /\ \A w \in Honest \ {v} : journal'[w] = journal[w] /\ votes'[w] = votes[w]
  BY <1>1, <1>2, <1>3, <1>4, PublishEffect
<1>6. JournalIsNewest' /\ OneClaimPerFrame'
  BY <1>1, <1>2, <1>3, JournalStep
<1>7. PrecommitsJustified'
  BY <1>1, <1>2, <1>3, JustifiedStep
<1>10. LockCoversPrecommits'
  BY <1>2, <1>3, LockStep, SMTT(30)
<1>11. PrevotesSafe'
  <2> SUFFICES ASSUME NEW w \in Honest, NEW x \in votes'[w], NEW t \in Checkpoint,
                      x.phase = PREVOTE, t.height < x.target.height,
                      t \notin Ancestors[x.target]
               PROVE  ~Precommitted(w, t)' \/ Blocked(t)'
    BY SMTT(30) DEF PrevotesSafe
  <2>1. x \in votes[w]
    BY <1>3, <1>4, <1>5
  <2> QED
    BY <1>1, <1>2, <1>3, <2>1, OldPrevotesStaySafe DEF vote
<1> QED
  BY <1>5, <1>6, <1>7, <1>10, <1>11 DEF VotingInv

\* The invariant holds initially.
LEMMA VotingInit ==
    Init => VotingInv
<1> SUFFICES ASSUME Init PROVE VotingInv
  OBVIOUS
<1>1. TypeOK
  BY DEF Init, TypeOK, Lock
<1>2. \A v \in Honest : votes[v] = {} /\ ~journal[v].lock.held
  BY DEF Init, NoLock
<1> QED
  BY <1>1, <1>2 DEF VotingInv, JournalIsNewest, OneClaimPerFrame, LockCoversPrecommits,
                    PrecommitsJustified, PrevotesSafe

\* Every step, and every stutter, preserves the invariant.
LEMMA VotingStep ==
    VotingInv /\ [Next]_vars => VotingInv'
<1> SUFFICES ASSUME VotingInv, [Next]_vars PROVE VotingInv'
  OBVIOUS
<1>1. CASE Next
  BY <1>1, PrevoteStep, PrecommitStep DEF Next
<1>2. CASE UNCHANGED vars
  <2>1. journal' = journal /\ votes' = votes
    BY <1>2 DEF vars
  <2>2. TypeOK' /\ JournalIsNewest' /\ OneClaimPerFrame'
    BY <2>1 DEF VotingInv, TypeOK, JournalIsNewest, OneClaimPerFrame
  <2>3. LockCoversPrecommits'
    <3>1. \A c \in Claim : QC(PREVOTE, c) => QC(PREVOTE, c)'
      BY <2>1, QCStable DEF Phase
    <3> QED
      BY <2>1, <3>1 DEF VotingInv, LockCoversPrecommits
  <2>4. PrecommitsJustified'
    <3>1. \A c \in Claim : QC(PREVOTE, c) => QC(PREVOTE, c)'
      BY <2>1, QCStable DEF Phase
    <3>2. \A source : FinalizedSource(source) => FinalizedSource(source)'
      BY <2>1, SourceStable
    <3> QED
      BY <2>1, <3>1, <3>2, Zenon DEF VotingInv, PrecommitsJustified
  <2>5. PrevotesSafe'
    BY <2>1 DEF VotingInv, PrevotesSafe, Precommitted, Blocked
  <2> QED
    BY <2>2, <2>3, <2>4, <2>5 DEF VotingInv
<1> QED
  BY <1>1, <1>2

\* VotingInv is an invariant of the voting protocol.
THEOREM VotingInvariant ==
    Spec => []VotingInv
  BY VotingInit, VotingStep, PTL DEF Spec

-----------------------------------------------------------------------------
(* What follows from it *)

\* The journals and votes keep their types, for every instance.
THEOREM TypeCorrect ==
    Spec => []TypeOK
<1>1. VotingInv => TypeOK
  BY DEF VotingInv
<1> QED
  BY <1>1, VotingInvariant, PTL

\* The invariant rules out two finalized checkpoints on different branches.
LEMMA InvAgreement ==
    VotingInv => Agreement
<1> SUFFICES ASSUME VotingInv,
                    NEW c1 \in Claim, NEW c2 \in Claim,
                    QC(PRECOMMIT, c1), QC(PRECOMMIT, c2),
                    c1.target.height <= c2.target.height,
                    c1.target \notin Ancestors[c2.target]
             PROVE  FALSE
  BY DEF Agreement
<1>1. /\ TypeOK /\ JournalIsNewest /\ OneClaimPerFrame
      /\ PrecommitsJustified /\ PrevotesSafe
  BY DEF VotingInv
<1>2. /\ c1.target \in Checkpoint /\ c2.target \in Checkpoint
      /\ c1.target.height \in Nat /\ c2.target.height \in Nat
      /\ EpochOf(c1.target.height) \in Epochs
  BY ClaimType, CheckpointFrames
<1>3. Signers(PRECOMMIT, c1) \in Quorums(Members[EpochOf(c1.target.height)])
  BY DEF QC
<1>4. PICK v \in Signers(PRECOMMIT, c1) \cap Honest : VoteOf(PRECOMMIT, c2) \in votes[v]
  BY <1>2, <1>3, CertificateMeetsQuorum DEF Phase
<1>5. VoteOf(PRECOMMIT, c1) \in votes[v]
  BY <1>4 DEF Signers
<1>6. CASE c1.target.height = c2.target.height
  <2>1. c1.target = c2.target
    BY <1>1, <1>4, <1>5, <1>6 DEF OneClaimPerFrame, VoteOf
  <2> QED
    BY <1>2, <2>1, TreeAssumption
<1>7. CASE c1.target.height < c2.target.height
  <2>1. QC(PREVOTE, [source |-> c2.source, target |-> c2.target])
    BY <1>1, <1>4 DEF PrecommitsJustified, VoteOf
  <2>2. QC(PREVOTE, c2)
    BY <2>1, ClaimType
  <2>3. Blocked(c1.target)
    BY <1>1, <1>2, <1>7, <2>2, CertificateBlocks
  <2>4. PICK u \in Signers(PRECOMMIT, c1) \cap Honest : ~Precommitted(u, c1.target)
    BY <1>3, <2>3 DEF Blocked
  <2>5. VoteOf(PRECOMMIT, c1) \in votes[u]
    BY <2>4 DEF Signers
  <2> QED
    BY <2>4, <2>5 DEF Precommitted, VoteOf
<1> QED
  BY <1>2, <1>6, <1>7

\* Finality never conflicts: all checkpoints that gather a PRECOMMIT
\* certificate lie on one branch, whatever branches the nodes follow, whatever
\* votes are lost and whatever the faulty validators sign.
THEOREM FinalityAgreement ==
    Spec => []Agreement
  BY VotingInvariant, InvAgreement, PTL

\* A validator that follows the program can never be slashed for equivocation.
THEOREM HonestNeverSlashed ==
    Spec => []NeverSlashable
<1>1. VotingInv => NeverSlashable
  <2> SUFFICES ASSUME VotingInv, NEW v \in Honest, NEW a \in votes[v], NEW b \in votes[v],
                      IsEquivocation(a, b)
               PROVE  FALSE
    BY DEF NeverSlashable
  <2>1. a.target \in Checkpoint /\ b.target \in Checkpoint
    BY DEF VotingInv, TypeOK, Vote
  <2>2. a.target.height = b.target.height /\ a.target # b.target
    BY <2>1, CheckpointFrames DEF IsEquivocation
  <2> QED
    BY <2>2 DEF VotingInv, OneClaimPerFrame
<1> QED
  BY <1>1, VotingInvariant, PTL

\* Every certificate's justified source lies on the certified branch.
THEOREM CertificateLineage ==
    Spec => []JustifiedLineage
<1>1. VotingInv => JustifiedLineage
  <2> SUFFICES ASSUME VotingInv, NEW cl \in Claim, QC(PRECOMMIT, cl), cl.source # NullRef
               PROVE  cl.source \in Ancestors[cl.target]
    BY DEF JustifiedLineage
  <2>1. Agreement
    BY InvAgreement
  <2>2. EpochOf(cl.target.height) \in Epochs
    BY ClaimType, CheckpointFrames
  <2>3. PICK v \in Honest : VoteOf(PRECOMMIT, cl) \in votes[v]
    BY <2>2, CertificateMeetsQuorum DEF QC, Phase
  <2>4. FinalizedSource(cl.source)
    BY <2>3, Zenon DEF VotingInv, PrecommitsJustified, VoteOf
  <2>5. PICK src \in Claim : src.target = cl.source /\ QC(PRECOMMIT, src)
    BY <2>4 DEF FinalizedSource
  <2>6. src.target.height <= cl.target.height
    <3>1. cl.source.height < cl.target.height
      BY DEF Claim, SourceRefWellFormed
    <3>2. src.target.height \in Nat /\ cl.target.height \in Nat
      BY ClaimType, CheckpointFrames
    <3> QED
      BY <2>5, <3>1, <3>2
  <2> QED
    BY <2>1, <2>5, <2>6 DEF Agreement
<1> QED
  BY <1>1, VotingInvariant, PTL

\* Locks are never dropped and only move to newer frames.
THEOREM LocksMoveForward ==
    Spec => LockMovesForward
<1> DEFINE Forward ==
      \A v \in Honest :
          (journal[v].lock.held /\ journal'[v].lock # journal[v].lock)
          => /\ journal'[v].lock.held
             /\ journal'[v].lock.target.height > journal[v].lock.target.height
<1>1. VotingInv /\ [Next]_vars => [Forward]_vars
  <2> SUFFICES ASSUME VotingInv, NEW v \in Honest, NEW cl \in Claim,
                      NEW lock \in HeldLocks(v), NEW vote, Publish(v, vote, lock)
               PROVE  Forward
    BY Zenon DEF Next, Prevote, Prevotable, Precommit, HeldLocks
  <2>1. /\ journal'[v].lock = lock
        /\ \A w \in Honest \ {v} : journal'[w] = journal[w]
    BY DEF VotingInv, TypeOK, Publish
  <2>2. journal[v].lock.held =>
           \/ lock = journal[v].lock
           \/ lock.held /\ lock.target.height > journal[v].lock.target.height
    BY HeldLock
  <2> QED
    BY <2>1, <2>2
<1> QED
  BY <1>1, VotingInvariant, PTL DEF Spec, LockMovesForward
-----------------------------------------------------------------------------
(* The finality journal *)

CONSTANTS Legacy, MaxFrame, MaxWriteFaults, MaxLoads
VARIABLES frames, marker, before, loader, frame, acknowledged, gossiped, writeFaults, loads

VoteFile == INSTANCE FinalityJournal WITH journal <- frames, pc <- loader,
    faults <- writeFaults, starts <- loads, MaxFaults <- MaxWriteFaults, MaxStarts <- MaxLoads

\* The older version may have left a journal of any number of votes, or none.
Older == Legacy \in Nat \cup {VoteFile!Absent}

\* Where the process has the directory synced.
Started == {"acquired", "init", "mark", "ready"}

\* s holds all that was acknowledged and gossiped, or dates from before both.
Covers(s) ==
    /\ s[1] # VoteFile!Absent => s[1] >= acknowledged /\ s[1] >= gossiped
    /\ ~s[2] => acknowledged = Legacy /\ gossiped = Legacy

\* What a process at each of its places knows, and what the directory holds.
VoteFileInv ==
    /\ frames \in Int /\ frame \in Int /\ acknowledged \in Int /\ gossiped \in Int
    /\ frames >= VoteFile!Absent /\ acknowledged >= VoteFile!Absent /\ gossiped >= VoteFile!Absent
    /\ marker \in BOOLEAN /\ before \subseteq Int \X BOOLEAN
    /\ loader \in Started \cup {"down", "invalid"}
    /\ loader \in Started => before = {}
    /\ loader = "init" => frames = VoteFile!Absent /\ ~marker /\ frame >= Legacy /\ frame >= 0
    /\ loader = "mark" => ~marker
    /\ loader = "ready" => marker
    /\ loader \in {"mark", "ready"} =>
           /\ frames \in {frame, VoteFile!Absent}
           /\ frame >= acknowledged /\ frame >= gossiped /\ frame >= 0
    /\ Covers(<<frames, marker>>)
    /\ \A s \in before : Covers(s) /\ ~(s[1] = VoteFile!Absent /\ s[2])

-----------------------------------------------------------------------------
\* A new validator, or one that has used the older version only.
LEMMA InitJournal ==
    ASSUME Older, VoteFile!Init PROVE VoteFileInv
PROOF
  <1>1. Legacy \in Int /\ Legacy >= VoteFile!Absent /\ VoteFile!Absent \in Int
    BY DEF Older, VoteFile!Absent
  <1>2. Covers(<<frames, marker>>)
    BY DEF VoteFile!Init, Covers
  <1>3. before = {} /\ loader = "down" /\ marker = FALSE
    BY DEF VoteFile!Init
  <1>4. frames = VoteFile!Absent /\ frame = VoteFile!Absent /\ acknowledged = Legacy /\ gossiped = Legacy
    BY DEF VoteFile!Init
  <1>5. marker \in BOOLEAN /\ before \subseteq Int \X BOOLEAN /\ loader \notin Started
    BY <1>3, Zenon DEF Started
  <1>6. QED
    BY <1>1, <1>2, <1>3, <1>4, <1>5 DEF VoteFileInv, Started

\* A write of a frame that covers everything, by a process that had the
\* directory synced (AtomicWrite, AtomicWriteNew).
LEMMA WriteKeeps ==
    ASSUME Older, VoteFileInv, NEW out \in VoteFile!Outcome,
           VoteFile!LoadInitialize(out) \/ VoteFile!LoadMark(out) \/ VoteFile!Persist(out)
    PROVE  VoteFileInv'
PROOF
  <1>1. CASE VoteFile!LoadInitialize(out)
    BY <1>1 DEF VoteFile!LoadInitialize, VoteFile!Write, VoteFile!AfterFailure,
                VoteFile!Outcome, VoteFileInv, Covers, Started, VoteFile!Absent
  <1>2. CASE VoteFile!LoadMark(out)
    <2>1. CASE out = "done"
      BY <1>2, <2>1 DEF VoteFile!LoadMark, VoteFile!Write, VoteFileInv, Covers, Started,
                        VoteFile!Absent
    <2>2. CASE out = "unsynced"
      BY <1>2, <2>2 DEF VoteFile!LoadMark, VoteFile!Write, VoteFile!AfterFailure, VoteFileInv,
                        Covers, Started, VoteFile!Absent
    <2>3. CASE out = "undone"
      BY <1>2, <2>3 DEF VoteFile!LoadMark, VoteFile!Write, VoteFile!AfterFailure, VoteFileInv,
                        Covers, Started, VoteFile!Absent
    <2>4. QED
      BY <2>1, <2>2, <2>3 DEF VoteFile!Outcome
  <1>3. CASE VoteFile!Persist(out)
    <2>1. CASE VoteFile!Unchanged
      <3>1. CASE out = "done"
        BY <1>3, <2>1, <3>1 DEF VoteFile!Persist, VoteFile!Unchanged, VoteFile!Write,
                                VoteFileInv, Covers, Started, VoteFile!Absent
      <3>2. CASE out = "unsynced"
        <4>1. /\ frames' = frame + 1 /\ marker' = marker
              /\ before' = {<<frames, marker>>} /\ loader' \in {"invalid", "down"}
              /\ UNCHANGED <<frame, acknowledged, gossiped>>
          BY <1>3, <2>1, <3>2, Zenon DEF VoteFile!Persist, VoteFile!Unchanged, VoteFile!Write,
                                  VoteFile!AfterFailure, VoteFileInv, Started
        <4>2. /\ frame \in Int /\ frame >= acknowledged /\ frame >= gossiped /\ frame >= 0
              /\ marker \in BOOLEAN /\ marker /\ frames = frame
          BY <1>3, <2>1 DEF VoteFile!Persist, VoteFile!Unchanged, VoteFileInv
        <4>3. before' \subseteq Int \X BOOLEAN /\ marker' \in BOOLEAN
          <5>1. <<frames, marker>> \in Int \X BOOLEAN
            BY DEF VoteFileInv
          <5>2. QED
            BY <4>1, <4>2, <5>1
        <4>4. ASSUME NEW s \in before' PROVE s[1] = frame /\ s[2]
          <5>1. s = <<frames, marker>>
            BY <4>1, Zenon
          <5>2. s[1] = frames /\ s[2] = marker
            BY <5>1, Zenon
          <5>3. QED
            BY <4>2, <5>2
        <4>a. acknowledged' = acknowledged /\ gossiped' = gossiped
          BY <4>1
        <4>b. /\ acknowledged \in Int /\ gossiped \in Int /\ frame # VoteFile!Absent
              /\ frame + 1 >= acknowledged /\ frame + 1 >= gossiped
          BY <4>2 DEF VoteFileInv, VoteFile!Absent
        <4>c. \A s \in before' : Covers(s)' /\ ~(s[1] = VoteFile!Absent /\ s[2])
          BY <4>2, <4>4, <4>a, <4>b DEF Covers
        <4>5. Covers(<<frames, marker>>)'
          BY <4>1, <4>2, <4>a, <4>b DEF Covers
        <4>6. frames' \in Int /\ frames' >= VoteFile!Absent /\ loader' \notin Started
          BY <4>1, <4>2 DEF Started, VoteFile!Absent
        <4>7. QED
          BY <4>1, <4>3, <4>5, <4>6, <4>c DEF VoteFileInv, Started
      <3>3. CASE out = "undone"
        BY <1>3, <2>1, <3>3, SMTT(30) DEF VoteFile!Persist, VoteFile!Unchanged, VoteFile!Write,
                                VoteFile!AfterFailure, VoteFileInv, Covers,
                                Started, VoteFile!Absent
      <3>4. QED
        BY <3>1, <3>2, <3>3 DEF VoteFile!Outcome
    <2>2. CASE ~VoteFile!Unchanged
      BY <1>3, <2>2 DEF VoteFile!Persist, VoteFileInv, Covers, Started, VoteFile!Absent
    <2>3. QED
      BY <2>1, <2>2
  <1>4. QED
    BY <1>1, <1>2, <1>3

\* Starting, sending, ending, and what happens to the files.
LEMMA OthersKeep ==
    ASSUME Older, VoteFileInv,
           \/ VoteFile!AcquireIdentity \/ VoteFile!LoadRead \/ VoteFile!Gossip
           \/ VoteFile!Exit \/ VoteFile!PowerCut \/ VoteFile!LoseJournal
    PROVE  VoteFileInv'
PROOF
  <1>1. CASE VoteFile!AcquireIdentity
    BY <1>1 DEF VoteFile!AcquireIdentity, VoteFileInv, Covers, Started
  <1>2. CASE VoteFile!LoadRead
    BY <1>2 DEF VoteFile!LoadRead, VoteFileInv, Covers, Started, VoteFile!Absent
  <1>3. CASE VoteFile!Gossip
    BY <1>3 DEF VoteFile!Gossip, VoteFileInv, Covers, Started, VoteFile!Absent
  <1>4. CASE VoteFile!Exit
    BY <1>4, SMTT(30) DEF VoteFile!Exit, VoteFileInv, Covers, Started, VoteFile!Absent
  <1>5. CASE VoteFile!PowerCut
    <2>1. PICK s \in before \cup {<<frames, marker>>} : frames' = s[1] /\ marker' = s[2]
      BY <1>5 DEF VoteFile!PowerCut
    <2>2. s \in Int \X BOOLEAN /\ Covers(s)
      BY DEF VoteFileInv
    <2>3. frames' \in Int /\ frames' >= VoteFile!Absent /\ marker' \in BOOLEAN
      BY <2>1, <2>2 DEF VoteFileInv, Covers, VoteFile!Absent
    <2>4. QED
      BY <1>5, <2>1, <2>2, <2>3 DEF VoteFile!PowerCut, VoteFileInv, Covers, Started, VoteFile!Absent
  <1>6. CASE VoteFile!LoseJournal
    BY <1>6 DEF VoteFile!LoseJournal, VoteFileInv, Covers, Started, VoteFile!Absent
  <1>7. QED
    BY <1>1, <1>2, <1>3, <1>4, <1>5, <1>6, SMTT(30)

\* JournalInv is inductive.
THEOREM VoteFileInvariant ==
    ASSUME Older PROVE VoteFile!Spec => []VoteFileInv
PROOF
  <1>1. VoteFileInv /\ [VoteFile!Next]_VoteFile!vars => VoteFileInv'
    <2>1. SUFFICES ASSUME VoteFileInv, [VoteFile!Next]_VoteFile!vars PROVE VoteFileInv'
      OBVIOUS
    <2>2. CASE UNCHANGED VoteFile!vars
      BY <2>1, <2>2 DEF VoteFile!vars, VoteFileInv, Covers
    <2>3. CASE VoteFile!Next
      BY <2>1, <2>3, WriteKeeps, OthersKeep DEF VoteFile!Next
    <2>4. QED
      BY <2>1, <2>2, <2>3
  <1>2. QED
    BY <1>1, InitJournal, PTL DEF VoteFile!Spec

\* A validator that may vote has every frame Persist ever answered for, and the
\* older version's: Load gives all of the history or refuses.
THEOREM JournalComplete ==
    ASSUME Older PROVE VoteFile!Spec => []VoteFile!HistoryComplete
PROOF
  <1>1. VoteFileInv => VoteFile!HistoryComplete
    BY DEF VoteFileInv, VoteFile!HistoryComplete
  <1>2. QED
    BY <1>1, VoteFileInvariant, PTL

\* No power cut brings back a journal without a vote that was sent.
THEOREM SentVoteDurable ==
    ASSUME Older PROVE VoteFile!Spec => []VoteFile!GossipedIsDurable
PROOF
  <1>1. VoteFileInv => VoteFile!GossipedIsDurable
    BY DEF VoteFileInv, VoteFile!GossipedIsDurable, Covers, VoteFile!Recovered
  <1>2. QED
    BY <1>1, VoteFileInvariant, PTL

-----------------------------------------------------------------------------
\* The frames of the files and of the process are frames.
FramesInv ==
    /\ {frames, frame, acknowledged, gossiped} \subseteq VoteFile!Absent..MaxFrame
    /\ \A s \in before : s[1] \in VoteFile!Absent..MaxFrame

\* FramesInv is kept: a process reads frames, and writes the next one at most.
LEMMA FramesKept ==
    ASSUME MaxFrame \in Nat, Legacy \in VoteFile!Absent..MaxFrame, VoteFileInv, FramesInv,
           [VoteFile!Next]_VoteFile!vars
    PROVE  FramesInv'
PROOF
  <1> USE DEF FramesInv, VoteFile!Absent
  <1>1. CASE UNCHANGED VoteFile!vars
    BY <1>1 DEF VoteFile!vars
  <1>2. CASE VoteFile!AcquireIdentity \/ VoteFile!Exit
    BY <1>2 DEF VoteFile!AcquireIdentity, VoteFile!Exit
  <1>3. CASE VoteFile!Gossip
    BY <1>3 DEF VoteFile!Gossip
  <1>4. CASE VoteFile!LoadRead
    BY <1>4 DEF VoteFile!LoadRead
  <1>5. CASE VoteFile!PowerCut \/ VoteFile!LoseJournal
    BY <1>5 DEF VoteFile!PowerCut, VoteFile!LoseJournal
  <1>6. ASSUME NEW out \in VoteFile!Outcome, NEW j \in VoteFile!Absent..MaxFrame, NEW m,
               VoteFile!Write(out, j, m)
        PROVE  /\ frames' \in VoteFile!Absent..MaxFrame
               /\ \A s \in before' : s[1] \in VoteFile!Absent..MaxFrame
    BY <1>6 DEF VoteFile!Write, VoteFile!Outcome
  <1>7. ASSUME NEW out \in VoteFile!Outcome, VoteFile!LoadInitialize(out) PROVE FramesInv'
    BY <1>6, <1>7 DEF VoteFile!LoadInitialize
  <1>8. ASSUME NEW out \in VoteFile!Outcome, VoteFile!LoadMark(out) PROVE FramesInv'
    BY <1>6, <1>8, Zenon DEF VoteFile!LoadMark
  <1>9. ASSUME NEW out \in VoteFile!Outcome, VoteFile!Persist(out) PROVE FramesInv'
    <2>1. frame + 1 \in VoteFile!Absent..MaxFrame
      BY <1>9 DEF VoteFile!Persist
    <2>2. QED
      BY <1>6, <1>9, <2>1 DEF VoteFile!Persist
  <1>10. QED
    BY <1>1, <1>2, <1>3, <1>4, <1>5, <1>7, <1>8, <1>9, SMTT(30) DEF VoteFile!Next

\* All of it: the journal's frames are frames, a process that may vote knows all
\* that was answered for, and what was sent survives a power cut.
THEOREM VoteFileStaysSound ==
    ASSUME MaxFrame \in Nat, Legacy \in VoteFile!Absent..MaxFrame
    PROVE  VoteFile!Spec => []VoteFile!VoteFileSound
PROOF
  <1>1. Older
    BY DEF Older, VoteFile!Absent
  <1>2. VoteFile!Init => FramesInv
    BY DEF VoteFile!Init, FramesInv, VoteFile!Absent
  <1>3. VoteFileInv /\ FramesInv => VoteFile!TypeOK
    BY DEF VoteFileInv, FramesInv, VoteFile!TypeOK, Started
  <1>4. QED
    BY <1>1, <1>2, <1>3, FramesKept, VoteFileInvariant, JournalComplete, SentVoteDurable, PTL
       DEF VoteFile!Spec, VoteFile!VoteFileSound
=============================================================================
