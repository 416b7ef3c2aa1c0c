------------------------ MODULE WorkAdmissionProofs ------------------------
(***************************************************************************)
(* A closed coordinator holds nothing, a commit owns it, and a used token  *)
(* is never forgotten too early: for any tokens, miners, lease times and   *)
(* capacities.                                                             *)
(*                                                                         *)
(* The argument has three layers, the last two in WorkSigningProofs and    *)
(* WorkCommitProofs.  Good is about the coordinator alone: every method of *)
(* it preserves Good.  Kept is about its leases and tokens; all methods    *)
(* but three only let leases go (Shrinks), and those three add, use or     *)
(* claim one.  NodeInv joins them with the node: what a signer's lease and *)
(* a miner's ticket stand on, and who holds the sequencer while the facts  *)
(* change.                                                                 *)
(***************************************************************************)
EXTENDS WorkAdmission, FiniteSetTheorems, TLAPS

\* The fields of SharedState and of a LeaseRecord that matter here.
IsState(c) ==
    {"phase", "records", "spent", "deadline", "cfg", "gen", "epoch", "next_id"} \subseteq DOMAIN c
IsRecord(r) == {"kind", "claimed", "token"} \subseteq DOMAIN r

\* Leases live only under a safe configuration, none when closed, and a claimed
\* one is alone while the coordinator is closing.
Good(c) ==
    /\ IsState(c) /\ c.phase \in {"Closed", "Open", "Closing"}
    /\ \A r \in c.records : IsRecord(r)
    /\ c.phase = "Closed" => c.records = {}
    /\ c.records # {} => c.cfg.safe
    /\ \A r \in c.records : r.claimed => c.phase = "Closing" /\ c.records = {r}

-----------------------------------------------------------------------------
(* The methods of AdmissionCoordinator *)

\* FinalizeCloseLocked_ of a state without leases.
LEMMA FinalizedGood ==
    ASSUME NEW c, IsState(c), c.records = {} PROVE Good(Finalized(c))
BY DEF Good, IsState, Finalized

\* AdvanceCloseEpochLocked_ touches the epoch only.
LEMMA NextEpochGood ==
    ASSUME NEW c, Good(c)
    PROVE  /\ Good(NextEpoch(c)) /\ NextEpoch(c).records = c.records
           /\ NextEpoch(c).phase = c.phase /\ NextEpoch(c).spent = c.spent
BY DEF Good, IsState, NextEpoch

\* Leases may be dropped from any state.
LEMMA FewerGood ==
    ASSUME NEW c, Good(c), NEW left, left \subseteq c.records, NEW spent
    PROVE  /\ Good([c EXCEPT !.records = left, !.spent = spent])
           /\ [c EXCEPT !.records = left, !.spent = spent].records = left
BY DEF Good, IsState

\* PruneLocked_.
LEMMA PrunedGood ==
    ASSUME NEW c, Good(c) PROVE Good(Pruned(c))
PROOF
  <1> DEFINE late == {r \in c.records : r.deadline <= now}
             kept == {s \in c.spent : s.forget > now}
             done == c.phase = "Closing" /\ (late = c.records \/ c.deadline <= now)
             gone == IF done THEN c.records ELSE late
             d == [c EXCEPT !.records = c.records \ gone, !.spent = Remember(kept, gone)]
  <1>1. Good(d) /\ d.records = c.records \ gone
    <2> DEFINE left == c.records \ gone
               spent == Remember(kept, gone)
    <2>1. left \subseteq c.records
      OBVIOUS
    <2>2. d = [c EXCEPT !.records = left, !.spent = spent]
      OBVIOUS
    <2> HIDE DEF d, left, spent
    <2>3. Good(d) /\ d.records = left
      BY <2>1, <2>2, FewerGood, Zenon
    <2>4. QED
      BY <2>3 DEF left
  <1>2. Pruned(c) = IF done THEN Finalized(d) ELSE d
    BY DEF Pruned
  <1>3. CASE done
    <2>1. d.records = {}
      BY <1>1, <1>3
    <2>2. QED
      BY <1>1, <1>2, <1>3, <2>1, FinalizedGood, Zenon DEF Good
  <1>4. QED
    BY <1>1, <1>2, <1>3

\* Open.
LEMMA OpenGood ==
    ASSUME NEW c, Good(c), NEW cfg PROVE Good(Open(c, cfg))
PROOF
  <1> DEFINE p == Pruned(c)
             renewed == IF p.cfg # cfg \/ p.phase = "Closed" THEN p.gen + 1 ELSE p.gen
             shut == [p EXCEPT !.cfg = cfg, !.phase = "Closed", !.gen = renewed]
             opened == [p EXCEPT !.cfg = cfg, !.phase = "Open", !.gen = renewed]
  <1>1. Good(p)
    BY PrunedGood
  <1>2. ASSUME p.phase # "Closing", ~(p.records # {} /\ p.cfg # cfg), ~cfg.safe
        PROVE  Good(NextEpoch(shut))
    <2> HIDE DEF p, renewed
    <2>1. p.records = {}
      BY <1>1, <1>2 DEF Good
    <2>2. Good(shut)
      BY <1>1, <2>1 DEF Good, IsState
    <2>3. QED
      BY <2>2, NextEpochGood
  <1>3. ASSUME p.phase # "Closing", ~(p.records # {} /\ p.cfg # cfg), cfg.safe
        PROVE  Good(opened)
    <2> HIDE DEF p, renewed
    <2>1. QED
      BY <1>1, <1>3 DEF Good, IsState
  <1>4. QED
    BY <1>1, <1>2, <1>3 DEF Open

\* BeginClose.
LEMMA BeginCloseGood ==
    ASSUME NEW c, Good(c) PROVE Good(BeginClose(c))
PROOF
  <1> DEFINE p == NextEpoch(Pruned(c))
             closing == [p EXCEPT !.phase = "Closing", !.deadline = LastDeadline(p.records)]
  <1>1. Good(p)
    BY PrunedGood, NextEpochGood
  <1>2. CASE p.phase = "Closed" \/ p.records = {}
    <2> HIDE DEF p
    <2>1. IsState(p) /\ p.records = {}
      BY <1>1, <1>2 DEF Good
    <2>2. QED
      BY <1>2, <2>1, FinalizedGood DEF BeginClose, p
  <1>3. CASE ~(p.phase = "Closed" \/ p.records = {})
    <2>1. BeginClose(c) = closing
      BY <1>3 DEF BeginClose
    <2> HIDE DEF p
    <2>2. Good(closing)
      BY <1>1 , <1>3 DEF Good, IsState
    <2>3. QED
      BY <2>1, <2>2
  <1>4. QED
    BY <1>2, <1>3

\* CancelAndClose.
LEMMA CancelAndCloseGood ==
    ASSUME NEW c, Good(c) PROVE Good(CancelAndClose(c))
PROOF
  <1> DEFINE p == NextEpoch(Pruned(c))
             d == [p EXCEPT !.records = {}, !.spent = Remember(p.spent, p.records), !.gen = p.gen + 1]
  <1>1. IsState(p)
    BY PrunedGood, NextEpochGood DEF Good
  <1>2. CancelAndClose(c) = Finalized(d)
    BY DEF CancelAndClose
  <1>3. IsState(d) /\ d.records = {}
    <2> HIDE DEF p
    <2>1. QED
      BY <1>1 DEF IsState
  <1>4. QED
    BY <1>2, <1>3, FinalizedGood, Zenon

\* ReleaseLease_.
LEMMA ReleasedGood ==
    ASSUME NEW c, Good(c), NEW id PROVE Good(Released(c, id))
PROOF
  <1> DEFINE left == {r \in c.records : r.id # id}
             spent == Remember(c.spent, {r \in Pending(c) : r.id = id})
             d == [c EXCEPT !.records = left, !.spent = spent]
  <1>1. Released(c, id) = IF c.phase = "Closing" /\ left = {} THEN Finalized(d) ELSE d
    BY DEF Released
  <1>2. Good(d) /\ d.records = left
    <2>1. left \subseteq c.records
      OBVIOUS
    <2> HIDE DEF left, spent
    <2>2. QED
      BY <2>1, FewerGood, Zenon
  <1>3. left = {} => Good(Finalized(d))
    <2> HIDE DEF left
    <2>1. QED
      BY <1>2, FinalizedGood, Zenon DEF Good
  <1>4. QED
    BY <1>1, <1>2, <1>3

\* AcquireLocal and IssueRemoteSigningLease, once they admit.
LEMMA WithRecordGood ==
    ASSUME NEW c, Good(c), c.phase = "Open", c.cfg.safe,
           NEW kind, NEW t, NEW ttl, NEW token
    PROVE  Good(WithRecord(c, NewRecord(c, kind, t, ttl, token)))
PROOF
  <1> DEFINE r == NewRecord(c, kind, t, ttl, token)
  <1>1. IsRecord(r) /\ r.claimed = FALSE
    BY DEF IsRecord, NewRecord
  <1> HIDE DEF r
  <1>2. \A q \in c.records : ~q.claimed
    BY DEF Good
  <1>3. QED
    BY <1>1, <1>2 DEF Good, IsState, WithRecord, r

\* ConsumeRemoteSigningLease: the record changes its kind, not its claim.
LEMMA ConsumedGood ==
    ASSUME NEW c, Good(c), NEW r \in c.records PROVE Good(Consumed(c, r))
PROOF
  <1> DEFINE s == [r EXCEPT !.kind = "RemoteConsumed", !.token = NoToken]
             spent == Remember(c.spent, {r})
  <1>1. IsRecord(s) /\ s.claimed = r.claimed
    BY DEF Good, IsRecord
  <1>2. Consumed(c, r) = [c EXCEPT !.records = (c.records \ {r}) \cup {s}, !.spent = spent]
    BY DEF Consumed
  <1> HIDE DEF s, spent
  <1>3. QED
    BY <1>1, <1>2 DEF Good, IsState

\* ClaimForCanonicalCommit.
LEMMA ClaimGood ==
    ASSUME NEW c, Good(c), NEW r \in c.records PROVE Good(ClaimForCanonicalCommit(c, r).co)
PROOF
  <1> DEFINE e == IF c.phase = "Open" THEN NextEpoch(c) ELSE c
             closing == [e EXCEPT !.phase = "Closing", !.deadline = LastDeadline(c.records)]
             s == [r EXCEPT !.claimed = TRUE]
             alone == [closing EXCEPT !.records = {s}]
  <1>1. Good(e) /\ e.records = c.records
    BY NextEpochGood
  <1>2. Good(closing) /\ closing.phase = "Closing" /\ closing.records = c.records
    <2> HIDE DEF e
    <2>1. QED
      BY <1>1 DEF Good, IsState
  <1>3. IsRecord(s)
    BY DEF Good, IsRecord
  <1>4. Good(alone)
    <2> HIDE DEF closing, s
    <2>1. QED
      BY <1>2, <1>3 DEF Good, IsState
  <1>5. ClaimForCanonicalCommit(c, r).co \in {c, alone, closing}
    BY DEF ClaimForCanonicalCommit
  <1>6. QED
    BY <1>2, <1>4, <1>5

-----------------------------------------------------------------------------
(* The node *)

\* The node's coordinator is in a good state.
CoordinatorInv == Good(co)

\* The coordinator starts closed and empty.
LEMMA InitGood == Init => CoordinatorInv
BY DEF Init, CoordinatorInv, Good, IsState

\* What a miner does to the coordinator.
LEMMA MinerKeeps ==
    ASSUME Good(co), MinerStep PROVE Good(co')
PROOF
  <1>0. Good(Pruned(co))
    BY PrunedGood
  <1>1. PICK m \in Miners :
            \/ SampleEpoch(m) \/ ReadPrerequisites(m) \/ BindCloseEpochSnapshot(m)
            \/ OpenForBlock(m) \/ AcquireForBlock(m)
            \/ ClaimTicket(m) \/ ConnectOwnBlock(m) \/ DropTicket(m)
    BY DEF MinerStep
  <1>2. CASE SampleEpoch(m) \/ ReadPrerequisites(m) \/ BindCloseEpochSnapshot(m) \/ ConnectOwnBlock(m)
    BY <1>2 DEF SampleEpoch, ReadPrerequisites, BindCloseEpochSnapshot, ConnectOwnBlock
  <1>3. CASE OpenForBlock(m)
    BY <1>3, OpenGood DEF OpenForBlock
  <1>4. CASE AcquireForBlock(m)
    BY <1>0, <1>4, WithRecordGood DEF AcquireForBlock, CanAcquire
  <1>5. CASE ClaimTicket(m)
    <2> DEFINE p == Pruned(co)
               r == RecordOf(p, miner[m].id)
    <2>1. \/ co' = p
          \/ co' = ClaimForCanonicalCommit(p, r).co /\ CurrentTicket(p, miner[m].id)
      BY <1>5 DEF ClaimTicket
    <2>2. CurrentTicket(p, miner[m].id) => r \in p.records
      BY DEF CurrentTicket, Live
    <2> HIDE DEF p, r
    <2>3. Good(p)
      BY <1>0 DEF p
    <2>4. QED
      BY <2>1, <2>2, <2>3, ClaimGood
  <1>6. CASE DropTicket(m)
    BY <1>0, <1>6, ReleasedGood DEF DropTicket
  <1>7. QED
    BY <1>1, <1>2, <1>3, <1>4, <1>5, <1>6

\* What signers do to it.
LEMMA SignerKeeps ==
    ASSUME Good(co), SignerStep PROVE Good(co')
PROOF
  <1>0. Good(Pruned(co)) /\ Good(Open(co, Fresh))
    BY PrunedGood, OpenGood
  <1>1. ASSUME NEW t \in Tokens, IssueRemoteWorkGrant(t) PROVE Good(co')
    BY <1>0, <1>1, WithRecordGood DEF IssueRemoteWorkGrant, CanIssue
  <1>2. ASSUME NEW t \in Tokens, BeginRemoteSigning(t) PROVE Good(co')
    <2>1. PICK r \in Pending(Pruned(co)) :
              \/ co' = Consumed(Pruned(co), r)
              \/ co' = Released(Consumed(Pruned(co), r), r.id)
      BY <1>2 DEF BeginRemoteSigning
    <2>2. Good(Consumed(Pruned(co), r))
      BY <1>0, ConsumedGood DEF Pending
    <2>3. QED
      BY <2>1, <2>2, ReleasedGood
  <1>3. CASE AcquireLocalPermit
    BY <1>0, <1>3, WithRecordGood DEF AcquireLocalPermit, CanAcquire
  <1>4. CASE CancelSigning \/ \E a \in active : SubmitSigned(a)
    BY <1>0, <1>4, ReleasedGood DEF CancelSigning, SubmitSigned
  <1>5. QED
    BY <1>1, <1>2, <1>3, <1>4 DEF SignerStep

\* What those who change the facts do to it.
LEMMA ChangersKeep ==
    ASSUME Good(co),
           \/ AddForeignBlock \/ WriterStep
           \/ \E kind \in {"latch", "peer"} : WriterClose(kind)
    PROVE  Good(co')
BY PrunedGood, BeginCloseGood, CancelAndCloseGood
   DEF AddForeignBlock, WriterStep, WriterClose, WriterWait, WriterLock, WriterSet,
       BumpValidationGeneration, PeerViewPublished

\* CoordinatorInv is inductive.
THEOREM CoordinatorInvariant == Spec => []CoordinatorInv
PROOF
  <1>1. CoordinatorInv /\ [Next]_vars => CoordinatorInv'
    <2>1. SUFFICES ASSUME CoordinatorInv, [Next]_vars PROVE CoordinatorInv'
      OBVIOUS
    <2>2. CASE UNCHANGED vars
      BY <2>1, <2>2 DEF vars, CoordinatorInv
    <2>3. CASE Tick
      BY <2>1, <2>3 DEF Tick, CoordinatorInv
    <2>4. QED
      BY <2>1, <2>2, <2>3, MinerKeeps, SignerKeeps, ChangersKeep DEF Next, CoordinatorInv
  <1>2. QED
    BY <1>1, InitGood, PTL DEF Spec

\* From its claim until it ends, the lease of a committing block is the only
\* one, whoever asks for leases, closes, cancels or lets time pass meanwhile.
THEOREM CommitStaysExclusive == Spec => []CommitIsExclusive
PROOF
  <1>1. CoordinatorInv => CommitIsExclusive
    BY DEF CoordinatorInv, Good, CommitIsExclusive
  <1>2. QED
    BY <1>1, CoordinatorInvariant, PTL

\* A closed coordinator holds no lease.
THEOREM ClosedStaysEmpty == Spec => []ClosedIsEmpty
PROOF
  <1>1. CoordinatorInv => ClosedIsEmpty
    BY DEF CoordinatorInv, Good, ClosedIsEmpty
  <1>2. QED
    BY <1>1, CoordinatorInvariant, PTL

-----------------------------------------------------------------------------
(* Leases and tokens *)

\* What the configured times and limits are.
Limits ==
    /\ NoToken \notin Tokens
    /\ LocalTtl \in Nat /\ RemoteTtl \in Nat /\ SigningMargin \in Nat /\ HardStop \in Nat
    /\ MaxTime \in Nat /\ MaxTip \in Nat /\ MaxChanges \in Nat /\ MAX_SPENT \in Nat

Lease == [id : Nat, kind : {"Local", "RemotePending", "RemoteConsumed"}, binding : Binding,
          deadline : Int, gen : Nat, claimed : BOOLEAN, token : Tokens \cup {NoToken}]
Used == [token : Tokens, forget : Int]

\* A token is in one place: with one pending lease, or remembered as spent; and
\* the spent list has room for every pending one.
Kept(c) ==
    /\ c.records \subseteq Lease /\ IsFiniteSet(c.records)
    /\ c.spent \subseteq Used /\ IsFiniteSet(c.spent)
    /\ c.gen \in Nat /\ c.epoch \in Nat \ {0} /\ c.next_id \in Nat
    /\ \A r \in c.records :
           /\ r.id < c.next_id
           /\ r.kind = "RemotePending" <=> r.token # NoToken
           /\ r.kind = "RemotePending" => r.deadline <= now + RemoteTtl
    /\ \A r, q \in c.records : r.id = q.id => r = q
    /\ \A r, q \in c.records : r.token = q.token /\ r.token # NoToken => r = q
    /\ \A r \in c.records, s \in c.spent : r.token # s.token
    /\ Cardinality(c.spent) + Cardinality(Pending(c)) <= MAX_SPENT

\* d is c after some leases went, their tokens being remembered.
Shrinks(c, d) ==
    /\ d.records \subseteq c.records /\ d.next_id = c.next_id
    /\ c.gen \in Nat => d.gen \in Nat
    /\ c.epoch \in Nat \ {0} => d.epoch \in Nat \ {0}
    /\ {s \in c.spent : s.forget > now} \subseteq d.spent
    /\ d.spent \subseteq Remember(c.spent, c.records \ d.records)

\* The spent list grows by one entry per token at most.
LEMMA RememberSize ==
    ASSUME NEW spent, IsFiniteSet(spent), NEW records, IsFiniteSet(records),
           NEW P, P = {r \in records : r.token # NoToken}
    PROVE  /\ IsFiniteSet(Remember(spent, records))
           /\ Cardinality(Remember(spent, records)) <= Cardinality(spent) + Cardinality(P)
PROOF
  <1> DEFINE f == [r \in P |-> [token |-> r.token, forget |-> now + RemoteTtl]]
             T == {[token |-> r.token, forget |-> now + RemoteTtl] : r \in P}
  <1>1. IsFiniteSet(P)
    <2>1. P \subseteq records
      OBVIOUS
    <2>2. QED
      BY <2>1, FS_Subset
  <1>2. f \in Surjection(P, T)
    BY DEF Surjection
  <1>3. IsFiniteSet(T) /\ Cardinality(T) <= Cardinality(P)
    <2> HIDE DEF f, T
    <2>1. QED
      BY <1>1, <1>2, FS_Surjection
  <1>4. Remember(spent, records) = spent \cup T
    BY DEF Remember
  <1> HIDE DEF T
  <1>5. /\ IsFiniteSet(spent \cup T) /\ IsFiniteSet(spent \cap T)
        /\ Cardinality(spent \cup T)
             = Cardinality(spent) + Cardinality(T) - Cardinality(spent \cap T)
    BY <1>3, FS_Union, FS_Intersection, Zenon
  <1>6. /\ Cardinality(spent) \in Nat /\ Cardinality(T) \in Nat /\ Cardinality(P) \in Nat
        /\ Cardinality(spent \cap T) \in Nat
    BY <1>1, <1>3, <1>5, FS_CardinalityType
  <1>7. QED
    BY <1>3, <1>4, <1>5, <1>6

\* Leases that go leave the tokens in one place each.
LEMMA ShrinksKept ==
    ASSUME Limits, now \in Int, NEW c, Kept(c), NEW d, Shrinks(c, d)
    PROVE  Kept(d)
PROOF
  <1> DEFINE gone == c.records \ d.records
             P == {r \in gone : r.token # NoToken}
             all == Remember(c.spent, gone)
  <1>1. /\ IsFiniteSet(gone) /\ IsFiniteSet(d.records) /\ IsFiniteSet(Pending(c))
        /\ IsFiniteSet(Pending(d)) /\ IsFiniteSet(P)
    <2>1. /\ gone \subseteq c.records /\ d.records \subseteq c.records /\ P \subseteq c.records
          /\ Pending(c) \subseteq c.records /\ Pending(d) \subseteq c.records
      BY DEF Shrinks, Pending
    <2>2. QED
      BY <2>1, FS_Subset DEF Kept
  <1>2. IsFiniteSet(all) /\ Cardinality(all) <= Cardinality(c.spent) + Cardinality(P)
    <2> HIDE DEF gone
    <2>1. QED
      BY <1>1, RememberSize DEF Kept
  <1>3. d.spent \subseteq all
    BY DEF Shrinks
  <1>4. IsFiniteSet(d.spent) /\ Cardinality(d.spent) <= Cardinality(all)
    <2> HIDE DEF all
    <2>1. QED
      BY <1>2, <1>3, FS_Subset
  <1>5. Pending(c) = Pending(d) \cup P /\ Pending(d) \cap P = {}
    BY DEF Pending, Shrinks, Kept
  <1>6. Cardinality(Pending(c)) = Cardinality(Pending(d)) + Cardinality(P)
    <2> HIDE DEF P
    <2>1. Cardinality(Pending(c)) = Cardinality(Pending(d)) + Cardinality(P) - Cardinality({})
      BY <1>1, <1>5, FS_Union
    <2>2. Cardinality({}) = 0 /\ Cardinality(Pending(d)) \in Nat /\ Cardinality(P) \in Nat
      BY <1>1, FS_EmptySet, FS_CardinalityType
    <2>3. QED
      BY <2>1, <2>2
  <1>7. Cardinality(d.spent) + Cardinality(Pending(d)) <= MAX_SPENT
    <2>1. /\ Cardinality(d.spent) \in Nat /\ Cardinality(Pending(d)) \in Nat
          /\ Cardinality(P) \in Nat /\ Cardinality(all) \in Nat /\ Cardinality(c.spent) \in Nat
          /\ Cardinality(Pending(c)) \in Nat
      BY <1>1, <1>2, <1>4, FS_CardinalityType DEF Kept
    <2>2. Cardinality(c.spent) + Cardinality(Pending(c)) <= MAX_SPENT /\ MAX_SPENT \in Nat
      BY DEF Kept, Limits
    <2> HIDE DEF all, P
    <2>3. QED
      BY <1>2, <1>4, <1>6, <2>1, <2>2
  <1>8. d.spent \subseteq Used
    <2>1. \A r \in gone : r.token \in Tokens \cup {NoToken}
      BY DEF Kept, Lease
    <2>2. now + RemoteTtl \in Int
      BY DEF Limits
    <2>3. QED
      BY <1>3, <2>1, <2>2 DEF Remember, Used, Kept
  <1>9. \A r \in d.records, s \in d.spent : r.token # s.token
    <2>1. SUFFICES ASSUME NEW r \in d.records, NEW s \in d.spent, r.token = s.token PROVE FALSE
      OBVIOUS
    <2>2. r \in c.records
      BY DEF Shrinks
    <2>3. s \notin c.spent
      BY <2>1, <2>2 DEF Kept
    <2>4. PICK q \in gone : q.token # NoToken /\ s.token = q.token
      BY <1>3, <2>3 DEF Remember
    <2>5. QED
      BY <2>1, <2>2, <2>4 DEF Kept
  <1>10. /\ d.records \subseteq c.records /\ d.next_id = c.next_id
         /\ d.gen \in Nat /\ d.epoch \in Nat \ {0}
    BY DEF Shrinks, Kept
  <1>11. QED
    BY <1>1, <1>4, <1>7, <1>8, <1>9, <1>10 DEF Kept

\* Going twice.
LEMMA ShrinksTwice ==
    ASSUME NEW c, NEW d, NEW e, Shrinks(c, d), Shrinks(d, e)
    PROVE  Shrinks(c, e)
PROOF
  <1>1. e.records \subseteq c.records /\ e.next_id = c.next_id
    BY DEF Shrinks
  <1>2. {s \in c.spent : s.forget > now} \subseteq e.spent
    BY DEF Shrinks
  <1>3. e.spent \subseteq Remember(c.spent, c.records \ e.records)
    BY DEF Shrinks, Remember
  <1>4. QED
    BY <1>1, <1>2, <1>3, Zenon DEF Shrinks

\* A change of phase, configuration, generation or epoch keeps every lease.
LEMMA SameShrinks ==
    ASSUME NEW c, NEW d, d.records = c.records, d.spent = c.spent, d.next_id = c.next_id,
           c.gen \in Nat => d.gen \in Nat, c.epoch \in Nat \ {0} => d.epoch \in Nat \ {0}
    PROVE  Shrinks(c, d)
BY DEF Shrinks, Remember

\* FinalizeCloseLocked_ and AdvanceCloseEpochLocked_.
LEMMA EpochShrinks ==
    ASSUME NEW c, IsState(c)
    PROVE  /\ Shrinks(c, Finalized(c)) /\ Shrinks(c, NextEpoch(c))
           /\ IsState(Finalized(c)) /\ IsState(NextEpoch(c))
           /\ Finalized(c).records = c.records /\ NextEpoch(c).records = c.records
PROOF
  <1>1. /\ Finalized(c).records = c.records /\ Finalized(c).spent = c.spent
        /\ Finalized(c).next_id = c.next_id /\ Finalized(c).gen = c.gen
        /\ Finalized(c).epoch = c.epoch
    BY DEF Finalized, IsState
  <1>2. /\ NextEpoch(c).records = c.records /\ NextEpoch(c).spent = c.spent
        /\ NextEpoch(c).next_id = c.next_id /\ NextEpoch(c).gen = c.gen
        /\ NextEpoch(c).epoch = c.epoch + 1
    BY DEF NextEpoch, IsState
  <1>3. IsState(Finalized(c)) /\ IsState(NextEpoch(c))
    BY DEF Finalized, NextEpoch, IsState
  <1>4. QED
    BY <1>1, <1>2, <1>3, SameShrinks

\* Leases dropped with their tokens remembered.
LEMMA DropShrinks ==
    ASSUME NEW c, IsState(c), NEW gone \in SUBSET c.records, NEW old \in SUBSET c.spent,
           {s \in c.spent : s.forget > now} \subseteq old,
           NEW d, d = [c EXCEPT !.records = c.records \ gone, !.spent = Remember(old, gone)]
    PROVE  Shrinks(c, d) /\ IsState(d) /\ d.records = c.records \ gone
PROOF
  <1>1. /\ IsState(d) /\ d.records = c.records \ gone /\ d.spent = Remember(old, gone)
        /\ d.next_id = c.next_id /\ d.gen = c.gen /\ d.epoch = c.epoch
    BY DEF IsState
  <1>2. c.records \ d.records = gone
    BY <1>1
  <1>3. QED
    BY <1>1, <1>2 DEF Shrinks, Remember

\* PruneLocked_.
LEMMA PrunedShrinks ==
    ASSUME NEW c, IsState(c) PROVE Shrinks(c, Pruned(c)) /\ IsState(Pruned(c))
PROOF
  <1> DEFINE late == {r \in c.records : r.deadline <= now}
             old == {s \in c.spent : s.forget > now}
             done == c.phase = "Closing" /\ (late = c.records \/ c.deadline <= now)
             gone == IF done THEN c.records ELSE late
             d == [c EXCEPT !.records = c.records \ gone, !.spent = Remember(old, gone)]
  <1>1. gone \in SUBSET c.records /\ old \in SUBSET c.spent
    OBVIOUS
  <1>2. Pruned(c) = IF done THEN Finalized(d) ELSE d
    BY DEF Pruned
  <1>3. Shrinks(c, d) /\ IsState(d)
    <2> HIDE DEF gone
    <2>1. QED
      BY <1>1, DropShrinks, Zenon
  <1> HIDE DEF d, done
  <1>4. QED
    BY <1>2, <1>3, EpochShrinks, ShrinksTwice

\* Open.
LEMMA OpenShrinks ==
    ASSUME NEW c, IsState(c), NEW cfg PROVE Shrinks(c, Open(c, cfg)) /\ IsState(Open(c, cfg))
PROOF
  <1> DEFINE p == Pruned(c)
             renewed == IF p.cfg # cfg \/ p.phase = "Closed" THEN p.gen + 1 ELSE p.gen
             shut == [p EXCEPT !.cfg = cfg, !.phase = "Closed", !.gen = renewed]
             opened == [p EXCEPT !.cfg = cfg, !.phase = "Open", !.gen = renewed]
  <1>1. Shrinks(c, p) /\ IsState(p)
    BY PrunedShrinks
  <1>2. p.gen \in Nat => renewed \in Nat
    <2> HIDE DEF p
    <2>1. QED
      OBVIOUS
  <1>3. Shrinks(p, shut) /\ IsState(shut) /\ Shrinks(p, opened) /\ IsState(opened)
    <2> HIDE DEF p, renewed
    <2>1. /\ shut.records = p.records /\ shut.spent = p.spent /\ shut.next_id = p.next_id
          /\ shut.gen = renewed /\ shut.epoch = p.epoch /\ IsState(shut)
      BY <1>1 DEF IsState
    <2>2. /\ opened.records = p.records /\ opened.spent = p.spent /\ opened.next_id = p.next_id
          /\ opened.gen = renewed /\ opened.epoch = p.epoch /\ IsState(opened)
      BY <1>1 DEF IsState
    <2> HIDE DEF shut, opened
    <2>3. QED
      BY <1>2, <2>1, <2>2, SameShrinks
  <1>4. Open(c, cfg) \in {c, p, NextEpoch(shut), opened}
    BY DEF Open
  <1> HIDE DEF p, shut, opened
  <1>5. Shrinks(c, c)
    BY SameShrinks
  <1>6. Shrinks(c, NextEpoch(shut)) /\ IsState(NextEpoch(shut)) /\ Shrinks(c, opened)
    BY <1>1, <1>3, EpochShrinks, ShrinksTwice
  <1>7. QED
    BY <1>1, <1>3, <1>4, <1>5, <1>6

\* BeginClose.
LEMMA BeginCloseShrinks ==
    ASSUME NEW c, IsState(c) PROVE Shrinks(c, BeginClose(c)) /\ IsState(BeginClose(c))
PROOF
  <1> DEFINE p == NextEpoch(Pruned(c))
             closing == [p EXCEPT !.phase = "Closing", !.deadline = LastDeadline(p.records)]
  <1>1. Shrinks(c, p) /\ IsState(p)
    BY PrunedShrinks, EpochShrinks, ShrinksTwice
  <1>2. Shrinks(p, closing) /\ IsState(closing)
    <2> HIDE DEF p
    <2>1. /\ closing.records = p.records /\ closing.spent = p.spent /\ closing.next_id = p.next_id
          /\ closing.gen = p.gen /\ closing.epoch = p.epoch /\ IsState(closing)
      BY <1>1 DEF IsState
    <2> HIDE DEF closing
    <2>2. QED
      BY <2>1, SameShrinks
  <1>3. BeginClose(c) \in {Finalized(p), closing}
    BY DEF BeginClose
  <1> HIDE DEF p, closing
  <1>4. QED
    BY <1>1, <1>2, <1>3, EpochShrinks, ShrinksTwice

\* CancelAndClose.
LEMMA CancelAndCloseShrinks ==
    ASSUME NEW c, IsState(c)
    PROVE  /\ Shrinks(c, CancelAndClose(c)) /\ IsState(CancelAndClose(c))
           /\ CancelAndClose(c).records = {}
PROOF
  <1> DEFINE p == NextEpoch(Pruned(c))
             d == [p EXCEPT !.records = {}, !.spent = Remember(p.spent, p.records), !.gen = p.gen + 1]
  <1>1. Shrinks(c, p) /\ IsState(p)
    BY PrunedShrinks, EpochShrinks, ShrinksTwice
  <1>2. CancelAndClose(c) = Finalized(d)
    BY DEF CancelAndClose
  <1> HIDE DEF p
  <1>3. /\ IsState(d) /\ d.records = {} /\ d.spent = Remember(p.spent, p.records)
        /\ d.next_id = p.next_id /\ d.gen = p.gen + 1 /\ d.epoch = p.epoch
    BY <1>1 DEF IsState
  <1> HIDE DEF d
  <1>4. Shrinks(p, d)
    <2>1. p.records \ d.records = p.records
      BY <1>3
    <2>2. QED
      BY <1>3, <2>1 DEF Shrinks, Remember
  <1>5. QED
    BY <1>1, <1>2, <1>3, <1>4, EpochShrinks, ShrinksTwice

\* ReleaseLease_.
LEMMA ReleasedShrinks ==
    ASSUME NEW c, IsState(c), NEW id,
           \A r \in c.records : r.kind = "RemotePending" <=> r.token # NoToken
    PROVE  /\ Shrinks(c, Released(c, id)) /\ IsState(Released(c, id))
           /\ Released(c, id).records = {r \in c.records : r.id # id}
PROOF
  <1> DEFINE gone == {r \in c.records : r.id = id}
             left == {r \in c.records : r.id # id}
             spent == Remember(c.spent, {r \in Pending(c) : r.id = id})
             d == [c EXCEPT !.records = left, !.spent = spent]
  <1>1. Released(c, id) \in {d, Finalized(d)}
    BY DEF Released
  <1>2. left = c.records \ gone
    OBVIOUS
  <1>3. spent = Remember(c.spent, gone)
    <2>1. {x \in {r \in Pending(c) : r.id = id} : x.token # NoToken}
            = {x \in gone : x.token # NoToken}
      BY DEF Pending
    <2>2. QED
      BY <2>1 DEF Remember
  <1>4. gone \in SUBSET c.records
    OBVIOUS
  <1> HIDE DEF gone, left, spent
  <1>5. d = [c EXCEPT !.records = c.records \ gone, !.spent = Remember(c.spent, gone)]
    BY <1>2, <1>3
  <1>6. Shrinks(c, d) /\ IsState(d) /\ d.records = left
    <2>1. {s \in c.spent : s.forget > now} \subseteq c.spent /\ c.spent \in SUBSET c.spent
      OBVIOUS
    <2> HIDE DEF d
    <2>2. QED
      BY <1>2, <1>4, <1>5, <2>1, DropShrinks, Zenon
  <1> HIDE DEF d
  <1>7. QED
    BY <1>1, <1>6, EpochShrinks, ShrinksTwice DEF left

\* AcquireLocal and IssueRemoteSigningLease, once they admit: a token is new.
LEMMA WithRecordKept ==
    ASSUME Limits, now \in Int, NEW c, IsState(c), Kept(c),
           NEW kind \in {"Local", "RemotePending"}, NEW t, NEW ttl \in Nat,
           NEW token \in Tokens \cup {NoToken},
           Evaluated(c, t) \in Binding,
           kind = "RemotePending" <=> token # NoToken,
           kind = "RemotePending" =>
               /\ ttl = RemoteTtl
               /\ Cardinality(c.spent) + Cardinality(Pending(c)) < MAX_SPENT
               /\ token \notin {r.token : r \in c.records} \cup {s.token : s \in c.spent},
           NEW r, r = NewRecord(c, kind, t, ttl, token)
    PROVE  /\ Kept(WithRecord(c, r)) /\ IsState(WithRecord(c, r))
           /\ WithRecord(c, r).records = c.records \cup {r} /\ WithRecord(c, r).spent = c.spent
           /\ WithRecord(c, r).next_id = c.next_id + 1
PROOF
  <1>1. /\ r \in Lease /\ r.id = c.next_id /\ r.kind = kind /\ r.token = token
        /\ r.deadline = now + ttl
    BY DEF NewRecord, Lease, Kept
  <1> DEFINE d == WithRecord(c, r)
  <1>2. /\ IsState(d) /\ d.records = c.records \cup {r} /\ d.spent = c.spent
        /\ d.gen = c.gen /\ d.epoch = c.epoch /\ d.next_id = c.next_id + 1
    BY DEF WithRecord, IsState
  <1> HIDE DEF d
  <1>3. IsFiniteSet(d.records) /\ IsFiniteSet(Pending(c))
    <2>1. Pending(c) \subseteq c.records
      BY DEF Pending
    <2>2. QED
      BY <1>2, <2>1, FS_AddElement, FS_Subset DEF Kept
  <1>4. Cardinality(d.spent) + Cardinality(Pending(d)) <= MAX_SPENT
    <2>1. CASE kind = "Local"
      <3>1. Pending(d) = Pending(c)
        BY <1>1, <1>2, <2>1 DEF Pending
      <3>2. QED
        BY <1>2, <3>1 DEF Kept
    <2>2. CASE kind = "RemotePending"
      <3>1. Pending(d) = Pending(c) \cup {r}
        BY <1>1, <1>2, <2>2 DEF Pending
      <3>a. IsFiniteSet(c.spent)
        BY DEF Kept
      <3>b. /\ IsFiniteSet(Pending(d))
            /\ Cardinality(Pending(d)) = IF r \in Pending(c) THEN Cardinality(Pending(c))
                                         ELSE Cardinality(Pending(c)) + 1
        <4>1. IsFiniteSet(Pending(c))
          BY <1>3
        <4>2. /\ IsFiniteSet(Pending(c) \cup {r})
              /\ Cardinality(Pending(c) \cup {r}) = IF r \in Pending(c) THEN Cardinality(Pending(c))
                                                    ELSE Cardinality(Pending(c)) + 1
          BY ONLY <4>1, FS_AddElement, Zenon
        <4>3. QED
          BY <3>1, <4>2, Zenon
      <3>c. Cardinality(Pending(c)) \in Nat /\ Cardinality(c.spent) \in Nat
        BY <1>3, <3>a, FS_CardinalityType
      <3>2. Cardinality(Pending(d)) <= Cardinality(Pending(c)) + 1 /\ Cardinality(Pending(c)) \in Nat
            /\ Cardinality(Pending(d)) \in Nat /\ Cardinality(c.spent) \in Nat
        BY <3>b, <3>c
      <3>3. QED
        BY <1>2, <2>2, <3>2 DEF Limits
    <2>3. QED
      BY <2>1, <2>2
  <1>5. \A q \in d.records :
           /\ q.id < d.next_id
           /\ q.kind = "RemotePending" <=> q.token # NoToken
           /\ q.kind = "RemotePending" => q.deadline <= now + RemoteTtl
    <2>1. \A q \in c.records : q.id \in Nat
      BY DEF Kept, Lease
    <2>2. QED
      BY <1>1, <1>2, <2>1 DEF Kept, Limits
  <1>6. /\ \A q, x \in d.records : q.token = x.token /\ q.token # NoToken => q = x
        /\ \A q \in d.records, s \in d.spent : q.token # s.token
    <2>1. \A s \in c.spent : s.token \in Tokens
      BY DEF Kept, Used
    <2>2. token # NoToken => /\ \A q \in c.records : q.token # token
                             /\ \A s \in c.spent : s.token # token
      OBVIOUS
    <2>3. QED
      BY <1>1, <1>2, <2>1, <2>2 DEF Kept, Limits
  <1>7. \A q, x \in d.records : q.id = x.id => q = x
    <2>1. \A q \in c.records : q.id \in Nat /\ q.id < c.next_id
      BY DEF Kept, Lease
    <2>2. QED
      BY <1>1, <1>2, <2>1 DEF Kept
  <1>8. QED
    BY <1>1, <1>2, <1>3, <1>4, <1>5, <1>6, <1>7 DEF Kept, d

\* ConsumeRemoteSigningLease: the token goes from the lease to the spent list.
LEMMA ConsumedKept ==
    ASSUME Limits, now \in Int, NEW c, IsState(c), Kept(c), NEW r \in Pending(c),
           NEW q, q = [r EXCEPT !.kind = "RemoteConsumed", !.token = NoToken],
           NEW u, u = [token |-> r.token, forget |-> now + RemoteTtl]
    PROVE  /\ Kept(Consumed(c, r)) /\ IsState(Consumed(c, r))
           /\ Consumed(c, r).records = (c.records \ {r}) \cup {q}
           /\ Consumed(c, r).spent = c.spent \cup {u}
           /\ Consumed(c, r).next_id = c.next_id
PROOF
  <1>0. r \in c.records /\ r.kind = "RemotePending" /\ r \in Lease /\ r.token # NoToken
    BY DEF Pending, Kept
  <1>1. /\ q \in Lease /\ q.id = r.id /\ q.kind = "RemoteConsumed" /\ q.token = NoToken
        /\ q.binding = r.binding /\ q.deadline = r.deadline
    BY <1>0, Zenon DEF Lease
  <1>2. u \in Used
    BY <1>0 DEF Used, Lease, Limits
  <1>3. Remember(c.spent, {r}) = c.spent \cup {u}
    BY <1>0 DEF Remember
  <1> DEFINE d == Consumed(c, r)
  <1>4. /\ IsState(d) /\ d.records = (c.records \ {r}) \cup {q} /\ d.spent = c.spent \cup {u}
        /\ d.gen = c.gen /\ d.epoch = c.epoch /\ d.next_id = c.next_id
    BY <1>3 DEF Consumed, IsState
  <1> HIDE DEF d
  <1>5. Pending(d) = Pending(c) \ {r}
    BY <1>0, <1>1, <1>4, Zenon DEF Pending
  <1>6. IsFiniteSet(d.records) /\ IsFiniteSet(d.spent) /\ IsFiniteSet(Pending(c))
    <2>1. Pending(c) \subseteq c.records
      BY DEF Pending
    <2>2. IsFiniteSet(c.records) /\ IsFiniteSet(c.spent)
      BY DEF Kept
    <2>3. IsFiniteSet(c.records \ {r})
      BY <2>2, FS_RemoveElement, Zenon
    <2>a. \A S : IsFiniteSet(S) => \A x : IsFiniteSet(S \cup {x})
      BY FS_AddElement
    <2>b. IsFiniteSet(c.spent \cup {u})
      BY <2>2, <2>a, Zenon
    <2>c. IsFiniteSet((c.records \ {r}) \cup {q})
      BY <2>3, <2>a, Zenon
    <2>4. IsFiniteSet(d.records) /\ IsFiniteSet(d.spent)
      BY <1>4, <2>b, <2>c
    <2>5. QED
      BY <2>1, <2>2, <2>4, FS_Subset
  <1>7. Cardinality(d.spent) + Cardinality(Pending(d)) <= MAX_SPENT
    <2>1. Cardinality(Pending(d)) = Cardinality(Pending(c)) - 1
      BY <1>5, <1>6, FS_RemoveElement, Zenon
    <2>2. Cardinality(d.spent) <= Cardinality(c.spent) + 1
      <3>1. Cardinality(c.spent) \in Nat
        BY FS_CardinalityType DEF Kept
      <3>2. Cardinality(d.spent) = IF u \in c.spent THEN Cardinality(c.spent)
                                   ELSE Cardinality(c.spent) + 1
        <4>1. IsFiniteSet(c.spent)
          BY DEF Kept
        <4>2. \A x : Cardinality(c.spent \cup {x}) = IF x \in c.spent THEN Cardinality(c.spent)
                                                     ELSE Cardinality(c.spent) + 1
          BY <4>1, FS_AddElement, Zenon
        <4>3. QED
          BY <1>4, <4>2, Zenon
      <3>3. QED
        BY <3>1, <3>2
    <2>3. /\ Cardinality(c.spent) \in Nat /\ Cardinality(d.spent) \in Nat
          /\ Cardinality(Pending(c)) \in Nat
      BY <1>6, FS_CardinalityType DEF Kept
    <2>4. QED
      BY <2>1, <2>2, <2>3 DEF Kept, Limits
  <1>8. /\ \A x, y \in d.records : x.token = y.token /\ x.token # NoToken => x = y
        /\ \A x \in d.records, s \in d.spent : x.token # s.token
    <2>1. \A s \in d.spent : s.token \in Tokens
      BY <1>2, <1>4 DEF Kept, Used
    <2>2. \A x \in c.records \ {r} : x.token # r.token
      BY <1>0 DEF Kept
    <2>3. /\ \A x, y \in c.records : x.token = y.token /\ x.token # NoToken => x = y
          /\ \A x \in c.records, s \in c.spent : x.token # s.token
          /\ NoToken \notin Tokens
      BY DEF Kept, Limits
    <2>4. u.token = r.token
      OBVIOUS
    <2>5. ASSUME NEW x \in d.records, NEW s \in d.spent PROVE x.token # s.token
      <3>1. CASE x = q
        BY <1>1, <2>1, <2>3, <3>1
      <3>2. CASE x \in c.records \ {r}
        BY <1>4, <2>2, <2>3, <2>4, <3>2
      <3>3. QED
        BY <1>4, <3>1, <3>2
    <2>6. QED
      BY <1>1, <1>4, <2>3, <2>5, Zenon
  <1>9. \A x, y \in d.records : x.id = y.id => x = y
    <2>1. \A x, y \in c.records : x.id = y.id => x = y
      BY DEF Kept
    <2>2. \A x \in c.records \ {r} : x.id # q.id
      BY <1>0, <1>1, <2>1
    <2>3. ASSUME NEW x \in d.records, NEW y \in d.records, x.id = y.id PROVE x = y
      <3>1. x \in c.records \ {r} \/ x = q
        BY <1>4
      <3>2. y \in c.records \ {r} \/ y = q
        BY <1>4
      <3>3. QED
        BY <2>1, <2>2, <2>3, <3>1, <3>2, Zenon
    <2>4. QED
      BY <2>3
  <1>10. \A x \in d.records :
           /\ x \in Lease /\ x.id < d.next_id
           /\ x.kind = "RemotePending" <=> x.token # NoToken
           /\ x.kind = "RemotePending" => x.deadline <= now + RemoteTtl
    <2>1. \A x \in c.records :
             /\ x \in Lease /\ x.id < c.next_id
             /\ x.kind = "RemotePending" <=> x.token # NoToken
             /\ x.kind = "RemotePending" => x.deadline <= now + RemoteTtl
      BY DEF Kept
    <2>2. QED
      BY <1>0, <1>1, <1>4, <2>1, Zenon
  <1>11. d.spent \subseteq Used /\ d.gen \in Nat /\ d.epoch \in Nat \ {0} /\ d.next_id \in Nat
    BY <1>2, <1>4 DEF Kept
  <1>12. Kept(d)
    BY <1>6, <1>7, <1>8, <1>9, <1>10, <1>11 DEF Kept
  <1>13. QED
    BY <1>4, <1>12 DEF d

\* ClaimForCanonicalCommit of a miner's lease.
LEMMA ClaimKept ==
    ASSUME NEW c, IsState(c), Kept(c), NEW r \in c.records, r.kind = "Local",
           NEW claim, claim = ClaimForCanonicalCommit(c, r),
           NEW q, q = [r EXCEPT !.claimed = TRUE]
    PROVE  /\ Kept(claim.co) /\ IsState(claim.co)
           /\ claim.co.spent = c.spent /\ claim.co.next_id = c.next_id
           /\ \/ claim.co.records = c.records /\ ~claim.claimed
              \/ claim.co.records = {q} /\ c.records = {r} /\ claim.claimed
PROOF
  <1> DEFINE e == IF c.phase = "Open" THEN NextEpoch(c) ELSE c
             closing == [e EXCEPT !.phase = "Closing", !.deadline = LastDeadline(c.records)]
             alone == [closing EXCEPT !.records = {q}]
  <1>1. /\ IsState(e) /\ e.records = c.records /\ e.spent = c.spent /\ e.next_id = c.next_id
        /\ e.gen = c.gen /\ e.epoch \in {c.epoch, c.epoch + 1}
    BY DEF NextEpoch, IsState
  <1> HIDE DEF e
  <1>2. /\ IsState(closing) /\ closing.records = c.records /\ closing.spent = c.spent
        /\ closing.next_id = c.next_id /\ closing.gen = c.gen
        /\ closing.epoch \in {c.epoch, c.epoch + 1}
    BY <1>1 DEF IsState
  <1> HIDE DEF closing
  <1>3. /\ IsState(alone) /\ alone.records = {q} /\ alone.spent = c.spent
        /\ alone.next_id = c.next_id /\ alone.gen = c.gen /\ alone.epoch \in {c.epoch, c.epoch + 1}
    BY <1>2 DEF IsState
  <1> HIDE DEF alone
  <1>a. r \in Lease
    BY DEF Kept
  <1>4. /\ q \in Lease /\ q.id = r.id /\ q.kind = "Local" /\ q.token = r.token
    BY <1>a, Zenon DEF Lease
  <1>5. \/ claim.co = c /\ ~claim.claimed
        \/ claim.co = closing /\ ~claim.claimed
        \/ claim.co = alone /\ c.records = {r} /\ claim.claimed
    BY Zenon DEF ClaimForCanonicalCommit, alone, closing, e
  <1>6. Kept(closing)
    <2>1. Pending(closing) = Pending(c)
      BY <1>2 DEF Pending
    <2>2. QED
      BY <1>2, <2>1 DEF Kept
  <1>7. c.records = {r} => Kept(alone)
    <2>1. SUFFICES ASSUME c.records = {r} PROVE Kept(alone)
      OBVIOUS
    <2>2. Pending(alone) = {} /\ Pending(c) = {}
      BY <1>3, <1>4, <2>1, Zenon DEF Pending
    <2>3. IsFiniteSet(alone.records)
      BY <1>3, FS_Singleton, Zenon
    <2>4. QED
      BY <1>3, <1>4, <2>1, <2>2, <2>3 DEF Kept
  <1>8. QED
    BY <1>2, <1>3, <1>5, <1>6, <1>7
=============================================================================
