--------------------------- MODULE WorkAdmission ---------------------------
(***************************************************************************)
(* Local work admission: AdmissionCoordinator of                           *)
(* include/node/work_admission_coordinator.h and the code of               *)
(* include/node/node.h that opens, closes and uses it, with the block      *)
(* admission of include/core/blockchain.h that defers to it.               *)
(*                                                                         *)
(* The coordinator hands out leases: to a miner about to commit a block,   *)
(* to a local signer, and through one-use tokens to a remote signer.  The  *)
(* facts a lease was granted under must still hold when its holder acts.   *)
(* Whoever changes them first closes the coordinator and waits.  `lock` is *)
(* the consensus-transition sequencer; the miner prepares without it.      *)
(*                                                                         *)
(* All prerequisites but the validation generation are one flag, `safe`;   *)
(* a subject is the canonical tip it is bound to; times are ticks.         *)
(***************************************************************************)
EXTENDS Integers, FiniteSets, FiniteSetsExt

CONSTANTS
    Tokens, NoToken,             \* what the mint callback can return; none
    LocalTtl, RemoteTtl,         \* max_local_lease, max_remote_lease
    SigningMargin,               \* REMOTE_SIGNING_SAFETY_MARGIN
    HardStop,                    \* ABSOLUTE_MAX_LEASE plus 50 ms
    MAX_ACTIVE, MAX_SPENT,       \* max_active_leases, max_spent_tokens
    Miners,                      \* threads that prepare a block without the lock
    MaxTime, MaxTip, MaxIds, MaxChanges, MaxEpoch

VARIABLES
    now, tip, safe, vgen,        \* clock, chain, prerequisites, validation_generation_
    lock,                        \* who holds the sequencer: "free", "miner", "writer"
    co,                          \* the coordinator's SharedState
    miner, writer,               \* threads that take several steps
    active,                      \* active_remote_signing_leases_
    sink                         \* did the last authorized sink meet its facts?

vars == <<now, tip, safe, vgen, lock, co, miner, writer, active, sink>>

Binding == [tip : 0..MaxTip, vgen : 1..(MaxChanges + 1)]
Here == [tip |-> tip, vgen |-> vgen]

Configuration(s, v, e) == [safe |-> s, vgen |-> v, epoch |-> e]

Idle == [pc |-> "idle", stage |-> "round", prior |-> [tip |-> 0, vgen |-> 1],
         cfg |-> Configuration(FALSE, 0, 0), id |-> 0]

Init ==
    /\ now = 0 /\ tip = 0 /\ safe = TRUE /\ vgen = 1 /\ lock = "free"
    /\ co = [phase |-> "Closed", records |-> {}, spent |-> {}, deadline |-> 0,
             cfg |-> Configuration(FALSE, 0, 0), gen |-> 0, epoch |-> 1, next_id |-> 1]
    /\ miner = [m \in Miners |-> Idle]
    /\ writer = [pc |-> "idle", kind |-> "latch", changes |-> 0, until |-> 0]
    /\ active = {}
    /\ sink = TRUE

-----------------------------------------------------------------------------
(* AdmissionCoordinator.  Every method prunes first; c is its state. *)

\* (variant for mutation) a token is forgotten after the shorter lease time
Remember_Short(spent, records) ==
    spent \cup {[token |-> r.token, forget |-> now + LocalTtl] :
                   r \in {x \in records : x.token # NoToken}}

\* RememberSpentLocked_: the tokens of these records are spent from now on.
Remember(spent, records) ==
    spent \cup {[token |-> r.token, forget |-> now + RemoteTtl] :
                   r \in {x \in records : x.token # NoToken}}

\* FinalizeCloseLocked_.
Finalized(c) == [c EXCEPT !.phase = "Closed", !.deadline = 0]

\* PruneLocked_: forget old tokens, drop expired leases, finish a close.
Pruned(c) ==
    LET late == {r \in c.records : r.deadline <= now}
        kept == {s \in c.spent : s.forget > now}
        done == c.phase = "Closing" /\ (late = c.records \/ c.deadline <= now)
        gone == IF done THEN c.records ELSE late
        d == [c EXCEPT !.records = @ \ gone, !.spent = Remember(kept, gone)]
    IN  IF done THEN Finalized(d) ELSE d

\* AdvanceCloseEpochLocked_; the 64-bit epoch does not run out here.
NextEpoch(c) == [c EXCEPT !.epoch = @ + 1]

\* Open.  Refused for an epoch sampled before a close, while closing, and
\* while leases live under another configuration.
Open(c, cfg) ==
    LET p == Pruned(c)
        renewed == IF p.cfg # cfg \/ p.phase = "Closed" THEN p.gen + 1 ELSE p.gen
    IN  IF cfg.epoch = 0 \/ cfg.epoch # c.epoch THEN c
        ELSE IF p.phase = "Closing" \/ (p.records # {} /\ p.cfg # cfg) THEN p
        ELSE IF ~cfg.safe
             THEN NextEpoch([p EXCEPT !.cfg = cfg, !.phase = "Closed", !.gen = renewed])
        ELSE [p EXCEPT !.cfg = cfg, !.phase = "Open", !.gen = renewed]

\* What the caller of Open is told.
Opened(c, cfg) ==
    LET p == Pruned(c)
    IN  /\ cfg.epoch = c.epoch /\ cfg.safe
        /\ p.phase # "Closing" /\ (p.records = {} \/ p.cfg = cfg)

LastDeadline(records) == Max({now} \cup {r.deadline : r \in records})

\* BeginClose: nothing new is admitted; what was acquired first may finish.
BeginClose(c) ==
    LET p == NextEpoch(Pruned(c))
    IN  IF p.phase = "Closed" \/ p.records = {} THEN Finalized(p)
        ELSE [p EXCEPT !.phase = "Closing", !.deadline = LastDeadline(p.records)]

\* CancelAndClose: every lease and token is void.
CancelAndClose(c) ==
    LET p == NextEpoch(Pruned(c))
    IN  Finalized([p EXCEPT !.records = {}, !.spent = Remember(@, p.records), !.gen = @ + 1])

\* EvaluateLocked_ for a subject bound to tip t.
Evaluated(c, t) == [tip |-> t, vgen |-> c.cfg.vgen]

\* A record both AcquireLocal and IssueRemoteSigningLease make.
NewRecord(c, kind, t, ttl, token) ==
    [id |-> c.next_id, kind |-> kind, binding |-> Evaluated(c, t), deadline |-> now + ttl,
     gen |-> c.gen, claimed |-> FALSE, token |-> token]

WithRecord(c, r) == [c EXCEPT !.records = @ \cup {r}, !.next_id = @ + 1]

\* AcquireLocal admits; the binding the caller holds must be the current one.
CanAcquire(c, prior) ==
    /\ c.phase = "Open" /\ c.cfg.safe
    /\ Cardinality(c.records) < MAX_ACTIVE
    /\ Evaluated(c, prior.tip) = prior

Pending(c) == {r \in c.records : r.kind = "RemotePending"}

\* IssueRemoteSigningLease admits, with the first candidate token that is
\* neither outstanding nor remembered as spent.
CanIssue(c, token) ==
    /\ c.phase = "Open" /\ c.cfg.safe
    /\ Cardinality(c.records) < MAX_ACTIVE
    /\ Cardinality(c.spent) + Cardinality(Pending(c)) < MAX_SPENT
    /\ token \notin {r.token : r \in c.records} \cup {s.token : s \in c.spent}

\* ConsumeRemoteSigningLease of an existing pending record.
CanConsume(c, r) ==
    /\ r \in Pending(c) /\ c.phase # "Closed" /\ c.cfg.safe
    /\ Evaluated(c, r.binding.tip) = r.binding

Consumed(c, r) ==
    [c EXCEPT !.records = (@ \ {r}) \cup {[r EXCEPT !.kind = "RemoteConsumed", !.token = NoToken]},
              !.spent = Remember(@, {r})]

\* LeaseLive_ for a record of the pruned state.
Live(c, r) == r \in c.records /\ c.phase # "Closed" /\ r.gen = c.gen

\* ClaimForCanonicalCommit: closes the coordinator in any case, and succeeds
\* only for the last lease standing.
ClaimForCanonicalCommit(c, r) ==
    LET closing == [(IF c.phase = "Open" THEN NextEpoch(c) ELSE c) EXCEPT
                        !.phase = "Closing", !.deadline = LastDeadline(c.records)]
        alone == c.records = {r}
    IN  IF r.claimed THEN [co |-> c, claimed |-> FALSE]
        ELSE [co |-> IF alone THEN [closing EXCEPT !.records = {[r EXCEPT !.claimed = TRUE]}]
                     ELSE closing,
              claimed |-> alone]

\* ReleaseLease_ and CancelRemoteSigningLease: the record goes.
Released(c, id) ==
    LET left == {r \in c.records : r.id # id}
        d == [c EXCEPT !.records = left,
                       !.spent = Remember(@, {r \in Pending(c) : r.id = id})]
    IN  IF c.phase = "Closing" /\ left = {} THEN Finalized(d) ELSE d

-----------------------------------------------------------------------------
(* A miner: evaluates a round, mines, prepares a ticket, commits. *)

Tick ==
    /\ now < MaxTime
    /\ now' = now + 1
    /\ UNCHANGED <<tip, safe, vgen, lock, co, miner, writer, active, sink>>

Becomes(m, state) == miner' = [miner EXCEPT ![m] = state]

\* WorkCoordinatorConfiguration_ starts, for EvaluateWorkAdmission of a new
\* round or for the prepare callback of a mined block: the close epoch first.
SampleEpoch(m) ==
    LET w == miner[m]
        sampled == [w EXCEPT !.cfg.epoch = co.epoch]
    IN  /\ \/ /\ w.pc = "idle" /\ tip < MaxTip
              /\ Becomes(m, [sampled EXCEPT !.pc = "read", !.stage = "round", !.prior.tip = tip])
           \/ /\ w.pc = "mined"
              /\ Becomes(m, IF w.prior.tip = tip
                            THEN [sampled EXCEPT !.pc = "read", !.stage = "prepare"] ELSE Idle)
        /\ UNCHANGED <<now, tip, safe, vgen, lock, co, writer, active, sink>>

\* The prerequisites are read next.
ReadPrerequisites(m) ==
    /\ miner[m].pc = "read"
    /\ Becomes(m, [miner[m] EXCEPT !.cfg.safe = safe, !.pc = "bind"])
    /\ UNCHANGED <<now, tip, safe, vgen, lock, co, writer, active, sink>>

\* The validation generation comes last; an epoch that moved makes the
\* snapshot unsafe (BindCloseEpochSnapshot).
BindCloseEpochSnapshot(m) ==
    LET w == miner[m]
        good == w.cfg.safe /\ w.cfg.epoch = co.epoch
    IN  /\ w.pc = "bind"
        /\ Becomes(m,
             CASE w.stage = "prepare" ->
                    [w EXCEPT !.pc = "open", !.cfg.safe = good, !.cfg.vgen = vgen]
               [] w.stage = "round" /\ good -> 
                    [Idle EXCEPT !.pc = "mined", !.prior = [tip |-> w.prior.tip, vgen |-> vgen]]
               [] OTHER -> Idle)
        /\ UNCHANGED <<now, tip, safe, vgen, lock, co, writer, active, sink>>

\* OpenWorkCoordinator_ in the prepare callback.
OpenForBlock(m) ==
    LET w == miner[m] IN
    /\ w.pc = "open"
    /\ co' = Open(co, w.cfg)
    /\ Becomes(m, IF Opened(co, w.cfg)
                  THEN [Idle EXCEPT !.pc = "acquire", !.prior = w.prior] ELSE Idle)
    /\ UNCHANGED <<now, tip, safe, vgen, lock, writer, active, sink>>

\* AcquireLocal in the prepare callback: the ticket exists.
AcquireForBlock(m) ==
    LET w == miner[m]
        p == Pruned(co)
    IN  /\ w.pc = "acquire" /\ co.next_id <= MaxIds
        /\ IF CanAcquire(p, w.prior)
           THEN /\ co' = WithRecord(p, NewRecord(p, "Local", w.prior.tip, LocalTtl, NoToken))
                /\ Becomes(m, [w EXCEPT !.pc = "ticket", !.id = p.next_id])
           ELSE co' = p /\ Becomes(m, Idle)
        /\ UNCHANGED <<now, tip, safe, vgen, lock, writer, active, sink>>

Has(c, id) == \E r \in c.records : r.id = id
RecordOf(c, id) == CHOOSE r \in c.records : r.id = id

\* (variant for mutation) the ticket's generation is not compared again
CurrentTicket_NoGeneration(c, id) == Has(c, id) /\ Live(c, RecordOf(c, id))

\* What claim_local_ticket and claim_for_canonical_commit ask before the claim.
CurrentTicket(c, id) ==
    /\ Has(c, id) /\ Live(c, RecordOf(c, id))
    /\ RecordOf(c, id).binding.vgen = vgen

\* An authorized sink is reached under these facts.
Reached(binding) == sink' = (binding = Here /\ safe)

\* AddBlockDirect owns the sequencer and claims the ticket of a block that
\* extends the tip; a refused ticket is dropped with its lease.
ClaimTicket(m) ==
    LET w == miner[m]
        p == Pruned(co)
        usable == w.prior.tip = tip /\ CurrentTicket(p, w.id)
        claim == ClaimForCanonicalCommit(p, RecordOf(p, w.id))
    IN  /\ w.pc = "ticket" /\ lock = "free"
        /\ \/ /\ usable /\ claim.claimed
              /\ co' = claim.co /\ lock' = "miner"
              /\ Becomes(m, [w EXCEPT !.pc = "commit"])
              /\ Reached(w.prior)
           \/ /\ ~(usable /\ claim.claimed)
              /\ co' = IF usable THEN claim.co ELSE p
              /\ Becomes(m, [Idle EXCEPT !.pc = "drop", !.id = w.id])
              /\ UNCHANGED <<lock, sink>>
        /\ UNCHANGED <<now, tip, safe, vgen, writer, active>>

\* The block is connected and the sequencer released; the ticket lives on.
ConnectOwnBlock(m) ==
    /\ miner[m].pc = "commit"
    /\ tip' = tip + 1 /\ lock' = "free"
    /\ Becomes(m, [Idle EXCEPT !.pc = "drop", !.id = miner[m].id])
    /\ UNCHANGED <<now, safe, vgen, co, writer, active, sink>>

\* The caller is done with the block (published or refused): ReleaseLease_.
DropTicket(m) ==
    /\ miner[m].pc = "drop"
    /\ co' = Released(Pruned(co), miner[m].id)
    /\ Becomes(m, Idle)
    /\ UNCHANGED <<now, tip, safe, vgen, lock, writer, active, sink>>

-----------------------------------------------------------------------------
(* Signers.  Each step runs under the sequencer, so it reads facts that    *)
(* nobody is changing.  An entry of `active` is a remote signing lease, or *)
(* with no token the LocalSigningPermit of a local endorsement.            *)

Fresh == Configuration(safe, vgen, co.epoch)
Usable(a) == now < a.until
PrunedActive == {a \in active : now < a.until + SigningMargin}

SigningEntry(r, token) ==
    [token |-> token, id |-> r.id, binding |-> r.binding, until |-> r.deadline - SigningMargin]

\* IssueRemoteWorkGrantUnderTransition_.
IssueRemoteWorkGrant(token) ==
    LET o == Open(co, Fresh) IN
    /\ lock = "free" /\ safe /\ Opened(co, Fresh) /\ co.next_id <= MaxIds
    /\ co' = IF CanIssue(o, token)
             THEN WithRecord(o, NewRecord(o, "RemotePending", tip, RemoteTtl, token)) ELSE o
    /\ UNCHANGED <<now, tip, safe, vgen, lock, miner, writer, active, sink>>

\* ConsumeRemoteWorkLeaseUnderTransition_ and TakeActiveRemoteSigningLease...:
\* facts are evaluated afresh unless the coordinator is closing.
StillGranted(p, binding) == p.phase = "Closing" \/ (safe /\ binding = Here)

\* BeginRemoteSigningUnderTransition_: the token becomes a lease the node
\* holds, unless too little of its time is left.
BeginRemoteSigning(token) ==
    LET p == Pruned(co) IN
    \E r \in Pending(p) :
        /\ lock = "free" /\ r.token = token
        /\ StillGranted(p, r.binding) /\ (p.phase = "Closing" \/ Opened(co, Fresh))
        /\ CanConsume(p, r)
        /\ IF r.deadline > now + SigningMargin
           THEN /\ co' = Consumed(p, r)
                /\ active' = PrunedActive \cup {SigningEntry(r, token)}
           ELSE co' = Released(Consumed(p, r), r.id) /\ UNCHANGED active
        /\ UNCHANGED <<now, tip, safe, vgen, lock, miner, writer, sink>>

\* AcquireLocalValidatorEndorsementPermit.
AcquireLocalPermit ==
    LET o == Open(co, Fresh)
        r == NewRecord(o, "Local", tip, LocalTtl, NoToken)
    IN  /\ lock = "free" /\ safe /\ Opened(co, Fresh) /\ co.next_id <= MaxIds
        /\ LocalTtl > SigningMargin /\ CanAcquire(o, Here)
        /\ co' = WithRecord(o, r)
        /\ active' = active \cup {SigningEntry(r, NoToken)}
        /\ UNCHANGED <<now, tip, safe, vgen, lock, miner, writer, sink>>

\* SubmitAuthorizedValidatorEndorsement_, SubmitLocalValidatorEndorsement and
\* the finality vote sink: the entry is taken, then claimed and used once.
SubmitSigned(a) ==
    LET p == Pruned(co)
        held == Has(p, a.id) /\ Live(p, RecordOf(p, a.id)) /\ ~RecordOf(p, a.id).claimed
    IN  /\ lock = "free" /\ a \in PrunedActive /\ Usable(a) /\ a.binding.tip = tip
        /\ active' = PrunedActive \ {a}
        /\ co' = Released(p, a.id)
        /\ IF held /\ StillGranted(p, a.binding) THEN Reached(a.binding) ELSE UNCHANGED sink
        /\ UNCHANGED <<now, tip, safe, vgen, lock, miner, writer>>

\* CancelRemoteSigningUnderTransition_, or a local permit goes out of scope.
CancelSigning ==
    LET p == Pruned(co)
        ids == {r.id : r \in Pending(p)} \cup {a.id : a \in PrunedActive}
    IN  /\ lock = "free"
        /\ \E id \in ids :
               /\ co' = Released(p, id)
               /\ active' = {a \in PrunedActive : a.id # id}
        /\ UNCHANGED <<now, tip, safe, vgen, lock, miner, writer, sink>>

-----------------------------------------------------------------------------
(* Those who change the facts. *)

\* (variant for mutation) a foreign block does not wait for leases
AddForeignBlock_Now ==
    /\ lock = "free" /\ tip < MaxTip /\ co.epoch < MaxEpoch
    /\ co' = BeginClose(co)
    /\ tip' = tip + 1
    /\ UNCHANGED <<now, safe, vgen, lock, miner, writer, active, sink>>

\* AddBlockDirect of a peer's block: canonical_work_transition_fn_ closes, and
\* the block is deferred while a lease lives.  Closing and the change of the tip
\* are one step: both are under the chain's mutex, where a miner's block meets its
\* parent check again.
AddForeignBlock ==
    LET d == BeginClose(co) IN
    /\ lock = "free" /\ tip < MaxTip /\ co.epoch < MaxEpoch
    /\ co' = d
    /\ tip' = IF d.phase = "Closed" THEN tip + 1 ELSE tip
    /\ UNCHANGED <<now, safe, vgen, lock, miner, writer, active, sink>>

\* CloseWorkAdmissionBounded_ starts, for a latch or for a peer-view writer.
WriterClose(kind) ==
    LET d == BeginClose(co) IN
    /\ writer.pc = "idle" /\ writer.changes < MaxChanges
    /\ co' = d
    /\ writer' = [pc |-> IF d.phase = "Closed" THEN "lock" ELSE "wait", kind |-> kind,
                  changes |-> writer.changes + 1, until |-> now + HardStop]
    /\ UNCHANGED <<now, tip, safe, vgen, lock, miner, active, sink>>

\* (variant for mutation) the loop has no end of its own
WriterWait_NoHardStop ==
    LET p == Pruned(co) IN
    /\ writer.pc = "wait"
    /\ p.phase = "Closed" /\ co' = p
    /\ writer' = [writer EXCEPT !.pc = "lock", !.until = 0]
    /\ UNCHANGED <<now, tip, safe, vgen, lock, miner, active, sink>>

\* Its loop sees the coordinator closed, or gives up and cancels.
WriterWait ==
    LET p == Pruned(co) IN
    /\ writer.pc = "wait"
    /\ \/ p.phase = "Closed" /\ now < writer.until /\ co' = p
       \/ now >= writer.until /\ co' = CancelAndClose(co)
    /\ writer' = [writer EXCEPT !.pc = "lock", !.until = 0]
    /\ UNCHANGED <<now, tip, safe, vgen, lock, miner, active, sink>>

\* The sequencer is taken; a latch cancels what was acquired in the gap.
WriterLock ==
    /\ writer.pc = "lock" /\ lock = "free"
    /\ lock' = "writer"
    /\ co' = IF writer.kind = "latch" THEN CancelAndClose(co) ELSE co
    /\ writer' = [writer EXCEPT !.pc = "set", !.until = 0]
    /\ UNCHANGED <<now, tip, safe, vgen, miner, active, sink>>

\* The latch flips, or the peers' heights change.
WriterSet ==
    /\ writer.pc = "set"
    /\ safe' \in IF writer.kind = "latch" THEN {~safe} ELSE BOOLEAN
    /\ writer' = [writer EXCEPT !.pc = "bump"]
    /\ UNCHANGED <<now, tip, vgen, lock, co, miner, active, sink>>

\* BumpValidationGeneration_; a latch is then done.
BumpValidationGeneration ==
    /\ writer.pc = "bump"
    /\ vgen' = vgen + 1
    /\ IF writer.kind = "latch"
       THEN lock' = "free" /\ writer' = [writer EXCEPT !.pc = "idle"]
       ELSE UNCHANGED lock /\ writer' = [writer EXCEPT !.pc = "cancel"]
    /\ UNCHANGED <<now, tip, safe, co, miner, active, sink>>

\* ~PeerWorkViewTransitionPermit ends: cancel, then release the sequencer.
PeerViewPublished ==
    /\ writer.pc = "cancel"
    /\ co' = CancelAndClose(co) /\ lock' = "free"
    /\ writer' = [writer EXCEPT !.pc = "idle"]
    /\ UNCHANGED <<now, tip, safe, vgen, miner, active, sink>>

-----------------------------------------------------------------------------
MinerStep ==
    \E m \in Miners :
        \/ SampleEpoch(m) \/ ReadPrerequisites(m) \/ BindCloseEpochSnapshot(m)
        \/ OpenForBlock(m) \/ AcquireForBlock(m)
        \/ ClaimTicket(m) \/ ConnectOwnBlock(m) \/ DropTicket(m)

WriterStep ==
    WriterWait \/ WriterLock \/ WriterSet \/ BumpValidationGeneration \/ PeerViewPublished

SignerStep ==
    \/ \E t \in Tokens : IssueRemoteWorkGrant(t) \/ BeginRemoteSigning(t)
    \/ AcquireLocalPermit \/ CancelSigning
    \/ \E a \in active : SubmitSigned(a)

Next ==
    \/ Tick \/ MinerStep \/ SignerStep \/ AddForeignBlock
    \/ \E kind \in {"latch", "peer"} : WriterClose(kind)
    \/ WriterStep

Spec == Init /\ [][Next]_vars

\* Time passes, the writer runs, and a miner that holds the sequencer lets go.
FairSpec ==
    Spec /\ WF_vars(Tick) /\ WF_vars(WriterStep)
         /\ \A m \in Miners : WF_vars(ConnectOwnBlock(m))

-----------------------------------------------------------------------------
\* Clock, coordinator records, tokens and bindings stay in their ranges, and only
\* a pending remote lease carries a token.
TypeOK ==
    /\ now \in 0..MaxTime /\ tip \in 0..MaxTip /\ safe \in BOOLEAN
    /\ vgen \in 1..(MaxChanges + 1) /\ lock \in {"free", "miner", "writer"}
    /\ co.phase \in {"Closed", "Open", "Closing"}
    /\ \A r \in co.records :
           /\ r.kind \in {"Local", "RemotePending", "RemoteConsumed"}
           /\ r.binding \in Binding /\ r.token \in Tokens \cup {NoToken}
           /\ (r.kind = "RemotePending") <=> (r.token # NoToken)
    /\ \A s \in co.spent : s.token \in Tokens
    /\ \A a \in active : a.binding \in Binding

\* A closed coordinator holds no lease at all: LeaseLive_ and the writers that
\* saw it closed rely on that.
ClosedIsEmpty == co.phase = "Closed" => co.records = {}

\* Whatever reaches an authorized sink (a committed block, a published vote or
\* endorsement) met exactly the facts its lease was granted under, although the
\* miner read them without the sequencer and in pieces.
SinkMetItsFacts == sink

\* While a signer may still sign under a lease the coordinator has not revoked,
\* the tip it signs for is the tip, and no writer has published other facts.
SigningStandsOnFacts ==
    \A a \in active :
        (Usable(a) /\ Has(co, a.id)) =>
            /\ a.binding.tip = tip
            /\ lock = "free" => a.binding = Here /\ safe

\* RememberSpentLocked_ never meets a full table, so no used token is forgotten.
SpentNeverFull == Cardinality(co.spent) + Cardinality(Pending(co)) <= MAX_SPENT

\* The token of a signer at work stays on the spent list until its lease ends:
\* nobody is handed that token again meanwhile.
ActiveTokenStaysSpent ==
    \A a \in active :
        (a.token # NoToken /\ Usable(a)) =>
            /\ \E s \in co.spent : s.token = a.token /\ s.forget >= a.until + SigningMargin
            /\ a.token \notin {r.token : r \in co.records}

\* From its claim until it ends, the lease of a committing block is the only one.
CommitIsExclusive == \A r \in co.records : r.claimed => co.records = {r}

\* The coordinator: closed it holds no lease, the lease of a committing block is
\* the only one, the list of spent tokens never overflows, and the token of a
\* signer at work stays on it until its lease ends.
CoordinatorSound ==
    TypeOK /\ ClosedIsEmpty /\ CommitIsExclusive /\ SpentNeverFull /\ ActiveTokenStaysSpent

\* Whoever closes for a change of facts gets through: a lease cannot hold up a
\* safety transition for ever.
WriterGetsThrough == (writer.pc = "wait" /\ writer.until <= MaxTime) ~> (writer.pc = "idle")
=============================================================================
