-------------------------- MODULE WorkSigningProofs --------------------------
(***************************************************************************)
(* NodeInv: what the leases of signers and the tickets of miners stand on  *)
(* while tips, facts and configurations change around them; it holds       *)
(* initially, and the clock and the signers preserve it.                   *)
(***************************************************************************)
EXTENDS WorkAdmissionProofs

-----------------------------------------------------------------------------
(* The facts a lease stands on *)

MinerState ==
    [pc : {"idle", "read", "bind", "mined", "open", "acquire", "ticket", "commit", "drop"},
     stage : {"round", "prepare"}, prior : Binding,
     cfg : [safe : BOOLEAN, vgen : Nat, epoch : Nat], id : Nat]
WriterState == [pc : {"idle", "wait", "lock", "set", "bump", "cancel"},
                kind : {"latch", "peer"}, changes : 0..MaxChanges, until : Int]
Entry == [token : Tokens \cup {NoToken}, id : Nat, binding : Binding, until : Int]

Typed ==
    /\ now \in 0..MaxTime /\ tip \in 0..MaxTip /\ safe \in BOOLEAN
    /\ vgen \in 1..(MaxChanges + 1) /\ lock \in {"free", "miner", "writer"}
    /\ miner \in [Miners -> MinerState] /\ writer \in WriterState /\ active \subseteq Entry

\* Whoever changes facts holds the sequencer, and a generation is a change.
Sequenced ==
    /\ vgen <= writer.changes + 1
    /\ writer.pc \in {"wait", "lock", "set", "bump"} => vgen <= writer.changes
    /\ writer.pc \in {"set", "bump", "cancel"} => lock = "writer"
    /\ \A m \in Miners : miner[m].pc = "commit" => lock = "miner" /\ miner[m].prior.tip = tip
    /\ \A m, n \in Miners : miner[m].pc = "commit" /\ miner[n].pc = "commit" => m = n
    /\ \A m \in Miners : miner[m].pc \notin {"idle", "drop"} => miner[m].prior.tip < MaxTip
    /\ \A m \in Miners : miner[m].prior.vgen <= vgen

\* The leases of signers; the others are miners' tickets.
Granted == {r \in co.records : r.kind # "Local" \/ \E a \in active : a.id = r.id}

\* They stand on the current facts, and none is left where a miner commits or a
\* latch is flipped.
Granting ==
    /\ lock = "miner" => Granted = {}
    /\ writer.pc \in {"set", "bump"} /\ writer.kind = "latch" => Granted = {}
    /\ \A r \in Granted : r.binding.tip = tip
    /\ lock = "free" => \A r \in Granted : r.binding = Here /\ safe
    /\ \A a \in active : a.id < co.next_id
    /\ \A a \in active, r \in co.records : a.id = r.id => a.binding = r.binding

\* A ticket is a lease of its miner alone, for the block it was prepared for.
Ticketed ==
    \A m \in Miners : miner[m].pc = "ticket" =>
        /\ miner[m].id < co.next_id
        /\ \A r \in co.records : r.id = miner[m].id => r.kind = "Local" /\ r.binding = miner[m].prior
        /\ \A a \in active : a.id # miner[m].id

\* The miner has seen the prerequisites hold after it read its generation.
Verified(w) ==
    \/ w.pc \in {"acquire", "ticket"}
    \/ w.pc \in {"bind", "open"} /\ w.cfg.safe

\* They still hold then, as long as the generation is that one and no writer is
\* between its change and the new generation.
Prepared ==
    \A m \in Miners :
        (Verified(miner[m]) /\ miner[m].prior.vgen = vgen /\ writer.pc # "bump") => safe

\* The token of a signer at work is remembered long enough.
Remembered ==
    \A a \in active : (a.token # NoToken /\ Usable(a)) =>
        \E s \in co.spent : s.token = a.token /\ s.forget >= a.until + SigningMargin

NodeInv ==
    /\ Good(co) /\ Kept(co) /\ Typed /\ Sequenced
    /\ Granting /\ Ticketed /\ Prepared /\ Remembered /\ sink

\* Nobody has asked for anything yet.
LEMMA InitNode ==
    ASSUME Limits, Init PROVE NodeInv
PROOF
  <1>1. Good(co)
    BY InitGood DEF CoordinatorInv
  <1>2. /\ co.records = {} /\ co.spent = {} /\ co.gen = 0 /\ co.epoch = 1 /\ co.next_id = 1
    BY DEF Init
  <1>3. Kept(co)
    <2>1. Pending(co) = {}
      BY <1>2 DEF Pending
    <2>2. IsFiniteSet({}) /\ Cardinality({}) = 0
      BY FS_EmptySet
    <2>3. QED
      BY <1>2, <2>1, <2>2 DEF Kept, Limits
  <1>4. Idle \in MinerState /\ Idle.pc = "idle" /\ Idle.prior.vgen = 1
    BY DEF Idle, MinerState, Binding, Configuration, Limits
  <1>5. \A m \in Miners : miner[m] = Idle
    BY DEF Init
  <1>6. Typed
    <2>1. miner \in [Miners -> MinerState]
      BY <1>4 DEF Init
    <2>2. writer \in WriterState
      BY DEF Init, WriterState, Limits
    <2>3. safe \in BOOLEAN
      BY DEF Init
    <2>4. QED
      BY <2>1, <2>2, <2>3 DEF Init, Typed, Limits
  <1>7. Sequenced
    <2>1. writer.pc = "idle" /\ writer.changes = 0 /\ vgen = 1
      BY DEF Init
    <2>2. QED
      BY <1>4, <1>5, <2>1 DEF Sequenced
  <1>8. Granting /\ Ticketed /\ Remembered
    BY <1>2, <1>4, <1>5 DEF Init, Granting, Granted, Ticketed, Remembered
  <1>9. Prepared /\ sink
    BY DEF Init, Prepared
  <1>10. QED
    BY <1>1, <1>3, <1>6, <1>7, <1>8, <1>9 DEF NodeInv

\* A token that is still of use is still remembered once old ones are forgotten.
LEMMA StillRemembered ==
    ASSUME Limits, NodeInv, {s \in co.spent : s.forget > now} \subseteq co'.spent,
           NEW a \in active, a.token # NoToken, Usable(a)
    PROVE  \E s \in co'.spent : s.token = a.token /\ s.forget >= a.until + SigningMargin
PROOF
  <1>1. PICK s \in co.spent : s.token = a.token /\ s.forget >= a.until + SigningMargin
    BY DEF NodeInv, Remembered
  <1>2. s.forget \in Int /\ a.until \in Int /\ now \in Int
    BY DEF NodeInv, Kept, Used, Typed, Entry
  <1>3. s.forget > now
    BY <1>1, <1>2 DEF Usable, Limits
  <1>4. QED
    BY <1>1, <1>3

\* What going leases leave alone.
LEMMA GoingKeeps ==
    ASSUME Limits, NodeInv, Shrinks(co, co'), active' \subseteq active, now' = now
    PROVE  /\ Kept(co)' /\ Granted' \subseteq Granted /\ Remembered'
           /\ co'.records \subseteq co.records /\ co'.next_id = co.next_id
           /\ \A a \in active' : a.id < co'.next_id
           /\ \A a \in active', r \in co'.records : a.id = r.id => a.binding = r.binding
PROOF
  <1>1. Kept(co)'
    <2>1. Kept(co')
      BY ShrinksKept DEF NodeInv, Typed
    <2>2. QED
      BY <2>1 DEF Kept, Pending
  <1>2. co'.records \subseteq co.records /\ co'.next_id = co.next_id
    BY DEF Shrinks
  <1>3. Granted' \subseteq Granted
    BY <1>2 DEF Granted
  <1>4. Remembered'
    <2>1. {s \in co.spent : s.forget > now} \subseteq co'.spent
      BY DEF Shrinks
    <2>2. QED
      BY <2>1, StillRemembered DEF Remembered, Usable
  <1>5. QED
    BY <1>1, <1>2, <1>3, <1>4 DEF NodeInv, Granting

\* Time passes.
LEMMA TickKeeps ==
    ASSUME Limits, NodeInv, Tick PROVE NodeInv'
PROOF
  <1>1. UNCHANGED <<tip, safe, vgen, lock, co, miner, writer, active, sink>> /\ now' = now + 1
        /\ now \in 0..MaxTime /\ now' \in 0..MaxTime
    BY DEF Tick, NodeInv, Typed, Limits
  <1>2. Kept(co)'
    <2>1. \A r \in co.records : r.deadline \in Int
      BY DEF NodeInv, Kept, Lease
    <2>2. \A r \in co.records : r.deadline <= now + RemoteTtl => r.deadline <= now' + RemoteTtl
      BY <1>1, <2>1 DEF Limits
    <2>3. QED
      BY <1>1, <2>2 DEF NodeInv, Kept, Pending
  <1>3. Remembered'
    <2>1. \A a \in active : Usable(a)' => Usable(a)
      <3>1. \A a \in active : a.until \in Int
        BY DEF NodeInv, Typed, Entry
      <3>2. QED
        BY <1>1, <3>1 DEF Usable
    <2>2. QED
      BY <1>1, <2>1 DEF NodeInv, Remembered
  <1>4. Good(co)' /\ Typed' /\ Sequenced'
    BY <1>1 DEF NodeInv, Typed, Sequenced, Good, IsState
  <1>5. Granting' /\ Ticketed' /\ Prepared' /\ sink'
    BY <1>1 DEF NodeInv, Granting, Granted, Here, Ticketed, Prepared, Verified
  <1>6. QED
    BY <1>2, <1>3, <1>4, <1>5 DEF NodeInv

\* A signer that only ends leases.
LEMMA EndingKeeps ==
    ASSUME Limits, NodeInv, Shrinks(co, co'), Good(co'), active' \subseteq active, sink',
           UNCHANGED <<now, tip, safe, vgen, lock, miner, writer>>
    PROVE  NodeInv'
PROOF
  <1>1. now' = now
    OBVIOUS
  <1>2. /\ Kept(co)' /\ Granted' \subseteq Granted /\ Remembered'
        /\ co'.records \subseteq co.records /\ co'.next_id = co.next_id
        /\ \A a \in active' : a.id < co'.next_id
        /\ \A a \in active', r \in co'.records : a.id = r.id => a.binding = r.binding
    BY <1>1, GoingKeeps
  <1>3. Typed' /\ Sequenced' /\ Prepared'
    BY DEF NodeInv, Typed, Sequenced, Prepared, Verified
  <1>4. Granting'
    BY <1>2 DEF NodeInv, Granting, Here
  <1>5. Ticketed'
    BY <1>2 DEF NodeInv, Ticketed
  <1>6. Good(co)'
    BY DEF Good, IsState
  <1>7. QED
    BY <1>2, <1>3, <1>4, <1>5, <1>6 DEF NodeInv

\* The pruned coordinator.
LEMMA PrunedState ==
    ASSUME Limits, NodeInv
    PROVE  /\ Good(Pruned(co)) /\ IsState(Pruned(co)) /\ Kept(Pruned(co))
           /\ Shrinks(co, Pruned(co)) /\ Pruned(co).records \subseteq co.records
           /\ Pruned(co).next_id = co.next_id
           /\ \A r \in Pruned(co).records : r.kind = "RemotePending" <=> r.token # NoToken
PROOF
  <1>1. Good(co) /\ IsState(co) /\ now \in Int
    BY DEF NodeInv, Good, Typed
  <1>2. Good(Pruned(co)) /\ IsState(Pruned(co)) /\ Shrinks(co, Pruned(co))
    BY <1>1, PrunedGood, PrunedShrinks
  <1>3. Kept(Pruned(co))
    BY <1>1, <1>2, ShrinksKept DEF NodeInv
  <1>4. QED
    BY <1>2, <1>3, Zenon DEF Shrinks, Kept

\* A signature is published, or a lease cancelled.
LEMMA SubmitKeeps ==
    ASSUME Limits, NodeInv, NEW a \in active, SubmitSigned(a) PROVE NodeInv'
PROOF
  <1> DEFINE p == Pruned(co)
  <1>1. /\ Good(p) /\ IsState(p) /\ Shrinks(co, p) /\ p.records \subseteq co.records
        /\ \A r \in p.records : r.kind = "RemotePending" <=> r.token # NoToken
    BY PrunedState
  <1>2. /\ lock = "free" /\ active' = PrunedActive \ {a} /\ co' = Released(p, a.id)
        /\ UNCHANGED <<now, tip, safe, vgen, lock, miner, writer>>
        /\ \/ sink' = sink
           \/ Has(p, a.id) /\ sink' = (a.binding = Here /\ safe)
    BY DEF SubmitSigned, Reached
  <1>3. sink'
    <2>1. CASE Has(p, a.id) /\ sink' = (a.binding = Here /\ safe)
      <3>1. PICK r \in p.records : r.id = a.id
        BY <2>1 DEF Has
      <3> HIDE DEF p
      <3>2. r \in co.records /\ r \in Granted
        BY <1>1, <3>1 DEF Granted
      <3>3. a.binding = Here /\ safe
        BY <1>2, <3>1, <3>2 DEF NodeInv, Granting
      <3>4. QED
        BY <2>1, <3>3, Zenon
    <2>2. QED
      BY <1>2, <2>1, Zenon DEF NodeInv
  <1> HIDE DEF p
  <1>4. Shrinks(co, co') /\ Good(co')
    BY <1>1, <1>2, ReleasedShrinks, ReleasedGood, ShrinksTwice
  <1>5. active' \subseteq active
    BY <1>2 DEF PrunedActive
  <1>6. QED
    BY <1>2, <1>3, <1>4, <1>5, EndingKeeps

LEMMA CancelKeeps ==
    ASSUME Limits, NodeInv, CancelSigning PROVE NodeInv'
PROOF
  <1> DEFINE p == Pruned(co)
  <1>1. /\ Good(p) /\ IsState(p) /\ Shrinks(co, p)
        /\ \A r \in p.records : r.kind = "RemotePending" <=> r.token # NoToken
    BY PrunedState
  <1>2. PICK id : /\ co' = Released(p, id) /\ active' = {a \in PrunedActive : a.id # id}
                  /\ UNCHANGED <<now, tip, safe, vgen, lock, miner, writer, sink>>
    BY DEF CancelSigning
  <1> HIDE DEF p
  <1>3. Shrinks(co, co') /\ Good(co')
    BY <1>1, <1>2, ReleasedShrinks, ReleasedGood, ShrinksTwice
  <1>4. active' \subseteq active
    BY <1>2 DEF PrunedActive
  <1>5. sink'
    BY <1>2 DEF NodeInv
  <1>6. QED
    BY <1>2, <1>3, <1>4, <1>5, EndingKeeps

\* What Open leaves when it succeeds with the current facts.
LEMMA OpenFresh ==
    ASSUME Limits, NodeInv, Opened(co, Fresh), NEW o, o = Open(co, Fresh)
    PROVE  /\ Good(o) /\ IsState(o) /\ Kept(o) /\ Shrinks(co, o)
           /\ o.records \subseteq co.records /\ o.next_id = co.next_id
           /\ Evaluated(o, tip) = Here
           /\ {s \in co.spent : s.forget > now} \subseteq o.spent
PROOF
  <1>1. Good(co) /\ IsState(co) /\ now \in Int /\ Kept(co) /\ co.epoch # 0
    BY DEF NodeInv, Good, Typed, Kept
  <1>2. Good(o) /\ IsState(o) /\ Shrinks(co, o)
    BY <1>1, OpenGood, OpenShrinks
  <1>3. Kept(o)
    BY <1>1, <1>2, ShrinksKept
  <1>4. o.cfg = Fresh
    <2> DEFINE p == Pruned(co)
    <2>1. IsState(p)
      BY PrunedState
    <2>2. /\ p.phase # "Closing" /\ (p.records = {} \/ p.cfg = Fresh) /\ Fresh.safe
          /\ Fresh.epoch = co.epoch
      BY DEF Opened
    <2>3. o = [p EXCEPT !.cfg = Fresh, !.phase = "Open",
                        !.gen = IF p.cfg # Fresh \/ p.phase = "Closed" THEN p.gen + 1 ELSE p.gen]
      BY <1>1, <2>2 DEF Open
    <2> HIDE DEF p
    <2>4. QED
      BY <2>1, <2>3 DEF IsState
  <1>5. Fresh.vgen = vgen
    BY DEF Fresh, Configuration
  <1>6. Evaluated(o, tip) = Here
    BY <1>4, <1>5 DEF Evaluated, Here
  <1>7. QED
    BY <1>2, <1>3, <1>6, Zenon DEF Shrinks

\* A lease is added for a signer: it stands on the current facts.
LEMMA GrantingKeeps ==
    ASSUME Limits, NodeInv, lock = "free", safe,
           NEW o, Shrinks(co, o), NEW r \in Lease, r.id = co.next_id, r.binding = Here,
           co'.records = o.records \cup {r}, co'.spent = o.spent, co'.next_id = co.next_id + 1,
           Good(co'), Kept(co'), sink', UNCHANGED <<now, tip, safe, vgen, lock, miner, writer>>,
           \/ active' = active
           \/ \E a \in Entry : /\ active' = active \cup {a} /\ a.id = r.id
                               /\ a.binding = r.binding /\ a.token = NoToken
    PROVE  NodeInv'
PROOF
  <1>0. /\ o.records \subseteq co.records /\ {s \in co.spent : s.forget > now} \subseteq o.spent
        /\ \A q \in co.records : q.id \in Nat /\ q.id < co.next_id
        /\ co.next_id \in Nat /\ \A a \in active : a.id \in Nat /\ a.id < co.next_id
    BY DEF Shrinks, NodeInv, Kept, Lease, Typed, Entry, Granting
  <1>1. active' \subseteq Entry
    BY SMTT(30) DEF NodeInv, Typed
  <1>2. Typed' /\ Sequenced' /\ Prepared'
    BY <1>1, SMTT(30) DEF NodeInv, Typed, Sequenced, Prepared, Verified
  <1>3. Granted' \subseteq Granted \cup {r}
    BY <1>0 DEF Granted
  <1>4. \A a \in active' : a \in active \/ (a.id = r.id /\ a.binding = r.binding /\ a.token = NoToken)
    OBVIOUS
  <1>5. /\ \A a \in active' : a.id < co'.next_id
        /\ \A a \in active', q \in co'.records : a.id = q.id => a.binding = q.binding
    <2>1. \A a \in active, q \in co.records : a.id = q.id => a.binding = q.binding
      BY DEF NodeInv, Granting
    <2>2. QED
      BY <1>0, <1>4, <2>1
  <1>6. Granting'
    <2>1. \A q \in Granted : q.binding = Here
      BY DEF NodeInv, Granting
    <2>2. Here' = Here /\ Here.tip = tip
      BY DEF Here
    <2>3. writer.pc \notin {"set", "bump"}
      BY DEF NodeInv, Sequenced
    <2>4. QED
      BY <1>3, <1>5, <2>1, <2>2, <2>3 DEF Granting
  <1>7. Ticketed'
    <2>1. \A m \in Miners : miner[m].id \in Nat
      BY DEF NodeInv, Typed, MinerState
    <2>2. QED
      BY <1>0, <1>4, <2>1 DEF NodeInv, Ticketed
  <1>8. Remembered'
    <2>1. {s \in co.spent : s.forget > now} \subseteq co'.spent
      BY <1>0
    <2>2. QED
      BY <1>4, <2>1, StillRemembered DEF Remembered, Usable
  <1>9. Good(co)' /\ Kept(co)'
    BY DEF Good, IsState, Kept, Pending
  <1>10. QED
    BY <1>2, <1>6, <1>7, <1>8, <1>9, SMTT(30) DEF NodeInv

\* A token is issued.
LEMMA IssueKeeps ==
    ASSUME Limits, NodeInv, NEW t \in Tokens, IssueRemoteWorkGrant(t) PROVE NodeInv'
PROOF
  <1> DEFINE o == Open(co, Fresh)
             r == NewRecord(o, "RemotePending", tip, RemoteTtl, t)
  <1>1. /\ lock = "free" /\ safe /\ Opened(co, Fresh)
        /\ UNCHANGED <<now, tip, safe, vgen, lock, miner, writer, active, sink>>
        /\ co' = IF CanIssue(o, t) THEN WithRecord(o, r) ELSE o
    BY SMTT(30) DEF IssueRemoteWorkGrant
  <1>2. /\ Good(o) /\ IsState(o) /\ Kept(o) /\ Shrinks(co, o) /\ o.next_id = co.next_id
        /\ Evaluated(o, tip) = Here
    BY <1>1, OpenFresh
  <1>3. sink' /\ now \in Int /\ Here \in Binding
    BY <1>1 DEF NodeInv, Typed, Here, Binding
  <1>4. Good(co')
    <2>1. SignerStep
      BY SMTT(30) DEF SignerStep
    <2>2. QED
      BY <2>1, SignerKeeps DEF NodeInv
  <1> HIDE DEF o
  <1>5. CASE CanIssue(o, t)
    <2>1. /\ r.id = co.next_id /\ r.binding = Here /\ r.gen = o.gen
      BY <1>2 DEF NewRecord
    <2>2. r \in Lease
      <3>1. o.next_id \in Nat /\ o.gen \in Nat /\ now + RemoteTtl \in Int
        BY <1>2, <1>3, SMTT(30) DEF Kept, Limits
      <3>2. QED
        BY <1>2, <1>3, <3>1, Zenon DEF NewRecord, Lease
    <2>3. /\ t # NoToken
          /\ Cardinality(o.spent) + Cardinality(Pending(o)) < MAX_SPENT
          /\ t \notin {q.token : q \in o.records} \cup {s.token : s \in o.spent}
      BY <1>5 DEF CanIssue, Limits
    <2>4. RemoteTtl \in Nat
      BY DEF Limits
    <2>5. /\ Kept(WithRecord(o, r)) /\ WithRecord(o, r).records = o.records \cup {r}
          /\ WithRecord(o, r).spent = o.spent /\ WithRecord(o, r).next_id = o.next_id + 1
      <3> DEFINE R == r
      <3>1. R = NewRecord(o, "RemotePending", tip, RemoteTtl, t)
        OBVIOUS
      <3> HIDE DEF R
      <3>2. /\ Kept(WithRecord(o, R)) /\ WithRecord(o, R).records = o.records \cup {R}
            /\ WithRecord(o, R).spent = o.spent /\ WithRecord(o, R).next_id = o.next_id + 1
        <4>1. /\ Limits /\ now \in Int /\ IsState(o) /\ Kept(o) /\ RemoteTtl \in Nat
              /\ t \in Tokens \cup {NoToken} /\ Evaluated(o, tip) \in Binding
          BY <1>2, <1>3, <2>4
        <4>2. QED
          BY ONLY <2>3, <3>1, <4>1, WithRecordKept
      <3>3. QED
        BY <3>2, Zenon DEF R
    <2> HIDE DEF r
    <2>6. co' = WithRecord(o, r)
      BY <1>1, <1>5 DEF r
    <2>7. QED
      BY <1>1, <1>2, <1>3, <1>4, <2>1, <2>2, <2>5, <2>6, GrantingKeeps, SMTT(30)
  <1>6. CASE ~CanIssue(o, t)
    BY <1>1, <1>2, <1>3, <1>4, <1>6, EndingKeeps
  <1>7. QED
    BY <1>5, <1>6

\* A permit for a local signature.
LEMMA PermitKeeps ==
    ASSUME Limits, NodeInv, AcquireLocalPermit PROVE NodeInv'
PROOF
  <1> DEFINE o == Open(co, Fresh)
             r == NewRecord(o, "Local", tip, LocalTtl, NoToken)
             a == SigningEntry(r, NoToken)
  <1>1. /\ lock = "free" /\ safe /\ Opened(co, Fresh)
        /\ UNCHANGED <<now, tip, safe, vgen, lock, miner, writer, sink>>
        /\ co' = WithRecord(o, r) /\ active' = active \cup {a}
    BY SMTT(30) DEF AcquireLocalPermit
  <1>2. /\ Good(o) /\ IsState(o) /\ Kept(o) /\ Shrinks(co, o) /\ o.next_id = co.next_id
        /\ Evaluated(o, tip) = Here
    BY <1>1, OpenFresh
  <1>3. sink' /\ now \in Int /\ Here \in Binding /\ LocalTtl \in Nat
    BY <1>1 DEF NodeInv, Typed, Here, Binding, Limits
  <1>4. Good(co')
    <2>1. SignerStep
      BY DEF SignerStep
    <2>2. QED
      BY <2>1, SignerKeeps DEF NodeInv
  <1> HIDE DEF o
  <1>5. r.id = co.next_id /\ r.binding = Here /\ r \in Lease
    <2>1. o.next_id \in Nat /\ o.gen \in Nat /\ now + LocalTtl \in Int
      BY <1>2, <1>3 DEF Kept
    <2>2. r \in Lease
      BY <1>2, <1>3, <2>1, Zenon DEF NewRecord, Lease
    <2>3. QED
      BY <1>2, <2>2, SMTT(30) DEF NewRecord
  <1>6. a \in Entry /\ a.id = r.id /\ a.binding = r.binding /\ a.token = NoToken
    <2> HIDE DEF r
    <2>1. QED
      BY <1>5, SMTT(30) DEF SigningEntry, Entry, Lease, Limits
  <1> HIDE DEF a
  <1>7. /\ Kept(co') /\ co'.records = o.records \cup {r}
        /\ co'.spent = o.spent /\ co'.next_id = o.next_id + 1
    <2> DEFINE R == r
    <2>1. R = NewRecord(o, "Local", tip, LocalTtl, NoToken)
      OBVIOUS
    <2> HIDE DEF R
    <2>2. /\ Kept(WithRecord(o, R)) /\ WithRecord(o, R).records = o.records \cup {R}
          /\ WithRecord(o, R).spent = o.spent /\ WithRecord(o, R).next_id = o.next_id + 1
      BY <1>2, <1>3, <2>1, WithRecordKept
    <2>3. QED
      BY <1>1, <2>2 DEF R
  <1> HIDE DEF r
  <1>8. QED
    BY <1>1, <1>2, <1>3, <1>4, <1>5, <1>6, <1>7, GrantingKeeps

\* A token becomes a lease the node holds, or is used up too late.
LEMMA BeginKeeps ==
    ASSUME Limits, NodeInv, NEW t \in Tokens, BeginRemoteSigning(t) PROVE NodeInv'
PROOF
  <1> DEFINE p == Pruned(co)
  <1>1. /\ Good(p) /\ IsState(p) /\ Kept(p) /\ Shrinks(co, p) /\ p.records \subseteq co.records
        /\ p.next_id = co.next_id
    BY PrunedState
  <1>2. PICK r \in Pending(p) :
            /\ lock = "free" /\ r.token = t
            /\ IF r.deadline > now + SigningMargin
               THEN /\ co' = Consumed(p, r)
                    /\ active' = PrunedActive \cup {SigningEntry(r, t)}
               ELSE co' = Released(Consumed(p, r), r.id) /\ UNCHANGED active
            /\ UNCHANGED <<now, tip, safe, vgen, lock, miner, writer, sink>>
    BY DEF BeginRemoteSigning
  <1> DEFINE a == SigningEntry(r, t)
             q == [r EXCEPT !.kind = "RemoteConsumed", !.token = NoToken]
             u == [token |-> r.token, forget |-> now + RemoteTtl]
  <1>3. Good(co') /\ sink' /\ now \in Int
    <2>1. SignerStep
      BY DEF SignerStep
    <2>2. QED
      BY <1>2, <2>1, SignerKeeps DEF NodeInv, Typed
  <1> HIDE DEF p
  <1>4. r \in p.records /\ r \in co.records /\ r.kind = "RemotePending" /\ r \in Lease
    BY <1>1, Zenon DEF Pending, Kept
  <1>5. /\ q \in Lease /\ q.id = r.id /\ q.kind = "RemoteConsumed" /\ q.token = NoToken
        /\ q.binding = r.binding
    BY <1>4, Zenon DEF Lease
  <1>6. /\ a \in Entry /\ a.id = r.id /\ a.binding = r.binding /\ a.token = t
        /\ a.until = r.deadline - SigningMargin
    BY <1>4 DEF SigningEntry, Entry, Lease, Limits
  <1>7. u.token = t /\ u.forget = now + RemoteTtl
    BY <1>2
  <1>8. /\ Kept(Consumed(p, r)) /\ IsState(Consumed(p, r))
        /\ Consumed(p, r).records = (p.records \ {r}) \cup {q}
        /\ Consumed(p, r).spent = p.spent \cup {u}
        /\ Consumed(p, r).next_id = p.next_id
    <2> DEFINE Q == q
               U == u
    <2>1. /\ Q = [r EXCEPT !.kind = "RemoteConsumed", !.token = NoToken]
          /\ U = [token |-> r.token, forget |-> now + RemoteTtl]
      OBVIOUS
    <2>2. Q = q /\ U = u
      OBVIOUS
    <2> HIDE DEF Q, U
    <2>3. /\ Kept(Consumed(p, r)) /\ IsState(Consumed(p, r))
          /\ Consumed(p, r).records = (p.records \ {r}) \cup {Q}
          /\ Consumed(p, r).spent = p.spent \cup {U}
          /\ Consumed(p, r).next_id = p.next_id
      <3>1. Limits /\ now \in Int /\ IsState(p) /\ Kept(p) /\ r \in Pending(p)
        BY <1>1, <1>3
      <3>2. \A x, y :
               /\ x = [r EXCEPT !.kind = "RemoteConsumed", !.token = NoToken]
               /\ y = [token |-> r.token, forget |-> now + RemoteTtl]
               => /\ Kept(Consumed(p, r)) /\ IsState(Consumed(p, r))
                  /\ Consumed(p, r).records = (p.records \ {r}) \cup {x}
                  /\ Consumed(p, r).spent = p.spent \cup {y}
                  /\ Consumed(p, r).next_id = p.next_id
        BY ONLY <3>1, ConsumedKept, Zenon
      <3>3. QED
        BY <2>1, <3>2
    <2> HIDE DEF q, u
    <2>4. QED
      BY <2>2, <2>3
  <1> HIDE DEF a, q, u
  <1>9. /\ r \in Granted /\ r.binding = Here /\ safe
        /\ \A m \in Miners : miner[m].pc = "ticket" => miner[m].id # r.id
    <2>1. r \in Granted
      BY <1>4 DEF Granted
    <2>2. QED
      BY <1>2, <1>4, <2>1 DEF NodeInv, Granting, Ticketed
  <1>10. CASE r.deadline > now + SigningMargin
    <2>1. co' = Consumed(p, r) /\ active' = PrunedActive \cup {a}
      BY <1>2, <1>10 DEF a
    <2>2. /\ Kept(co') /\ co'.records = (p.records \ {r}) \cup {q} /\ co'.spent = p.spent \cup {u}
          /\ co'.next_id = co.next_id /\ PrunedActive \subseteq active
      BY <1>1, <1>8, <2>1 DEF PrunedActive
    <2>3. \A x \in active' : x \in active \/ x = a
      BY <2>1, <2>2
    <2>4. /\ \A x \in active' : x.id < co'.next_id
          /\ \A x \in active', y \in co'.records : x.id = y.id => x.binding = y.binding
      <3>1. /\ \A x \in active : x.id < co.next_id
            /\ \A x \in active, y \in co.records : x.id = y.id => x.binding = y.binding
            /\ \A y, z \in co.records : y.id = z.id => y = z
            /\ \A y \in co.records : y.id < co.next_id
        BY DEF NodeInv, Granting, Kept
      <3>2. ASSUME NEW x \in active', NEW y \in co'.records, x.id = y.id
            PROVE  x.binding = y.binding
        <4>1. CASE y = q
          <5>1. x.id = r.id /\ y.binding = r.binding
            BY <1>5, <3>2, <4>1
          <5>2. QED
            BY <1>4, <1>6, <2>3, <3>1, <5>1
        <4>2. CASE y \in p.records \ {r}
          <5>1. y \in co.records /\ y # r
            BY <1>1, <4>2
          <5>2. x # a
            BY <1>4, <1>6, <3>1, <3>2, <5>1
          <5>3. QED
            BY <2>3, <3>1, <3>2, <5>1, <5>2, SMTT(30)
        <4>3. QED
          BY <2>2, <4>1, <4>2
      <3>3. QED
        BY <1>4, <1>6, <2>2, <2>3, <3>1, <3>2
    <2>5. \A y \in Granted' : y.binding = Here
      <3>1. SUFFICES ASSUME NEW y \in Granted' PROVE y.binding = Here
        OBVIOUS
      <3>2. CASE y = q
        BY <1>5, <1>9, <3>2
      <3>3. CASE y \in p.records \ {r}
        <4>1. y \in co.records /\ y # r
          BY <1>1, <3>3
        <4>2. y.kind # "Local" \/ \E x \in active' : x.id = y.id
          BY DEF Granted
        <4>3. y.id # a.id
          BY <1>4, <1>6, <4>1 DEF NodeInv, Kept
        <4>4. y \in Granted
          BY <2>3, <4>1, <4>2, <4>3 DEF Granted
        <4>5. QED
          BY <1>2, <4>4 DEF NodeInv, Granting
      <3>4. QED
        BY <2>2, <3>2, <3>3 DEF Granted
    <2>6. Granting'
      <3>1. Here' = Here /\ Here.tip = tip
        BY <1>2 DEF Here
      <3>2. writer'.pc \notin {"set", "bump"} /\ lock' = "free" /\ safe' /\ tip' = tip
        BY <1>2, <1>9 DEF NodeInv, Sequenced
      <3>3. QED
        BY <2>4, <2>5, <3>1, <3>2 DEF Granting
    <2>7. Ticketed'
      <3>1. ASSUME NEW m \in Miners, miner[m].pc = "ticket"
            PROVE  /\ miner[m].id < co'.next_id
                   /\ \A y \in co'.records :
                          y.id = miner[m].id => y.kind = "Local" /\ y.binding = miner[m].prior
                   /\ \A x \in active' : x.id # miner[m].id
        <4>1. /\ miner[m].id < co.next_id /\ miner[m].id # r.id
              /\ \A y \in co.records :
                     y.id = miner[m].id => y.kind = "Local" /\ y.binding = miner[m].prior
              /\ \A x \in active : x.id # miner[m].id
          BY <1>9, <3>1 DEF NodeInv, Ticketed
        <4>2. \A y \in co'.records : y \in co.records \/ y = q
          BY <1>1, <2>2
        <4>3. QED
          BY <1>5, <1>6, <2>2, <2>3, <4>1, <4>2
      <3>2. QED
        BY <1>2, <3>1 DEF Ticketed
    <2>8. Remembered'
      <3>1. SUFFICES ASSUME NEW x \in active', x.token # NoToken, Usable(x)'
                     PROVE  \E s \in co'.spent : s.token = x.token /\ s.forget >= x.until + SigningMargin
        BY DEF Remembered
      <3>2. CASE x = a
        <4>1. r.deadline <= now + RemoteTtl /\ r.deadline \in Int
          BY <1>1, <1>4 DEF Kept, Lease
        <4>2. u \in co'.spent
          BY <2>2
        <4>3. QED
          BY <1>3, <1>6, <1>7, <3>2, <4>1, <4>2, SMTT(30) DEF Limits
      <3>3. CASE x \in active
        <4>1. Usable(x) /\ {s \in co.spent : s.forget > now} \subseteq co'.spent
          BY <1>1, <1>2, <2>2, <3>1, Zenon DEF Usable, Shrinks
        <4>2. QED
          BY <3>1, <3>3, <4>1, StillRemembered, SMTT(30)
      <3>4. QED
        BY <2>3, <3>2, <3>3
    <2>9. Typed' /\ Sequenced' /\ Prepared'
      <3>1. active' \subseteq Entry
        BY <1>6, <2>3, Zenon DEF NodeInv, Typed
      <3>2. QED
        BY <1>2, <3>1, Zenon DEF NodeInv, Typed, Sequenced, Prepared, Verified
    <2>10. Good(co)' /\ Kept(co)'
      BY <1>2, <1>3, <2>2, Zenon DEF Good, IsState, Kept, Pending
    <2>11. QED
      BY <1>3, <2>6, <2>7, <2>8, <2>9, <2>10 DEF NodeInv
  <1>11. CASE ~(r.deadline > now + SigningMargin)
    <2> DEFINE d == Consumed(p, r)
    <2>1. co' = Released(d, r.id) /\ active' = active
      BY <1>2, <1>11
    <2>2. Kept(d) /\ IsState(d) /\ \A x \in d.records : x.kind = "RemotePending" <=> x.token # NoToken
      BY <1>8, Zenon DEF Kept
    <2> HIDE DEF d
    <2>3. Shrinks(d, co') /\ co'.records = {x \in d.records : x.id # r.id}
      BY <2>1, <2>2, ReleasedShrinks
    <2>4. co'.records \subseteq p.records
      <3>1. d.records = (p.records \ {r}) \cup {q}
        BY <1>8 DEF d
      <3>2. QED
        BY <1>5, <2>3, <3>1
    <2>5. Shrinks(p, co')
      <3>1. d.spent = p.spent \cup {u} /\ d.next_id = p.next_id /\ d.records = (p.records \ {r}) \cup {q}
        BY <1>8 DEF d
      <3>2. r \notin co'.records
        BY <2>3, SMTT(30)
      <3>3. u \in Remember({}, {r})
        BY <1>1, <1>4, SMTT(30) DEF Remember, u, Kept
      <3>4. co'.spent \subseteq Remember(p.spent, p.records \ co'.records)
        <4>1. co'.spent \subseteq Remember(d.spent, d.records \ co'.records)
          BY <2>3 DEF Shrinks
        <4>2. \A x \in d.records \ co'.records : x.token # NoToken => x \in p.records \ co'.records
          BY <1>5, <3>1
        <4>3. QED
          BY <1>4, <3>1, <3>2, <3>3, <4>1, <4>2, SMTT(30) DEF Remember
      <3>5. {s \in p.spent : s.forget > now} \subseteq co'.spent
        BY <2>3, <3>1 DEF Shrinks
      <3>6. p.gen \in Nat => co'.gen \in Nat
        <4>1. d.gen \in Nat
          BY <2>2 DEF Kept
        <4>2. QED
          BY <2>3, <4>1, SMTT(30) DEF Shrinks
      <3>7. co'.epoch \in Nat \ {0}
        <4>1. d.epoch \in Nat \ {0}
          BY <2>2 DEF Kept
        <4>2. QED
          BY <2>3, <4>1 DEF Shrinks
      <3>8. co'.next_id = p.next_id
        BY <2>3, <3>1 DEF Shrinks
      <3>9. QED
        BY <2>4, <3>4, <3>5, <3>6, <3>7, <3>8, Zenon DEF Shrinks
    <2>6. Shrinks(co, co')
      BY <1>1, <2>5, ShrinksTwice
    <2>7. QED
      BY <1>2, <1>3, <2>1, <2>6, EndingKeeps
  <1>12. QED
    BY <1>10, <1>11
=============================================================================
