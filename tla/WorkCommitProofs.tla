-------------------------- MODULE WorkCommitProofs --------------------------
(***************************************************************************)
(* The miners and the writers of facts preserve NodeInv.  So whatever is   *)
(* committed or signed met the facts its lease was granted under, for any  *)
(* tokens, miners, lease times and capacities.                             *)
(***************************************************************************)
EXTENDS WorkSigningProofs

\* A miner's own turn leaves the facts alone; it may take the free sequencer.
LEMMA MinerTurns ==
    ASSUME Limits, NodeInv, NEW m \in Miners, NEW w \in MinerState, miner' = [miner EXCEPT ![m] = w],
           w.pc \notin {"idle", "drop"} => w.prior.tip < MaxTip, w.prior.vgen <= vgen,
           Verified(w) /\ w.prior.vgen = vgen /\ writer.pc # "bump" => safe,
           \/ lock' = lock /\ w.pc # "commit"
           \/ lock = "free" /\ lock' = "miner" /\ w.prior.tip = tip,
           UNCHANGED <<now, tip, safe, vgen, writer, active>>
    PROVE  /\ Typed' /\ Sequenced' /\ Prepared'
           /\ miner'[m] = w /\ \A n \in Miners : n # m => miner'[n] = miner[n]
PROOF
  <1>1. miner \in [Miners -> MinerState]
    BY DEF NodeInv, Typed
  <1>2. miner' \in [Miners -> MinerState] /\ miner'[m] = w
        /\ \A n \in Miners : n # m => miner'[n] = miner[n]
    BY <1>1
  <1>3. Typed'
    BY <1>2 DEF NodeInv, Typed
  <1>4. Sequenced'
    <2>1. Sequenced
      BY DEF NodeInv
    <2>2. /\ vgen' <= writer'.changes + 1
          /\ writer'.pc \in {"wait", "lock", "set", "bump"} => vgen' <= writer'.changes
          /\ writer'.pc \in {"set", "bump", "cancel"} => lock' = "writer"
      BY <2>1 DEF Sequenced
    <2>3. \A n \in Miners : miner'[n].pc = "commit" /\ n # m =>
              miner[n].pc = "commit" /\ lock = "miner" /\ lock' = lock /\ miner[n].prior.tip = tip
      BY <1>2, <2>1 DEF Sequenced
    <2>4. \A n \in Miners : miner'[n].pc = "commit" => lock' = "miner" /\ miner'[n].prior.tip = tip'
      BY <1>2, <2>3
    <2>5. \A i, n \in Miners : miner'[i].pc = "commit" /\ miner'[n].pc = "commit" => i = n
      BY <1>2, <2>1, <2>3 DEF Sequenced
    <2>6. \A n \in Miners : miner'[n].pc \notin {"idle", "drop"} => miner'[n].prior.tip < MaxTip
      BY <1>2, <2>1 DEF Sequenced
    <2>7. \A n \in Miners : miner'[n].prior.vgen <= vgen'
      BY <1>2, <2>1 DEF Sequenced
    <2>8. QED
      BY <2>2, <2>4, <2>5, <2>6, <2>7 DEF Sequenced
  <1>5. Prepared'
    <2>1. \A n \in Miners : n # m => (Verified(miner'[n]) <=> Verified(miner[n]))
      BY <1>2 DEF Verified
    <2>2. Verified(miner'[m]) <=> Verified(w)
      BY <1>2
    <2>3. \A n \in Miners : Verified(miner'[n]) /\ miner'[n].prior.vgen = vgen' /\ writer'.pc # "bump" => safe'
      BY <1>2, <2>1, <2>2 DEF NodeInv, Prepared
    <2>4. QED
      BY <2>3 DEF Prepared, Verified
  <1>6. QED
    BY <1>2, <1>3, <1>4, <1>5

\* A miner that neither holds a ticket nor commits after its step.
LEMMA MinerMoves ==
    ASSUME Limits, NodeInv, NEW m \in Miners, NEW w \in MinerState, miner' = [miner EXCEPT ![m] = w],
           w.pc \notin {"ticket", "commit"}, w.pc \notin {"idle", "drop"} => w.prior.tip < MaxTip,
           w.prior.vgen <= vgen,
           Verified(w) /\ w.prior.vgen = vgen /\ writer.pc # "bump" => safe,
           Shrinks(co, co'), Good(co'), UNCHANGED <<now, tip, safe, vgen, lock, writer, active, sink>>
    PROVE  NodeInv'
PROOF
  <1>1. now' = now /\ active' \subseteq active
    OBVIOUS
  <1>2. /\ Kept(co)' /\ Granted' \subseteq Granted /\ Remembered'
        /\ co'.records \subseteq co.records /\ co'.next_id = co.next_id
        /\ \A a \in active' : a.id < co'.next_id
        /\ \A a \in active', r \in co'.records : a.id = r.id => a.binding = r.binding
    BY <1>1, GoingKeeps
  <1>3. /\ Typed' /\ Sequenced' /\ Prepared'
        /\ miner'[m] = w /\ \A n \in Miners : n # m => miner'[n] = miner[n]
    BY MinerTurns, Zenon
  <1>4. Granting'
    BY <1>2 DEF NodeInv, Granting, Here
  <1>5. Ticketed'
    BY <1>2, <1>3 DEF NodeInv, Ticketed
  <1>6. Good(co)' /\ sink'
    BY DEF Good, IsState, NodeInv
  <1>7. QED
    BY <1>2, <1>3, <1>4, <1>5, <1>6 DEF NodeInv

\* What a step of a miner knows about it.
LEMMA IdleMiner ==
    ASSUME Limits, NodeInv
    PROVE  /\ Idle \in MinerState /\ Idle.pc = "idle" /\ Idle.prior.vgen <= vgen /\ ~Verified(Idle)
           /\ Idle.prior = [tip |-> 0, vgen |-> 1] /\ Idle.stage = "round"
           /\ Shrinks(co, co) /\ Good(co) /\ vgen \in Nat
PROOF
  <1>1. Idle \in MinerState
    BY DEF Idle, MinerState, Binding, Configuration, Limits
  <1>2. Idle.pc = "idle" /\ Idle.prior = [tip |-> 0, vgen |-> 1] /\ Idle.stage = "round"
    BY DEF Idle
  <1>3. vgen \in Nat /\ vgen >= 1
    BY DEF NodeInv, Typed, Limits
  <1>4. Shrinks(co, co)
    BY SameShrinks DEF NodeInv, Good
  <1>5. QED
    BY <1>1, <1>2, <1>3, <1>4 DEF Verified, NodeInv

\* The close epoch is sampled.
LEMMA SampleKeeps ==
    ASSUME Limits, NodeInv, NEW m \in Miners, SampleEpoch(m) PROVE NodeInv'
PROOF
  <1> DEFINE w == miner[m]
             round == [w EXCEPT !.cfg.epoch = co.epoch, !.pc = "read", !.stage = "round", !.prior.tip = tip]
             again == [w EXCEPT !.cfg.epoch = co.epoch, !.pc = "read", !.stage = "prepare"]
  <1>1. w \in MinerState /\ co.epoch \in Nat /\ tip \in 0..MaxTip
    BY DEF NodeInv, Typed, Kept
  <1>2. UNCHANGED <<now, tip, safe, vgen, lock, co, writer, active, sink>>
    BY DEF SampleEpoch
  <1>3. Shrinks(co, co') /\ Good(co')
    BY <1>2, IdleMiner
  <1>4. /\ w.prior.vgen <= vgen
        /\ w.pc = "mined" => w.prior.tip < MaxTip
    BY DEF NodeInv, Sequenced
  <1>5. \/ tip < MaxTip /\ miner' = [miner EXCEPT ![m] = round]
        \/ w.pc = "mined" /\ miner' = [miner EXCEPT ![m] = again]
        \/ miner' = [miner EXCEPT ![m] = Idle]
    BY DEF SampleEpoch, Becomes
  <1> HIDE DEF w
  <1>6. /\ round \in MinerState /\ round.pc = "read" /\ round.prior.tip = tip
        /\ round.prior.vgen = w.prior.vgen
    BY <1>1, Zenon DEF MinerState, Binding
  <1>7. again \in MinerState /\ again.pc = "read" /\ again.prior = w.prior
    BY <1>1, Zenon DEF MinerState
  <1> HIDE DEF round, again
  <1>8. CASE tip < MaxTip /\ miner' = [miner EXCEPT ![m] = round]
    <2>1. ~Verified(round) /\ round.pc \notin {"ticket", "commit"}
      BY <1>6 DEF Verified
    <2>2. round.prior.vgen <= vgen /\ round.prior.tip < MaxTip
      BY <1>4, <1>6, <1>8
    <2>3. QED
      BY <1>2, <1>3, <1>6, <1>8, <2>1, <2>2, MinerMoves, Zenon
  <1>9. CASE w.pc = "mined" /\ miner' = [miner EXCEPT ![m] = again]
    <2>1. ~Verified(again) /\ again.pc \notin {"ticket", "commit"}
      BY <1>7 DEF Verified
    <2>2. again.prior.vgen <= vgen /\ again.prior.tip < MaxTip
      BY <1>4, <1>7, <1>9
    <2>3. QED
      BY <1>2, <1>3, <1>7, <1>9, <2>1, <2>2, MinerMoves, Zenon
  <1>10. CASE miner' = [miner EXCEPT ![m] = Idle]
    <2>1. Idle \in MinerState /\ Idle.pc = "idle" /\ Idle.prior.vgen <= vgen /\ ~Verified(Idle)
      BY IdleMiner
    <2>2. QED
      BY <1>2, <1>3, <1>10, <2>1, MinerMoves, Zenon
  <1>11. QED
    BY <1>5, <1>8, <1>9, <1>10

\* The prerequisites are read.
LEMMA ReadKeeps ==
    ASSUME Limits, NodeInv, NEW m \in Miners, ReadPrerequisites(m) PROVE NodeInv'
PROOF
  <1> DEFINE w == miner[m]
             v == [w EXCEPT !.cfg.safe = safe, !.pc = "bind"]
  <1>1. w \in MinerState /\ safe \in BOOLEAN
    BY DEF NodeInv, Typed
  <1>2. /\ UNCHANGED <<now, tip, safe, vgen, lock, co, writer, active, sink>>
        /\ miner' = [miner EXCEPT ![m] = v] /\ w.pc = "read"
    BY DEF ReadPrerequisites, Becomes
  <1>3. Shrinks(co, co') /\ Good(co')
    BY <1>2, IdleMiner
  <1>4. w.prior.vgen <= vgen /\ w.prior.tip < MaxTip
    BY <1>2 DEF NodeInv, Sequenced
  <1> HIDE DEF w
  <1>5. v \in MinerState /\ v.pc = "bind" /\ v.prior = w.prior
    BY <1>1, Zenon DEF MinerState
  <1>6. v.cfg.safe = safe
    BY <1>1 DEF MinerState
  <1>7. Verified(v) => safe
    BY <1>5, <1>6 DEF Verified
  <1> HIDE DEF v
  <1>8. QED
    BY <1>2, <1>3, <1>4, <1>5, <1>7, MinerMoves, Zenon

\* The validation generation is read, and the epoch compared.
LEMMA BindKeeps ==
    ASSUME Limits, NodeInv, NEW m \in Miners, BindCloseEpochSnapshot(m) PROVE NodeInv'
PROOF
  <1> DEFINE w == miner[m]
             good == w.cfg.safe /\ w.cfg.epoch = co.epoch
             v == [w EXCEPT !.pc = "open", !.cfg.safe = good, !.cfg.vgen = vgen]
             u == [Idle EXCEPT !.pc = "mined", !.prior = [tip |-> w.prior.tip, vgen |-> vgen]]
  <1>1. w \in MinerState /\ vgen \in 1..(MaxChanges + 1) /\ vgen \in Nat
    BY DEF NodeInv, Typed, Limits
  <1>2. /\ UNCHANGED <<now, tip, safe, vgen, lock, co, writer, active, sink>> /\ w.pc = "bind"
        /\ \/ miner' = [miner EXCEPT ![m] = v]
           \/ miner' = [miner EXCEPT ![m] = u]
           \/ miner' = [miner EXCEPT ![m] = Idle]
    BY Zenon DEF BindCloseEpochSnapshot, Becomes
  <1>3. Shrinks(co, co') /\ Good(co')
    BY <1>2, IdleMiner
  <1>4. w.prior.vgen <= vgen /\ w.prior.tip < MaxTip
    BY <1>2 DEF NodeInv, Sequenced
  <1>5. w.cfg.safe /\ w.prior.vgen = vgen /\ writer.pc # "bump" => safe
    BY <1>2 DEF NodeInv, Prepared, Verified
  <1>6. Idle \in MinerState /\ Idle.pc = "idle" /\ Idle.prior.vgen <= vgen /\ ~Verified(Idle)
    BY IdleMiner
  <1>a. good \in BOOLEAN
    OBVIOUS
  <1>b. good => w.cfg.safe
    OBVIOUS
  <1> HIDE DEF w, good
  <1>7. /\ v \in MinerState /\ v.pc = "open" /\ v.prior = w.prior /\ v.cfg.safe = good
    BY <1>1, <1>a, Zenon DEF MinerState
  <1>8. u \in MinerState /\ u.pc = "mined" /\ u.prior.tip = w.prior.tip /\ u.prior.vgen = vgen
    BY <1>1, <1>6, Zenon DEF MinerState, Binding
  <1>9. Verified(v) => w.cfg.safe
    BY <1>7, <1>b DEF Verified
  <1>10. ~Verified(u)
    BY <1>8 DEF Verified
  <1> HIDE DEF v, u
  <1>11. CASE miner' = [miner EXCEPT ![m] = v]
    BY <1>2, <1>3, <1>4, <1>5, <1>7, <1>9, <1>11, MinerMoves, Zenon
  <1>12. CASE miner' = [miner EXCEPT ![m] = u]
    <2>1. u.prior.vgen <= vgen
      BY <1>1, <1>8
    <2>2. QED
      BY <1>2, <1>3, <1>4, <1>8, <1>10, <1>12, <2>1, MinerMoves, Zenon
  <1>13. CASE miner' = [miner EXCEPT ![m] = Idle]
    BY <1>2, <1>3, <1>6, <1>13, MinerMoves, Zenon
  <1>14. QED
    BY <1>2, <1>11, <1>12, <1>13

\* The prepare callback opens the coordinator.
LEMMA OpenKeeps ==
    ASSUME Limits, NodeInv, NEW m \in Miners, OpenForBlock(m) PROVE NodeInv'
PROOF
  <1> DEFINE w == miner[m]
             v == [Idle EXCEPT !.pc = "acquire", !.prior = w.prior]
  <1>1. w \in MinerState /\ IsState(co)
    BY DEF NodeInv, Typed, Good
  <1>2. /\ UNCHANGED <<now, tip, safe, vgen, lock, writer, active, sink>> /\ w.pc = "open"
        /\ co' = Open(co, w.cfg)
        /\ \/ miner' = [miner EXCEPT ![m] = v] /\ w.cfg.safe
           \/ miner' = [miner EXCEPT ![m] = Idle]
    BY Zenon DEF OpenForBlock, Becomes, Opened
  <1>3. Shrinks(co, co') /\ Good(co')
    BY <1>1, <1>2, OpenShrinks, OpenGood DEF NodeInv
  <1>4. w.prior.vgen <= vgen /\ w.prior.tip < MaxTip
    BY <1>2 DEF NodeInv, Sequenced
  <1>5. w.cfg.safe /\ w.prior.vgen = vgen /\ writer.pc # "bump" => safe
    BY <1>2 DEF NodeInv, Prepared, Verified
  <1>6. Idle \in MinerState /\ Idle.pc = "idle" /\ Idle.prior.vgen <= vgen /\ ~Verified(Idle)
    BY IdleMiner
  <1> HIDE DEF w
  <1>7. v \in MinerState /\ v.pc = "acquire" /\ v.prior = w.prior
    BY <1>1, <1>6, Zenon DEF MinerState
  <1> HIDE DEF v
  <1>8. CASE miner' = [miner EXCEPT ![m] = v] /\ w.cfg.safe
    BY <1>2, <1>3, <1>4, <1>5, <1>7, <1>8, MinerMoves, Zenon
  <1>9. CASE miner' = [miner EXCEPT ![m] = Idle]
    BY <1>2, <1>3, <1>6, <1>9, MinerMoves, Zenon
  <1>10. QED
    BY <1>2, <1>8, <1>9

\* The miner is done with its block.
LEMMA DropKeeps ==
    ASSUME Limits, NodeInv, NEW m \in Miners, DropTicket(m) PROVE NodeInv'
PROOF
  <1> DEFINE p == Pruned(co)
  <1>1. /\ Good(p) /\ IsState(p) /\ Shrinks(co, p)
        /\ \A r \in p.records : r.kind = "RemotePending" <=> r.token # NoToken
    BY PrunedState
  <1>2. /\ UNCHANGED <<now, tip, safe, vgen, lock, writer, active, sink>>
        /\ co' = Released(p, miner[m].id) /\ miner' = [miner EXCEPT ![m] = Idle]
    BY DEF DropTicket, Becomes
  <1> HIDE DEF p
  <1>3. Shrinks(co, co') /\ Good(co')
    BY <1>1, <1>2, ReleasedShrinks, ReleasedGood, ShrinksTwice
  <1>4. Idle \in MinerState /\ Idle.pc = "idle" /\ Idle.prior.vgen <= vgen /\ ~Verified(Idle)
    BY IdleMiner
  <1>5. QED
    BY <1>2, <1>3, <1>4, MinerMoves, Zenon

\* The ticket is made.
LEMMA AcquireKeeps ==
    ASSUME Limits, NodeInv, NEW m \in Miners, AcquireForBlock(m) PROVE NodeInv'
PROOF
  <1> DEFINE p == Pruned(co)
             w == miner[m]
             r == NewRecord(p, "Local", w.prior.tip, LocalTtl, NoToken)
             v == [w EXCEPT !.pc = "ticket", !.id = p.next_id]
  <1>1. /\ Good(p) /\ IsState(p) /\ Kept(p) /\ Shrinks(co, p) /\ p.records \subseteq co.records
        /\ p.next_id = co.next_id
    BY PrunedState
  <1>2. /\ UNCHANGED <<now, tip, safe, vgen, lock, writer, active, sink>> /\ w.pc = "acquire"
        /\ \/ /\ co' = WithRecord(p, r) /\ miner' = [miner EXCEPT ![m] = v]
              /\ Evaluated(p, w.prior.tip) = w.prior
           \/ co' = p /\ miner' = [miner EXCEPT ![m] = Idle]
    BY DEF AcquireForBlock, Becomes, CanAcquire
  <1>3. w \in MinerState /\ w.prior \in Binding /\ now \in Int /\ LocalTtl \in Nat
    BY DEF NodeInv, Typed, MinerState, Limits
  <1>4. Good(co')
    <2>1. MinerStep
      BY DEF MinerStep
    <2>2. QED
      BY <2>1, MinerKeeps DEF NodeInv
  <1> HIDE DEF p
  <1>5. CASE co' = p /\ miner' = [miner EXCEPT ![m] = Idle]
    <2>1. Idle \in MinerState /\ Idle.pc = "idle" /\ Idle.prior.vgen <= vgen /\ ~Verified(Idle)
      BY IdleMiner
    <2>2. Shrinks(co, co')
      BY <1>1, <1>5
    <2>3. QED
      BY <1>2, <1>4, <1>5, <2>1, <2>2, MinerMoves, Zenon
  <1>6. CASE /\ co' = WithRecord(p, r) /\ miner' = [miner EXCEPT ![m] = v]
             /\ Evaluated(p, w.prior.tip) = w.prior
    <2> HIDE DEF w
    <2>1. r.id = co.next_id /\ r.binding = w.prior /\ r.kind = "Local"
      BY <1>1, <1>6 DEF NewRecord
    <2>2. /\ Kept(co') /\ co'.records = p.records \cup {r}
          /\ co'.spent = p.spent /\ co'.next_id = co.next_id + 1
      <3> DEFINE R == r
      <3>1. R = NewRecord(p, "Local", w.prior.tip, LocalTtl, NoToken)
        OBVIOUS
      <3> HIDE DEF R
      <3>2. Evaluated(p, w.prior.tip) \in Binding
        BY <1>3, <1>6
      <3>3. /\ Kept(WithRecord(p, R)) /\ WithRecord(p, R).records = p.records \cup {R}
            /\ WithRecord(p, R).spent = p.spent /\ WithRecord(p, R).next_id = p.next_id + 1
        BY <1>1, <1>3, <3>1, <3>2, WithRecordKept
      <3>4. QED
        BY <1>1, <1>6, <3>3 DEF R
    <2> HIDE DEF r
    <2>3. v \in MinerState /\ v.pc = "ticket" /\ v.prior = w.prior /\ v.id = co.next_id
      <3>1. co.next_id \in Nat
        BY DEF NodeInv, Kept
      <3>2. QED
        BY <1>1, <1>3, <3>1, Zenon DEF MinerState
    <2> HIDE DEF v
    <2>4. w.prior.vgen <= vgen /\ w.prior.tip < MaxTip
      BY <1>2 DEF NodeInv, Sequenced, w
    <2>5. Verified(v) /\ v.prior.vgen = vgen /\ writer.pc # "bump" => safe
      <3>1. Verified(w)
        BY <1>2 DEF Verified
      <3>2. QED
        BY <2>3, <3>1 DEF NodeInv, Prepared, w
    <2>6. /\ Typed' /\ Sequenced' /\ Prepared'
          /\ miner'[m] = v /\ \A n \in Miners : n # m => miner'[n] = miner[n]
      BY <1>2, <1>6, <2>3, <2>4, <2>5, MinerTurns, Zenon
    <2>7. Granting /\ \A a \in active : a.id \in Nat /\ a.id < co.next_id /\ a.id # r.id
      <3>1. \A a \in active : a.id \in Nat /\ a.id < co.next_id
        BY DEF NodeInv, Typed, Entry, Granting
      <3>2. co.next_id \in Nat
        BY DEF NodeInv, Kept
      <3>3. QED
        BY <2>1, <3>1, <3>2 DEF NodeInv
    <2>8. Granted' \subseteq Granted
      BY <1>1, <1>2, <2>1, <2>2, <2>7 DEF Granted
    <2>9. Granting'
      <3>1. co.next_id \in Nat
        BY DEF NodeInv, Kept
      <3>2. /\ \A a \in active' : a.id < co'.next_id
            /\ \A a \in active', q \in co'.records : a.id = q.id => a.binding = q.binding
        BY <1>1, <1>2, <2>2, <2>7, <3>1 DEF Granting
      <3>3. Here' = Here
        BY <1>2 DEF Here
      <3>4. QED
        BY <1>2, <2>7, <2>8, <3>2, <3>3 DEF Granting
    <2>10. Ticketed'
      <3>1. co.next_id \in Nat /\ \A q \in co.records : q.id \in Nat /\ q.id < co.next_id
        BY DEF NodeInv, Kept, Lease
      <3>2. \A n \in Miners : miner[n].id \in Nat
        BY DEF NodeInv, Typed, MinerState
      <3>3. \A q \in p.records : q.id # co.next_id
        BY <1>1, <3>1
      <3>4. ASSUME NEW n \in Miners, miner'[n].pc = "ticket"
            PROVE  /\ miner'[n].id < co'.next_id
                   /\ \A q \in co'.records :
                          q.id = miner'[n].id => q.kind = "Local" /\ q.binding = miner'[n].prior
                   /\ \A a \in active' : a.id # miner'[n].id
        <4>1. CASE n = m
          BY <1>2, <2>1, <2>2, <2>3, <2>6, <2>7, <3>1, <3>3, <4>1, SMTT(30)
        <4>2. CASE n # m
          <5>1. /\ miner[n].id < co.next_id
                /\ \A q \in co.records :
                       q.id = miner[n].id => q.kind = "Local" /\ q.binding = miner[n].prior
                /\ \A a \in active : a.id # miner[n].id
            BY <2>6, <3>4, <4>2 DEF NodeInv, Ticketed
          <5>2. QED
            BY <1>1, <1>2, <2>1, <2>2, <2>6, <3>1, <3>2, <4>2, <5>1, SMTT(30)
        <4>3. QED
          BY <4>1, <4>2
      <3>5. QED
        BY <3>4 DEF Ticketed
    <2>11. Remembered'
      <3>1. {s \in co.spent : s.forget > now} \subseteq co'.spent
        BY <1>1, <2>2, SMTT(30) DEF Shrinks
      <3>2. QED
        BY <1>2, <3>1, StillRemembered DEF Remembered, Usable
    <2>12. Good(co)' /\ Kept(co)' /\ sink'
      BY <1>2, <1>4, <2>2 DEF Good, IsState, Kept, Pending, NodeInv
    <2>13. QED
      BY <2>6, <2>9, <2>10, <2>11, <2>12 DEF NodeInv
  <1>7. QED
    BY <1>2, <1>5, <1>6

\* A ticket is claimed: it stands on the facts of the moment, and alone.
LEMMA ClaimKeeps ==
    ASSUME Limits, NodeInv, NEW m \in Miners, ClaimTicket(m) PROVE NodeInv'
PROOF
  <1> DEFINE p == Pruned(co)
             w == miner[m]
             r == RecordOf(p, w.id)
             claim == ClaimForCanonicalCommit(p, r)
             usable == w.prior.tip = tip /\ CurrentTicket(p, w.id)
             v == [w EXCEPT !.pc = "commit"]
             u == [Idle EXCEPT !.pc = "drop", !.id = w.id]
             q == [r EXCEPT !.claimed = TRUE]
  <1>1. /\ Good(p) /\ IsState(p) /\ Kept(p) /\ Shrinks(co, p) /\ p.records \subseteq co.records
        /\ p.next_id = co.next_id
    BY PrunedState
  <1>2. /\ w.pc = "ticket" /\ lock = "free" /\ UNCHANGED <<now, tip, safe, vgen, writer, active>>
        /\ \/ /\ usable /\ claim.claimed /\ co' = claim.co /\ lock' = "miner"
              /\ miner' = [miner EXCEPT ![m] = v] /\ sink' = (w.prior = Here /\ safe)
           \/ /\ co' = IF usable THEN claim.co ELSE p
              /\ ~(usable /\ claim.claimed)
              /\ miner' = [miner EXCEPT ![m] = u] /\ lock' = lock /\ sink' = sink
    BY DEF ClaimTicket, Becomes, Reached
  <1>3. Good(co')
    <2>1. MinerStep
      BY DEF MinerStep
    <2>2. QED
      BY <2>1, MinerKeeps DEF NodeInv
  <1>4. w \in MinerState /\ Idle \in MinerState /\ Idle.prior.vgen <= vgen
    BY IdleMiner DEF NodeInv, Typed
  <1>5. usable => r \in p.records /\ r.id = w.id /\ r.binding.vgen = vgen /\ w.prior.tip = tip
    <2>1. Has(p, w.id) => r.id = w.id
      BY DEF Has, RecordOf
    <2>2. QED
      BY <2>1 DEF CurrentTicket, Live
  <1> HIDE DEF p, r
  <1>6. /\ \A x \in co.records : x.id = w.id => x.kind = "Local" /\ x.binding = w.prior
        /\ \A a \in active : a.id # w.id
    BY <1>2, SMTT(30) DEF NodeInv, Ticketed
  <1>7. usable => r \in co.records /\ r.kind = "Local" /\ r.binding = w.prior /\ r \in Lease
    BY <1>1, <1>5, <1>6 DEF Kept
  <1> HIDE DEF w
  <1>8. usable => w.prior = Here
    BY <1>4, <1>5, <1>7 DEF MinerState, Binding, Here
  <1>9. usable =>
            /\ Kept(claim.co) /\ claim.co.spent = p.spent /\ claim.co.next_id = p.next_id
            /\ \/ claim.co.records = p.records /\ ~claim.claimed
               \/ claim.co.records = {q} /\ p.records = {r} /\ claim.claimed
    <2>1. SUFFICES ASSUME usable
                   PROVE /\ Kept(claim.co) /\ claim.co.spent = p.spent /\ claim.co.next_id = p.next_id
                         /\ \/ claim.co.records = p.records /\ ~claim.claimed
                            \/ claim.co.records = {q} /\ p.records = {r} /\ claim.claimed
      BY SMTT(30)
    <2>2. r \in p.records /\ r.kind = "Local" /\ IsState(p) /\ Kept(p)
      BY <1>1, <1>5, <1>7, <2>1
    <2>3. \A x, y : x = ClaimForCanonicalCommit(p, r) /\ y = [r EXCEPT !.claimed = TRUE] =>
            /\ Kept(x.co) /\ x.co.spent = p.spent /\ x.co.next_id = p.next_id
            /\ \/ x.co.records = p.records /\ ~x.claimed
               \/ x.co.records = {y} /\ p.records = {r} /\ x.claimed
      BY ONLY <2>2, ClaimKept
    <2>4. QED
      BY <2>3, Zenon
  <1> HIDE DEF claim, usable
  <1>10. CASE usable /\ claim.claimed /\ co' = claim.co /\ lock' = "miner"
              /\ miner' = [miner EXCEPT ![m] = v] /\ sink' = (w.prior = Here /\ safe)
    <2>1. /\ Kept(co') /\ co'.spent = p.spent /\ co'.next_id = co.next_id /\ co'.records = {q}
      BY <1>1, <1>9, <1>10
    <2>2. q.id = w.id /\ q.kind = "Local" /\ q.binding = r.binding /\ r.id = w.id /\ r \in co.records
      BY <1>5, <1>7, <1>10 DEF Lease
    <2> HIDE DEF q
    <2>3. v \in MinerState /\ v.pc = "commit" /\ v.prior = w.prior
      BY <1>4 DEF MinerState
    <2> HIDE DEF v
    <2>4. w.prior.vgen <= vgen /\ w.prior.tip < MaxTip /\ writer.pc \notin {"set", "bump", "cancel"}
      BY <1>2 DEF NodeInv, Sequenced, w
    <2>5. safe /\ w.prior = Here
      <3>1. Verified(w)
        BY <1>2 DEF Verified
      <3>2. w.prior.vgen = vgen
        BY <1>8, <1>10 DEF Here
      <3>3. QED
        BY <1>8, <1>10, <2>4, <3>1, <3>2 DEF NodeInv, Prepared, w
    <2>6. /\ Typed' /\ Sequenced' /\ Prepared'
          /\ miner'[m] = v /\ \A n \in Miners : n # m => miner'[n] = miner[n]
      <3>1. w.prior.tip = tip
        BY <1>5, <1>10
      <3>2. QED
        BY <1>2, <1>10, <2>3, <2>4, <2>5, <3>1, MinerTurns, Zenon
    <2>7. Granted' = {}
      BY <1>2, <1>6, <2>1, <2>2 DEF Granted
    <2>8. Granting'
      <3>1. /\ \A a \in active' : a.id < co'.next_id
            /\ \A a \in active', x \in co'.records : a.id = x.id => a.binding = x.binding
        BY <1>2, <1>6, <2>1, <2>2 DEF NodeInv, Granting
      <3>2. QED
        BY <2>7, <3>1 DEF Granting
    <2>9. Ticketed'
      <3>1. ASSUME NEW n \in Miners, miner'[n].pc = "ticket"
            PROVE  /\ miner'[n].id < co'.next_id
                   /\ \A x \in co'.records :
                          x.id = miner'[n].id => x.kind = "Local" /\ x.binding = miner'[n].prior
                   /\ \A a \in active' : a.id # miner'[n].id
        <4>1. n # m /\ miner'[n] = miner[n]
          BY <2>3, <2>6, <3>1
        <4>2. /\ miner[n].id < co.next_id
              /\ \A x \in co.records :
                     x.id = miner[n].id => x.kind = "Local" /\ x.binding = miner[n].prior
              /\ \A a \in active : a.id # miner[n].id
          BY <3>1, <4>1 DEF NodeInv, Ticketed
        <4>3. QED
          BY <1>2, <2>1, <2>2, <4>1, <4>2
      <3>2. QED
        BY <3>1 DEF Ticketed
    <2>10. Remembered'
      <3>1. {s \in co.spent : s.forget > now} \subseteq co'.spent
        BY <1>1, <2>1 DEF Shrinks
      <3>2. QED
        BY <1>2, <3>1, StillRemembered DEF Remembered, Usable
    <2>11. Good(co)' /\ Kept(co)' /\ sink'
      BY <1>2, <1>3, <1>10, <2>1, <2>5, Zenon DEF Good, IsState, Kept, Pending
    <2>12. QED
      BY <2>6, <2>8, <2>9, <2>10, <2>11 DEF NodeInv
  <1>11. CASE /\ co' = IF usable THEN claim.co ELSE p
              /\ ~(usable /\ claim.claimed)
              /\ miner' = [miner EXCEPT ![m] = u] /\ lock' = lock /\ sink' = sink
    <2>1. Shrinks(p, co')
      <3>1. CASE usable
        <4>1. Kept(co') /\ co'.records = p.records /\ co'.spent = p.spent /\ co'.next_id = p.next_id
          BY <1>9, <1>11, <3>1
        <4>2. co'.gen \in Nat /\ co'.epoch \in Nat \ {0}
          BY <4>1 DEF Kept
        <4>3. QED
          BY <4>1, <4>2, SameShrinks
      <3>2. CASE ~usable
        BY <1>11, <3>2, SameShrinks
      <3>3. QED
        BY <3>1, <3>2
    <2>2. Shrinks(co, co')
      BY <1>1, <2>1, ShrinksTwice
    <2>3. u \in MinerState /\ u.pc = "drop" /\ u.prior = Idle.prior
      BY <1>4, Zenon DEF MinerState
    <2> HIDE DEF u
    <2>4. ~Verified(u)
      BY <2>3 DEF Verified
    <2>5. QED
      BY <1>2, <1>3, <1>4, <1>11, <2>2, <2>3, <2>4, MinerMoves, Zenon
  <1>12. QED
    BY <1>2, <1>10, <1>11

\* The miner's block is connected: no signer has a lease then.
LEMMA ConnectKeeps ==
    ASSUME Limits, NodeInv, NEW m \in Miners, ConnectOwnBlock(m) PROVE NodeInv'
PROOF
  <1> DEFINE u == [Idle EXCEPT !.pc = "drop", !.id = miner[m].id]
  <1>1. /\ miner[m].pc = "commit" /\ tip' = tip + 1 /\ lock' = "free"
        /\ miner' = [miner EXCEPT ![m] = u]
        /\ UNCHANGED <<now, safe, vgen, co, writer, active, sink>>
    BY DEF ConnectOwnBlock, Becomes
  <1>2. /\ Idle \in MinerState /\ Idle.prior.vgen <= vgen /\ miner \in [Miners -> MinerState]
    BY IdleMiner DEF NodeInv, Typed
  <1>3. u \in MinerState /\ u.pc = "drop" /\ u.prior = Idle.prior
    <2>1. miner[m].id \in Nat
      BY <1>2 DEF MinerState
    <2>2. QED
      BY <1>2, <2>1, Zenon DEF MinerState
  <1> HIDE DEF u
  <1>4. /\ miner' \in [Miners -> MinerState] /\ miner'[m] = u
        /\ \A n \in Miners : n # m => miner'[n] = miner[n]
    BY <1>1, <1>2, <1>3
  <1>5. /\ lock = "miner" /\ miner[m].prior.tip = tip /\ tip < MaxTip
        /\ writer.pc \notin {"set", "bump", "cancel"}
        /\ \A n \in Miners : miner[n].pc = "commit" => n = m
    BY <1>1 DEF NodeInv, Sequenced
  <1>6. Typed'
    <2>1. tip \in 0..MaxTip /\ tip' \in 0..MaxTip
      BY <1>1, <1>5 DEF NodeInv, Typed, Limits
    <2>2. QED
      BY <1>1, <1>4, <2>1 DEF NodeInv, Typed
  <1>7. Sequenced'
    <2>1. Sequenced
      BY DEF NodeInv
    <2>2. /\ vgen' <= writer'.changes + 1
          /\ writer'.pc \in {"wait", "lock", "set", "bump"} => vgen' <= writer'.changes
          /\ writer'.pc \notin {"set", "bump", "cancel"}
      BY <1>1, <1>5, <2>1 DEF Sequenced
    <2>3. \A n \in Miners : miner'[n].pc # "commit"
      BY <1>3, <1>4, <1>5
    <2>4. \A n \in Miners : miner'[n].pc \notin {"idle", "drop"} => miner'[n].prior.tip < MaxTip
      BY <1>3, <1>4, <2>1 DEF Sequenced
    <2>5. \A n \in Miners : miner'[n].prior.vgen <= vgen'
      BY <1>1, <1>2, <1>3, <1>4, <2>1 DEF Sequenced
    <2>6. QED
      BY <2>2, <2>3, <2>4, <2>5 DEF Sequenced
  <1>8. Prepared'
    <2>1. \A n \in Miners : n # m => (Verified(miner'[n]) <=> Verified(miner[n]))
      BY <1>4 DEF Verified
    <2>2. ~Verified(miner'[m])
      BY <1>3, <1>4 DEF Verified
    <2>3. \A n \in Miners : Verified(miner'[n]) /\ miner'[n].prior.vgen = vgen' /\ writer'.pc # "bump" => safe'
      BY <1>1, <1>4, <2>1, <2>2, SMTT(30) DEF NodeInv, Prepared
    <2>4. QED
      BY <2>3 DEF Prepared, Verified
  <1>9. Granting'
    <2>1. Granted = {} /\ Granted' = Granted
      BY <1>1, <1>5 DEF NodeInv, Granting, Granted
    <2>2. QED
      BY <1>1, <2>1 DEF NodeInv, Granting
  <1>10. Ticketed'
    BY <1>1, <1>3, <1>4, SMTT(30) DEF NodeInv, Ticketed
  <1>11. Good(co)' /\ Kept(co)' /\ Remembered' /\ sink'
    BY <1>1 DEF NodeInv, Good, IsState, Kept, Pending, Remembered, Usable
  <1>12. QED
    BY <1>6, <1>7, <1>8, <1>9, <1>10, <1>11 DEF NodeInv

\* A writer's turn: it publishes other facts only while it holds the sequencer,
\* and hands that back only when no signer's lease is left.
LEMMA WriterTurns ==
    ASSUME Limits, NodeInv, Shrinks(co, co'), Good(co'), writer' \in WriterState,
           safe' \in BOOLEAN, lock' \in {"free", "miner", "writer"}, vgen' \in 1..(MaxChanges + 1),
           vgen <= vgen', vgen' <= writer'.changes + 1,
           writer'.pc \in {"wait", "lock", "set", "bump"} => vgen' <= writer'.changes,
           writer'.pc \in {"set", "bump", "cancel"} => lock' = "writer",
           lock = "miner" <=> lock' = "miner",
           writer'.pc # "bump" => vgen < vgen' \/ (writer.pc # "bump" /\ UNCHANGED <<safe, vgen>>),
           writer'.pc \in {"set", "bump"} /\ writer'.kind = "latch" => Granted' = {},
           lock' = "free" => Granted' = {} \/ (lock = "free" /\ UNCHANGED <<safe, vgen>>),
           UNCHANGED <<now, tip, miner, active, sink>>
    PROVE  NodeInv'
PROOF
  <1>1. now' = now /\ active' \subseteq active
    OBVIOUS
  <1>2. /\ Kept(co)' /\ Granted' \subseteq Granted /\ Remembered'
        /\ co'.records \subseteq co.records /\ co'.next_id = co.next_id
        /\ \A a \in active' : a.id < co'.next_id
        /\ \A a \in active', r \in co'.records : a.id = r.id => a.binding = r.binding
    BY <1>1, GoingKeeps
  <1>3. Typed'
    BY DEF NodeInv, Typed
  <1>4. \A m \in Miners : miner[m].prior.vgen \in Nat /\ miner[m].prior.vgen <= vgen
    BY DEF NodeInv, Typed, MinerState, Binding, Sequenced
  <1>5. vgen \in Nat /\ vgen' \in Nat
    BY DEF NodeInv, Typed, Limits
  <1>6. Sequenced'
    <2>1. \A m \in Miners : miner'[m].prior.vgen <= vgen'
      BY <1>4, <1>5, SMTT(30)
    <2>2. \A m \in Miners : miner'[m].pc = "commit" => lock' = "miner" /\ miner'[m].prior.tip = tip'
      BY DEF NodeInv, Sequenced
    <2>3. /\ \A m, n \in Miners : miner'[m].pc = "commit" /\ miner'[n].pc = "commit" => m = n
          /\ \A m \in Miners : miner'[m].pc \notin {"idle", "drop"} => miner'[m].prior.tip < MaxTip
      BY DEF NodeInv, Sequenced
    <2>4. QED
      BY <2>1, <2>2, <2>3 DEF Sequenced
  <1>7. Granting'
    <2>1. lock' = "miner" => Granted' = {}
      BY <1>2 DEF NodeInv, Granting
    <2>2. lock' = "free" => \A r \in Granted' : r.binding = Here' /\ safe'
      BY <1>2 DEF NodeInv, Granting, Here
    <2>3. \A r \in Granted' : r.binding.tip = tip'
      BY <1>2 DEF NodeInv, Granting
    <2>4. QED
      BY <1>2, <2>1, <2>2, <2>3, SMTT(30) DEF Granting
  <1>8. Ticketed'
    BY <1>2 DEF NodeInv, Ticketed
  <1>9. Prepared'
    <2>1. ASSUME NEW m \in Miners, Verified(miner[m]), miner[m].prior.vgen = vgen', writer'.pc # "bump"
          PROVE  safe'
      <3>1. ~(vgen < vgen')
        BY <1>4, <1>5, <2>1
      <3>2. writer.pc # "bump" /\ safe' = safe /\ vgen' = vgen
        BY <2>1, <3>1
      <3>3. QED
        BY <2>1, <3>2 DEF NodeInv, Prepared
    <2>2. QED
      BY <2>1 DEF Prepared, Verified
  <1>10. Good(co)' /\ sink'
    BY SMTT(30) DEF Good, IsState, NodeInv
  <1>11. QED
    BY <1>2, <1>3, <1>6, <1>7, <1>8, <1>9, <1>10 DEF NodeInv

\* What a writer's step knows.
LEMMA WriterFacts ==
    ASSUME Limits, NodeInv
    PROVE  /\ writer \in WriterState /\ safe \in BOOLEAN /\ lock \in {"free", "miner", "writer"}
           /\ vgen \in 1..(MaxChanges + 1) /\ vgen \in Nat /\ writer.changes \in 0..MaxChanges
           /\ vgen <= vgen /\ vgen <= writer.changes + 1
           /\ writer.pc \in {"wait", "lock", "set", "bump"} => vgen <= writer.changes
           /\ writer.pc \in {"set", "bump", "cancel"} => lock = "writer"
           /\ Shrinks(co, co) /\ IsState(co) /\ Good(co) /\ MaxChanges \in Nat /\ now \in Int
PROOF
  <1>1. /\ writer \in WriterState /\ vgen \in 1..(MaxChanges + 1) /\ MaxChanges \in Nat /\ now \in Int
        /\ lock \in {"free", "miner", "writer"}
    BY DEF NodeInv, Typed, Limits
  <1>2. safe \in BOOLEAN
    BY DEF NodeInv, Typed
  <1>3. vgen \in Nat /\ vgen <= vgen /\ writer.changes \in 0..MaxChanges
    BY <1>1 DEF WriterState
  <1>4. QED
    BY <1>1, <1>2, <1>3, IdleMiner DEF NodeInv, Sequenced, Good

\* CloseWorkAdmissionBounded_.
LEMMA WriterCloseKeeps ==
    ASSUME Limits, NodeInv, NEW kind \in {"latch", "peer"}, WriterClose(kind) PROVE NodeInv'
PROOF
  <1>1. /\ writer.pc = "idle" /\ writer.changes < MaxChanges /\ co' = BeginClose(co)
        /\ writer'.pc \in {"lock", "wait"} /\ writer'.changes = writer.changes + 1
        /\ UNCHANGED <<now, tip, safe, vgen, lock, miner, active, sink>>
        /\ \E pc \in {"lock", "wait"} :
              writer' = [pc |-> pc, kind |-> kind, changes |-> writer.changes + 1, until |-> now + HardStop]
    BY DEF WriterClose
  <1>2. writer' \in WriterState
    BY <1>1, WriterFacts DEF WriterState, Limits
  <1>3. Shrinks(co, co') /\ Good(co')
    BY <1>1, WriterFacts, BeginCloseShrinks, BeginCloseGood
  <1>4. vgen' <= writer'.changes /\ vgen' <= writer'.changes + 1
    BY <1>1, WriterFacts
  <1>5. QED
    BY <1>1, <1>2, <1>3, <1>4, WriterFacts, WriterTurns

\* Its loop ends.
LEMMA WriterWaitKeeps ==
    ASSUME Limits, NodeInv, WriterWait PROVE NodeInv'
PROOF
  <1>1. /\ writer.pc = "wait" /\ writer' = [writer EXCEPT !.pc = "lock", !.until = 0]
        /\ co' \in {Pruned(co), CancelAndClose(co)}
        /\ UNCHANGED <<now, tip, safe, vgen, lock, miner, active, sink>>
    BY DEF WriterWait
  <1>2. writer' \in WriterState /\ writer'.pc = "lock" /\ writer'.changes = writer.changes
    <2>1. writer \in WriterState
      BY WriterFacts
    <2>2. writer' = [pc |-> "lock", kind |-> writer.kind, changes |-> writer.changes, until |-> 0]
      BY <1>1, <2>1, Zenon DEF WriterState
    <2>3. QED
      BY <2>1, <2>2 DEF WriterState
  <1>3. Shrinks(co, co') /\ Good(co')
    BY <1>1, WriterFacts, PrunedShrinks, PrunedGood, CancelAndCloseShrinks, CancelAndCloseGood
  <1>4. QED
    BY <1>1, <1>2, <1>3, WriterFacts, WriterTurns

\* The sequencer is taken.
LEMMA WriterLockKeeps ==
    ASSUME Limits, NodeInv, WriterLock PROVE NodeInv'
PROOF
  <1>1. /\ writer.pc = "lock" /\ lock = "free" /\ lock' = "writer"
        /\ writer' = [writer EXCEPT !.pc = "set", !.until = 0]
        /\ co' = IF writer.kind = "latch" THEN CancelAndClose(co) ELSE co
        /\ UNCHANGED <<now, tip, safe, vgen, miner, active, sink>>
    BY DEF WriterLock
  <1>2. /\ writer' \in WriterState /\ writer'.pc = "set" /\ writer'.changes = writer.changes
        /\ writer'.kind = writer.kind
    <2>1. writer \in WriterState
      BY WriterFacts
    <2>2. writer' = [pc |-> "set", kind |-> writer.kind, changes |-> writer.changes, until |-> 0]
      BY <1>1, <2>1, Zenon DEF WriterState
    <2>3. QED
      BY <2>1, <2>2 DEF WriterState
  <1>3. /\ Shrinks(co, co') /\ Good(co')
        /\ writer.kind = "latch" => co'.records = {}
    BY <1>1, WriterFacts, CancelAndCloseShrinks, CancelAndCloseGood
  <1>4. writer'.kind = "latch" => Granted' = {}
    BY <1>2, <1>3 DEF Granted
  <1>5. QED
    BY <1>1, <1>2, <1>3, <1>4, WriterFacts, WriterTurns

\* The fact changes.
LEMMA WriterSetKeeps ==
    ASSUME Limits, NodeInv, WriterSet PROVE NodeInv'
PROOF
  <1>1. /\ writer.pc = "set" /\ writer' = [writer EXCEPT !.pc = "bump"]
        /\ UNCHANGED <<now, tip, vgen, lock, co, miner, active, sink>>
    BY DEF WriterSet
  <1>2. /\ writer' \in WriterState /\ writer'.pc = "bump" /\ writer'.changes = writer.changes
        /\ writer'.kind = writer.kind
    BY <1>1, WriterFacts DEF WriterState
  <1>3. safe' \in BOOLEAN
    BY Zenon DEF WriterSet
  <1>4. writer'.kind = "latch" => Granted' = {}
    BY <1>1, <1>2 DEF NodeInv, Granting, Granted
  <1>5. lock = "writer" /\ lock' = "writer" /\ Shrinks(co, co') /\ Good(co')
    BY <1>1, WriterFacts
  <1>6. QED
    BY <1>1, <1>2, <1>3, <1>4, <1>5, WriterFacts, WriterTurns

\* The new generation is published.
LEMMA BumpKeeps ==
    ASSUME Limits, NodeInv, BumpValidationGeneration PROVE NodeInv'
PROOF
  <1>1. /\ writer.pc = "bump" /\ vgen' = vgen + 1
        /\ UNCHANGED <<now, tip, safe, co, miner, active, sink>>
        /\ \/ writer.kind = "latch" /\ lock' = "free" /\ writer' = [writer EXCEPT !.pc = "idle"]
           \/ lock' = lock /\ writer' = [writer EXCEPT !.pc = "cancel"]
    BY DEF BumpValidationGeneration
  <1>2. /\ writer' \in WriterState /\ writer'.pc \in {"idle", "cancel"}
        /\ writer'.changes = writer.changes /\ (writer'.pc = "cancel" => lock' = lock)
    BY <1>1, WriterFacts DEF WriterState
  <1>3. vgen' \in 1..(MaxChanges + 1) /\ vgen < vgen' /\ vgen <= vgen' /\ vgen' <= writer'.changes + 1
    BY <1>1, <1>2, WriterFacts
  <1>4. /\ lock = "writer" /\ lock' \in {"free", "writer"} /\ Shrinks(co, co') /\ Good(co')
        /\ safe' \in BOOLEAN
    BY <1>1, WriterFacts
  <1>5. lock' = "free" => Granted' = {}
    BY <1>1, <1>4 DEF NodeInv, Granting, Granted
  <1>6. QED
    BY <1>1, <1>2, <1>3, <1>4, <1>5, WriterTurns

\* ~PeerWorkViewTransitionPermit.
LEMMA PublishedKeeps ==
    ASSUME Limits, NodeInv, PeerViewPublished PROVE NodeInv'
PROOF
  <1>1. /\ writer.pc = "cancel" /\ lock' = "free" /\ co' = CancelAndClose(co)
        /\ writer' = [writer EXCEPT !.pc = "idle"]
        /\ UNCHANGED <<now, tip, safe, vgen, miner, active, sink>>
    BY DEF PeerViewPublished
  <1>2. writer' \in WriterState /\ writer'.pc = "idle" /\ writer'.changes = writer.changes
    BY <1>1, WriterFacts DEF WriterState
  <1>3. Shrinks(co, co') /\ Good(co') /\ co'.records = {} /\ lock = "writer"
    BY <1>1, WriterFacts, CancelAndCloseShrinks, CancelAndCloseGood
  <1>4. Granted' = {}
    BY <1>3 DEF Granted
  <1>5. QED
    BY <1>1, <1>2, <1>3, <1>4, WriterFacts, WriterTurns

\* A peer's block moves the tip only when no lease is left.
LEMMA ForeignKeeps ==
    ASSUME Limits, NodeInv, AddForeignBlock PROVE NodeInv'
PROOF
  <1>1. /\ lock = "free" /\ tip < MaxTip /\ co' = BeginClose(co)
        /\ \/ tip' = tip
           \/ tip' = tip + 1 /\ co'.phase = "Closed"
        /\ UNCHANGED <<now, safe, vgen, lock, miner, writer, active, sink>>
    BY DEF AddForeignBlock
  <1>2. Shrinks(co, co') /\ Good(co')
    BY <1>1, WriterFacts, BeginCloseShrinks, BeginCloseGood
  <1>3. now' = now /\ active' \subseteq active /\ sink'
    BY <1>1 DEF NodeInv
  <1>4. CASE tip' = tip
    BY <1>1, <1>2, <1>3, <1>4, EndingKeeps
  <1>5. CASE tip' = tip + 1 /\ co'.phase = "Closed"
    <2>1. /\ Kept(co)' /\ Granted' \subseteq Granted /\ Remembered'
          /\ co'.records \subseteq co.records /\ co'.next_id = co.next_id
          /\ \A a \in active' : a.id < co'.next_id
          /\ \A a \in active', r \in co'.records : a.id = r.id => a.binding = r.binding
      BY <1>2, <1>3, GoingKeeps
    <2>2. co'.records = {} /\ Granted' = {}
      BY <1>2, <1>5 DEF Good, Granted
    <2>3. tip' \in 0..MaxTip
      BY <1>1, <1>5, SMTT(30) DEF NodeInv, Typed, Limits
    <2>4. Typed' /\ Sequenced'
      BY <1>1, <2>3, SMTT(30) DEF NodeInv, Typed, Sequenced
    <2>5. Granting' /\ Ticketed'
      BY <1>1, <2>1, <2>2, SMTT(30) DEF NodeInv, Granting, Ticketed
    <2>6. Prepared'
      BY <1>1 DEF NodeInv, Prepared, Verified
    <2>7. Good(co)'
      BY <1>2 DEF Good, IsState
    <2>8. QED
      BY <1>3, <2>1, <2>4, <2>5, <2>6, <2>7, SMTT(30) DEF NodeInv
  <1>6. QED
    BY <1>1, <1>4, <1>5

-----------------------------------------------------------------------------
(* The theorems about the node *)

\* NodeInv is inductive.
THEOREM NodeInvariant ==
    ASSUME Limits PROVE Spec => []NodeInv
PROOF
  <1>1. NodeInv /\ [Next]_vars => NodeInv'
    <2>1. SUFFICES ASSUME NodeInv, [Next]_vars PROVE NodeInv'
      OBVIOUS
    <2>2. CASE UNCHANGED vars
      <3>1. UNCHANGED <<now, tip, safe, vgen, lock, co, miner, writer, active, sink>>
        BY <2>2, SMTT(30) DEF vars
      <3>2. Good(co)' /\ Kept(co)' /\ sink'
        BY <2>1, <3>1, SMTT(30) DEF NodeInv, Good, IsState, Kept, Pending
      <3>3. Typed' /\ Sequenced' /\ Prepared'
        BY <2>1, <3>1, SMTT(30) DEF NodeInv, Typed, Sequenced, Prepared, Verified
      <3>4. Granting' /\ Ticketed' /\ Remembered'
        BY <2>1, <3>1 DEF NodeInv, Granting, Granted, Here, Ticketed, Remembered, Usable
      <3>5. QED
        BY <3>2, <3>3, <3>4 DEF NodeInv
    <2>3. CASE MinerStep
      BY <2>1, <2>3, SampleKeeps, ReadKeeps, BindKeeps, OpenKeeps, AcquireKeeps, ClaimKeeps,
         ConnectKeeps, DropKeeps, SMTT(30) DEF MinerStep
    <2>4. CASE SignerStep
      BY <2>1, <2>4, IssueKeeps, BeginKeeps, PermitKeeps, CancelKeeps, SubmitKeeps DEF SignerStep
    <2>5. CASE WriterStep
      BY <2>1, <2>5, WriterWaitKeeps, WriterLockKeeps, WriterSetKeeps, BumpKeeps, PublishedKeeps
         DEF WriterStep
    <2>6. QED
      BY <2>1, <2>2, <2>3, <2>4, <2>5, TickKeeps, ForeignKeeps, WriterCloseKeeps DEF Next
  <1>2. QED
    BY <1>1, InitNode, PTL DEF Spec

\* Whatever reaches an authorized sink met exactly the facts its lease was granted
\* under: for any number of miners, tokens, lease times and margins.
THEOREM SinksMeetTheirFacts ==
    ASSUME Limits PROVE Spec => []SinkMetItsFacts
PROOF
  <1>1. NodeInv => SinkMetItsFacts
    BY DEF NodeInv, SinkMetItsFacts
  <1>2. QED
    BY <1>1, NodeInvariant, PTL

\* A signer whose lease the coordinator still knows signs for the tip, and while
\* nobody holds the sequencer, on the published facts.
THEOREM SigningStaysOnFacts ==
    ASSUME Limits PROVE Spec => []SigningStandsOnFacts
PROOF
  <1>1. NodeInv => SigningStandsOnFacts
    <2>1. SUFFICES ASSUME NodeInv, NEW a \in active, Has(co, a.id)
                   PROVE  a.binding.tip = tip /\ (lock = "free" => a.binding = Here /\ safe)
      BY SMTT(30) DEF SigningStandsOnFacts
    <2>2. PICK r \in co.records : r.id = a.id
      BY <2>1, SMTT(30) DEF Has
    <2>3. r \in Granted /\ a.binding = r.binding
      BY <2>1, <2>2 DEF Granted, NodeInv, Granting
    <2>4. QED
      BY <2>1, <2>3 DEF NodeInv, Granting
  <1>2. QED
    BY <1>1, NodeInvariant, PTL

\* The coordinator: closed it holds no lease, a commit is alone, the list of spent
\* tokens never overflows, and a signer's token stays on it until its lease ends.
THEOREM CoordinatorStaysSound ==
    ASSUME Limits PROVE Spec => []CoordinatorSound
PROOF
  <1>1. ASSUME NodeInv PROVE CoordinatorSound
    <2>1. TypeOK
      <3>1. /\ now \in 0..MaxTime /\ tip \in 0..MaxTip /\ vgen \in 1..(MaxChanges + 1)
            /\ lock \in {"free", "miner", "writer"} /\ co.phase \in {"Closed", "Open", "Closing"}
        BY <1>1 DEF NodeInv, Typed, Good
      <3>2. safe \in BOOLEAN
        BY <1>1 DEF NodeInv, Typed
      <3>3. \A r \in co.records :
               /\ r.kind \in {"Local", "RemotePending", "RemoteConsumed"}
               /\ r.binding \in Binding /\ r.token \in Tokens \cup {NoToken}
               /\ (r.kind = "RemotePending") <=> (r.token # NoToken)
        BY <1>1 DEF NodeInv, Kept, Lease
      <3>4. (\A s \in co.spent : s.token \in Tokens) /\ \A a \in active : a.binding \in Binding
        BY <1>1 DEF NodeInv, Kept, Used, Typed, Entry
      <3>5. QED
        BY <3>1, <3>2, <3>3, <3>4 DEF TypeOK
    <2>2. ClosedIsEmpty /\ CommitIsExclusive /\ SpentNeverFull
      BY <1>1 DEF NodeInv, Good, ClosedIsEmpty, CommitIsExclusive, Kept, SpentNeverFull
    <2>3. ActiveTokenStaysSpent
      <3>1. \A r \in co.records, s \in co.spent : r.token # s.token
        BY <1>1 DEF NodeInv, Kept
      <3>2. QED
        BY <1>1, <3>1, SMTT(30) DEF NodeInv, Remembered, ActiveTokenStaysSpent
    <2>4. QED
      BY <2>1, <2>2, <2>3 DEF CoordinatorSound
  <1>2. QED
    BY <1>1, NodeInvariant, PTL
=============================================================================
