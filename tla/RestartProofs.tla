---------------------------- MODULE RestartProofs ----------------------------
(***************************************************************************)
(* Three programs that start again from what they kept, each for any       *)
(* number of crashes, power cuts and failed writes.                        *)
(*                                                                         *)
(* The finality daemon (FinalityDaemon): a validator that runs it is never *)
(* slashable, for any chains its node may be on and any number of          *)
(* reorganizations, also in the middle of a Tick.  The argument: what is   *)
(* sent is always the journal's last vote; every vote that was sent is     *)
(* behind the journal (Behind); and a vote replaces the journal's last one *)
(* only if it is of a newer frame or the precommit of the same claim       *)
(* (Succeeds).                                                             *)
(*                                                                         *)
(* The endorsement history (SigningState) keeps a key from signing two     *)
(* blocks of one height, for any programs that share the key and any       *)
(* heights and hashes.  The argument: only the holder of the lock          *)
(* appends to the shared file, what it has in memory of that file is on    *)
(* stable storage, the file never holds two decisions for one height, and  *)
(* a decision reaches the signature through that file.                     *)
(*                                                                         *)
(* The pool's journal (PoolJournal) never serves less than it has served,  *)
(* is accepted again after the faults the code is built for, and           *)
(* implements the append-only log of ServiceLog.                           *)
(***************************************************************************)
EXTENDS FinalityDaemon, TLAPS

\* The fields of a vote the argument uses.
IsVote(v) ==
    /\ {"phase", "source", "target"} \subseteq DOMAIN v
    /\ v.phase \in Phase /\ v.target.height \in Nat

\* A lock that is held stands on a target as LockOn makes it.
IsLock(l) == l.held => l = LockOn(l.target) /\ l.target.height \in Nat

\* u may replace last in the journal.
Succeeds(u, last) ==
    \/ FrameNewer(u.target.height, last.target.height)
    \/ last.phase = PREVOTE /\ u = [last EXCEPT !.phase = PRECOMMIT]

\* A journal that ends in last remembers v.
Behind(v, last) ==
    \/ last = v
    \/ last = [v EXCEPT !.phase = PRECOMMIT]
    \/ FrameNewer(last.target.height, v.target.height)

\* The lock stands on the target of v or on a newer frame.
Covers(l, v) ==
    l.held /\ (l.target = v.target \/ FrameNewer(l.target.height, v.target.height))

\* The lock covers every precommit among these votes.
LocksCover(l, votes) == \A v \in votes : v # NoVote /\ v.phase = PRECOMMIT => Covers(l, v)

\* The votes whose precommits bind the validator.
Binding == released \cup {disk.last_vote}

\* Tick's locals and the process's fields.
Shapes ==
    /\ tip \in Nat /\ tick.height \in Nat
    /\ {"height", "source", "target", "extends_lock", "vote", "grant", "reorgs"}
           \subseteq DOMAIN tick
    /\ {"lock", "journal", "delivered", "prevote_qc", "invalid"} \subseteq DOMAIN memory
    /\ pc \in {"idle", "snapshot", "prevote_qc", "target", "lock", "journal", "work", "sign",
               "send", "work_again", "resend"}
    /\ pc \in {"lock", "journal", "work", "sign"} => tick.target.height = tick.height
    /\ memory.invalid \in BOOLEAN

\* Memory and journal agree unless the daemon has stopped.
InStep ==
    /\ memory.invalid => pc = "idle"
    /\ ~memory.invalid => memory.journal = disk

\* The vote in the making, and the vote on its way out.
TickVote ==
    /\ pc \in {"work", "sign"} =>
           /\ IsVote(tick.vote) /\ tick.vote.target = tick.target
           /\ disk.last_vote # NoVote => Succeeds(tick.vote, disk.last_vote)
    /\ pc \in {"work_again", "resend", "send"} =>
           tick.vote = disk.last_vote /\ disk.last_vote # NoVote

\* The journal remembers what was sent, and the locks cover it.
Journaled ==
    /\ disk.last_vote # NoVote => IsVote(disk.last_vote)
    /\ \A v \in released : IsVote(v) /\ disk.last_vote # NoVote /\ Behind(v, disk.last_vote)
    /\ IsLock(memory.lock) /\ IsLock(disk.lock)
    /\ LocksCover(memory.lock, Binding) /\ LocksCover(disk.lock, Binding)

\* The inductive invariant.
DaemonInv == Shapes /\ InStep /\ TickVote /\ Journaled /\ ReleasedNeverSlashable

-----------------------------------------------------------------------------
\* Epochs and rounds of heights are integers (EpochOf, CheckpointRound).
LEMMA FrameType ==
    ASSUME NEW h \in Nat PROVE EpochOf(h) \in Int /\ CheckpointRound(h) \in Int
PROOF
  <1>1. CHECKPOINT_INTERVAL \in Nat \ {0} /\ EPOCH_BLOCKS \in Nat \ {0}
    BY ProfileAssumption
  <1>2. h % EPOCH_BLOCKS \in Nat
    BY <1>1
  <1>3. QED
    BY <1>1, <1>2 DEF EpochOf, CheckpointRound

\* ConsensusRoundNewer is transitive.
LEMMA FrameTransitive ==
    ASSUME NEW a \in Nat, NEW b \in Nat, NEW c \in Nat, FrameNewer(a, b), FrameNewer(b, c)
    PROVE  FrameNewer(a, c)
BY FrameType DEF FrameNewer, ConsensusRoundNewer

\* A newer frame is another frame.
LEMMA FrameDistinct ==
    ASSUME NEW a \in Nat, NEW b \in Nat, FrameNewer(a, b)
    PROVE  ~SameFrame(a, b) /\ ~SameFrame(b, a)
BY FrameType DEF FrameNewer, ConsensusRoundNewer, SameFrame

\* What a journal remembers, its successor remembers.
LEMMA BehindSuccessor ==
    ASSUME NEW v, NEW last, NEW u, IsVote(v), IsVote(last), IsVote(u),
           Behind(v, last), Succeeds(u, last)
    PROVE  Behind(v, u)
PROOF
  <1>1. CASE last = v
    BY <1>1 DEF Behind, Succeeds
  <1>2. CASE last = [v EXCEPT !.phase = PRECOMMIT]
    <2>1. last.phase = PRECOMMIT /\ last.target = v.target
      BY <1>2 DEF IsVote
    <2>2. FrameNewer(u.target.height, last.target.height)
      BY <2>1 DEF Succeeds, PREVOTE, PRECOMMIT
    <2>3. QED
      BY <2>1, <2>2 DEF Behind
  <1>3. CASE FrameNewer(last.target.height, v.target.height)
    <2>1. CASE FrameNewer(u.target.height, last.target.height)
      BY <1>3, <2>1, FrameTransitive DEF Behind, IsVote
    <2>2. CASE u = [last EXCEPT !.phase = PRECOMMIT]
      <3>1. u.target = last.target
        BY <2>2 DEF IsVote
      <3>2. QED
        BY <1>3, <3>1 DEF Behind
    <2>3. QED
      BY <2>1, <2>2 DEF Succeeds
  <1>4. QED
    BY <1>1, <1>2, <1>3 DEF Behind

\* A vote and the one the journal ends in are never an offence.
LEMMA BehindHarmless ==
    ASSUME NEW v, NEW last, IsVote(v), IsVote(last), Behind(v, last)
    PROVE  ~IsEquivocation(v, last) /\ ~IsEquivocation(last, v)
PROOF
  <1>1. CASE last = v
    BY <1>1 DEF IsEquivocation
  <1>2. CASE last = [v EXCEPT !.phase = PRECOMMIT]
    <2>1. last.target = v.target
      BY <1>2 DEF IsVote
    <2>2. QED
      BY <2>1 DEF IsEquivocation
  <1>3. CASE FrameNewer(last.target.height, v.target.height)
    BY <1>3, FrameDistinct DEF IsVote, IsEquivocation
  <1>4. QED
    BY <1>1, <1>2, <1>3 DEF Behind

-----------------------------------------------------------------------------
(* Signing *)

\* What FinalityVoter::Prevote and Precommit, once they agree to sign, leave
\* for the journal: a vote that remembers everything sent so far, and a lock that
\* covers everything sent so far and the vote itself.
LEMMA SigningFacts ==
    ASSUME ~IsVote(NoVote), DaemonInv, pc = "sign", VoterSigns
    PROVE  /\ IsVote(tick.vote) /\ tick.vote # NoVote
           /\ \A v \in released : Behind(v, tick.vote)
           /\ IsLock(LockAfterSigning)
           /\ LocksCover(LockAfterSigning, Binding \cup {tick.vote})
PROOF
  <1>1. /\ IsVote(tick.vote) /\ tick.vote # NoVote /\ tick.vote.target = tick.target
        /\ tick.target.height = tick.height /\ tick.height \in Nat
        /\ disk.last_vote # NoVote => Succeeds(tick.vote, disk.last_vote)
    BY DEF DaemonInv, TickVote, Shapes
  <1>2. \A v \in released : Behind(v, tick.vote)
    BY <1>1, BehindSuccessor DEF DaemonInv, Journaled
  <1>3. CASE tick.vote.phase = PREVOTE
    <2>1. LockAfterSigning = memory.lock
      BY <1>3 DEF LockAfterSigning, PREVOTE, PRECOMMIT
    <2>2. LocksCover(memory.lock, Binding \cup {tick.vote})
      BY <1>3 DEF DaemonInv, Journaled, LocksCover, PREVOTE, PRECOMMIT
    <2>3. QED
      BY <1>1, <1>2, <2>1, <2>2 DEF DaemonInv, Journaled
  <1>4. CASE tick.vote.phase = PRECOMMIT
    <2> DEFINE l == memory.lock
               n == LockOn(tick.target)
    <2>1. LockAfterSigning = n /\ n.held /\ n.target = tick.target /\ n = LockOn(n.target)
      BY <1>4 DEF LockAfterSigning, LockOn
    <2>2. ASSUME NEW v \in Binding, v # NoVote, v.phase = PRECOMMIT
          PROVE  Covers(n, v)
      <3>1. Covers(l, v) /\ IsVote(v) /\ IsLock(l)
        BY <2>2 DEF DaemonInv, Journaled, LocksCover, Binding
      <3>2. /\ l.held /\ l.target.height \in Nat /\ v.target.height \in Nat
            /\ l.epoch_id = EpochOf(l.target.height) /\ l.round = CheckpointRound(l.target.height)
        BY <3>1 DEF Covers, IsLock, IsVote, LockOn
      <3>3. l.target = tick.target \/ FrameNewer(tick.target.height, l.target.height)
        BY <1>1, <1>4, <3>2 DEF VoterSigns, LockedPrecommitAllowed, FrameNewer, PREVOTE, PRECOMMIT
      <3>4. l.target = v.target \/ FrameNewer(l.target.height, v.target.height)
        BY <3>1 DEF Covers
      <3>5. tick.target = v.target \/ FrameNewer(tick.target.height, v.target.height)
        BY <1>1, <3>2, <3>3, <3>4, FrameTransitive
      <3>6. QED
        BY <2>1, <3>5 DEF Covers
    <2>3. Covers(n, tick.vote)
      BY <1>1, <2>1 DEF Covers
    <2> HIDE DEF n
    <2>4. LocksCover(n, Binding \cup {tick.vote})
      BY <2>2, <2>3 DEF LocksCover
    <2>5. IsLock(n)
      BY <1>1, <2>1 DEF IsLock
    <2>6. QED
      BY <1>1, <1>2, <2>1, <2>4, <2>5
  <1>5. QED
    BY <1>1, <1>3, <1>4 DEF IsVote, Phase

\* The journal now ends in the vote just signed.
LEMMA WrittenJournal ==
    ASSUME ~IsVote(NoVote), DaemonInv, pc = "sign", VoterSigns,
           disk' = NextJournal, released' = released, memory'.lock = LockAfterSigning
    PROVE  Journaled' /\ ReleasedNeverSlashable'
PROOF
  <1>1. disk'.last_vote = tick.vote /\ disk'.lock = LockAfterSigning
    BY DEF NextJournal
  <1>2. Binding' \subseteq Binding \cup {tick.vote}
    BY <1>1 DEF Binding
  <1>3. LocksCover(LockAfterSigning, Binding')
    BY <1>2, SigningFacts DEF LocksCover
  <1>4. /\ LocksCover(memory.lock, Binding)' /\ LocksCover(disk.lock, Binding)'
        /\ IsLock(memory.lock)' /\ IsLock(disk.lock)'
    BY <1>1, <1>3, SigningFacts DEF LocksCover, IsLock
  <1>5. \A v \in released : IsVote(v)
    BY DEF DaemonInv, Journaled
  <1>6. QED
    BY <1>1, <1>4, <1>5, SigningFacts DEF Journaled, DaemonInv, ReleasedNeverSlashable

\* Nothing of the journal, the locks and what was sent has changed.
LEMMA JournaledUnchanged ==
    ASSUME DaemonInv, UNCHANGED <<disk, released>>, memory'.lock \in {memory.lock, disk.lock}
    PROVE  Journaled' /\ ReleasedNeverSlashable'
BY DEF DaemonInv, Journaled, ReleasedNeverSlashable, LocksCover, Binding

-----------------------------------------------------------------------------
(* The steps *)

\* The daemon starts with an empty journal.
LEMMA InitDaemon ==
    ASSUME StartTip \in Nat, Init PROVE DaemonInv
PROOF
  <1>1. disk.last_vote = NoVote /\ disk.lock = NoLock /\ released = {} /\ memory.lock = NoLock
    BY DEF Init, EmptyJournal, Loaded
  <1>2. Shapes /\ InStep /\ TickVote
    BY DEF Init, Shapes, InStep, TickVote, EmptyTick, EmptyJournal, Loaded
  <1>3. Journaled /\ ReleasedNeverSlashable
    BY <1>1 DEF Journaled, LocksCover, Binding, IsLock, NoLock, ReleasedNeverSlashable
  <1>4. QED
    BY <1>2, <1>3 DEF DaemonInv

\* The node's chain moves, in the middle of a Tick or not.
LEMMA NodeKeeps ==
    ASSUME DaemonInv, Grow \/ Reorganize PROVE DaemonInv'
PROOF
  <1>1. CASE Grow
    <2>1. tip' \in Nat /\ UNCHANGED daemon
      BY <1>1 DEF Grow, NewTip, DaemonInv, Shapes
    <2>2. Journaled' /\ ReleasedNeverSlashable'
      BY <2>1, JournaledUnchanged DEF daemon
    <2>3. QED
      BY <2>1, <2>2 DEF daemon, DaemonInv, Shapes, InStep, TickVote
  <1>2. CASE Reorganize
    <2>1. /\ tip' \in Nat /\ UNCHANGED <<pc, memory, disk, persisted, released>>
          /\ tick' = tick \/ tick' = [tick EXCEPT !.reorgs = tick.reorgs + 1]
      BY <1>2 DEF Reorganize, NewTip
    <2>2. Journaled' /\ ReleasedNeverSlashable'
      BY <2>1, JournaledUnchanged
    <2>3. /\ DOMAIN tick' = DOMAIN tick /\ tick'.height = tick.height
          /\ tick'.target = tick.target /\ tick'.vote = tick.vote
      BY <2>1 DEF DaemonInv, Shapes
    <2>4. Shapes' /\ InStep'
      BY <2>1, <2>3 DEF DaemonInv, Shapes, InStep
    <2>5. TickVote'
      BY <2>1, <2>3 DEF DaemonInv, TickVote
    <2>6. QED
      BY <2>2, <2>4, <2>5 DEF DaemonInv
  <1>3. QED
    BY <1>1, <1>2

\* Tick ends without a vote: any early return, a journal that cannot be checked,
\* or a restart.
LEMMA EndKeeps ==
    ASSUME DaemonInv, Abandon \/ JournalUnverifiable \/ Crash PROVE DaemonInv'
PROOF
  <1>1. /\ pc' = "idle" /\ tick' = EmptyTick /\ UNCHANGED <<tip, disk, released>>
        /\ \/ memory' = memory
           \/ memory' = [memory EXCEPT !.invalid = TRUE]
           \/ memory' = Loaded(disk)
    BY DEF Abandon, JournalUnverifiable, Crash, EndTick, Keep, node
  <1>2. /\ {"lock", "journal", "delivered", "prevote_qc", "invalid"} \subseteq DOMAIN memory'
        /\ memory'.lock \in {memory.lock, disk.lock} /\ memory'.invalid \in BOOLEAN
        /\ ~memory'.invalid => memory'.journal = disk
    <2>1. CASE memory' = memory
      BY <1>1, <2>1 DEF DaemonInv, Shapes, InStep
    <2>2. CASE memory' = [memory EXCEPT !.invalid = TRUE]
      <3>1. memory'.invalid = TRUE /\ memory'.lock = memory.lock /\ DOMAIN memory' = DOMAIN memory
        BY <2>2 DEF DaemonInv, Shapes
      <3>2. QED
        BY <3>1, Zenon DEF DaemonInv, Shapes
    <2>3. CASE memory' = Loaded(disk)
      BY <2>3 DEF Loaded
    <2>4. QED
      BY <1>1, <2>1, <2>2, <2>3
  <1>3. Journaled' /\ ReleasedNeverSlashable'
    BY <1>1, <1>2, JournaledUnchanged
  <1>4. Shapes' /\ InStep' /\ TickVote'
    BY <1>1, <1>2 DEF DaemonInv, Shapes, InStep, TickVote, EmptyTick
  <1>5. QED
    BY <1>3, <1>4 DEF DaemonInv

\* Reading the node.
LEMMA FetchKeeps ==
    ASSUME DaemonInv,
           FetchTip \/ FetchSnapshot \/ FetchPrevoteQc \/ FetchTarget \/ FetchLocked
    PROVE  DaemonInv'
PROOF
  <1>1. UNCHANGED <<tip, disk, released>>
    BY DEF FetchTip, FetchSnapshot, FetchPrevoteQc, FetchTarget, FetchLocked, Keep, node
  <1>a. \/ memory' = memory \/ \E qc : memory' = [memory EXCEPT !.prevote_qc = qc]
    <2>1. CASE FetchPrevoteQc
      BY <2>1, Zenon DEF FetchPrevoteQc
    <2>2. QED
      BY <2>1 DEF FetchTip, FetchSnapshot, FetchTarget, FetchLocked
  <1>2. pc' \in {"snapshot", "prevote_qc", "target", "lock", "journal"} /\ ~memory.invalid
    BY DEF FetchTip, FetchSnapshot, FetchPrevoteQc, FetchTarget, FetchLocked, Goto,
           DaemonInv, InStep
  <1>3. /\ {"lock", "journal", "delivered", "prevote_qc", "invalid"} \subseteq DOMAIN memory'
        /\ memory'.lock = memory.lock /\ memory'.journal = memory.journal
        /\ memory'.invalid = memory.invalid
    BY <1>a DEF DaemonInv, Shapes
  <1>4. /\ {"height", "source", "target", "extends_lock", "vote", "grant", "reorgs"}
               \subseteq DOMAIN tick'
        /\ tick'.height \in Nat
        /\ pc' \in {"lock", "journal"} => tick'.target.height = tick'.height
    <2>1. CASE FetchTip
      <3>1. NewestVotableCheckpoint(tip) \in Nat
        BY ProfileAssumption DEF NewestVotableCheckpoint, DaemonInv, Shapes
      <3>2. QED
        BY <2>1, <3>1 DEF FetchTip, EmptyTick, Goto
    <2>2. CASE FetchSnapshot
      BY <2>2 DEF FetchSnapshot, DaemonInv, Shapes, Goto
    <2>3. CASE FetchPrevoteQc
      BY <2>3 DEF FetchPrevoteQc, DaemonInv, Shapes, Goto
    <2>4. CASE FetchTarget
      BY <2>4 DEF FetchTarget, DaemonInv, Shapes, Goto, RefAt
    <2>5. CASE FetchLocked
      BY <2>5 DEF FetchLocked, DaemonInv, Shapes, Goto
    <2>6. QED
      BY <2>1, <2>2, <2>3, <2>4, <2>5
  <1>5. Journaled' /\ ReleasedNeverSlashable'
    BY <1>1, <1>3, JournaledUnchanged
  <1>6. Shapes' /\ InStep' /\ TickVote'
    BY <1>1, <1>2, <1>3, <1>4 DEF DaemonInv, Shapes, InStep, TickVote
  <1>7. QED
    BY <1>5, <1>6 DEF DaemonInv

\* Deciding what to sign or to send again, and asking for the grant.
LEMMA ChooseKeeps ==
    ASSUME ~IsVote(NoVote), DaemonInv, ChooseVote \/ ChooseResend \/ AuthorizeWork
    PROVE  DaemonInv'
PROOF
  <1>1. /\ UNCHANGED <<tip, memory, disk, released>>
        /\ \E x : tick' = [tick EXCEPT !.vote = x] \/ tick' = [tick EXCEPT !.grant = x]
    BY Zenon DEF ChooseVote, ChooseResend, AuthorizeWork, Keep, node
  <1>2. /\ DOMAIN tick' = DOMAIN tick /\ tick'.height = tick.height /\ tick'.target = tick.target
    BY <1>1 DEF DaemonInv, Shapes
  <1>3. Journaled' /\ ReleasedNeverSlashable'
    BY <1>1, JournaledUnchanged
  <1>4. /\ pc' \in {"work", "work_again", "sign", "resend"} /\ pc # "idle"
        /\ pc' \in {"work", "sign"} => pc \in {"journal", "work"}
    BY DEF ChooseVote, ChooseResend, AuthorizeWork, Goto
  <1>5. Shapes' /\ InStep'
    BY <1>1, <1>2, <1>4 DEF DaemonInv, Shapes, InStep
  <1>6. TickVote'
    <2>1. CASE ChooseVote
      <3> DEFINE u == VoteOf(IF QcMatches THEN PRECOMMIT ELSE PREVOTE)
                 last == disk.last_vote
      <3>1. pc = "journal" /\ pc' = "work" /\ tick'.vote = u /\ memory.journal = disk
        BY <2>1 DEF ChooseVote, Goto, DaemonInv, Shapes, InStep
      <3>2. IsVote(u) /\ u.target = tick.target /\ u.target.height = tick.height
        BY <3>1 DEF VoteOf, IsVote, Phase, DaemonInv, Shapes
      <3>3. last # NoVote => Succeeds(u, last)
        <4>1. CASE last = VoteOf(PREVOTE) /\ QcMatches
          <5>1. u = VoteOf(PRECOMMIT) /\ last.phase = PREVOTE
            BY <4>1 DEF VoteOf
          <5>2. u = [last EXCEPT !.phase = PRECOMMIT]
            BY <4>1, <5>1 DEF VoteOf
          <5>3. QED
            BY <5>1, <5>2 DEF Succeeds
        <4>2. QED
          BY <2>1, <3>1, <3>2, <4>1 DEF ChooseVote, JournalAllows, Succeeds
      <3> HIDE DEF u
      <3>4. QED
        BY <1>1, <1>2, <3>1, <3>2, <3>3 DEF TickVote
    <2>2. CASE ChooseResend
      <3>1. /\ pc' = "work_again" /\ tick'.vote = disk.last_vote /\ disk.last_vote # NoVote
        BY <2>2 DEF ChooseResend, Goto, DaemonInv, Shapes, InStep
      <3>2. QED
        BY <1>1, <3>1 DEF TickVote
    <2>3. CASE AuthorizeWork
      <3>1. /\ \/ pc = "work" /\ pc' = "sign"
               \/ pc = "work_again" /\ pc' = "resend"
            /\ tick'.vote = tick.vote
        BY <2>3 DEF AuthorizeWork, Goto, DaemonInv, Shapes
      <3>2. QED
        BY <1>1, <1>2, <3>1 DEF TickVote, DaemonInv
    <2>4. QED
      BY <2>1, <2>2, <2>3
  <1>7. QED
    BY <1>3, <1>5, <1>6 DEF DaemonInv

\* Signing, with the journal written, not written, or written in spite of an error.
LEMMA SignKeeps ==
    ASSUME ~IsVote(NoVote), DaemonInv, SignAndPersist \/ SignAndExpire \/ PersistFails
    PROVE  DaemonInv'
PROOF
  <1>1. /\ pc = "sign" /\ VoterSigns /\ released' = released /\ tip' = tip
        /\ \/ tick' = tick /\ pc' = "send"
           \/ tick' = EmptyTick /\ pc' = "idle"
    BY DEF SignAndPersist, SignAndExpire, PersistFails, Keep, node, EndTick, Goto
  <1>2. /\ {"lock", "journal", "delivered", "prevote_qc", "invalid"} \subseteq DOMAIN memory'
        /\ memory'.lock = LockAfterSigning
        /\ memory'.invalid \in BOOLEAN
        /\ ~memory'.invalid => memory'.journal = disk'
        /\ memory'.invalid => pc' = "idle"
    <2>1. memory.invalid = FALSE /\ memory.journal = disk
      BY <1>1 DEF DaemonInv, Shapes, InStep
    <2>2. CASE SignAndPersist
      BY <2>1, <2>2 DEF SignAndPersist, DaemonInv, Shapes
    <2>3. CASE SignAndExpire
      BY <2>1, <2>3 DEF SignAndExpire, DaemonInv, Shapes
    <2>4. CASE PersistFails
      <3>1. /\ DOMAIN memory' = DOMAIN memory /\ memory'.lock = LockAfterSigning
            /\ memory'.invalid = TRUE /\ pc' = "idle"
        BY <2>4 DEF PersistFails, EndTick, DaemonInv, Shapes
      <3>2. QED
        BY <3>1, Zenon DEF DaemonInv, Shapes
    <2>5. QED
      BY <2>2, <2>3, <2>4
  <1>3. Journaled' /\ ReleasedNeverSlashable'
    <2>1. CASE disk' = NextJournal
      BY <1>1, <1>2, <2>1, WrittenJournal
    <2>2. CASE disk' = disk
      <3>1. LocksCover(memory.lock, Binding)' /\ IsLock(memory.lock)'
        BY <1>1, <1>2, <2>2, SigningFacts DEF LocksCover, IsLock, Binding
      <3>2. QED
        BY <1>1, <2>2, <3>1 DEF DaemonInv, Journaled, ReleasedNeverSlashable, LocksCover, Binding
    <2>3. QED
      BY <2>1, <2>2 DEF SignAndPersist, SignAndExpire, PersistFails
  <1>4. TickVote'
    <2>1. pc' = "send" => tick'.vote = disk'.last_vote /\ disk'.last_vote # NoVote
      BY <1>1, SigningFacts DEF SignAndPersist, SignAndExpire, PersistFails, EndTick, NextJournal
    <2>2. QED
      BY <1>1, <2>1 DEF TickVote
  <1>5. Shapes' /\ InStep'
    BY <1>1, <1>2 DEF DaemonInv, Shapes, InStep, EmptyTick
  <1>6. QED
    BY <1>3, <1>4, <1>5 DEF DaemonInv

\* The vote that goes out is the journal's last.
LEMMA GossipKeeps ==
    ASSUME DaemonInv, Gossip PROVE DaemonInv'
PROOF
  <1>1. /\ pc' = "idle" /\ tick' = EmptyTick /\ UNCHANGED <<tip, disk>>
        /\ released' \subseteq released \cup {disk.last_vote} /\ disk.last_vote # NoVote
        /\ pc # "idle"
    BY DEF Gossip, EndTick, Keep, node, DaemonInv, TickVote
  <1>2. /\ {"lock", "journal", "delivered", "prevote_qc", "invalid"} \subseteq DOMAIN memory'
        /\ memory'.lock = memory.lock /\ memory'.journal = memory.journal
        /\ memory'.invalid = memory.invalid
    BY DEF Gossip, DaemonInv, Shapes
  <1>3. Shapes' /\ InStep' /\ TickVote'
    BY <1>1, <1>2 DEF DaemonInv, Shapes, InStep, TickVote, EmptyTick
  <1>4. ReleasedNeverSlashable'
    <2>1. /\ IsVote(disk.last_vote) /\ Behind(disk.last_vote, disk.last_vote)
          /\ \A v \in released : IsVote(v) /\ Behind(v, disk.last_vote)
      BY <1>1 DEF DaemonInv, Journaled, Behind
    <2>2. QED
      BY <1>1, <2>1, BehindHarmless DEF DaemonInv, ReleasedNeverSlashable
  <1>5. Journaled'
    BY <1>1, <1>2 DEF DaemonInv, Journaled, LocksCover, Binding, Behind
  <1>6. QED
    BY <1>3, <1>4, <1>5 DEF DaemonInv

-----------------------------------------------------------------------------
(* The results *)

\* DaemonInv is inductive.
THEOREM DaemonInvariant ==
    ASSUME ~IsVote(NoVote), StartTip \in Nat PROVE Spec => []DaemonInv
PROOF
  <1>1. DaemonInv /\ [Next]_vars => DaemonInv'
    <2>1. SUFFICES ASSUME DaemonInv, [Next]_vars PROVE DaemonInv'
      OBVIOUS
    <2>2. CASE UNCHANGED vars
      <3>1. UNCHANGED <<tip, tick, pc, memory, disk, released>>
        BY <2>2 DEF vars, node, daemon
      <3>2. Journaled' /\ ReleasedNeverSlashable'
        BY <2>1, <3>1, JournaledUnchanged
      <3>3. QED
        BY <2>1, <3>1, <3>2 DEF DaemonInv, Shapes, InStep, TickVote
    <2>3. CASE Next
      BY <2>1, <2>3, NodeKeeps, EndKeeps, FetchKeeps, ChooseKeeps, SignKeeps, GossipKeeps
         DEF Next, Tick
    <2>4. QED
      BY <2>1, <2>2, <2>3
  <1>2. QED
    BY <1>1, InitDaemon, PTL DEF Spec

\* No vote leaves the validator before a journal that remembers it is durable.
THEOREM ReleasedStaysRemembered ==
    ASSUME ~IsVote(NoVote), StartTip \in Nat PROVE Spec => []ReleasedIsRemembered
PROOF
  <1>1. DaemonInv => ReleasedIsRemembered
    BY DEF DaemonInv, Journaled, Behind, ReleasedIsRemembered
  <1>2. QED
    BY <1>1, DaemonInvariant, PTL

\* The votes that left the validator never contain a slashable pair.
THEOREM DaemonNeverSlashable ==
    ASSUME ~IsVote(NoVote), StartTip \in Nat PROVE Spec => []ReleasedNeverSlashable
PROOF
  <1>1. DaemonInv => ReleasedNeverSlashable
    BY DEF DaemonInv
  <1>2. QED
    BY <1>1, DaemonInvariant, PTL

\* The lock the daemon votes under, and the one a restart restores, stand on every
\* precommit that is out, or on a newer frame.
THEOREM PrecommitsStayLocked ==
    ASSUME ~IsVote(NoVote), StartTip \in Nat PROVE Spec => []ReleasedPrecommitsLocked
PROOF
  <1>1. ASSUME DaemonInv PROVE ReleasedPrecommitsLocked
    <2>1. \A v \in released : v # NoVote
      BY <1>1 DEF DaemonInv, Journaled
    <2>2. QED
      BY <1>1, <2>1 DEF DaemonInv, Journaled, LocksCover, Binding, Covers, ReleasedPrecommitsLocked
  <1>2. QED
    BY <1>1, DaemonInvariant, PTL

-----------------------------------------------------------------------------
(* The endorsement history *)

CONSTANTS Programs, Heights, Hashes, MaxStarts, MaxFailures, MaxRestores
VARIABLES files, owner, prog, signed, starts, failures, restores

History == INSTANCE SigningState WITH disk <- files, faults <- failures,
    MaxFaults <- MaxFailures

\* Where a program has the shared history open and accepted.
Holding == {"copying", "ready", "shared", "own", "sign"}

FileState == {f \in [lines : SUBSET History!Decision, synced : SUBSET History!Decision, torn : BOOLEAN] :
                 f.synced \subseteq f.lines}
ProgState == [pc : Holding \cup {"down", "loaded", "stopped"},
              mem : [{"own", History!Shared} -> SUBSET History!Decision], deciding : SUBSET History!Decision]

\* The shapes of files and programs.
FileShapes ==
    /\ files \in [History!File -> FileState] /\ prog \in [Programs -> ProgState]
    /\ owner \in History!File /\ signed \subseteq History!Decision
    /\ starts \in Int /\ failures \in Int /\ restores \in Int

\* What a program that may sign knows, and that everything signed is in the
\* shared file, which never contradicts itself.
HistoryInv ==
    /\ FileShapes
    /\ files[History!Shared].synced \subseteq files[History!Shared].lines
    /\ \A d, e \in files[History!Shared].lines : d[1] = e[1] => d[2] = e[2]
    /\ signed \subseteq files[History!Shared].synced
    /\ \A p \in Programs : prog[p].pc \in Holding =>
           /\ owner = p
           /\ prog[p].mem[History!Shared] \subseteq files[History!Shared].synced
    /\ \A p \in Programs : prog[p].pc \in {"own", "sign"} =>
           prog[p].deciding \subseteq files[History!Shared].synced
    /\ \A p \in Programs : prog[p].pc = "shared" =>
           \E d \in History!Decision : prog[p].deciding = {d}

-----------------------------------------------------------------------------
\* A record in either history keeps the invariant, given what success and a
\* refusal lead to (EndorseAntiEquivGuard::record).
LEMMA RecordKeeps ==
    ASSUME History!Shared \notin Programs, HistoryInv,
           NEW p \in Programs, NEW which \in {"own", History!Shared}, NEW d \in History!Decision,
           NEW then \in ProgState, NEW refused \in ProgState, NEW out \in History!Outcome,
           prog[p].pc \in Holding,
           then.pc \in {"copying", "own", "sign"}, then.mem = prog[p].mem,
           refused.pc \in {"ready", "stopped"}, refused.mem = prog[p].mem,
           then.deciding = prog[p].deciding,
           then.pc \in {"own", "sign"} =>
               \/ which = History!Shared /\ then.deciding = {d}
               \/ then.deciding \subseteq files[History!Shared].synced,
           History!Record(p, which, d, then, refused, out),
           UNCHANGED <<owner, signed, starts, restores>>
    PROVE  HistoryInv'
PROOF
  <1> DEFINE m == prog[p].mem[which]
             f == History!FileOf(p, which)
  <1>0. /\ prog \in [Programs -> ProgState] /\ files \in [History!File -> FileState]
        /\ f \in History!File /\ History!Shared \in History!File /\ (f = History!Shared <=> which = History!Shared)
        /\ m \in SUBSET History!Decision /\ prog[p] \in ProgState /\ files[f] \in FileState
        /\ owner = p
    BY DEF HistoryInv, FileShapes, History!FileOf, History!File, ProgState, History!Shared
  <1>1. CASE ~History!Continuous(p, which)
    <2>1. files' = files /\ failures' = failures /\ prog' = [prog EXCEPT ![p].pc = "stopped"]
      BY <1>1 DEF History!Record
    <2>2. /\ prog' \in [Programs -> ProgState] /\ prog'[p].pc = "stopped"
          /\ \A q \in Programs \ {p} : prog'[q] = prog[q]
      BY <2>1, <1>0, Zenon DEF ProgState
    <2>3. QED
      BY <2>1, <2>2 DEF HistoryInv, FileShapes, Holding
  <1>2. CASE History!Continuous(p, which) /\ \E e \in m : e[1] = d[1]
    <2>1. /\ files' = files /\ failures' = failures
          /\ \/ prog' = [prog EXCEPT ![p] = then] /\ d \in m
             \/ prog' = [prog EXCEPT ![p] = refused]
      BY <1>2 DEF History!Record, History!Agrees
    <2>2. CASE prog' = [prog EXCEPT ![p] = then] /\ d \in m
      <3>1. /\ prog' \in [Programs -> ProgState] /\ prog'[p] = then
            /\ \A q \in Programs \ {p} : prog'[q] = prog[q]
        BY <2>2, <1>0, SMTT(30)
      <3>2. which = History!Shared => d \in files[History!Shared].synced
        BY <2>2, SMTT(30) DEF HistoryInv
      <3>3. QED
        BY <2>1, <3>1, <3>2 DEF HistoryInv, FileShapes, Holding
    <2>3. CASE prog' = [prog EXCEPT ![p] = refused]
      <3>1. /\ prog' \in [Programs -> ProgState] /\ prog'[p] = refused
            /\ \A q \in Programs \ {p} : prog'[q] = prog[q]
        BY <2>3, <1>0
      <3>2. QED
        BY <2>1, <3>1 DEF HistoryInv, FileShapes, Holding
    <2>4. QED
      BY <2>1, <2>2, <2>3
  <1>3. CASE History!Continuous(p, which) /\ ~\E e \in m : e[1] = d[1]
    <2>1. /\ failures' = (IF out = "done" THEN failures ELSE failures + 1)
          /\ files' = [files EXCEPT ![f] = History!Appended(files[f], d, out)]
          /\ prog' = [prog EXCEPT ![p] = IF out = "done" THEN [then EXCEPT !.mem[which] = m \cup {d}]
                                         ELSE [prog[p] EXCEPT !.pc = "stopped"]]
      BY <1>3, SMTT(30) DEF History!Record
    <2> DEFINE g == History!Appended(files[f], d, out)
    <2>2. /\ g \in FileState
          /\ files[f].lines \subseteq g.lines /\ g.lines \subseteq files[f].lines \cup {d}
          /\ files[f].synced \subseteq files[f].lines =>
                 files[f].synced \subseteq g.synced /\ g.synced \subseteq g.lines
          /\ out = "done" => g.synced = g.lines /\ d \in g.lines
      <3>1. CASE out = "done"
        BY <3>1, <1>0, Zenon DEF History!Appended, FileState
      <3>2. CASE out = "unsynced"
        BY <3>2, <1>0 DEF History!Appended, FileState
      <3>3. CASE out = "torn"
        BY <3>3, <1>0, Zenon DEF History!Appended, FileState
      <3>4. CASE out = "undone"
        BY <3>4, <1>0 DEF History!Appended, FileState
      <3>5. QED
        BY <3>1, <3>2, <3>3, <3>4, Zenon DEF History!Outcome
    <2>3. /\ files' \in [History!File -> FileState] /\ files'[f] = g
          /\ \A h \in History!File \ {f} : files'[h] = files[h]
      BY <2>1, <2>2, <1>0
    <2>4. files[f].lines = m
      BY <1>3, SMTT(30) DEF History!Continuous
    <2>5. /\ files'[History!Shared].synced \subseteq files'[History!Shared].lines
          /\ files[History!Shared].synced \subseteq files'[History!Shared].synced
          /\ \A x, y \in files'[History!Shared].lines : x[1] = y[1] => x[2] = y[2]
      BY <2>2, <2>3, <2>4, <1>0, <1>3 DEF HistoryInv
    <2>6. CASE out = "done"
      <3>1. prog' = [prog EXCEPT ![p] = [then EXCEPT !.mem[which] = m \cup {d}]]
        BY <2>1, <2>6
      <3>2. /\ prog' \in [Programs -> ProgState] /\ prog'[p].pc = then.pc
            /\ prog'[p].deciding = then.deciding
            /\ prog'[p].mem = [prog[p].mem EXCEPT ![which] = m \cup {d}]
            /\ \A q \in Programs \ {p} : prog'[q] = prog[q]
        BY <3>1, <1>0, Zenon DEF ProgState
      <3>3. /\ prog'[p].mem[History!Shared] \subseteq files'[History!Shared].synced
            /\ which = History!Shared => d \in files'[History!Shared].synced
        <4>1. prog[p].mem[History!Shared] \subseteq files[History!Shared].synced
          BY DEF HistoryInv
        <4>2. DOMAIN prog[p].mem = {"own", History!Shared}
          BY <1>0, SMTT(30) DEF ProgState
        <4>3. CASE which = History!Shared
          <5>1. f = History!Shared
            BY <4>3, SMTT(30) DEF History!FileOf, History!Shared
          <5>2. files'[History!Shared].synced = g.lines /\ d \in g.lines /\ m \subseteq g.lines
            BY <5>1, <2>2, <2>3, <2>4, <2>6, Zenon
          <5>3. prog'[p].mem[History!Shared] = m \cup {d}
            BY <3>2, <4>2, <4>3, SMTT(30)
          <5>4. QED
            BY <5>2, <5>3, SMTT(30)
        <4>4. CASE which # History!Shared
          <5>1. prog'[p].mem[History!Shared] = prog[p].mem[History!Shared]
            BY <3>2, <4>2, <4>4
          <5>2. QED
            BY <5>1, <4>1, <4>4, <2>5, Zenon
        <4>5. QED
          BY <4>3, <4>4, ZenonT(30)
      <3>4. QED
        BY <2>1, <2>3, <2>5, <2>6, <3>2, <3>3, <1>0 DEF HistoryInv, FileShapes
    <2>7. CASE out # "done"
      <3>1. prog' = [prog EXCEPT ![p] = [prog[p] EXCEPT !.pc = "stopped"]]
        BY <2>1, <2>7
      <3>2. /\ prog' \in [Programs -> ProgState] /\ prog'[p].pc = "stopped"
            /\ \A q \in Programs \ {p} : prog'[q] = prog[q]
        BY <3>1, <1>0, Zenon DEF ProgState
      <3>3. QED
        BY <2>1, <2>3, <2>5, <2>7, <3>2, <1>0 DEF HistoryInv, FileShapes, Holding
    <2>8. QED
      BY <2>6, <2>7
  <1>4. QED
    BY <1>1, <1>2, <1>3

-----------------------------------------------------------------------------
\* Nothing is signed and nobody runs at the start.
LEMMA InitHistory ==
    ASSUME History!Init PROVE HistoryInv
PROOF
  <1>1. /\ files \in [History!File -> FileState] /\ files[History!Shared].synced = {} /\ files[History!Shared].lines = {}
    BY DEF History!Init, FileState, History!File
  <1>2. /\ prog \in [Programs -> ProgState] /\ \A p \in Programs : prog[p].pc = "down"
    BY DEF History!Init, History!Down, ProgState
  <1>3. QED
    BY <1>1, <1>2 DEF History!Init, HistoryInv, FileShapes, Holding, History!File

\* Opening the histories: the lock is free, and what is read is synced first.
LEMMA StartKeeps ==
    ASSUME History!Shared \notin Programs, HistoryInv, NEW p \in Programs,
           History!LoadOwn(p) \/ History!AcquireShared(p)
    PROVE  HistoryInv'
PROOF
  <1>0. /\ prog \in [Programs -> ProgState] /\ files \in [History!File -> FileState]
        /\ p \in History!File /\ History!Shared \in History!File /\ p # History!Shared /\ prog[p] \in ProgState
    BY DEF HistoryInv, FileShapes, History!File
  <1>1. CASE History!LoadOwn(p)
    <2>1. files' = [files EXCEPT ![p] = History!Loaded(p)] /\ History!Loaded(p) \in FileState
      BY <1>1, <1>0 DEF History!LoadOwn, History!Loaded, FileState
    <2>2. files' \in [History!File -> FileState] /\ files'[History!Shared] = files[History!Shared]
      BY <2>1, <1>0
    <2>3. /\ prog' \in [Programs -> ProgState] /\ prog'[p].pc \in {"loaded", "stopped"}
          /\ \A q \in Programs \ {p} : prog'[q] = prog[q]
      BY <1>1, <1>0, Zenon DEF History!LoadOwn, ProgState, FileState
    <2>4. QED
      BY <1>1, <2>2, <2>3 DEF History!LoadOwn, HistoryInv, FileShapes, Holding
  <1>2. CASE History!AcquireShared(p) /\ owner = History!Shared
    <2>1. files' = [files EXCEPT ![History!Shared] = History!Loaded(History!Shared)] /\ History!Loaded(History!Shared) \in FileState
      BY <1>2, <1>0 DEF History!AcquireShared, History!CanLock, History!Loaded, FileState
    <2>2. /\ files' \in [History!File -> FileState] /\ files'[History!Shared].lines = files[History!Shared].lines
          /\ files'[History!Shared].synced = files[History!Shared].lines
      BY <2>1, <1>0 DEF History!Loaded, FileState
    <2>3. /\ prog' \in [Programs -> ProgState] /\ prog'[p].pc \in {"copying", "stopped"}
          /\ prog'[p].mem[History!Shared] = files[History!Shared].lines
          /\ \A q \in Programs \ {p} : prog'[q] = prog[q]
      BY <1>2, <1>0 DEF History!AcquireShared, History!CanLock, ProgState, FileState, Holding
    <2>4. \A q \in Programs \ {p} : prog'[q].pc \notin Holding
      BY <1>2, <2>3 DEF HistoryInv
    <2>5. owner' = p /\ UNCHANGED <<signed, starts, failures, restores>>
      BY <1>2 DEF History!AcquireShared, History!CanLock
    <2>6. QED
      BY <2>2, <2>3, <2>4, <2>5, <1>0 DEF HistoryInv, FileShapes, Holding
  <1>3. CASE History!AcquireShared(p) /\ owner # History!Shared
    <2>1. /\ prog' \in [Programs -> ProgState] /\ prog'[p].pc = "stopped"
          /\ \A q \in Programs \ {p} : prog'[q] = prog[q]
      BY <1>3, <1>0 DEF History!AcquireShared, History!CanLock, ProgState
    <2>2. QED
      BY <1>3, <2>1 DEF History!AcquireShared, History!CanLock, HistoryInv, FileShapes, Holding
  <1>4. QED
    BY <1>1, <1>2, <1>3

\* The records of a copy and of an endorsement, each an instance of RecordKeeps.
LEMMA RecordingKeeps ==
    ASSUME History!Shared \notin Programs, HistoryInv, NEW p \in Programs, NEW out \in History!Outcome,
           History!CopyIdentity(p, out) \/ History!RecordShared(p, out) \/ History!RecordOwn(p, out)
    PROVE  HistoryInv'
PROOF
  <1> DEFINE back == [prog[p] EXCEPT !.pc = "ready", !.deciding = {}]
             stopped == [prog[p] EXCEPT !.pc = "stopped"]
  <1>a. prog \in [Programs -> ProgState] /\ prog[p] \in ProgState
    BY DEF HistoryInv, FileShapes
  <1>0. /\ prog \in [Programs -> ProgState] /\ prog[p] \in ProgState
        /\ \A d \in prog[p].deciding : d \in History!Decision
        /\ \A d \in prog[p].mem["own"] : d \in History!Decision
    BY <1>a DEF ProgState
  <1>b. back \in ProgState /\ back.pc = "ready" /\ back.mem = prog[p].mem
    BY <1>0, Zenon DEF ProgState, Holding
  <1>s. stopped \in ProgState /\ stopped.pc = "stopped" /\ stopped.mem = prog[p].mem
    BY <1>0 DEF ProgState
  <1> HIDE DEF back, stopped
  <1>1. CASE History!CopyIdentity(p, out)
    <2>1. CASE prog' = [prog EXCEPT ![p].pc = "ready"] /\ UNCHANGED <<files, failures>>
      <3>1. /\ prog' \in [Programs -> ProgState] /\ prog'[p].pc = "ready"
            /\ prog'[p].mem = prog[p].mem
            /\ \A q \in Programs \ {p} : prog'[q] = prog[q]
        BY <2>1, <1>0, Zenon DEF ProgState, Holding
      <3>2. QED
        BY <1>1, <2>1, <3>1 DEF History!CopyIdentity, HistoryInv, FileShapes, Holding
    <2>2. CASE \E d \in prog[p].mem["own"] \ prog[p].mem[History!Shared] :
                   History!Record(p, History!Shared, d, prog[p], stopped, out)
      <3>1. PICK d \in prog[p].mem["own"] : History!Record(p, History!Shared, d, prog[p], stopped, out)
        BY <2>2
      <3>2. d \in History!Decision /\ prog[p].pc = "copying" /\ UNCHANGED <<owner, signed, starts, restores>>
        BY <1>0, <1>1 DEF History!CopyIdentity
      <3>3. QED
        BY <1>0, <1>s, <3>1, <3>2, RecordKeeps DEF Holding
    <2>3. QED
      BY <1>1, <2>1, <2>2 DEF History!CopyIdentity, stopped
  <1>2. CASE History!RecordShared(p, out)
    <2> DEFINE then == [prog[p] EXCEPT !.pc = "own"]
    <2>1. PICK d \in prog[p].deciding : History!Record(p, History!Shared, d, then, back, out)
      BY <1>2 DEF History!RecordShared, back
    <2>2. prog[p].deciding = {d}
      BY <1>2, <2>1 DEF History!RecordShared, HistoryInv
    <2>3. /\ then \in ProgState /\ then.pc = "own" /\ then.mem = prog[p].mem
          /\ then.deciding = prog[p].deciding
      BY <1>0 DEF ProgState, Holding
    <2>4. d \in History!Decision /\ prog[p].pc = "shared" /\ UNCHANGED <<owner, signed, starts, restores>>
      BY <1>0, <1>2, SMTT(30) DEF History!RecordShared
    <2> HIDE DEF then
    <2>5. QED
      BY <1>0, <1>b, <2>1, <2>2, <2>3, <2>4, RecordKeeps, Zenon DEF Holding
  <1>3. CASE History!RecordOwn(p, out)
    <2> DEFINE then == [prog[p] EXCEPT !.pc = "sign"]
    <2>1. PICK d \in prog[p].deciding : History!Record(p, "own", d, then, back, out)
      BY <1>3 DEF History!RecordOwn, back
    <2>2. prog[p].deciding \subseteq files[History!Shared].synced
      BY <1>3 DEF History!RecordOwn, HistoryInv
    <2>3. /\ then \in ProgState /\ then.pc = "sign" /\ then.mem = prog[p].mem
          /\ then.deciding = prog[p].deciding
      BY <1>0 DEF ProgState, Holding
    <2>4. d \in History!Decision /\ prog[p].pc = "own" /\ UNCHANGED <<owner, signed, starts, restores>>
      BY <1>0, <1>3 DEF History!RecordOwn
    <2> HIDE DEF then
    <2>5. QED
      BY <1>0, <1>b, <2>1, <2>2, <2>3, <2>4, RecordKeeps DEF Holding
  <1>4. QED
    BY <1>1, <1>2, <1>3

\* Choosing a block to endorse, and letting the signature go.
LEMMA SigningKeeps ==
    ASSUME HistoryInv, NEW p \in Programs,
           History!Sign(p) \/ \E d \in History!Decision : History!Decide(p, d)
    PROVE  HistoryInv'
PROOF
  <1>0. prog \in [Programs -> ProgState] /\ prog[p] \in ProgState
    BY DEF HistoryInv, FileShapes
  <1>1. CASE History!Sign(p)
    <2>1. /\ prog' \in [Programs -> ProgState] /\ prog'[p].pc = "ready"
          /\ prog'[p].mem = prog[p].mem
          /\ \A q \in Programs \ {p} : prog'[q] = prog[q]
      BY <1>0, <1>1, Zenon DEF History!Sign, ProgState, Holding
    <2>2. signed' \subseteq signed \cup prog[p].deciding /\ prog[p].pc = "sign"
      BY <1>1 DEF History!Sign
    <2>3. signed' \subseteq History!Decision /\ signed' \subseteq files[History!Shared].synced
      BY <2>2, <1>0 DEF HistoryInv, FileShapes, ProgState
    <2>4. QED
      BY <1>1, <2>1, <2>2, <2>3 DEF History!Sign, HistoryInv, FileShapes, Holding
  <1>2. ASSUME NEW d \in History!Decision, History!Decide(p, d) PROVE HistoryInv'
    <2>1. /\ prog' \in [Programs -> ProgState] /\ prog'[p].pc = "shared"
          /\ prog'[p].mem = prog[p].mem /\ prog'[p].deciding = {d}
          /\ \A q \in Programs \ {p} : prog'[q] = prog[q]
      BY <1>0, <1>2, Zenon DEF History!Decide, ProgState, Holding
    <2>2. QED
      BY <1>2, <2>1, Zenon DEF History!Decide, HistoryInv, FileShapes, Holding
  <1>3. QED
    BY <1>1, <1>2, SMTT(30)

\* An end, a power cut, a restored data directory, a repaired file: the shared
\* file loses nothing that was synced.
LEMMA FaultsKeep ==
    ASSUME History!Shared \notin Programs, HistoryInv,
           \/ \E p \in Programs : History!Exit(p) \/ History!RestoreDatadir(p)
           \/ History!PowerCut \/ \E f \in History!File : History!RepairTorn(f)
    PROVE  HistoryInv'
PROOF
  <1>0. /\ prog \in [Programs -> ProgState] /\ files \in [History!File -> FileState]
        /\ History!Shared \in History!File /\ Programs \subseteq History!File
    BY SMTT(30) DEF HistoryInv, FileShapes, History!File
  <1>1. ASSUME NEW p \in Programs, History!Exit(p) PROVE HistoryInv'
    <2>1. /\ prog' \in [Programs -> ProgState] /\ prog'[p].pc = "down"
          /\ \A q \in Programs \ {p} : prog'[q] = prog[q]
      BY <1>0, <1>1, SMTT(30) DEF History!Exit, History!Down, ProgState
    <2>2. QED
      BY <1>0, <1>1, <2>1, SMTT(30) DEF History!Exit, HistoryInv, FileShapes, Holding
  <1>2. ASSUME NEW p \in Programs, History!RestoreDatadir(p) PROVE HistoryInv'
    <2>1. PICK old \in SUBSET files[p].lines :
              files' = [files EXCEPT ![p] = [lines |-> old, synced |-> old, torn |-> FALSE]]
      BY <1>2, Zenon DEF History!RestoreDatadir
    <2>2. files' \in [History!File -> FileState] /\ files'[History!Shared] = files[History!Shared]
      BY <1>0, <2>1 DEF FileState
    <2>3. QED
      BY <1>2, <2>2 DEF History!RestoreDatadir, HistoryInv, FileShapes
  <1>3. CASE History!PowerCut
    <2>1. /\ files' \in [History!File -> FileState]
          /\ files'[History!Shared].lines = files[History!Shared].synced \/ files'[History!Shared].lines = files[History!Shared].lines
          /\ files'[History!Shared].synced = files'[History!Shared].lines
      <3>1. PICK kept \in [History!File -> {"all", "synced", "part"}] :
                files' = [f \in History!File |->
                    CASE kept[f] = "synced" -> [files[f] EXCEPT !.lines = files[f].synced, !.torn = FALSE]
                      [] kept[f] = "part" /\ files[f].lines # files[f].synced ->
                             [files[f] EXCEPT !.lines = files[f].synced, !.torn = TRUE]
                      [] OTHER -> [files[f] EXCEPT !.synced = files[f].lines]]
        BY <1>3, Zenon DEF History!PowerCut
      <3>2. ASSUME NEW f \in History!File
            PROVE  /\ files'[f] \in FileState
                   /\ files'[f].lines = files[f].synced \/ files'[f].lines = files[f].lines
                   /\ files'[f].synced = files'[f].lines
        <4>1. CASE kept[f] = "synced"
          BY <1>0, <3>1, <4>1, Zenon DEF FileState
        <4>2. CASE kept[f] = "part" /\ files[f].lines # files[f].synced
          BY <1>0, <3>1, <4>2, Zenon DEF FileState
        <4>3. CASE kept[f] # "synced" /\ ~(kept[f] = "part" /\ files[f].lines # files[f].synced)
          BY <1>0, <3>1, <4>3, Zenon DEF FileState
        <4>4. QED
          BY <4>1, <4>2, <4>3, SMTT(30)
      <3>3. QED
        BY <1>0, <3>1, <3>2, Zenon
    <2>2. prog' \in [Programs -> ProgState] /\ \A q \in Programs : prog'[q].pc = "down"
      BY <1>3, Zenon DEF History!PowerCut, History!Down, ProgState
    <2>3. /\ signed' = signed /\ owner' = History!Shared
          /\ starts' = starts /\ failures' = failures /\ restores' = restores
      BY <1>3, Zenon DEF History!PowerCut
    <2>4. \A q \in Programs : prog'[q].pc \notin Holding \cup {"own", "sign", "shared"}
      BY <2>2 DEF Holding
    <2>5. /\ files'[History!Shared].synced \subseteq files'[History!Shared].lines
          /\ files[History!Shared].synced \subseteq files'[History!Shared].synced
          /\ files'[History!Shared].lines \subseteq files[History!Shared].lines
      BY <2>1 DEF HistoryInv
    <2>6. /\ \A d, e \in files'[History!Shared].lines : d[1] = e[1] => d[2] = e[2]
          /\ signed' \subseteq files'[History!Shared].synced
      BY <2>3, <2>5, Zenon DEF HistoryInv
    <2>7. FileShapes'
      BY <2>1, <2>2, <2>3 DEF HistoryInv, FileShapes, History!File
    <2>8. QED
      BY <2>4, <2>5, <2>6, <2>7, Zenon DEF HistoryInv
  <1>4. ASSUME NEW f \in History!File, History!RepairTorn(f) PROVE HistoryInv'
    <2>1. /\ files' \in [History!File -> FileState] /\ files'[History!Shared].lines = files[History!Shared].lines
          /\ files'[History!Shared].synced = files[History!Shared].synced
      BY <1>0, <1>4, Zenon DEF History!RepairTorn, FileState
    <2>2. QED
      BY <1>4, <2>1 DEF History!RepairTorn, HistoryInv, FileShapes
  <1>5. QED
    BY <1>1, <1>2, <1>3, <1>4

\* HistoryInv is inductive.
THEOREM HistoryInvariant ==
    ASSUME History!Shared \notin Programs PROVE History!Spec => []HistoryInv
PROOF
  <1>1. HistoryInv /\ [History!Next]_(History!vars) => HistoryInv'
    <2>1. SUFFICES ASSUME HistoryInv, [History!Next]_(History!vars) PROVE HistoryInv'
      BY SMTT(30)
    <2>2. CASE UNCHANGED History!vars
      BY <2>1, <2>2 DEF History!vars, HistoryInv, FileShapes
    <2>3. CASE History!Next
      BY <2>1, <2>3, StartKeeps, RecordingKeeps, SigningKeeps, FaultsKeep DEF History!Next
    <2>4. QED
      BY <2>1, <2>2, <2>3
  <1>2. QED
    BY <1>1, InitHistory, PTL DEF History!Spec

\* Whichever program signs with a key, no two of its signatures are for
\* different blocks of one height.
THEOREM KeyNeverSignsTwice ==
    ASSUME History!Shared \notin Programs PROVE History!Spec => []History!NeverSignsTwice
PROOF
  <1>1. HistoryInv => History!NeverSignsTwice
    BY DEF HistoryInv, History!NeverSignsTwice, History!Conflicting
  <1>2. QED
    BY <1>1, HistoryInvariant, PTL

\* Every decision that was ever signed is on stable storage in the shared
\* history, whatever happened since.
THEOREM SignedStaysDurable ==
    ASSUME History!Shared \notin Programs PROVE History!Spec => []History!SignedIsDurable
PROOF
  <1>1. HistoryInv => History!SignedIsDurable
    BY DEF HistoryInv, History!SignedIsDurable
  <1>2. QED
    BY <1>1, HistoryInvariant, PTL

\* At most one program can sign at a time: the one that holds the lock.
THEOREM OneSignerAtATime ==
    ASSUME History!Shared \notin Programs PROVE History!Spec => []History!OneSigner
PROOF
  <1>1. HistoryInv => History!OneSigner
    BY DEF HistoryInv, History!OneSigner, Holding
  <1>2. QED
    BY <1>1, HistoryInvariant, PTL

\* All of it: a key whose histories hold decisions only never signs twice, signs
\* from one program at a time, and has what it signed on stable storage.
THEOREM EndorsementsStaySafe ==
    ASSUME History!Shared \notin Programs PROVE History!Spec => []History!EndorsementsSafe
PROOF
  <1>1. HistoryInv => History!TypeOK
    <2>1. SUFFICES ASSUME HistoryInv PROVE History!TypeOK
      OBVIOUS
    <2>2. \A f \in History!File : files[f] \in FileState
      BY <2>1 DEF HistoryInv, FileShapes
    <2>3. \A p \in Programs : prog[p] \in ProgState
      BY <2>1 DEF HistoryInv, FileShapes
    <2>4. QED
      BY <2>1, <2>2, <2>3 DEF HistoryInv, FileShapes, History!TypeOK, FileState, ProgState
  <1>2. QED
    BY <1>1, HistoryInvariant, KeyNeverSignsTwice, SignedStaysDurable, OneSignerAtATime, PTL
       DEF History!EndorsementsSafe

-----------------------------------------------------------------------------
(* The pool's journal *)

CONSTANTS MaxEvents, MaxBatch, MaxHappen
VARIABLES present, log, torn, synced, index, anchor, stage, mem, seen, created, happened

Pool == INSTANCE PoolJournal WITH pc <- stage, faults <- happened, MaxFaults <- MaxHappen

\* A sequence is a function on the numbers up to its length.
LEMMA LenProperties ==
    ASSUME NEW S, NEW s \in Seq(S)
    PROVE  Len(s) \in Nat /\ s \in [1..Len(s) -> S] /\ DOMAIN s = 1..Len(s)
PROOF OBVIOUS

-----------------------------------------------------------------------------
(* Beginnings of sequences *)

\* A beginning of a beginning is one.
LEMMA BeginsTransitive ==
    ASSUME NEW E, NEW r \in Seq(E), NEW s \in Seq(E), NEW t \in Seq(E),
           Pool!Begins(r, s), Pool!Begins(s, t)
    PROVE  Pool!Begins(r, t)
PROOF
  <1>1. Len(r) \in Nat /\ Len(s) \in Nat /\ Len(t) \in Nat
    BY LenProperties
  <1> QED
    BY <1>1 DEF Pool!Begins

\* What is added at the end leaves a sequence a beginning.
LEMMA BeginsGrown ==
    ASSUME NEW E, NEW s \in Seq(E), NEW u \in Seq(E)
    PROVE  /\ s \o u \in Seq(E) /\ Len(s \o u) = Len(s) + Len(u)
           /\ Pool!Begins(s, s \o u)
PROOF
  <1>1. Len(s) \in Nat /\ Len(u) \in Nat
    BY LenProperties
  <1>2. /\ s \o u \in Seq(E) /\ Len(s \o u) = Len(s) + Len(u)
        /\ \A i \in 1..Len(s) : (s \o u)[i] = s[i]
    BY <1>1
  <1> QED
    BY <1>1, <1>2 DEF Pool!Begins

\* A cut is a beginning, and keeps the beginnings that are not longer.
LEMMA BeginsCut ==
    ASSUME NEW E, NEW t \in Seq(E), NEW k \in 0..Len(t)
    PROVE  /\ SubSeq(t, 1, k) \in Seq(E) /\ Len(SubSeq(t, 1, k)) = k
           /\ Pool!Begins(SubSeq(t, 1, k), t)
           /\ \A s \in Seq(E) : Pool!Begins(s, t) /\ Len(s) <= k => Pool!Begins(s, SubSeq(t, 1, k))
PROOF
  <1>1. Len(t) \in Nat
    BY LenProperties
  <1>2. /\ SubSeq(t, 1, k) \in Seq(E) /\ Len(SubSeq(t, 1, k)) = k
        /\ \A i \in 1..k : SubSeq(t, 1, k)[i] = t[i]
    BY <1>1
  <1>3. ASSUME NEW s \in Seq(E), Pool!Begins(s, t), Len(s) <= k
        PROVE  Pool!Begins(s, SubSeq(t, 1, k))
    <2>1. Len(s) \in Nat
      BY LenProperties
    <2> QED
      BY <1>1, <1>2, <1>3, <2>1 DEF Pool!Begins
  <1> QED
    BY <1>1, <1>2, <1>3 DEF Pool!Begins
-----------------------------------------------------------------------------
(* The inductive invariant *)

Events == 1..MaxEvents
Bounds == MaxEvents \in Nat /\ MaxBatch \in Nat

\* Every copy is a sequence of events.
Sorts ==
    /\ {log, index, mem, seen} \subseteq Seq(Events)
    /\ anchor = Pool!NoAnchor \/ anchor \in Seq(Events)
    /\ present \in BOOLEAN /\ torn \in BOOLEAN
    /\ synced \in 0..Len(log) /\ stage \in Pool!Pc /\ created \in 0..MaxEvents
    /\ happened \in [Pool!Faults -> Nat]

\* What was ever served is under the anchor; a process that has accepted the log
\* works on an extension of it, and knows how far it has come.
Served ==
    /\ Pool!Begins(seen, Pool!Marker)
    /\ stage \in Pool!Running \cup {"replayed"} => Pool!Begins(seen, log)
    /\ stage \in Pool!Running => mem = seen
    /\ stage \in {"replayed", "open"} => mem = log
    /\ stage \in {"written", "fsynced", "anchored"} => Len(log) - Len(mem) \in 1..MaxBatch
    /\ stage = "anchored" => anchor = log

\* No process was interrupted in an append.
Calm == happened["kill"] = 0 /\ happened["io"] = 0

\* The faults after which the journal must be accepted.
Repairable == happened["directory"] = 0 /\ (happened["power"] = 0 \/ Calm)

\* Anchor and index name beginnings of the log, and fsynced ones while power cuts
\* are possible.
Kept ==
    Repairable =>
        /\ Pool!Begins(Pool!Marker, log) /\ Pool!Begins(index, log)
        /\ Calm => /\ Len(Pool!Marker) <= synced /\ Len(index) <= synced
                   /\ stage # "written" => synced = Len(log)

PoolJournalInv == Sorts /\ Served /\ Kept

\* An anchor of events is not the value for none.
LEMMA AnchorIs == \A a \in Seq(Events) : a # Pool!NoAnchor
PROOF
  <1> TAKE a \in Seq(Events)
  <1>1. \A i \in 1..Len(a) : a[i] \in Events
    OBVIOUS
  <1>2. Len(Pool!NoAnchor) = 1 /\ Pool!NoAnchor[1] = 0
    BY DEF Pool!NoAnchor
  <1> QED
    BY <1>1, <1>2 DEF Events

LEMMA MarkerIs == ASSUME Sorts PROVE Pool!Marker \in Seq(Events)
PROOF
  <1>1. <<>> \in Seq(Events)
    OBVIOUS
  <1> QED
    BY <1>1 DEF Pool!Marker, Sorts

LEMMA JournalStarts == ASSUME Bounds, Pool!Init PROVE PoolJournalInv
PROOF
  <1>1. Pool!Marker = <<>> /\ Len(<<>>) = 0 /\ <<>> \in Seq(Events)
    BY DEF Pool!Init, Pool!Marker
  <1>2. present \in BOOLEAN /\ torn \in BOOLEAN
    BY Zenon DEF Pool!Init
  <1>3. happened \in [Pool!Faults -> Nat]
    BY DEF Pool!Init
  <1>4. {log, index, mem, seen} \subseteq Seq(Events) /\ synced \in 0..Len(log)
    BY <1>1 DEF Pool!Init
  <1>5. Sorts
    BY <1>2, <1>3, <1>4 DEF Pool!Init, Sorts, Bounds, Pool!Pc
  <1>6. Pool!Begins(<<>>, <<>>)
    BY <1>1 DEF Pool!Begins
  <1> QED
    BY <1>1, <1>5, <1>6 DEF Pool!Init, PoolJournalInv, Served, Kept, Pool!Running

-----------------------------------------------------------------------------
(* Opening *)

LEMMA OpenLogKeeps == ASSUME PoolJournalInv, Pool!OpenLog PROVE PoolJournalInv'
PROOF
  <1>1. Pool!Marker' = Pool!Marker
    BY DEF Pool!OpenLog, Pool!Marker
  <1> QED
    BY <1>1 DEF PoolJournalInv, Sorts, Served, Kept, Repairable, Calm, Pool!OpenLog, Pool!Pc, Pool!Running

LEMMA ReplayKeeps == ASSUME PoolJournalInv, Pool!Replay PROVE PoolJournalInv'
PROOF
  <1>1. Pool!Marker' = Pool!Marker /\ Pool!Marker \in Seq(Events) /\ log \in Seq(Events) /\ seen \in Seq(Events)
    BY MarkerIs DEF Pool!Replay, Pool!Marker, PoolJournalInv, Sorts
  <1>2. Len(log) \in Nat /\ Pool!Begins(log, log)
    BY <1>1 DEF Pool!Begins
  <1>3. Sorts'
    BY DEF PoolJournalInv, Sorts, Pool!Replay, Pool!Pc
  <1>4. CASE Pool!Acceptable
    <2>1. Pool!Begins(Pool!Marker, log)
      BY <1>4 DEF Pool!Acceptable
    <2>2. Pool!Begins(seen, log)
      BY <1>1, <2>1, BeginsTransitive DEF PoolJournalInv, Served
    <2>3. Served'
      BY <1>1, <1>4, <2>2 DEF PoolJournalInv, Served, Pool!Replay, Pool!Running
    <2>4. Kept'
      BY <1>1, <1>2, <1>4 DEF PoolJournalInv, Sorts, Kept, Repairable, Calm, Pool!Replay
    <2> QED
      BY <1>3, <2>3, <2>4 DEF PoolJournalInv
  <1>5. CASE ~Pool!Acceptable
    BY <1>1, <1>3, <1>5 DEF PoolJournalInv, Served, Kept, Repairable, Calm, Pool!Replay, Pool!Running
  <1> QED
    BY <1>4, <1>5

LEMMA AnchorReplayKeeps == ASSUME PoolJournalInv, Pool!AnchorReplay PROVE PoolJournalInv'
PROOF
  <1>1. log \in Seq(Events) /\ mem = log
    BY DEF PoolJournalInv, Sorts, Served, Pool!AnchorReplay
  <1>2. Len(log) \in Nat /\ Pool!Begins(log, log)
    BY <1>1 DEF Pool!Begins
  <1>3. Pool!Marker' = log
    BY <1>1, AnchorIs DEF Pool!AnchorReplay, Pool!Marker
  <1>4. Sorts'
    BY <1>1 DEF PoolJournalInv, Sorts, Pool!AnchorReplay, Pool!Pc, Pool!Running
  <1>5. Served'
    BY <1>1, <1>2, <1>3 DEF Pool!AnchorReplay, Served, Pool!Running
  <1>6. Kept'
    BY <1>1, <1>2, <1>3 DEF PoolJournalInv, Kept, Repairable, Calm, Pool!AnchorReplay
  <1> QED
    BY <1>4, <1>5, <1>6 DEF PoolJournalInv

-----------------------------------------------------------------------------
(* Appending *)

\* The lines of a batch are events, and so are some of them.
LEMMA BatchIs ==
    ASSUME Bounds, Sorts, NEW n \in 1..MaxBatch, created + n <= MaxEvents
    PROVE  /\ Pool!Batch(n) \in Seq(Events) /\ Len(Pool!Batch(n)) = n
           /\ created + n \in 0..MaxEvents
           /\ \A k \in 0..n : SubSeq(Pool!Batch(n), 1, k) \in Seq(Events)
PROOF
  <1>1. n \in Nat /\ created \in Nat /\ MaxEvents \in Nat
    BY DEF Bounds, Sorts
  <1>2. \A i \in 1..n : created + i \in Events
    BY <1>1 DEF Events
  <1>3. Pool!Batch(n) \in [1..n -> Events]
    BY <1>2 DEF Pool!Batch
  <1>4. Pool!Batch(n) \in Seq(Events) /\ Len(Pool!Batch(n)) = n
    BY <1>1, <1>3
  <1>5. ASSUME NEW k \in 0..n PROVE SubSeq(Pool!Batch(n), 1, k) \in Seq(Events)
    BY <1>4, <1>5, BeginsCut
  <1> QED
    BY <1>1, <1>4, <1>5

\* The log grows: what began it still does.
LEMMA LogGrows ==
    ASSUME Sorts, NEW u \in Seq(Events), log' = log \o u, UNCHANGED <<index, anchor, seen>>
    PROVE  /\ log' \in Seq(Events) /\ Len(log') = Len(log) + Len(u)
           /\ Len(log) \in Nat /\ Len(u) \in Nat
           /\ Pool!Begins(Pool!Marker, log) => Pool!Begins(Pool!Marker, log)'
           /\ Pool!Begins(index, log) => Pool!Begins(index, log)'
           /\ Pool!Begins(seen, log) => Pool!Begins(seen, log)'
PROOF
  <1>1. log \in Seq(Events) /\ index \in Seq(Events) /\ seen \in Seq(Events)
        /\ Pool!Marker \in Seq(Events)
    BY MarkerIs DEF Sorts
  <1>2. /\ log' \in Seq(Events) /\ Len(log') = Len(log) + Len(u)
        /\ Pool!Begins(log, log')
    BY <1>1, BeginsGrown
  <1>3. \A s \in Seq(Events) : Pool!Begins(s, log) => Pool!Begins(s, log')
    BY <1>1, <1>2, BeginsTransitive, Zenon
  <1>4. Pool!Marker' = Pool!Marker
    BY DEF Pool!Marker
  <1> QED
    BY <1>1, <1>2, <1>3, <1>4, LenProperties

LEMMA WriteLinesKeeps == ASSUME Bounds, PoolJournalInv, Pool!WriteLines PROVE PoolJournalInv'
PROOF
  <1>1. PICK n \in 1..MaxBatch :
          created + n <= MaxEvents /\ log' = log \o Pool!Batch(n) /\ created' = created + n
    BY DEF Pool!WriteLines
  <1>2. /\ Pool!Batch(n) \in Seq(Events) /\ Len(Pool!Batch(n)) = n /\ created' \in 0..MaxEvents
        /\ n \in Nat
    BY <1>1, BatchIs DEF PoolJournalInv, Bounds
  <1>3. /\ log' \in Seq(Events) /\ Len(log') = Len(log) + n /\ Len(log) \in Nat
        /\ Pool!Begins(Pool!Marker, log) => Pool!Begins(Pool!Marker, log)'
        /\ Pool!Begins(index, log) => Pool!Begins(index, log)'
        /\ Pool!Begins(seen, log) => Pool!Begins(seen, log)'
    BY <1>1, <1>2, LogGrows, Zenon DEF PoolJournalInv, Pool!WriteLines
  <1>4. Pool!Marker' = Pool!Marker
    BY DEF Pool!Marker, Pool!WriteLines
  <1>5. Sorts'
    BY <1>2, <1>3 DEF PoolJournalInv, Sorts, Pool!WriteLines, Pool!Pc, Pool!Running
  <1>6. Served'
    BY <1>2, <1>3, <1>4, <1>1 DEF PoolJournalInv, Served, Pool!WriteLines, Pool!Running
  <1>7. Kept'
    BY <1>3, <1>4 DEF PoolJournalInv, Kept, Repairable, Calm, Pool!WriteLines
  <1> QED
    BY <1>5, <1>6, <1>7 DEF PoolJournalInv

\* A fault of one kind is counted, the others are not.
LEMMA FaultIs ==
    ASSUME Sorts, NEW f \in Pool!Faults, Pool!Fault(f)
    PROVE  /\ happened' \in [Pool!Faults -> Nat] /\ happened'[f] # 0
           /\ \A g \in Pool!Faults \ {f} : happened'[g] = happened[g]
PROOF
  BY DEF Sorts, Pool!Fault

LEMMA PartialWriteKeeps == ASSUME Bounds, PoolJournalInv, Pool!PartialWrite PROVE PoolJournalInv'
PROOF
  <1>1. PICK n \in 1..MaxBatch :
          /\ created + n <= MaxEvents /\ created' = created + n
          /\ \E k \in 0..(n - 1) : log' = log \o SubSeq(Pool!Batch(n), 1, k)
    BY DEF Pool!PartialWrite
  <1>2. PICK k \in 0..(n - 1) : log' = log \o SubSeq(Pool!Batch(n), 1, k)
    BY <1>1
  <1>3. SubSeq(Pool!Batch(n), 1, k) \in Seq(Events) /\ created' \in 0..MaxEvents
    BY <1>1, <1>2, BatchIs DEF PoolJournalInv, Bounds
  <1>4. /\ log' \in Seq(Events) /\ Len(log') >= Len(log) /\ Len(log) \in Nat /\ Len(log') \in Nat
        /\ Pool!Begins(Pool!Marker, log) => Pool!Begins(Pool!Marker, log)'
        /\ Pool!Begins(index, log) => Pool!Begins(index, log)'
    <2> DEFINE u == SubSeq(Pool!Batch(n), 1, k)
    <2>1. u \in Seq(Events) /\ log' = log \o u /\ UNCHANGED <<index, anchor, seen>> /\ Sorts
      BY <1>2, <1>3 DEF PoolJournalInv, Pool!PartialWrite
    <2> HIDE DEF u
    <2> QED
      BY <2>1, LogGrows
  <1>5. happened' \in [Pool!Faults -> Nat] /\ ~Calm' /\ (Repairable' => Repairable)
    <2>1. /\ happened' \in [Pool!Faults -> Nat] /\ happened'["io"] # 0
          /\ \A g \in Pool!Faults \ {"io"} : happened'[g] = happened[g]
      BY FaultIs DEF Pool!PartialWrite, PoolJournalInv, Pool!Faults
    <2> QED
      BY <2>1 DEF Repairable, Calm, Pool!Faults
  <1>6. Pool!Marker' = Pool!Marker
    BY DEF Pool!Marker, Pool!PartialWrite
  <1>7. torn' \in BOOLEAN
    BY DEF Pool!PartialWrite
  <1>8. Sorts'
    BY <1>3, <1>4, <1>5, <1>7, SMTT(30) DEF PoolJournalInv, Sorts, Pool!PartialWrite, Pool!Pc
  <1>9. Served'
    BY <1>6 DEF PoolJournalInv, Served, Pool!PartialWrite, Pool!Running
  <1>10. Kept'
    BY <1>4, <1>5, <1>6 DEF PoolJournalInv, Kept
  <1> QED
    BY <1>8, <1>9, <1>10 DEF PoolJournalInv

LEMMA FsyncKeeps == ASSUME PoolJournalInv, Pool!Fsync PROVE PoolJournalInv'
PROOF
  <1>1. Pool!Marker' = Pool!Marker
    BY DEF Pool!Marker, Pool!Fsync
  <1>2. log \in Seq(Events) /\ Len(log) \in Nat
    BY LenProperties DEF PoolJournalInv, Sorts
  <1>3. Sorts'
    BY <1>2 DEF PoolJournalInv, Sorts, Pool!Fsync, Pool!Pc, Pool!Running
  <1>4. Served'
    BY <1>1, SMTT(30) DEF PoolJournalInv, Served, Pool!Fsync, Pool!Running
  <1>5. Kept'
    BY <1>1, <1>2 DEF PoolJournalInv, Kept, Repairable, Calm, Pool!Fsync, Pool!Begins
  <1> QED
    BY <1>3, <1>4, <1>5 DEF PoolJournalInv

LEMMA WriteAnchorKeeps == ASSUME PoolJournalInv, Pool!WriteAnchor PROVE PoolJournalInv'
PROOF
  <1>1. log \in Seq(Events) /\ Len(log) \in Nat
    BY LenProperties DEF PoolJournalInv, Sorts
  <1>2. Pool!Marker' = log
    BY <1>1, AnchorIs DEF Pool!WriteAnchor, Pool!Marker
  <1>3. Pool!Begins(log, log)
    BY <1>1 DEF Pool!Begins
  <1>4. Sorts'
    BY <1>1 DEF PoolJournalInv, Sorts, Pool!WriteAnchor, Pool!Pc, Pool!Running
  <1>5. Served'
    BY <1>2 DEF PoolJournalInv, Served, Pool!WriteAnchor, Pool!Running
  <1>6. Kept'
    BY <1>1, <1>2, <1>3 DEF PoolJournalInv, Sorts, Kept, Repairable, Calm, Pool!WriteAnchor
  <1> QED
    BY <1>4, <1>5, <1>6 DEF PoolJournalInv

LEMMA CommitIndexKeeps == ASSUME PoolJournalInv, Pool!CommitIndex PROVE PoolJournalInv'
PROOF
  <1>1. log \in Seq(Events) /\ Len(log) \in Nat /\ anchor = log
    BY LenProperties DEF PoolJournalInv, Sorts, Served, Pool!CommitIndex
  <1>2. Pool!Marker' = log /\ Pool!Marker = log
    BY <1>1, AnchorIs DEF Pool!CommitIndex, Pool!Marker
  <1>3. Pool!Begins(log, log)
    BY <1>1 DEF Pool!Begins
  <1>4. Sorts'
    BY <1>1 DEF PoolJournalInv, Sorts, Pool!CommitIndex, Pool!Pc, Pool!Running
  <1>5. Served'
    BY <1>2, <1>3 DEF PoolJournalInv, Served, Pool!CommitIndex, Pool!Running
  <1>6. Kept'
    BY <1>1, <1>2, <1>3 DEF PoolJournalInv, Sorts, Kept, Repairable, Calm, Pool!CommitIndex
  <1> QED
    BY <1>4, <1>5, <1>6 DEF PoolJournalInv

\* The process ends, with the files as they are.
LEMMA PoolEndKeeps ==
    ASSUME PoolJournalInv, UNCHANGED <<Pool!disk, mem, seen, created>>,
           stage' \in {"closed", "down"},
           \/ UNCHANGED happened /\ stage # "written"
           \/ \E f \in {"io", "kill"} : Pool!Fault(f)
    PROVE  PoolJournalInv'
PROOF
  <1>1. Pool!Marker' = Pool!Marker
    BY DEF Pool!Marker, Pool!disk
  <1>2. /\ happened' \in [Pool!Faults -> Nat] /\ (Repairable' => Repairable)
        /\ Calm' => Calm /\ stage # "written"
    <2>1. CASE UNCHANGED happened /\ stage # "written"
      BY <2>1 DEF PoolJournalInv, Sorts, Repairable, Calm
    <2>2. ASSUME NEW f \in {"io", "kill"}, Pool!Fault(f)
          PROVE  /\ happened' \in [Pool!Faults -> Nat] /\ (Repairable' => Repairable) /\ ~Calm'
      <3>1. /\ happened' \in [Pool!Faults -> Nat] /\ happened'[f] # 0
            /\ \A g \in Pool!Faults \ {f} : happened'[g] = happened[g]
        BY <2>2, FaultIs DEF PoolJournalInv, Pool!Faults
      <3> QED
        BY <2>2, <3>1 DEF Repairable, Calm, Pool!Faults
    <2> QED
      BY <2>1, <2>2
  <1>3. Sorts'
    BY <1>2 DEF PoolJournalInv, Sorts, Pool!disk, Pool!Pc
  <1>4. Served'
    BY <1>1 DEF PoolJournalInv, Served, Pool!disk, Pool!Running
  <1>5. Kept'
    BY <1>1, <1>2 DEF PoolJournalInv, Kept, Pool!disk
  <1> QED
    BY <1>3, <1>4, <1>5 DEF PoolJournalInv

LEMMA StopKeeps == ASSUME PoolJournalInv, Pool!AppendFails \/ Pool!Close \/ Pool!Kill PROVE PoolJournalInv'
PROOF
  <1>1. CASE Pool!AppendFails
    BY <1>1, PoolEndKeeps DEF Pool!AppendFails
  <1>2. CASE Pool!Close
    BY <1>2, PoolEndKeeps DEF Pool!Close
  <1>3. CASE Pool!Kill
    BY <1>3, PoolEndKeeps DEF Pool!Kill
  <1> QED
    BY <1>1, <1>2, <1>3

-----------------------------------------------------------------------------
(* The environment *)

LEMMA PowerCutKeeps == ASSUME PoolJournalInv, Pool!PowerCut PROVE PoolJournalInv'
PROOF
  <1>1. PICK k \in synced..Len(log) :
          /\ log' = SubSeq(log, 1, k) /\ synced' = k
          /\ torn' \in IF k < Len(log) \/ torn THEN BOOLEAN ELSE {FALSE}
    BY Zenon DEF Pool!PowerCut
  <1>2. /\ log \in Seq(Events) /\ index \in Seq(Events) /\ Pool!Marker \in Seq(Events)
        /\ synced \in Nat /\ Len(log) \in Nat /\ k \in 0..Len(log)
    BY <1>1, MarkerIs, LenProperties DEF PoolJournalInv, Sorts
  <1>3. /\ log' \in Seq(Events) /\ Len(log') = k
        /\ \A s \in Seq(Events) : Pool!Begins(s, log) /\ Len(s) <= k => Pool!Begins(s, log')
    BY <1>1, <1>2, BeginsCut
  <1>4. /\ happened' \in [Pool!Faults -> Nat]
        /\ Repairable' => Repairable /\ Calm
    <2>1. /\ happened' \in [Pool!Faults -> Nat] /\ happened'["power"] # 0
          /\ \A g \in Pool!Faults \ {"power"} : happened'[g] = happened[g]
      BY FaultIs DEF Pool!PowerCut, PoolJournalInv, Pool!Faults
    <2> QED
      BY <2>1 DEF Repairable, Calm, Pool!Faults
  <1>5. Pool!Marker' = Pool!Marker
    BY DEF Pool!Marker, Pool!PowerCut
  <1>6. torn' \in BOOLEAN
    BY <1>1, Zenon
  <1>7. Sorts'
    BY <1>1, <1>2, <1>3, <1>4, <1>6 DEF PoolJournalInv, Sorts, Pool!PowerCut, Pool!Pc
  <1>8. Served'
    BY <1>5 DEF PoolJournalInv, Served, Pool!PowerCut, Pool!Running
  <1>9. ASSUME Repairable' PROVE Pool!Begins(Pool!Marker, log)' /\ Pool!Begins(index, log)' /\ Len(Pool!Marker)' <= synced' /\ Len(index)' <= synced'
    <2>1. /\ Pool!Begins(Pool!Marker, log) /\ Pool!Begins(index, log)
          /\ Len(Pool!Marker) <= synced /\ Len(index) <= synced
      BY <1>4, <1>9 DEF PoolJournalInv, Kept
    <2>2. Len(Pool!Marker) \in Nat /\ Len(index) \in Nat
      BY <1>2, LenProperties
    <2>3. Len(Pool!Marker) <= k /\ Len(index) <= k
      BY <1>1, <1>2, <2>1, <2>2
    <2> QED
      BY <1>1, <1>2, <1>3, <1>5, <2>1, <2>3 DEF Pool!PowerCut
  <1>10. Kept'
    BY <1>1, <1>3, <1>9 DEF Kept
  <1> QED
    BY <1>7, <1>8, <1>10 DEF PoolJournalInv

LEMMA RestoreDirectoryKeeps == ASSUME PoolJournalInv, Pool!RestoreDirectory PROVE PoolJournalInv'
PROOF
  <1>1. PICK k \in 0..Len(seen) :
          log' = SubSeq(seen, 1, k) /\ index' = log' /\ synced' = k
    BY DEF Pool!RestoreDirectory
  <1>2. seen \in Seq(Events)
    BY DEF PoolJournalInv, Sorts
  <1>3. log' \in Seq(Events) /\ Len(log') = k /\ k \in Nat
    BY <1>1, <1>2, BeginsCut
  <1>4. happened' \in [Pool!Faults -> Nat] /\ ~Repairable'
    <2>1. happened' \in [Pool!Faults -> Nat] /\ happened'["directory"] # 0
      BY FaultIs DEF Pool!RestoreDirectory, PoolJournalInv, Pool!Faults
    <2> QED
      BY <2>1 DEF Repairable
  <1>5. Pool!Marker' = Pool!Marker
    BY DEF Pool!Marker, Pool!RestoreDirectory
  <1>6. torn' \in BOOLEAN
    BY Zenon DEF Pool!RestoreDirectory
  <1>7. Sorts'
    BY <1>1, <1>3, <1>4, <1>6, SMTT(30) DEF PoolJournalInv, Sorts, Pool!RestoreDirectory
  <1>8. Served'
    BY <1>5 DEF PoolJournalInv, Served, Pool!RestoreDirectory, Pool!Running
  <1> QED
    BY <1>4, <1>7, <1>8 DEF PoolJournalInv, Kept

LEMMA RestoreIndexKeeps == ASSUME PoolJournalInv, Pool!RestoreIndex PROVE PoolJournalInv'
PROOF
  <1>1. PICK k \in 0..Len(index) : index' = SubSeq(index, 1, k)
    BY DEF Pool!RestoreIndex
  <1>2. /\ index \in Seq(Events) /\ log \in Seq(Events)
        /\ Len(index) \in Nat /\ Len(log) \in Nat
    BY LenProperties DEF PoolJournalInv, Sorts
  <1>3. index' \in Seq(Events) /\ Len(index') = k /\ Pool!Begins(index', index)
    BY <1>1, <1>2, BeginsCut
  <1>4. happened' \in [Pool!Faults -> Nat] /\ Repairable' = Repairable /\ Calm' = Calm
    <2>1. /\ happened' \in [Pool!Faults -> Nat]
          /\ \A g \in Pool!Faults \ {"index"} : happened'[g] = happened[g]
      BY FaultIs DEF Pool!RestoreIndex, PoolJournalInv, Pool!Faults
    <2> QED
      BY <2>1 DEF Repairable, Calm, Pool!Faults
  <1>5. Pool!Marker' = Pool!Marker
    BY DEF Pool!Marker, Pool!RestoreIndex
  <1>6. Sorts'
    BY <1>3, <1>4 DEF PoolJournalInv, Sorts, Pool!RestoreIndex
  <1>7. Served'
    BY <1>5 DEF PoolJournalInv, Served, Pool!RestoreIndex
  <1>8. Pool!Begins(index, log) => Pool!Begins(index, log)'
    BY <1>2, <1>3, BeginsTransitive, Zenon DEF Pool!RestoreIndex
  <1>9. Kept'
    BY <1>1, <1>2, <1>3, <1>4, <1>5, <1>8 DEF PoolJournalInv, Sorts, Kept, Pool!RestoreIndex
  <1> QED
    BY <1>6, <1>7, <1>9 DEF PoolJournalInv

\* The inductive invariant of the pool's journal.
THEOREM PoolJournalInvariant == ASSUME Bounds PROVE Pool!Spec => []PoolJournalInv
PROOF
  <1>1. Pool!Init => PoolJournalInv
    BY JournalStarts
  <1>2. PoolJournalInv /\ [Pool!Next]_(Pool!vars) => PoolJournalInv'
    <2> SUFFICES ASSUME PoolJournalInv, [Pool!Next]_(Pool!vars) PROVE PoolJournalInv'
      BY SMTT(30)
    <2>1. CASE UNCHANGED Pool!vars
      <3>1. Pool!Marker' = Pool!Marker
        BY <2>1 DEF Pool!vars, Pool!disk, Pool!Marker
      <3> QED
        BY <2>1, <3>1 DEF Pool!vars, Pool!disk, PoolJournalInv, Sorts, Served, Kept, Repairable, Calm
    <2> QED
      BY <2>1, OpenLogKeeps, ReplayKeeps, AnchorReplayKeeps, WriteLinesKeeps,
         PartialWriteKeeps, FsyncKeeps, WriteAnchorKeeps, CommitIndexKeeps, StopKeeps,
         PowerCutKeeps, RestoreDirectoryKeeps, RestoreIndexKeeps, SMTT(30) DEF Pool!Next
  <1> QED
    BY <1>1, <1>2, PTL DEF Pool!Spec

-----------------------------------------------------------------------------
(* What follows from it *)

\* For any number of events and faults: a journal that was only crashed opens
\* again (_open), and what it serves extends everything it ever served
\* (append_many, _open).
THEOREM PoolJournalSound == ASSUME Bounds PROVE Pool!Spec => []Pool!JournalSound
PROOF
  <1>1. ASSUME PoolJournalInv PROVE Pool!TypeOK
    <2>1. \A s \in {log, index, mem, seen, Pool!Marker} : s \in Seq(Events)
      BY <1>1, MarkerIs DEF PoolJournalInv, Sorts
    <2>2. \A s \in Seq(Events) : \A i \in 1..Len(s) : s[i] \in Events
      OBVIOUS
    <2>3. \A s \in {log, index, mem, seen, Pool!Marker} : \A i \in 1..Len(s) : s[i] \in 1..MaxEvents
      BY <2>1, <2>2, Zenon DEF Events
    <2> QED
      BY <1>1, <2>3 DEF PoolJournalInv, Sorts, Pool!TypeOK
  <1>2. ASSUME PoolJournalInv PROVE Pool!Recoverable
    BY <1>2 DEF PoolJournalInv, Kept, Repairable, Calm, Pool!Recoverable, Pool!Acceptable
  <1>3. ASSUME PoolJournalInv PROVE Pool!NoRollback
    BY <1>3 DEF PoolJournalInv, Served, Pool!NoRollback
  <1>4. PoolJournalInv => Pool!JournalSound
    BY <1>1, <1>2, <1>3, SMTT(30) DEF Pool!JournalSound
  <1> QED
    BY <1>4, PoolJournalInvariant, PTL

\* A step that leaves the process running, or not running, changes nothing that a
\* consumer sees, but for the end of an append and of a start.
LEMMA StepImplements ==
    ASSUME Bounds, PoolJournalInv, [Pool!Next]_(Pool!vars)
    PROVE  [Pool!Contract!AbsNext]_(Pool!Contract!absVars)
PROOF
  <1> USE DEF Pool!Contract!AbsNext, Pool!Contract!absVars
  <1>1. CASE Pool!CommitIndex
    <2>1. /\ stage = "anchored" /\ stage' = "open" /\ mem' = log /\ seen' = log
          /\ mem = seen /\ Pool!Begins(seen, log) /\ Len(log) - Len(mem) \in 1..MaxBatch
      BY <1>1 DEF Pool!CommitIndex, PoolJournalInv, Served, Pool!Running
    <2>2. Len(log) \in Nat /\ Len(mem) \in Nat /\ MaxBatch \in Nat
      BY LenProperties DEF Bounds, PoolJournalInv, Sorts
    <2>3. Len(log) \in (Len(mem) + 1)..(Len(mem) + MaxBatch)
      BY <2>1, <2>2
    <2>4. stage \in Pool!Running /\ stage' \in Pool!Running
      BY <2>1 DEF Pool!Running
    <2> QED
      BY <2>1, <2>3, <2>4 DEF Pool!Contract!AbsAppend, Pool!Contract!Begins, Pool!Begins
  <1>2. CASE Pool!AnchorReplay
    BY <1>2 DEF Pool!AnchorReplay, PoolJournalInv, Served, Pool!Running, Pool!Contract!AbsOpen, Pool!Contract!Begins, Pool!Begins
  <1>3. CASE UNCHANGED <<mem, seen>> /\ (stage \in Pool!Running <=> stage' \in Pool!Running)
    BY <1>3
  <1>4. CASE UNCHANGED seen /\ stage \in Pool!Running /\ stage' \notin Pool!Running
    BY <1>4 DEF Pool!Contract!AbsStop
  <1>5. CASE UNCHANGED seen /\ stage \notin Pool!Running /\ stage' \notin Pool!Running
    BY <1>5
  <1>6. CASE Pool!OpenLog \/ Pool!Replay \/ Pool!RestoreDirectory \/ Pool!RestoreIndex
    <2>1. UNCHANGED seen /\ stage \notin Pool!Running /\ stage' \notin Pool!Running
      BY <1>6 DEF Pool!OpenLog, Pool!Replay, Pool!RestoreDirectory, Pool!RestoreIndex, Pool!Running
    <2> QED
      BY <1>5, <2>1, SMTT(30)
  <1>7. CASE Pool!WriteLines \/ Pool!Fsync \/ Pool!WriteAnchor
    <2>1. UNCHANGED <<mem, seen>> /\ (stage \in Pool!Running <=> stage' \in Pool!Running)
      BY <1>7 DEF Pool!WriteLines, Pool!Fsync, Pool!WriteAnchor, Pool!Running
    <2> QED
      BY <1>3, <2>1
  <1>8. CASE Pool!PartialWrite \/ Pool!AppendFails \/ Pool!Close \/ Pool!Kill \/ Pool!PowerCut
    <2>1. UNCHANGED seen /\ stage' \notin Pool!Running
      BY <1>8, Zenon DEF Pool!PartialWrite, Pool!AppendFails, Pool!Close, Pool!Kill, Pool!PowerCut, Pool!Running
    <2> QED
      BY <1>4, <1>5, <2>1
  <1>9. CASE UNCHANGED Pool!vars
    BY <1>3, <1>9 DEF Pool!vars
  <1> QED
    BY <1>1, <1>2, <1>6, <1>7, <1>8, <1>9, SMTT(30) DEF Pool!Next

\* The journal's files and steps implement the append-only log that the rest of
\* the pool is written against: an append shows all of its events or none, a stop
\* at any point loses nothing that was shown (pool/journal.py as used by the
\* coordinator, the payments and the operator's controls).
THEOREM JournalImplementsLog == ASSUME Bounds PROVE Pool!Spec => Pool!ImplementsServiceLog
PROOF
  <1>1. Pool!Init => Pool!Contract!AbsInit
    BY DEF Pool!Init, Pool!Contract!AbsInit, Pool!Running
  <1>2. PoolJournalInv /\ [Pool!Next]_(Pool!vars) => [Pool!Contract!AbsNext]_(Pool!Contract!absVars)
    BY StepImplements
  <1> QED
    BY <1>1, <1>2, PoolJournalInvariant, PTL DEF Pool!Spec, Pool!ImplementsServiceLog, Pool!Contract!AbsSpec
==============================================================================
