-------------------------- MODULE FinalityDaemon --------------------------
(***************************************************************************)
(* One validator's FinalityDaemon (finality_daemon.h) with the hooks       *)
(* veld-validator.cpp gives it, step by step: every hook is an RPC or a    *)
(* file operation, and between two of them the node's chain may grow or    *)
(* reorganize, the grant may expire and the process may crash.             *)
(*                                                                         *)
(* The node is on one of a fixed set of branches, cut at a tip.  Its       *)
(* retained finalized checkpoint moves only with its tip, and never leaves *)
(* the chain (FinalityState, FinalizedNeverReverted).  What other          *)
(* validators vote is open: any PREVOTE certificate may exist.  One epoch  *)
(* has one validator set, on every branch, and finality stays active.      *)
(***************************************************************************)
EXTENDS FinalityQC, Sequences

CONSTANTS
    Me, Others,          \* this validator's key; the other keys
    Members,             \* Members[e]: the entries of the snapshot of epoch e
    Branch,              \* the chains the node may be on, as sequences of hashes
    StartTip,            \* the height of the node's tip at the start
    NoVote, NoQc, NoGrant,
    MaxFinalizedHeight,  \* bound: height of a finalized checkpoint
    MaxReorgs,           \* bound: reorganizations in a behaviour
    MaxReorgsPerTick,    \* bound: reorganizations during one Tick
    MaxCrashes           \* bound: crashes, and failed journal writes

VARIABLES
    branch, tip, finalized,  \* the node: its chain is branch cut at tip
    pc, tick,                \* the daemon's place in Tick, and Tick's locals
    memory,                  \* FinalityDaemon's and FinalityVoter's fields
    disk,                    \* journal.bin
    persisted,               \* history: every vote that was ever on the disk
    released,                \* history: every vote that reached the node
    reorgs, crashes

node == <<branch, tip, finalized>>
daemon == <<pc, tick, memory, disk, persisted, released>>
vars == <<node, daemon, reorgs, crashes>>

RefAt(b, h) == [height |-> h, hash |-> b[h]]
Has(b, top, ref) == ref.height \in 1..top /\ RefAt(b, ref.height) = ref
CheckpointsOf(b) ==
    {RefAt(b, h) : h \in {k \in DOMAIN b : IsScheduledCheckpoint(k) /\ EpochOf(k) >= 1}}
Checkpoint == UNION {CheckpointsOf(b) : b \in Branch}
Ancestors ==
    [c \in Checkpoint |->
        {a \in Checkpoint : \E b \in Branch :
            Has(b, Len(b), c) /\ Has(b, c.height, a)}]

SnapshotOf(e) == [epoch_id |-> e, entries |-> Members[e]]
EmptyTick == [height |-> 0, source |-> NullRef, target |-> NullRef,
              extends_lock |-> FALSE, vote |-> NoVote, grant |-> NoGrant, reorgs |-> 0]
EmptyJournal == [lock |-> NoLock, last_vote |-> NoVote]

\* (variant for mutation) the restarted daemon is not locked
Loaded_ForgetsLock(j) == [lock |-> NoLock, journal |-> j, delivered |-> FALSE,
                          prevote_qc |-> NoQc, invalid |-> FALSE]

\* (variant for mutation) the restarted daemon takes its last vote for delivered
Loaded_AssumesDelivered(j) == [lock |-> j.lock, journal |-> j, delivered |-> TRUE,
                               prevote_qc |-> NoQc, invalid |-> FALSE]

\* A process that has just loaded the journal.
Loaded(j) == [lock |-> j.lock, journal |-> j, delivered |-> FALSE,
              prevote_qc |-> NoQc, invalid |-> FALSE]

Init ==
    /\ branch \in Branch /\ tip = StartTip /\ finalized = NullRef
    /\ pc = "idle" /\ tick = EmptyTick
    /\ disk = EmptyJournal /\ memory = Loaded(EmptyJournal)
    /\ persisted = {} /\ released = {}
    /\ reorgs = 0 /\ crashes = 0

-----------------------------------------------------------------------------
(* The node *)

\* The node holds the snapshots of the next block's epoch and of the one before;
\* the first snapshot is taken at the end of epoch 0.
RetainedAt(top, e) == e >= 1 /\ e \in {EpochOf(top + 1) - 1, EpochOf(top + 1)}

\* (variant for mutation) a reorganization may drop the finalized block
NewTip_Unpinned(b, h) ==
    /\ branch' = b /\ tip' = h
    /\ \/ finalized' = finalized
       \/ \E c \in CheckpointsOf(b) :
             /\ c.height > finalized.height /\ c.height <= MaxFinalizedHeight
             /\ InVoteWindow(c.height, h)
             /\ RetainedAt(h - 1, EpochOf(c.height))
             /\ finalized' = c

\* A new tip on chain b, possibly with a certificate that finalizes one of its
\* checkpoints.
NewTip(b, h) ==
    /\ Has(b, h, finalized) \/ finalized = NullRef
    /\ branch' = b /\ tip' = h
    /\ \/ finalized' = finalized
       \/ \E c \in CheckpointsOf(b) :
             /\ c.height > finalized.height /\ c.height <= MaxFinalizedHeight
             /\ InVoteWindow(c.height, h)
             /\ RetainedAt(h - 1, EpochOf(c.height))
             /\ finalized' = c

Grow ==
    /\ tip < Len(branch)
    /\ NewTip(branch, tip + 1)
    /\ UNCHANGED <<daemon, reorgs, crashes>>

\* The node leaves its chain for another one, not below the finalized block.
Reorganize ==
    \E b \in Branch : \E h \in 1..Len(b) :
        /\ SubSeq(b, 1, h) # SubSeq(branch, 1, tip)
        /\ b # branch /\ h \in (tip - 1)..(tip + 1)
        /\ reorgs < MaxReorgs /\ reorgs' = reorgs + 1
        /\ IF pc = "idle" THEN UNCHANGED tick
           ELSE tick.reorgs < MaxReorgsPerTick /\ tick' = [tick EXCEPT !.reorgs = @ + 1]
        /\ NewTip(b, h)
        /\ UNCHANGED <<pc, memory, disk, persisted, released, crashes>>

-----------------------------------------------------------------------------
(* Tick *)

Goto(label) == pc' = label
Keep == UNCHANGED <<node, reorgs, crashes>>
EndTick == pc' = "idle" /\ tick' = EmptyTick

\* At an exact checkpoint height the new checkpoint is not includable yet.
NewestVotableCheckpoint(top) ==
    IF top = 0 THEN 0 ELSE ((top - 1) \div CHECKPOINT_INTERVAL) * CHECKPOINT_INTERVAL

FetchTip ==
    /\ pc = "idle" /\ ~memory.invalid
    /\ NewestVotableCheckpoint(tip) # 0
    /\ Goto("snapshot")
    /\ tick' = [EmptyTick EXCEPT !.height = NewestVotableCheckpoint(tip)]
    /\ Keep /\ UNCHANGED <<memory, disk, persisted, released>>

\* The answer also carries the finalized record, cached as the vote's source.
FetchSnapshot ==
    /\ pc = "snapshot"
    /\ RetainedAt(tip, EpochOf(tick.height))
    /\ SnapshotQualifies(SnapshotOf(EpochOf(tick.height)))
    /\ Goto("prevote_qc")
    /\ tick' = [tick EXCEPT !.source = finalized]
    /\ Keep /\ UNCHANGED <<memory, disk, persisted, released>>

\* The node offers a PREVOTE certificate of its window, or none; a certificate
\* of another epoch than the snapshot's does not verify.
FetchPrevoteQc ==
    /\ pc = "prevote_qc"
    /\ \/ UNCHANGED memory
       \/ \E c \in CheckpointsOf(branch) :
             /\ InVoteWindow(c.height, tip)
             /\ EpochOf(c.height) = EpochOf(tick.height)
             /\ c.height > finalized.height
             /\ memory' = [memory EXCEPT !.prevote_qc = [source |-> finalized, target |-> c]]
    /\ Goto("target")
    /\ Keep /\ UNCHANGED <<tick, disk, persisted, released>>

\* fetch_block_hash, then authorize_target: Bitcoin Core confirms every
\* observation the target covers, and the target is read again at the end.
\* Only that last read matters, so the two hooks are one step.
FetchTarget ==
    /\ pc = "target"
    /\ tick.height <= tip
    /\ Goto("lock")
    /\ tick' = [tick EXCEPT !.target = RefAt(branch, tick.height)]
    /\ Keep /\ UNCHANGED <<memory, disk, persisted, released>>

FetchLocked ==
    /\ pc = "lock"
    /\ tick' = [tick EXCEPT !.extends_lock =
                  /\ memory.lock.held
                  /\ tick.target.height > memory.lock.target.height
                  /\ Has(branch, tip, memory.lock.target)]
    /\ Goto("journal")
    /\ Keep /\ UNCHANGED <<memory, disk, persisted, released>>

VoteOf(phase) == [phase |-> phase, source |-> tick.source, target |-> tick.target]
QcMatches == memory.prevote_qc = [source |-> tick.source, target |-> tick.target]

\* The last vote's snapshot is no longer retained: the daemon stops.
JournalUnverifiable ==
    LET last == memory.journal.last_vote IN
    /\ pc = "journal"
    /\ last # NoVote
    /\ EpochOf(last.target.height) # EpochOf(tick.height)
    /\ ~RetainedAt(tip, EpochOf(last.target.height))
    /\ memory' = [memory EXCEPT !.invalid = TRUE]
    /\ EndTick
    /\ Keep /\ UNCHANGED <<disk, persisted, released>>

\* (variant for mutation) the frames of different epochs are unrelated
JournalAllows_WithinEpoch ==
    LET last == memory.journal.last_vote IN
    last # NoVote =>
        \/ EpochOf(last.target.height) # EpochOf(tick.height)
        \/ FrameNewer(tick.height, last.target.height)
        \/ last = VoteOf(PREVOTE) /\ QcMatches

\* The journal allows a new vote: its frame is newer, or a certificate turns
\* the prevote it holds into a precommit of the same claim.
JournalAllows ==
    LET last == memory.journal.last_vote IN
    last # NoVote =>
        \/ /\ FrameNewer(tick.height, last.target.height)
           /\ \/ EpochOf(last.target.height) = EpochOf(tick.height)
              \/ RetainedAt(tip, EpochOf(last.target.height))
        \/ last = VoteOf(PREVOTE) /\ QcMatches

ChooseVote ==
    /\ pc = "journal"
    /\ JournalAllows
    /\ tick' = [tick EXCEPT !.vote = VoteOf(IF QcMatches THEN PRECOMMIT ELSE PREVOTE)]
    /\ Goto("work")
    /\ Keep /\ UNCHANGED <<memory, disk, persisted, released>>

\* The journal already holds this claim, and the node has not acknowledged it:
\* the exact vote is sent again.
ChooseResend ==
    LET last == memory.journal.last_vote IN
    /\ pc = "journal"
    /\ last # NoVote
    /\ last = VoteOf(PRECOMMIT) \/ (last = VoteOf(PREVOTE) /\ ~QcMatches)
    /\ ~memory.delivered
    /\ tick' = [tick EXCEPT !.vote = last]
    /\ Goto("work_again")
    /\ Keep /\ UNCHANGED <<memory, disk, persisted, released>>

\* The grant is for a canonical target, and bound to the node's tip.
AuthorizeWork ==
    /\ pc \in {"work", "work_again"}
    /\ Has(branch, tip, tick.target)
    /\ tick' = [tick EXCEPT !.grant = RefAt(branch, tip)]
    /\ Goto(IF pc = "work" THEN "sign" ELSE "resend")
    /\ Keep /\ UNCHANGED <<memory, disk, persisted, released>>

\* (variant for mutation) a higher target counts as a descendant of the lock
VoterSigns_HeightOnly ==
    /\ Me \in Members[EpochOf(tick.height)]
    /\ SourceRefWellFormed(tick.source, tick.target)
    /\ \/ ~memory.lock.held
       \/ memory.lock.target = tick.target
       \/ FrameNewer(tick.height, memory.lock.target.height)

\* FinalityVoter::Prevote and Precommit agree to sign; a precommit takes the
\* lock in memory at once.
VoterSigns ==
    LET epoch == EpochOf(tick.height)
        round == CheckpointRound(tick.height)
    IN
    /\ Me \in Members[epoch]
    /\ SourceRefWellFormed(tick.source, tick.target)
    /\ IF tick.vote.phase = PREVOTE
       THEN LockedPrevoteAllowed(memory.lock, epoch, round, tick.target, FALSE,
                                 tick.extends_lock)
       ELSE LockedPrecommitAllowed(memory.lock, epoch, round, tick.target)

LockAfterSigning == IF tick.vote.phase = PRECOMMIT THEN LockOn(tick.target) ELSE memory.lock
NextJournal == [lock |-> LockAfterSigning, last_vote |-> tick.vote]

\* Signing and writing the journal read nothing from the node.
SignAndPersist ==
    /\ pc = "sign" /\ VoterSigns
    /\ disk' = NextJournal /\ persisted' = persisted \cup {tick.vote}
    /\ memory' = [memory EXCEPT !.lock = LockAfterSigning, !.journal = NextJournal,
                                !.delivered = FALSE]
    /\ Goto("send")
    /\ Keep /\ UNCHANGED <<tick, released>>

\* The grant expires between the signature and the journal.
SignAndExpire ==
    /\ pc = "sign" /\ VoterSigns
    /\ memory' = [memory EXCEPT !.lock = LockAfterSigning]
    /\ EndTick
    /\ Keep /\ UNCHANGED <<disk, persisted, released>>

\* (variant for mutation) the daemon goes on after a failed write
PersistFails_Continues ==
    /\ pc = "sign" /\ VoterSigns
    /\ crashes < MaxCrashes /\ crashes' = crashes + 1
    /\ memory' = [memory EXCEPT !.lock = LockAfterSigning, !.journal = NextJournal,
                                !.delivered = FALSE]
    /\ Goto("send")
    /\ UNCHANGED <<node, tick, disk, persisted, released, reorgs>>

\* The write is reported as failed, and may have reached the disk all the same.
PersistFails ==
    /\ pc = "sign" /\ VoterSigns
    /\ crashes < MaxCrashes /\ crashes' = crashes + 1
    /\ \/ UNCHANGED <<disk, persisted>>
       \/ disk' = NextJournal /\ persisted' = persisted \cup {tick.vote}
    /\ memory' = [memory EXCEPT !.lock = LockAfterSigning, !.invalid = TRUE]
    /\ EndTick
    /\ UNCHANGED <<node, released, reorgs>>

\* submitfinalityvote: the node takes the vote only under the tip of the grant.
\* The answer may be lost, or the submission itself.
Gossip ==
    /\ pc \in {"send", "resend"}
    /\ \E reached, answered \in BOOLEAN :
          /\ reached => RefAt(branch, tip) = tick.grant
          /\ answered => reached
          /\ released' = IF reached THEN released \cup {tick.vote} ELSE released
          /\ memory' = [memory EXCEPT
                !.delivered = answered,
                !.prevote_qc = IF pc = "send" /\ tick.vote.phase = PRECOMMIT THEN NoQc ELSE @]
    /\ EndTick
    /\ Keep /\ UNCHANGED <<disk, persisted>>

\* A hook answers nothing or throws, a check of Tick fails, or the grant expires.
Abandon ==
    /\ pc # "idle"
    /\ EndTick
    /\ Keep /\ UNCHANGED <<memory, disk, persisted, released>>

\* The process dies and a new one loads the journal.
Crash ==
    /\ crashes < MaxCrashes /\ crashes' = crashes + 1
    /\ memory' = Loaded(disk)
    /\ EndTick
    /\ UNCHANGED <<node, disk, persisted, released, reorgs>>

Tick ==
    \/ FetchTip \/ FetchSnapshot \/ FetchPrevoteQc \/ FetchTarget
    \/ FetchLocked \/ ChooseVote \/ ChooseResend \/ AuthorizeWork
    \/ SignAndPersist \/ Gossip

Next ==
    \/ Grow \/ Reorganize
    \/ Tick \/ JournalUnverifiable \/ SignAndExpire \/ PersistFails \/ Abandon \/ Crash

Spec == Init /\ [][Next]_vars

\* The tip has moved since the grant was issued.
Stale == pc \in {"send", "resend"} /\ RefAt(branch, tip) # tick.grant

\* The hooks answer, the grant outlives the Tick, and a submission under the
\* current tip reaches the node.
Answered ==
    /\ Abandon => Stale \/ ~ENABLED (Tick \/ JournalUnverifiable)
    /\ Gossip => Stale \/ tick.vote \in released'
    /\ ~SignAndExpire

\* The loop of veld-validator.cpp calls Tick forever, every call returns, and
\* from some time on the node answers.
FairSpec ==
    /\ Spec
    /\ WF_vars(Tick \/ JournalUnverifiable \/ Abandon)
    /\ <>[][Answered]_vars

-----------------------------------------------------------------------------
(* Properties *)

Vote == [phase : Phase, source : Checkpoint \cup {NullRef}, target : Checkpoint]
Journal == [lock : {NoLock} \cup {LockOn(c) : c \in Checkpoint}, last_vote : Vote \cup {NoVote}]

\* The daemon's and the node's state have the shapes the code gives them.
TypeOK ==
    /\ branch \in Branch /\ tip \in 1..Len(branch)
    /\ finalized = NullRef \/ Has(branch, tip, finalized)
    /\ disk \in Journal /\ memory.journal \in Journal
    /\ persisted \subseteq Vote /\ released \subseteq Vote
    /\ tick.vote \in Vote \cup {NoVote}

\* No vote leaves the validator before a journal that remembers it is durable,
\* whatever writes fail and whenever the process dies: the disk holds the vote
\* itself, the precommit of its claim, or a vote of a newer frame.
ReleasedIsRemembered ==
    \A v \in released :
        /\ disk.last_vote # NoVote
        /\ \/ disk.last_vote = v
           \/ disk.last_vote = [v EXCEPT !.phase = PRECOMMIT]
           \/ FrameNewer(disk.last_vote.target.height, v.target.height)

\* The votes that left the validator never contain a pair that IsEquivocation
\* slashes, through any crashes, failed writes, resends and reorganizations.
ReleasedNeverSlashable == \A a, b \in released : ~IsEquivocation(a, b)

\* Once a precommit is out, the lock the daemon votes under, and the one a
\* restart would restore, stand on it or on a newer frame.
ReleasedPrecommitsLocked ==
    \A v \in released : v.phase = PRECOMMIT =>
        \A lock \in {memory.lock, disk.lock} :
            /\ lock.held
            /\ lock.target = v.target \/ FrameNewer(lock.target.height, v.target.height)

\* The journal holds a vote for the checkpoint the node is at, which the node has
\* never received, and the daemon is able to sign.
Undelivered ==
    /\ ~memory.invalid
    /\ disk.last_vote # NoVote /\ disk.last_vote \notin released
    /\ disk.last_vote.target = RefAt(branch, NewestVotableCheckpoint(tip))
    /\ disk.last_vote.source = finalized

\* A vote lost between the journal and the node, by a crash, an expired grant or
\* a failed submission, is sent again as long as its checkpoint is current.
JournaledVoteDelivered == []<>~Undelivered

\* finality_qc.h:466 says the caller of LockedPrevoteAllowed "must establish
\* ancestry by resolving lock.height on the branch containing new_target".
PrevoteExtendsLock ==
    [][(/\ pc = "sign" /\ tick.vote.phase = PREVOTE /\ disk' # disk
        /\ disk.lock.held)
       => disk.lock.target \in Ancestors[tick.target]]_vars
=============================================================================
