----------------------------- MODULE ChainStore -----------------------------
(***************************************************************************)
(* The chain database of a node: three LevelDB stores (block bodies, UTXO  *)
(* rows, canonical index) that no single write can change together, and    *)
(* the journals that make a block connect, a rollback and a reorganisation *)
(* survive a crash between any two of those writes.                        *)
(*                                                                         *)
(*   VeldDB         src/include/core/leveldb.h: RecoverFromJournal,        *)
(*                  CommitBlock, ApplyUTXODelta, RebuildUTXOsFromSnapshot, *)
(*                  BeginReorgUTXO, AbortReorgUTXO, CommitReorgMetadata,   *)
(*                  CompleteReorgUtxoRecoveryAfterReplay, the body pruners *)
(*                  and RebuildCanonicalIndexOffline                       *)
(*   VeldNode       src/include/node/node.h: the on_commit, on_reorg,      *)
(*                  on_reorg_abort and on_rollback callbacks, ReplayChain  *)
(*                  and the two startup repair functions                   *)
(*   Blockchain     src/include/core/blockchain.h: AddBlockDirect,         *)
(*                  ReorganizeBounded_, RollbackTip                        *)
(*                                                                         *)
(* One write of one store is one step.  A write that reports failure may   *)
(* or may not have reached the log; a crash may fall between any two steps.*)
(* The effects of a block on the UTXO rows are named by the block itself:  *)
(* the rows of a chain are the set of its blocks, and a batch adds the     *)
(* effects of some blocks and removes those of others.                     *)
(***************************************************************************)
EXTENDS Integers, FiniteSets, FiniteSetsExt

CONSTANTS
    Blocks,     \* a set of naturals: block hashes in their text order
    Genesis,    \* the compiled genesis block
    Parent,     \* the header's prev_block_hash, a function on Blocks \ {Genesis}
    BlockWork,  \* the work of one block, a function on Blocks
    MaxFaults,  \* bound: crashes, failed writes and damaged indexes
    MaxRefused  \* bound: blocks that the modules or the replay refuse

VARIABLES
    bodies,     \* blocks_db: the blocks whose bytes are stored
    utxo,       \* utxo_db: the blocks whose effects the u:* rows carry
    index,      \* index_db: the authoritative frame and the journals
    pc,         \* the next write of the one thread that owns the transition
    job,        \* the block or reorganisation that is being connected
    mem,        \* the tip of the chain in memory
    failstop,   \* durable_commit_fail_stop_
    latched,    \* durability_compromised_
    faults, refused

disk == <<bodies, utxo, index>>
latches == <<failstop, latched>>
counts == <<faults, refused>>
vars == <<disk, pc, job, mem, latches, counts>>

NoBlock == -1
NoReorg == [anc |-> NoBlock, old |-> NoBlock, new |-> NoBlock]
NoJob == [block |-> NoBlock, reorg |-> NoReorg, inherited |-> FALSE]

----------------------------------------------------------------------------
(* The block tree.                                                         *)

PathTo[b \in Blocks] == IF b = Genesis THEN {b} ELSE {b} \cup PathTo[Parent[b]]

Height(b) == Cardinality(PathTo[b]) - 1

Lowest(S) == CHOOSE b \in S : \A c \in S : Height(b) =< Height(c)

Heights == {Height(b) : b \in Blocks}

Work(b) == MapThenSumSet(LAMBDA c : BlockWork[c], PathTo[b])

(* BetterChainScore: more work, then more blocks, then the smaller hash.   *)
BetterChainScore(b, c) ==
    \/ Work(b) > Work(c)
    \/ Work(b) = Work(c) /\ Height(b) > Height(c)
    \/ Work(b) = Work(c) /\ Height(b) = Height(c) /\ b < c

CommonAncestor(b, c) ==
    CHOOSE a \in PathTo[b] \cap PathTo[c] :
        \A d \in PathTo[b] \cap PathTo[c] : Height(d) =< Height(a)

RowsOf(b) == [h \in Heights |->
                 IF h =< Height(b) THEN CHOOSE c \in PathTo[b] : Height(c) = h ELSE NoBlock]

(* The index of a chain that carries no journal.                           *)
CleanIndex(b) == [tip |-> b, rows |-> RowsOf(b), reverse |-> PathTo[b],
                  vdp |-> NoBlock, vur |-> NoReorg, marker |-> FALSE, pending |-> FALSE]

Init ==
    /\ bodies = {Genesis}
    /\ utxo = {Genesis}
    /\ index = CleanIndex(Genesis)
    /\ pc = "idle"
    /\ job = NoJob
    /\ mem = Genesis
    /\ failstop = FALSE
    /\ latched = FALSE
    /\ faults = 0
    /\ refused = 0

----------------------------------------------------------------------------
(* One write of one store.  It is acknowledged, or it reports failure and  *)
(* nobody knows whether the log holds it.                                  *)

Acknowledged == faults' = faults

Failed == faults < MaxFaults /\ faults' = faults + 1

GoOn(next) == pc' = next /\ UNCHANGED <<job, mem, latches, refused>>

(* The transition ends here, and the thread returns to its caller.         *)
Return(tip) == pc' = "idle" /\ job' = NoJob /\ mem' = tip /\ UNCHANGED refused

(* FailStopDurableCommitInvariant_                                         *)
StopNode(tip) == Return(tip) /\ failstop' = TRUE

WriteIndex(batch) == index' = batch /\ UNCHANGED <<bodies, utxo>> /\ Acknowledged

IndexFailed(batch) == index' \in {index, batch} /\ UNCHANGED <<bodies, utxo>> /\ Failed

WriteUtxo(rows) == utxo' = rows /\ UNCHANGED <<bodies, index>> /\ Acknowledged

UtxoFailed(rows) == utxo' \in {utxo, rows} /\ UNCHANGED <<bodies, index>> /\ Failed

WriteBodies(set) == bodies' = set /\ UNCHANGED <<utxo, index>> /\ Acknowledged

BodiesFailed(set) == bodies' \in {bodies, set} /\ UNCHANGED <<utxo, index>> /\ Failed

----------------------------------------------------------------------------
(* VeldDB: what the stores say.                                            *)

(* A height row and the block's own reverse row name each other.           *)
CanonicalRow(b) == b \in index.reverse /\ index.rows[Height(b)] = b

(* ReorgOldCanonicalMatches                                                *)
ReorgOldCanonicalMatches(r) ==
    /\ index.tip = r.old
    /\ CanonicalRow(r.old) /\ CanonicalRow(r.anc)
    /\ {r.old, r.anc} \subseteq bodies

UtxoRecoveryRequired == index.vur # NoReorg \/ index.marker

(* DumpConsistentSnapshot runs under the connect mutex, that is between two *)
(* transitions; a dump already admitted may run in a node that has stopped.*)
DumpAllowed == pc = "idle" /\ ~UtxoRecoveryRequired /\ ~index.pending

\* (variant for mutation) a fail-stopped node still admits blocks
Admits_NoFailStop == pc = "idle" /\ ~latched

(* AddBlockDirect: the durability latch, and the security gate that stays  *)
(* shut while the node is fail-stopped.                                    *)
Admits == pc = "idle" /\ ~latched /\ ~failstop

----------------------------------------------------------------------------
(* Erasing a body that is not canonical: DeleteNonCanonicalBlock deletes   *)
(* the reverse rows, then the bytes.  Any failure latches the node.        *)

Erasable(b) == ~CanonicalRow(b)

WithoutReverse(b) == [index EXCEPT !.reverse = @ \ {b}]

Latch == Return(mem) /\ latched' = TRUE /\ UNCHANGED failstop

(* PruneSideBranchStateNoLock_ picks a side body.                          *)
PruneSide(b) ==
    /\ pc = "idle" /\ ~latched
    /\ b \in bodies \ PathTo[mem]
    /\ pc' = "erase_rows" /\ job' = [NoJob EXCEPT !.block = b]
    /\ UNCHANGED <<disk, mem, latches, counts>>

EraseRows ==
    /\ pc = "erase_rows"
    /\ IF Erasable(job.block)
       THEN \/ WriteIndex(WithoutReverse(job.block)) /\ GoOn("erase_body")
            \/ IndexFailed(WithoutReverse(job.block)) /\ Latch
       ELSE Latch /\ UNCHANGED <<disk, faults>>

EraseBody ==
    /\ pc = "erase_body"
    /\ \/ WriteBodies(bodies \ {job.block}) /\ Return(mem) /\ UNCHANGED latches
       \/ BodiesFailed(bodies \ {job.block}) /\ Latch

(* PromoteValidatedSideSuffixNoLock_: a validated losing fork is stored; a *)
(* failed write only defers it.                                            *)
AddSide(b) ==
    /\ Admits
    /\ b \notin bodies /\ Parent[b] \in bodies
    /\ Parent[b] # mem /\ ~BetterChainScore(b, mem)
    /\ WriteBodies(bodies \cup {b}) \/ BodiesFailed(bodies \cup {b})
    /\ UNCHANGED <<pc, job, mem, latches, refused>>

----------------------------------------------------------------------------
(* A block that extends the tip.                                           *)

Extend(b) ==
    /\ Admits
    /\ b # Genesis /\ Parent[b] = mem
    /\ pc' = "register" /\ job' = [NoJob EXCEPT !.block = b]
    /\ UNCHANGED <<disk, mem, latches, counts>>

(* RegisterBlock stores the body; a failure is undone by the eraser.       *)
Register ==
    /\ pc = "register"
    /\ \/ /\ WriteBodies(bodies \cup {job.block})
          /\ pc' = "modules" /\ mem' = job.block
          /\ UNCHANGED <<job, latches, refused>>
       \/ BodiesFailed(bodies \cup {job.block}) /\ GoOn("erase_rows")

(* The on_commit callback applies the block to the modules.  A block they  *)
(* refuse is rolled back, and its body stays as a side body.               *)
Modules ==
    /\ pc = "modules"
    /\ \/ GoOn("body") /\ UNCHANGED <<disk, faults>>
       \/ /\ refused < MaxRefused /\ refused' = refused + 1
          /\ pc' = "mark" /\ mem' = Parent[job.block]
          /\ UNCHANGED <<disk, job, latches, faults>>

(* VeldDB::CommitBlock, Step 1: a definite failure.  The node stops, and   *)
(* the callback's false return makes RollbackTip undo the block.           *)
CommitBody ==
    /\ pc = "body"
    /\ \/ WriteBodies(bodies \cup {job.block}) /\ GoOn("journal")
       \/ /\ BodiesFailed(bodies \cup {job.block})
          /\ pc' = "mark" /\ mem' = Parent[job.block] /\ failstop' = TRUE
          /\ UNCHANGED <<job, latched, refused>>

(* Steps 3 to 5: a failure is DurableWriteUncertain, so the callback       *)
(* reports success and the node stops without undoing anything.            *)
Uncertain == StopNode(mem) /\ UNCHANGED latched

CommitJournal ==
    LET batch == [index EXCEPT !.pending = TRUE]
    IN  /\ pc = "journal"
        /\ \/ WriteIndex(batch) /\ GoOn("utxo")
           \/ IndexFailed(batch) /\ Uncertain

CommitUtxo ==
    /\ pc = "utxo"
    /\ \/ WriteUtxo(utxo \cup {job.block}) /\ GoOn("publish")
       \/ UtxoFailed(utxo \cup {job.block}) /\ Uncertain

CommitPublish ==
    LET new == job.block
        batch == [index EXCEPT !.tip = new, !.rows[Height(new)] = new, !.reverse = @ \cup {new},
                               !.vdp = new, !.pending = FALSE]
    IN  /\ pc = "publish"
        /\ \/ WriteIndex(batch) /\ GoOn("mirror")
           \/ IndexFailed(batch) /\ Uncertain

(* RollbackTip and the on_rollback callback: ApplyUTXODelta marks, writes  *)
(* the rows of the restored chain and unmarks; a failure latches.          *)
RollbackMark ==
    LET batch == [index EXCEPT !.marker = TRUE]
    IN  /\ pc = "mark"
        /\ \/ WriteIndex(batch) /\ GoOn("undo")
           \/ IndexFailed(batch) /\ Latch

RollbackUndo ==
    /\ pc = "undo"
    /\ \/ WriteUtxo(utxo \ {job.block}) /\ GoOn("unmark")
       \/ UtxoFailed(utxo \ {job.block}) /\ Latch

RollbackUnmark ==
    LET batch == [index EXCEPT !.marker = FALSE]
    IN  /\ pc = "unmark"
        /\ \/ WriteIndex(batch) /\ Return(mem) /\ UNCHANGED latches
           \/ IndexFailed(batch) /\ Latch

----------------------------------------------------------------------------
(* After the canonical batch the callback may no longer undo anything: the *)
(* body marker and the anchor-floor mirror, then the identity-checked      *)
(* clear of VDP1.  A failure of either stops the node with VDP1 kept.      *)

Mirror ==
    /\ pc = "mirror"
    /\ UNCHANGED disk
    /\ \/ Acknowledged /\ GoOn("clear")
       \/ Failed /\ Uncertain

ClearDurablePublication ==
    LET batch == [index EXCEPT !.vdp = NoBlock]
    IN  /\ pc = "clear"
        /\ IF index.vdp = mem /\ index.tip = mem /\ CanonicalRow(mem) /\ mem \in bodies
           THEN \/ WriteIndex(batch) /\ Return(mem) /\ UNCHANGED latches
                \/ IndexFailed(batch) /\ Uncertain
           ELSE Uncertain /\ UNCHANGED <<disk, faults>>

----------------------------------------------------------------------------
(* A branch with a better score: ReorganizeBounded_ validates it in memory,*)
(* stores the bodies it lacks, and runs the durable transaction VUR1.      *)

CanReorganize(t) == BetterChainScore(t, mem) /\ CommonAncestor(t, mem) \notin {t, mem}

Reorganize(t) ==
    /\ Admits
    /\ CanReorganize(t)
    /\ pc' = "candidate"
    /\ job' = [NoJob EXCEPT !.reorg = [anc |-> CommonAncestor(t, mem), old |-> mem, new |-> t]]
    /\ mem' = t
    /\ UNCHANGED <<disk, latches, counts>>

(* A failed body write restores the old chain in memory and defers.        *)
CandidateBodies ==
    LET missing == PathTo[job.reorg.new] \ bodies
        more == bodies \cup {Lowest(missing)}
    IN  /\ pc = "candidate"
        /\ \/ missing = {} /\ GoOn("intent") /\ UNCHANGED <<disk, faults>>
           \/ missing # {} /\ WriteBodies(more) /\ GoOn("candidate")
           \/ missing # {} /\ BodiesFailed(more) /\ Return(job.reorg.old) /\ UNCHANGED latches

(* An uncertain reorganisation also latches: the rollback frame and every  *)
(* displaced body are kept until the restart.                              *)
UncertainReorg(tip) == StopNode(tip) /\ latched' = TRUE

(* BeginReorgUTXO: the VUR1 intent, unless some obligation is still open.  *)
BeginReorg ==
    LET batch == [index EXCEPT !.vur = job.reorg]
    IN  /\ pc = "intent"
        /\ IF /\ ReorgOldCanonicalMatches(job.reorg)
              /\ ~UtxoRecoveryRequired /\ ~index.pending /\ index.vdp = NoBlock
           THEN \/ WriteIndex(batch) /\ GoOn("swap")
                \/ IndexFailed(batch) /\ UncertainReorg(mem)
           ELSE GoOn("abort") /\ UNCHANGED <<disk, faults>>

(* The UTXO rows of both suffixes, in one batch.                           *)
Swapped(from, to) == (utxo \ (PathTo[from] \ PathTo[to])) \cup (PathTo[to] \ PathTo[from])

ReorgUtxo ==
    LET rows == Swapped(job.reorg.old, job.reorg.new)
    IN  /\ pc = "swap"
        /\ \/ WriteUtxo(rows) /\ GoOn("callbacks")
           \/ UtxoFailed(rows) /\ UncertainReorg(mem)

(* One on_commit per block of the branch; any of them may refuse.          *)
ReorgCallbacks ==
    /\ pc = "callbacks"
    /\ UNCHANGED <<disk, job, mem, latches, faults>>
    /\ \/ pc' = "suffix" /\ UNCHANGED refused
       \/ refused < MaxRefused /\ refused' = refused + 1 /\ pc' = "abort"

(* CommitReorgMetadata: rows, reverse rows, tip, VDP1 and the end of VUR1  *)
(* in one batch.                                                           *)
ReorgBatch(r) ==
    [index EXCEPT !.tip = r.new, !.rows = RowsOf(r.new),
                  !.reverse = (@ \ (PathTo[r.old] \ PathTo[r.new])) \cup PathTo[r.new],
                  !.vdp = r.new, !.vur = NoReorg, !.pending = FALSE]

CommitReorg ==
    LET r == job.reorg
    IN  /\ pc = "suffix"
        /\ IF /\ index.vur = r /\ ReorgOldCanonicalMatches(r)
              /\ ~index.marker /\ index.vdp = NoBlock
              /\ PathTo[r.new] \cup PathTo[r.old] \subseteq bodies
           THEN \/ WriteIndex(ReorgBatch(r)) /\ GoOn("mirror")
                \/ IndexFailed(ReorgBatch(r)) /\ UncertainReorg(mem)
           ELSE GoOn("abort") /\ UNCHANGED <<disk, faults>>

(* AbortReorgUTXO, after the old chain is restored in memory: the old rows, *)
(* then the acknowledgement.  Without a VUR1 no row was touched.           *)
AbortReorg ==
    LET r == job.reorg
        known == ReorgOldCanonicalMatches(r) /\ index.vdp = NoBlock
    IN  /\ pc = "abort"
        /\ IF known /\ index.vur = r
           THEN \/ WriteUtxo(Swapped(r.new, r.old)) /\ GoOn("aborted")
                \/ UtxoFailed(Swapped(r.new, r.old)) /\ UncertainReorg(r.old)
           ELSE /\ IF known /\ index.vur = NoReorg
                   THEN Return(r.old) /\ UNCHANGED latches
                   ELSE UncertainReorg(r.old)
                /\ UNCHANGED <<disk, faults>>

AckAbort ==
    LET batch == [index EXCEPT !.vur = NoReorg]
    IN  /\ pc = "aborted"
        /\ \/ WriteIndex(batch) /\ Return(job.reorg.old) /\ UNCHANGED latches
           \/ IndexFailed(batch) /\ UncertainReorg(job.reorg.old)

----------------------------------------------------------------------------
(* The process ends: it stops after a fail-stop or when told to, or dies.  *)

Down == pc' = "down" /\ job' = NoJob /\ mem' = NoBlock /\ failstop' = FALSE /\ latched' = FALSE
        /\ UNCHANGED refused

Exit == pc = "idle" /\ Down /\ UNCHANGED <<disk, faults>>

Crash == pc # "down" /\ Failed /\ Down /\ UNCHANGED disk

(* The operator's stopped-node recovery of a damaged index: the best chain *)
(* of the stored bodies, with no journal.  (RebuildCanonicalIndexOffline)  *)
Reachable == {b \in bodies : PathTo[b] \subseteq bodies}

\* (variant for mutation) the longest chain instead of the heaviest
BestBody_Longest == CHOOSE b \in Reachable : \A c \in Reachable : Height(c) =< Height(b)

BestBody == CHOOSE b \in Reachable : \A c \in Reachable \ {b} : BetterChainScore(b, c)

Reindex ==
    /\ pc = "down"
    /\ index' = CleanIndex(BestBody)
    /\ Failed
    /\ UNCHANGED <<bodies, utxo, pc, job, mem, latches, refused>>

----------------------------------------------------------------------------
(* The startup.  Every check that fails ends it for good ("refused"), every *)
(* write that fails ends this attempt.                                     *)

Start == pc = "down" /\ GoOn("open") /\ UNCHANGED <<disk, faults>>

Check(ok, next) == GoOn(IF ok THEN next ELSE "refused") /\ UNCHANGED <<disk, faults>>

(* RecoverFromJournal, in the constructor of VeldDB: a linear journal only *)
(* arms the reconciliation.                                                *)
RecoverFromJournal ==
    LET batch == [index EXCEPT !.marker = TRUE]
    IN  /\ pc = "open"
        /\ IF ~UtxoRecoveryRequired /\ index.pending
           THEN \/ WriteIndex(batch) /\ GoOn("load")
                \/ IndexFailed(batch) /\ Down
           ELSE Check(\/ index.vur = NoReorg
                      \/ ReorgOldCanonicalMatches(index.vur) /\ index.vdp = NoBlock,
                      "load")

LoadDurablePublicationRepair ==
    /\ pc = "load"
    /\ Check(/\ index.vur # NoReorg =>
                   index.vdp = NoBlock /\ ReorgOldCanonicalMatches(index.vur)
             /\ index.vdp # NoBlock =>
                   /\ index.vdp = index.tip /\ index.rows[Height(index.vdp)] = index.vdp
                   /\ index.vdp \in bodies,
             "replay")

(* ReplayChain reads the chain from the height rows and validates it; it   *)
(* rebuilds the UTXO rows above genesis or when some obligation is open.   *)
(* Blocks that were connected once are taken to pass validation again.     *)
Replayable ==
    \A h \in 0 .. Height(index.tip) :
        /\ index.rows[h] \in bodies
        /\ Height(index.rows[h]) = h
        /\ h > 0 => Parent[index.rows[h]] = index.rows[h - 1]

ReplayChain ==
    /\ pc = "replay"
    /\ IF Replayable /\ index.rows[Height(index.tip)] = index.tip
       THEN /\ mem' = index.tip
            /\ pc' = IF index.tip # Genesis \/ index.vdp # NoBlock \/ UtxoRecoveryRequired
                     THEN "rebuild" ELSE "finish"
       ELSE pc' = "refused" /\ mem' = mem
    /\ UNCHANGED <<disk, job, latches, counts>>

(* The replay registers every block again.  A body write that fails hands  *)
(* the block to the eraser, and the startup throws.                        *)
ReplayWriteFails(b) ==
    /\ pc = "replay"
    /\ b \in PathTo[index.tip] \cap bodies
    /\ IF Erasable(b)
       THEN bodies' = bodies \ {b} /\ index' = WithoutReverse(b)
       ELSE UNCHANGED <<bodies, index>>
    /\ UNCHANGED utxo
    /\ Failed
    /\ Down

(* RebuildUTXOsFromSnapshot                                                *)
RebuildMark ==
    LET batch == [index EXCEPT !.marker = TRUE]
    IN  /\ pc = "rebuild"
        /\ \/ /\ WriteIndex(batch)
              /\ pc' = "rows" /\ job' = [job EXCEPT !.inherited = index.marker]
              /\ UNCHANGED <<mem, latches, refused>>
           \/ IndexFailed(batch) /\ Down

RebuildRows ==
    /\ pc = "rows"
    /\ \/ WriteUtxo(PathTo[mem]) /\ GoOn("rebuilt")
       \/ UtxoFailed(PathTo[mem]) /\ Down

RebuildUnmark ==
    LET batch == [index EXCEPT !.marker = FALSE, !.pending = @ /\ ~job.inherited]
    IN  /\ pc = "rebuilt"
        /\ \/ WriteIndex(batch) /\ GoOn("finish")
           \/ IndexFailed(batch) /\ Down

(* FinishDurableCommitReplayRepair_: VUR1 is acknowledged with the linear  *)
(* journal it supersedes, then VDP1, each against the replayed tip.        *)
FinishReorg ==
    LET batch == [index EXCEPT !.vur = NoReorg, !.pending = FALSE]
    IN  /\ pc = "finish" /\ index.vur # NoReorg
        /\ IF /\ mem = index.vur.old /\ ReorgOldCanonicalMatches(index.vur)
              /\ ~index.marker /\ index.vdp = NoBlock
           THEN \/ WriteIndex(batch) /\ GoOn("finish")
                \/ IndexFailed(batch) /\ Down
           ELSE GoOn("refused") /\ UNCHANGED <<disk, faults>>

FinishPublication ==
    LET batch == [index EXCEPT !.vdp = NoBlock]
    IN  /\ pc = "finish" /\ index.vur = NoReorg
        /\ IF ~index.marker /\ index.vdp # NoBlock /\ index.vdp = index.tip /\ mem = index.tip
           THEN \/ WriteIndex(batch) /\ GoOn("sweep")
                \/ IndexFailed(batch) /\ Down
           ELSE Check(~index.marker /\ index.vdp = NoBlock, "sweep")

(* PruneNonCanonicalBlockBodies: every body no height row names.           *)
Stale == bodies \ {index.rows[h] : h \in Heights}

SweepRows ==
    LET next == CHOOSE c \in Stale : \A d \in Stale : c =< d
    IN  /\ pc = "sweep" /\ Stale # {}
        /\ \/ /\ WriteIndex(WithoutReverse(next))
              /\ pc' = "sweep_body" /\ job' = [job EXCEPT !.block = next]
              /\ UNCHANGED <<mem, latches, refused>>
           \/ IndexFailed(WithoutReverse(next)) /\ Down

\* (variant for mutation) the body of a swept block stays
SweepBody_Kept ==
    /\ pc = "sweep_body"
    /\ WriteBodies(bodies) /\ GoOn("sweep")

SweepBody ==
    /\ pc = "sweep_body"
    /\ \/ WriteBodies(bodies \ {job.block}) /\ GoOn("sweep")
       \/ BodiesFailed(bodies \ {job.block}) /\ Down

Serve == pc = "sweep" /\ Stale = {} /\ Return(mem) /\ UNCHANGED <<disk, latches, faults>>

----------------------------------------------------------------------------

Connect ==
    \/ Register \/ Modules \/ CommitBody \/ CommitJournal \/ CommitUtxo \/ CommitPublish
    \/ RollbackMark \/ RollbackUndo \/ RollbackUnmark
    \/ EraseRows \/ EraseBody \/ Mirror \/ ClearDurablePublication

ReorgStep ==
    \/ CandidateBodies \/ BeginReorg \/ ReorgUtxo \/ ReorgCallbacks \/ CommitReorg
    \/ AbortReorg \/ AckAbort

Recover ==
    \/ Start \/ RecoverFromJournal \/ LoadDurablePublicationRepair \/ ReplayChain
    \/ RebuildMark \/ RebuildRows \/ RebuildUnmark
    \/ FinishReorg \/ FinishPublication \/ SweepRows \/ SweepBody \/ Serve

Next ==
    \/ \E b \in Blocks : PruneSide(b) \/ ReplayWriteFails(b)
    \/ \E b \in Blocks \ {Genesis} : Extend(b) \/ AddSide(b) \/ Reorganize(b)
    \/ Connect \/ ReorgStep \/ Recover
    \/ Exit \/ Crash \/ Reindex

Spec == Init /\ [][Next]_vars

(* The owner of a transition and the startup keep running; a node that has *)
(* stopped itself exits; the service manager starts it again.              *)
FairSpec == Spec /\ WF_vars(Connect) /\ WF_vars(ReorgStep) /\ WF_vars(Recover)
                 /\ WF_vars(failstop /\ Exit)

----------------------------------------------------------------------------
(* Properties.                                                             *)

MaybeBlock == Blocks \cup {NoBlock}

Reorgs == [anc : MaybeBlock, old : MaybeBlock, new : MaybeBlock]

(* The stores, the journals and the thread have the shapes the code gives  *)
(* them.                                                                   *)
TypeOK ==
    /\ bodies \subseteq Blocks /\ utxo \subseteq Blocks
    /\ index \in [tip : Blocks, rows : [Heights -> MaybeBlock], reverse : SUBSET Blocks,
                  vdp : MaybeBlock, vur : Reorgs, marker : BOOLEAN, pending : BOOLEAN]
    /\ job \in [block : MaybeBlock, reorg : Reorgs, inherited : BOOLEAN]
    /\ mem \in MaybeBlock
    /\ <<failstop, latched>> \in BOOLEAN \X BOOLEAN
    /\ faults \in 0 .. MaxFaults /\ refused \in 0 .. MaxRefused

(* No crash, failed write or offline reindex leaves a database that the    *)
(* next start refuses: whatever RecoverFromJournal,                        *)
(* LoadDurablePublicationRepair_, ReplayChain and                          *)
(* FinishDurableCommitReplayRepair_ find, they can repair.                 *)
AlwaysRecoverable == pc # "refused"

(* In every state, between any two writes, the height rows are exactly the *)
(* chain of the stored tip, and every body of that chain is stored: a      *)
(* pruned side body or a half-done reorganisation never takes a canonical  *)
(* block away, and no row of a displaced longer chain is left above a      *)
(* shorter tip.                                                            *)
CanonicalIntact ==
    /\ index.rows = RowsOf(index.tip)
    /\ PathTo[index.tip] \subseteq bodies \cap index.reverse

(* A node that accepts blocks has no open obligation, its UTXO rows are    *)
(* those of the stored tip, and that tip is its tip in memory: so neither  *)
(* CommitBlock's lookups of spent outputs nor BeginReorgUTXO's guards can  *)
(* refuse a valid block.                                                   *)
IdleIsClean ==
    Admits => /\ ~UtxoRecoveryRequired /\ ~index.pending /\ index.vdp = NoBlock
              /\ utxo = PathTo[index.tip]
              /\ mem = index.tip

(* A snapshot that DumpConsistentSnapshot agrees to write holds one chain: *)
(* its UTXO rows are those of its tip, even in a node that has stopped     *)
(* itself after a write of unknown outcome.                                *)
DumpIsCoherent ==
    DumpAllowed => utxo = PathTo[index.tip] /\ PathTo[index.tip] \subseteq bodies

(* The stored tip only moves to a chain with a better score, by a connect, *)
(* by a reorganisation, by what a crash left of either, or by an offline   *)
(* reindex over whatever bodies were left.                                 *)
DurableTipAdvances ==
    [][index'.tip = index.tip \/ BetterChainScore(index'.tip, index.tip)]_vars

(* Once the faults end, a node that stopped itself or died is serving      *)
(* again: no startup loops, and none is left in the middle.                *)
Recovers == (failstop \/ pc = "down") ~> (pc = "idle" /\ ~failstop)
=============================================================================
