# TLA+ models of Veld

Veld is a CPU-mined blockchain with a finality layer on top: bonded validators
vote on checkpoints, two thirds of them finalize one, and a node never
reorganizes below what is final. This directory holds TLA+ models of that
layer, of the files and locks a node and a validator depend on, and of the
mining pool's books; the TLC configurations that check them; and TLAPS proofs of
the results that matter most. Paths below are relative to the repository
(`src/`).

## 1. The system

| Part | State it owns | Operations | Module |
|---|---|---|---|
| Finality rules `finality_qc.h`, `finality_votes.h`, `finality_snapshot.h` | none | rounds, windows, quorums, locks, certificates, equivocation | `FinalityQC` |
| Voter and daemon `finality_producer.h`, `finality_daemon.h`, `veld-validator.cpp` | lock, last vote, last seen PREVOTE certificate | `Tick`: read the node, sign, persist, send; restart | `FinalityVoting`, `FinalityDaemon` |
| Signing journal `finality_signing_journal.h`, `secure_channel_file.h` | journal and marker files | load, import, persist | `FinalityJournal` |
| Endorsement history `endorse_guard.h`, `validator_signing_state.h` | two histories and a lock | acquire, copy, record, sign | `SigningState` |
| Node's finality state `finality_state.h` | epoch snapshots, warm-up count, finalized record, authorizing record | block height, epoch boundary, certificate, reorganization gates | `FinalityState` |
| Certificate assembler, vote routing, equivocation evidence | vote buckets, per-signer rounds, evidence and its journal | offer, prune, retire, prove, persist, expire | `VoteIntake` |
| Work admission `work_admission_coordinator.h` | grants, leases, open or closed | issue, begin, claim, cancel, close | `WorkAdmission` |
| Chain database `leveldb.h`, `blockchain.h`, `node.h` | three stores and their journals | connect, reorganize, roll back, recover, reindex | `ChainStore` |
| Pool journal `pool/journal.py` | log, index, anchor | open, append, close | `ServiceLog`, `PoolJournal` |
| Pool work `pool/coordinator.py` | leases, receipts, solutions, incomes | work, submit, verify, reconcile | `PoolWork`, `PoolIncome` |
| Pool rewards and accounting | sealed windows, exact shares | seal, reconcile, allocate | `PoolRewards`, `PoolAccounting` |
| Pool payments `pool/payments.py` | batches, intents | plan, sign, broadcast, reconcile | `PoolPayments` |
| Pool operator `pool/operator.py` | settings, requests, audit | request, pause; the service's locks | `PoolOperator` |
| Anchors, mempool, staking, governance, tokens, peg, network, wallets | their own | | none: section 6 |

The parts meet as follows. A validator process runs `FinalityDaemon::Tick` in a
loop against its own node. A vote goes to the node, from there to its peers, and
every node's assembler collects votes into certificates. A miner puts a
PRECOMMIT certificate into a coinbase; block connection hands it to
`FinalityState::OnCertificate`, which moves the finalized record. The record
feeds back: it is the source of the next votes, it bounds reorganizations, and
once superseded it authorizes permanent Bitcoin anchors. Mining and signing both
need a lease of the work admission coordinator, which is closed whenever the
facts it grants them under change. The pool asks the node for work, hands out
nonce ranges, and turns blocks into incomes, incomes into shares and shares into
payments; everything it must not forget is in its journal.

What makes this hard:

* `Tick` reads the node through five RPCs, and the node may reorganize between
  any two of them.
* A process may die between signing, writing and sending; a write that fails may
  still have reached the disk; a power cut brings back what was not synced.
* The round number restarts at every epoch, and bounded reorganizations may
  bring an older epoch back.
* A reorganization may drop the block that carries a certificate and keep the
  block the certificate finalizes; the upgrade height changes which record
  authorizes an anchor.
* A vote is checked, authenticated with no lock held, and checked again.
* Bodies, UTXO rows and canonical index are three stores that no single write
  changes together.
* The pool's passes make many calls to a node whose chain moves meanwhile.

What has to be true: no two conflicting checkpoints are finalized; a validator
that runs the program is never slashed; nothing final is reverted; an anchor's
authority never disappears; a lease's facts hold when it is used; a node can
always be started again; the pool pays what it owes, once. And in the end: a
journaled vote is delivered, a stopped node serves again, a safety transition
gets past every lease, everything the pool owes is paid.

## 2. Modules

Definitions marked "(variant for mutation)" beside another definition are
deliberately broken versions of it, used by no specification; each shows that
some property notices a mistake of that kind.

**FinalityQC.** The pure rules. Constants are the network profile. Every
validator of a snapshot has the same bond, so a weight is a number of keys. A
snapshot root commits to the whole set, so the set stands for its root.
Signatures stand for the vote they sign.

**FinalityVoting.** The abstract protocol. `journal[v]` is the durable
`DaemonJournal` (lock and last vote), `votes[v]` all votes v ever journaled. One
action is one Tick that produced a vote. A validator's node may be on any branch
at any moment, so the checkpoint is any member of the tree; certificates are sets
of existing votes, so votes may be lost, late or reordered at will. A faulty
validator's signature is available on everything. `HeldLocks` is the lock the
voter may hold in memory: the journal's, or one taken for a vote whose grant ran
out before it was journaled. One validator set per epoch on all branches; the
unlock proof of `LockedPrevoteAllowed` is available whenever a certificate exists,
although the daemon never passes one.

**FinalityDaemon.** One validator's Tick, one action per hook: `FetchTip`,
`FetchSnapshot`, `FetchPrevoteQc`, `FetchTarget`, `FetchLocked`, the journal
decision (`ChooseVote`, `ChooseResend`, `JournalUnverifiable`), `AuthorizeWork`,
`SignAndPersist` and its failures `SignAndExpire` and `PersistFails`, `Gossip`.
`Abandon` is every early return, `Crash` a restart at any point; `Grow` and
`Reorganize` are the node's, between any two steps. Two hooks are merged where no
read of the node that is used later lies between them. Two fixed chains; finality
stays active; any PREVOTE certificate of the node's window may exist. As in the code
(`finality_daemon.h:418`), a checkpoint is chosen with one block above it; the comments
at `:206` and `:412` speak of a whole vote window.

**DaemonVoting.** `ImplementsVoting` instantiates `FinalityVoting` with this validator's journal and
with the votes of others that the certificates in hand imply, and demands that
every change of the journal meets the guard of `Prevote` or `Precommit` and has its
effect. It checks this validator's steps; it is not a refinement of the whole
specification, because the others' votes are derived anew in every state.

**FinalityState.** One node. A branch is a sequence of frames, each with a hash
and the `FinalityState` after that block; the code recomputes by replay what the
model stores. `ConnectBlock` applies a block in the order of `node.h`: height,
certificate, epoch snapshot. `StartSide` and `ExtendSide` build a side branch;
`Reorganize` is `ReorganizeBounded_`: depth, ancestor gate, replay, retention gate.
Any certificate may be offered. Work is not modelled: any side branch may win. The
registry's own refusals when a set or a certificate is recorded (`node.h:10293`,
`:10340`) are left out; they make a block invalid that is valid here. A first
certificate may be of any scheduled round, as in the code; the comment at
`finality_state.h:152` speaks of round zero.

**FinalityJournal.** `DurableFinalityJournal` over its file layer. A frame is the
number of votes it holds. A write is done and synced, visible but not synced, or
not done; `before` is what a power cut may bring back.

**SigningState.** The endorsement history of a key that `veld-node` and
`veld-validator` may both use: own history, shared history under a lock, copying,
recording, torn lines and their repair, restored data directories.

**VoteIntake.** `VerifyFinalityVoteWire_` as two critical sections with the
signature check between them, the assembler's three indexes and its count, the
detector with the place of each vote it holds (oldest first), the collector and its
journal with uncertain writes, retirement after a durable block, and restarts. A vote
is signer, phase, height and hash; a reorganization changes the hashes at voted
checkpoints, the only ones anybody looks at; the assembly of a certificate from a full bucket changes no state and is left out.

**WorkAdmission.** Every method of `AdmissionCoordinator` as an operator on its
state, and the code of `node.h` and `blockchain.h` around it: miners, local and
remote signers, a peer's block, latches and peer-view writers. `lock` is the
consensus-transition sequencer. All prerequisites but the validation generation
are one flag. A peer's block closes the coordinator and moves the tip in one step:
both happen under the chain's mutex, and a miner's block is checked against its
parent under the same mutex (`blockchain.h:5572`).

**ChainStore.** Bodies, UTXO rows and canonical index with the journals `VUR1` and
its kin; one write of one store is one step. The effects of a block on the UTXO
rows are named by the block. Block validation is accepted or refused when a block
is connected; that a replay accepts what was connected before (`node.h:13923`) is
assumed, so `Recovers` and `StoreSound` are about the stores and not about validation.

**ServiceLog, PoolJournal.** What the pool relies on, a log that only grows and
shows after any stop at least what it has shown before; and the code's journal,
step by step, which implements it (`ImplementsServiceLog`, a refinement mapping).

**PoolWork, PoolIncome.** `coordinator.py`: handlers under its lock are one action,
`_verify` is a thread; and `reconcile_income` call by call against a moving chain.
`cut` remembers the proofs whose thread was stopped between verdict and solution.

**PoolRewards.** Sealing (`seal`) and sharing (`reconcile`) of co-mined rewards. The two
lookups of a row are two steps (`ReadRow`, `SettleRow`), with `DropRow` for a failed
pass, and the node may reorganize to any depth between them. A branch is a sequence of
blocks that tell competing branches apart, and the longest wins; the blocks of one
reorganization are of one kind. `mixed` remembers the rewards whose two lookups were
answered from two branches.

**PoolAccounting.** The exact-fraction arithmetic against its definitions.

**PoolPayments.** The maintenance pass of `payments.py` with broadcasts, mining, drops
and reorganizations. Checking an intent (`Sign`) and keeping its signature
(`RecordSignature`) are two steps.

**PoolOperator.** The operator's requests with the four locks of all threads. The two
pause settings (`payments_paused`, `comining_paused`) are one flag.

Journaled state of the pool survives every stop, which is what `ServiceLog` promises.

**Suites.** `MCDurability`, `MCNode`, `MCProgress`, `MCPoolLedger` and `MCPoolPayout` hold
several parts, or several instances of one part, that share no variable. A
behaviour is one of a single part, chosen at the start by `part` and kept, so
every property is checked on the whole state graph of its part and the parts do
not multiply. Their invariants conjoin the invariants of the component modules,
each stated and explained there; `MCNode` extends the modules of its parts, and the
properties it checks are the very definitions the theorems are about. `MCFinalityVoting`, `MCFinalityState` and
`MCFinalityDaemon` instantiate one module each.

## 3. Runs

| Run | Instance | States | Shows |
|---|---|---|---|
| `voting` | 4 validators, 1 faulty; checkpoints a4, a6 and b6, b8; epoch 4, interval 2 | 19 thousand | `Agreement`, `NeverSlashable`, `JustifiedLineage`, and the inductive invariant `VotingInv` |
| `finality_state` | height 7, 2 forks, epochs of 2 blocks, upgrade at 5 | 276 thousand | `FinalizedNeverReverted`, `AuthorizationPermanent`, `SupersededAuthorizes`, `StateConsistent`, `WindowSetsRetained`, `TemplateMatchesRules` |
| `daemon` | two chains of 11 blocks, start at 8, 1 reorganization, 1 crash or failed write | 1.7 million | `TypeOK`, `ImplementsVoting` |
| `durability` | the daemon on 9 blocks with 2 reorganizations in one Tick; vote file with 3 faults; two programs with one key; chain database with 4 faults | 2.6 million | `ReleasedIsRemembered`, `ReleasedNeverSlashable`, `ReleasedPrecommitsLocked`, `VoteFileSound`, `EndorsementsSafe`, `StoreSound`, `DurableTipAdvances` |
| `node` | three instances of vote intake, four of work admission | 691 thousand | `IntakeConsistent`, `HonestNeverAccused`, `ShownEvidenceDurable`, `ChangesHaveCause`, `CoordinatorSound`, `SinkMetItsFacts`, `SigningStandsOnFacts` |
| `progress` | daemon, chain database, admission, pool work, income and two instances of payments under fairness | 242 thousand | `JournaledVoteDelivered`, `Recovers`, `WriterGetsThrough`, `WorkIsRewarded`, `EverythingPaid` |
| `pool_ledger` | journal, work, income, rewards, accounting | 1.5 million | `JournalSound`, `ImplementsServiceLog`, `WorkAccounted`, `IncomesSettled`, `SharesExact` |
| `pool_payout` | payments of 3 accounts and 2 receipts; operator; locks | 672 thousand | `BooksBalance`, `SignaturesAuthorized`, `RequestsTakeEffectOnce`, `NoDeadlock` |
| `daemon_lock_branch`, `proved_revoked`, `payments_fragmented`, `reward_seal` | | | violated: section 4 |

Deadlock is not checked by TLC: chains, faults and passes are bounded, so every
model stops when its bounds are used up, and a daemon with an invalid journal or a
program that refused its history stops in the code too. Where waiting for one
another is the question, it is a property: `NoDeadlock` for the pool's threads,
`WriterGetsThrough` for the coordinator.

Bounds, and why they are enough.

* `voting`: two rounds of one epoch and the first round of the next on conflicting
  branches, which is what a conflict through a round reset needs.
* `finality_state`: one epoch is one interval; the upgrade comes after finality has
  become active, so records of both kinds exist and supersede one another, and
  two forks let the node leave a chain, come back and leave it for a third. The
  action properties are proved for every height and number of forks (section 5).
* `daemon`: the chains part in the middle of epoch 1, so the checkpoints after the
  fork, on both sides of an epoch boundary, differ; eleven blocks are long enough
  for the epoch of the last vote to leave the node. One reorganization per Tick is
  an assumption of `ImplementsVoting` and not only a limit of the search: with two,
  the lock may be resolved on the wrong branch (section 4). What must hold
  regardless is in `durability`, with two in one Tick, and is proved for any number.
* `durability`: the vote file starts with an older version's vote; a write fault, a
  power cut and a second fault fit in one behaviour. The chain database has a
  branch of three blocks and a shorter, heavier one, so a reorganization leaves
  height rows above the new tip. Some defensive refusals of `ChainStore` (a journal
  that is absent where the code has just written it, a replay that meets rows no
  crash can leave) are never taken; they stand in the model as in the code.
* `node`: each instance of vote intake has one resource short: a faulty disk, a
  detector of one entry, checkpoints two epochs apart. Each instance of work admission has
  one contender: latches, tokens, a signer, two miners.
* `progress` bounds faults, not fairness: after the last fault the property must be
  reached. One instance of payments has two coins to a transaction and a minimum they
  can make up, and everything must be paid; the other has one coin and a minimum that
  may be above it, and only the batch out of reach may remain. No receipt is orphaned
  in either.
* Pool: two accounts and two jobs, four journal events with two kills and two power
  cuts, chains of four blocks with maturity 2, fractions over a work space of 6. Rewards
  have an interval of four blocks, chains of five and two reorganizations, enough to
  leave a branch between the two lookups and to come back. Payments may lower what is
  owed by one orphaned receipt and raise the minimum while a batch is open, so that a
  payment is dropped because it would be below the minimum.

Symmetry: honest validators in `voting`, the two chains in the daemon's safety runs,
accounts and competing blocks in `pool_ledger`, connections and request identities
in `pool_payout`. The liveness run uses none.

Fairness (`MCProgress`), always that of the part at work:

* `DaemonFairness`: the main loop of `veld-validator.cpp` calls `Tick` forever and every
  call returns; from some time on the node answers and grants outlive a Tick
  (`Answered`), an assumption about the node, the connection and the clock.
* `StoreFairness`: the owner of a transition and a startup run on; a node that stopped
  itself exits; the service manager starts it again.
* `AdmissionFairness`: time passes and the writer runs. Nothing is assumed of
  signers, who may reopen the coordinator as often as the bounds allow.
* `WorkFairness`, `IncomeFairness`: `service.py` runs the maintenance steps every second
  and request threads to their end; at some time the verifier and the node stop
  failing.
* `PaymentFairness`, `FragmentedFairness`: the pass repeats and time passes; transactions in the mempool are
  mined, calls and broadcasts stop failing at some time, and the operator does not
  pause for ever.

Crashes, reorganizations and lost messages are never fair: they may or may not
happen.

## 4. Findings

Each is a sentence in a comment of the code that the code does not keep.

* `finality_qc.h:466` says the caller resolves the lock on the branch that holds the
  new target. `Tick` reads target and lock with two RPCs (`finality_daemon.h:243`). A
  reorganization between them, and one back before the work is authorized, make it
  prevote a target that does not extend its lock (`daemon_lock_branch`). Such a
  prevote is outside `FinalityVoting`, so the agreement proof does not cover it. It
  is not slashable: `DaemonNeverSlashable` is proved for any number of
  reorganizations, these included.
* `node.h:7271` says storage pressure cannot turn an equivocator back into an
  assembling voter. If the pair cannot be stored, only the votes held at that moment
  are removed; the first vote, sent again, is assembled again (`proved_revoked`). No
  other property of vote intake depends on it.
* `pool/rewards.py:4` says "A missed seal quarantines income", and a test
  (`test_rewards.py:103`) that a missing seal or a wrong branch never credits.
  `reconcile` asks for the reward's block (`:79`) and for the parent that names its seal
  (`:98`) with two calls. After a reorganization between them a reward may be shared by
  the seal of the other branch, although its own has none (`reward_seal`). The other
  way round, a reward whose own branch is sealed may be set aside. `IncomesSettled`
  states what holds when both answers are of one branch, and that shares once
  recorded do not change.
* `pool/payments.py:165` says large fragmented receipts must not stop all automatic
  payments. A transaction takes 63 coins of the pool (`:282`), and nothing is planned when
  they do not make up the minimum the batch was frozen with (`:304`). That minimum may be
  as high as 10000 VELD (`operator.py:94`) and is not lowered with the setting, and no
  other batch is opened meanwhile (`payments_fragmented`). `EverythingPaid` is the claim
  for minimums within reach of one transaction.

## 5. Proofs

Eight modules, each proved for every value of the constants.

**FinalityVotingProofs.** `TypeCorrect`, `FinalityAgreement`, `HonestNeverSlashed`,
`CertificateLineage` and `LocksMoveForward`, all from `VotingInvariant`, for every tree,
every set of validators and every number of epochs. The assumptions:
`ProfileAssumption` (the interval divides the epoch), `TreeAssumption` (a hash commits
to its ancestry), `SetAssumption` (types), and `QuorumAssumption`: any two quorums, of
the same or of two epochs, share an honest validator. Within an epoch
`QuorumsIntersect` derives it from the number of faulty keys. Across epochs the code
has no rule that limits how fast the validator set may change, so there it is an
assumption about the deployment. Also here: frames are ordered as heights
(`FrameOrder`), and two quorums of one set, with at most a third of it faulty, share
an honest member (`QuorumsIntersect`).

`Agreement` alone is not inductive: it says nothing of a voter about to vote.
`VotingInv` adds that the journal is the newest vote (`JournalIsNewest`), that one frame
holds one claim (`OneClaimPerFrame`), that the lock covers all precommits
(`LockCoversPrecommits`), that precommits rest on certificates (`PrecommitsJustified`)
and, the heart of it, `PrevotesSafe`: a prevote that leaves a lower target of another
branch behind was cast by someone who never precommitted that target, or the
target is `Blocked`: every quorum that could certify it has an honest member that has
moved on without it. If two conflicting targets were certified, the higher one's
prevote quorum and the lower one's precommit quorum would share an honest voter who
did both, so the lower target would be blocked and certified at once.

**FinalityBranchProofs, FinalityStateProofs.** `FinalizedStays`, `AuthorizationStays`,
`CertificateAuthorizes` and `RecordIsCanonical` for every height, number of forks and
choice of validator sets, from `ProfileAssumption` alone. The first module is about
one branch: it is `Sound` when the record after each block is carried by the branch, no
lower than the records before it, and when after the upgrade the authorizing record
is the one the certificates on the branch give. A block keeps a branch sound, and a
prefix of a sound branch is sound. It also shows where an authorizing record is carried: at
or below the finalized block, because consecutive checkpoints are at least a vote
window apart (`WindowsApart`). The second module is about the node: `StateInv` says
that both branches, which share their frames up to the common ancestor, are sound. The
ancestor gate keeps the finalized block on the new branch, hence the carrier, hence
the authorization; the retention gate keeps the height from falling. `ForkInv` adds
that the block after the ancestor differs on the side branch, which
`CertificateAuthorizes` needs to tell a reorganization from a block.

**FinalityVotingProofs, the vote journal.** Voting takes for granted that a validator
remembers its last vote. `VoteFileStaysSound` says that `FinalityJournal` does, for any
number of faults and starts: a process that may vote knows every frame that was
acknowledged (`JournalComplete`), and no power cut undoes a vote that was sent
(`SentVoteDurable`). `VoteFileInv` says that every state a power cut may bring back
`Covers` what was sent and acknowledged: its journal holds it, or it has neither journal
nor marker and nothing newer than the older version's frame was acknowledged or sent.
Assumed: the older version's file is absent or a frame (`Older`).

**RestartProofs, the daemon.** `DaemonNeverSlashable`, `ReleasedStaysRemembered` and
`PrecommitsStayLocked` for any chains, reorganizations, crashes and failed writes. What
is sent is the journal's last vote; `DaemonInv` says that all votes sent are `Behind`
the journal, which only a newer frame, or the precommit of the claim already
prevoted, replaces. Assumed: the value for no vote is not a vote, and `StartTip` is a
natural number. It takes the journal as one durable value, which is what the vote
journal's theorems are about.

**RestartProofs, the endorsement history.** `EndorsementsStaySafe`, with its parts
`KeyNeverSignsTwice`, `SignedStaysDurable` and `OneSignerAtATime`, for any programs,
heights and faults; assumed: the shared history is not a program's own. `HistoryInv`
relates what was signed to the synced part of the shared history and to the holder of
the lock.

**RestartProofs, the pool's journal.** `PoolJournalSound`: what a process serves always
extends what was ever served, and a stopped pool's journal is accepted at the next
start after kills and failed writes, or after power cuts that hit no append; not after
both, and not after the operator restored an older directory, which the code refuses on
purpose. `JournalImplementsLog`: `PoolJournal` implements `ServiceLog`, the append-only
log its readers rely on; every step maps to an append, a stop, an open or a stutter.
`PoolJournalInv`: what was served is under the anchor (`Served`), and, as long as the
faults are the ones the code is built for, anchor and index name beginnings of the log
and, while power cuts are possible, of its synced part (`Kept`). Assumed: the bounds are
natural numbers (`Bounds`).

**VoteIntakeProofs.** `IntakeStaysConsistent`, `HonestStaysUnaccused`,
`EvidenceStaysDurable` and the action property `ChangesAreCaused`, for any members,
hashes, checkpoints, capacities, reorganizations, failed writes and restarts. `IntakeInv`
has four parts. `ChainInv`: canonical chain, tip and the votes on their way have their
types. `PoolInv`: bucket, first votes, conflicting votes and count of the assembler agree, and hold
nothing of a pruned epoch. `EvidenceInv`: pairs in memory, in the file and in everything
a power cut may bring back are of members that may sign twice, and all of these files
hold the collector unless the journal is flagged uncertain.
`OffenderRevoked`: no vote of a recorded offender is counted. Assumed (`Setting`): a
member is honest or faulty, an honest one signs one target per round, and the
parameters are natural numbers.

**WorkAdmissionProofs, WorkSigningProofs, WorkCommitProofs.** `CoordinatorStaysSound`,
`SinksMeetTheirFacts` and `SigningStaysOnFacts`, for any signers, tokens, limits, epochs
and clocks. The first module is about the coordinator alone: each of its methods keeps
`Good` (`CommitStaysExclusive` and `ClosedStaysEmpty` need no more, and no assumption) and
the finer `Kept`: identifiers and tokens name one lease each, a spent token is in no
lease, and spent and pending tokens together fit the list. The other two are about the
node, for `NodeInv`: whoever changes facts holds the sequencer (`Sequenced`); the leases
of signers stand on the present tip, and on all present facts while the sequencer is
free, and there are none where a miner commits or a latch is flipped (`Granting`); a
miner's ticket is its own (`Ticketed`); prerequisites a miner has seen hold as long as
its generation is current (`Prepared`), which makes the facts it read in pieces one
consistent reading; and the token of a signer at work is remembered long enough
(`Remembered`). Assumed (`Limits`): times and limits are natural numbers, and the value
for no token is not a token.

Only model-checked:

* all of `ChainStore`, and the pool but for its journal;
* `ImplementsVoting`;
* `WindowSetsRetained`, `TemplateMatchesRules` and `ActiveSetsQualified` of the finality
  state;
* every liveness property: fairness and ENABLED are outside the prover;
* `PoolAccounting`: what its recursive sums compute would need induction over data,
  which is outside the prover too.

## 6. Not modelled

Everywhere: encodings, signatures, digests and hashing (a vote, a set and a block stand
for their bytes), proof of work and the clock's values (any branch may win, any
deadline may pass), formatting, logging, file permissions.

Within the modelled parts: answers to the daemon that finality is inactive; persistence
and digest of the finality state; the on-chain slashing operation; the coordinator's
fail-stop paths and block templates for external miners; block validation and
in-memory undo frames; pool registration, authentication and account queries; the
operator's fee coins and old-scope payment batches; the preflight's readiness tests,
which are a refusal at any point.

Whole parts, with the reason in `PROJECT.json`:

* sequential arithmetic or table rules without interleaving or recovery of their own:
  difficulty and issuance, mempool policy, staking, governance, tokens and exchange,
  Bitcoin anchors, btcVELD peg rules. They are most of the repository's lines, and a
  faithful model would restate their data;
* I/O and presentation: network, RPC, snapshots and download, miner, wallets and key
  tools, user interfaces, pool gateway and worker, pool identity, btcVELD services. The
  models take their effects (lost, late and repeated messages) as free choices.

So these models cover the protocol core and the durable state, about a twentieth of the
source lines, and say nothing about the rest.

Known risks that no property covers:

* quorums of different epochs may not overlap (`QuorumAssumption`);
* the daemon never passes an unlock proof to `Prevote`, so validators locked on a dead
  branch cannot prevote again; whether finality goes on would need all daemons and the
  certificate relay in one model;
* a validator whose last vote's epoch is no longer retained stays silent
  (`JournalUnverifiable`), on purpose;
* the offline rebuild of the canonical index and the first start have crash windows
  that `ChainStore` does not contain;
* a proof found to be a block is not recorded as a solution when the pool stops between
  the two records (`coordinator.py:632` and `:648`): `WorkAccounted` says that this is the
  only case, and `WorkIsRewarded` is about recorded solutions;
* a kill in the first start of the pool's journal, before its first anchor
  (`journal.py:97`), leaves a directory that is refused: `JournalSound` begins with the
  first anchor.

What some properties leave out: `JustifiedLineage` is about PRECOMMIT certificates, the
ones that finalize; `ShownEvidenceDurable` and `ChangesHaveCause` say nothing of pairs
read at a start from a file whose sync had failed (`inherited`).
