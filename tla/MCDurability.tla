---------------------------- MODULE MCDurability ----------------------------
(***************************************************************************)
(* What must not be forgotten or contradicted across crashes, power cuts,  *)
(* failed writes and restarts, in four places: the votes of a validator's  *)
(* daemon, the file that keeps them, the endorsements of its key, and the  *)
(* chain database of a node.  The parts share no variable; a behaviour is  *)
(* one of any single part, chosen at the start.                            *)
(***************************************************************************)
EXTENDS MCFinalityDaemon

VARIABLES part
VARIABLES journal, marker, before, loader, frame, acknowledged, gossiped, writeFaults, loads
VARIABLES histories, owner, prog, signed, starts, appendFaults, restores
VARIABLES bodies, utxo, index, step, job, mem, failstop, latched, faults, refused

\* A validator that comes from the older version with one vote.
VoteFile == INSTANCE FinalityJournal WITH pc <- loader, faults <- writeFaults, starts <- loads,
  Legacy <- 1, MaxFrame <- 4, MaxFaults <- 3, MaxStarts <- 5

\* Both programs with one key, two blocks at one height.
Endorsements == INSTANCE SigningState WITH disk <- histories, faults <- appendFaults,
  Programs <- {"node", "validator"}, Heights <- {1}, Hashes <- {1, 2},
  MaxStarts <- 3, MaxFaults <- 1, MaxRestores <- 1

\* A chain of three blocks and a shorter one that outweighs it from its first
\* block on, so that a reorganization can leave rows above the new tip.
Store == INSTANCE ChainStore WITH pc <- step, Blocks <- 0..5, Genesis <- 0,
  Parent <- (1 :> 0) @@ (2 :> 1) @@ (3 :> 2) @@ (4 :> 0) @@ (5 :> 4),
  BlockWork <- (0 :> 1) @@ (1 :> 2) @@ (2 :> 2) @@ (3 :> 2) @@ (4 :> 5) @@ (5 :> 1),
  MaxFaults <- 4, MaxRefused <- 1

journalVars == <<journal, marker, before, loader, frame, acknowledged, gossiped, writeFaults, loads>>
endorsementVars == <<histories, owner, prog, signed, starts, appendFaults, restores>>
storeVars == <<bodies, utxo, index, step, job, mem, failstop, latched, faults, refused>>
suiteVars == <<part, vars, journalVars, endorsementVars, storeVars>>

SuiteInit ==
  /\ part \in {"daemon", "journal", "endorsements", "store"}
  /\ Init /\ VoteFile!Init /\ Endorsements!Init /\ Store!Init

SuiteNext ==
  /\ UNCHANGED part
  /\ \/ part = "daemon" /\ Next /\ UNCHANGED <<journalVars, endorsementVars, storeVars>>
     \/ part = "journal" /\ VoteFile!Next /\ UNCHANGED <<vars, endorsementVars, storeVars>>
     \/ part = "endorsements" /\ Endorsements!Next /\ UNCHANGED <<vars, journalVars, storeVars>>
     \/ part = "store" /\ Store!Next /\ UNCHANGED <<vars, journalVars, endorsementVars>>

SuiteSpec == SuiteInit /\ [][SuiteNext]_suiteVars

-----------------------------------------------------------------------------
\* The file of a validator's votes: whoever may vote knows every frame that was
\* ever answered for, and a vote is sent only when its frame is on stable storage
\* (DurableFinalityJournal::Load and Persist).
VoteFileSound == part = "journal" => VoteFile!VoteFileSound

\* The key's endorsements: it never signs two blocks of one height, whichever
\* program signs; one program signs at a time; what it signed is on stable
\* storage (EndorseAntiEquivGuard::record, ValidatorSigningState::Acquire_).
EndorsementsSafe == part = "endorsements" => Endorsements!EndorsementsSafe

\* The chain database between any two writes: the next start can repair it, the
\* height rows are the chain of the stored tip with all of its bodies, a node
\* that accepts blocks has no open repair, and a snapshot holds one chain
\* (RecoverFromJournal, CommitBlock, DumpConsistentSnapshot).
StoreSound == part = "store" =>
  /\ Store!TypeOK
  /\ Store!AlwaysRecoverable /\ Store!CanonicalIntact
  /\ Store!IdleIsClean /\ Store!DumpIsCoherent

\* The stored tip only moves to a chain with a better score.
DurableTipAdvances == [][part = "store" =>
  (index'.tip = index.tip \/ Store!BetterChainScore(index'.tip, index.tip))]_suiteVars
=============================================================================
