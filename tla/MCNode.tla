------------------------------- MODULE MCNode -------------------------------
(***************************************************************************)
(* What a node admits: finality votes and evidence (VoteIntake), and local *)
(* work and signatures (WorkAdmission).  Each is taken on several small    *)
(* instances, because the cases that matter need different resources.  A   *)
(* behaviour is one of a single instance, chosen at the start.  The module *)
(* extends both with all the resources its instances have parts of, so the *)
(* properties of the two are checked as they are stated there.             *)
(***************************************************************************)
EXTENDS WorkAdmission, VoteIntake, Sequences, TLC

CONSTANTS h1, h2, f, a, b          \* members, block hashes
CONSTANTS t1, t2, t3               \* tokens
CONSTANTS m1, m2                   \* miner threads

VARIABLES part

MCTokens == {t1, t2, t3}
MCMiners == {m1, m2}
MCHonest == {h1, h2}
MCFaulty == {f}
MCHashes == {a, b}
MCTarget == (h1 :> a) @@ (h2 :> b)

\* A crash or failed write at any point, two checkpoints of one epoch.
Evidence == INSTANCE VoteIntake WITH VoteHeights <- {8, 10}, VotePhases <- {1}, StartHeight <- 9,
  MaxReorgs <- 0, MaxInFlight <- 1, MaxFaults <- 1, MaxRestarts <- 1

\* Two votes between their checks, a reorganization, and a detector so small that
\* a conflicting vote can reach the assembler.
Crossing == INSTANCE VoteIntake WITH Honest <- {h1}, HonestTarget <- (h1 :> a),
  VoteHeights <- {8}, VotePhases <- {2}, StartHeight <- 8, MAX_POOL_VOTES <- 3,
  MAX_PENDING_VOTES <- 1, MaxReorgs <- 2, MaxInFlight <- 2, MaxFaults <- 0, MaxRestarts <- 0

\* Checkpoints two epochs apart, so that votes and evidence of an old epoch go,
\* and a journal that a second write leaves uncertain.
Epochs == INSTANCE VoteIntake WITH Honest <- {h1}, HonestTarget <- (h1 :> a),
  VoteHeights <- {2, 8}, VotePhases <- {2}, StartHeight <- 4,
  MaxReorgs <- 0, MaxInFlight <- 1, MaxFaults <- 2, MaxRestarts <- 1

\* A miner against latches and peer-view writers.
Latches == INSTANCE WorkAdmission WITH Tokens <- {}, Miners <- {m1},
  MaxTime <- 1, MaxIds <- 1, MaxChanges <- 2

\* Tokens issued, used, cancelled and expired, up to the bound of the spent list.
Leases == INSTANCE WorkAdmission WITH Tokens <- {t1, t2, t3}, Miners <- {},
  MaxTime <- 5, MaxIds <- 3, MaxChanges <- 0

\* A signer at work while the facts change.
Signing == INSTANCE WorkAdmission WITH Tokens <- {t1}, Miners <- {},
  MaxTime <- 5, MaxIds <- 2, MaxChanges <- 1

\* Two miners and a peer's block.
Rivals == INSTANCE WorkAdmission WITH Tokens <- {}, Miners <- {m1, m2},
  MaxTime <- 2, MaxIds <- 2, MaxChanges <- 0

suiteVars == <<part, intakeVars, vars>>

\* The variables of the half a part does not use have the values of another
\* instance's Init.
SuiteInit ==
  \/ /\ \/ part = "evidence" /\ Evidence!IntakeInit
        \/ part = "crossing" /\ Crossing!IntakeInit
        \/ part = "epochs" /\ Epochs!IntakeInit
     /\ Leases!Init
  \/ /\ \/ part = "latches" /\ Latches!Init
        \/ part = "leases" /\ Leases!Init
        \/ part = "signers" /\ Signing!Init
        \/ part = "rivals" /\ Rivals!Init
     /\ Evidence!IntakeInit

SuiteNext ==
  /\ UNCHANGED part
  /\ \/ /\ \/ part = "evidence" /\ Evidence!IntakeNext
           \/ part = "crossing" /\ Crossing!IntakeNext
           \/ part = "epochs" /\ Epochs!IntakeNext
        /\ UNCHANGED vars
     \/ /\ \/ part = "latches" /\ Latches!Next
           \/ part = "leases" /\ Leases!Next
           \/ part = "signers" /\ Signing!Next
           \/ part = "rivals" /\ Rivals!Next
        /\ UNCHANGED intakeVars

SuiteSpec == SuiteInit /\ [][SuiteNext]_suiteVars

=============================================================================
