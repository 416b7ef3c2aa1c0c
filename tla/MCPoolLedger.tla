----------------------------- MODULE MCPoolLedger -----------------------------
(***************************************************************************)
(* The pool's books: the journal, work and verification, the scan of the   *)
(* chain for incomes, the sealed reward windows and the exact allocation.  *)
(* They share no variable here, so a behaviour is one of any single part,  *)
(* chosen at the start, and every property is checked on the whole state   *)
(* graph of its part.                                                      *)
(***************************************************************************)
EXTENDS Integers, FiniteSets, Sequences, TLC

CONSTANTS n1, n2 \* accounts, or competing blocks

VARIABLES part
VARIABLES present, log, torn, synced, index, anchor, pc, mem, seen, created, faults
VARIABLES jobs, leases, highwater, receipts, solutions, earned, incomes, seq,
          active, reserve, inflight, threads, chain, foreign, crashes, cut
VARIABLES nodeChain, state, once, incomeTip, scan, reorgs, restarts
VARIABLES bestChain, sealedReceipts, seals, rewardIncomes, quarantined, sealing, reading, issued, switches, mixed
VARIABLES counted, credited

MCQuality == [n \in 0..1 |-> IF n = 0 THEN "share" ELSE "block"]

Journal == INSTANCE PoolJournal WITH MaxEvents <- 4, MaxBatch <- 2,
  MaxFaults <- [io |-> 1, kill |-> 2, power |-> 2, directory |-> 1, index |-> 1]

Work == INSTANCE PoolWork WITH Account <- {n1, n2}, Variant <- {1}, NonceSpace <- 2,
  Quality <- MCQuality, LeaseSize <- {1}, LeaseBatch <- 2, ReserveLimit <- 1, Capacity <- 2,
  MaxJobs <- 2, MaxHeight <- 2, MaxForeign <- 1, MaxCrashes <- 1

Scan == INSTANCE PoolIncome WITH chain <- nodeChain, Maturity <- 2, MaxDepth <- 1,
  MaxLength <- 4, MaxReorgs <- 2, MaxRestarts <- 1

Rewards == INSTANCE PoolRewards WITH chain <- bestChain, receipts <- sealedReceipts,
  incomes <- rewardIncomes, reorgs <- switches, Choice <- {n1, n2}, Interval <- 4,
  MaxHeight <- 5, MaxReceipts <- 2, MaxReorgs <- 2

Accounting == INSTANCE PoolAccounting WITH receipts <- counted, incomes <- credited,
  Account <- {n1, n2}, Target <- {2, 5}, NetworkTarget <- {4}, Fee <- {0, 1}, Amount <- {7},
  Space <- 6, Scale <- 2, FeeBase <- 3, Lookback <- 2, MaxReceipts <- 3, MaxIncomes <- 2

journalVars == <<present, log, torn, synced, index, anchor, pc, mem, seen, created, faults>>
workVars == <<jobs, leases, highwater, receipts, solutions, earned, incomes, seq,
              active, reserve, inflight, threads, chain, foreign, crashes, cut>>
incomeVars == <<nodeChain, state, once, incomeTip, scan, reorgs, restarts>>
rewardVars == <<bestChain, sealedReceipts, seals, rewardIncomes, quarantined, sealing, reading,
                issued, switches, mixed>>
accountingVars == <<counted, credited>>
vars == <<part, journalVars, workVars, incomeVars, rewardVars, accountingVars>>

Init ==
  /\ part \in {"journal", "work", "income", "rewards", "accounting"}
  /\ Journal!Init /\ Work!Init /\ Scan!Init /\ Rewards!Init /\ Accounting!Init

Next ==
  /\ UNCHANGED part
  /\ \/ part = "journal" /\ Journal!Next
     \/ part # "journal" /\ UNCHANGED journalVars
  /\ \/ part = "work" /\ Work!Next
     \/ part # "work" /\ UNCHANGED workVars
  /\ \/ part = "income" /\ Scan!Next
     \/ part # "income" /\ UNCHANGED incomeVars
  /\ \/ part = "rewards" /\ Rewards!Next
     \/ part # "rewards" /\ UNCHANGED rewardVars
  /\ \/ part = "accounting" /\ Accounting!Next
     \/ part # "accounting" /\ UNCHANGED accountingVars

Spec == Init /\ [][Next]_vars
RewardSpec == Init /\ part = "rewards" /\ [][Next]_vars

LedgerSymmetry == Permutations({n1, n2})

-------------------------------------------------------------------------------
\* A journal that was anchored once and was then only killed, or only lost power,
\* opens again, and never serves less than it has acknowledged (Journal._open,
\* append_many).
JournalSound == part = "journal" => Journal!JournalSound

\* Every behaviour of the journal's files is one of the append-only log that the
\* coordinator, the payments and the operator's controls are written against.
ImplementsServiceLog == Journal!ImplementsServiceLog

\* Work: two leases of one template share no nonce; the backlog of unverified
\* receipts is bounded; a block that was found is recorded, unless the process
\* stopped between its verification and its solution; and the receipts that
\* share an income are the verified ones up to its cutoff, then and ever after
\* (work, submit, _verify, unresolved).
WorkAccounted == part = "work" =>
  /\ Work!TypeOK
  /\ Work!LeasesDisjoint /\ Work!BacklogBounded
  /\ Work!FoundBlockRecorded /\ Work!WindowFrozen

\* Incomes: what payments may spend is a mature income of a block on the chain,
\* whatever the chain did during the scan that released it (reconcile_income);
\* every contributor to a sealed window shares its reward and a quarantined reward
\* is never shared, as long as the node answers the two lookups of a reward from
\* one branch; and the shares never change (Rewards.seal, reconcile).
IncomesSettled ==
  CASE part = "income" ->
         Scan!TypeOK /\ Scan!AvailableOnChain /\ Scan!AvailableIsMature
    [] part = "rewards" ->
         /\ Rewards!TypeOK
         /\ Rewards!NoContributorLost /\ Rewards!SharesFrozen /\ Rewards!QuarantineFinal
    [] OTHER -> TRUE

\* A reward whose own branch has no seal is set aside and not shared (rewards.py:
\* "A missed seal quarantines income").
MissedSealQuarantined == Rewards!SharedByOwnSeal

\* Shares: the weights of an income are the newest Lookback blocks of work, the
\* allocated fractions add up to it, the interval arithmetic gives the exact floor
\* of their sum, and the accounts are never paid more than was received
\* (pplns, allocate_policy, floor_total).
SharesExact == part = "accounting" =>
  /\ Accounting!AllocationExact /\ Accounting!WindowNewest
  /\ Accounting!FloorExact /\ Accounting!PayableCovered
===============================================================================
