------------------------------- MODULE MCProgress ------------------------------
(***************************************************************************)
(* What must get done in the end: a validator's journaled vote reaches the *)
(* node, a node that stopped itself serves again, a writer that waits for  *)
(* leases gets through; the pool's receipts and blocks settle, its incomes *)
(* are released and its balances paid.  The parts share no variable; a     *)
(* behaviour is one of any single part, chosen at the start, under the     *)
(* fairness of that part.                                                  *)
(***************************************************************************)
EXTENDS MCFinalityDaemon

CONSTANTS a1,      \* an account
          NoToken  \* no token

VARIABLES part
VARIABLES jobs, leases, highwater, receipts, solutions, earned, shared, seq,
          active, reserve, inflight, threads, chain, foreign, kills, cut
VARIABLES nodeChain, state, once, incomeTip, scan, switches, restarts
VARIABLES batch, intents, settings, incomes, due, pass, blocks, mempool, mined, unmined, orphans, changes
VARIABLES bodies, utxo, index, step, job, mem, failstop, latched, faults, refused
VARIABLES now, workTip, safe, vgen, lock, co, miner, writer, signing, sink

Work == INSTANCE PoolWork WITH incomes <- shared, crashes <- kills, Account <- {a1}, Variant <- {1},
  NonceSpace <- 2, Quality <- [n \in 0..1 |-> IF n = 0 THEN "share" ELSE "block"],
  LeaseSize <- {1}, LeaseBatch <- 2, ReserveLimit <- 1, Capacity <- 2,
  MaxJobs <- 1, MaxHeight <- 2, MaxForeign <- 1, MaxCrashes <- 1

Scan == INSTANCE PoolIncome WITH chain <- nodeChain, reorgs <- switches, Maturity <- 2,
  MaxDepth <- 1, MaxLength <- 4, MaxReorgs <- 2, MaxRestarts <- 1

Payments == INSTANCE PoolPayments WITH pc <- pass, reorgs <- unmined, Income <- {1, 2}, Account <- {1, 2, 3},
  Destination <- <<1, 1, 2>>, Credit <- <<<<5, 1, 2>>, <<4, 1, 1>>>>, Value <- <<8, 6>>,
  Minimum <- {3}, Dust <- 2, InputLimit <- 2, GroupLimit <- 2, MaxIntents <- 5,
  MaxReorgs <- 2, MaxOrphans <- 0, MaxSettings <- 1, MaxBatches <- 4

\* One coin to a transaction, and a minimum that may be above every coin.
Fragmented == INSTANCE PoolPayments WITH pc <- pass, reorgs <- unmined, Income <- {1, 2}, Account <- {1, 2, 3},
  Destination <- <<1, 1, 2>>, Credit <- <<<<5, 1, 2>>, <<4, 1, 1>>>>, Value <- <<8, 6>>,
  Minimum <- {3, 9}, Dust <- 2, InputLimit <- 1, GroupLimit <- 2, MaxIntents <- 5,
  MaxReorgs <- 0, MaxOrphans <- 0, MaxSettings <- 2, MaxBatches <- 4

\* Two short branches, the lighter one longer.
Store == INSTANCE ChainStore WITH pc <- step, Blocks <- 0..5, Genesis <- 0,
  Parent <- (1 :> 0) @@ (2 :> 1) @@ (3 :> 2) @@ (4 :> 0) @@ (5 :> 4),
  BlockWork <- (0 :> 1) @@ (1 :> 2) @@ (2 :> 2) @@ (3 :> 2) @@ (4 :> 5) @@ (5 :> 1),
  MaxFaults <- 3, MaxRefused <- 1

\* Signers that keep reopening the coordinator while a latch is to be set.
Admission == INSTANCE WorkAdmission WITH tip <- workTip, active <- signing, LocalTtl <- 2,
  RemoteTtl <- 3, SigningMargin <- 1, HardStop <- 4, MAX_ACTIVE <- 2, MAX_SPENT <- 2, MaxTip <- 1,
  Tokens <- {}, Miners <- {}, MaxTime <- 5, MaxIds <- 2, MaxChanges <- 1, MaxEpoch <- 2

workVars == <<jobs, leases, highwater, receipts, solutions, earned, shared, seq,
              active, reserve, inflight, threads, chain, foreign, kills, cut>>
incomeVars == <<nodeChain, state, once, incomeTip, scan, switches, restarts>>
paymentVars == <<batch, intents, settings, incomes, due, pass, blocks, mempool, mined, unmined, orphans, changes>>
storeVars == <<bodies, utxo, index, step, job, mem, failstop, latched, faults, refused>>
admissionVars == <<now, workTip, safe, vgen, lock, co, miner, writer, signing, sink>>
nodeParts == <<storeVars, admissionVars>>
poolParts == <<workVars, incomeVars, paymentVars>>
suiteVars == <<part, vars, nodeParts, poolParts>>

SuiteInit ==
  /\ part \in {"daemon", "store", "admission", "work", "income", "payments", "fragmented"}
  /\ Init /\ (part = "daemon" \/ branch = ChainOf(a))
  /\ Store!Init /\ Admission!Init
  /\ Work!Init /\ Scan!Init /\ (IF part = "fragmented" THEN Fragmented!Init ELSE Payments!Init)

SuiteNext ==
  /\ UNCHANGED part
  /\ \/ part = "daemon" /\ Next /\ UNCHANGED <<nodeParts, poolParts>>
     \/ part = "store" /\ Store!Next /\ UNCHANGED <<vars, admissionVars, poolParts>>
     \/ part = "admission" /\ Admission!Next /\ UNCHANGED <<vars, storeVars, poolParts>>
     \/ part = "work" /\ Work!Next /\ UNCHANGED <<vars, nodeParts, incomeVars, paymentVars>>
     \/ part = "income" /\ Scan!Next /\ UNCHANGED <<vars, nodeParts, workVars, paymentVars>>
     \/ part = "payments" /\ Payments!Next /\ UNCHANGED <<vars, nodeParts, workVars, incomeVars>>
     \/ part = "fragmented" /\ Fragmented!Next /\ UNCHANGED <<vars, nodeParts, workVars, incomeVars>>

\* The loop of veld-validator.cpp calls Tick forever, and from some time on the
\* node answers.
DaemonFairness ==
  /\ WF_vars(part = "daemon" /\ (Tick \/ JournalUnverifiable \/ Abandon))
  /\ <>[][Answered]_vars

\* A transition and a startup run on, a node that has stopped itself exits, and
\* the service manager starts it again.
StoreFairness ==
  /\ WF_storeVars(part = "store" /\ Store!Connect)
  /\ WF_storeVars(part = "store" /\ Store!ReorgStep)
  /\ WF_storeVars(part = "store" /\ Store!Recover)
  /\ WF_storeVars(part = "store" /\ failstop /\ Store!Exit)

\* Time passes and the writer runs.
AdmissionFairness ==
  /\ WF_admissionVars(part = "admission" /\ Admission!Tick)
  /\ WF_admissionVars(part = "admission" /\ Admission!WriterStep)

\* service.py runs the maintenance steps every second and every request thread
\* to its end; the environment's part is that the verifier and the node stop
\* failing at some time.
WorkFairness ==
  /\ WF_workVars(part = "work" /\ \E th \in threads : Work!VerifyStep(th))
  /\ WF_workVars(part = "work" /\ Work!RetryDeferred)
  /\ WF_workVars(part = "work" /\ Work!ReconcileSolutions)
  /\ WF_workVars(part = "work" /\ Work!ReconcileIncome)
  /\ <>[][~(part = "work" /\ \E th \in threads : Work!VerifyFails(th))]_suiteVars

\* service.py repeats the scan every second.
IncomeFairness == WF_incomeVars(part = "income" /\ Scan!ScanStep)

\* The service runs a pass every second and time passes; the environment's part
\* is that transactions in the mempool are mined, that calls and broadcasts stop
\* failing at some time, and that the operator does not pause for ever.
PaymentFairness ==
  /\ WF_paymentVars(part = "payments" /\ Payments!Maintenance)
  /\ WF_paymentVars(part = "payments" /\ Payments!Elapse)
  /\ WF_paymentVars(part = "payments" /\ \E k \in DOMAIN intents : Payments!Mine(k))
  /\ <>[][~(part = "payments" /\ Payments!Failing)]_suiteVars
  /\ <>[](part = "payments" => ~settings.paused)

FragmentedFairness ==
  /\ WF_paymentVars(part = "fragmented" /\ Fragmented!Maintenance)
  /\ WF_paymentVars(part = "fragmented" /\ Fragmented!Elapse)
  /\ WF_paymentVars(part = "fragmented" /\ \E k \in DOMAIN intents : Fragmented!Mine(k))
  /\ <>[][~(part = "fragmented" /\ Fragmented!Failing)]_suiteVars
  /\ <>[](part = "fragmented" => ~settings.paused)

SuiteSpec ==
  /\ SuiteInit /\ [][SuiteNext]_suiteVars
  /\ DaemonFairness /\ StoreFairness /\ AdmissionFairness
  /\ WorkFairness /\ IncomeFairness /\ PaymentFairness /\ FragmentedFairness

FragmentedSpec ==
  /\ SuiteInit /\ part = "fragmented" /\ [][SuiteNext]_suiteVars
  /\ FragmentedFairness

-------------------------------------------------------------------------------
\* Once the faults end, a node that stopped itself or died serves again
\* (RecoverFromJournal, ReplayChain, FinishDurableCommitReplayRepair_).
Recovers == part = "store" => Store!Recovers

\* Whoever closes work admission for a change of facts gets through, however
\* signers reopen it meanwhile (CloseWorkAdmissionBounded_).
WriterGetsThrough == part = "admission" => Admission!WriterGetsThrough

\* No receipt stays unverified for ever, every recorded solution whose block
\* stays on the chain becomes an income, and such an income becomes available, also one that
\* was orphaned in between (retry_deferred, reconcile_solutions, reconcile_income).
WorkIsRewarded ==
  /\ part = "work" => Work!EverythingSettles
  /\ part = "income" => Scan!CanonicalIncomeReleased

\* Every balance that reaches the minimum is paid and every payment confirmed,
\* through lost broadcasts, failed passes and reorganizations, when the coins of
\* one transaction can make up the minimum; when they cannot, what remains is
\* only the batch that is out of their reach (maintain_once, plan).
EverythingPaid ==
  /\ part = "payments" => Payments!EverythingPaid
  /\ part = "fragmented" => Fragmented!PaidWithinReach

\* Every balance is paid also when the pool's income comes in small coins (plan:
\* "Large fragmented receipts must not stop all automatic payments").
FragmentsPaid == part = "fragmented" => Fragmented!EverythingPaid
===============================================================================
