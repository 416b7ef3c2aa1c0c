----------------------------- MODULE MCPoolPayout -----------------------------
(***************************************************************************)
(* What the pool does with its books: payments, the operator's requests    *)
(* and the locks of all threads.  The parts share no variable, so a        *)
(* behaviour is one of a single part, chosen at the start.  Payments have  *)
(* three accounts, the first two with one destination, and two receipts;   *)
(* the coins leave partial shares and dust.                                *)
(***************************************************************************)
EXTENDS Integers, FiniteSets, Sequences, TLC

CONSTANTS n1, n2, \* operator connections
          c, w,   \* connections of an operator and of the gateway
          r1, r2  \* request identities

VARIABLES part
VARIABLES batch, intents, settings, received, due, pass, blocks, mempool, mined, unmined, orphans, changes
VARIABLES owner, task, at, asked, journal, paused, revision, audit, faulted, acked, starts

Payments == INSTANCE PoolPayments WITH incomes <- received, pc <- pass, reorgs <- unmined,
  Income <- {1, 2}, Account <- {1, 2, 3},
  Destination <- <<1, 1, 2>>, Credit <- <<<<5, 1, 2>>, <<4, 1, 1>>>>, Value <- <<8, 6>>,
  Minimum <- {3, 5}, Dust <- 2, InputLimit <- 1, GroupLimit <- 2, MaxIntents <- 3,
  MaxReorgs <- 1, MaxOrphans <- 1, MaxSettings <- 2, MaxBatches <- 2

Operator == INSTANCE PoolOperator WITH restarts <- starts, Client <- {n1, n2}, Worker <- {},
  RequestId <- {r1, r2}, QueueLimit <- 1, MaxEvents <- 2, MaxRestarts <- 1

Locks == INSTANCE PoolOperator WITH restarts <- starts, Client <- {c}, Worker <- {w},
  RequestId <- {r1, r2}, QueueLimit <- 1, MaxEvents <- 2, MaxRestarts <- 0

paymentVars == <<batch, intents, settings, received, due, pass, blocks, mempool, mined, unmined, orphans, changes>>
operatorVars == <<owner, task, at, asked, journal, paused, revision, audit, faulted, acked, starts>>
vars == <<part, paymentVars, operatorVars>>

Init ==
  /\ part \in {"payments", "operator", "locks"}
  /\ Payments!Init
  /\ IF part = "locks" THEN Locks!Init ELSE Operator!Init

Next ==
  /\ UNCHANGED part
  /\ \/ part = "payments" /\ Payments!Next
     \/ part # "payments" /\ UNCHANGED paymentVars
  /\ \/ part = "operator" /\ Operator!Next
     \/ part = "locks" /\ Locks!Next
     \/ part \notin {"operator", "locks"} /\ UNCHANGED operatorVars

Spec == Init /\ [][Next]_vars

PayoutSymmetry == Permutations({n1, n2}) \cup Permutations({r1, r2})

-------------------------------------------------------------------------------
\* Payments: no coin funds two intents, an intent spends its inputs exactly, the
\* chunks of a batch stay within its frozen quotas and pay no destination less than
\* its minimum, and the coins not yet promised cover what is owed, whatever is
\* retried or reorganized (plan).
BooksBalance == part = "payments" =>
  /\ Payments!TypeOK
  /\ Payments!InputsDisjoint /\ Payments!ExactSpend
  /\ Payments!QuotaRespected /\ Payments!MinimumRespected /\ Payments!LiabilitiesBacked

\* Nothing is promised that is not owed, no signature is made in deficit, none is
\* ever replaced (plan, sign), and none is made after a pause was acknowledged
\* (Operator.run).
SignaturesAuthorized ==
  [][ CASE part = "payments" -> Payments!PromisesOwed /\ Payments!SignsOnceAndCovered
       [] part = "locks" -> Locks!PauseObeyed
       [] OTHER -> TRUE ]_vars

\* An operator's request takes effect once, however often it is sent; what was
\* answered is in the journal; and two requests never succeed against the same
\* revision (Operator.execute).
RequestsTakeEffectOnce == part = "operator" =>
  /\ Operator!TypeOK
  /\ Operator!AppliedOnce /\ Operator!AckedIsDurable /\ Operator!RevisionsExclusive

\* The threads of the service never wait for one another in a cycle.
NoDeadlock == part = "locks" => Locks!TypeOK /\ Locks!NoDeadlock
===============================================================================
