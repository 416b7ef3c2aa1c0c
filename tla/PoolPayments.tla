------------------------------ MODULE PoolPayments ------------------------------
(***************************************************************************)
(* pool/payments.py under the maintenance pass of service.py: freeze a     *)
(* batch of balances, split it into transactions, sign each once, and      *)
(* broadcast the same bytes until they confirm.  Batches and intents are   *)
(* in the payment journal and survive every stop.  The chain is external:  *)
(* receipts can be orphaned and transactions mined, dropped or unmined.    *)
(* The operator's fee coins are left out: they are reserved by the rule of *)
(* the pool's coins, and a shortage of them is a planning pass that fails. *)
(***************************************************************************)
EXTENDS Integers, Sequences, FiniteSets, FiniteSetsExt

CONSTANTS Income,      \* pool receipts (numbers)
          Account,     \* accounts, in the order of their names (numbers)
          Destination, \* account -> payout address (a number)
          Credit,      \* receipt -> account -> units credited
          Value,       \* receipt -> units of its coin
          Minimum,     \* payout minimums the operator may choose
          Dust,        \* smallest change output that is relayed
          InputLimit,  \* pool inputs per transaction (63)
          GroupLimit,  \* destinations per transaction (128)
          MaxIntents, MaxReorgs, MaxOrphans, MaxSettings, MaxBatches \* bounds

VARIABLES batch,    \* the newest batch: id, frozen quotas and minimum
          intents,  \* sequence of payment intents
          settings, \* operator: paused and minimum
          incomes,  \* receipts recorded as available
          due,      \* batch_seconds have passed since the last record
          pc,       \* where the maintenance thread is
          blocks,   \* receipts on the chain
          mempool, mined, \* intents known to the node; mined[k] = 0 or the block
          reorgs, orphans, changes \* bounded environment steps

books == <<batch, intents>>
chain == <<blocks, mempool, mined, reorgs, orphans>>
vars == <<books, settings, incomes, due, pc, chain, changes>>

Least(x, y) == IF x <= y THEN x ELSE y
SumOver(f, S) == MapThenSumSet(LAMBDA x : f[x], S)
Intent == 1..Len(intents)
Idle == <<"idle", 0, "none">>

Init ==
  /\ batch = [id |-> 0, quota |-> [a \in Account |-> 0], minimum |-> 1]
  /\ intents = <<>>
  /\ settings = [paused |-> TRUE, minimum |-> Min(Minimum)]
  /\ incomes = {} /\ due = TRUE /\ pc = Idle
  /\ blocks = {} /\ mempool = {} /\ mined = <<>>
  /\ reorgs = 0 /\ orphans = 0 /\ changes = 0

-------------------------------------------------------------------------------
(* Coins: the output of a receipt, or the change of an intent. *)
IncomeCoin(i) == <<"income", i>>
ChangeCoin(k) == <<"change", k>>

CoinValue(c) == IF c[1] = "income" THEN Value[c[2]] ELSE intents[c[2]].change

OnChain(c) == IF c[1] = "income" THEN c[2] \in blocks ELSE mined[c[2]] # 0

\* listunspent: outputs on the chain that no mined transaction spends.
Unspent(c) == OnChain(c) /\ \A k \in Intent : mined[k] # 0 => c \notin intents[k].inputs

Coins == {IncomeCoin(i) : i \in Income} \cup {ChangeCoin(k) : k \in {j \in Intent : intents[j].change > 0}}

\* Order of selection: largest first, then by identity.
Before(c, d) ==
  \/ CoinValue(c) > CoinValue(d)
  \/ CoinValue(c) = CoinValue(d) /\ c[1] = d[1] /\ c[2] < d[2]
  \/ CoinValue(c) = CoinValue(d) /\ c[1] = "change" /\ d[1] = "income"

-------------------------------------------------------------------------------
(* available, deductions, eligible_groups *)
Deducted(a) == MapThenSumSet(LAMBDA k : intents[k].deductions[a], Intent)

Owed(a) == MapThenSumSet(LAMBDA i : Credit[i][a], incomes) - Deducted(a)

NoDeficit == \A a \in Account : Owed(a) >= 0

AccountsOf(g) == {a \in Account : Destination[a] = g}
Addresses == {Destination[a] : a \in Account}

\* Quotas of the accounts whose destination reaches the minimum, 0 elsewhere.
Eligible(quota, minimum) ==
  [a \in Account |-> IF SumOver(quota, AccountsOf(Destination[a])) >= minimum THEN quota[a] ELSE 0]

\* What the frozen batch still owes.
BatchLeft == [a \in Account |->
  batch.quota[a] - MapThenSumSet(LAMBDA k : intents[k].deductions[a],
                                 {k \in Intent : intents[k].batch = batch.id})]

-------------------------------------------------------------------------------
(* plan *)
\* The variant that releases the inputs of what is recorded as confirmed.
ReservedUnconfirmed == UNION {intents[k].inputs : k \in {j \in Intent : intents[j].state # "confirmed"}}

Reserved == UNION {intents[k].inputs : k \in Intent}

\* Receipts that are available, and change that has confirmed.
Allowed == {IncomeCoin(i) : i \in incomes} \cup {ChangeCoin(k) : k \in {j \in Intent : intents[j].state = "confirmed"}}

Funds == {c \in Coins : Unspent(c) /\ c \in Allowed /\ c \notin Reserved}

\* The first coins, in order, that reach the sum needed, within the limit.
Selected(needed) ==
  LET ahead(c) == {d \in Funds : Before(d, c)}
      sum(S) == MapThenSumSet(CoinValue, S)
  IN {c \in Funds : Cardinality(ahead(c)) < InputLimit /\ sum(ahead(c)) < needed}

\* Destinations in order, each paid in full while the funds last; the last one
\* may be paid in part.
Shares(quota, minimum, funding) ==
  LET paid(g) == SumOver(quota, AccountsOf(g))
      groups == {g \in Addresses : paid(g) > 0}
      before(g) == {h \in groups : h < g}
      left(g) == funding - MapThenSumSet(paid, before(g))
  IN [g \in Addresses |->
        IF g \in groups /\ Cardinality(before(g)) < GroupLimit /\ left(g) >= minimum
        THEN Least(paid(g), left(g)) ELSE 0]

\* Less than the dust would remain: the largest share gives up the difference,
\* or is dropped when that takes it below the minimum.
KeepRelayable(share, minimum, funding) ==
  LET left == funding - SumOver(share, Addresses)
      top == CHOOSE g \in Addresses :
               \A h \in Addresses : share[h] < share[g] \/ (share[h] = share[g] /\ h <= g)
      cut == share[top] - (Dust - left)
  IN IF left \in 1..(Dust - 1)
     THEN [share EXCEPT ![top] = IF cut < minimum THEN 0 ELSE cut]
     ELSE share

\* A share is split over the accounts of its destination in their order.
Deductions(quota, share) ==
  [a \in Account |->
     LET g == Destination[a]
         left == share[g] - SumOver(quota, {b \in AccountsOf(g) : b < a})
     IN IF left <= 0 THEN 0 ELSE Least(quota[a], left)]

\* The batch planned from: the frozen one while a destination of it can be
\* paid, else a new one when the interval has passed.
LeftToPay == Eligible(BatchLeft, batch.minimum)
Continues == \E a \in Account : LeftToPay[a] > 0
NewQuota == Eligible([a \in Account |-> Owed(a)], settings.minimum)
Opens == ~Continues /\ due /\ \E a \in Account : NewQuota[a] > 0

PlannedBatch ==
  IF Opens THEN [id |-> batch.id + 1, quota |-> NewQuota, minimum |-> settings.minimum]
  ELSE batch

QuotaAvailable(quota) == \A a \in Account : quota[a] > 0 => Owed(a) >= quota[a]

Backed == MapThenSumSet(CoinValue, Funds) >= MapThenSumSet(Owed, Account)

\* An intent for quota under the given minimum, or the empty sequence.
Planned(quota, minimum, id) ==
  LET inputs == Selected(SumOver(quota, Account))
      funding == MapThenSumSet(CoinValue, inputs)
      share == KeepRelayable(Shares(quota, minimum, funding), minimum, funding)
      taken == Deductions(quota, share)
      total == SumOver(taken, Account)
  IN IF funding < minimum \/ total = 0 THEN <<>>
     ELSE <<[batch |-> id, deductions |-> taken, inputs |-> inputs, change |-> funding - total,
             state |-> "reserved", block |-> 0]>>

\* The pass ends after the new intent, or here when there is none; a failed
\* call of the node leaves a batch that was recorded before it.
Plan(answered) ==
  /\ pc[1] = "plan"
  /\ IF NoDeficit /\ (Continues \/ Opens)
     THEN LET quota == IF Continues THEN LeftToPay ELSE NewQuota
          IN /\ Len(intents) < MaxIntents /\ (Opens => batch.id < MaxBatches)
             /\ batch' = PlannedBatch
             /\ intents' = IF answered /\ QuotaAvailable(quota) /\ Backed
                           THEN intents \o Planned(quota, PlannedBatch.minimum, PlannedBatch.id)
                           ELSE intents
             /\ mined' = [k \in 1..Len(intents') |-> IF k \in Intent THEN mined[k] ELSE 0]
             /\ due' = (due /\ books' = books)
     ELSE UNCHANGED <<books, mined, due>>
  /\ pc' = IF Len(intents') > Len(intents) THEN <<"sign", Len(intents'), "last">> ELSE Idle
  /\ UNCHANGED <<settings, incomes, blocks, mempool, reorgs, orphans, changes>>

-------------------------------------------------------------------------------
(* sign: once per intent, after looking at the balances and the inputs     *)
(* again; a refusal ends the pass.  The balances cannot change before the  *)
(* signature is recorded, for the locks are held; the chain can.           *)
Signable(k) == NoDeficit /\ \A c \in intents[k].inputs : Unspent(c)

\* The variant that trusts the plan.
SignUnchecked(k) ==
  /\ pc[1] = "sign" /\ pc[2] = k
  /\ pc' = <<IF intents[k].state = "reserved" THEN "signing" ELSE "reconcile", k, pc[3]>>
  /\ UNCHANGED <<books, settings, incomes, due, chain, changes>>

Sign(k) ==
  /\ pc[1] = "sign" /\ pc[2] = k
  /\ pc' = IF intents[k].state # "reserved" THEN <<"reconcile", k, pc[3]>>
           ELSE IF Signable(k) THEN <<"signing", k, pc[3]>>
           ELSE Idle
  /\ UNCHANGED <<books, settings, incomes, due, chain, changes>>

RecordSignature(k) ==
  /\ pc[1] = "signing" /\ pc[2] = k
  /\ intents' = [intents EXCEPT ![k].state = "signed"]
  /\ pc' = <<"reconcile", k, pc[3]>>
  /\ UNCHANGED <<batch, settings, incomes, due, chain, changes>>

-------------------------------------------------------------------------------
(* reconcile: a confirmation is kept while its block is on the chain; else *)
(* the transaction is looked up again, and sent again when it is not found.*)
NextStep(k, mode) ==
  IF mode = "last" THEN Idle
  ELSE IF k < Len(intents) THEN <<IF mode = "pay" THEN "sign" ELSE "reconcile", k + 1, mode>>
  ELSE IF mode = "pay" THEN <<"plan", 0, mode>> ELSE Idle

\* The variant that never doubts a confirmation.
StillConfirmedAlways(k) == intents[k].state = "confirmed"

StillConfirmed(k) == intents[k].state = "confirmed" /\ intents[k].block = mined[k]

\* sendrawtransaction: the inputs are outputs of the chain or of the mempool.
Acceptable(k) ==
  \A c \in intents[k].inputs : Unspent(c) \/ (c[1] = "change" /\ c[2] \in mempool)

Observed(k, found) ==
  IF StillConfirmed(k) THEN intents[k]
  ELSE IF intents[k].state = "reserved" THEN intents[k]
  ELSE [intents[k] EXCEPT !.state = IF found THEN "confirmed" ELSE "signed",
                          !.block = IF found THEN mined[k] ELSE 0]

\* The lookup may fail; what it does not find is broadcast, unless the pass only
\* observes, and the broadcast may be lost or refused.
Reconcile(k, answered) ==
  /\ pc[1] = "reconcile" /\ pc[2] = k
  /\ \E found \in {mined[k] # 0, answered /\ mined[k] # 0}, sent \in {TRUE, answered} :
       /\ intents' = [intents EXCEPT ![k] = Observed(k, found)]
       /\ mempool' = IF /\ sent /\ pc[3] # "observe" /\ intents'[k].state = "signed"
                        /\ mined[k] = 0 /\ Acceptable(k)
                     THEN mempool \cup {k} ELSE mempool
  /\ pc' = NextStep(k, pc[3])
  /\ UNCHANGED <<batch, settings, incomes, due, blocks, mined, reorgs, orphans, changes>>

-------------------------------------------------------------------------------
(* maintain_once: receipts are reconciled with the chain first; then the   *)
(* payments, or, while they are paused, observations of them.              *)
StartPass ==
  /\ pc = Idle
  /\ incomes' = blocks
  /\ pc' = NextStep(0, IF settings.paused THEN "observe" ELSE "pay")
  /\ <<incomes', pc'>> # <<incomes, pc>>
  /\ UNCHANGED <<books, settings, due, chain, changes>>

\* Operator settings: the operator's lock is held during a pass that signs.
\* Resuming first reconciles the receipts and refuses a deficit.
ChangeSettings ==
  /\ changes < MaxSettings
  /\ pc[3] \in {"none", "observe"}
  /\ \E p \in BOOLEAN, m \in Minimum :
       /\ settings' = [paused |-> p, minimum |-> m]
       /\ settings' # settings
       /\ incomes' = IF settings.paused /\ ~p THEN blocks ELSE incomes
       /\ (settings.paused /\ ~p) =>
            \A a \in Account : MapThenSumSet(LAMBDA i : Credit[i][a], blocks) >= Deducted(a)
  /\ changes' = changes + 1
  /\ UNCHANGED <<books, due, pc, chain>>

\* The process stops, or a call of the node raises: the pass ends.
Interrupt == pc # Idle /\ pc' = Idle /\ UNCHANGED <<books, settings, incomes, due, chain, changes>>

-------------------------------------------------------------------------------
(* Environment: time, the pool's blocks, and the node's transactions. *)
Elapse == ~due /\ due' = TRUE /\ UNCHANGED <<books, settings, incomes, pc, chain, changes>>

Mature(i) ==
  /\ i \notin blocks
  /\ blocks' = blocks \cup {i}
  /\ UNCHANGED <<books, settings, incomes, due, pc, mempool, mined, reorgs, orphans, changes>>

\* A receipt leaves the chain with every mined transaction that spends from it.
Descends(k, c) ==
  \/ c \in intents[k].inputs
  \/ \E j \in Intent : ChangeCoin(j) \in intents[k].inputs /\ c \in intents[j].inputs
  \/ \E j \in Intent : ChangeCoin(j) \in intents[k].inputs /\ c \in
       UNION {intents[h].inputs : h \in {n \in Intent : ChangeCoin(n) \in intents[j].inputs}}

Orphan(i) ==
  /\ i \in blocks /\ orphans < MaxOrphans
  /\ orphans' = orphans + 1 /\ reorgs' = reorgs + 1
  /\ blocks' = blocks \ {i}
  /\ mined' = [k \in Intent |-> IF Descends(k, IncomeCoin(i)) THEN 0 ELSE mined[k]]
  /\ mempool' = {k \in mempool : ~Descends(k, IncomeCoin(i))}
  /\ UNCHANGED <<books, settings, incomes, due, pc, changes>>

Mine(k) ==
  /\ k \in mempool /\ mined[k] = 0 /\ \A c \in intents[k].inputs : Unspent(c)
  /\ mined' = [mined EXCEPT ![k] = reorgs + 1]
  /\ mempool' = mempool \ {k}
  /\ UNCHANGED <<books, settings, incomes, due, pc, blocks, reorgs, orphans, changes>>

\* A reorganization removes the block of k; what it held may be forgotten.
Unmine(k) ==
  /\ mined[k] # 0 /\ reorgs < MaxReorgs
  /\ reorgs' = reorgs + 1
  /\ LET gone == {j \in Intent : j = k \/ Descends(j, ChangeCoin(k))}
     IN /\ mined' = [j \in Intent |-> IF j \in gone THEN 0 ELSE mined[j]]
        /\ mempool' \in {mempool \ gone, mempool \cup {k}}
  /\ UNCHANGED <<books, settings, incomes, due, pc, blocks, orphans, changes>>

Drop(k) ==
  /\ k \in mempool
  /\ mempool' = mempool \ {j \in Intent : j = k \/ Descends(j, ChangeCoin(k))}
  /\ UNCHANGED <<books, settings, incomes, due, pc, blocks, mined, reorgs, orphans, changes>>

Maintenance ==
  \/ StartPass
  \/ \E answered \in BOOLEAN : Plan(answered) \/ \E k \in Intent : Reconcile(k, answered)
  \/ \E k \in Intent : Sign(k) \/ RecordSignature(k)

Next ==
  \/ Maintenance \/ ChangeSettings \/ Interrupt \/ Elapse
  \/ \E i \in Income : Mature(i) \/ Orphan(i)
  \/ \E k \in Intent : Mine(k) \/ Unmine(k) \/ Drop(k)

Spec == Init /\ [][Next]_vars

\* A pass cut short, an answer or a broadcast lost, a transaction dropped.
Failing ==
  \/ Interrupt /\ ~Maintenance
  \/ Plan(FALSE) /\ ~Plan(TRUE)
  \/ \E k \in Intent : Drop(k) \/ (Reconcile(k, FALSE) /\ ~Reconcile(k, TRUE))

-------------------------------------------------------------------------------
TypeOK ==
  /\ \A k \in Intent :
       /\ intents[k].state \in {"reserved", "signed", "confirmed"}
       /\ intents[k].deductions \in [Account -> Nat]
       /\ intents[k].inputs \subseteq Coins
       /\ intents[k].block \in 0..(MaxReorgs + MaxOrphans + 1)
  /\ batch.quota \in [Account -> Nat]
  /\ incomes \subseteq Income /\ blocks \subseteq Income
  /\ mempool \subseteq Intent /\ DOMAIN mined = Intent

\* No coin funds two intents, whatever is retried, replaced or reorganized: two
\* transactions of the pool can never exclude one another.
InputsDisjoint ==
  \A j, k \in Intent : j # k => intents[j].inputs \cap intents[k].inputs = {}

\* An intent spends its inputs exactly: what is not deducted comes back as
\* change, and the change is none or an output that nodes relay ("Preserve a
\* relayable change output without donating liabilities as fees").
ExactSpend ==
  \A k \in Intent :
    /\ MapThenSumSet(CoinValue, intents[k].inputs)
         = SumOver(intents[k].deductions, Account) + intents[k].change
    /\ intents[k].change = 0 \/ intents[k].change >= Dust

\* The chunks of a batch never exceed its frozen quotas ("batch quota
\* overdrawn" is unreachable).
QuotaRespected == \A a \in Account : BatchLeft[a] >= 0

\* No destination is paid less than the minimum that its batch was frozen with,
\* in whichever chunk, and after whatever the dust rule takes from its share.
MinimumRespected ==
  \A k \in Intent : intents[k].batch = batch.id =>
    \A g \in Addresses :
      LET paid == SumOver(intents[k].deductions, AccountsOf(g))
      IN paid = 0 \/ paid >= batch.minimum

\* While every receipt credited is on the chain, the coins not yet promised,
\* with all change that is still to confirm, cover what is owed.
LiabilitiesBacked ==
  orphans = 0 =>
    MapThenSumSet(CoinValue,
      {c \in Coins : c \notin Reserved /\ (c[1] = "income" => c[2] \in incomes)})
      >= MapThenSumSet(Owed, Account)

\* An intent is only ever added when every account is credited, by receipts
\* available now, with everything promised to it so far.
PromisesOwed ==
  Len(intents') > Len(intents) =>
    \A a \in Account :
      MapThenSumSet(LAMBDA i : Credit[i][a], incomes) >= Deducted(a)'

\* No signature is made while a receipt lost to a reorganization leaves any
\* account in deficit; a signature is never replaced, and no step changes what
\* an intent spends or withdraws it.
SignsOnceAndCovered ==
  \A k \in Intent :
    /\ intents[k].state # "reserved" => intents'[k].state # "reserved"
    /\ (intents[k].state = "reserved" /\ intents'[k].state = "signed") =>
         NoDeficit
    /\ intents'[k].inputs = intents[k].inputs

\* Nothing of the pool is left to confirm: every payment is recorded in the
\* block that holds it.
AllConfirmed == \A k \in Intent : intents[k].state = "confirmed" /\ intents[k].block = mined[k]

NothingOwed == \A a \in Account : NewQuota[a] = 0

\* The batch to be paid next gets no transaction: the InputLimit largest coins do
\* not make up its minimum, or the dust rule leaves no share that does.
OutOfReach ==
  Planned(IF Continues THEN LeftToPay ELSE NewQuota,
          IF Continues THEN batch.minimum ELSE settings.minimum, batch.id) = <<>>

\* Every balance that reaches the minimum of its destination is paid, and every
\* payment is at last confirmed in the block that holds it: lost broadcasts,
\* failed passes and reorganizations only delay it.
EverythingPaid == []<>(NothingOwed /\ AllConfirmed)

\* The same as far as the coins allow: the only balances left are those whose
\* batch is out of reach of the transactions that plan may build.
PaidWithinReach == []<>((NothingOwed \/ OutOfReach) /\ AllConfirmed)
===============================================================================
