----------------------------- MODULE PoolAccounting -----------------------------
(***************************************************************************)
(* pool/accounting.py: exact shares of an income.  A fraction is a pair    *)
(* <<numerator, denominator>> in lowest terms, as Python's Fraction.  The  *)
(* state is what the algorithms are applied to: receipts in journal order  *)
(* and the incomes allocated from them, each with its own cutoff, so every *)
(* list of receipts and incomes within the bounds is an input.             *)
(***************************************************************************)
EXTENDS Integers, Sequences, FiniteSets, FiniteSetsExt, SequencesExt

CONSTANTS Account, Target, NetworkTarget, Fee, Amount, \* small sets of inputs
          Space,    \* size of the hash space (2^256)
          Scale,    \* precision of the interval of floor_total (2^256)
          FeeBase,  \* fees are parts of FeeBase (1000000)
          Lookback, \* blocks of work that share an income (2)
          MaxReceipts, MaxIncomes

VARIABLES receipts, incomes
vars == <<receipts, incomes>>

-------------------------------------------------------------------------------
(* Fractions. *)
Gcd(a, b) == LET g[x \in Nat, y \in Nat] == IF x = 0 THEN y ELSE g[y % x, x] IN g[a, b]
Frac(n, d) == LET g == Gcd(n, d) IN IF n = 0 THEN <<0, 1>> ELSE <<n \div g, d \div g>>
Plus(x, y) == Frac(x[1] * y[2] + y[1] * x[2], x[2] * y[2])
Minus(x, y) == Frac(x[1] * y[2] - y[1] * x[2], x[2] * y[2])
Times(x, y) == Frac(x[1] * y[1], x[2] * y[2])
Over(x, y) == Frac(x[1] * y[2], x[2] * y[1])
AtMost(x, y) == x[1] * y[2] <= y[1] * x[2]
Zero == <<0, 1>>
Whole(n) == <<n, 1>>
SumFractions(s) == FoldLeft(Plus, Zero, s)

-------------------------------------------------------------------------------
(* expected_work, pplns *)
ExpectedWork(target) == Frac(Space, target)

Key(r) == <<r.account, r.fee>>
Keys == Account \X Fee

\* Receipts from the newest down to the first, each taking its work from what
\* remains of the window; state: the window left and the weights.
TakeReceipt(cutoff, acc, n) ==
  LET r == receipts[n]
      work == ExpectedWork(r.target)
      part == IF AtMost(work, acc.left) THEN work ELSE acc.left
  IN IF n > cutoff \/ r.status # "verified" THEN acc
     ELSE [left |-> Minus(acc.left, part),
           weights |-> [acc.weights EXCEPT ![Key(r)] = Plus(@, part)]]

Pplns(cutoff, network) ==
  FoldLeft(LAMBDA acc, n : TakeReceipt(cutoff, acc, n),
           [left |-> Times(Whole(Lookback), ExpectedWork(network)), weights |-> [k \in Keys |-> Zero]],
           Reverse([n \in 1..Len(receipts) |-> n])).weights

Total(f, S) == FoldSet(LAMBDA k, acc : Plus(f[k], acc), Zero, S)

-------------------------------------------------------------------------------
(* allocate, allocate_policy: the share of a key, less the fee of its key. *)
Gross(amount, weights, k) == Over(Times(Whole(amount), weights[k]), Total(weights, Keys))

Charge(gross, k) == Times(gross, Frac(k[2], FeeBase))

AllocatePolicy(amount, weights) ==
  [credits |-> [a \in Account |->
     Total([k \in Keys |-> Minus(Gross(amount, weights, k), Charge(Gross(amount, weights, k), k))],
           {k \in Keys : k[1] = a})],
   fee |-> Total([k \in Keys |-> Times(Gross(amount, weights, k), Frac(k[2], FeeBase))], Keys)]

-------------------------------------------------------------------------------
(* floor_total: values grouped by denominator, an interval at a fixed      *)
(* precision, and exact arithmetic only when the interval is ambiguous.    *)
Groups(values) ==
  [d \in {values[i][2] : i \in 1..Len(values)} |->
     MapThenSumSet(LAMBDA i : values[i][1], {i \in 1..Len(values) : values[i][2] = d})]

Lower(groups) == MapThenSumSet(LAMBDA d : (groups[d] * Scale) \div d, DOMAIN groups)
Inexact(groups) == {d \in DOMAIN groups : (groups[d] * Scale) % d # 0}
Upper(groups) == Lower(groups) + Cardinality(Inexact(groups))

\* The variant that trusts the lower end of the interval.
FloorTotalLower(values) == Lower(Groups(values)) \div Scale

FloorTotal(values) ==
  LET groups == Groups(values)
      minimum == Lower(groups) \div Scale
      maximum == (IF Inexact(groups) # {} THEN Upper(groups) - 1 ELSE Upper(groups)) \div Scale
      exact == SumFractions([i \in 1..Len(values) |-> values[i]])
  IN IF minimum = maximum THEN minimum ELSE exact[1] \div exact[2]

-------------------------------------------------------------------------------
Init == receipts = <<>> /\ incomes = <<>>

Receive ==
  /\ Len(receipts) < MaxReceipts
  /\ \E a \in Account, t \in Target, f \in Fee, s \in {"verified", "invalid"} :
       receipts' = Append(receipts, [account |-> a, target |-> t, fee |-> f, status |-> s])
  /\ UNCHANGED incomes

\* An income with no beneficiary is refused.
Earn ==
  /\ Len(incomes) < MaxIncomes
  /\ \E amount \in Amount, cutoff \in 1..Len(receipts), network \in NetworkTarget :
       LET weights == Pplns(cutoff, network)
       IN /\ Total(weights, Keys) # Zero
          /\ incomes' = Append(incomes, [amount |-> amount, cutoff |-> cutoff, network |-> network,
                                         split |-> AllocatePolicy(amount, weights)])
  /\ UNCHANGED receipts

Next == Receive \/ Earn

Spec == Init /\ [][Next]_vars

-------------------------------------------------------------------------------
\* Credits and fee of an income add up to it exactly: no unit is lost and none
\* is invented, whatever the mixture of fees in the window.
AllocationExact ==
  \A i \in 1..Len(incomes) :
    Plus(Total(incomes[i].split.credits, Account), incomes[i].split.fee) = Whole(incomes[i].amount)

\* The weights of a window are the newest Lookback blocks of work before the
\* cutoff: a receipt counts as far as the work after it leaves room, no more.
WindowNewest ==
  \A cutoff \in 1..Len(receipts), network \in NetworkTarget :
    LET window == Times(Whole(Lookback), ExpectedWork(network))
        worth == [n \in 1..cutoff |-> IF receipts[n].status = "verified"
                                      THEN ExpectedWork(receipts[n].target) ELSE Zero]
        newer(n) == Total(worth, (n + 1)..cutoff)
        part == [n \in 1..cutoff |->
                   IF AtMost(window, newer(n)) THEN Zero
                   ELSE IF AtMost(Plus(newer(n), worth[n]), window) THEN worth[n]
                   ELSE Minus(window, newer(n))]
        weights == Pplns(cutoff, network)
    IN \A k \in Keys :
         weights[k] = Total(part, {n \in 1..cutoff : Key(receipts[n]) = k})

CreditsOf(a) == [i \in 1..Len(incomes) |-> incomes[i].split.credits[a]]

\* The spendable balance is the exact sum of an account's credits rounded down:
\* the interval arithmetic neither raises a payment nor loses a unit.
FloorExact ==
  \A a \in Account :
    LET sum == SumFractions(CreditsOf(a))
        floor == FloorTotal(CreditsOf(a))
    IN AtMost(Whole(floor), sum) /\ ~AtMost(Whole(floor + 1), sum)

\* All balances together never exceed what the pool received.
PayableCovered ==
  MapThenSumSet(LAMBDA a : FloorTotal(CreditsOf(a)), Account)
    <= MapThenSumSet(LAMBDA i : incomes[i].amount, 1..Len(incomes))
===============================================================================
