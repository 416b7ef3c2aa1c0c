------------------------------ MODULE PoolIncome ------------------------------
(***************************************************************************)
(* Coordinator.reconcile_income of pool/coordinator.py: how mining income  *)
(* becomes pending, available or orphaned while the node's chain moves     *)
(* between any two of the calls the scan makes.  A chain is a sequence of  *)
(* bits, a block is the prefix that ends with it, and the pool's blocks    *)
(* are the ones whose last bit is 1.  Depths are scaled down: Maturity     *)
(* stands for the 120 confirmations of the code.                           *)
(***************************************************************************)
EXTENDS Prefixes, FiniteSets, TLC

CONSTANTS Maturity,   \* confirmations an income needs (120)
          MaxDepth,   \* deepest reorganization the chain performs
          MaxLength, MaxReorgs, MaxRestarts  \* bounds

VARIABLES chain,     \* the node's canonical chain
          state,     \* income -> "pending", "available" or "orphaned"
          once,      \* incomes that have been available before
          incomeTip, \* the (height, hash) of the last complete scan, or none
          scan,      \* the scan in progress
          reorgs, restarts

vars == <<chain, state, once, incomeTip, scan, reorgs, restarts>>

NoTip == <<>>   \* income_tip is None
Idle == [pc |-> "idle"]
Block(h) == SubSeq(chain, 1, h)
Canonical(b) == Begins(b, chain)
PoolBlocks == {Block(h) : h \in {k \in 1..Len(chain) : chain[k] = 1}}

Init ==
  /\ chain = <<0>> /\ state = <<>> /\ once = {} /\ incomeTip = NoTip
  /\ scan = Idle /\ reorgs = 0 /\ restarts = 0

-------------------------------------------------------------------------------
(* The node. *)
Grow ==
  /\ Len(chain) < MaxLength
  /\ \E bit \in {0, 1} : chain' = Append(chain, bit)
  /\ UNCHANGED <<state, once, incomeTip, scan, reorgs, restarts>>

\* The last d blocks give way to a branch that is not shorter.
Reorganize ==
  /\ reorgs < MaxReorgs
  /\ reorgs' = reorgs + 1
  /\ \E d \in 1..MaxDepth :
       /\ d < Len(chain)
       /\ \E n \in d..(MaxLength - Len(chain) + d) :
            \E branch \in [1..n -> {0, 1}] :
              /\ branch[1] # chain[Len(chain) - d + 1]
              /\ chain' = SubSeq(chain, 1, Len(chain) - d) \o branch
  /\ UNCHANGED <<state, once, incomeTip, scan, restarts>>

-------------------------------------------------------------------------------
(* The scan. *)
ReadTip ==
  /\ scan = Idle
  /\ scan' = [pc |-> "prefix", height |-> Len(chain), tip |-> chain]
  /\ UNCHANGED <<chain, state, once, incomeTip, reorgs, restarts>>

\* extends: the tip of the last complete scan is still where it was.
Extends(height) == incomeTip # NoTip /\ height >= Len(incomeTip) /\ Canonical(incomeTip)

ReadPrefix ==
  /\ scan.pc = "prefix"
  /\ scan' = [pc |-> "incomes", height |-> scan.height, tip |-> scan.tip,
              extends |-> Extends(scan.height)]
  /\ UNCHANGED <<chain, state, once, incomeTip, reorgs, restarts>>

\* The first loop: each accepted block found on the chain gets its income.
RecordIncomes ==
  /\ scan.pc = "incomes"
  /\ LET new == {b \in PoolBlocks \ DOMAIN state : Len(b) <= scan.height}
     IN state' = [b \in new |-> "pending"] @@ state
  /\ scan' = [scan EXCEPT !.pc = "coins"]
  /\ UNCHANGED <<chain, once, incomeTip, reorgs, restarts>>

\* The variant that trusts the prefix for orphaned incomes too.
CandidatesPendingOnly ==
  IF ~scan.extends THEN DOMAIN state
  ELSE {b \in DOMAIN state : state[b] = "pending" /\ Len(b) <= scan.height - (Maturity - 1)}

Candidates ==
  IF ~scan.extends THEN DOMAIN state
  ELSE {b \in DOMAIN state :
          \/ state[b] = "pending" /\ Len(b) <= scan.height - (Maturity - 1)
          \/ state[b] = "orphaned"}

ReadCoins ==
  /\ scan.pc = "coins"
  /\ scan' = [pc |-> "loop", height |-> scan.height, tip |-> scan.tip,
              extends |-> scan.extends, spendable |-> PoolBlocks, todo |-> Candidates]
  /\ UNCHANGED <<chain, state, once, incomeTip, reorgs, restarts>>

\* A validated prefix is not looked up again.
TakenCanonical(b) ==
  \/ scan.extends /\ Len(b) <= Len(incomeTip) /\ state[b] # "orphaned"
  \/ scan.height >= Len(b) /\ Canonical(b)

\* The variant that does not ask the node for the outputs.
SpendableAssumed(b) == TRUE

Spendable(b) == b \in once \/ b \in scan.spendable

Confirmed(b) == scan.height - Len(b) + 1 >= Maturity

CheckIncome(b) ==
  /\ scan.pc = "loop" /\ b \in scan.todo
  /\ IF ~TakenCanonical(b)
     THEN state' = [state EXCEPT ![b] = "orphaned"] /\ UNCHANGED once
     ELSE IF state[b] # "available" /\ Confirmed(b) /\ Spendable(b)
     THEN state' = [state EXCEPT ![b] = "available"] /\ once' = once \cup {b}
     ELSE /\ state' = [state EXCEPT ![b] = IF @ = "orphaned" THEN "pending" ELSE @]
          /\ UNCHANGED once
  /\ scan' = [scan EXCEPT !.todo = @ \ {b}]
  /\ UNCHANGED <<chain, incomeTip, reorgs, restarts>>

\* "Never cache a prefix if the chain changed during reconciliation."
Finish ==
  /\ scan.pc = "loop" /\ scan.todo = {}
  /\ incomeTip' = IF scan.height <= Len(chain) /\ Block(scan.height) = scan.tip
                  THEN scan.tip ELSE incomeTip
  /\ scan' = Idle
  /\ UNCHANGED <<chain, state, once, reorgs, restarts>>

\* A node call fails, or the process restarts and forgets the tip.
Abort ==
  /\ scan # Idle
  /\ restarts < MaxRestarts
  /\ restarts' = restarts + 1
  /\ scan' = Idle
  /\ incomeTip' \in {incomeTip, NoTip}
  /\ UNCHANGED <<chain, state, once, reorgs>>

Next ==
  \/ Grow \/ Reorganize
  \/ ReadTip \/ ReadPrefix \/ RecordIncomes \/ ReadCoins
  \/ \E b \in DOMAIN state : CheckIncome(b)
  \/ Finish \/ Abort

Spec == Init /\ [][Next]_vars

\* What service.py repeats every second.
ScanStep ==
  \/ ReadTip \/ ReadPrefix \/ RecordIncomes \/ ReadCoins \/ Finish
  \/ \E b \in DOMAIN state : CheckIncome(b)

-------------------------------------------------------------------------------
TypeOK ==
  /\ \A b \in DOMAIN state : state[b] \in {"pending", "available", "orphaned"}
  /\ once \subseteq DOMAIN state
  /\ Len(chain) \in 1..MaxLength

\* With reorganizations shallower than the maturity, an income that payments
\* may spend is the income of a block on the chain, whatever the chain did
\* while the scan that released it was running.
AvailableOnChain == \A b \in DOMAIN state : state[b] = "available" => Canonical(b)

\* An income is released at the earliest when its block has Maturity
\* confirmations on the chain it is released on.
AvailableIsMature ==
  \A b \in DOMAIN state : state[b] = "available" => Len(chain) - Len(b) + 1 >= Maturity

\* Once the chain only stands still, every income of a block on it with enough
\* confirmations becomes available, even one that was orphaned for a while.
CanonicalIncomeReleased ==
  <>[](\A b \in DOMAIN state :
         (Canonical(b) /\ Len(chain) - Len(b) + 1 >= Maturity) => state[b] = "available")
===============================================================================
