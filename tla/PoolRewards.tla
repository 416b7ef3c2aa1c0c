------------------------------- MODULE PoolRewards -------------------------------
(***************************************************************************)
(* pool/rewards.py: rewards that the chain pays to the pool at a draw      *)
(* height D are shared by the receipts of a window that is sealed before   *)
(* work on D-1, the seed block, is issued.  A block is the sequence of     *)
(* choices that leads to it, so a chain names its own prefix.  work()      *)
(* holds the pool's lock from the reading of the tip to the seal, and      *)
(* reconcile() from its first question to the node to its last record,     *)
(* while the chain moves on; receipts are verified later, in any order.    *)
(***************************************************************************)
EXTENDS Prefixes, FiniteSets

CONSTANTS Choice,     \* competing blocks on one parent
          Interval,   \* blocks between two draws
          MaxHeight, MaxReceipts, MaxReorgs \* bounds

VARIABLES chain,       \* the node's best chain
          receipts,    \* in journal order
          seals,       \* <<draw, parent>> -> cutoff
          incomes,     \* reward block -> its seal, and the receipts that share it
          quarantined, \* reward blocks set aside
          sealing,     \* tip read by work(), or none
          reading,     \* reward block that reconcile() has looked up, or none
          issued,      \* a job on the present tip has been handed out
          reorgs,
          mixed        \* history: rewards judged by a block of another branch

books == <<receipts, seals, incomes, quarantined>>
node == <<chain, reorgs>>
vars == <<node, books, sealing, reading, issued, mixed>>

None == <<0>> \* no chain: choices are positive
Unlocked == sealing = None /\ reading = None \* the pool's lock is free
BlockAt(h) == SubSeq(chain, 1, h)
IsDraw(d) == d > 0 /\ d % Interval = 0
First(d) == IF d - Interval + 1 > 1 THEN d - Interval + 1 ELSE 1

LastHeight(d) == d - 2

Init ==
  /\ chain = <<>> /\ receipts = <<>> /\ seals = <<>> /\ incomes = <<>>
  /\ quarantined = {} /\ sealing = None /\ reading = None /\ issued = FALSE /\ reorgs = 0
  /\ mixed = {}

-------------------------------------------------------------------------------
(* work: read the tip, seal when the next block is a seed block, fetch a   *)
(* template; refused when the template is not on the tip that was read.    *)
ReadTip ==
  /\ Unlocked
  /\ sealing' = chain
  /\ UNCHANGED <<node, books, reading, issued, mixed>>

SealingAt(height) == IsDraw(height + 1)

Seal ==
  LET height == Len(sealing) + 1
      id == <<height + 1, sealing>>
  IN seals' = IF SealingAt(height) /\ id \notin DOMAIN seals
              THEN [s \in DOMAIN seals \cup {id} |-> IF s = id THEN Len(receipts) ELSE seals[s]]
              ELSE seals

Issue ==
  /\ sealing # None
  /\ Seal
  /\ issued' = (issued \/ sealing = chain)
  /\ sealing' = None
  /\ UNCHANGED <<node, receipts, incomes, quarantined, reading, mixed>>

-------------------------------------------------------------------------------
(* Receipts: admitted under the lock while the job's parent is the tip.    *)
(* A receipt is waiting (pending or deferred), verified, or refused (found *)
(* invalid, stale or a near miss).                                         *)
Submit ==
  /\ Unlocked /\ issued /\ Len(receipts) < MaxReceipts
  /\ receipts' = Append(receipts, [height |-> Len(chain) + 1, parent |-> chain, status |-> "waiting"])
  /\ UNCHANGED <<node, seals, incomes, quarantined, sealing, reading, issued, mixed>>

\* The parent was the tip at admission, and _verify looks it up without the lock
\* at any time from then to the record: a receipt may count as verified or as
\* stale whatever the chain is by now.
Verify(n) ==
  /\ Unlocked /\ receipts[n].status = "waiting"
  /\ \E s \in {"verified", "refused"} : receipts' = [receipts EXCEPT ![n].status = s]
  /\ UNCHANGED <<node, seals, incomes, quarantined, sealing, reading, issued, mixed>>

-------------------------------------------------------------------------------
(* reconcile: one row of the address history.  The block of the row is     *)
(* looked up first and the parent of its seal later, on the chain of then. *)
Unresolved(cutoff) == \E n \in 1..cutoff : receipts[n].status = "waiting"

Contributors(draw, cutoff) ==
  {n \in 1..cutoff : /\ receipts[n].status = "verified"
                     /\ receipts[n].height \in First(draw)..LastHeight(draw)}

SealOf(draw) ==
  LET id == <<draw, BlockAt(draw - 2)>>
  IN IF id \in DOMAIN seals THEN id ELSE None

\* The row's block, and its transaction, which must be in that very block.
ReadRow(draw) ==
  /\ IsDraw(draw) /\ draw <= Len(chain) /\ Unlocked
  /\ BlockAt(draw) \notin DOMAIN incomes
  /\ reading' = BlockAt(draw)
  /\ UNCHANGED <<node, books, sealing, issued, mixed>>

\* The seal is found by the parent, and the reward shared or set aside; a window
\* with unresolved receipts is left for a later pass.
SettleRow ==
  LET draw == Len(reading)
      seal == SealOf(draw)
      shares == Contributors(draw, seals[seal])
      settled == seal # None /\ ~Unresolved(seals[seal])
  IN /\ reading # None
     /\ reading' = None
     /\ incomes' = IF settled /\ shares # {}
                   THEN [b \in DOMAIN incomes \cup {reading} |->
                           IF b = reading THEN [seal |-> seal, shares |-> shares] ELSE incomes[b]]
                   ELSE incomes
     /\ quarantined' = IF seal = None \/ (settled /\ shares = {})
                       THEN quarantined \cup {reading} ELSE quarantined
     /\ mixed' = IF Begins(BlockAt(draw - 2), reading) THEN mixed ELSE mixed \cup {reading}
     /\ UNCHANGED <<node, receipts, seals, sealing, issued>>

\* A call of the node fails, or the process stops: the row is left for later.
DropRow ==
  /\ reading # None
  /\ reading' = None
  /\ UNCHANGED <<node, books, sealing, issued, mixed>>

-------------------------------------------------------------------------------
(* The node: the chain grows, or gives way to a longer one that leaves it  *)
(* at any height, by blocks of one choice.                                 *)
Grow ==
  /\ Len(chain) < MaxHeight
  /\ \E c \in Choice : chain' = Append(chain, c)
  /\ issued' = FALSE
  /\ UNCHANGED <<reorgs, books, sealing, reading, mixed>>

Reorganize ==
  /\ Len(chain) < MaxHeight /\ reorgs < MaxReorgs
  /\ \E fork \in 1..Len(chain), c \in Choice :
       /\ c # chain[fork]
       /\ chain' = [h \in 1..(Len(chain) + 1) |-> IF h < fork THEN chain[h] ELSE c]
  /\ reorgs' = reorgs + 1
  /\ issued' = FALSE
  /\ UNCHANGED <<books, sealing, reading, mixed>>

Next ==
  \/ ReadTip \/ Issue \/ Submit \/ Grow \/ Reorganize
  \/ \E n \in 1..Len(receipts) : Verify(n)
  \/ \E d \in 1..MaxHeight : ReadRow(d)
  \/ SettleRow \/ DropRow

Spec == Init /\ [][Next]_vars

-------------------------------------------------------------------------------
TypeOK ==
  /\ \A n \in 1..Len(receipts) : receipts[n].status \in {"waiting", "verified", "refused"}
  /\ \A s \in DOMAIN seals : seals[s] \in 0..Len(receipts) /\ Len(s[2]) = s[1] - 2
  /\ \A b \in DOMAIN incomes :
       IsDraw(Len(b)) /\ incomes[b].seal \in DOMAIN seals /\ incomes[b].shares \subseteq 1..Len(receipts)

OwnSeal(b) == <<Len(b), SubSeq(b, 1, Len(b) - 2)>>

\* Nobody who contributed to the window of a draw on the chain that paid it is
\* left out: the seal comes after the last receipt of the window.  Rewards whose
\* two lookups were answered from two branches are excepted here and below.
NoContributorLost ==
  \A b \in DOMAIN incomes \ mixed : \A n \in 1..Len(receipts) :
    (/\ receipts[n].status = "verified"
     /\ receipts[n].height \in First(Len(b))..(Len(b) - 2)
     /\ Begins(receipts[n].parent, b)) => n \in incomes[b].shares

\* The shares of every reward are those of the seal it names, whatever is
\* verified late and however the chain moves.
SharesFrozen ==
  \A b \in DOMAIN incomes :
    /\ incomes[b].shares = Contributors(Len(b), seals[incomes[b].seal])
    /\ b \notin mixed => incomes[b].seal = OwnSeal(b)

\* A reward that was set aside is never paid out later by a seal made after
\* the result.
QuarantineFinal == quarantined \cap DOMAIN incomes \subseteq mixed

\* A reward is shared by a seal of the branch that its own block is on, or it is
\* not shared ("A missed seal quarantines income").
SharedByOwnSeal == \A b \in DOMAIN incomes : incomes[b].seal = OwnSeal(b)
===============================================================================
