------------------------------- MODULE PoolWork -------------------------------
(***************************************************************************)
(* pool/coordinator.py: nonce leases, receipts, verification, solutions    *)
(* and mining income.  What the journal records (jobs, leases, receipts,   *)
(* solutions, earnings, incomes) survives every stop, as ServiceLog        *)
(* promises; active job, cached leases, request threads and the admission  *)
(* semaphore do not.  Handlers that hold the coordinator's lock are one    *)
(* action; _verify takes the lock only to record, so it is a thread of     *)
(* several steps.  The node is external: a chain that grows, replaces its  *)
(* last block, and answers or fails.                                       *)
(***************************************************************************)
EXTENDS Integers, Sequences, FiniteSets, TLC

CONSTANTS Account,        \* registered accounts
          Variant,        \* distinct candidate blocks on one parent
          NonceSpace,     \* 2^64 in the code: nonces are 0..NonceSpace-1
          Quality,        \* what the verifier says of a nonce
          LeaseSize,      \* range lengths a worker asks for (1..4096)
          LeaseBatch,     \* ranges reserved per journal append (8)
          ReserveLimit,   \* cached reservations (64)
          Capacity,       \* verification threads, and unverified receipts
          MaxJobs, MaxHeight, MaxForeign, MaxCrashes \* bounds

VARIABLES jobs,      \* sequence of templates, one per job
          leases,    \* ranges bound to an account and a job
          highwater, \* template -> first nonce never leased
          receipts,  \* identity -> what was recorded of the proof
          solutions, \* blocks found, with their cutoff
          earned,    \* blocks known to have been accepted
          incomes,   \* block -> the receipts that share it
          seq,       \* journal sequence of the last receipt
          active, reserve, inflight, threads, \* volatile
          chain, foreign, crashes,            \* environment
          cut        \* history: proofs whose thread a stop cut before the solution

durable == <<jobs, leases, highwater, receipts, solutions, earned, incomes, seq>>
volatile == <<active, reserve, inflight, threads>>
environment == <<chain, foreign, crashes, cut>>
vars == <<durable, volatile, environment>>

Nonce == 0..(NonceSpace - 1)
Tip == chain[Len(chain)]
Height(b) == IF b[1] = "solved" THEN b[2].height ELSE b[2]
OnChain(b, c) == Height(b) \in 1..Len(c) /\ c[Height(b)] = b
Waiting == {"pending", "deferred"}
Resolved == {"invalid", "stale", "near_miss", "verified"}
Unverified == {id \in DOMAIN receipts : receipts[id].status \in Waiting}

Init ==
  /\ jobs = <<>> /\ leases = {} /\ highwater = <<>> /\ receipts = <<>>
  /\ solutions = {} /\ earned = {} /\ incomes = <<>> /\ seq = 0
  /\ active = 0 /\ reserve = <<>> /\ inflight = {} /\ threads = {}
  /\ chain = <<<<"foreign", 1, 0>>>> /\ foreign = 0 /\ crashes = 0 /\ cut = {}

-------------------------------------------------------------------------------
(* work: take or refresh the active job, reserve a group of ranges above   *)
(* the template's high-water mark, record them, hand out the first.        *)
TemplateAtTip(v) == [parent |-> Tip, height |-> Len(chain) + 1, variant |-> v]

HighwaterOf(t) == IF t \in DOMAIN highwater THEN highwater[t] ELSE 0

Lease(a, j, t, s, c) == [account |-> a, job |-> j, template |-> t, start |-> s, end |-> s + c]

Reservation(a, j, t, c) ==
  LET start == HighwaterOf(t)
      n == IF (NonceSpace - start) \div c < LeaseBatch
           THEN (NonceSpace - start) \div c ELSE LeaseBatch
  IN [i \in 1..n |-> Lease(a, j, t, start + (i - 1) * c, c)]

\* A cached job, or a new one whose template may be one already seen (the
\* cached one is too close to its expiry, or there is none).
Jobs ==
  {[list |-> jobs, job |-> active, kept |-> reserve] : x \in IF active # 0 THEN {1} ELSE {}}
  \cup {[list |-> Append(jobs, TemplateAtTip(v)), job |-> Len(jobs) + 1, kept |-> <<>>] :
         v \in IF Len(jobs) < MaxJobs /\ Len(chain) < MaxHeight THEN Variant ELSE {}}

\* A lease from the cached group, or from a newly recorded one; an exhausted
\* template leaves the job recorded and hands out nothing.  What remains of the
\* group is cached last, and a cache beyond its limit gives up its first group.
Work(a, c) ==
  /\ \E w \in Jobs :
       LET t == w.list[w.job]
           own(g) == g[1].account = a /\ g[1].end - g[1].start = c
           cached == SelectSeq(w.kept, own)
           group == IF cached # <<>> THEN cached[1] ELSE Reservation(a, w.job, t, c)
           others == SelectSeq(w.kept, LAMBDA g : ~own(g))
           kept == IF Len(group) > 1 THEN Append(others, Tail(group)) ELSE others
       IN /\ jobs' = w.list /\ active' = w.job
          /\ leases' = leases \cup {group[i] : i \in 1..Len(group)}
          /\ highwater' = IF cached # <<>> \/ group = <<>> THEN highwater
                          ELSE (t :> group[Len(group)].end) @@ highwater
          /\ reserve' = IF Len(kept) > ReserveLimit THEN Tail(kept) ELSE kept
  /\ UNCHANGED <<receipts, solutions, earned, incomes, seq,
                 inflight, threads, environment>>

-------------------------------------------------------------------------------
(* submit: authorize against the lease, refuse duplicates, bound the       *)
(* backlog, take an admission slot, record the receipt.                    *)
Identity(t, n) == <<t, n>>

Admissible(id, l) ==
  /\ id \notin inflight
  /\ IF id \in DOMAIN receipts
     THEN receipts[id].status = "deferred"
     ELSE /\ Cardinality(Unverified) < Capacity
          /\ Tip = l.template.parent
  /\ Cardinality(threads) < Capacity

Thread(id, j) == [id |-> id, job |-> j, pc |-> "inspect", status |-> "pending"]

Submit(l, n) ==
  /\ n \in l.start..(l.end - 1)
  /\ LET id == Identity(l.template, n)
         fresh == id \notin DOMAIN receipts
     IN /\ Admissible(id, l)
        /\ receipts' = IF fresh
                       THEN (id :> [account |-> l.account, job |-> l.job,
                                    seq |-> seq + 1, status |-> "pending"]) @@ receipts
                       ELSE receipts
        /\ seq' = IF fresh THEN seq + 1 ELSE seq
        /\ inflight' = inflight \cup {id}
        /\ threads' = threads \cup {Thread(id, l.job)}
  /\ UNCHANGED <<jobs, leases, highwater, solutions, earned, incomes, active,
                 reserve, environment>>

\* retry_deferred: the oldest deferred receipt not in flight.
RetryDeferred ==
  LET idle == {id \in DOMAIN receipts : receipts[id].status = "deferred"} \ inflight
  IN /\ idle # {}
     /\ Cardinality(threads) < Capacity
     /\ \E id \in idle :
          /\ \A o \in idle : receipts[id].seq <= receipts[o].seq
          /\ inflight' = inflight \cup {id}
          /\ threads' = threads \cup {Thread(id, receipts[id].job)}
     /\ UNCHANGED <<durable, active, reserve, environment>>

-------------------------------------------------------------------------------
(* _verify, by one thread. *)
Move(th, new) == threads' = (threads \ {th}) \cup {new}

SetStatus(id, s) == receipts' = [receipts EXCEPT ![id].status = s]

\* except BaseException: a receipt still pending is deferred; finally: release.
Abandon(th) ==
  /\ SetStatus(th.id, IF receipts[th.id].status = "pending" THEN "deferred"
                      ELSE receipts[th.id].status)
  /\ threads' = threads \ {th}
  /\ inflight' = inflight \ {th.id}
  /\ UNCHANGED <<jobs, leases, highwater, solutions, earned, incomes, seq,
                 active, reserve, environment>>

\* The verifier is busy, or a node call of _verify fails.
VerifyFails(th) == th.pc \in {"inspect", "send"} /\ Abandon(th)

\* The proof is classified; the parent is looked up without the lock.
Judge(th) ==
  /\ th.pc = "inspect"
  /\ LET t == jobs[th.job]
         q == Quality[th.id[2]]
         s == IF q = "invalid" THEN "invalid"
              ELSE IF chain[t.height - 1] # t.parent THEN "stale"
              ELSE IF q = "near_miss" THEN "near_miss" ELSE "verified"
     IN Move(th, [th EXCEPT !.pc = "judged", !.status = s])
  /\ UNCHANGED <<durable, active, reserve, inflight, environment>>

RecordVerification(th) ==
  /\ th.pc = "judged"
  /\ SetStatus(th.id, th.status)
  /\ Move(th, [th EXCEPT !.pc = IF th.status = "verified" /\ Quality[th.id[2]] = "block"
                                THEN "solve" ELSE "done"])
  /\ UNCHANGED <<jobs, leases, highwater, solutions, earned, incomes, seq,
                 active, reserve, inflight, environment>>

BlockOf(th) == <<"solved", jobs[th.job], th.id[2]>>
Solution(th) == [block |-> BlockOf(th), cutoff |-> receipts[th.id].seq,
                 job |-> th.job, receipt |-> th.id]

RecordSolution(th) ==
  /\ th.pc = "solve"
  /\ solutions' = IF \E s \in solutions : s.block = BlockOf(th) THEN solutions
                  ELSE solutions \cup {Solution(th)}
  /\ Move(th, [th EXCEPT !.pc = "send"])
  /\ UNCHANGED <<jobs, leases, highwater, receipts, earned, incomes, seq,
                 active, reserve, inflight, environment>>

\* node.submit: the block joins the chain when its parent is the tip; the
\* answer may be lost, and then the chain is asked for the exact hash.
SendBlock(th) ==
  /\ th.pc = "send"
  /\ LET found == BlockOf(th)
         fits == Tip = jobs[th.job].parent /\ Len(chain) < MaxHeight
     IN \E taken \in (IF fits THEN BOOLEAN ELSE {FALSE}) :
          /\ chain' = IF taken THEN Append(chain, found) ELSE chain
          /\ Move(th, [th EXCEPT !.pc = IF OnChain(found, chain') THEN "accepted" ELSE "done"])
  /\ UNCHANGED <<durable, active, reserve, inflight, foreign, crashes, cut>>

RecordEarned(th) ==
  /\ th.pc = "accepted"
  /\ earned' = IF \E e \in earned : e.block = BlockOf(th) THEN earned
               ELSE earned \cup {Solution(th)}
  /\ active' = 0
  /\ Move(th, [th EXCEPT !.pc = "done"])
  /\ UNCHANGED <<jobs, leases, highwater, receipts, solutions, incomes, seq,
                 reserve, inflight, environment>>

Finish(th) ==
  /\ th.pc = "done"
  /\ threads' = threads \ {th}
  /\ inflight' = inflight \ {th.id}
  /\ UNCHANGED <<durable, active, reserve, environment>>

VerifyStep(th) ==
  \/ Judge(th) \/ RecordVerification(th) \/ RecordSolution(th)
  \/ SendBlock(th) \/ RecordEarned(th) \/ Finish(th)

-------------------------------------------------------------------------------
(* Maintenance: reconcile_solutions and the mining half of                 *)
(* reconcile_income.                                                       *)
Unaccounted == {s \in solutions : \A e \in earned : e.block # s.block}

\* Drop the active job when the chain has left its height; resubmit the exact
\* body of a solution whose parent is the tip (refused, accepted, or accepted
\* with the answer lost); account for every solution found on the chain.
ReconcileSolutions ==
  /\ \E s \in Unaccounted \cup {<<>>} :
       LET fits == s # <<>> /\ Tip = jobs[s.job].parent /\ Len(chain) < MaxHeight
       IN \E lost \in BOOLEAN :
            /\ s # <<>> => fits
            /\ chain' = IF fits THEN Append(chain, s.block) ELSE chain
            /\ earned' = earned \cup {u \in Unaccounted : OnChain(u.block, chain')
                                                      /\ ~(lost /\ u = s)}
  /\ active' = IF earned' # earned \/ (active # 0 /\ jobs[active].height # Len(chain) + 1)
               THEN 0 ELSE active
  /\ <<earned', active', chain'>> # <<earned, active, chain>>
  /\ UNCHANGED <<jobs, leases, highwater, receipts, solutions, incomes, seq,
                 reserve, inflight, threads, foreign, crashes, cut>>

\* The variant that shares the income among what happens to be verified.
UnsettledNever(cutoff) == FALSE

Unsettled(cutoff) == \E id \in Unverified : receipts[id].seq <= cutoff

Beneficiaries(cutoff) ==
  {id \in DOMAIN receipts : receipts[id].status = "verified" /\ receipts[id].seq <= cutoff}

\* The first loop of reconcile_income: an income for each accepted block that
\* is on the chain and whose window is settled; a failing node call ends it.
Payable == {e \in earned : /\ e.block \notin DOMAIN incomes
                           /\ OnChain(e.block, chain)
                           /\ ~Unsettled(e.cutoff)}

ReconcileIncome ==
  /\ \E done \in SUBSET Payable \ {{}} :
       incomes' = [b \in {e.block : e \in done} |->
                     Beneficiaries((CHOOSE e \in done : e.block = b).cutoff)] @@ incomes
  /\ UNCHANGED <<jobs, leases, highwater, receipts, solutions, earned, seq,
                 volatile, environment>>

-------------------------------------------------------------------------------
(* Environment. *)
ForeignBlock ==
  /\ foreign < MaxForeign
  /\ foreign' = foreign + 1
  /\ \/ /\ Len(chain) < MaxHeight
        /\ chain' = Append(chain, <<"foreign", Len(chain) + 1, foreign'>>)
     \/ chain' = [chain EXCEPT ![Len(chain)] = <<"foreign", Len(chain), foreign'>>]
  /\ UNCHANGED <<durable, volatile, crashes, cut>>

\* The process dies and starts again: replay rebuilds the recorded state, and
\* every receipt whose verification was under way becomes deferred.  A thread
\* that had recorded its verification but not its solution leaves nothing that a
\* later step would take up.
Restart ==
  /\ crashes < MaxCrashes
  /\ crashes' = crashes + 1
  /\ active' = 0 /\ reserve' = <<>> /\ inflight' = {} /\ threads' = {}
  /\ cut' = cut \cup {th.id : th \in {t \in threads : t.pc = "solve"}}
  /\ receipts' = [id \in DOMAIN receipts |->
                    IF receipts[id].status = "pending"
                    THEN [receipts[id] EXCEPT !.status = "deferred"] ELSE receipts[id]]
  /\ UNCHANGED <<jobs, leases, highwater, solutions, earned, incomes, seq, chain, foreign>>

Next ==
  \/ \E a \in Account, c \in LeaseSize : Work(a, c)
  \/ \E l \in leases, n \in Nonce : Submit(l, n)
  \/ RetryDeferred
  \/ \E th \in threads : VerifyStep(th) \/ VerifyFails(th)
  \/ ReconcileSolutions \/ ReconcileIncome
  \/ ForeignBlock \/ Restart

Spec == Init /\ [][Next]_vars

-------------------------------------------------------------------------------
TypeOK ==
  /\ \A id \in DOMAIN receipts : receipts[id].status \in Waiting \cup Resolved
  /\ \A l \in leases : l.start \in Nonce /\ l.end \in 1..NonceSpace /\ l.account \in Account
  /\ active \in 0..Len(jobs)
  /\ inflight \subseteq DOMAIN receipts
  /\ Len(chain) \in 1..MaxHeight

\* Two leases of one template never share a nonce, whatever jobs, accounts,
\* cached groups and restarts lie between them (work: "Unused ranges are
\* deliberately abandoned at template changes/restart, never reused").
LeasesDisjoint ==
  \A l, m \in leases :
    (l # m /\ l.template = m.template) => (l.end <= m.start \/ m.end <= l.start)

\* One thread per proof, one slot per thread, and the unverified receipts,
\* deferred ones included, never exceed the queue's capacity.
BacklogBounded ==
  /\ Cardinality(Unverified) <= Capacity
  /\ Cardinality(threads) = Cardinality(inflight)
  /\ inflight = {th.id : th \in threads}

\* The receipts that share an income are exactly the verified receipts up to
\* its cutoff, then and ever after: no verification that finishes late, and no
\* restart, changes a window that has been paid out.
WindowFrozen == \A b \in DOMAIN incomes :
  \A e \in earned : e.block = b =>
    /\ incomes[b] = Beneficiaries(e.cutoff)
    /\ e.receipt \in incomes[b]

\* A verified block that no thread is working on is recorded as a solution, so
\* that maintenance can submit it again, in every case but one: the process was
\* stopped between the two records of _verify.  That block stays unrecorded for
\* ever, because its receipt is neither waiting nor admissible again.
FoundBlockRecorded ==
  \A id \in DOMAIN receipts :
    (receipts[id].status = "verified" /\ Quality[id[2]] = "block" /\ id \notin inflight)
      => ((\E s \in solutions : s.receipt = id) <=> id \notin cut)

\* No receipt stays unverified for ever, and every recorded solution whose block
\* stays on the chain becomes an income, whatever was lost or restarted on the way.
EverythingSettles ==
  []<>(/\ Unverified = {}
       /\ \A s \in solutions : OnChain(s.block, chain) => s.block \in DOMAIN incomes)
===============================================================================
