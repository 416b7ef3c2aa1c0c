------------------------------ MODULE PoolOperator ------------------------------
(***************************************************************************)
(* pool/operator.py and the locks around it.  Four locks: "O" of the       *)
(* operator controls, "P" of the coordinator, "Y" of the payments and "I"  *)
(* of the pool identity.  Each thread runs one task at a time; a task is   *)
(* the sequence of lock operations and effects of its code, so every       *)
(* interleaving of the maintenance thread, of workers and of operator      *)
(* requests is explored.  Settings and requests are in the work journal;   *)
(* the audit and the fault flag are rebuilt from it by a restart.          *)
(***************************************************************************)
EXTENDS Integers, Sequences, FiniteSets, FiniteSetsExt

CONSTANTS Client,      \* operator connections
          Worker,      \* gateway connections
          RequestId,   \* request identities
          QueueLimit,  \* pending reconciliations (8)
          MaxEvents, MaxRestarts \* bounds

Maintainer == "maintenance"
Thread == Client \cup Worker \cup {Maintainer}
Lock == {"O", "P", "Y", "I"}
Free == "free"
Content == {"pause", "resume", "reconcile"}
Request == [id : RequestId, content : Content, revision : 0..MaxEvents]
NoRequest == <<>>

VARIABLES owner,   \* lock -> thread
          task,    \* thread -> what it runs, "idle" when nothing
          at,      \* thread -> index of its next step
          asked,   \* client -> the request it sent
          journal, \* operator events, durable
          paused, revision, audit, faulted, \* volatile view of the journal
          acked,   \* requests answered with success
          restarts

view == <<paused, revision, audit, faulted>>
threads == <<owner, task, at, asked>>
vars == <<threads, journal, view, acked, restarts>>

-------------------------------------------------------------------------------
(* The code of each task. *)
Take(l) == <<"take", l>>
Drop(l) == <<"drop", l>>
Effect(e) == <<"do", e>>

\* The variant in which the identity is maintained without the operator's lock.
IdentityTaskUnserialized == <<Effect("gate"), Take("I"), Take("P"), Drop("P"), Effect("sign"), Drop("I")>>

\* run("comining", maintain)
IdentityTask == <<Take("O"), Effect("gate"), Take("I"), Take("P"), Drop("P"), Effect("sign"), Drop("I"), Drop("O")>>

\* run("payments", payments): sign, reconcile
PayTask == <<Take("O"), Effect("gate"), Take("P"), Take("Y"), Effect("sign"), Drop("Y"), Drop("P"), Take("Y"), Drop("Y"), Drop("O")>>

\* observe_payments
ObserveTask == <<Take("Y"), Drop("Y")>>

\* Operator.reconcile
ReconcileTask == <<Take("O"), Take("P"), Take("Y"), Drop("Y"), Effect("complete"), Drop("P"), Drop("O")>>

\* account and health of the coordinator
WorkTask == <<Take("P"), Take("Y"), Drop("Y"), Drop("P")>>

SnapshotTask == <<Take("O"), Take("P"), Take("Y"), Drop("Y"), Drop("P"), Drop("O")>>

\* execute, with the locks of the preflight
ExecuteTask == <<Take("O"), Take("P"), Effect("check"), Take("Y"), Drop("Y"), Take("I"), Drop("I"), Effect("record"), Drop("P"), Drop("O")>>

Program(name) ==
  CASE name = "identity" -> IdentityTask
    [] name = "pay" -> PayTask
    [] name = "observe" -> ObserveTask
    [] name = "reconcile" -> ReconcileTask
    [] name = "work" -> WorkTask
    [] name = "snapshot" -> SnapshotTask
    [] name = "execute" -> ExecuteTask

Busy(t) == task[t] # "idle"
Step(t) == Program(task[t])[at[t]]

\* A task that ends gives back every lock it holds.
Leave(t) ==
  /\ owner' = [l \in Lock |-> IF owner[l] = t THEN Free ELSE owner[l]]
  /\ task' = [task EXCEPT ![t] = "idle"]
  /\ at' = [at EXCEPT ![t] = 1]
  /\ asked' = [c \in Client |-> IF c = t THEN NoRequest ELSE asked[c]]

Advance(t) ==
  IF at[t] = Len(Program(task[t])) THEN Leave(t)
  ELSE at' = [at EXCEPT ![t] = @ + 1] /\ UNCHANGED <<owner, task, asked>>

-------------------------------------------------------------------------------
(* The view replayed from a journal. *)
Settings == {"pause", "resume"}
Events(id, j) == {n \in 1..Len(j) : j[n].id = id}
Recorded(id, j) == \E n \in Events(id, j) : j[n].kind = "request"
Finished(id, j) == \E n \in Events(id, j) : j[n].kind = "result"
SettingEvents(j) == {n \in 1..Len(j) : j[n].kind = "request" /\ j[n].content \in Settings}

PausedBy(j) ==
  LET s == SettingEvents(j)
  IN s = {} \/ j[CHOOSE n \in s : \A k \in s : k <= n].content = "pause"

AuditOf(j) ==
  [id \in {i \in RequestId : Recorded(i, j)} |->
     LET n == CHOOSE k \in Events(id, j) : j[k].kind = "request"
     IN [content |-> j[n].content, seen |-> j[n].seen,
         status |-> IF j[n].content \in Settings THEN "applied"
                    ELSE IF Finished(id, j) THEN "done" ELSE "pending"]]

Replayed(j) == /\ paused' = PausedBy(j) /\ audit' = AuditOf(j)
               /\ revision' = Cardinality(SettingEvents(j))

Init ==
  /\ owner = [l \in Lock |-> Free]
  /\ task = [t \in Thread |-> "idle"] /\ at = [t \in Thread |-> 1]
  /\ asked = [c \in Client |-> NoRequest]
  /\ journal = <<>> /\ paused = TRUE /\ revision = 0 /\ audit = <<>> /\ faulted = FALSE
  /\ acked = {} /\ restarts = 0

-------------------------------------------------------------------------------
(* Starting a task. *)
Begin(t, name) ==
  /\ ~Busy(t)
  /\ task' = [task EXCEPT ![t] = name]
  /\ UNCHANGED <<owner, at, journal, view, acked, restarts>>

\* maintain_once: which payment task it runs depends on the setting read
\* without the lock; the gate inside reads it again.
Maintain ==
  /\ UNCHANGED asked
  /\ \/ Begin(Maintainer, "identity")
     \/ Begin(Maintainer, IF paused THEN "observe" ELSE "pay")
     \/ Begin(Maintainer, "reconcile")

Serve(w) == Begin(w, "work") /\ UNCHANGED asked

\* An operator sends a request, new or repeated, or asks for a snapshot.
Send(c) ==
  \/ Begin(c, "snapshot") /\ UNCHANGED asked
  \/ /\ \E r \in Request : r.revision <= revision /\ asked' = [asked EXCEPT ![c] = r]
     /\ Begin(c, "execute")

-------------------------------------------------------------------------------
(* Lock steps. *)
TakeLock(t) ==
  /\ Busy(t) /\ Step(t)[1] = "take"
  /\ LET l == Step(t)[2]
     IN /\ owner[l] = Free
        /\ owner' = [owner EXCEPT ![l] = t]
  /\ at' = [at EXCEPT ![t] = @ + 1]
  /\ UNCHANGED <<task, asked, journal, view, acked, restarts>>

\* transaction waits two seconds for "O" and then answers that it is busy.
GiveUp(c) ==
  /\ Busy(c) /\ Step(c) = Take("O") /\ owner["O"] # Free
  /\ Leave(c)
  /\ UNCHANGED <<journal, view, acked, restarts>>

DropLock(t) ==
  /\ Busy(t) /\ Step(t)[1] = "drop"
  /\ IF at[t] = Len(Program(task[t])) THEN Leave(t)
     ELSE /\ owner' = [owner EXCEPT ![Step(t)[2]] = Free]
          /\ at' = [at EXCEPT ![t] = @ + 1]
          /\ UNCHANGED <<task, asked>>
  /\ UNCHANGED <<journal, view, acked, restarts>>

\* A call made by a task raises: its locks are released on the way out.
Raise(t) ==
  /\ Busy(t) /\ at[t] > 1
  /\ Leave(t)
  /\ UNCHANGED <<journal, view, acked, restarts>>

-------------------------------------------------------------------------------
(* Effects. *)
Doing(t, e) == Busy(t) /\ Step(t) = Effect(e)

\* run: refuse after a fault, do nothing while paused.  payments_paused and
\* comining_paused are one setting here.
Gate(t) ==
  /\ Doing(t, "gate")
  /\ IF faulted \/ paused THEN Leave(t) ELSE Advance(t)
  /\ UNCHANGED <<journal, view, acked, restarts>>

SignStep(t) == Doing(t, "sign") /\ Advance(t) /\ UNCHANGED <<journal, view, acked, restarts>>

Prior(c) == asked[c].id \in DOMAIN audit

\* The variant that recognises a request by its identity alone.
SameContentAssumed(c) == TRUE

SameContent(c) == audit[asked[c].id].content = asked[c].content /\ audit[asked[c].id].seen = asked[c].revision

Pending == {i \in DOMAIN audit : audit[i].status = "pending"}

Refused(c) ==
  \/ asked[c].revision # revision
  \/ asked[c].content = "reconcile" /\ Cardinality(Pending) >= QueueLimit

\* execute, up to the preflight: a request seen before is answered from the
\* audit, a stale revision and a full queue are refused.
Check(c) ==
  /\ Doing(c, "check")
  /\ acked' = IF ~faulted /\ Prior(c) /\ SameContent(c) THEN acked \cup {asked[c]} ELSE acked
  /\ IF faulted \/ Prior(c) \/ Refused(c) THEN Leave(c) ELSE Advance(c)
  /\ UNCHANGED <<journal, view, restarts>>

\* record: append and apply; a failed append leaves the line in the journal or
\* not, closes the journal, and stops every later request and signature.
RecordEvent(e) ==
  \/ /\ ~faulted
     /\ journal' = Append(journal, e)
     /\ Replayed(journal') /\ UNCHANGED faulted
  \/ /\ journal' \in {journal} \cup (IF faulted THEN {} ELSE {Append(journal, e)})
     /\ faulted' = TRUE /\ UNCHANGED <<paused, revision, audit>>

RecordRequest(c) ==
  /\ Doing(c, "record") /\ Len(journal) < MaxEvents
  /\ RecordEvent([kind |-> "request", id |-> asked[c].id, content |-> asked[c].content, seen |-> asked[c].revision])
  /\ IF faulted' THEN Leave(c) /\ UNCHANGED acked
     ELSE Advance(c) /\ acked' = acked \cup {asked[c]}
  /\ UNCHANGED restarts

\* reconcile: the oldest pending request, completed or failed, with no
\* signature and no broadcast.
Complete ==
  /\ Doing(Maintainer, "complete") /\ Len(journal) < MaxEvents
  /\ IF Pending = {} THEN Leave(Maintainer) /\ UNCHANGED <<journal, view>>
     ELSE /\ \E i \in Pending :
               /\ \A o \in Pending : Min(Events(i, journal)) <= Min(Events(o, journal))
               /\ RecordEvent([kind |-> "result", id |-> i, content |-> "reconcile", seen |-> 0])
          /\ IF faulted' THEN Leave(Maintainer) ELSE Advance(Maintainer)
  /\ UNCHANGED <<acked, restarts>>

Restart ==
  /\ restarts < MaxRestarts
  /\ restarts' = restarts + 1
  /\ owner' = [l \in Lock |-> Free]
  /\ task' = [t \in Thread |-> "idle"] /\ at' = [t \in Thread |-> 1]
  /\ asked' = [c \in Client |-> NoRequest]
  /\ Replayed(journal) /\ faulted' = FALSE
  /\ UNCHANGED <<journal, acked>>

Next ==
  \/ Maintain \/ Complete \/ Restart
  \/ \E w \in Worker : Serve(w)
  \/ \E c \in Client : Send(c) \/ GiveUp(c)
  \/ \E t \in Thread : TakeLock(t) \/ DropLock(t) \/ Gate(t) \/ SignStep(t) \/ Raise(t)
  \/ \E c \in Client : Check(c) \/ RecordRequest(c)

Spec == Init /\ [][Next]_vars

-------------------------------------------------------------------------------
TypeOK ==
  /\ owner \in [Lock -> Thread \cup {Free}]
  /\ \A t \in Thread : Busy(t) => at[t] \in 1..Len(Program(task[t]))
  /\ asked \in [Client -> Request \cup {NoRequest}]
  /\ paused \in BOOLEAN /\ faulted \in BOOLEAN /\ revision \in 0..Len(journal)
  /\ Cardinality(Pending) <= QueueLimit

\* No set of threads waits for locks held within the set: the identity takes
\* "I" before "P" and the preflight "P" before "I", and only the operator's
\* lock around both keeps them apart.
Wants(t, l) == Busy(t) /\ Step(t) = Take(l)
NoDeadlock ==
  \A S \in SUBSET Thread \ {{}} :
    \E t \in S : \A l \in Lock : Wants(t, l) => owner[l] \notin S

\* No signature is made while payments are paused or after the operator
\* journal failed: "A successful pause response waits for any in-flight
\* signature to finish".
PauseObeyed == \A t \in Thread : SignStep(t) => ~paused /\ ~faulted

\* A request is applied at most once, whatever is repeated, reordered, failed
\* or restarted.
AppliedOnce ==
  \A m, n \in 1..Len(journal) :
    (journal[m].id = journal[n].id /\ journal[m].kind = journal[n].kind) => m = n

\* A request answered with success is in the journal with the content it was
\* sent with, so a restart cannot undo it.
AckedIsDurable ==
  \A r \in acked : \E n \in 1..Len(journal) :
    /\ journal[n].kind = "request" /\ journal[n].id = r.id
    /\ journal[n].content = r.content /\ journal[n].seen = r.revision

\* Settings are applied on the revision their sender saw: two operators that
\* act on the same view cannot both succeed.
RevisionsExclusive ==
  \A m, n \in SettingEvents(journal) : journal[m].seen = journal[n].seen => m = n
===============================================================================
