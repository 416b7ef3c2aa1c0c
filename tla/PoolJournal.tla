------------------------------ MODULE PoolJournal ------------------------------
(***************************************************************************)
(* pool/journal.py: the append-first journal of the mining pool.  Three    *)
(* things are on disk: the log events.jsonl, the SQLite index, and the     *)
(* rollback anchor, which lives outside the service directory.  An event   *)
(* is a fresh number; since every line carries the digest of the one       *)
(* before it, the digest at a position determines the whole prefix, so     *)
(* the anchor {seq, digest} is the prefix it names.                        *)
(* The environment kills the process at any step, cuts the power (which    *)
(* loses what was not fsynced), and restores older service directories     *)
(* under the surviving anchor.                                             *)
(***************************************************************************)
EXTENDS Prefixes

CONSTANTS MaxEvents,     \* bound: events ever created
          MaxBatch,      \* append_many accepts at most this many entries
          MaxFaults      \* bound: how often each kind of fault happens

VARIABLES present,  \* events.jsonl exists
          log,      \* its complete lines
          torn,     \* it ends in a line without a newline
          synced,   \* how many of its lines have been fsynced
          index,    \* the events committed in index.sqlite
          anchor,   \* the prefix the rollback anchor names
          pc,       \* where the process is
          mem,      \* self.sequence and self.digest: the prefix served
          seen,     \* history: the longest prefix ever served
          created,  \* history: events created so far
          faults    \* how often each fault has happened

disk == <<present, log, torn, synced, index, anchor>>
vars == <<disk, pc, mem, seen, created, faults>>

NoAnchor == <<0>>   \* no event has number 0
Faults == {"io", "kill", "power", "directory", "index"}
Running == {"open", "written", "fsynced", "anchored"}
Pc == Running \cup {"down", "opening", "replayed", "closed"}

Init ==
  /\ present = FALSE /\ log = <<>> /\ torn = FALSE /\ synced = 0 /\ index = <<>>
  /\ anchor = NoAnchor
  /\ pc = "down" /\ mem = <<>> /\ seen = <<>> /\ created = 0
  /\ faults = [f \in Faults |-> 0]

-------------------------------------------------------------------------------
(* _open: take the lock, find or create the log.  A log without an anchor  *)
(* is refused; the file is created before the first anchor exists.         *)
OpenLog ==
  /\ pc = "down"
  /\ present => anchor # NoAnchor
  /\ present' = TRUE
  /\ pc' = "opening"
  /\ UNCHANGED <<log, torn, synced, index, anchor, mem, seen, created, faults>>

\* marker == {'seq': 0, 'digest': ZERO} when the anchor does not exist
Marker == IF anchor = NoAnchor THEN <<>> ELSE anchor

\* Every line is complete and chained, the marker's position carries the
\* marker's digest, cached rows agree with the log and none lies beyond it.
Acceptable ==
  /\ ~torn
  /\ Begins(Marker, log)
  /\ Begins(index, log)

\* Replay indexes what it reads and commits; a refusal closes the journal.
Replay ==
  /\ pc = "opening"
  /\ IF Acceptable
     THEN index' = log /\ mem' = log /\ pc' = "replayed"
     ELSE UNCHANGED <<index, mem>> /\ pc' = "down"
  /\ UNCHANGED <<present, log, torn, synced, anchor, seen, created, faults>>

\* The last step of _open: only now is the journal available to consumers.
AnchorReplay ==
  /\ pc = "replayed"
  /\ anchor' = mem
  /\ seen' = mem
  /\ pc' = "open"
  /\ UNCHANGED <<present, log, torn, synced, index, mem, created, faults>>

-------------------------------------------------------------------------------
(* append_many: write every line, fsync, replace the anchor, index and     *)
(* commit, and only then move self.sequence and return.                    *)
Fault(f) ==
  /\ faults[f] < MaxFaults[f]
  /\ faults' = [faults EXCEPT ![f] = @ + 1]

Batch(n) == [i \in 1..n |-> created + i]

\* The variant that moves self.sequence before anything is durable.
WriteLinesServed ==
  /\ pc = "open"
  /\ \E n \in 1..MaxBatch :
       /\ created + n <= MaxEvents
       /\ log' = log \o Batch(n)
       /\ created' = created + n
  /\ mem' = log'
  /\ pc' = "written"
  /\ UNCHANGED <<present, torn, synced, index, anchor, seen, faults>>

WriteLines ==
  /\ pc = "open"
  /\ \E n \in 1..MaxBatch :
       /\ created + n <= MaxEvents
       /\ log' = log \o Batch(n)
       /\ created' = created + n
  /\ pc' = "written"
  /\ UNCHANGED <<present, torn, synced, index, anchor, mem, seen, faults>>

\* write() returned less than the batch: the process is poisoned.
PartialWrite ==
  /\ pc = "open"
  /\ \E n \in 1..MaxBatch :
       /\ created + n <= MaxEvents
       /\ \E k \in 0..(n - 1) : log' = log \o SubSeq(Batch(n), 1, k)
       /\ created' = created + n
  /\ torn' = TRUE
  /\ pc' = "closed"
  /\ Fault("io")
  /\ UNCHANGED <<present, synced, index, anchor, mem, seen>>

Fsync ==
  /\ pc = "written"
  /\ synced' = Len(log)
  /\ pc' = "fsynced"
  /\ UNCHANGED <<present, log, torn, index, anchor, mem, seen, created, faults>>

\* The variant that writes the anchor before the log is on disk.
WriteAnchorEarly ==
  /\ pc \in {"written", "fsynced"}
  /\ anchor' = log
  /\ pc' = "anchored"
  /\ UNCHANGED <<present, log, torn, synced, index, mem, seen, created, faults>>

WriteAnchor ==
  /\ pc = "fsynced"
  /\ anchor' = log
  /\ pc' = "anchored"
  /\ UNCHANGED <<present, log, torn, synced, index, mem, seen, created, faults>>

CommitIndex ==
  /\ pc = "anchored"
  /\ index' = log
  /\ mem' = log
  /\ seen' = log
  /\ pc' = "open"
  /\ UNCHANGED <<present, log, torn, synced, anchor, created, faults>>

\* Any exception inside append_many closes the journal; nothing was returned.
AppendFails ==
  /\ pc \in {"written", "fsynced", "anchored"}
  /\ pc' = "closed"
  /\ Fault("io")
  /\ UNCHANGED <<disk, mem, seen, created>>

\* close(): the service shuts down, or is restarted after being poisoned.
Close ==
  /\ pc \in {"open", "closed"}
  /\ pc' = "down"
  /\ UNCHANGED <<disk, mem, seen, created, faults>>

-------------------------------------------------------------------------------
(* The environment. *)
Kill ==
  /\ pc # "down"
  /\ Fault("kill")
  /\ pc' = "down"
  /\ UNCHANGED <<disk, mem, seen, created>>

\* Lines that were not fsynced survive up to any point, even inside a line.
PowerCut ==
  /\ Fault("power")
  /\ \E k \in synced..Len(log) :
       /\ log' = SubSeq(log, 1, k)
       /\ synced' = k
       /\ torn' \in IF k < Len(log) \/ torn THEN BOOLEAN ELSE {FALSE}
  /\ pc' = "down"
  /\ UNCHANGED <<present, index, anchor, mem, seen, created>>

\* The service directory is replaced by an older backup of itself.
RestoreDirectory ==
  /\ pc = "down" /\ present
  /\ Fault("directory")
  /\ \E k \in 0..Len(seen) :
       /\ log' = SubSeq(seen, 1, k)
       /\ index' = log'
       /\ synced' = k
  /\ torn' = FALSE
  /\ UNCHANGED <<present, anchor, pc, mem, seen, created>>

\* Only the derived index is replaced by an older one.
RestoreIndex ==
  /\ pc = "down" /\ present
  /\ Fault("index")
  /\ \E k \in 0..Len(index) : index' = SubSeq(index, 1, k)
  /\ UNCHANGED <<present, log, torn, synced, anchor, pc, mem, seen, created>>

Next ==
  \/ OpenLog \/ Replay \/ AnchorReplay
  \/ WriteLines \/ PartialWrite \/ Fsync \/ WriteAnchor \/ CommitIndex
  \/ AppendFails \/ Close
  \/ Kill \/ PowerCut \/ RestoreDirectory \/ RestoreIndex

Spec == Init /\ [][Next]_vars

-------------------------------------------------------------------------------
\* Type invariant of the three files, the process and the history.
TypeOK ==
  /\ present \in BOOLEAN /\ torn \in BOOLEAN
  /\ \A s \in {log, index, mem, seen, Marker} :
       \A i \in 1..Len(s) : s[i] \in 1..MaxEvents
  /\ synced \in 0..Len(log)
  /\ pc \in Pc
  /\ created \in 0..MaxEvents
  /\ faults \in [Faults -> Nat]

\* Whatever combination of kills, power losses, poisoned appends and restored
\* backups went before, a journal that has been replayed or is being served
\* holds every event that any consumer was ever shown, at the same position
\* (pool/journal.py: "a backup which predates either is refused").
NoRollback == pc \in Running \cup {"replayed"} => Begins(seen, log)

\* Killed processes, failed appends and a lost SQLite index never strand the
\* journal, and neither do power losses: without a torn line and without a
\* restored directory the next start is accepted.  What this leaves out is a
\* power loss after a kill or a failed append: _open anchors lines that
\* nobody has fsynced yet, and refuses to start once they are gone; and a kill
\* during the very first start, after the log was created and before it was
\* anchored, which the next start refuses ("surviving rollback anchor required").
Recoverable ==
  (/\ pc = "down" /\ anchor # NoAnchor /\ ~torn
   /\ faults["directory"] = 0
   /\ faults["power"] = 0 \/ (faults["kill"] = 0 /\ faults["io"] = 0)) => Acceptable

\* A journal that was anchored once and was then only killed, or only lost power,
\* opens again, and never serves less than it has acknowledged (Journal._open,
\* append_many).
JournalSound == TypeOK /\ Recoverable /\ NoRollback

\* The journal implements the contract its consumers are written against.
Contract == INSTANCE ServiceLog WITH
  Event <- 1..MaxEvents, BatchLimit <- MaxBatch,
  up <- pc \in Running,
  view <- IF pc \in Running THEN mem ELSE <<>>,
  seen <- seen
ImplementsServiceLog == Contract!AbsSpec
===============================================================================
