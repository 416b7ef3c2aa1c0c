-------------------------- MODULE FinalityJournal --------------------------
(***************************************************************************)
(* DurableFinalityJournal of include/consensus/finality_signing_journal.h  *)
(* over secure_channel_file.h: the file that keeps a validator's lock and  *)
(* last finality vote, the marker that tells a lost file from a new one,   *)
(* and the import of an older version's file.                              *)
(*                                                                         *)
(* Frames are numbered: frame n is the journal after n votes, 0 the empty  *)
(* one, Absent no file.  A write replaces the file and then syncs the      *)
(* directory; until some sync of the directory succeeds, a power cut may   *)
(* bring back what was there before.                                       *)
(***************************************************************************)
EXTENDS Integers

CONSTANTS
    Legacy,        \* the frame of the older version's file, or Absent
    MaxFrame, MaxFaults, MaxStarts

Absent == -1

VARIABLES
    journal, marker,   \* what a reader sees now
    before,            \* what a power cut may bring back: <<journal, marker>>
    pc,                \* "down", "acquired", "init", "mark", "ready", "invalid"
    frame,             \* expected_
    acknowledged,      \* the newest frame Persist or Load answered for
    gossiped,          \* the newest frame whose vote was sent
    faults, starts

vars == <<journal, marker, before, pc, frame, acknowledged, gossiped, faults, starts>>

\* A validator that has used the older version has voted under its file.
Init ==
    /\ journal = Absent /\ marker = FALSE /\ before = {}
    /\ pc = "down" /\ frame = Absent
    /\ acknowledged = Legacy /\ gossiped = Legacy
    /\ faults = 0 /\ starts = 0

-----------------------------------------------------------------------------
(* AtomicWrite and AtomicWriteNew: done and synced, visible but not synced, *)
(* or not done.  A crash in the middle leaves one of the last two.          *)

Outcome == {"done", "unsynced", "undone"}

Write(out, j, m) ==
    /\ out # "done" => faults < MaxFaults
    /\ journal' = IF out = "undone" THEN journal ELSE j
    /\ marker' = IF out = "undone" THEN marker ELSE m
    /\ before' = CASE out = "done" -> {}
                   [] out = "unsynced" -> before \cup {<<journal, marker>>}
                   [] out = "undone" -> before
    /\ faults' = IF out = "done" THEN faults ELSE faults + 1

\* Where a failed write leaves the process: Invalid_, or it died in the middle.
AfterFailure == {"invalid", "down"}

-----------------------------------------------------------------------------
(* Starting: ValidatorSigningState::Acquire, then Load *)

\* (variant for mutation) the identity's directory is not synced
AcquireIdentity_NoSync ==
    /\ pc = "down" /\ starts < MaxStarts
    /\ starts' = starts + 1 /\ pc' = "acquired"
    /\ UNCHANGED <<journal, marker, before, frame, acknowledged, gossiped, faults>>

\* The endorsement history lies in the same directory, and opening it syncs
\* that directory: what a killed process had renamed is durable from here on.
AcquireIdentity ==
    /\ pc = "down" /\ starts < MaxStarts
    /\ starts' = starts + 1 /\ pc' = "acquired"
    /\ before' = {}
    /\ UNCHANGED <<journal, marker, frame, acknowledged, gossiped, faults>>

\* Marker and journal are read.  No journal where one was initialized: refused.
LoadRead ==
    /\ pc = "acquired"
    /\ CASE journal = Absent /\ marker -> pc' = "invalid" /\ frame' = Absent
         [] journal = Absent /\ ~marker ->
                pc' = "init" /\ frame' = (IF Legacy = Absent THEN 0 ELSE Legacy)
         [] journal # Absent /\ ~marker -> pc' = "mark" /\ frame' = journal
         [] OTHER -> pc' = "ready" /\ frame' = journal
    /\ UNCHANGED <<journal, marker, before, acknowledged, gossiped, faults, starts>>

\* The first journal of this version, from the older one's or empty.
LoadInitialize(out) ==
    /\ pc = "init"
    /\ Write(out, frame, marker)
    /\ pc' \in IF out = "done" THEN {"mark"} ELSE AfterFailure
    /\ UNCHANGED <<frame, acknowledged, gossiped, starts>>

\* The marker, once there is a journal.
LoadMark(out) ==
    /\ pc = "mark"
    /\ Write(out, journal, TRUE)
    /\ pc' \in IF out = "done" THEN {"ready"} ELSE AfterFailure
    /\ UNCHANGED <<frame, acknowledged, gossiped, starts>>

-----------------------------------------------------------------------------
(* Persist, and the daemon around it *)

\* The file is still the one this process loaded or wrote.
Unchanged == journal = frame

\* Persist of the next frame.
Persist(out) ==
    /\ pc = "ready" /\ frame < MaxFrame
    /\ IF Unchanged
       THEN /\ Write(out, frame + 1, marker)
            /\ IF out = "done"
               THEN pc' = "ready" /\ frame' = frame + 1 /\ acknowledged' = frame + 1
               ELSE pc' \in AfterFailure /\ UNCHANGED <<frame, acknowledged>>
       ELSE /\ out = "undone" /\ pc' = "invalid"
            /\ UNCHANGED <<journal, marker, before, frame, acknowledged, faults>>
    /\ UNCHANGED <<gossiped, starts>>

\* FinalityDaemon sends the last vote of its journal, also one just loaded.
Gossip ==
    /\ pc = "ready" /\ frame > 0
    /\ gossiped' = IF frame > gossiped THEN frame ELSE gossiped
    /\ UNCHANGED <<journal, marker, before, pc, frame, acknowledged, faults, starts>>

-----------------------------------------------------------------------------
(* What happens to the process and its files *)

Exit ==
    /\ pc # "down"
    /\ pc' = "down" /\ frame' = Absent
    /\ UNCHANGED <<journal, marker, before, acknowledged, gossiped, faults, starts>>

PowerCut ==
    /\ \E s \in before \cup {<<journal, marker>>} : journal' = s[1] /\ marker' = s[2]
    /\ before' = {} /\ pc' = "down" /\ frame' = Absent
    /\ UNCHANGED <<acknowledged, gossiped, faults, starts>>

\* The journal file is lost; the marker beside it is not.
LoseJournal ==
    /\ journal # Absent /\ faults < MaxFaults
    /\ journal' = Absent /\ before' = {} /\ faults' = faults + 1
    /\ UNCHANGED <<marker, pc, frame, acknowledged, gossiped, starts>>

Next ==
    \/ AcquireIdentity \/ LoadRead \/ Gossip \/ Exit \/ PowerCut \/ LoseJournal
    \/ \E out \in Outcome : LoadInitialize(out) \/ LoadMark(out) \/ Persist(out)

Spec == Init /\ [][Next]_vars

-----------------------------------------------------------------------------
\* Frames are in range and the process is at one of its places.
TypeOK ==
    /\ {journal, frame, acknowledged, gossiped} \subseteq Absent..MaxFrame
    /\ marker \in BOOLEAN
    /\ pc \in {"down", "acquired", "init", "mark", "ready", "invalid"}

\* A validator that may vote knows every frame Persist ever answered for, and
\* the frame of the older version: after crashes, power cuts, failed writes and
\* a lost file it has all of its history or does not start.
HistoryComplete == pc = "ready" => frame >= acknowledged

\* The frame Load would find in s.
Recovered(s) == IF s[1] = Absent /\ ~s[2] THEN Legacy ELSE s[1]

\* A vote is sent only when the frame that holds it is on stable storage: no
\* power cut brings back a journal without it, not even after a restart that
\* found a frame whose writer had died before its sync.
GossipedIsDurable == \A s \in before : Recovered(s) >= gossiped

\* The file of a validator's votes: whoever may vote knows every frame that was
\* ever answered for, and a vote is sent only when its frame is on stable storage
\* (DurableFinalityJournal::Load and Persist).
VoteFileSound == TypeOK /\ HistoryComplete /\ GossipedIsDurable
=============================================================================
