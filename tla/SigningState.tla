---------------------------- MODULE SigningState ----------------------------
(***************************************************************************)
(* The endorsement history of a validator key: EndorseAntiEquivGuard of    *)
(* include/compat/endorse_guard.h and ValidatorSigningState of             *)
(* validator_signing_state.h, as src/veld-node.cpp and                     *)
(* src/veld-validator.cpp use them.                                        *)
(*                                                                         *)
(* Both programs may run with the same key.  Each has a history of its own *)
(* beside its data, and they share one under the user's home directory,    *)
(* which the program that opened it first keeps locked.  A decision is     *)
(* <<height, hash>>; a file is the decisions whose lines are complete, the *)
(* ones among them that are on stable storage, and whether a partial line  *)
(* ends it.                                                                *)
(***************************************************************************)
EXTENDS Integers, FiniteSets

CONSTANTS
    Programs,        \* the node and the validator
    Heights, Hashes,
    MaxStarts, MaxFaults, MaxRestores

Shared == "shared"
File == Programs \cup {Shared}
Decision == Heights \X Hashes

VARIABLES
    disk,            \* [File -> [lines, synced, torn]]
    owner,           \* who holds the lock of the shared file, or Shared
    prog,            \* [Programs -> state of a program]
    signed,          \* every decision ever signed with the key
    starts, faults, restores

vars == <<disk, owner, prog, signed, starts, faults, restores>>

\* map_ of the own and of the shared guard; mem of a file is its map_.
Down == [pc |-> "down", mem |-> [f \in {"own", Shared} |-> {}], deciding |-> {}]

Init ==
    /\ disk = [f \in File |-> [lines |-> {}, synced |-> {}, torn |-> FALSE]]
    /\ owner = Shared
    /\ prog = [p \in Programs |-> Down]
    /\ signed = {} /\ starts = 0 /\ faults = 0 /\ restores = 0

\* Two different decisions for one height.
Conflicting(S) == \E d, e \in S : d[1] = e[1] /\ d[2] # e[2]

\* load refuses a partial line and contradicting lines.
Readable(f) == ~disk[f].torn /\ ~Conflicting(disk[f].lines)

\* (variant for mutation) load does not sync what it found
Loaded_Unsynced(f) == disk[f]

\* load syncs the file it opened before it reads it.
Loaded(f) == [disk[f] EXCEPT !.synced = disk[f].lines]

-----------------------------------------------------------------------------
(* Starting *)

\* EndorseAntiEquivGuard::load of the program's own history.
LoadOwn(p) ==
    /\ prog[p].pc = "down" /\ starts < MaxStarts
    /\ starts' = starts + 1
    /\ disk' = [disk EXCEPT ![p] = Loaded(p)]
    /\ prog' = [prog EXCEPT ![p].pc = IF Readable(p) THEN "loaded" ELSE "stopped",
                            ![p].mem = [@ EXCEPT !["own"] = disk[p].lines]]
    /\ UNCHANGED <<owner, signed, faults, restores>>

\* flock(LOCK_EX | LOCK_NB).
CanLock(p) == owner = Shared

\* ValidatorSigningState::Acquire_ opens the shared history.  The lock is kept
\* with the open file even when its contents are refused.
AcquireShared(p) ==
    /\ prog[p].pc = "loaded"
    /\ IF CanLock(p)
       THEN /\ owner' = p
            /\ disk' = [disk EXCEPT ![Shared] = Loaded(Shared)]
            /\ prog' = [prog EXCEPT ![p].pc = IF Readable(Shared) THEN "copying" ELSE "stopped",
                                    ![p].mem = [@ EXCEPT ![Shared] = disk[Shared].lines]]
       ELSE /\ prog' = [prog EXCEPT ![p].pc = "stopped"]
            /\ UNCHANGED <<owner, disk>>
    /\ UNCHANGED <<signed, starts, faults, restores>>

-----------------------------------------------------------------------------
(* EndorseAntiEquivGuard::record *)

FileOf(p, which) == IF which = Shared THEN Shared ELSE p

\* Continuous_: the file is as long as this process left it.
Continuous(p, which) ==
    disk[FileOf(p, which)].lines = prog[p].mem[which] /\ ~disk[FileOf(p, which)].torn

\* How an append may end: on disk, written but not synced, cut short, not begun.
Outcome == {"done", "unsynced", "torn", "undone"}

\* The file after an attempt to append d.
Appended(f, d, out) ==
    CASE out = "done" -> [lines |-> f.lines \cup {d}, synced |-> f.lines \cup {d}, torn |-> FALSE]
      [] out = "unsynced" -> [f EXCEPT !.lines = @ \cup {d}]
      [] out = "torn" -> [f EXCEPT !.torn = TRUE]
      [] out = "undone" -> f

\* record of a decision in the map: the same hash, or refused.
Agrees(m, d) == d \in m

\* record(d) in one of the two histories; then is where success leads.  A
\* failed write stops the program, or the program has died in the middle.
Record(p, which, d, then, refused, out) ==
    LET m == prog[p].mem[which]
        f == FileOf(p, which)
        decided == \E e \in m : e[1] = d[1]
    IN  IF ~Continuous(p, which)
        THEN /\ out = "undone"
             /\ prog' = [prog EXCEPT ![p].pc = "stopped"] /\ UNCHANGED <<disk, faults>>
        ELSE IF decided
        THEN /\ out = "undone"
             /\ prog' = [prog EXCEPT ![p] = IF Agrees(m, d) THEN then ELSE refused]
             /\ UNCHANGED <<disk, faults>>
        ELSE /\ out # "done" => faults < MaxFaults
             /\ faults' = IF out = "done" THEN faults ELSE faults + 1
             /\ disk' = [disk EXCEPT ![f] = Appended(@, d, out)]
             /\ prog' = [prog EXCEPT ![p] =
                    IF out = "done" THEN [then EXCEPT !.mem[which] = m \cup {d}]
                    ELSE [prog[p] EXCEPT !.pc = "stopped"]]

\* copy_identity_to: the own decisions go into the shared history one by one;
\* one that contradicts it keeps the program from signing.
CopyIdentity(p, out) ==
    LET left == prog[p].mem["own"] \ prog[p].mem[Shared]
        stopped == [prog[p] EXCEPT !.pc = "stopped"]
    IN  /\ prog[p].pc = "copying"
        /\ \/ /\ left = {} /\ out = "undone"
              /\ prog' = [prog EXCEPT ![p].pc = "ready"] /\ UNCHANGED <<disk, faults>>
           \/ \E d \in left : Record(p, Shared, d, prog[p], stopped, out)
        /\ UNCHANGED <<owner, signed, starts, restores>>

\* A block to endorse; would_equivocate looks at the own history.
Decide(p, d) ==
    /\ prog[p].pc = "ready"
    /\ ~\E e \in prog[p].mem["own"] : e[1] = d[1] /\ e[2] # d[2]
    /\ prog' = [prog EXCEPT ![p].pc = "shared", ![p].deciding = {d}]
    /\ UNCHANGED <<disk, owner, signed, starts, faults, restores>>

\* ValidatorSigningState::Record: the shared history first.
RecordShared(p, out) ==
    LET back == [prog[p] EXCEPT !.pc = "ready", !.deciding = {}] IN
    /\ prog[p].pc = "shared"
    /\ \E d \in prog[p].deciding :
           Record(p, Shared, d, [prog[p] EXCEPT !.pc = "own"], back, out)
    /\ UNCHANGED <<owner, signed, starts, restores>>

\* Then the program's own.
RecordOwn(p, out) ==
    LET back == [prog[p] EXCEPT !.pc = "ready", !.deciding = {}] IN
    /\ prog[p].pc = "own"
    /\ \E d \in prog[p].deciding :
           Record(p, "own", d, [prog[p] EXCEPT !.pc = "sign"], back, out)
    /\ UNCHANGED <<owner, signed, starts, restores>>

\* The signature leaves the program, or its lease has run out.
Sign(p) ==
    /\ prog[p].pc = "sign"
    /\ signed' \in {signed, signed \cup prog[p].deciding}
    /\ prog' = [prog EXCEPT ![p].pc = "ready", ![p].deciding = {}]
    /\ UNCHANGED <<disk, owner, starts, faults, restores>>

-----------------------------------------------------------------------------
(* What happens to programs and files *)

\* The program ends; its locks go with it.
Exit(p) ==
    /\ prog[p].pc # "down"
    /\ prog' = [prog EXCEPT ![p] = Down]
    /\ owner' = IF owner = p THEN Shared ELSE owner
    /\ UNCHANGED <<disk, signed, starts, faults, restores>>

\* The power fails: what was not synced may be gone, wholly or in part.
PowerCut ==
    /\ prog' = [p \in Programs |-> Down] /\ owner' = Shared
    /\ \E kept \in [File -> {"all", "synced", "part"}] :
           disk' = [f \in File |->
               CASE kept[f] = "synced" -> [disk[f] EXCEPT !.lines = disk[f].synced, !.torn = FALSE]
                 [] kept[f] = "part" /\ disk[f].lines # disk[f].synced ->
                        [disk[f] EXCEPT !.lines = disk[f].synced, !.torn = TRUE]
                 [] OTHER -> [disk[f] EXCEPT !.synced = disk[f].lines]]
    /\ UNCHANGED <<signed, starts, faults, restores>>

\* The operator restores a data directory from an older copy, running or not.
RestoreDatadir(p) ==
    /\ restores < MaxRestores /\ restores' = restores + 1
    /\ \E old \in SUBSET disk[p].lines :
           disk' = [disk EXCEPT ![p] = [lines |-> old, synced |-> old, torn |-> FALSE]]
    /\ UNCHANGED <<owner, prog, signed, starts, faults>>

\* The operator removes the partial line that keeps a program from starting.
RepairTorn(f) ==
    /\ disk[f].torn /\ \A p \in Programs : prog[p].pc \in {"down", "stopped"}
    /\ disk' = [disk EXCEPT ![f].torn = FALSE]
    /\ UNCHANGED <<owner, prog, signed, starts, faults, restores>>

Next ==
    \/ \E p \in Programs :
         \/ LoadOwn(p) \/ AcquireShared(p) \/ Sign(p) \/ Exit(p) \/ RestoreDatadir(p)
         \/ \E d \in Decision : Decide(p, d)
         \/ \E out \in Outcome : CopyIdentity(p, out) \/ RecordShared(p, out) \/ RecordOwn(p, out)
    \/ PowerCut
    \/ \E f \in File : RepairTorn(f)

Spec == Init /\ [][Next]_vars

-----------------------------------------------------------------------------
\* What is synced is written, and decisions are decisions.
TypeOK ==
    /\ \A f \in File : disk[f].synced \subseteq disk[f].lines /\ disk[f].lines \subseteq Decision
    /\ owner \in File /\ signed \subseteq Decision
    /\ \A p \in Programs : prog[p].deciding \subseteq Decision

\* The key never signs two blocks of one height: whichever program signs, through
\* crashes, power cuts, failed and torn writes and restored data directories.
NeverSignsTwice == ~Conflicting(signed)

\* Every decision that was ever signed is on stable storage in the shared history.
SignedIsDurable == signed \subseteq disk[Shared].synced

\* At most one program can sign at a time, and it holds the lock.
OneSigner ==
    \A p \in Programs : prog[p].pc \in {"copying", "ready", "shared", "own", "sign"} => owner = p

\* The key's endorsements: it never signs two blocks of one height, whichever
\* program signs; one program signs at a time; what it signed is on stable
\* storage (EndorseAntiEquivGuard::record, ValidatorSigningState::Acquire_).
EndorsementsSafe == TypeOK /\ NeverSignsTwice /\ SignedIsDurable /\ OneSigner
=============================================================================
