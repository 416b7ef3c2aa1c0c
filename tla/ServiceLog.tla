------------------------------ MODULE ServiceLog ------------------------------
(***************************************************************************)
(* What the pool service may rely on from its journal (pool/journal.py):   *)
(* the coordinator, the payment engine and the operator controls read a    *)
(* sequence of events, extend it at the end, and after any stop find again *)
(* at least everything they have ever been shown.                          *)
(***************************************************************************)
EXTENDS Prefixes

CONSTANTS Event,        \* what can be recorded
          BatchLimit    \* the largest group one call may append

VARIABLES up,     \* the journal is open
          view,   \* the events the consumers have applied
          seen    \* the longest view ever exposed, across every restart

absVars == <<up, view, seen>>

AbsInit == up = FALSE /\ view = <<>> /\ seen = <<>>

\* One call appends at most BatchLimit events and exposes all of them or none.
AbsAppend ==
  /\ up
  /\ Len(view') \in (Len(view) + 1)..(Len(view) + BatchLimit)
  /\ Begins(view, view')
  /\ seen' = view'
  /\ UNCHANGED up

AbsStop == up /\ ~up' /\ view' = <<>> /\ UNCHANGED seen

\* A restart may also expose events that were written and never acknowledged.
AbsOpen ==
  /\ ~up /\ up'
  /\ Begins(seen, view')
  /\ seen' = view'

AbsNext == AbsAppend \/ AbsStop \/ AbsOpen

AbsSpec == AbsInit /\ [][AbsNext]_absVars
===============================================================================
