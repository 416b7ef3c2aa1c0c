------------------------------- MODULE Prefixes -------------------------------
(***************************************************************************)
(* The one relation on sequences that logs and chains are compared by,     *)
(* apart from the modules that use it so that proofs carry little with     *)
(* them.                                                                   *)
(***************************************************************************)
EXTENDS Integers, Sequences

\* s is t up to some position.
Begins(s, t) == Len(s) <= Len(t) /\ \A i \in 1..Len(s) : s[i] = t[i]
===============================================================================
