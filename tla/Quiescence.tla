----------------------------- MODULE Quiescence -----------------------------
(***************************************************************************)
(* What draining promises to the script that asks for it (sim/drain.hh):   *)
(* once the system counts as drained, nothing is in flight, and nothing    *)
(* starts until the system is resumed, so that it can be written to a      *)
(* checkpoint or have its CPUs exchanged.                                  *)
(***************************************************************************)
CONSTANT Activity  \* whatever can be in flight

VARIABLES
    phase,    \* "Running", "Draining" or "Drained"
    inFlight  \* subset of Activity

vars == <<phase, inFlight>>

Init == phase = "Running" /\ inFlight \subseteq Activity

\* Work comes and goes, unless the system is drained.
Work ==
    /\ phase # "Drained"
    /\ inFlight' \in SUBSET Activity
    /\ UNCHANGED phase

\* A drain is asked for; it is complete when nothing is in flight.
TryDrain ==
    /\ phase # "Drained"
    /\ phase' = IF inFlight = {} THEN "Drained" ELSE "Draining"
    /\ UNCHANGED inFlight

Resume ==
    /\ phase = "Drained"
    /\ phase' = "Running"
    /\ inFlight' \in SUBSET Activity

Next == Work \/ TryDrain \/ Resume

Spec == Init /\ [][Next]_vars
=============================================================================
