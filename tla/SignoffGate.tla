----------------------------- MODULE SignoffGate -----------------------------
(***************************************************************************)
(* What the pre-signoff gate promises of every run, whatever the autonomy  *)
(* level (docs/ARCHITECTURE.md section 8 and HARD_GATES in                 *)
(* orchestrator/state_machine.py): a run is verified before it is blocked  *)
(* or confirmed, only a run whose report is all green is put before a      *)
(* human, and only a run a human has confirmed is signed.                  *)
(* Module Orchestrator implements this specification.                      *)
(***************************************************************************)

VARIABLES
    phase,     \* how far the current run is
    green      \* all_green of its verification report, once verified

vars == <<phase, green>>

Phases == {"idle", "working", "verified", "confirmed", "signed", "stopped"}

Init == phase = "idle" /\ green = FALSE

Over == phase \in {"idle", "signed", "stopped"}

Start == Over /\ phase' = "working" /\ green' = FALSE

Verify == phase = "working" /\ phase' = "verified" /\ green' \in BOOLEAN

\* The human has seen a report without an open claim and confirms.
Confirm ==
    phase = "verified" /\ green /\ phase' = "confirmed" /\ UNCHANGED green

Sign == phase = "confirmed" /\ phase' = "signed" /\ UNCHANGED green

\* Blocked, declined at a gate, or failed.
Stop == ~ Over /\ phase' = "stopped" /\ UNCHANGED green

Next == Start \/ Verify \/ Confirm \/ Sign \/ Stop

Spec == Init /\ [][Next]_vars
=============================================================================
