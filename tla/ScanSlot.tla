------------------------------ MODULE ScanSlot ------------------------------
(***************************************************************************)
(* What the bay application promises about scans, without its handlers,    *)
(* goroutines and locks: one slot, a scan takes it, leaves one outcome,    *)
(* frees it.  Outcomes live in the process and go with it.                 *)
(***************************************************************************)
CONSTANT Scans

VARIABLES running, outcome

vars == <<running, outcome>>

\* The value of "running" while the slot is free.
NoScan == 0

Outcomes == {"unused", "pending", "failed", "done", "gone"}

Init ==
  /\ running = NoScan
  /\ outcome = [s \in Scans |-> "unused"]

Start(s) ==
  /\ running = NoScan
  /\ outcome[s] = "unused"
  /\ running' = s
  /\ outcome' = [outcome EXCEPT ![s] = "pending"]

Finish(s, o) ==
  /\ running = s
  /\ o \in {"failed", "done"}
  /\ running' = NoScan
  /\ outcome' = [outcome EXCEPT ![s] = o]

\* The process ends: nothing runs, and what was known of past scans is lost.
Exit ==
  /\ running' = NoScan
  /\ outcome' = [s \in Scans |-> IF outcome[s] = "unused" THEN "unused" ELSE "gone"]

Next ==
  \/ \E s \in Scans : Start(s) \/ \E o \in {"failed", "done"} : Finish(s, o)
  \/ Exit

Spec == Init /\ [][Next]_vars
=============================================================================
