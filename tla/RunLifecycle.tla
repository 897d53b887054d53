---------------------------- MODULE RunLifecycle ----------------------------
(* What the run engine promises about the rows of the runs table, without  *)
(* its threads, its lock and its phases: the abstract specification that   *)
(* RunEngine implements.                                                   *)
EXTENDS Integers

CONSTANTS Run, Migration, NoMigration

VARIABLES status, owner

vars == <<status, owner>>

Terminal == {"done", "failed", "cancelled"}

Init ==
  /\ status = [r \in Run |-> "absent"]
  /\ owner = [r \in Run |-> NoMigration]

\* A run is created with a fresh id, while no other run of its migration is running.
Create(r, m) ==
  /\ status[r] = "absent"
  /\ \A q \in Run : owner[q] = m => status[q] # "running"
  /\ status' = [status EXCEPT ![r] = "running"]
  /\ owner' = [owner EXCEPT ![r] = m]

\* A running run ends exactly once.
End(r, outcome) ==
  /\ status[r] = "running"
  /\ status' = [status EXCEPT ![r] = outcome]
  /\ UNCHANGED owner

\* The closing event of a run that ended may fail to be written: the run is then failed,
\* never running again.
Downgrade(r) ==
  /\ status[r] \in {"done", "cancelled"}
  /\ status' = [status EXCEPT ![r] = "failed"]
  /\ UNCHANGED owner

\* Rows disappear one by one when they have ended, or with their migration.
DeleteRun(r) ==
  /\ status[r] \in Terminal
  /\ status' = [status EXCEPT ![r] = "deleted"]
  /\ UNCHANGED owner

DeleteMigration(m) ==
  /\ status' = [r \in Run |-> IF owner[r] = m THEN "deleted" ELSE status[r]]
  /\ UNCHANGED owner

Next ==
  \/ \E r \in Run : \/ \E m \in Migration : Create(r, m)
                    \/ \E outcome \in Terminal : End(r, outcome)
                    \/ Downgrade(r) \/ DeleteRun(r)
  \/ \E m \in Migration : DeleteMigration(m)

Spec == Init /\ [][Next]_vars
=============================================================================
