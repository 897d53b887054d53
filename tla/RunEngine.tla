----------------------------- MODULE RunEngine ------------------------------
(***************************************************************************)
(* The background run engine (webapp/runs.py) over the runs table          *)
(* (webapp/store.py), driven by the web handlers that start, cancel and    *)
(* delete (webapp/main.py): one daemon thread per run that walks the       *)
(* phases of its kind, an engine lock around the check-then-create of      *)
(* start(), an in-memory set of cancelled runs, and the sweep of stale     *)
(* rows at boot.                                                           *)
(*                                                                         *)
(* Every store call is one step: Store serialises statements and each is   *)
(* its own transaction.  A row that is gone makes add_event and the other  *)
(* inserts raise (foreign_keys=ON) and update_run a no-op; any write may   *)
(* also fail for reasons of the disk, MaxFaults times.                     *)
(***************************************************************************)
EXTENDS Integers, Sequences

CONSTANTS
  Migration, NoMigration,
  Request,     \* handler threads of the web server
  Kinds,       \* the kinds of run an operator starts
  MaxRuns,     \* bound: rows ever created
  MaxFaults,   \* bound: store writes that fail
  MaxCrashes   \* bound: times the process dies

ASSUME NoMigrationAssumption == NoMigration \notin Migration
ASSUME RequestAssumption == "free" \notin Request
ASSUME MaxRunsAssumption == MaxRuns \in Nat
ASSUME KindsAssumption == Kinds \subseteq {"audit", "fix", "env_audit", "env_fix"}

Run == 1..MaxRuns

Phases(k) ==
  CASE k = "audit" -> <<"verify", "scope", "permissions", "extract", "compare", "config",
                        "finalize">>
    [] k \in {"fix", "env_fix"} -> <<"verify", "apply", "reaudit", "finalize">>
    [] k = "env_audit" -> <<"verify", "scope", "gather", "checks", "analysis", "finalize">>

Nothing == [mig |-> NoMigration, kind |-> "audit"]

VARIABLES
  server,      \* up, down, booting
  erased,      \* migrations whose row was deleted
  status,      \* runs.status, "absent" before the row exists and "deleted" after it
  owner, kind, \* runs.migration_id, runs.kind
  lastId,      \* sqlite_sequence of the runs table
  pc, pos,     \* the thread of each run: its next operation, the index of its phase
  step, wants, \* each handler thread: what it is in the middle of, [mig, kind] it is about
  made,        \* the run a start() has created and not launched yet
  lock,        \* RunEngine._lock: NoRequest or the holder
  cancelled,   \* RunEngine._cancelled
  asked,       \* history: running runs somebody asked to cancel
  early,       \* history: ids somebody asked to cancel before a run had them
  faults, crashes  \* bounds

rows   == <<status, owner, kind, lastId>>
thread == <<pc, pos>>
web    == <<step, wants, made, lock>>
vars   == <<server, erased, rows, thread, web, cancelled, asked, early, faults, crashes>>

NoRequest == "free"

\* cleanup and said are the two points where the status is already terminal.
Points == {"none", "loop", "enter", "stage", "finalize", "hook", "complete", "announce",
           "cancelling", "said", "failing", "fail", "cleanup"}
\* The points where a thread works on its run: the run is active.
Working == {"loop", "enter", "stage", "finalize", "hook", "complete", "cancelling"}

Init ==
  /\ server = "up" /\ erased = {}
  /\ status = [r \in Run |-> "absent"]
  /\ owner = [r \in Run |-> NoMigration]
  /\ kind = [r \in Run |-> "audit"]
  /\ lastId = 0
  /\ pc = [r \in Run |-> "none"]
  /\ pos = [r \in Run |-> 1]
  /\ step = [q \in Request |-> "idle"]
  /\ wants = [q \in Request |-> Nothing]
  /\ made = [q \in Request |-> 0]
  /\ lock = NoRequest
  /\ cancelled = {} /\ asked = {} /\ early = {}
  /\ faults = 0 /\ crashes = 0

-----------------------------------------------------------------------------
(* The web handlers.                                                       *)

\* Mutant: the guard looks at the threads of this process instead of the rows.
ActiveInMemory(m) == {r \in Run : owner[r] = m /\ pc[r] # "none"}

Active(m) == {r \in Run : owner[r] = m /\ status[r] = "running"}

Idle(q) == server = "up" /\ step[q] = "idle"

\* start(): under the lock, no run of the migration may be active.
StartCheck(q, m, k) ==
  /\ Idle(q) /\ lock = NoRequest
  /\ m \notin erased /\ lastId < MaxRuns
  /\ Active(m) = {}
  /\ lock' = q
  /\ step' = [step EXCEPT ![q] = "create"]
  /\ wants' = [wants EXCEPT ![q] = [mig |-> m, kind |-> k]]
  /\ UNCHANGED <<server, erased, rows, thread, made, cancelled, asked, early, faults, crashes>>

\* Mutant: without AUTOINCREMENT the id after the highest row is used again.
NextIdReused ==
  CHOOSE n \in 1..MaxRuns + 1 :
    \A r \in Run : status[r] \notin {"absent", "deleted"} => r < n

\* AUTOINCREMENT: the id of a deleted row is not used again.
NextId == lastId + 1

\* create_run, still under the lock: the row of the migration may be gone by now.
StartCreate(q) ==
  /\ step[q] = "create" /\ lock = q
  /\ lock' = NoRequest
  /\ wants' = [wants EXCEPT ![q] = Nothing]
  /\ \/ /\ wants[q].mig \notin erased
        /\ LET r == NextId IN
             /\ status' = [status EXCEPT ![r] = "running"]
             /\ owner' = [owner EXCEPT ![r] = wants[q].mig]
             /\ kind' = [kind EXCEPT ![r] = wants[q].kind]
             /\ pos' = [pos EXCEPT ![r] = 1]
             /\ lastId' = r
             /\ made' = [made EXCEPT ![q] = r]
             /\ asked' = asked \ {r}
        /\ step' = [step EXCEPT ![q] = "launch"]
        /\ UNCHANGED faults
     \/ /\ \/ wants[q].mig \in erased /\ UNCHANGED faults
           \/ faults < MaxFaults /\ faults' = faults + 1
        /\ step' = [step EXCEPT ![q] = "idle"]
        /\ UNCHANGED <<rows, pos, made, asked>>
  /\ UNCHANGED <<server, erased, pc, cancelled, early, crashes>>

\* The workspace directories and the thread; an OSError leaves the row without a thread.
Launch(q) ==
  /\ step[q] = "launch"
  /\ step' = [step EXCEPT ![q] = "idle"]
  /\ \/ pc' = [pc EXCEPT ![made[q]] = "loop"] /\ UNCHANGED faults
     \/ faults < MaxFaults /\ faults' = faults + 1 /\ UNCHANGED pc
  /\ made' = [made EXCEPT ![q] = 0]
  /\ UNCHANGED <<server, erased, rows, pos, wants, lock, cancelled, asked, early, crashes>>

\* What somebody asked for, told apart by whether a run had the id.
Note(r) ==
  /\ asked' = IF status[r] = "running" THEN asked \cup {r} ELSE asked
  /\ early' = IF status[r] = "absent" THEN early \cup {r} ELSE early

\* Mutants: cancel marks the row itself; cancel keeps the lock.
CancelMarksRow(r) ==
  /\ server = "up" /\ lock = NoRequest
  /\ r \notin cancelled
  /\ cancelled' = cancelled \cup {r}
  /\ status' = IF status[r] = "running" THEN [status EXCEPT ![r] = "cancelled"] ELSE status
  /\ asked' = asked \cup {r}
  /\ UNCHANGED <<early, server, erased, owner, kind, lastId, thread, web, faults, crashes>>

CancelKeepsLock(r) ==
  /\ server = "up" /\ lock = NoRequest
  /\ r \notin cancelled
  /\ cancelled' = cancelled \cup {r}
  /\ Note(r)
  /\ lock' = "cancel"
  /\ UNCHANGED <<server, erased, rows, thread, step, wants, made, faults, crashes>>

\* cancel(): the flag is set for any id, that of a run which is active, ended or gone and
\* one no run has been given yet.
Cancel(r) ==
  /\ server = "up" /\ lock = NoRequest
  /\ r \notin cancelled
  /\ cancelled' = cancelled \cup {r}
  /\ Note(r)
  /\ UNCHANGED <<server, erased, rows, thread, web, faults, crashes>>

\* delete_run refuses a run that is active.
DeleteRun(r) ==
  /\ server = "up"
  /\ status[r] \in {"done", "failed", "cancelled"}
  /\ status' = [status EXCEPT ![r] = "deleted"]
  /\ UNCHANGED <<server, erased, owner, kind, lastId, thread, web, cancelled, asked, early,
                 faults, crashes>>

\* delete_migration: the guard is one statement, the cascade another.
DeleteMigrationCheck(q, m) ==
  /\ Idle(q)
  /\ m \notin erased
  /\ Active(m) = {}
  /\ step' = [step EXCEPT ![q] = "erase"]
  /\ wants' = [wants EXCEPT ![q] = [Nothing EXCEPT !.mig = m]]
  /\ UNCHANGED <<server, erased, rows, thread, made, lock, cancelled, asked, early, faults, crashes>>

DeleteMigration(q) ==
  /\ step[q] = "erase"
  /\ step' = [step EXCEPT ![q] = "idle"]
  /\ wants' = [wants EXCEPT ![q] = Nothing]
  /\ \/ /\ erased' = erased \cup {wants[q].mig}
        /\ status' = [r \in Run |-> IF owner[r] = wants[q].mig THEN "deleted" ELSE status[r]]
        /\ UNCHANGED faults
     \/ faults < MaxFaults /\ faults' = faults + 1 /\ UNCHANGED <<erased, status>>
  /\ UNCHANGED <<server, owner, kind, lastId, thread, made, lock, cancelled, asked, early, crashes>>

-----------------------------------------------------------------------------
(* _execute, the thread of one run.                                        *)

At(r, point) == server = "up" /\ pc[r] = point
GoTo(r, point) == pc' = [pc EXCEPT ![r] = point]

Fault == faults < MaxFaults /\ faults' = faults + 1
\* An insert into a child table of the run's row.
InsertOK(r) == status[r] # "deleted" /\ UNCHANGED faults
InsertRaises(r) == (status[r] = "deleted" /\ UNCHANGED faults) \/ Fault
\* UPDATE runs ... WHERE id: without the row it changes nothing.
SetStatus(r, new) ==
  /\ status' = IF status[r] = "deleted" THEN status ELSE [status EXCEPT ![r] = new]
  /\ UNCHANGED <<owner, kind, lastId, faults>>

\* The top of the phase loop reads the cancel flag under the lock.
LoopCheck(r) ==
  /\ At(r, "loop") /\ lock = NoRequest
  /\ GoTo(r, IF r \in cancelled THEN "cancelling" ELSE "enter")
  /\ UNCHANGED <<server, erased, rows, pos, web, cancelled, asked, early, faults, crashes>>

\* Mutant: finalize does not end the phase loop.
EnterPhaseForever(r) ==
  /\ At(r, "enter")
  /\ \/ InsertOK(r) /\ GoTo(r, "stage")
     \/ InsertRaises(r) /\ GoTo(r, "failing")
  /\ UNCHANGED <<server, erased, rows, pos, web, cancelled, asked, early, crashes>>

\* update_run(phase) and the event of it.
EnterPhase(r) ==
  /\ At(r, "enter")
  /\ \/ /\ InsertOK(r)
        /\ GoTo(r, IF Phases(kind[r])[pos[r]] = "finalize" THEN "finalize" ELSE "stage")
     \/ InsertRaises(r) /\ GoTo(r, "failing")
  /\ UNCHANGED <<server, erased, rows, pos, web, cancelled, asked, early, crashes>>

\* fn(ctx) and its closing event; a stage may raise for reasons of its own.
Stage(r) ==
  /\ At(r, "stage")
  /\ \/ InsertOK(r) /\ GoTo(r, "loop") /\ pos' = [pos EXCEPT ![r] = @ + 1]
     \/ (InsertRaises(r) \/ UNCHANGED faults) /\ GoTo(r, "failing") /\ UNCHANGED pos
  /\ UNCHANGED <<server, erased, rows, web, cancelled, asked, early, crashes>>

\* Mutant: the row is done before the hook runs.
FinalizeMarksDone(r) ==
  /\ At(r, "finalize")
  /\ SetStatus(r, "done") /\ GoTo(r, "hook")
  /\ UNCHANGED <<server, erased, pos, web, cancelled, asked, early, crashes>>

\* The findings, or the fix actions, go into the store; env audits have no cleanup hook.
Finalize(r) ==
  /\ At(r, "finalize")
  /\ \/ InsertOK(r) /\ GoTo(r, IF kind[r] = "env_audit" THEN "complete" ELSE "hook")
     \/ InsertRaises(r) /\ GoTo(r, "failing")
  /\ UNCHANGED <<server, erased, rows, pos, web, cancelled, asked, early, crashes>>

\* elevation_undo, guarded: an error becomes an event, and only that event may raise.
Hook(r) ==
  /\ At(r, "hook")
  /\ \/ GoTo(r, "complete") /\ UNCHANGED faults
     \/ InsertRaises(r) /\ GoTo(r, "failing")
  /\ UNCHANGED <<server, erased, rows, pos, web, cancelled, asked, early, crashes>>

\* update_run(status="done", verdict, stats)
Complete(r) ==
  /\ At(r, "complete")
  /\ \/ SetStatus(r, "done") /\ GoTo(r, "announce")
     \/ Fault /\ GoTo(r, "failing") /\ UNCHANGED rows
  /\ UNCHANGED <<server, erased, pos, web, cancelled, asked, early, crashes>>

\* The closing event is written after the status, still inside the try.
Announce(r) ==
  /\ At(r, "announce") \/ At(r, "said")
  /\ \/ InsertOK(r) /\ GoTo(r, "none")
     \/ InsertRaises(r) /\ GoTo(r, "failing")
  /\ UNCHANGED <<server, erased, rows, pos, web, cancelled, asked, early, crashes>>

MarkCancelled(r) ==
  /\ At(r, "cancelling")
  /\ \/ SetStatus(r, "cancelled") /\ GoTo(r, "said")
     \/ Fault /\ GoTo(r, "failing") /\ UNCHANGED rows
  /\ UNCHANGED <<server, erased, pos, web, cancelled, asked, early, crashes>>

\* The except branch: two events, the status, then the cleanup.  A write that raises here
\* ends the thread.
Failing(r) ==
  /\ At(r, "failing")
  /\ \/ InsertOK(r) /\ GoTo(r, "fail")
     \/ InsertRaises(r) /\ GoTo(r, "none")
  /\ UNCHANGED <<server, erased, rows, pos, web, cancelled, asked, early, crashes>>

MarkFailed(r) ==
  /\ At(r, "fail")
  /\ \/ SetStatus(r, "failed") /\ GoTo(r, "cleanup")
     \/ Fault /\ GoTo(r, "none") /\ UNCHANGED rows
  /\ UNCHANGED <<server, erased, pos, web, cancelled, asked, early, crashes>>

Cleanup(r) ==
  /\ At(r, "cleanup")
  /\ GoTo(r, "none")
  /\ UNCHANGED <<server, erased, rows, pos, web, cancelled, asked, early, faults, crashes>>

-----------------------------------------------------------------------------
(* The process.                                                            *)

\* Threads are daemons, the flags are in memory: only the rows survive.
Crash ==
  /\ server # "down" /\ crashes < MaxCrashes
  /\ crashes' = crashes + 1
  /\ server' = "down"
  /\ pc' = [r \in Run |-> "none"]
  /\ step' = [q \in Request |-> "idle"]
  /\ made' = [q \in Request |-> 0]
  /\ lock' = NoRequest
  /\ wants' = [q \in Request |-> Nothing]
  /\ cancelled' = {}
  /\ early' = {r \in early : status[r] # "absent"}
  /\ UNCHANGED <<erased, rows, pos, asked, faults>>

Boot ==
  /\ server = "down" /\ server' = "booting"
  /\ UNCHANGED <<erased, rows, thread, web, cancelled, asked, early, faults, crashes>>

\* mark_stale_failed, one row at a time; a write that raises stops the boot.
SweepStale(r) ==
  /\ server = "booting" /\ status[r] = "running"
  /\ \/ SetStatus(r, "failed") /\ UNCHANGED server
     \/ /\ Fault /\ server' = "down"
        /\ status' \in {status, [status EXCEPT ![r] = "failed"]}
        /\ UNCHANGED <<owner, kind, lastId>>
  /\ UNCHANGED <<erased, thread, web, cancelled, asked, early, crashes>>

Serve ==
  /\ server = "booting"
  /\ \A r \in Run : status[r] # "running"
  /\ server' = "up"
  /\ UNCHANGED <<erased, rows, thread, web, cancelled, asked, early, faults, crashes>>

ThreadStep(r) ==
  \/ LoopCheck(r) \/ EnterPhase(r) \/ Stage(r) \/ Finalize(r) \/ Hook(r) \/ Complete(r)
  \/ Announce(r) \/ MarkCancelled(r) \/ Failing(r) \/ MarkFailed(r) \/ Cleanup(r)

RequestStep(q) ==
  \/ \E m \in Migration : (\E k \in Kinds : StartCheck(q, m, k)) \/ DeleteMigrationCheck(q, m)
  \/ StartCreate(q) \/ Launch(q) \/ DeleteMigration(q)

Next ==
  \/ \E q \in Request : RequestStep(q)
  \/ \E r \in Run : Cancel(r) \/ DeleteRun(r) \/ ThreadStep(r) \/ SweepStale(r)
  \/ Crash \/ Boot \/ Serve

Spec == Init /\ [][Next]_vars

\* Engine threads and handler threads are scheduled and their stages end; nothing makes an
\* operator ask for anything or somebody restart a dead process.
Fairness ==
  /\ \A r \in Run : WF_vars(ThreadStep(r)) /\ WF_vars(SweepStale(r))
  /\ \A q \in Request : WF_vars(StartCreate(q) \/ Launch(q) \/ DeleteMigration(q))
  /\ WF_vars(Serve)

FairSpec == Spec /\ Fairness
-----------------------------------------------------------------------------
(* Properties.                                                             *)

TypeOK ==
  /\ server \in {"up", "down", "booting"}
  /\ erased \subseteq Migration
  /\ status \in [Run -> {"absent", "running", "done", "failed", "cancelled", "deleted"}]
  /\ owner \in [Run -> Migration \cup {NoMigration}]
  /\ kind \in [Run -> Kinds \cup {"audit"}]
  /\ lastId \in 0..MaxRuns
  /\ pc \in [Run -> Points]
  /\ pos \in [Run -> Nat]
  /\ \A r \in Run : pos[r] <= Len(Phases(kind[r]))
  /\ step \in [Request -> {"idle", "create", "launch", "erase"}]
  /\ wants \in [Request -> [mig : Migration \cup {NoMigration}, kind : Kinds \cup {"audit"}]]
  /\ made \in [Request -> 0..MaxRuns]
  /\ lock \in Request \cup {NoRequest}
  /\ cancelled \subseteq Run /\ asked \subseteq Run /\ early \subseteq Run
  /\ faults \in Nat /\ crashes \in Nat

\* "two concurrent start() calls can't both pass the active-run guard": two threads never
\* work on one migration at the same time, whatever starts, deletions, failures and
\* restarts interleave, even when the row of the first disappeared under it.
NoParallelStages ==
  \A r, q \in Run : owner[r] = owner[q] /\ pc[r] \in Working /\ pc[q] \in Working => r = q

\* Only a run that somebody asked to cancel while it was active is ever cancelled: a flag
\* set for a run that had ended, or whose row was deleted, does not hit a later run.  The
\* exception is an id that was asked for before a run had it: cancel() keeps the flag of
\* any number it is given, until the process ends, and the run that later gets the number
\* is cancelled on its first phase.
CancelledOnlyIfAsked == \A r \in Run : status[r] = "cancelled" => r \in asked \cup early

\* The engine implements the life cycle of the rows, in every interleaving of its threads,
\* the handlers, write faults and restarts.
Lifecycle == INSTANCE RunLifecycle WITH Run <- Run, status <- status, owner <- owner
LifecycleSpec == Lifecycle!Spec

\* A run that got its thread leaves the active state, or the process died with it: no
\* thread waits for ever for the engine lock.  A store that refuses writes may leave it.
RunEnds ==
  \A r \in Run :
    pc[r] = "loop" ~> (status[r] # "running" \/ server # "up" \/ faults > 0)

\* "Safe because only one run per migration is ever active": while the hook of a run that
\* did not fail undoes the elevations of all runs of its migration, no other run of the
\* migration is active. The failure path undoes them too, after the run is marked failed;
\* there the next run may be active (cleanup).
UndoIsAlone ==
  \A r, q \in Run :
    pc[r] = "hook" /\ owner[q] = owner[r] /\ status[q] = "running" => r = q

\* "an in-flight engine thread is never left writing into deleted rows".
NoThreadOnDeletedRow == \A r \in Run : status[r] = "deleted" => pc[r] = "none"
=============================================================================
