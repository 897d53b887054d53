----------------------------- MODULE Elevation -----------------------------
(***************************************************************************)
(* Consent-gated role elevation (auditor/permissions.py, the elevate       *)
(* routes of webapp/main.py) together with the hook of the run engine,     *)
(* undo_migration_elevations (webapp/stages.py), that takes the grants     *)
(* back at the end of a run.                                               *)
(*                                                                         *)
(* A grant is the membership of the audited account in the administrators  *)
(* role of one project on one side.  The settings row elevation:run:side   *)
(* records which grants of a run were added by the tool.  Every request to *)
(* Atlassian and every store call about grants is one step.  Of the engine *)
(* only the life of the rows and the place of the hook in it are kept:     *)
(* RunEngine has the rest.                                                  *)
(***************************************************************************)
EXTENDS Integers

CONSTANTS
  Migration, NoMigration,
  Kinds,         \* the kinds of run an operator starts: audit, fix
  Side, Project,
  SideOf,        \* SideOf[p]: the site the blind-spot project p is on
  Elevator,      \* handler threads that serve the elevate routes
  MaxRuns,       \* bound: rows ever created
  MaxElevations, \* bound: elevate and undo requests
  MaxMishaps     \* bound: failed requests and writes, changes by others and restarts

ASSUME NoMigrationAssumption == NoMigration \notin Migration
ASSUME SideAssumption == SideOf \in [Project -> Side] /\ Side \subseteq {"source", "target"}

Run == 1..MaxRuns
NoKey == <<0, "none">>

VARIABLES
  status, owner, \* runs.status, runs.migration_id
  kind,      \* runs.kind
  thread,    \* thread[r]: where the thread of run r is
  stage,     \* stage[r]: 0, 1 the verify stage is over, 2 blind spots are found
  member,    \* projects whose administrators role holds the account
  ours,      \* history: memberships the tool added and nobody removed yet
  standing,  \* history: memberships others gave while no book of the tool named them
  keys,      \* settings rows elevation:run:side
  book,      \* <<run, project>>: the added=True grants these rows list
  op, key,   \* op[h]: next operation of the handler, on the row key[h]
  left,      \* left[h]: projects it has not dealt with
  added,     \* added[h]: grants of the elevation in progress
  undo,      \* undo[r]: what the hook does in the thread of run r
  todo,      \* todo[r]: settings keys it has not looked at
  uleft, uok,\* the grants it still removes for the current key; all removed so far
  due,       \* history: grants recorded when the hook of run r began, {} when something
             \* disturbed it since
  elevations, mishaps  \* bounds

engine   == <<status, owner, kind, thread, stage>>
site     == <<member, ours, standing>>
books    == <<keys, book>>
handlers == <<op, key, left, added>>
hooks    == <<undo, todo, uleft, uok, due>>
bounds   == <<elevations, mishaps>>
vars     == <<engine, site, books, handlers, hooks, bounds>>

Exists(r) == status[r] \notin {"absent", "deleted"}
Rows(r, ps) == {<<r, p>> : p \in ps}
\* What the row k = <<run, side>> lists.
Listed(k) == {p \in Project : SideOf[p] = k[2] /\ <<k[1], p>> \in book}
Grants(k) == Rows(k[1], Listed(k))

\* Something of the tool names p as a grant of its own.
Mentioned(p) ==
  \/ \E r \in Run : <<r, p>> \in book \/ p \in uleft[r]
  \/ \E h \in Elevator : p \in added[h] \/ (op[h] = "remove" /\ p \in left[h])

Init ==
  /\ status = [r \in Run |-> "absent"]
  /\ owner = [r \in Run |-> NoMigration]
  /\ kind = [r \in Run |-> "audit"]
  /\ thread = [r \in Run |-> "none"]
  /\ stage = [r \in Run |-> 0]
  /\ member \in SUBSET Project /\ standing = member /\ ours = {}
  /\ keys = {} /\ book = {}
  /\ op = [h \in Elevator |-> "idle"]
  /\ key = [h \in Elevator |-> NoKey]
  /\ left = [h \in Elevator |-> {}]
  /\ added = [h \in Elevator |-> {}]
  /\ undo = [r \in Run |-> "none"]
  /\ todo = [r \in Run |-> {}]
  /\ uleft = [r \in Run |-> {}]
  /\ uok = [r \in Run |-> TRUE]
  /\ due = [r \in Run |-> {}]
  /\ elevations = 0 /\ mishaps = 0

-----------------------------------------------------------------------------
(* Requests to Atlassian.                                                  *)

\* A request or a write fails, or something happens that nobody on this side wanted.
Mishap == mishaps < MaxMishaps /\ mishaps' = mishaps + 1

\* DELETE of the account from the role: 404 when it is not in it.
RemoveOK(p) ==
  /\ p \in member
  /\ member' = member \ {p} /\ ours' = ours \ {p}
  /\ UNCHANGED <<standing, mishaps>>
RemoveFails(p) ==
  \/ p \notin member /\ UNCHANGED <<site, mishaps>>
  \/ Mishap /\ UNCHANGED site
  \/ Mishap /\ member' = member \ {p} /\ ours' = ours \ {p} /\ UNCHANGED standing

-----------------------------------------------------------------------------
(* The run engine, as far as grants are concerned.                         *)

Active(m) == {r \in Run : owner[r] = m /\ status[r] = "running"}
Move(r, point) == thread' = [thread EXCEPT ![r] = point]
Become(r, new) == status' = [status EXCEPT ![r] = new]

\* start(): ids are never used again.
Start(r, m, k) ==
  /\ status[r] = "absent" /\ \A q \in Run : q < r => status[q] # "absent"
  /\ Active(m) = {}
  /\ Become(r, "running") /\ Move(r, "running")
  /\ owner' = [owner EXCEPT ![r] = m]
  /\ kind' = [kind EXCEPT ![r] = k]
  /\ UNCHANGED <<stage, site, books, handlers, hooks, bounds>>

\* The verify stage, and the permissions stage of an audit, succeed.
Advance(r) ==
  /\ thread[r] = "running" /\ stage[r] < IF kind[r] = "audit" THEN 2 ELSE 1
  /\ stage' = [stage EXCEPT ![r] = @ + 1]
  /\ UNCHANGED <<status, owner, kind, thread, site, books, handlers, hooks, bounds>>

\* finalize reaches the hook.
Finalize(r) ==
  /\ thread[r] = "running" /\ stage[r] = IF kind[r] = "audit" THEN 2 ELSE 1
  /\ Move(r, "hook")
  /\ UNCHANGED <<status, owner, kind, stage, site, books, handlers, hooks, bounds>>

\* The top of the phase loop sees the cancel flag: the thread ends without the hook.
Cancel(r) ==
  /\ thread[r] = "running"
  /\ Become(r, "cancelled") /\ Move(r, "none")
  /\ UNCHANGED <<owner, kind, stage, site, books, handlers, hooks, bounds>>

\* The except branch of _execute: the status first, then the hook.  It is also taken when
\* the row cannot be completed, or its closing event cannot be written.
Fail(r) ==
  /\ \/ thread[r] = "running" /\ UNCHANGED mishaps
     \/ thread[r] = "complete" /\ Mishap
  /\ Become(r, "failed") /\ Move(r, "cleanup")
  /\ UNCHANGED <<owner, kind, stage, site, books, handlers, hooks, elevations>>

Complete(r) ==
  /\ thread[r] = "complete"
  /\ Become(r, "done") /\ Move(r, "none")
  /\ UNCHANGED <<owner, kind, stage, site, books, handlers, hooks, bounds>>

\* delete_run leaves the settings rows of the run behind.
DeleteRun(r) ==
  /\ status[r] \in {"done", "failed", "cancelled"}
  /\ Become(r, "deleted")
  /\ UNCHANGED <<owner, kind, thread, stage, site, books, handlers, hooks, bounds>>

-----------------------------------------------------------------------------
(* The elevate routes.                                                     *)

\* settings_delete
DropRow(k) == keys' = keys \ {k} /\ book' = book \ Grants(k)

GoOn(h, point) == op' = [op EXCEPT ![h] = point]
Drop(h, p) == left' = [left EXCEPT ![h] = @ \ {p}]

\* A request of the operator about a run and a side.
Receive(h, r, s) ==
  /\ op[h] = "idle"
  /\ elevations < MaxElevations /\ elevations' = elevations + 1
  /\ Exists(r)
  /\ key' = [key EXCEPT ![h] = <<r, s>>]
  /\ due' = [q \in Run |-> {}]
  /\ UNCHANGED <<engine, site, books, added, undo, todo, uleft, uok, mishaps>>

\* elevate_apply: the blind-spot projects of this side are to be granted.
Elevate(h, r, s) ==
  /\ Receive(h, r, s)
  /\ stage[r] = 2
  /\ GoOn(h, "precheck")
  /\ left' = [left EXCEPT ![h] = {p \in Project : SideOf[p] = s}]

\* Mutant: a membership that was found is recorded as added.
PrecheckAdds(h, p) ==
  /\ op[h] = "precheck" /\ p \in left[h]
  /\ \/ /\ p \in member /\ Drop(h, p) /\ added' = [added EXCEPT ![h] = @ \cup {p}]
        /\ UNCHANGED <<op, mishaps>>
     \/ p \notin member /\ GoOn(h, "post") /\ UNCHANGED <<left, added, mishaps>>
     \/ Mishap /\ GoOn(h, "post") /\ UNCHANGED <<left, added>>
  /\ UNCHANGED <<engine, site, books, hooks, key, elevations>>

\* The pre-check of apply_elevation: an existing membership is skipped, a failed
\* pre-check is treated as absent.
Precheck(h, p) ==
  /\ op[h] = "precheck" /\ p \in left[h]
  /\ \/ p \in member /\ Drop(h, p) /\ UNCHANGED <<op, mishaps>>
     \/ p \notin member /\ GoOn(h, "post") /\ UNCHANGED <<left, mishaps>>
     \/ Mishap /\ GoOn(h, "post") /\ UNCHANGED left
  /\ UNCHANGED <<engine, site, books, hooks, key, added, elevations>>

\* The POST, never retried; Atlassian refuses to add a member twice.  A POST whose answer
\* is lost may have landed and is recorded as not added.
Post(h, p) ==
  /\ op[h] = "post" /\ p \in left[h]
  /\ \/ /\ p \notin member
        /\ member' = member \cup {p} /\ ours' = ours \cup {p}
        /\ added' = [added EXCEPT ![h] = @ \cup {p}]
        /\ UNCHANGED <<standing, mishaps>>
     \/ p \in member /\ UNCHANGED <<site, added, mishaps>>
     \/ Mishap /\ UNCHANGED <<site, added>>
     \/ /\ Mishap /\ p \notin member
        /\ member' = member \cup {p} /\ ours' = ours \cup {p}
        /\ UNCHANGED <<standing, added>>
  /\ Drop(h, p) /\ GoOn(h, "precheck")
  /\ UNCHANGED <<engine, books, hooks, key, elevations>>

\* Mutant: the grants are stored under the id of the next run.
SaveNextRun(h) ==
  /\ op[h] = "precheck" /\ left[h] = {}
  /\ GoOn(h, "idle") /\ key' = [key EXCEPT ![h] = NoKey]
  /\ added' = [added EXCEPT ![h] = {}]
  /\ keys' = keys \cup {<<key[h][1] + 1, key[h][2]>>}
  /\ book' = book \cup Rows(key[h][1] + 1, added[h])
  /\ UNCHANGED <<engine, site, hooks, left, bounds>>

\* settings_set: the row of this run and side is replaced; the write may fail.
Save(h) ==
  /\ op[h] = "precheck" /\ left[h] = {}
  /\ GoOn(h, "idle") /\ key' = [key EXCEPT ![h] = NoKey]
  /\ added' = [added EXCEPT ![h] = {}]
  /\ \/ /\ keys' = keys \cup {key[h]}
        /\ book' = (book \ Grants(key[h])) \cup Rows(key[h][1], added[h])
        /\ UNCHANGED mishaps
     \/ Mishap /\ UNCHANGED books
  /\ UNCHANGED <<engine, site, hooks, left, elevations>>

\* elevate_undo: the recorded grants of this side are removed ...
Undo(h, r, s) ==
  /\ Receive(h, r, s)
  /\ <<r, s>> \in keys
  /\ GoOn(h, "remove")
  /\ left' = [left EXCEPT ![h] = Listed(<<r, s>>)]

Remove(h, p) ==
  /\ op[h] = "remove" /\ p \in left[h]
  /\ RemoveOK(p) \/ RemoveFails(p)
  /\ Drop(h, p)
  /\ UNCHANGED <<engine, books, hooks, op, key, added, elevations>>

\* ... and the row is deleted, whatever the answers were.
Forget(h) ==
  /\ op[h] = "remove" /\ left[h] = {}
  /\ GoOn(h, "idle") /\ key' = [key EXCEPT ![h] = NoKey]
  /\ \/ DropRow(key[h]) /\ UNCHANGED mishaps
     \/ Mishap /\ UNCHANGED books
  /\ UNCHANGED <<engine, site, hooks, left, added, elevations>>

-----------------------------------------------------------------------------
(* undo_migration_elevations in the thread of run r.                       *)

Hooked(r) == thread[r] \in {"hook", "cleanup"}
Siblings(r) == {q \in Run : owner[q] = owner[r] /\ Exists(q)}

\* list_runs is ordered by id, newest first; the source side comes first.
Current(r) ==
  CHOOSE k \in todo[r] :
    \A j \in todo[r] \ {k} : k[1] > j[1] \/ (k[1] = j[1] /\ k[2] = "source")
DropKey(r) == todo' = [todo EXCEPT ![r] = @ \ {Current(r)}]

\* ctx["src"] and ctx["tgt"] are set early in the verify stage, which may have failed
\* before or after; a fix run may have no source.
MayLack(r, s) == stage[r] = 0 \/ (s = "source" /\ kind[r] = "fix")

\* The grants the hook of run r is to take back.  Two hooks at a time, or a hook and a
\* route, disturb each other.
Recorded(r) == {p \in Project : \E q \in Siblings(r) : <<q, p>> \in book}
TrackDue(r) ==
  LET hooked == {q \in Run : undo[q] # "none"}
      elevating == {h \in Elevator : op[h] # "idle"}
  IN due' = [q \in Run |-> IF q = r /\ hooked = {} /\ elevating = {} THEN Recorded(r)
                           ELSE IF q = r \/ q \in hooked THEN {} ELSE due[q]]
Disturbed(r) == due' = [due EXCEPT ![r] = {}]

\* Mutant: only the elevations of the run that ends are undone.
UndoBeginOwn(r) ==
  /\ Hooked(r) /\ undo[r] = "none"
  /\ undo' = [undo EXCEPT ![r] = "next"]
  /\ todo' = [todo EXCEPT ![r] = {r} \X Side]
  /\ TrackDue(r)
  /\ UNCHANGED <<engine, site, books, handlers, uleft, uok, bounds>>

UndoBegin(r) ==
  /\ Hooked(r) /\ undo[r] = "none"
  /\ undo' = [undo EXCEPT ![r] = "next"]
  /\ todo' = [todo EXCEPT ![r] = Siblings(r) \X Side]
  /\ TrackDue(r)
  /\ UNCHANGED <<engine, site, books, handlers, uleft, uok, bounds>>

\* A key without a row, or a side without a client, is skipped.
UndoSkip(r) ==
  /\ undo[r] = "next" /\ todo[r] # {}
  /\ DropKey(r)
  /\ \/ Current(r) \notin keys /\ UNCHANGED due
     \/ MayLack(r, Current(r)[2]) /\ Disturbed(r)
  /\ UNCHANGED <<engine, site, books, handlers, undo, uleft, uok, bounds>>

UndoRead(r) ==
  /\ undo[r] = "next" /\ todo[r] # {}
  /\ Current(r) \in keys
  /\ undo' = [undo EXCEPT ![r] = "remove"]
  /\ uleft' = [uleft EXCEPT ![r] = Listed(Current(r))]
  /\ uok' = [uok EXCEPT ![r] = TRUE]
  /\ UNCHANGED <<engine, site, books, handlers, todo, due, bounds>>

UndoRemove(r, p) ==
  /\ undo[r] = "remove" /\ p \in uleft[r]
  /\ \/ RemoveOK(p) /\ UNCHANGED <<uok, due>>
     \/ /\ RemoveFails(p)
        /\ uok' = [uok EXCEPT ![r] = FALSE]
        /\ IF p \in member THEN Disturbed(r) ELSE UNCHANGED due
  /\ uleft' = [uleft EXCEPT ![r] = @ \ {p}]
  /\ UNCHANGED <<engine, books, handlers, undo, todo, elevations>>

\* One grant could not be removed: the row stays for a later hook.
UndoKeep(r) ==
  /\ undo[r] = "remove" /\ uleft[r] = {} /\ ~uok[r]
  /\ undo' = [undo EXCEPT ![r] = "next"]
  /\ DropKey(r)
  /\ UNCHANGED <<engine, site, books, handlers, uleft, uok, due, bounds>>

\* All were removed: the row goes.  Its deletion, or the event about it, may raise.
UndoDrop(r) ==
  /\ undo[r] = "remove" /\ uleft[r] = {} /\ uok[r]
  /\ \/ /\ DropRow(Current(r))
        /\ undo' = [undo EXCEPT ![r] = "next"] /\ DropKey(r)
        /\ UNCHANGED <<mishaps, due>>
     \/ /\ Mishap
        /\ DropRow(Current(r)) \/ UNCHANGED books
        /\ undo' = [undo EXCEPT ![r] = "raised"]
        /\ todo' = [todo EXCEPT ![r] = {}]
        /\ Disturbed(r)
  /\ UNCHANGED <<engine, site, handlers, uleft, uok, elevations>>

\* The hook returns, or raises into the engine's guard, which writes an event.
UndoEnd(r) ==
  /\ \/ undo[r] = "next" /\ todo[r] = {}
     \/ undo[r] = "raised"
  /\ undo' = [undo EXCEPT ![r] = "none"]
  /\ Move(r, IF thread[r] = "hook" THEN "complete" ELSE "none")
  /\ UNCHANGED <<status, owner, kind, stage, site, books, handlers, todo, uleft, uok, due, bounds>>

-----------------------------------------------------------------------------
(* Other administrators and the process.                                   *)

AdminActs(p) ==
  /\ Mishap
  /\ \/ /\ p \notin member /\ member' = member \cup {p} /\ UNCHANGED ours
        /\ standing' = IF Mentioned(p) THEN standing ELSE standing \cup {p}
     \/ /\ p \in member /\ member' = member \ {p}
        /\ ours' = ours \ {p} /\ standing' = standing \ {p}
  /\ UNCHANGED <<engine, books, handlers, hooks, elevations>>

\* The process dies and restarts: threads are gone, running rows are swept.
Crash ==
  /\ Mishap
  /\ status' = [r \in Run |-> IF status[r] = "running" THEN "failed" ELSE status[r]]
  /\ thread' = [r \in Run |-> "none"]
  /\ op' = [h \in Elevator |-> "idle"]
  /\ key' = [h \in Elevator |-> NoKey]
  /\ left' = [h \in Elevator |-> {}]
  /\ added' = [h \in Elevator |-> {}]
  /\ undo' = [r \in Run |-> "none"]
  /\ todo' = [r \in Run |-> {}]
  /\ uleft' = [r \in Run |-> {}]
  /\ due' = [r \in Run |-> {}]
  /\ UNCHANGED <<owner, kind, stage, site, books, uok, elevations>>

EngineStep(r) ==
  \/ \E m \in Migration, k \in Kinds : Start(r, m, k)
  \/ Advance(r) \/ Finalize(r) \/ Cancel(r) \/ Fail(r) \/ Complete(r) \/ DeleteRun(r)

HandlerStep(h) ==
  \/ \E r \in Run, s \in Side : Elevate(h, r, s) \/ Undo(h, r, s)
  \/ \E p \in Project : Precheck(h, p) \/ Post(h, p) \/ Remove(h, p)
  \/ Save(h) \/ Forget(h)

HookStep(r) ==
  \/ UndoBegin(r) \/ UndoSkip(r) \/ UndoRead(r) \/ UndoKeep(r) \/ UndoDrop(r) \/ UndoEnd(r)
  \/ \E p \in Project : UndoRemove(r, p)

Next ==
  \/ \E r \in Run : EngineStep(r) \/ HookStep(r)
  \/ \E h \in Elevator : HandlerStep(h)
  \/ \E p \in Project : AdminActs(p)
  \/ Crash

Spec == Init /\ [][Next]_vars
-----------------------------------------------------------------------------
(* Properties.                                                             *)

TypeOK ==
  /\ status \in [Run -> {"absent", "running", "done", "failed", "cancelled", "deleted"}]
  /\ owner \in [Run -> Migration \cup {NoMigration}] /\ kind \in [Run -> Kinds \cup {"audit"}]
  /\ thread \in [Run -> {"none", "running", "hook", "complete", "cleanup"}]
  /\ stage \in [Run -> 0..2]
  /\ member \subseteq Project /\ ours \subseteq member /\ standing \subseteq Project
  /\ keys \subseteq Run \X Side /\ book \subseteq Run \X Project
  /\ op \in [Elevator -> {"idle", "precheck", "post", "remove"}]
  /\ key \in [Elevator -> (Run \X Side) \cup {NoKey}]
  /\ left \in [Elevator -> SUBSET Project] /\ added \in [Elevator -> SUBSET Project]
  /\ undo \in [Run -> {"none", "next", "remove", "raised"}]
  /\ todo \in [Run -> SUBSET (Run \X Side)]
  /\ uleft \in [Run -> SUBSET Project] /\ uok \in [Run -> BOOLEAN]
  /\ due \in [Run -> SUBSET Project]

\* "pre-existing memberships are pre-checked and never deleted": a membership that others
\* gave is only ever taken away by others, whatever elevations, undos of handlers and of
\* engine threads, failed requests and restarts interleave.
StandingKept == standing \subseteq member

\* "the privilege window is then closed by the time the run reports complete": when a run
\* is done, or its hook has ended, every grant that was recorded for a run of the
\* migration when the hook began has been taken back, unless a request of the hook
\* failed, a client was missing, or another hook or a route worked on grants meanwhile.
WindowClosed ==
  \A r \in Run :
    status[r] = "done" \/ undo[r] = "none" => due[r] \cap ours = {}

\* "every grant is logged so undo is deterministic": a grant the tool added and did not
\* take back is in the row of a run, or still in the hands of its handler.
GrantIsRecorded ==
  \A p \in ours :
    \/ \E r \in Run : <<r, p>> \in book
    \/ \E h \in Elevator : p \in added[h]
=============================================================================
