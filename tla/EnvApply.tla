------------------------------ MODULE EnvApply ------------------------------
(***************************************************************************)
(* The live apply of an environment fix run: the stage env_fix_apply of    *)
(* webapp/env_fix_stages.py, the driver apply_env_fixes with its circuit   *)
(* breaker (auditor/envaudit/apply.py) and the thread pool map_results     *)
(* (auditor/envaudit/_pool.py), against a Jira instance that other people  *)
(* administer meanwhile.                                                   *)
(*                                                                         *)
(* A batch is a sequence of findings; one task per finding runs on a pool  *)
(* of Workers threads.  A task resolves the finding's name to one live     *)
(* object, repeats the reads that show the object unused, passes the       *)
(* breaker, sends one DELETE, reports its status to the breaker, writes a  *)
(* durable record and reads the list again.  The main thread then merges   *)
(* the verdicts in input order.                                            *)
(*                                                                         *)
(* The client walks a list by offset (paginate_start_at, 50 rows a page):  *)
(* a row that is deleted between two pages moves the rows behind it up,    *)
(* and the row at the page boundary is never shown.                        *)
(***************************************************************************)
EXTENDS Integers, Sequences, FiniteSets

CONSTANTS
  Object,      \* the objects of the Jira instance; an id is never reused
  NameOf,      \* NameOf[o]: the name the object shows in the list endpoints
  ClassOf,     \* ClassOf[o]: the list endpoint that shows it
  Builtin,     \* objects that _is_protected recognises (id <= 10000, system name)
  Stored,      \* findings stored by the source env audit: [kind |-> , name |-> ]
  Selections,  \* the selections of refs an operator may submit
  MaxTasks,    \* bound: length of a batch
  Workers,     \* apply_worker_count()
  Threshold,   \* MA_BREAKER_THRESHOLD, 0 disables the breaker
  Cap,         \* MA_MAX_DESTRUCTIVE
  MaxAdmin,    \* bound: changes made by other administrators
  MaxBatches,  \* bound: env_fix runs
  Paged,       \* the lists of this instance that take more than one request to read
  UsedAtFirst, \* the uses that may stand at first
  NoObject

ASSUME WorkersAssumption == Workers \in Nat \ {0}
ASSUME ThresholdAssumption == Threshold \in Nat
ASSUME CapAssumption == Cap \in Nat
ASSUME MaxTasksAssumption == MaxTasks \in Nat
ASSUME NoObjectAssumption == NoObject \notin Object

-----------------------------------------------------------------------------
(* The registry of kinds that are applied.                                 *)

GenericKinds == {"scheme_unused", "unused_issue_type_scheme",
                 "unused_issue_type_screen_scheme", "empty_group"}
ExpandedKinds == {"empty_screen", "screen_not_in_scheme", "workflow_unreferenced",
                  "unused_custom_field", "empty_project", "status_not_in_workflow"}

Applyable == GenericKinds \cup ExpandedKinds

\* The refs that survive the server's own filter: a stored finding of an app-tier kind.
AppFindings == {f \in Stored : f.kind \in Applyable}
SelectedFindings(refs) == SelectSeq(refs, LAMBDA ref : ref \in AppFindings)

\* What SelectSeq yields for the sequences of refs an operator submits, and their bound.
ASSUME SelectionsAssumption ==
  \A refs \in Selections : /\ SelectedFindings(refs) \in Seq(AppFindings)
                            /\ Len(SelectedFindings(refs)) <= MaxTasks

\* The list endpoint a kind resolves names against.
Endpoint(kind) ==
  CASE kind \in {"empty_screen", "screen_not_in_scheme"} -> "screens"
    [] OTHER -> kind

\* The live reads a task repeats before its DELETE, in order.
LiveReads(kind) ==
  CASE kind = "scheme_unused" -> <<>>
    [] kind \in {"unused_issue_type_scheme", "unused_issue_type_screen_scheme"} -> <<"projects">>
    [] kind = "empty_group" -> <<"members", "grants">>
    [] kind = "empty_screen" -> <<"fields">>
    [] kind = "screen_not_in_scheme" -> <<"screenschemes">>
    [] kind = "workflow_unreferenced" -> <<"workflowschemes">>
    [] kind = "unused_custom_field" -> <<"screens", "values", "filters">>
    [] kind = "empty_project" -> <<"issues">>
    [] kind = "status_not_in_workflow" -> <<"workflows", "issues">>

\* Usage that the item of the resolving list already carries.
InlineReads(kind) == IF kind = "scheme_unused" THEN {"projects"} ELSE {}

\* These kinds are re-verified by name, the others by the resolved id.
VerifiedByName == {"workflow_unreferenced", "empty_project", "status_not_in_workflow"}

\* Jira answers 303 to the DELETE of a custom field and deletes it later.
AsyncKinds == {"unused_custom_field"}

Checked(kind) == {LiveReads(kind)[i] : i \in 1..Len(LiveReads(kind))} \cup InlineReads(kind)

\* The list a live read walks.  Three of them are lists that tasks resolve names against:
\* the screens, the workflows (their statuses) and the workflow schemes.
UsageList(aspect) ==
  CASE aspect = "workflows" -> "workflow_unreferenced"
    [] aspect = "workflowschemes" -> "scheme_unused"
    [] OTHER -> aspect

\* What one request answers: /field, /statuses, the permission schemes and the counts.
SingleRequest == {"unused_custom_field", "status_not_in_workflow", "members", "grants",
                  "values", "issues"}

ASSUME PagedAssumption == Paged \cap SingleRequest = {}

\* What a page can tell of an object: that it is in use, or that it is there.
Use == Object \X UNION {Checked(kind) : kind \in Applyable}
Fact == Use \cup Object \X {"row"}

ASSUME UsedAtFirstAssumption == UsedAtFirst \subseteq Use

\* 2xx always counts as a DELETE that happened, 3xx for the expanded kinds only.
Succeeded(kind, st) == st = "2xx" \/ (kind \in ExpandedKinds /\ st = "3xx")

-----------------------------------------------------------------------------
VARIABLES
  phase,      \* idle, running, done, failed (apply raised), crashed (process died)
  batch,      \* the selected findings
  dryRun,     \* ctx["params"]["dry_run"] of the run
  next,       \* index of the next task the pool hands to a thread
  pc,         \* pc[t]: where task t is
  target,     \* target[t]: the object the name resolved to
  read,       \* read[t]: index of the next live read
  status,     \* status[t]: final status class of the DELETE
  verdict,    \* verdict[t]: what the task returned
  failures, tripped,          \* _WriteBreaker
  durable,    \* durable[t]: fix_actions rows of task t the record sink committed
  merged, closed, stillOpen,  \* the merge loop
  paging,     \* the tasks that are between two pages of a list
  seen,       \* seen[t]: what the pages have told so far of what t looks for
  ahead,      \* ahead[t]: what stood at the first page and is still to be shown
  life, used, \* the Jira instance
  killed,     \* history: the object the DELETE of task t removed
  held,       \* history: the facts that have stood since t began
  missed,     \* history: the facts that fell out between two pages of a list of t
  before,     \* history: the instance when the batch began
  quiet,      \* history: nothing failed and nobody else interfered in this batch
  admin, batches              \* bounds

engine  == <<phase, batch, dryRun, next, merged, closed, stillOpen>>
breaker == <<failures, tripped>>
jira    == <<life, used, admin>>
locals  == <<target, read, status, held>>
pages   == <<paging, seen, ahead, missed>>
vars == <<phase, batch, dryRun, next, pc, target, read, status, verdict, failures, tripped,
          durable, merged, closed, stillOpen, paging, seen, ahead, life, used, killed, held,
          missed, before, quiet, admin, batches>>

Task == 1..MaxTasks
Batch == 1..Len(batch)
Kind(t) == batch[t].kind

Statuses == {"none", "2xx", "3xx", "4xx", "5xx"}  \* "5xx": also 429 and transport (-1)
Verdicts == {"none", "closed", "would_close", "still_open", "crashed"}
Rows == {"GET", "SKIP", "WOULD-DELETE", "DELETE", "ERROR"}
Points == {"queued", "resolve", "check", "gate", "send", "record", "log", "confirm", "done"}

Running  == {t \in Task : pc[t] \notin {"queued", "done"}}
InFlight == {t \in Task : pc[t] \in {"send", "record"}}

Live == {o \in Object : life[o] \in {"live", "dying"}}
Matching(t) ==
  {o \in Live : ClassOf[o] = Endpoint(Kind(t)) /\ NameOf[o] = batch[t].name}

\* What a live read of task t is about, and what its DELETE addresses: projects go by key.
Subjects(t) == IF Kind(t) \in VerifiedByName THEN Matching(t) ELSE {target[t]}
Victims(t) == (IF Kind(t) = "empty_project" THEN Matching(t) ELSE {target[t]}) \cap Live

\* The facts that stand in an instance.
Standing(lf, us) == {o \in Object : lf[o] \in {"live", "dying"}} \X {"row"} \cup us

\* What the read that task t is at looks for, as things stand now.
Sought(t) ==
  IF pc[t] = "check" THEN {use \in used : /\ use[1] \in Subjects(t)
                                          /\ use[2] = LiveReads(Kind(t))[read[t]]}
                     ELSE Matching(t) \X {"row"}

\* The list it walks.
Walked(t) == IF pc[t] = "check" THEN UsageList(LiveReads(Kind(t))[read[t]]) ELSE Endpoint(Kind(t))

\* The usage that rows carry with them.
Carried(t, rows) ==
  {use \in used : use[2] \in InlineReads(Kind(t)) /\ <<use[1], "row">> \in rows}

\* What the read of task t may yield in the end.  A list that one request shows is read as
\* it stands.  Of a list in pages: what the pages told, what they are sure to tell still,
\* and anything that has come in since or was lost.
Answers(t) ==
  IF t \in paging
  THEN {seen[t] \cup ahead[t] \cup more \cup Carried(t, ahead[t] \cup more) :
          more \in SUBSET (Sought(t) \ seen[t])}
  ELSE {Sought(t) \cup Carried(t, Sought(t))}

-----------------------------------------------------------------------------
Init ==
  /\ phase = "idle" /\ batch = <<>> /\ dryRun = FALSE /\ next = 1
  /\ pc = [t \in Task |-> "queued"]
  /\ target = [t \in Task |-> NoObject]
  /\ read = [t \in Task |-> 1]
  /\ status = [t \in Task |-> "none"]
  /\ verdict = [t \in Task |-> "none"]
  /\ failures = 0 /\ tripped = FALSE
  /\ durable = [t \in Task |-> {}]
  /\ merged = 0 /\ closed = 0 /\ stillOpen = 0
  /\ life \in [Object -> {"unborn", "live"}]
  /\ used \in SUBSET {use \in UsedAtFirst : life[use[1]] = "live"}
  /\ paging = {}
  /\ seen = [t \in Task |-> {}] /\ ahead = [t \in Task |-> {}]
  /\ killed = [t \in Task |-> NoObject]
  /\ held = [t \in Task |-> {}] /\ missed = [t \in Task |-> {}]
  /\ before = [life |-> life, used |-> used]
  /\ quiet = TRUE /\ admin = 0 /\ batches = 0

\* Mutants: plausible bugs of the operations below, each paired with the property that
\* must find it.  None of them is part of the specification.

\* The cap compares with >= of the wrong side: one finding too many passes.
BeginCapOffByOne(refs, preview) ==
  /\ phase # "running"
  /\ batches < MaxBatches
  /\ batches' = batches + 1
  /\ batch' = SelectedFindings(refs)
  /\ dryRun' = preview
  /\ phase' = IF Len(batch') > Cap + 1 THEN "failed" ELSE "running"
  /\ next' = 1 /\ merged' = 0 /\ closed' = 0 /\ stillOpen' = 0
  /\ pc' = [t \in Task |-> "queued"]
  /\ target' = [t \in Task |-> NoObject]
  /\ read' = [t \in Task |-> 1]
  /\ status' = [t \in Task |-> "none"]
  /\ verdict' = [t \in Task |-> "none"]
  /\ failures' = 0 /\ tripped' = FALSE
  /\ durable' = [t \in Task |-> {}]
  /\ killed' = [t \in Task |-> NoObject]
  /\ held' = [t \in Task |-> {}] /\ missed' = [t \in Task |-> {}]
  /\ paging' = {} /\ seen' = [t \in Task |-> {}] /\ ahead' = [t \in Task |-> {}]
  /\ before' = [life |-> life, used |-> used]
  /\ quiet' = TRUE
  /\ UNCHANGED <<life, used, admin>>

\* env_fix_apply: a fresh run selects findings; apply_env_fixes refuses a selection above
\* the cap before any request, and otherwise starts the pool with a new breaker.
Begin(refs, preview) ==
  /\ phase # "running"
  /\ batches < MaxBatches
  /\ batches' = batches + 1
  /\ batch' = SelectedFindings(refs)
  /\ dryRun' = preview
  /\ phase' = IF Len(batch') > Cap THEN "failed" ELSE "running"
  /\ next' = 1 /\ merged' = 0 /\ closed' = 0 /\ stillOpen' = 0
  /\ pc' = [t \in Task |-> "queued"]
  /\ target' = [t \in Task |-> NoObject]
  /\ read' = [t \in Task |-> 1]
  /\ status' = [t \in Task |-> "none"]
  /\ verdict' = [t \in Task |-> "none"]
  /\ failures' = 0 /\ tripped' = FALSE
  /\ durable' = [t \in Task |-> {}]
  /\ killed' = [t \in Task |-> NoObject]
  /\ held' = [t \in Task |-> {}] /\ missed' = [t \in Task |-> {}]
  /\ paging' = {} /\ seen' = [t \in Task |-> {}] /\ ahead' = [t \in Task |-> {}]
  /\ before' = [life |-> life, used |-> used]
  /\ quiet' = TRUE
  /\ UNCHANGED <<life, used, admin>>

\* A free thread of the pool takes the next task: the executor's queue is FIFO.
Start(t) ==
  /\ phase = "running" /\ t = next /\ t \in Batch
  /\ Cardinality(Running) < Workers
  /\ next' = next + 1
  /\ pc' = [pc EXCEPT ![t] = "resolve"]
  /\ held' = [held EXCEPT ![t] = Standing(life, used)]
  /\ UNCHANGED <<phase, batch, dryRun, merged, closed, stillOpen, breaker, jira, target,
                 read, status, verdict, durable, pages, killed, before, quiet, batches>>

-----------------------------------------------------------------------------
(* One task.  A record goes through emit(): the sink commits it before the *)
(* next operation, or raises, and then the task is over with a crash.      *)

At(t, point) == phase = "running" /\ t \in Task /\ pc[t] = point

\* The task returns its verdict to the pool; its local variables are gone.
Return(t, v) ==
  /\ pc' = [pc EXCEPT ![t] = "done"]
  /\ verdict' = [verdict EXCEPT ![t] = v]
  /\ target' = [target EXCEPT ![t] = NoObject]
  /\ read' = [read EXCEPT ![t] = 1]
  /\ status' = [status EXCEPT ![t] = "none"]
  /\ held' = [held EXCEPT ![t] = {}]

RecordAndReturn(t, v, row) ==
  \/ Return(t, v) /\ durable' = [durable EXCEPT ![t] = @ \cup {row}] /\ UNCHANGED quiet
  \/ Return(t, "crashed") /\ quiet' = FALSE /\ UNCHANGED durable

GoTo(t, point) == pc' = [pc EXCEPT ![t] = point] /\ UNCHANGED <<verdict, durable, quiet>>

\* A read of task t comes to its end.
ReadEnds(t) ==
  /\ paging' = paging \ {t}
  /\ seen' = [seen EXCEPT ![t] = {}]
  /\ ahead' = [ahead EXCEPT ![t] = {}]
  /\ UNCHANGED missed

\* Mutant: a page replaces the rows of the pages before it.
ReadPageForgets(t) ==
  /\ \/ At(t, "resolve") \/ At(t, "check") \/ At(t, "confirm")
  /\ Walked(t) \in Paged
  /\ \E shown \in SUBSET (Sought(t) \ seen[t]) :
       /\ t \in paging => shown # {}
       /\ seen' = [seen EXCEPT ![t] = {}]
       /\ ahead' = [ahead EXCEPT ![t] = (IF t \in paging THEN @ ELSE Sought(t)) \ shown]
  /\ paging' = paging \cup {t}
  /\ UNCHANGED <<engine, breaker, jira, locals, pc, verdict, durable, missed, killed, before,
                 quiet, batches>>

\* One page of a list: it shows some of what the read looks for, and more pages follow.
\* After the first page, a page that shows nothing of it is no step.
ReadPage(t) ==
  /\ \/ At(t, "resolve") \/ At(t, "check") \/ At(t, "confirm")
  /\ Walked(t) \in Paged
  /\ \E shown \in SUBSET (Sought(t) \ seen[t]) :
       /\ t \in paging => shown # {}
       /\ seen' = [seen EXCEPT ![t] = @ \cup shown \cup Carried(t, shown)]
       /\ ahead' = [ahead EXCEPT ![t] = (IF t \in paging THEN @ ELSE Sought(t)) \ shown]
  /\ paging' = paging \cup {t}
  /\ UNCHANGED <<engine, breaker, jira, locals, pc, verdict, durable, missed, killed, before,
                 quiet, batches>>

\* A read of the task failed: every caller records it and treats it as "do not delete".
\* The same comes of pages that show one row twice, after a row was inserted before it.
ReadFails(t) ==
  /\ \/ At(t, "resolve") \/ At(t, "check") \/ At(t, "confirm")
  /\ Return(t, "still_open") /\ ReadEnds(t)
  /\ durable' = [durable EXCEPT ![t] = @ \cup {"GET"}]
  /\ quiet' = FALSE
  /\ UNCHANGED <<engine, breaker, jira, killed, before, batches>>

\* Mutant: nobody catches the exception and the task's result never arrives.
TaskRaisesUncaught(t) ==
  /\ \E point \in {"resolve", "check", "send", "confirm"} : At(t, point)
  /\ Return(t, "none") /\ ReadEnds(t)
  /\ quiet' = FALSE
  /\ UNCHANGED <<engine, breaker, jira, durable, killed, before, batches>>

\* An unexpected exception in a task: _task catches it and returns it as the verdict.
TaskRaises(t) ==
  /\ \E point \in {"resolve", "check", "send", "confirm"} : At(t, point)
  /\ Return(t, "crashed") /\ ReadEnds(t)
  /\ quiet' = FALSE
  /\ UNCHANGED <<engine, breaker, jira, durable, killed, before, batches>>

\* The objects of an answer.
Rowed(found) == {o \in Object : <<o, "row">> \in found}

\* Mutant: the protection of built-in objects is dropped.
ResolveUnprotected(t) ==
  /\ At(t, "resolve") /\ ReadEnds(t)
  /\ \E found \in Answers(t) :
       \/ Rowed(found) = {} /\ RecordAndReturn(t, "closed", "GET")
       \/ Cardinality(Rowed(found)) > 1 /\ RecordAndReturn(t, "still_open", "GET")
       \/ \E o \in Object :
            /\ Rowed(found) = {o}
            /\ GoTo(t, IF LiveReads(Kind(t)) = <<>> THEN "gate" ELSE "check")
            /\ target' = [target EXCEPT ![t] = o]
            /\ UNCHANGED <<read, status, held>>
  /\ UNCHANGED <<engine, breaker, jira, killed, before, batches>>

\* _resolve_*: exactly one object must bear the name; built-in ones are spared.
Resolve(t) ==
  /\ At(t, "resolve") /\ ReadEnds(t)
  /\ \E found \in Answers(t) :
       \/ Rowed(found) = {} /\ RecordAndReturn(t, "closed", "GET")
       \/ Cardinality(Rowed(found)) > 1 /\ RecordAndReturn(t, "still_open", "GET")
       \/ \E o \in Object :
            /\ Rowed(found) = {o}
            /\ LET protected == Kind(t) \in ExpandedKinds /\ o \in Builtin
                   inUse == \E aspect \in InlineReads(Kind(t)) : <<o, aspect>> \in found
               IN \/ protected /\ RecordAndReturn(t, "still_open", "SKIP")
                  \/ ~protected /\ inUse /\ RecordAndReturn(t, "still_open", "GET")
                  \/ /\ ~protected /\ ~inUse
                     /\ GoTo(t, IF LiveReads(Kind(t)) = <<>> THEN "gate" ELSE "check")
                     /\ target' = [target EXCEPT ![t] = o]
                     /\ UNCHANGED <<read, status, held>>
  /\ UNCHANGED <<engine, breaker, jira, killed, before, batches>>

\* Mutant: the last live read of the kind is skipped.
CheckSkipsLast(t) ==
  /\ At(t, "check") /\ ReadEnds(t)
  /\ \E found \in Answers(t) :
       IF read[t] < Len(LiveReads(Kind(t))) /\ found # {}
       THEN RecordAndReturn(t, "still_open", "GET")
       ELSE /\ GoTo(t, IF read[t] = Len(LiveReads(Kind(t))) THEN "gate" ELSE "check")
            /\ read' = [read EXCEPT ![t] = @ + 1]
            /\ UNCHANGED <<target, status, held>>
  /\ UNCHANGED <<engine, breaker, jira, killed, before, batches>>

\* One live read of the re-verification.
Check(t) ==
  /\ At(t, "check") /\ ReadEnds(t)
  /\ \E found \in Answers(t) :
       IF found # {}
       THEN RecordAndReturn(t, "still_open", "GET")
       ELSE /\ GoTo(t, IF read[t] = Len(LiveReads(Kind(t))) THEN "gate" ELSE "check")
            /\ read' = [read EXCEPT ![t] = @ + 1]
            /\ UNCHANGED <<target, status, held>>
  /\ UNCHANGED <<engine, breaker, jira, killed, before, batches>>

\* Mutant: the stop of a dry run is missing.
GateIgnoresDryRun(t) ==
  /\ At(t, "gate")
  /\ \/ tripped /\ RecordAndReturn(t, "still_open", "SKIP")
     \/ ~tripped /\ GoTo(t, "send") /\ UNCHANGED locals
  /\ UNCHANGED <<engine, breaker, jira, pages, killed, before, batches>>

\* breaker.should_block(), then the stop of a dry run.
Gate(t) ==
  /\ At(t, "gate")
  /\ \/ tripped /\ RecordAndReturn(t, "still_open", "SKIP")
     \/ ~tripped /\ dryRun /\ RecordAndReturn(t, "would_close", "WOULD-DELETE")
     \/ ~tripped /\ ~dryRun /\ GoTo(t, "send") /\ UNCHANGED locals
  /\ UNCHANGED <<engine, breaker, jira, pages, killed, before, batches>>

\* A fact is held only while it stands.
TrackHeld == held' = [t \in Task |-> held[t] \cap Standing(life', used')]

\* A row of list is removed, or a use moves from one row of it to another: each task that is
\* between two pages of the list may lose the row that crosses the page boundary, and with
\* it the uses that row shows.  What no longer stands is not shown any more either.
Shift(list) ==
  \E lost \in SUBSET UNION {{t} \X ahead[t] : t \in {u \in paging : Walked(u) = list}} :
    /\ \A t \in paging : pc[t] # "check" => Cardinality({row \in lost : row[1] = t}) <= 1
    /\ ahead' = [t \in Task |-> {f \in ahead[t] : <<t, f>> \notin lost /\ f \in Standing(life', used')}]
    /\ missed' = [t \in Task |-> missed[t] \cup {f \in ahead[t] : <<t, f>> \in lost}]

\* client.req(DELETE) with its retries: the final status of one logical DELETE.  A DELETE
\* that landed may still end as 404 (the answer was lost and the retry found nothing) or
\* as a server failure; a 404 also answers a DELETE of what is already gone.
Delete(t) ==
  /\ At(t, "send")
  /\ \E st \in Statuses \ {"none"} :
       /\ status' = [status EXCEPT ![t] = st]
       /\ quiet' = (quiet /\ (st = "2xx" \/ (st = "4xx" /\ Victims(t) = {})))
       /\ UNCHANGED used
       /\ \/ \E o \in Victims(t) :
               /\ st = "3xx" => Kind(t) \in AsyncKinds
               /\ life' = [life EXCEPT ![o] = IF st = "3xx" THEN "dying" ELSE "dead"]
               /\ killed' = [killed EXCEPT ![t] = o]
               /\ Shift(ClassOf[o])
          \/ st \in {"4xx", "5xx"} /\ UNCHANGED <<life, killed, ahead, missed>>
  /\ pc' = [pc EXCEPT ![t] = "record"]
  /\ TrackHeld
  /\ UNCHANGED <<engine, breaker, target, read, verdict, durable, paging, seen, before, admin,
                 batches>>

\* Mutants: the breaker trips one failure late; a success takes a failure back.
RecordStatusLate(t) ==
  /\ At(t, "record")
  /\ IF Threshold > 0 /\ status[t] = "5xx"
     THEN failures' = failures + 1 /\ tripped' = (tripped \/ failures + 1 > Threshold)
     ELSE UNCHANGED breaker
  /\ GoTo(t, "log")
  /\ UNCHANGED <<engine, jira, locals, pages, killed, before, batches>>

RecordStatusForgives(t) ==
  /\ At(t, "record")
  /\ IF Threshold > 0 /\ status[t] = "5xx"
     THEN failures' = failures + 1 /\ tripped' = (tripped \/ failures + 1 >= Threshold)
     ELSE failures' = failures - 1 /\ UNCHANGED tripped
  /\ GoTo(t, "log")
  /\ UNCHANGED <<engine, jira, locals, pages, killed, before, batches>>

\* breaker.record(st)
RecordStatus(t) ==
  /\ At(t, "record")
  /\ IF Threshold > 0 /\ status[t] = "5xx"
     THEN failures' = failures + 1 /\ tripped' = (tripped \/ failures + 1 >= Threshold)
     ELSE UNCHANGED breaker
  /\ GoTo(t, "log")
  /\ UNCHANGED <<engine, jira, locals, pages, killed, before, batches>>

\* The DELETE's own record; only a DELETE that succeeded goes on to prove its closure.
LogDelete(t) ==
  /\ At(t, "log")
  /\ \/ /\ Succeeded(Kind(t), status[t])
        /\ pc' = [pc EXCEPT ![t] = "confirm"]
        /\ durable' = [durable EXCEPT ![t] = @ \cup {"DELETE"}]
        /\ UNCHANGED <<verdict, quiet, locals>>
     \/ /\ Succeeded(Kind(t), status[t])
        /\ Return(t, "crashed") /\ quiet' = FALSE /\ UNCHANGED durable
     \/ /\ ~Succeeded(Kind(t), status[t])
        /\ RecordAndReturn(t, "still_open", "DELETE")
  /\ UNCHANGED <<engine, breaker, jira, pages, killed, before, batches>>

\* Mutant: the closure is believed without the re-read.
ConfirmBlindly(t) ==
  /\ At(t, "confirm") /\ ReadEnds(t)
  /\ Return(t, "closed") /\ UNCHANGED <<durable, quiet>>
  /\ UNCHANGED <<engine, breaker, jira, killed, before, batches>>

\* The closure re-read, by name.
Confirm(t) ==
  /\ At(t, "confirm") /\ ReadEnds(t)
  /\ \E found \in Answers(t) :
       \/ Rowed(found) = {} /\ Return(t, "closed") /\ UNCHANGED <<durable, quiet>>
       \/ Rowed(found) # {} /\ RecordAndReturn(t, "still_open", "GET")
  /\ UNCHANGED <<engine, breaker, jira, killed, before, batches>>

-----------------------------------------------------------------------------
(* The main thread, the process and the rest of the world.                 *)

PoolDrained == next > Len(batch) /\ Running = {}

\* Mutant: a crashed task is counted but gets no ERROR record.
MergeDropsError ==
  /\ phase = "running" /\ PoolDrained /\ merged < Len(batch)
  /\ LET t == merged + 1 IN
     /\ merged' = t
     /\ IF verdict[t] \in {"closed", "would_close"}
        THEN closed' = closed + 1 /\ UNCHANGED stillOpen
        ELSE stillOpen' = stillOpen + 1 /\ UNCHANGED closed
  /\ UNCHANGED <<phase, batch, dryRun, next, pc, breaker, jira, locals, pages, verdict, durable,
                 killed, before, quiet, batches>>

\* The merge loop, one result per step.  A crashed task gets an ERROR record; if the
\* sink raises there, apply_env_fixes raises and the run fails.
Merge ==
  /\ phase = "running" /\ PoolDrained /\ merged < Len(batch)
  /\ LET t == merged + 1 IN
     \/ /\ verdict[t] \in {"closed", "would_close"}
        /\ merged' = t /\ closed' = closed + 1
        /\ UNCHANGED <<phase, stillOpen, durable, quiet>>
     \/ /\ verdict[t] = "still_open"
        /\ merged' = t /\ stillOpen' = stillOpen + 1
        /\ UNCHANGED <<phase, closed, durable, quiet>>
     \/ /\ verdict[t] = "crashed"
        /\ merged' = t /\ stillOpen' = stillOpen + 1
        /\ durable' = [durable EXCEPT ![t] = @ \cup {"ERROR"}]
        /\ UNCHANGED <<phase, closed, quiet>>
     \/ /\ verdict[t] = "crashed"
        /\ phase' = "failed" /\ quiet' = FALSE
        /\ UNCHANGED <<merged, closed, stillOpen, durable>>
  /\ UNCHANGED <<batch, dryRun, next, pc, breaker, jira, locals, pages, verdict, killed, before,
                 batches>>

\* apply_env_fixes returns (closed, still_open).
Finish ==
  /\ phase = "running" /\ PoolDrained /\ merged = Len(batch)
  /\ phase' = "done"
  /\ UNCHANGED <<batch, dryRun, next, pc, merged, closed, stillOpen, breaker, jira, locals,
                 pages, verdict, durable, killed, before, quiet, batches>>

\* The process dies; a DELETE that is on the wire may still be executed.
Crash ==
  /\ phase = "running"
  /\ phase' = "crashed"
  /\ \E landing \in SUBSET {t \in Task : pc[t] = "send" /\ Victims(t) # {}} :
       /\ killed' = [t \in Task |-> IF t \in landing THEN CHOOSE o \in Victims(t) : TRUE
                                                     ELSE killed[t]]
       /\ life' = [o \in Object |-> IF \E t \in landing : killed'[t] = o
                                    THEN "dead" ELSE life[o]]
  /\ quiet' = FALSE
  /\ UNCHANGED used
  /\ TrackHeld
  /\ paging' = {} /\ seen' = [t \in Task |-> {}] /\ ahead' = [t \in Task |-> {}]
  /\ UNCHANGED <<batch, dryRun, next, pc, merged, closed, stillOpen, breaker, target, read,
                 status, verdict, durable, missed, before, admin, batches>>

\* Other administrators put an object to use, release it, create one, delete one, or change
\* other rows of a list.
AdminActs ==
  /\ admin < MaxAdmin
  /\ admin' = admin + 1
  /\ \/ \E o \in Object :
          \/ /\ life[o] = "live" /\ UNCHANGED life
             /\ \E f \in AppFindings : \E aspect \in Checked(f.kind) :
                  /\ Endpoint(f.kind) = ClassOf[o] /\ f.name = NameOf[o]
                  /\ \/ /\ <<o, aspect>> \in used /\ used' = used \ {<<o, aspect>>}
                        /\ Shift(UsageList(aspect))
                     \/ /\ <<o, aspect>> \notin used /\ used' = used \cup {<<o, aspect>>}
                        /\ UNCHANGED <<ahead, missed>>
          \/ /\ life[o] = "unborn" /\ life' = [life EXCEPT ![o] = "live"]
             /\ UNCHANGED <<used, ahead, missed>>
          \/ /\ life[o] = "live" /\ life' = [life EXCEPT ![o] = "dead"] /\ UNCHANGED used
             /\ Shift(ClassOf[o])
     \/ \E list \in Paged : UNCHANGED <<life, used>> /\ Shift(list)
  /\ quiet' = FALSE
  /\ TrackHeld
  /\ UNCHANGED <<engine, breaker, pc, target, read, status, verdict, durable, paging, seen,
                 killed, before, batches>>

\* Jira finishes a deletion it accepted with 303.
AsyncDeleteEnds ==
  /\ UNCHANGED used
  /\ \E o \in Object : /\ life[o] = "dying" /\ life' = [life EXCEPT ![o] = "dead"]
                       /\ Shift(ClassOf[o])
  /\ quiet' = FALSE
  /\ TrackHeld
  /\ UNCHANGED <<engine, breaker, pc, target, read, status, verdict, durable, paging, seen,
                 killed, before, admin, batches>>

TaskStep(t) ==
  \/ ReadPage(t) \/ Resolve(t) \/ Check(t) \/ Gate(t) \/ Delete(t) \/ RecordStatus(t) \/ LogDelete(t)
  \/ Confirm(t) \/ ReadFails(t) \/ TaskRaises(t)

Next ==
  \/ \E refs \in Selections, preview \in BOOLEAN : Begin(refs, preview)
  \/ \E t \in Task : Start(t) \/ TaskStep(t)
  \/ Merge \/ Finish \/ Crash \/ AdminActs \/ AsyncDeleteEnds

Spec == Init /\ [][Next]_vars

\* Threads are scheduled and every request ends (timeouts, six tries); nothing is assumed
\* of the operator, of other administrators, of failures or of crashes.
Fairness ==
  /\ \A t \in Task : WF_vars(Start(t)) /\ WF_vars(TaskStep(t))
  /\ WF_vars(Merge) /\ WF_vars(Finish)

FairSpec == Spec /\ Fairness
-----------------------------------------------------------------------------
(* Properties.                                                             *)

TypeOK ==
  /\ phase \in {"idle", "running", "done", "failed", "crashed"}
  /\ Len(batch) \in 0..MaxTasks /\ dryRun \in BOOLEAN
  /\ next \in 1..MaxTasks + 1
  /\ pc \in [Task -> Points]
  /\ target \in [Task -> Object \cup {NoObject}]
  /\ read \in [Task -> Nat]
  /\ status \in [Task -> Statuses]
  /\ verdict \in [Task -> Verdicts]
  /\ failures \in Nat /\ tripped \in BOOLEAN
  /\ durable \in [Task -> SUBSET Rows]
  /\ merged \in 0..MaxTasks /\ closed \in Nat /\ stillOpen \in Nat
  /\ paging \in SUBSET Task
  /\ seen \in [Task -> SUBSET Fact] /\ ahead \in [Task -> SUBSET Fact]
  /\ missed \in [Task -> SUBSET Fact]
  /\ life \in [Object -> {"unborn", "live", "dying", "dead"}] /\ used \in SUBSET Use
  /\ killed \in [Task -> Object \cup {NoObject}]
  /\ quiet \in BOOLEAN

\* The breaker's comment promises a bound of "threshold + workers-1": at most that many
\* DELETEs of a batch can end in a server-side failure, whatever the interleaving of the
\* gate, the request and breaker.record.
BreakerBound == Threshold > 0 => failures <= Threshold + Workers - 1

\* A batch removes at most MA_MAX_DESTRUCTIVE objects, a dry run none, also when the
\* process dies with requests on the wire.
BlastRadius ==
  Cardinality({t \in Task : killed[t] # NoObject}) <= IF dryRun THEN 0 ELSE Cap

\* The write-through: a DELETE that removed an object is on the wire, or about to be
\* recorded by its own thread, or has a durable row; a batch that returned has a row for
\* every one of them, also when the sink failed once or a thread crashed after its DELETE.
NoSilentDelete ==
  \A t \in Task : killed[t] # NoObject =>
    \/ pc[t] \in {"send", "record", "log"} /\ phase # "done"
    \/ durable[t] \cap {"DELETE", "ERROR"} # {}
    \/ verdict[t] = "crashed" /\ phase # "done"

\* What task t could rely on: it has stood since t began, and no list of t lost it.
Reliable(t) == held[t] \ missed[t]

\* Never delete on stale audit data: no DELETE removes an object that was in use all the time
\* since its task began (a usage the kind's reads look at), or that had one and the same
\* namesake beside it all that time, whatever other tasks and administrators do meanwhile.
\* The exception is the code's: a usage, or a row of the two, that crossed a page boundary of
\* the task's own list while a row before it was removed was never shown to the task.
NeverDeletesHeldObject ==
  [][\A t \in Task : killed'[t] \notin {killed[t], NoObject} =>
       /\ \A aspect \in Checked(Kind(t)) : <<killed'[t], aspect>> \notin Reliable(t)
       /\ \A twin \in Object \ {killed'[t]} :
            ClassOf[twin] = ClassOf[killed'[t]] /\ NameOf[twin] = NameOf[killed'[t]] =>
              ~({<<killed'[t], "row">>, <<twin, "row">>} \subseteq Reliable(t))]_killed

\* A finding reported closed is gone: no object of that name that existed when the batch
\* began is left, but for one whose row a list of the task lost between two pages.
ClosedMeansGone ==
  \A t \in Batch : verdict[t] = "closed" =>
    \A o \in Matching(t) : before.life[o] = "unborn" \/ <<o, "row">> \in missed[t]

\* What a sequential run (MA_APPLY_WORKERS=1) of the same batch would decide for task t.
InitialMatches(t) ==
  {o \in Object : /\ before.life[o] \in {"live", "dying"}
                  /\ ClassOf[o] = Endpoint(Kind(t)) /\ NameOf[o] = batch[t].name}
SparedFromStart(t) ==
  \/ Cardinality(InitialMatches(t)) > 1
  \/ \E o \in InitialMatches(t) : \/ Kind(t) \in ExpandedKinds /\ o \in Builtin
                                  \/ \E a \in Checked(Kind(t)) : <<o, a>> \in before.used
SequentialVerdict(t) ==
  IF InitialMatches(t) = {} THEN "closed"
  ELSE IF SparedFromStart(t) THEN "still_open"
  ELSE IF dryRun THEN "would_close" ELSE "closed"

\* No two findings of the batch name the same object.
Apart ==
  \A t, u \in Batch :
    Endpoint(Kind(t)) = Endpoint(Kind(u)) /\ batch[t].name = batch[u].name => t = u

\* "the emitted log and the closed/still_open tallies are identical to the sequential run
\* regardless of completion order" on a batch without failures; in a dry run, the preview
\* of exactly what a real apply would do.  The comment does not say that this needs findings
\* about different objects: a screen that is empty and in no scheme has two findings, and
\* when two threads delete it, one of them reports a closed finding as still open.  Nor does
\* it say that the DELETE of one finding may take a row of another finding's object out of
\* the pages that task is reading: the batches meant are those where no list lost a row.
SameAsSequential ==
  phase = "done" /\ quiet /\ Apart /\ (\A t \in Task : missed[t] = {}) =>
    /\ \A t \in Batch : verdict[t] = SequentialVerdict(t)
    /\ closed = Cardinality({t \in Batch : SequentialVerdict(t) # "still_open"})
    /\ stillOpen = Len(batch) - closed

\* Every batch returns, raises or dies: no task waits for another one.
BatchEnds == (phase = "running") ~> (phase # "running")
=============================================================================
