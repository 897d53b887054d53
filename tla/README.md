# A formal model of atlassian-migration-auditor

The auditor compares the two sides of an Atlassian migration, reports what was lost, and
repairs part of it. It also audits one environment for unused configuration and can
delete what nothing uses, on a live instance. Two questions run through the model. Of the
parts that change things (the two live applies, the fix runs, the grants, the engine that
runs everything in the background): what may they never do, whatever interleaves or fails?
Of the parts that report (the audit of a migration, of its configuration, of one
environment): can a failed read turn a defect into a clean report, or something intact
into a defect? The code is the reference for every definition; `PROJECT.json` names, for
each, the lines it stands for.

## 1. The system

| component | state | operations | interacts with |
| --- | --- | --- | --- |
| Run engine, `webapp/runs.py` | `_lock`, `_cancelled`, one daemon thread per run, the `runs` and `events` rows | `start`, `cancel`, `_execute` (phase loop, three finalizers, failure path), `mark_stale_failed` | routes call it; it calls the stages and the elevation hook, and writes through the store |
| Store, `webapp/store.py` | one SQLite file, one lock | one transaction per method; `active_run`, `create_run`, `update_run`, `delete_run`, `delete_migration`, settings rows, `append_fix_action` | everybody |
| Routes, `webapp/main.py`, `remediate.py`, `env_fix_routes.py`, `clone_routes.py` | none of their own | start, cancel and delete runs, elevate and undo, pages, the event stream | synchronous handlers on a thread pool: any two run at once |
| Live apply, `envaudit/apply.py`, `_pool.py`, `webapp/env_fix_stages.py` | circuit breaker, results of the pool, fix actions | cap, fan-out, resolve, re-verify, DELETE, record, merge | HTTP client, store |
| Role elevation, `auditor/permissions.py` and its callers | rows `elevation:<run>:<side>`, memberships in Jira | apply, undo by the operator, undo by the engine's hook | routes, engine |
| HTTP client, `auditor/client.py`, `webapp/oauth.py` | tokens of a connection | `req` with its retry rule, refresh, paginators | every component that talks to Atlassian |
| Migration audit, `webapp/stages.py`, `auditor/extract.py`, `compare.py`, `findings.py`, `aggregate.py` | run context, extract files in the workspace of the run | verify, scope, permissions, extract, compare, config, finalize | engine; a later run may reuse the files |
| Configuration audit, `auditor/config_audit.py` | lists per area and side | read, narrow to the selected projects, compare | a stage of the migration audit |
| Migration fix, `webapp/fix_stages.py`, `auditor/remediation/` | plan, in-memory log, captured payloads and values | plan, apply, closure, verdict | engine; its input is what an audit captured |
| Environment audit, `envaudit/gather.py`, `checks.py`, `fixes.py`, `analysis.py` and the `confluence_` versions | gathered lists, findings | gather, checks, narrative | engine; its findings are the input of the live applies |
| Confluence apply, `envaudit/confluence_apply.py`, `confluence/client.py` | circuit breaker, results of the pool | cap, fan-out, resolve, archive or delete, confirm | HTTP client, store |
| User-access cloning, `auditor/cloneaccess.py`, `webapp/clone_runner.py` | `clone_runs` rows | resolve, groups, roles, report | routes, HTTP client |
| Reports, exports, AI narrative, connectors, configuration | none that changes | rendering, look-ups | |

What is hard here, and hard to test:

- Handlers, engine threads and pool threads interleave. The engine takes a lock around
  the check and the creation of a run, other check-then-act pairs have none.
- The process may die at any step; only rows survive, and a sweep at boot repairs them.
- Requests are lost, retried and answered late. A DELETE is sent up to six times, a POST
  once; a deletion may be answered before it is done.
- Other administrators change the same instance between a read and the act it justifies.
- One step of several fails: a write of the store, one of many grants, a hook.
- Hundreds of reads feed one report. Each may fail, also on a later page, and what is left
  looks like a smaller instance.
- Files outlive the run that wrote them, and another run trusts them.

What makes each component correct: the live applies remove nothing that is in use, no more
than the cap, record what they removed, stop when the instance is down and report the
truth; the engine runs one run of a migration at a time and ends every run; an elevation
is taken back when the run ends, and touches no membership the tool did not add; a fix run
creates nothing twice and calls only that clean which is; an audit hides no defect and
invents none, except where it says that it could not look.
The hazards, at their lines, are in `PROJECT.json`.

## 2. Modules

| module | models | proofs |
| --- | --- | --- |
| `EnvApply` | live apply of environment fixes, Jira | `EnvApplyProofs` |
| `ConfluenceApply` | live apply of environment fixes, Confluence Data Center | `ConfluenceApplyProofs` |
| `RunLifecycle` | abstract: what the engine promises about the rows | |
| `RunEngine` | the engine, its handlers and the process; implements `RunLifecycle` | `RunEngineProofs` |
| `Elevation` | grants, their records, operator and hook, over an abstracted engine | `ElevationProofs` |
| `FixRun` | capture, plan, application, closure and verdict of migration fixes | `FixRunProofs` |
| `Dictionaries` | a dictionary updated with another one | |
| `AuditPipeline` | what the audits below share: stages that survive failed reads, findings, verdict | |
| `JiraAudit`, `ConfluenceAudit` | the areas one environment is read by, and the rules on them | |
| `FixRegistry` | the table of fixes: what may be done about each kind of finding | |
| `EnvAudit` | composes the three above into the audit of one environment | `EnvAuditProofs` |
| `ConfigAudit` | configuration of the source against that of the target, over `AuditPipeline` | `ConfigAuditProofs` |
| `Comparison` | pure operators: comparison of two extracts, verdict, fidelity | |
| `MigrationAudit` | the stages of the audit of a migration, over `Comparison` | `MigrationAuditProofs` |
| `MC...` | small instances for TLC | |

Operators whose comment begins with "Mutant" are plausible bugs of the definition after
them. No specification uses them; each shows that a property notices the bug.

### EnvApply

One task per finding of a batch; `pc[t]` is the request or store call task `t` does next.

| action | code |
| --- | --- |
| `Begin` | `env_fix_apply` selects the stored app-tier findings, `apply_env_fixes` counts them against the cap |
| `Start` | `map_results`: a free thread takes the next finding in input order |
| `ReadPage` | `paginate_start_at` (`client.py:289`): one page of 50 rows, by offset, of a list that more follow; `Answers` is what the whole walk may yield, `Shift` what a removal between two pages does to it |
| `Resolve` | name to one live object: absent, ambiguous, protected and in-use answers end the task |
| `Check`, `ReadFails` | one re-verification read, of one or more pages, in the order of the kind; a failed read ends the task |
| `Gate` | dry run, then the breaker |
| `Delete` | `BaseClient.req` with retries; the final status may hide a DELETE that landed |
| `RecordStatus` | `_WriteBreaker.record` |
| `LogDelete` | `emit` with the record sink, before anything else happens |
| `Confirm` | the second look-up of the expanded kinds |
| `TaskRaises` | any exception in a task, which becomes its verdict |
| `Merge`, `Finish` | verdicts in input order, crash records |
| `Crash`, `AdminActs`, `AsyncDeleteEnds` | the process, other administrators, Jira's own task |

The instance is `life` (unborn, live, dying, dead) and `used` (object, aspect: where the use
shows). A use, and the row of an object, are the facts a list can tell. A task in `paging` is
between two pages: `seen[t]` is what the pages told so far of what it looks for, `ahead[t]`
what stood at the first page and is still to be shown. When a row of that list is removed
(by another task, an administrator or Jira's own task) the rows behind it move up, and one
row ahead, or the uses it shows, may never be shown: it falls into `missed[t]`. Facts that
came in meanwhile may be shown or not. A page may show any part of the facts, so the model
has no page size; rows that no property tells apart are not in it, and `Shift` is also taken
for those. Lists that one request answers whole are in `SingleRequest`. An insertion before
the offset shows a row twice; what looks for one row then sees two and stops (`ReadFails`).
`held[t]` are the facts that have stood since `t` began. Names may be shared, so an object is
not its name. The cap counts findings and the model counts
objects, the breaker counts answers and the model counts DELETEs in flight.

### RunEngine and RunLifecycle

A step is one store call, one lock region or one stage. A row may be absent, in one of
the four states of the code, or deleted; ids come from AUTOINCREMENT. `pc[r]` is the
place of the thread in `_execute`: loop, enter, stage, finalize, hook, complete,
announce, and the cancelled and failing branches. Every write may fail, `MaxFaults`
times. An insert for a row that is gone raises (foreign keys are on), an update of it
does nothing; both follow from SQLite and matter in the deletion race. A stage returns or
raises; what stages compute is outside this module. `StartCheck` and `StartCreate` are two
steps because the store calls are, and the lock is what keeps them together. The cancel
route accepts any id, and so does `Cancel`, up to `MaxRuns`: the flag of a run that ended or
whose row is gone, and of an id no run has yet, stays in memory until the process ends.
`asked` and `early` are histories: who was asked for while active, and which ids before a
run had them.

`RunLifecycle` has the status and owner of rows only: a run is created when no other run
of its migration runs, ends once, may be downgraded from done or cancelled to failed
(the closing event is written after the status, within the same `try`), and disappears
after its end or with its migration. `RunEngine!LifecycleSpec` is that specification over
the engine's own `status` and `owner`.

### Elevation

`op[h]` is a handler between two requests, `undo[r]` the hook between two, `book` the
added=True rows of the settings rows, `member` the truth in Jira. `Receive` is the common
beginning of the two routes; `Elevate`, `Precheck`, `Post`, `Save` are `elevate_apply`,
`Undo`, `Remove`, `Forget` are `elevate_undo`, and the `Undo...` actions with an engine
thread as their parameter are `undo_migration_elevations`. Assumed of Atlassian: a second
POST of a member is refused, a DELETE of a non-member is answered 404.
`ours` and `standing` are histories: memberships the tool added, and memberships others
gave while nothing of the tool named them. A membership another administrator gives while
the book already lists the same project is in neither, since the tool cannot tell it from
its own. The engine is cut down to the life of the rows and the place of the hook, which
`RunEngine` has in detail; the two modules share the definition of that place, before
done on success and after failed on failure.

### FixRun

`pc` is the place of the one thread; `copies[o]` is how many objects of an area have a
name on the target, so that a second creation shows; `namesakes` are the fields whose name a
system field of the target has.

| action | code |
| --- | --- |
| `CaptureSource` | `stage_config` and `stage_capture_values` of the audit: what of each finding could be read of the source |
| `Start`, `Verify` | a fix run over an audit; credentials of the target |
| `LoadSourceId`, `ReadFindings` | two store calls of `fix_apply`, and `build_plan`, with the stable sort by object and tier |
| `Precheck` | `_exists`: a failed list counts as absent; any field of the name will do (`Sees`) |
| `CreateObject`, `CreateField`, `CreateContext`, `CreateOptions` | the POSTs of the create tier, each answered, refused, failed or lost |
| `AddOptionsResolve`, `ReadContexts`, `AddOptions` | options on a field that exists |
| `Wire` | the wire tier |
| `PopulateBegin`, `PutValue`, `SkipValue`, `PopulateEnd` | values of issues, cap and breaker |
| `ApplyEnd`, `Recheck`, `RecheckEnd` | closure per finding |
| `Persist`, `Conclude` | `_finalize_fix`: rows, then the verdict ladder |
| `Fail`, `Cancel`, `Crash`, `AdminActs`, `DeleteSource` | mishaps |

### AuditPipeline, JiraAudit, ConfluenceAudit, EnvAudit

The instance (`site`) never changes; what varies is which reads fail. A stage `Stage(at,
next, reads, Rec)` chooses a set of failed reads and writes what the code's stage writes
into the snapshot then: some areas are marked in error, some merely come out smaller.
`ideal`, a history variable, is the snapshot without failures. Every `Gather...` action is
one stage of `gather.py` or `confluence_gather.py`, in the order of the code, caps
included; every `...Rules` operator is one block of checks; `RunChecks` attaches the
registry entry, `Analyse` gives the verdict with any AI grade or none. Thresholds are the
constant `Limit`, names are pairs of a base and what a migration or user made of it, and
the rules on one list are one definition. `SitesAssumption` says what the products promise
of an instance and the code relies on: lists are lists, a scheme's projects are known for
every scheme listed, a key names one Confluence space, only grants to groups name groups
(`confluence/client.py` collects names of group subjects alone), and a response that leaves
restricted pages out says that there are more.

### ConfigAudit

The same pipeline over two instances. `GatherLists` reads the simple areas, `GatherScopes`
and `GatherScreens` walk from each selected project to the names it uses, with one read
per project, side and depth; `GatherFields`, `GatherContexts` are custom fields and their
options, `GatherTabs` the fields of common screens, `GatherProjects` service desks,
components and versions. `Compare` narrows both sides by the union of what they use and
reports. A paginated list that fails later keeps the rows so far and an error of its side.
A mapping endpoint is read without pagination (`MappingPage`). `SitesAssumption`: lists are
lists, names of a project's objects are pairs like all names, and what a scheme refers to
exists, since Jira does not let it be deleted.

### ConfluenceApply

| action | code |
| --- | --- |
| `Begin` | identity guard and cap of `apply_confluence_fixes`, before any request |
| `Start` | `map_results` |
| `ReadPage`, `ReadFails` | `paginate_offset` of a list that other tasks and people shrink; a later failure returns the rows so far with an error nobody looks at when there are rows |
| `Resolve`, `Members`, `CountPages` | what the rows mean for the finding |
| `Gate`, `Write`, `Record` | breaker, the PUT or DELETE with its retries, the record |
| `Confirm` | closure by reading again |
| `Raise`, `Merge`, `OthersAct` | failing task, merge, other administrators |

`settled` and `torn` are histories: tasks whose object was gone or archived while they
ran, and tasks that read a list in part. `taken` says whether what a task wrote to had
been inhabited all along. A list shows the names of its kind in the fixed order `Order`;
`Shown` are the places that are shown, `Offset` turns a place into the offset a page starts
at, so that the rows behind a removed one move up.

### Comparison and MigrationAudit

An issue is reduced to what `compare_project` compares: the fields of `SPECS`, a
fingerprint of the body, comments, files, custom values. Findings are a set of records;
counts of findings are cardinalities. The fidelity is kept as a number of issues instead
of a percentage, since rounding is not what could be wrong.

| action | code |
| --- | --- |
| `Start` | `RunEngine.start`: a new workspace, or that of the run that is reused |
| `Scope` | `match_projects` and the selection |
| `Permissions` | `detect_blind_spots` on Cloud; the project list and the counts may be unread |
| `OpenProject` | the partition of a project's sides into reuse and fetch |
| `ReadMeta`, `ReadPage`, `Commit` | `extract_project` of one side; the two sides interleave |
| `CloseProject` | the gate on the main thread |
| `CompareAll`, `Configure`, `Finalize` | comparison, outcome of the configuration audit, verdict and fidelity |
| `Fails` | a stage raises, a cancellation, the end of the process; the files stay |
| `Edit` | a user creates, deletes or changes an issue on either side |

A page may lack an issue, repeat one of an earlier page (Cloud's cursor goes by position,
Data Center's search by the last id) or come to an end too early. `rows` counts the rows
written, which the code compares with the announced count; who loads the extract keeps one
row of a key. `torn` and `again` in an extract are histories: a page lacked issues, a page
repeated one. `count` says whether the count it was kept under was right.

## 3. Runs

| run | question | result |
| --- | --- | --- |
| `env_apply_live` | two threads, three findings, two of them in one paged list, threshold 1, one foreign change, crash at any point | pass |
| `env_apply_rerun` | preview or apply, then apply again; cap 1, namesakes with inline usage in a paged list, a built-in, an asynchronous deletion | pass |
| `confluence_apply` | one space and two groups, one finding twice, or more than the cap; two threads, one fault, one foreign change | pass |
| `runs_lifecycle` | start, cancel, delete by two handlers, one failing write, one restart | pass |
| `runs_delete_race` | can a thread outlive its migration? | violation of `NoThreadOnDeletedRow` |
| `elevation` | grants, undos, hooks, one failure, foreign change or restart | pass |
| `elevation_twice` | is every grant recorded? | violation of `GrantIsRecorded` |
| `fix_run` | two fix runs of one audit, two mishaps anywhere | pass |
| `fix_lost_answer` | is what the rows call ok answered? | violation of `OkMeansAnswered` |
| `env_audit` | thirteen instances of both products, any two failed reads | pass |
| `config_audit` | eight migrations, any two failed reads | pass |
| `migration_audit` | fifteen pairs of sites, two runs, two faults, one edit | pass |

### Properties

- `BreakerBound`: at most threshold + workers - 1 DELETEs of a batch end in a server
  failure. Threshold 1 with two threads is the smallest case in which a task passes the
  gate while another one's failure is not yet recorded.
- `NoSilentDelete`: an object that went has a durable row, or its record is the next
  thing its thread does.
- `SameAsSequential`: when nothing failed and nobody interfered, verdicts and tallies are
  those of one thread; in a dry run, those a real run would have. It is stated for
  findings about different objects (`Apart`) of lists that lost no row between two pages
  (`missed`); what happens to the others is below. `env_apply_live` also holds a batch of two
  findings about one screen.
- `NeverDeletesHeldObject`: an object that was in use, or had one and the same namesake,
  during all of a task is not deleted by it. Facts that fell out between two pages of the
  task's own list are the exception (`Reliable`). The property is about the whole time because no client can close the window
  between the last read and the DELETE; it does exclude a task that skips a read, uses
  the read of another object, or acts on the audit's own old data.
- `ClosedMeansGone`: of what bore the name when the batch began, nothing is left, but for
  an object whose row fell out between two pages.
- `BlastRadius`, `BatchEnds`: cap and end of a batch.
- `NoParallelStages`: no two threads work on one migration.
- `LifecycleSpec`: the engine implements `RunLifecycle`.
- `CancelledOnlyIfAsked`: a flag of a run that ended, or whose row was deleted, never hits
  a later run. The exception is a flag raised before a run had the id (`early`), below.
- `RunEnds`: no run is stuck.
- `UndoIsAlone`: while the hook of a run that did not fail undoes the grants of its
  migration, no other run of the migration is active.
- `StandingKept`: a membership others gave is only taken away by others.
- `WindowClosed`: when a run is done, or its hook returned, no grant is left of those
  recorded when the hook began, for any run of the migration.

- `NeverTwice`: a fix run gives a name a second object only if it could not read the list,
  or somebody else created one meanwhile; running again after any failure never does.
- `OrderHolds`: in a run without mishap no action misses a field the same plan creates,
  unless a system field has its name and it is not created.
- `DoneIsRecorded`, `CleanMeansDone`: every write of a finished run is on record, failures
  as failures; a clean verdict means that everything planned and verifiable is there, except
  a field that a system field of its name stands in for (`Confused`).
- `PopulateBound`: cap and breaker of the values.
- `NeverAccusesUsed`: whatever reads fail, an object offered for deletion is unused. The
  exceptions, each necessary, are fields of a screen read in part or beyond the cap, and
  statuses of a workflow hidden behind another one of the same key.
- `NothingHidden` (`EnvAudit`): a finding of the full snapshot is missing only when the
  report says so of its area, or the snapshot has one of the named holes (`SilentHole`).
- `DangersDisclosed`: a global space open to everybody, without administrator, with a grant
  to an empty group or with a restriction that will not migrate is reported or disclosed.
  Spaces of other types are counted, never probed (`confluence_gather.py:98`), and the report
  does not say so (`NeverProbed`); nor does it say that restrictions of a space could not be
  read when those of another one could (`Drowned`).
- `NothingHidden` (`ConfigAudit`), `ScopeHidesNothing`, `NoFalseGap`: failed reads hide no
  gap silently; narrowing to the selected projects never hides what they use; a gap is
  never made up. `NothingHidden` has three exceptions, each one needed: lost options of the
  very field on the source (`OptionsLost`), lost fields of the very screen on the source
  (`TabsLost`), and a screen that a failed walk pushes past the cap of the deep check
  (`PushedOut`). `ScopeHidesNothing` has two: a use beyond the first page of a mapping, and a
  field behind its twin.
- `FalselyClosedIfTorn`, `SparesInhabited`: a Confluence finding is closed falsely only by
  a task that read a list in part; nothing inhabited is archived or deleted.
- `NoFalseClean`: a clean verdict means that every source issue of the audited projects
  that nobody touched is on the target with all its content, over failed and repeated runs
  with reused extracts. What the report says it did not compare excuses only what it speaks
  of: the comments of the issue it names, a field of which a side has two, a field of another
  kind in this very issue, an issue it calls late. The exceptions without a word are a torn
  extract that the count passed (`Unnoticed`), concealed issues (`Concealed`) and an extract
  without the list of fields.
- `NoFalseAlarm`: a reported loss of an untouched issue is one. The exceptions are a torn or
  partly hidden project, an extract without the list of fields and a field whose name the
  target has twice.
- `FidelityAgrees`: the fidelity stays between none and all issues, forgiving systematic
  gaps never lowers it, and it and the verdict say the same.

`TypeOK` of each module carries the agreement of its variables too.

### Bounds

Two threads and three tasks make every pair of tasks overlap with a third one waiting;
more threads only add to a bound that is proved for every pool width. Two runs suffice for
one to fail, end or be deleted under the other; two handlers for every check-then-act.
`Paged` names the lists of an instance that take more than one request: both lists a task
reads for a screen that is in no scheme, and those of the schemes and filters. `UsedAtFirst`
is one use that stands from the start; an administrator adds another. Pages are of any size,
so every split of the facts of a list is tried. One failing write and one restart are placed at every step of every behaviour; two
failures in a row take the same branches again. `Elevation` has one budget, `MaxMishaps`,
for failures, foreign changes and restarts together, and its two projects are
interchangeable: the run uses `SYMMETRY`, with invariants only.

`FixRun` has one budget of two mishaps, so that one may follow the other's repair; its
issues are interchangeable. The audits allow two failed reads per behaviour: one hides or
distorts, two can defeat an error that the other one would have raised (`Resolved` needs
both sides); each instance has at least two objects per area and caps of two or three (ten
for the boards), so every cap is passed by some instance. `ConfluenceApply` has pages of one row, which makes
every list of two torn by one change. `MigrationAudit` has pages of two issues, so that an
issue can be lost in the middle, at the end and between pages; two faults, because a torn
page is only kept when the count fails too, or another page repeats an issue; one edit, which can stand in for the second;
two runs, because what a first one left is read by a second one; its instances are one
faithful pair and one per kind of difference.

`CHECK_DEADLOCK FALSE` is set where an idle tool with its bounds used up really does stop;
`EnvAudit` and `ConfigAudit` end in `Done` and are checked for deadlock.

### Fairness

`EnvApply!Fairness`: threads of the pool and the main thread go on, and every request
ends, because `httpx` times out and `req` gives up after six tries. `RunEngine!Fairness`:
engine threads and handlers that began go on, stages end, the sweep at boot runs. Nothing
is assumed of operators, other administrators, failures or crashes, and nobody has to
restart a dead process. The other modules state safety only.

### What the violations show

- `runs_delete_race`: `delete_migration` checks and deletes in two calls outside the
  engine's lock. `main.py:677` says that a thread is never left behind.
- `elevation_twice`: the second elevation of a run finds every membership present and
  replaces the row of the first by one with nothing to undo. `permissions.py:5` says that
  every grant is logged so that undo is deterministic.
- `fix_lost_answer`: a POST whose answer is lost has status -1, which passes `st < 300`;
  `apply.py:208` knows this of populate, the other tiers do not test for it.

Other disagreements met while modelling. They are exceptions of a property above, which
shows them to be the only ones, and have no run of their own:

- Two findings of one batch about one object (a screen without fields in no scheme has
  both `empty_screen` and `screen_not_in_scheme`) close together on one thread; in parallel
  the second DELETE is answered 404 and counts as still open, although
  `envaudit/apply.py:1214` promises identical tallies. Proving `SameAsSequential` is what
  showed that it needs `Apart`; without it the batch `<<Screen, Orphan>>` of
  `env_apply_live` ends with one closed and one open finding.
- The same promise fails for findings about different objects when their list is longer than
  a page of 50 rows. `paginate_start_at` walks by offset, so the DELETE of one task takes a
  row of another finding's object out of the pages that task is reading: the object looks
  absent (closed, or confirmed gone, while it is there), its namesake is not seen, or the row
  that shows its use is not. Without the exceptions for `missed`, `SameAsSequential` fails in
  `env_apply_live`, `NeverDeletesHeldObject` and `ClosedMeansGone` under either configuration;
  another administrator's deletion does the same. `client.py` detects nothing of it: a list
  short of rows ends as `isLast` says.
- `POST /runs/<n>/cancel` for a number no run has yet sets the flag before the event insert
  fails (`runs.py:69`), and nothing clears it: the run that is given the number later is
  cancelled at its first phase although nobody asked to cancel that run
  (`CancelledOnlyIfAsked` names these ids).
- The failure path marks a run failed first and undoes second (`runs.py:178`), so that the
  next run may start and be elevated in between; `stages.py:308` relies on the contrary.
  In `Elevation` a hook that overlaps with another one makes no promise for this reason.
- `confluence_apply.py` says that closure is proven by reading again; a list that failed
  on a later page, or lost rows between pages, proves it wrongly (`FalselyClosedIfTorn`).
- The comments at `config_audit.py:152` and `165` exclude that a failed read of options or
  screen fields hides a mismatch. That is so on the target (`OptionsShort`, `TabsShort`); on
  the source the empty set misses nothing.
- The comment at `config_audit.py:184` says that the fallback to the whole instance only
  over-reports. For screens the deep check takes the first sixty of what is compared
  (`config_audit.py:983`): after a failed walk a screen that a selected project uses may be
  past them, and its lost fields are reported neither as a gap nor as an area error. Only the
  area's summary says `capped` (`PushedOut`; the instance `Many` shows it).
- The report on a Confluence instance counts personal and other spaces that are not global,
  and says nowhere that their permissions and restrictions were not looked at
  (`confluence_gather.py:98`).
- `_exists` (`remediation/apply.py:33`) finds any field of a name in `/field`, system or
  custom; the configuration audit and `_resolve_target_field_id` count custom fields only. A
  missing custom field with the name of a system field is reported by the audit, never
  created by the fix, found missing by its populate action, and judged closed by the
  re-audit (`reaudit.py:79`): FIXED_CLEAN. `Confused` names these fields.
- No capture records the screens of a field, so the wire tier never places one
  (`remediation/apply.py:323`), which the repository's README announces at line 156.
- `extract.py:15` says that a reused extract "can never pick up a truncated file". An
  extract whose count could not be read is kept, and the later run reuses it without the
  warning of the first (`Unnoticed`).
- `extract.py:6` says that an extract is count-verified "so a silent pagination gap can never
  masquerade as a clean extraction". The count is compared with the rows written
  (`extract.py:229-242`), not with the issues they are about: where one page lacks an issue
  and another repeats one the numbers agree, and the loss goes unnoticed (`again` in
  `Unnoticed`; the instance `Skipped` shows it).
- When the list of fields cannot be read, extraction goes on without custom fields and
  nobody is told: losses of values are hidden when it was the source's, every value is a
  loss when it was the target's (the `meta` exceptions of `MigrationAudit`).
- A field name that an instance has twice is "disclosed rather than silently mis-compared"
  (`compare.py:413`). Where it is unique on the source and double on the target it is
  disclosed, and every source value is reported lost as well: `extract.py:197` leaves the
  name out of the target's extract, and `compare.py:377` cannot tell that from a field that
  is absent. Proving `NoFalseAlarm` found this; the instance `Homonyms` shows it.
- `report.py:76` keeps failures of an environment audit from being silent by the severity
  of area errors. A failed read that marks no area (`SilentHole` lists them: the use of a
  scheme, one screen, one group, the pages of a space, one count) leaves HEALTHY in place.
  `SilentHole` is a condition on the area, so one lost screen excuses every finding derived
  from screens; likewise `ScreensRead` exempts every unused field once one screen was not
  read or the cap is passed, as the code has no finer record of what it did not see.
- The project list of the blind-spot probe may fail without an error, and then no project
  of that side is probed (`Concealed`).

## 4. Proofs

For every value of the constants that satisfies the modules' assumptions (the numbers of
the bounds are naturals, a pool has a thread, `NoObject` is no object, and what is named
below). Every inductive invariant was checked by TLC on the runs' instances first.

- `EnvApplyProofs`. `TypeCorrect`. `BreakerBoundHolds`: the invariant counts the tasks
  between gate and record: failures plus those tasks stay within threshold + workers - 1
  once the breaker is open, since the gate admits nobody then, and at most the pool's width
  are in flight before. `BlastRadiusHolds` and `NoSilentDeleteHolds` share `WriteInv`: a
  batch that runs has at most `Cap` tasks, none of a dry run is past the gate, and each
  task's removed object, place, durable rows and verdict agree (`TaskInv`). It is proved
  task by task: `TaskStepFrame` shows that a step of one task leaves the others' part alone,
  `TaskStepOwn` that it keeps its own. `SelectionsAssumption` says that the filter of the
  selected refs yields a sequence of stored findings within the bound: that is what
  `SelectSeq` does, which takes an induction; TLC evaluates it. What a list
  tells is `PagesInv`: of a task between two pages, every fact that has stood since the task
  began, and every row of an old bearer of the name, was told, is ahead or was missed
  (`Covered`, `Listed`); a row that was told told its usage (`Inlined`), and only bearers of
  the name are told (`Sound`). `AnswersTell` draws from it what the end of a read may
  conclude. `ClosedMeansGoneHolds`: with the fact that nothing becomes unborn again
  (`LifeInv`), a live namesake of a closed finding was unborn when the batch began, or missed.
  `NeverDeletesHeldObjectHolds` is an action property, by `GuardInv`: `held[t]` names only
  facts that stand now (`HeldInv`), an object has no usage before it is created (`UsedInv`),
  and a task between resolution and DELETE has seen every usage read so far absent, and no
  namesake, unless it could not rely on seeing them, of every object its DELETE may still hit
  (`SparedInv`). The last part is what covers kinds that go by name: an object that took the
  name after the resolution has no fact that was held. `SameAsSequentialHolds`: in an
  undisturbed batch of findings about different objects each task is on the way to its
  sequential verdict (`OnTheWay`): what bears its name is as the batch found it, until its own
  DELETE removes exactly that. Other tasks cannot disturb it because their names are others
  and the pages of its lists are `Whole`: they tell what one look at the list would. These are
  the steps that failed without `Apart` and without the condition on `missed`.

- `EnvAuditProofs`. `AuditCorrect` relates three things after each stage: the snapshot, the
  snapshot without failures, and the instance. An area agrees with the one without failures,
  has an error, or falls short of it in one of the ways the code has (`AreaOK`, `Short`);
  what it holds is true of the instance (`JiraTrue`, `SpacesTrue`, `ProbesTrue`,
  `MembersTrue`); a probe that lost something says so (`ProbesKept`, `OptionsKept`). Each of
  the stages has its lemma. Of a finding that offers a deletion, the rule that gives it is
  found by its kind, and its evidence is in the snapshot, hence in the instance
  (`NeverAccusesUsedHolds`); the exceptions of the property are where `AreaOK` has nothing
  to say about the evidence. For `NothingHiddenHolds`, areas neither in error nor with a
  hole (`Fine`) are those without failures, and each block of rules has a lemma
  (`FieldKept`, `GraphKept`, ...) that its findings depend on nothing else; blocks over
  areas that may be short without a hole are taken finding by finding.
  `DangersDisclosedHolds`, of global spaces, does not need the snapshot without failures: a space and a group
  are in the snapshot as the instance has them, or the report says that they are not
  (`ProbesTrue`, `MembersTrue`). Where a rule took an operator as a parameter, or a list was
  selected by a condition the provers could not carry through an invariant, the model now
  names the set or the list (`EachRow`, `Items`, `GlobalSpaces`).

Model-checked only: liveness (`BatchEnds`, `RunEnds`), since liveness and ENABLED are out of
the prover's reach, and `FidelityAgrees`, whose sums over projects would take induction over
data. Every other property of the passing runs is a theorem. What the recursive functions
of the models compute is used only through facts that need no induction.

## 5. Not modelled, and the plan

Not modelled: rendering, exports and the AI narrative (no state, or an external service);
connectors and encryption at rest (look-ups); the seeding script and the headless runner
(a sequential wrapper).

Abstractions a reader should know of:

- The index behind CQL and JQL counts is taken to be current, apart from counts that are
  off in `MigrationAudit`. Blog posts are not counted by the check for empty spaces.
- The walks of `ConfigAudit` read the first page of a mapping, as the code does.
- The Confluence apply is modelled on Data Center, where lists are read by offset.
- A list of Jira may end early at 20000 rows without an error (`client.py:290`); such lists
  are not modelled. A removal moves the rows of the list it is in; a change of usage moves one
  row of the list that shows it. Within one live read of several lists (each screen's tabs) the
  pages are those of the outer list.
- The score of the environment audit, the text of findings, people and remap statistics,
  badges and the canonical form of bodies are left out; a body is its fingerprint. The epic
  link of Data Center is a parent, known when the list of fields is.
- The comparison of Confluence pages, the user gap and the capture of values in an audit
  are left out of `MigrationAudit`; capture is in `FixRun`. Projects only one side has are
  events of the run and do not affect the verdict, in the code and in the model.
- The undo of elevations after a failed run is in `RunEngine` and `Elevation` only.

The plan, in this order:

1. An abstract specification `SafeDelete` (what is removed was unused, counted and
   recorded) that both applies implement.
2. `OAuthTokens`: refresh by several workers over one connection with a rotating token
   that is persisted by a callback, and the retry loop of `req`.
3. `EventStream`: the reader that runs next to the writers, and the end of a run.
4. `CloneRun`: cloning of access with its partial report, and the runner's row.
5. The Confluence pair in `Comparison` and `MigrationAudit`.
