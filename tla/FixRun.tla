------------------------------- MODULE FixRun --------------------------------
(***************************************************************************)
(* Migration fix runs: the capture of what a fix needs during an audit     *)
(* (remediation/payload.py, values.py), the plan (plan.py, registry.py),   *)
(* its application to the target (apply.py), the proof of closure          *)
(* (reaudit.py) and the verdict (webapp/runs.py), driven by the stages of  *)
(* webapp/fix_stages.py.                                                   *)
(*                                                                         *)
(* One step is one request, one store call or one loop iteration.  A GET,  *)
(* PUT or DELETE is retried by the client, a POST is sent once: its answer *)
(* may be lost (status -1) after it landed.  What other administrators do, *)
(* failed requests, cancellations, deletions and restarts are mishaps, at  *)
(* most MaxMishaps of them; the engine is reduced to the life of one run   *)
(* at a time, which RunEngine has in detail.                               *)
(***************************************************************************)
EXTENDS Integers, Sequences, FiniteSets

CONSTANTS
  FindingAt,   \* the config findings of the source audit run, in stored order
  Issue,       \* issues of the target that have a value on the source
  Captures,    \* the sets of issues the combined scan may have written to the values file
  Samples,     \* bound: the captured payloads of all findings, as functions
  Namesakes,   \* the sets of fields whose name a system field of the target may have too
  Picks,       \* the sets of fix ids an operator may tick
  Cap,         \* MA_MAX_POPULATE
  Threshold,   \* MA_BREAKER_THRESHOLD, 0 disables the breaker
  MaxRuns,     \* bound: fix runs of this source run
  MaxMishaps   \* bound: failures, cancellations, deletions, restarts, foreign changes

\* FIXES: [id, area, kind, tier], in registry order.
Fixes == <<
  [id |-> "field.create",   area |-> "custom_fields", kind |-> "missing_in_tgt",  tier |-> "create"],
  [id |-> "field.wire",     area |-> "custom_fields", kind |-> "missing_in_tgt",  tier |-> "wire"],
  [id |-> "field.populate", area |-> "custom_fields", kind |-> "missing_in_tgt",  tier |-> "populate"],
  [id |-> "field.options",  area |-> "custom_fields", kind |-> "option_mismatch", tier |-> "create"],
  [id |-> "status.create",  area |-> "statuses",      kind |-> "missing_in_tgt",  tier |-> "create"],
  [id |-> "priority.create", area |-> "priorities",   kind |-> "missing_in_tgt",  tier |-> "create"],
  [id |-> "resolution.create", area |-> "resolutions", kind |-> "missing_in_tgt", tier |-> "create"],
  [id |-> "issue_type.create", area |-> "issue_types", kind |-> "missing_in_tgt", tier |-> "create"],
  [id |-> "link_type.create", area |-> "link_types",  kind |-> "missing_in_tgt",  tier |-> "create"]>>

FixIds == {Fixes[x].id : x \in DOMAIN Fixes}

\* Mutant: values first, the field they belong to last.
RankReversed(tier) == CASE tier = "create" -> 2 [] tier = "wire" -> 1 [] tier = "populate" -> 0

Rank(tier) == CASE tier = "create" -> 0 [] tier = "wire" -> 1 [] tier = "populate" -> 2

Finding == DOMAIN FindingAt
Area(f) == FindingAt[f].area
Kind(f) == FindingAt[f].kind
Name(f) == FindingAt[f].name     \* a number: only order and equality of names matter
Obj(f)  == <<Area(f), Name(f)>>
Object  == {Obj(f) : f \in Finding}

\* The areas _exists can look into.
Precheckable == {"statuses", "priorities", "resolutions", "issue_types", "link_types",
                 "custom_fields"}

\* audit_config compares names by their normal form: an object is missing once.
ASSUME FindingAssumption ==
  /\ FindingAt \in Seq([area : STRING, kind : STRING, name : Nat])
  /\ \A f, g \in Finding :
       Kind(f) = "missing_in_tgt" /\ Kind(g) = "missing_in_tgt" /\ Obj(f) = Obj(g) => f = g
ASSUME CaptureAssumption == Captures \subseteq SUBSET Issue /\ IsFiniteSet(Issue)
ASSUME NamesakeAssumption == Namesakes \subseteq SUBSET {o \in Object : o[1] = "custom_fields"}
ASSUME PickAssumption == Picks \subseteq (SUBSET FixIds) \ {{}}
ASSUME BoundAssumption == Cap \in Nat /\ Threshold \in Nat /\ MaxRuns \in Nat /\ MaxMishaps \in Nat

\* fix_payload, as far as apply tells payloads apart: none captured, the definition of an
\* object, or a field without contexts, with a context, with a context and its options.
Payload == {"none", "object", "plain", "context", "options"}

ASSUME SampleAssumption == Samples \subseteq [Finding -> Payload]

Action == [f : Finding, x : DOMAIN Fixes]
Run == 1..MaxRuns
\* The calls an action may log; "precheck" is the no-op of an object that exists.
Call == {"precheck", "create", "context", "options", "wire", "populate"}
Record == [act : Action, call : Call, ok : BOOLEAN, why : {"", "not found"}]
Sent == [act : Action, call : Call, answer : {"ok", "refused", "error", "lost"}]
Verdict == {"-", "NOTHING_APPLIED", "FIXED_CLEAN", "FIXED_PARTIAL", "FIX_FAILED"}

VARIABLES
  payload, captured, sameDir,  \* of the source run: payloads, values file, its workspace
  namesakes,                   \* the fields whose name a system field of the target has
  source,                      \* the source run is still there
  copies,                      \* the target: objects of each area and name
  withContext, withOptions,    \* fields, by the object their name resolves to
  filled,                      \* issues whose value of the field was written
  run, status, verdict, rows,  \* the runs, their fix_actions rows
  pc, picked, found, todo, skips,
  log, line, tally,            \* ctx["fix_log"], populate's file and counters
  judged, closed, open,        \* the re-audit
  sent, made, blind, spoilt,   \* histories of the current run, see below
  mishaps

capture == <<payload, captured, sameDir, namesakes>>
site    == <<copies, withContext, withOptions, filled>>
runs    == <<run, status, verdict, rows>>
plan    == <<picked, found, todo, skips>>
work    == <<log, line, tally>>
closure == <<judged, closed, open>>
hist    == <<sent, made, blind, spoilt, mishaps>>
vars    == <<capture, source, site, runs, pc, plan, work, closure, hist>>

NoTally == [bad |-> 0, skipped |-> 0, server |-> 0]

Init ==
  /\ payload = [f \in Finding |-> "none"] /\ captured = {} /\ sameDir = TRUE
  /\ namesakes \in Namesakes
  /\ source = "audit"
  /\ copies = [o \in Object |->
       IF \E f \in Finding : Obj(f) = o /\ Kind(f) = "missing_in_tgt" THEN 0 ELSE 1]
  /\ withContext = {o \in Object : copies[o] = 1} /\ withOptions = {} /\ filled = {}
  /\ run = 0
  /\ status = [r \in Run |-> "absent"] /\ verdict = [r \in Run |-> "-"]
  /\ rows = [r \in Run |-> {}]
  /\ pc = "idle" /\ picked = {} /\ found = {} /\ todo = {} /\ skips = 0
  /\ log = {} /\ line = {} /\ tally = NoTally
  /\ judged = {} /\ closed = 0 /\ open = 0
  /\ sent = {} /\ made = {} /\ blind = {} /\ spoilt = {} /\ mishaps = 0

-----------------------------------------------------------------------------
(* The capture.                                                            *)

\* What capture_config_payload returns for a finding, by its kind and by what could be
\* read of the source; an unreadable option list gives a field without options.
PayloadsOf(f) ==
  CASE Kind(f) = "option_mismatch" /\ Area(f) = "custom_fields" -> {"none", "options"}
    [] Kind(f) = "missing_in_tgt" /\ Area(f) = "custom_fields" ->
         {"none", "plain", "context", "options"}
    [] Kind(f) = "missing_in_tgt" /\ Area(f) \in Precheckable \ {"custom_fields"} ->
         {"none", "object"}
    [] OTHER -> {"none"}

\* stage_config and stage_capture_values of the audit; the audit wrote into its own
\* directory, or into that of an older run whose extracts it reused.
CaptureSource ==
  /\ source = "audit"
  /\ source' = "stored"
  /\ \E p \in Samples, c \in Captures, d \in BOOLEAN :
       /\ \A f \in Finding : p[f] \in PayloadsOf(f)
       /\ payload' = p /\ captured' = c /\ sameDir' = d
  /\ UNCHANGED <<namesakes, site, runs, pc, plan, work, closure, hist>>

-----------------------------------------------------------------------------
(* Mishaps and the end of a run.                                           *)

Mishap(kind) ==
  /\ mishaps < MaxMishaps
  /\ mishaps' = mishaps + 1
  /\ spoilt' = spoilt \cup {kind}

Calm == UNCHANGED <<spoilt, mishaps>>

EndRun(s) ==
  /\ status' = [status EXCEPT ![run] = s]
  /\ pc' = "idle"
  /\ UNCHANGED <<run, verdict, rows>>

\* A stage raised: the log of the run is lost with its context.
Fail == pc # "idle" /\ EndRun("failed")

\* _execute looks at the flag before each phase.
Cancel ==
  /\ pc \in {"verify", "load", "reaudit", "persist"}
  /\ EndRun("cancelled")
  /\ Mishap("cancel")
  /\ UNCHANGED <<capture, source, site, plan, work, closure, sent, made, blind>>

\* The process dies; the sweep at boot fails the run.
Crash ==
  /\ Fail /\ Mishap("crash")
  /\ UNCHANGED <<capture, source, site, plan, work, closure, sent, made, blind>>

\* Somebody creates or deletes an object of a name a finding mentions.
AdminActs ==
  /\ Mishap("foreign")
  /\ \E o \in Object :
       /\ copies' = [copies EXCEPT ![o] = IF @ = 0 THEN 1 ELSE @ - 1]
       /\ withContext' = withContext \ {o} /\ withOptions' = withOptions \ {o}
       /\ blind' = blind \cup {o}
  /\ UNCHANGED <<capture, source, filled, runs, pc, plan, work, closure, sent, made>>

\* delete_run of the source run: source_run_id of the fix runs becomes NULL.
DeleteSource ==
  /\ source = "stored" /\ source' = "gone"
  /\ Mishap("deleted")
  /\ UNCHANGED <<capture, site, runs, pc, plan, work, closure, sent, made, blind>>

-----------------------------------------------------------------------------
(* Start, verify, and the plan.                                            *)

Start(p) ==
  /\ pc = "idle" /\ source = "stored" /\ run < MaxRuns
  /\ run' = run + 1
  /\ status' = [status EXCEPT ![run + 1] = "running"]
  /\ picked' = p
  /\ pc' = "verify"
  /\ found' = {} /\ todo' = {} /\ skips' = 0
  /\ log' = {} /\ line' = {} /\ tally' = NoTally
  /\ judged' = {} /\ closed' = 0 /\ open' = 0
  /\ sent' = {} /\ made' = {} /\ spoilt' = {}
  /\ UNCHANGED <<capture, source, site, verdict, rows, blind, mishaps>>

\* fix_verify: the target is mandatory and must accept the credentials.
Verify ==
  /\ pc = "verify"
  /\ \/ pc' = "load" /\ Calm /\ UNCHANGED runs
     \/ Fail /\ Mishap("read")
  /\ UNCHANGED <<capture, source, site, plan, work, closure, sent, made, blind>>

\* fix_apply reads source_run_id, then the findings of that run: two store calls.
LoadSourceId ==
  /\ pc = "load"
  /\ IF source = "gone" THEN Fail ELSE pc' = "read" /\ UNCHANGED runs
  /\ UNCHANGED <<capture, source, site, plan, work, closure, hist>>

Applicable(a) ==
  /\ Fixes[a.x].area = Area(a.f) /\ Fixes[a.x].kind = Kind(a.f)
  /\ Fixes[a.x].id \in picked

BuildPlan(F) == {a \in [f : F, x : DOMAIN Fixes] : Applicable(a) /\ payload[a.f] # "none"}

SkippedBy(F) ==
  Cardinality({f \in F : payload[f] = "none" /\ \E x \in DOMAIN Fixes : Applicable([f |-> f, x |-> x])})

ReadFindings ==
  /\ pc = "read"
  /\ found' = IF source = "gone" THEN {} ELSE Finding
  /\ todo' = BuildPlan(found')
  /\ skips' = SkippedBy(found')
  /\ pc' = "act"
  /\ UNCHANGED <<capture, source, site, runs, picked, work, closure, hist>>

Tier(a) == Fixes[a.x].tier
FixId(a) == Fixes[a.x].id
Key(a) == <<Name(a.f), Rank(Tier(a)), a.f, a.x>>

\* The stable sort by object and tier, findings and fixes in their own order.
Earlier(a, b) ==
  \E i \in 1..4 : Key(a)[i] < Key(b)[i] /\ \A j \in 1..i - 1 : Key(a)[j] = Key(b)[j]

Due(a) == pc = "act" /\ a \in todo /\ \A b \in todo \ {a} : Earlier(a, b)

-----------------------------------------------------------------------------
(* Requests.                                                               *)

Note(a, call, ok, why) == [act |-> a, call |-> call, ok |-> ok, why |-> why]

\* A POST is answered, refused, answered with a server error, or its answer is lost; in
\* the last two cases it may have landed.
Post(a, call, answer, landed) ==
  /\ answer = "ok" => landed
  /\ answer = "refused" => ~landed
  /\ sent' = sent \cup {[act |-> a, call |-> call, answer |-> answer]}
  /\ IF answer = "ok" THEN Calm ELSE Mishap(answer)

\* ok is st < 300, which holds of the -1 of a lost answer.
Logged(answer) == answer \in {"ok", "lost"}

Answer == {"ok", "refused", "error", "lost"}

Finish(a) == pc' = "act" /\ todo' = todo \ {a}

ReadWorks == Calm
ReadFails == Mishap("read")

\* Mutant: the list of link types is read without its wrapper and looks empty.
SeesNothing(o) == o[1] # "link_types" /\ (copies[o] > 0 \/ o \in namesakes)

\* _exists on a list that could be read. The list of fields has the system fields too, and a
\* field of either sort that bears the name will do.
Sees(o) == copies[o] > 0 \/ o \in namesakes

-----------------------------------------------------------------------------
(* apply_plan: the create tier.                                            *)

\* A failed read of the list counts as absent.
Precheck(a) ==
  /\ Due(a) /\ Tier(a) = "create" /\ FixId(a) # "field.options"
  /\ \/ /\ ReadWorks /\ Sees(Obj(a.f))
        /\ log' = log \cup {Note(a, "precheck", TRUE, "")}
        /\ Finish(a) /\ UNCHANGED blind
     \/ /\ ReadWorks /\ ~Sees(Obj(a.f))
        /\ pc' = "post" /\ UNCHANGED <<todo, log, blind>>
     \/ /\ ReadFails
        /\ blind' = blind \cup {Obj(a.f)}
        /\ pc' = "post" /\ UNCHANGED <<todo, log>>
  /\ UNCHANGED <<capture, source, site, runs, picked, found, skips, line, tally, closure, sent, made>>

Current == CHOOSE a \in todo : \A b \in todo \ {a} : Earlier(a, b)

\* The target has one more object; a name resolves to the one that was there first.
Add(o) ==
  /\ copies' = [copies EXCEPT ![o] = @ + 1]
  /\ made' = IF copies[o] = 0 THEN made \cup {o} ELSE made

\* _apply_create for everything but fields.
CreateObject(answer, landed) ==
  LET a == Current IN
  /\ pc = "post" /\ Area(a.f) # "custom_fields"
  /\ Post(a, "create", answer, landed)
  /\ IF landed THEN Add(Obj(a.f)) ELSE UNCHANGED <<copies, made>>
  /\ log' = log \cup {Note(a, "create", Logged(answer), "")}
  /\ Finish(a)
  /\ UNCHANGED <<capture, source, withContext, withOptions, filled, runs, picked, found, skips,
                 line, tally, closure, blind>>

\* _apply_create_field: after a lost answer there is no id to go on with, and it raises.
CreateField(answer, landed) ==
  LET a == Current IN
  /\ pc = "post" /\ Area(a.f) = "custom_fields"
  /\ Post(a, "create", answer, landed)
  /\ IF landed THEN Add(Obj(a.f)) ELSE UNCHANGED <<copies, made>>
  /\ log' = log \cup {Note(a, "create", Logged(answer), "")}
  /\ CASE answer = "lost" -> Fail /\ UNCHANGED todo
       [] answer = "ok" /\ payload[a.f] \in {"context", "options"} ->
            pc' = "context" /\ UNCHANGED <<todo, runs>>
       [] OTHER -> Finish(a) /\ UNCHANGED runs
  /\ UNCHANGED <<capture, source, withContext, withOptions, filled, picked, found, skips,
                 line, tally, closure, blind>>

\* Mutant: a context that was refused leaves no trace.
NoteIfOk(a, call, answer) ==
  IF answer = "refused" THEN {} ELSE {Note(a, call, Logged(answer), "")}

NoteAny(a, call, answer) == {Note(a, call, Logged(answer), "")}

\* Only what happens to the field its name resolves to can be seen later.
CreateContext(answer, landed) ==
  LET a == Current IN
  /\ pc = "context"
  /\ Post(a, "context", answer, landed)
  /\ withContext' = IF landed /\ Obj(a.f) \in made THEN withContext \cup {Obj(a.f)} ELSE withContext
  /\ log' = log \cup NoteAny(a, "context", answer)
  /\ CASE answer = "ok" /\ payload[a.f] = "options" -> pc' = "options" /\ UNCHANGED <<todo, runs>>
       [] answer = "lost" /\ payload[a.f] = "options" -> Fail /\ UNCHANGED todo
       [] OTHER -> Finish(a) /\ UNCHANGED runs
  /\ UNCHANGED <<capture, source, copies, withOptions, filled, picked, found, skips,
                 line, tally, closure, made, blind>>

CreateOptions(answer, landed) ==
  LET a == Current IN
  /\ pc = "options"
  /\ Post(a, "options", answer, landed)
  /\ withOptions' = IF landed /\ Obj(a.f) \in made THEN withOptions \cup {Obj(a.f)} ELSE withOptions
  /\ log' = log \cup NoteAny(a, "options", answer)
  /\ Finish(a)
  /\ UNCHANGED <<capture, source, copies, withContext, filled, runs, picked, found, skips,
                 line, tally, closure, made, blind>>

\* The end of an action that could not do its work: what is missing is logged.
GiveUp(a, call, why) ==
  /\ log' = log \cup {Note(a, call, FALSE, why)}
  /\ Finish(a)

\* _resolve_target_field_id by name, of custom fields only; an unreadable list resolves
\* nothing.
Resolves(a) == ReadWorks /\ copies[Obj(a.f)] > 0
Unresolved(a) == (ReadWorks /\ copies[Obj(a.f)] = 0) \/ ReadFails

\* _apply_add_options: find the field, then its contexts.
AddOptionsResolve(a) ==
  /\ Due(a) /\ FixId(a) = "field.options"
  /\ \/ Resolves(a) /\ pc' = "delta" /\ UNCHANGED <<todo, log>>
     \/ Unresolved(a) /\ GiveUp(a, "options", "not found")
  /\ UNCHANGED <<capture, source, site, runs, picked, found, skips, line, tally, closure,
                 sent, made, blind>>

ReadContexts ==
  LET a == Current IN
  /\ pc = "delta"
  /\ \/ ReadWorks /\ Obj(a.f) \in withContext /\ pc' = "extend" /\ UNCHANGED <<todo, log>>
     \/ ReadWorks /\ Obj(a.f) \notin withContext /\ GiveUp(a, "options", "")
     \/ ReadFails /\ GiveUp(a, "options", "")
  /\ UNCHANGED <<capture, source, site, runs, picked, found, skips, line, tally, closure,
                 sent, made, blind>>

AddOptions(answer, landed) ==
  LET a == Current IN
  /\ pc = "extend"
  /\ Post(a, "options", answer, landed)
  /\ withOptions' = IF landed THEN withOptions \cup {Obj(a.f)} ELSE withOptions
  /\ log' = log \cup NoteAny(a, "options", answer)
  /\ Finish(a)
  /\ UNCHANGED <<capture, source, copies, withContext, filled, runs, picked, found, skips,
                 line, tally, closure, made, blind>>

-----------------------------------------------------------------------------
(* The wire and populate tiers.                                            *)

\* _apply_wire.  No capture records a screen: payload["screens"] is empty, the loop over
\* placements does nothing, and the action ends as a failure even when the field is there.
Wire(a) ==
  /\ Due(a) /\ Tier(a) = "wire"
  /\ \/ Resolves(a) /\ GiveUp(a, "wire", "")
     \/ Unresolved(a) /\ GiveUp(a, "wire", "not found")
  /\ UNCHANGED <<capture, source, site, runs, picked, found, skips, line, tally, closure,
                 sent, made, blind>>

ExceedsCap(S) == Cardinality(S) > Cap

\* The directory of the source run, whatever directory that run worked in.
ValuesFile == sameDir

\* _apply_populate up to its loop: file, cap, field.
PopulateBegin(a) ==
  /\ Due(a) /\ Tier(a) = "populate"
  /\ tally' = NoTally
  /\ IF ~ValuesFile \/ ExceedsCap(captured)
     THEN Calm /\ GiveUp(a, "populate", "") /\ UNCHANGED line
     ELSE \/ /\ Resolves(a) /\ pc' = "put" /\ line' = captured
             /\ UNCHANGED <<todo, log>>
          \/ Unresolved(a) /\ GiveUp(a, "populate", "not found") /\ UNCHANGED line
  /\ UNCHANGED <<capture, source, site, runs, picked, found, skips, closure, sent, made, blind>>

\* Mutant: the breaker opens one failure late.
TrippedLate(t) == Threshold > 0 /\ t.server > Threshold

Tripped(t) == Threshold > 0 /\ t.server >= Threshold

\* One line of the file: a PUT, retried by the client, or nothing once the breaker is open.
PutValue(i, answer, landed) ==
  /\ pc = "put" /\ i \in line /\ ~Tripped(tally)
  /\ Post(Current, "populate", answer, landed)
  /\ line' = line \ {i}
  /\ filled' = IF landed THEN filled \cup {<<Obj(Current.f), i>>} ELSE filled
  /\ tally' = CASE answer = "ok" -> tally
                [] answer = "refused" -> [tally EXCEPT !.bad = @ + 1]
                [] OTHER -> [tally EXCEPT !.bad = @ + 1, !.server = IF Threshold > 0 THEN @ + 1 ELSE @]
  /\ UNCHANGED <<capture, source, copies, withContext, withOptions, runs, pc, plan, log, closure,
                 made, blind>>

SkipValue(i) ==
  /\ pc = "put" /\ i \in line /\ Tripped(tally)
  /\ line' = line \ {i}
  /\ tally' = [tally EXCEPT !.skipped = @ + 1]
  /\ UNCHANGED <<capture, source, site, runs, pc, plan, log, closure, hist>>

CleanTally(t) == t.bad = 0 /\ t.skipped = 0

PopulateEnd ==
  /\ pc = "put" /\ line = {}
  /\ log' = log \cup {Note(Current, "populate", CleanTally(tally), "")}
  /\ Finish(Current)
  /\ UNCHANGED <<capture, source, site, runs, picked, found, skips, line, tally, closure, hist>>

ApplyEnd ==
  /\ pc = "act" /\ todo = {} /\ pc' = "reaudit"
  /\ UNCHANGED <<capture, source, site, runs, plan, work, closure, hist>>

-----------------------------------------------------------------------------
(* The re-audit and the verdict.                                           *)

Touched == {Area(a.f) : a \in BuildPlan(found)}
Verifiable(f) == Kind(f) = "missing_in_tgt" \/ (Kind(f) = "option_mismatch" /\ Area(f) = "custom_fields")

\* Closed by kind: _exists finds the name, or the options are on the custom field.
ClosedNow(f) ==
  IF Kind(f) = "option_mismatch" THEN copies[Obj(f)] > 0 /\ Obj(f) \in withOptions
  ELSE Sees(Obj(f))

\* compute_closure, one finding; what cannot be read is still open.
Recheck(f) ==
  /\ pc = "reaudit" /\ f \in found \ judged /\ \A g \in found \ judged : f <= g
  /\ judged' = judged \cup {f}
  /\ IF Area(f) \in Touched /\ Verifiable(f)
     THEN \/ ReadWorks /\ ClosedNow(f) /\ closed' = closed + 1 /\ UNCHANGED open
          \/ ReadWorks /\ ~ClosedNow(f) /\ open' = open + 1 /\ UNCHANGED closed
          \/ ReadFails /\ open' = open + 1 /\ UNCHANGED closed
     ELSE Calm /\ UNCHANGED <<closed, open>>
  /\ UNCHANGED <<capture, source, site, runs, pc, plan, work, sent, made, blind>>

RecheckEnd ==
  /\ pc = "reaudit" /\ judged = found /\ pc' = "persist"
  /\ UNCHANGED <<capture, source, site, runs, plan, work, closure, hist>>

\* Mutant: the rows list the requests instead of the log.
PersistSent ==
  /\ pc = "persist"
  /\ rows' = [rows EXCEPT ![run] = sent]
  /\ pc' = "conclude"
  /\ UNCHANGED <<capture, source, site, run, status, verdict, plan, work, closure, hist>>

\* _finalize_fix: the rows first, in one transaction.
Persist ==
  /\ pc = "persist"
  /\ rows' = [rows EXCEPT ![run] = log]
  /\ pc' = "conclude"
  /\ UNCHANGED <<capture, source, site, run, status, verdict, plan, work, closure, hist>>

Failed == {n \in log : ~n.ok}

\* Nothing was planned but findings whose payload the audit could not capture.
AllSkipped == log = {} /\ skips > 0

\* Mutant: closed findings outweigh failed actions.
LadderLenient ==
  CASE AllSkipped -> "NOTHING_APPLIED"
    [] ~AllSkipped /\ open = 0 -> "FIXED_CLEAN"
    [] ~AllSkipped /\ open # 0 /\ Failed = {} /\ closed > 0 -> "FIXED_PARTIAL"
    [] OTHER -> "FIX_FAILED"

Ladder ==
  CASE AllSkipped -> "NOTHING_APPLIED"
    [] ~AllSkipped /\ Failed = {} /\ open = 0 -> "FIXED_CLEAN"
    [] ~AllSkipped /\ Failed = {} /\ open # 0 /\ closed > 0 -> "FIXED_PARTIAL"
    [] OTHER -> "FIX_FAILED"

Conclude ==
  /\ pc = "conclude"
  /\ verdict' = [verdict EXCEPT ![run] = Ladder]
  /\ status' = [status EXCEPT ![run] = "done"]
  /\ pc' = "idle"
  /\ UNCHANGED <<capture, source, site, run, rows, plan, work, closure, hist>>

Apply ==
  \/ \E a \in Action : Precheck(a) \/ AddOptionsResolve(a) \/ Wire(a) \/ PopulateBegin(a)
  \/ ReadContexts \/ PopulateEnd \/ ApplyEnd
  \/ \E answer \in Answer, landed \in BOOLEAN :
       \/ CreateObject(answer, landed) \/ CreateField(answer, landed)
       \/ CreateContext(answer, landed) \/ CreateOptions(answer, landed)
       \/ AddOptions(answer, landed)
       \/ \E i \in Issue : PutValue(i, answer, landed)
  \/ \E i \in Issue : SkipValue(i)

Next ==
  \/ CaptureSource
  \/ \E p \in Picks : Start(p)
  \/ Verify \/ LoadSourceId \/ ReadFindings
  \/ Apply
  \/ \E f \in Finding : Recheck(f)
  \/ RecheckEnd \/ Persist \/ Conclude
  \/ Cancel \/ Crash \/ AdminActs \/ DeleteSource

Spec == Init /\ [][Next]_vars

-----------------------------------------------------------------------------
TypeOK ==
  /\ payload \in [Finding -> Payload] /\ captured \subseteq Issue /\ sameDir \in BOOLEAN
  /\ namesakes \in Namesakes /\ source \in {"audit", "stored", "gone"}
  /\ copies \in [Object -> Nat] /\ withContext \subseteq Object /\ withOptions \subseteq Object
  /\ filled \subseteq Object \X Issue
  /\ run \in 0..MaxRuns
  /\ status \in [Run -> {"absent", "running", "done", "failed", "cancelled"}]
  /\ verdict \in [Run -> Verdict] /\ rows \in [Run -> SUBSET Record]
  /\ pc \in {"idle", "verify", "load", "read", "act", "post", "context", "options", "delta",
             "extend", "put", "reaudit", "persist", "conclude"}
  /\ picked \subseteq FixIds /\ found \subseteq Finding /\ todo \subseteq Action /\ skips \in Nat
  /\ log \subseteq Record /\ line \subseteq Issue
  /\ tally \in [bad : Nat, skipped : Nat, server : Nat]
  /\ judged \subseteq Finding /\ closed \in Nat /\ open \in Nat
  /\ sent \subseteq Sent /\ made \subseteq Object /\ blind \subseteq Object
  /\ spoilt \subseteq {"cancel", "crash", "foreign", "deleted", "read", "refused", "error", "lost"}
  /\ mishaps \in 0..MaxMishaps

-----------------------------------------------------------------------------
(* Properties.                                                             *)

\* "A logged no-op, never a double-create" (apply.py): the tool gives an area a second
\* object of one name only when it could not read the list before, or when somebody else
\* created one meanwhile.  In particular never by running again after a run that failed,
\* lost an answer or died.
NeverTwice == \A o \in Object : copies[o] > 1 => o \in blind

\* Within a run in which nothing goes wrong no action misses a field that an action of the
\* same plan creates: the order of the plan respects what the actions need. A field that is
\* never created because a system field has its name is missed (see CleanMeansDone).
OrderHolds ==
  spoilt = {} =>
    \A n \in log : n.why = "not found" /\ Obj(n.act.f) \notin namesakes =>
      \A a \in BuildPlan(found) : a.f = n.act.f => FixId(a) # "field.create"

\* Every write request of a run that is done is on record, and on record as a failure if
\* it was answered with one; of the writes of populate, if one of them was.
DoneIsRecorded ==
  run > 0 /\ status[run] = "done" =>
    \A s \in sent :
      \E n \in rows[run] :
        /\ n.act = s.act /\ n.call = s.call
        /\ n.ok => s.answer \in IF s.call = "populate" THEN {"ok"} ELSE {"ok", "lost"}

\* What an action has to leave behind.
Landed(a) ==
  CASE FixId(a) = "field.options" -> Obj(a.f) \in withOptions
    [] Tier(a) = "create" /\ FixId(a) # "field.options" ->
         /\ copies[Obj(a.f)] > 0
         /\ Obj(a.f) \in made =>
              /\ payload[a.f] \in {"context", "options"} => Obj(a.f) \in withContext
              /\ payload[a.f] = "options" => Obj(a.f) \in withOptions
    [] Tier(a) = "populate" -> \A i \in captured : <<Obj(a.f), i>> \in filled
    [] OTHER -> FALSE

\* A missing field with the name of a system field of the target: the pre-check of its
\* creation and the re-audit take the system field for it.
Confused(f) == Kind(f) = "missing_in_tgt" /\ Obj(f) \in namesakes

\* What closes a finding: the object, with the options that were missing.
There(f) == copies[Obj(f)] > 0 /\ (Kind(f) = "option_mismatch" => Obj(f) \in withOptions)

\* A clean verdict is true: everything planned is on the target, down to the contexts and
\* options of a field this run created and the values of every issue, and so is every
\* verifiable finding of the areas the run touched, planned or not. The creation and the
\* closure of a Confused field are the exceptions: nothing is promised of them. Nor is
\* anything when another administrator interfered, the source run was deleted, or an answer
\* was lost.
CleanMeansDone ==
  /\ run > 0 /\ status[run] = "done" /\ verdict[run] = "FIXED_CLEAN"
  /\ spoilt \cap {"foreign", "deleted", "lost"} = {}
  => /\ \A a \in BuildPlan(Finding) : Landed(a) \/ (FixId(a) = "field.create" /\ Confused(a.f))
     /\ \A f \in Finding : Area(f) \in Touched /\ Verifiable(f) => There(f) \/ Confused(f)

\* A values file over the cap is not written at all, and a populate action stops at the
\* threshold of server failures.
PopulateBound ==
  /\ (\E s \in sent : s.call = "populate") => Cardinality(captured) <= Cap
  /\ Threshold > 0 => tally.server <= Threshold

\* apply.py: "ONLY a real 2xx is a write that landed".  A row that says ok is about a
\* call that was answered so, or about the pre-check.
OkMeansAnswered ==
  run > 0 /\ status[run] = "done" =>
    \A n \in rows[run] : n.ok /\ n.call # "precheck" =>
      \A s \in sent : s.act = n.act /\ s.call = n.call => s.answer = "ok"
=============================================================================
