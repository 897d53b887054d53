--------------------------- MODULE ConfluenceApply ---------------------------
(* The live apply of a Confluence environment fix run on Data Center:         *)
(* apply_confluence_fixes (auditor/envaudit/confluence_apply.py) archives     *)
(* empty spaces and deletes empty groups, one task per finding on the pool of *)
(* map_results. A task lists the objects page by page, and again to prove the *)
(* closure; other tasks and administrators change the lists meanwhile, and a  *)
(* list whose later page failed is returned short.                            *)
EXTENDS Integers, Sequences, FiniteSets, SequencesExt

CONSTANTS
  Space, Group,  \* the keys and names the findings of the audit are about
  Order,         \* the order in which the list endpoints return them
  PageSize,      \* limit of one page
  ProbeCap,      \* groups whose members groups_with_counts counts
  Batches,       \* the selections of findings: sequences of names
  MaxTasks,      \* bound: length of a batch
  Workers,       \* apply_worker_count()
  Threshold,     \* MA_BREAKER_THRESHOLD, 0 disables the breaker
  Cap,           \* MA_MAX_DESTRUCTIVE
  MaxFaults,     \* bound: reads and records that fail
  MaxOthers      \* bound: changes made by other administrators

Name == Space \cup Group
Task == 1..MaxTasks

ASSUME PageSizeAssumption == PageSize \in Nat \ {0}
ASSUME PoolAssumption == Workers \in Nat \ {0} /\ Threshold \in Nat /\ Cap \in Nat
ASSUME OrderAssumption == Order \in Seq(Name) /\ ToSet(Order) = Name
ASSUME MaxTasksAssumption == MaxTasks \in Nat
ASSUME BatchesAssumption == \A b \in Batches : b \in Seq(Name) /\ Len(b) <= MaxTasks

VARIABLES
  phase, batch, dryRun, next,
  pc,                 \* where each task is
  seen,               \* the rows of the list a task is reading
  status,             \* the final status of the task's write
  verdict,
  failures, tripped,  \* _WriteBreaker
  closed, stillOpen,  \* what the driver returns
  life,               \* current, archived or gone
  inhabited,          \* spaces with pages, groups with members
  settled,            \* history: tasks whose object was archived or gone while they ran
  held,               \* history: running tasks whose object was inhabited all the time
  torn,               \* history: tasks that read a list which failed half-way or lost rows
  taken,              \* history: task -> whether its write took effect: none, free, held
  faults, others

driver  == <<phase, batch, dryRun, next, closed, stillOpen>>
breaker == <<failures, tripped>>
wiki    == <<life, inhabited>>
history == <<settled, held, torn, taken>>
vars == <<driver, pc, seen, status, verdict, breaker, wiki, history, faults, others>>

Running == {t \in Task : pc[t] \notin {"queued", "done"}}
Listing == {"resolve", "members", "confirm"}
At(t, point) == phase = "running" /\ pc[t] = point

Current(lf, t) == lf[batch[t]] = "current"
SameList(n, m) == n \in Space <=> m \in Space
\* The places of Order whose objects the list of n shows; the list shows them in that order.
Shown(n) == {i \in DOMAIN Order : SameList(n, Order[i]) /\ life[Order[i]] # "gone"}
Offset(places, i) == Cardinality({j \in places : j <= i})
List(n) ==
  LET shown == Shown(n)
  IN  [p \in 1..Cardinality(shown) |-> Order[CHOOSE i \in shown : Offset(shown, i) = p]]
Rows(t) ==
  LET list == List(batch[t])
  IN  [i \in DOMAIN list |-> [name |-> list[i], status |-> life[list[i]]]]
Matches(t, rows) == {i \in DOMAIN rows : rows[i].name = batch[t]}

Fault == faults < MaxFaults /\ faults' = faults + 1

Init ==
  /\ phase = "idle" /\ batch = <<>> /\ dryRun = FALSE /\ next = 1 /\ closed = 0 /\ stillOpen = 0
  /\ pc = [t \in Task |-> "queued"]
  /\ seen = [t \in Task |-> <<>>]
  /\ status = [t \in Task |-> "none"]
  /\ verdict = [t \in Task |-> "none"]
  /\ failures = 0 /\ tripped = FALSE
  /\ life \in [Name -> {"current", "gone"}]
  /\ inhabited \in SUBSET {n \in Name : life[n] = "current"}
  /\ settled = {} /\ held = {} /\ torn = {}
  /\ taken = [t \in Task |-> "none"]
  /\ faults = 0 /\ others = 0

\* Every finding of a Confluence selection is destructive: _is_destructive holds of both kinds.
TooMany(b) == Len(b) > Cap

\* The identity guard, then the cap, before any request. The client may have been built for
\* another site when the connection was edited after the verify stage.
Begin ==
  /\ phase = "idle"
  /\ batch' \in Batches
  /\ dryRun' \in BOOLEAN
  /\ \E sameBase \in BOOLEAN :
       phase' = IF ~sameBase \/ TooMany(batch') THEN "refused" ELSE "running"
  /\ UNCHANGED <<next, closed, stillOpen, pc, seen, status, verdict, breaker, wiki, history, faults, others>>

\* A free thread of the pool takes the next finding.
Start(t) ==
  /\ phase = "running" /\ t = next /\ t <= Len(batch)
  /\ Cardinality(Running) < Workers
  /\ next' = next + 1
  /\ pc' = [pc EXCEPT ![t] = "resolve"]
  /\ settled' = IF Current(life, t) THEN settled ELSE settled \cup {t}
  /\ held' = IF batch[t] \in inhabited THEN held \cup {t} ELSE held
  /\ UNCHANGED <<phase, batch, dryRun, closed, stillOpen, seen, status, verdict, breaker, wiki,
                 torn, taken, faults, others>>

-----------------------------------------------------------------------------
(* One task *)

Return(t, v) ==
  /\ pc' = [pc EXCEPT ![t] = "done"]
  /\ verdict' = [verdict EXCEPT ![t] = v]
  /\ seen' = [seen EXCEPT ![t] = <<>>]

GoTo(t, point) ==
  /\ pc' = [pc EXCEPT ![t] = point]
  /\ seen' = [seen EXCEPT ![t] = <<>>]
  /\ UNCHANGED verdict

\* emit(): a record is written through before the task goes on; a failing sink crashes it.
Emit(t, v) ==
  \/ Return(t, v) /\ UNCHANGED faults
  \/ Return(t, "crashed") /\ Fault

\* What _resolve_space and _apply_empty_group decide on the rows of the list.
Resolve(t, rows) ==
  LET found == Matches(t, rows)
      archived == \E i \in found : rows[i].status = "archived"
  IN  \/ found = {} /\ Emit(t, "closed")
      \/ Cardinality(found) > 1 /\ Emit(t, "still_open")
      \/ Cardinality(found) = 1 /\ archived /\ Emit(t, "closed")
      \/ /\ Cardinality(found) = 1 /\ ~archived
         /\ GoTo(t, IF batch[t] \in Space THEN "pages" ELSE "members")
         /\ UNCHANGED faults

\* _group_member_count of the list it reads anew: only the first groups are counted.
Members(t, rows) ==
  LET counted == \E i \in Matches(t, rows) : i <= ProbeCap
      empty == life[batch[t]] = "current" /\ batch[t] \notin inhabited
  IN  \/ counted /\ empty /\ GoTo(t, "gate") /\ UNCHANGED faults
      \/ ~(counted /\ empty) /\ Emit(t, "still_open")
      \/ counted /\ Return(t, "still_open") /\ Fault   \* the probe failed

\* Mutant: the 2xx is believed.
ConfirmUnread(t, rows) == Return(t, "closed") /\ UNCHANGED faults
\* _space_is_archived, on the first row of the key, and _group_present.
Confirm(t, rows) ==
  LET found == Matches(t, rows)
      gone == \A i \in found : (\A j \in found : i <= j) => rows[i].status = "archived"
  IN  \/ gone /\ Return(t, "closed") /\ UNCHANGED faults
      \/ ~gone /\ Emit(t, "still_open")

ListRead(t, rows) ==
  CASE pc[t] = "resolve" -> Resolve(t, rows)
    [] pc[t] = "members" -> Members(t, rows)
    [] OTHER -> Confirm(t, rows)

Page(t) == LET from == Len(seen[t]) IN
  SubSeq(Rows(t), from + 1, IF from + PageSize < Len(Rows(t)) THEN from + PageSize ELSE Len(Rows(t)))
More(t) == Len(seen[t]) + PageSize < Len(Rows(t))

\* A page of the list, at the offset of the rows already read.
ReadPage(t) ==
  /\ phase = "running" /\ pc[t] \in Listing
  /\ \/ /\ More(t)
        /\ seen' = [seen EXCEPT ![t] = @ \o Page(t)]
        /\ UNCHANGED <<pc, verdict, faults>>
     \/ ~More(t) /\ ListRead(t, seen[t] \o Page(t))
  /\ UNCHANGED <<driver, status, breaker, wiki, history, others>>

\* The first page fails: nothing is known. A later page fails: the rows so far come with an
\* error, which every caller looks at only when there are no rows.
ReadFails(t) ==
  /\ phase = "running" /\ pc[t] \in Listing
  /\ \/ seen[t] = <<>> /\ Return(t, "still_open") /\ Fault /\ UNCHANGED torn
     \/ /\ seen[t] # <<>> /\ t \notin torn  \* bound: one such list per task
        /\ torn' = torn \cup {t}
        /\ ListRead(t, seen[t])
  /\ UNCHANGED <<driver, status, breaker, wiki, settled, held, taken, others>>

\* Mutant: a count that could not be read is taken for zero.
CountPagesUnreadIsNone(t) ==
  /\ At(t, "pages")
  /\ \/ batch[t] \notin inhabited /\ GoTo(t, "gate") /\ UNCHANGED faults
     \/ batch[t] \in inhabited /\ Emit(t, "still_open")
     \/ GoTo(t, "gate") /\ Fault
  /\ UNCHANGED <<driver, status, breaker, wiki, history, others>>

\* _space_page_count: a count that could not be read is one page.
CountPages(t) ==
  /\ At(t, "pages")
  /\ \/ batch[t] \notin inhabited /\ GoTo(t, "gate") /\ UNCHANGED faults
     \/ batch[t] \in inhabited /\ Emit(t, "still_open")
     \/ Return(t, "still_open") /\ Fault
  /\ UNCHANGED <<driver, status, breaker, wiki, history, others>>

\* breaker.should_block(), then the stop of a dry run.
Gate(t) ==
  /\ At(t, "gate")
  /\ \/ tripped /\ Emit(t, "still_open")
     \/ ~tripped /\ dryRun /\ Emit(t, "would_close")
     \/ ~tripped /\ ~dryRun /\ GoTo(t, "write") /\ UNCHANGED faults
  /\ UNCHANGED <<driver, status, breaker, wiki, history, others>>

\* What changes of the instance mean for the tasks that are running.
Observe ==
  /\ settled' = settled \cup {t \in Running : ~Current(life', t)}
  /\ held' = {t \in held : batch[t] \in inhabited'}
  /\ torn' = torn \cup
       {t \in Running : /\ pc[t] \in Listing /\ seen[t] # <<>>
                        /\ \E n \in Name : /\ SameList(n, batch[t])
                                           /\ life[n] # "gone" /\ life'[n] = "gone"}

Settle(t) == IF batch[t] \in Space THEN "archived" ELSE "gone"

\* The PUT that archives a space or the DELETE of a group, with the retries of the client: a
\* write that took effect may end as a server failure, or as 404 when a retry finds nothing;
\* a 2xx may come from a site that ignores the status in the body.
Write(t) ==
  /\ At(t, "write")
  /\ LET n == batch[t]
         standing == life[n] = "current" \/ (life[n] = "archived" /\ n \in Space)
         answer(st) == status' = [status EXCEPT ![t] = st]
     IN \/ /\ standing
           /\ life' = [life EXCEPT ![n] = Settle(t)]
           /\ inhabited' = IF n \in Group THEN inhabited \ {n} ELSE inhabited
           /\ taken' = [taken EXCEPT ![t] = IF t \in held THEN "held" ELSE "free"]
           /\ answer("2xx") \/ answer("5xx") \/ (n \in Group /\ answer("4xx"))
           /\ Observe
        \/ \E st \in {"2xx", "4xx", "5xx"} : (st = "2xx" => n \in Space) /\ answer(st) /\ UNCHANGED <<wiki, history>>
  /\ pc' = [pc EXCEPT ![t] = "record"]
  /\ UNCHANGED <<driver, seen, verdict, breaker, faults, others>>

\* Mutant: the breaker opens one failure late.
CountFailureLate(st) ==
  IF Threshold > 0 /\ st = "5xx"
  THEN failures' = failures + 1 /\ tripped' = (tripped \/ failures + 1 > Threshold)
  ELSE UNCHANGED breaker
\* breaker.record(st); transport failures and 429 count like 5xx.
CountFailure(st) ==
  IF Threshold > 0 /\ st = "5xx"
  THEN failures' = failures + 1 /\ tripped' = (tripped \/ failures + 1 >= Threshold)
  ELSE UNCHANGED breaker

\* The row of the write, then the proof of the closure if it was answered 2xx.
Record(t) ==
  /\ At(t, "record")
  /\ CountFailure(status[t])
  /\ \/ status[t] = "2xx" /\ GoTo(t, "confirm") /\ UNCHANGED faults
     \/ status[t] = "2xx" /\ Return(t, "crashed") /\ Fault
     \/ status[t] # "2xx" /\ Emit(t, "still_open")
  /\ status' = [status EXCEPT ![t] = "none"]
  /\ UNCHANGED <<driver, wiki, history, others>>

\* An unexpected exception in a task ends this task only.
Raise(t) ==
  /\ phase = "running" /\ t \in Running
  /\ Return(t, "crashed") /\ Fault
  /\ status' = [status EXCEPT ![t] = "none"]
  /\ UNCHANGED <<driver, breaker, wiki, history, others>>

-----------------------------------------------------------------------------
(* The driver and the rest of the world *)

Tally(vs) == Cardinality({t \in DOMAIN batch : verdict[t] \in vs})

\* Mutant: a crashed task is dropped from the results instead of left open.
MergeDropsCrashed ==
  /\ phase = "running" /\ next > Len(batch) /\ Running = {}
  /\ phase' = "done"
  /\ closed' = Tally({"closed", "would_close"})
  /\ stillOpen' = Tally({"still_open"})
  /\ UNCHANGED <<batch, dryRun, next, pc, seen, status, verdict, breaker, wiki, history, faults, others>>

\* The merge of the results; the ERROR record of a crashed task may fail in turn, and then
\* the whole run fails.
Merge ==
  /\ phase = "running" /\ next > Len(batch) /\ Running = {}
  /\ \/ /\ phase' = "done"
        /\ closed' = Tally({"closed", "would_close"})
        /\ stillOpen' = Tally({"still_open", "crashed"})
        /\ UNCHANGED faults
     \/ /\ Tally({"crashed"}) > 0 /\ Fault
        /\ phase' = "failed" /\ UNCHANGED <<closed, stillOpen>>
  /\ UNCHANGED <<batch, dryRun, next, pc, seen, status, verdict, breaker, wiki, history, others>>

\* Other administrators fill, empty, remove, restore and create objects.
OthersAct ==
  /\ phase = "running" /\ others < MaxOthers
  /\ others' = others + 1
  /\ \E n \in ToSet(Order) :
       \/ /\ life[n] = "current" /\ UNCHANGED life
          /\ inhabited' = IF n \in inhabited THEN inhabited \ {n} ELSE inhabited \cup {n}
       \/ /\ life[n] # "gone" /\ life' = [life EXCEPT ![n] = "gone"] /\ inhabited' = inhabited \ {n}
       \/ life[n] # "current" /\ life' = [life EXCEPT ![n] = "current"] /\ UNCHANGED inhabited
  /\ Observe
  /\ UNCHANGED <<driver, pc, seen, status, verdict, breaker, taken, faults>>

TaskStep(t) ==
  ReadPage(t) \/ ReadFails(t) \/ CountPages(t) \/ Gate(t) \/ Write(t) \/ Record(t) \/ Raise(t)

Next == Begin \/ (\E t \in Task : Start(t) \/ TaskStep(t)) \/ Merge \/ OthersAct

Spec == Init /\ [][Next]_vars

-----------------------------------------------------------------------------
(* Properties *)

\* Every finding of a batch that returned is in exactly one of its two tallies, the crashed
\* ones among those left open, and the variables have their types.
TypeOK ==
  /\ phase \in {"idle", "running", "refused", "done", "failed"}
  /\ pc \in [Task -> {"queued", "pages", "gate", "write", "record", "done"} \cup Listing]
  /\ status \in [Task -> {"none", "2xx", "4xx", "5xx"}]
  /\ verdict \in [Task -> {"none", "closed", "would_close", "still_open", "crashed"}]
  /\ life \in [Name -> {"current", "archived", "gone"}]
  /\ inhabited \subseteq Name
  /\ failures \in Nat /\ tripped \in BOOLEAN
  /\ taken \in [Task -> {"none", "free", "held"}]
  /\ phase = "done" => closed + stillOpen = Len(batch)

\* "Closure proven by RE-READING ..., never assumed from a 2xx": a finding is reported closed
\* only if its space was archived, or its object gone, at some time while its task ran, or if
\* the task read a list whose later page failed, or that lost rows between two of its pages.
\* Nothing else makes a closure false, neither a 2xx without effect, a lost answer, a failed
\* first page, nor other tasks and administrators.
FalselyClosedIfTorn == \A t \in Task : verdict[t] = "closed" => t \in settled \cup torn

\* Never mutate on stale audit data: an object that had pages or members all the time since
\* its task began is neither archived nor deleted, whatever reads fail.
SparesInhabited == \A t \in Task : taken[t] # "held"

\* At most threshold + workers - 1 writes of a batch end in a server-side failure, whatever
\* the interleaving of the gate, the request and breaker.record.
BreakerBound == Threshold > 0 => failures <= Threshold + Workers - 1
=============================================================================
