--------------------------- MODULE MigrationAudit ---------------------------
(* The audit of a migration: which projects both sides have, whether the        *)
(* account sees them, one extract per side and project, written side by side    *)
(* and kept when it is not known to be short, the comparison of the extracts    *)
(* and the verdict. A run may reuse the extracts that an earlier run of the     *)
(* migration left, also one that failed or died.                                *)
(*                                                                              *)
(* A pair of sites is a record: dep, per side "cloud" or "dc"; projects, per    *)
(* side the keys it has; requested, the selected keys or {} for all; names and  *)
(* ambiguous, the custom fields per side; hidden, per side and project the      *)
(* issues the account may not browse; issues, per side and project what users   *)
(* put there before the audit; old, the extracts of an earlier build.           *)
EXTENDS Comparison

CONSTANTS
  Sites,       \* the pairs audited
  NoFile,      \* a path without a file
  PageSize,    \* issues per page of a search
  InlineCap,   \* comments that the API sends with an issue
  NewIssue,    \* what a user creates
  OtherBody,   \* what a user writes
  MaxRuns, MaxFaults, MaxEdits   \* bounds

VARIABLES
  site, live,   \* the pair, and side -> project -> the issues there now
  touched,      \* <<side, project, number>> that users changed
  files,        \* workspace: side -> project -> extract or NoFile
  pc, runs, reuse,
  blind,        \* <<side, project>> found to be blind spots
  unprobed,     \* history: <<side, project>> whose probe read nothing
  todo,         \* projects still to be extracted
  worker,       \* side -> the extraction of the first of them
  results, config, verdict,
  faults

vars == <<site, live, touched, files, pc, runs, reuse, blind, unprobed, todo, worker,
          results, config, verdict, faults>>

Sides == {"src", "tgt"}

\* An issue has the fields of every other one, a list of comments, and custom fields that its
\* side knows; an extract of an earlier build is of another format.
WellFormed(i, known) ==
  /\ DOMAIN i = {"fields", "body", "comments", "files", "custom"}
  /\ {"created", "reporter", "summary", "parent"} \subseteq DOMAIN NewIssue.fields
  /\ i.fields = [f \in DOMAIN NewIssue.fields |-> i.fields[f]]
  /\ i.comments \in Seq(ToSet(i.comments))
  /\ DOMAIN i.custom \subseteq known
  /\ \A x \in DOMAIN i.custom : i.custom[x] = [kind |-> i.custom[x].kind, fp |-> i.custom[x].fp]
ASSUME SitesAssumption ==
  \A x \in Sites :
    /\ DOMAIN x.issues = Sides /\ DOMAIN x.files = Sides
    /\ IsFiniteSet(x.projects["src"])
    /\ \A s \in Sides : \A p \in x.projects["src"] \cap x.projects["tgt"] :
         /\ p \in DOMAIN x.issues[s] /\ p \in DOMAIN x.files[s]
         /\ IsFiniteSet(DOMAIN x.issues[s][p]) /\ DOMAIN x.issues[s][p] \subseteq Nat \ {Project}
         /\ \A n \in DOMAIN x.issues[s][p] : WellFormed(x.issues[s][p][n], x.names[s] \cup x.ambiguous[s])
         /\ x.files[s][p] # NoFile =>
              ~x.files[s][p].current /\ DOMAIN x.files[s][p].issues \subseteq Nat \ {Project}
ASSUME BoundsAssumption ==
  PageSize \in Nat \ {0} /\ InlineCap \in Nat /\ MaxRuns \in Nat /\ MaxFaults \in Nat

Unknown == -2   \* a count that could not be read
Cloud(s) == site.dep[s] = "cloud"
Matched == site.projects["src"] \cap site.projects["tgt"]
Selected == IF site.requested = {} THEN Matched ELSE Matched \cap site.requested
Visible(s, p) == DOMAIN live[s][p] \ site.hidden[s][p]

Stops(next) == pc' = next /\ worker' = [s \in Sides |-> [at |-> "idle"]]
UnchangedSites == UNCHANGED <<site, live, touched>>
UnchangedRun == UNCHANGED <<runs, reuse>>
Fault == faults < MaxFaults /\ faults' = faults + 1

-----------------------------------------------------------------------------
(* Start, scope, permissions *)

\* A run works in the workspace of its own, or in that of the run it reuses.
Start(again) ==
  /\ pc \in {"new", "done", "failed"} /\ runs < MaxRuns
  /\ again => runs > 0 \/ site.old
  /\ runs' = runs + 1
  /\ reuse' = again
  /\ files' = IF again THEN files ELSE [s \in Sides |-> [p \in Matched |-> NoFile]]
  /\ Stops("scope")
  /\ blind' = {} /\ unprobed' = {} /\ todo' = <<>> /\ results' = <<>> /\ config' = FALSE /\ verdict' = ""
  /\ UNCHANGED faults /\ UnchangedSites

\* Only projects that both sides have; an unmatched one is an event of the run.
Scope ==
  /\ pc = "scope"
  /\ Stops("permissions")
  /\ todo' = SetToSeq(Selected)
  /\ UNCHANGED <<files, blind, unprobed, results, config, verdict, faults>> /\ UnchangedSites /\ UnchangedRun

\* A side sees a blind spot when search counts less than half of what the project list says.
\* The list may be unread, which is not an error, and so may a count.
IsBlind(s, p) == 2 * Cardinality(Visible(s, p)) < Cardinality(DOMAIN live[s][p])
\* Mutant: a probe that read nothing counts as zero issues seen.
PermissionsOfZero ==
  /\ pc = "permissions"
  /\ Stops("extract")
  /\ Fault
  /\ \E x \in {s \in Sides : Cloud(s)} \X Selected : unprobed' = {x} /\ blind' = {x}
  /\ UNCHANGED <<files, todo, results, config, verdict>> /\ UnchangedSites /\ UnchangedRun
Permissions ==
  /\ pc = "permissions"
  /\ Stops("extract")
  /\ LET probes == {s \in Sides : Cloud(s)} \X Selected
     IN  \/ /\ unprobed' = {}
            /\ blind' = {x \in probes : IsBlind(x[1], x[2])}
            /\ UNCHANGED faults
         \/ /\ Fault
            /\ unprobed' \in {{x} : x \in probes} \cup {{x \in probes : x[1] = s} : s \in Sides}
            /\ blind' = {x \in probes \ unprobed' : IsBlind(x[1], x[2])}
  /\ UNCHANGED <<files, todo, results, config, verdict>> /\ UnchangedSites /\ UnchangedRun

-----------------------------------------------------------------------------
(* Extraction *)

\* What an extract keeps of an issue: comments as far as they are sent with it, values of the
\* fields whose name is unique, and on Data Center the epic as the parent, if the list of
\* fields could be read.
Slim(s, i, meta) ==
  [i EXCEPT !.comments = [total |-> Len(i.comments),
                          items |-> SubSeq(i.comments, 1, Min({InlineCap, Len(i.comments)}))],
            !.custom = IF meta THEN Restrict(i.custom, site.names[s] \cap DOMAIN i.custom) ELSE <<>>,
            !.fields["parent"] = IF meta \/ Cloud(s) THEN @ ELSE NoValue]

Extract(s, w, count) ==
  [current |-> TRUE, meta |-> w.meta, torn |-> w.torn, again |-> w.again, count |-> count,
   names |-> IF w.meta THEN site.names[s] ELSE {}, ambiguous |-> IF w.meta THEN site.ambiguous[s] ELSE {},
   issues |-> w.got]

\* Mutant: a file of any format will do.
ReusableAny(s, p) == reuse /\ files[s][p] # NoFile
\* A cached extract is reused when it was written in the current format.
Reusable(s, p) == reuse /\ files[s][p] # NoFile /\ files[s][p].current

OpenProject ==
  /\ pc = "extract" /\ todo # <<>> /\ \A s \in Sides : worker[s].at = "idle"
  /\ worker' = [s \in Sides |->
       IF Reusable(s, Head(todo)) THEN [at |-> "ok"]
       ELSE [at |-> "meta", got |-> <<>>, rows |-> 0, meta |-> FALSE, torn |-> FALSE, again |-> FALSE]]
  /\ UNCHANGED <<pc, files, blind, unprobed, todo, results, config, verdict, faults>>
  /\ UnchangedSites /\ UnchangedRun

Works(s, at) == pc = "extract" /\ worker[s].at = at
UnchangedWork ==
  UNCHANGED <<pc, blind, unprobed, todo, results, config, verdict>> /\ UnchangedSites /\ UnchangedRun

\* The list of fields; without it the extract goes on without custom fields.
ReadMeta(s) ==
  /\ Works(s, "meta")
  /\ \/ worker' = [worker EXCEPT ![s].at = "pages", ![s].meta = TRUE] /\ UNCHANGED faults
     \/ worker' = [worker EXCEPT ![s].at = "pages"] /\ Fault
  /\ UNCHANGED files /\ UnchangedWork

NextPage(s, p) ==
  LET after == Max(DOMAIN worker[s].got \cup {0})
      rest  == {n \in Visible(s, p) : n > after}
  IN  {n \in rest : Cardinality({m \in rest : m <= n}) <= PageSize}
\* What a page may repeat of the earlier ones: a cursor goes by position, the search of Data
\* Center by the last id.
Repeated(s, p) ==
  {{}} \cup {{n} : n \in {n \in DOMAIN worker[s].got \cap Visible(s, p) : Cloud(s)}}
\* The rows of a page are written one by one, an issue that comes again once more; whoever
\* loads the extract keeps the last one of a key.
Take(s, p, ns, again, torn, end) ==
  LET all == ns \cup again
      got == [n \in all \cup DOMAIN worker[s].got |->
                IF n \in all THEN Slim(s, live[s][p][n], worker[s].meta) ELSE worker[s].got[n]]
  IN  worker' = [worker EXCEPT ![s].got = got, ![s].rows = @ + Cardinality(all),
                               ![s].torn = @ \/ torn, ![s].again = @ \/ again # {},
                               ![s].at = IF end THEN "count" ELSE "pages"]
\* The next page, in the order of the keys. While the search is disturbed a page may lack an
\* issue, repeat one of an earlier page, or be the last one too early; or it fails for good.
ReadPage(s) ==
  /\ Works(s, "pages")
  /\ LET p    == Head(todo)
         page == NextPage(s, p)
         last == Cardinality(page) < PageSize
         lack == {{}} \cup {{n} : n \in {n \in page : \E m \in page : m > n}}
     IN  \/ Take(s, p, page, {}, FALSE, last) /\ UNCHANGED faults
         \/ Fault /\ \E without \in lack, again \in Repeated(s, p) :
                       without \cup again # {} /\ Take(s, p, page \ without, again, without # {}, last)
         \/ Fault /\ ~last /\ \E again \in Repeated(s, p) : Take(s, p, page, again, TRUE, TRUE)
         \/ Fault /\ worker' = [worker EXCEPT ![s] = [at |-> "raised"]]
  /\ UNCHANGED files /\ UnchangedWork

\* Mutant: what was read is kept whatever the count says.
KeepsAlways(n, count) == TRUE
\* An extract is kept unless the count is known to be another one.
Keeps(n, count) == count \in {Unknown, n}

\* The count that search gives, against the rows written: the right one, one that is off, or
\* none.
Commit(s) ==
  /\ Works(s, "count")
  /\ LET p == Head(todo)
         n == worker[s].rows
         seen == Cardinality(Visible(s, p))
     IN  \E count \in {Unknown, seen - 1, seen, seen + 1} \ {-1} :
           /\ IF count = seen THEN UNCHANGED faults ELSE Fault
           /\ files' = IF ~Keeps(n, count) THEN files
                       ELSE [files EXCEPT ![s][p] =
                               Extract(s, worker[s], CASE count = seen -> "exact"
                                                       [] count = Unknown -> "unknown"
                                                       [] OTHER -> "off")]
           /\ worker' = [worker EXCEPT ![s] = [at |-> IF count \in {Unknown, n} THEN "ok" ELSE "short"]]
  /\ UnchangedWork

\* Both sides have ended: one that raised or is short ends the run.
CloseProject ==
  /\ pc = "extract" /\ \A s \in Sides : worker[s].at \in {"ok", "short", "raised"}
  /\ IF \A s \in Sides : worker[s].at = "ok"
     THEN Stops("extract") /\ todo' = Tail(todo)
     ELSE Stops("failed") /\ UNCHANGED todo
  /\ UNCHANGED <<files, blind, unprobed, results, config, verdict, faults>> /\ UnchangedSites /\ UnchangedRun

-----------------------------------------------------------------------------
(* Comparison and verdict *)

CompareAll ==
  /\ pc = "extract" /\ todo = <<>>
  /\ Stops("config")
  /\ results' = [p \in Selected |-> Result(files["src"][p], files["tgt"][p])]
  /\ UNCHANGED <<files, blind, unprobed, todo, config, verdict, faults>> /\ UnchangedSites /\ UnchangedRun

\* The configuration audit, a module of its own: it finds something or nothing.
Configure ==
  /\ pc = "config"
  /\ Stops("finalize")
  /\ config' \in BOOLEAN
  /\ UNCHANGED <<files, blind, unprobed, todo, results, verdict, faults>> /\ UnchangedSites /\ UnchangedRun

Finalize ==
  /\ pc = "finalize"
  /\ Stops("done")
  /\ verdict' = Verdict(results, blind # {}, config)
  /\ UNCHANGED <<files, blind, unprobed, todo, results, config, faults>> /\ UnchangedSites /\ UnchangedRun

\* A stage that raises, a cancellation between two of them, or the end of the process.
Fails ==
  /\ pc \notin {"new", "done", "failed"}
  /\ Stops("failed")
  /\ UNCHANGED <<files, blind, unprobed, todo, results, config, verdict, faults>> /\ UnchangedSites /\ UnchangedRun

-----------------------------------------------------------------------------
(* Users of either side keep working: they create, delete and edit issues. *)

Edit(s, p) ==
  /\ Cardinality(touched) < MaxEdits /\ pc # "done"
  /\ LET here == live[s][p]
         new  == Max(DOMAIN here \cup {0}) + 1
     IN  \/ /\ live' = [live EXCEPT ![s][p] =
                 [n \in DOMAIN here \cup {new} |-> IF n = new THEN NewIssue ELSE here[n]]]
            /\ touched' = touched \cup {<<s, p, new>>}
         \/ \E n \in DOMAIN here :
              /\ \/ live' = [live EXCEPT ![s][p] = Restrict(@, DOMAIN here \ {n})]
                 \/ live' = [live EXCEPT ![s][p][n].body = OtherBody]
              /\ touched' = touched \cup {<<s, p, n>>}
  /\ UNCHANGED <<site, files, pc, blind, unprobed, todo, worker, results, config, verdict, faults>>
  /\ UnchangedRun

Init ==
  /\ site \in Sites
  /\ live = site.issues
  /\ touched = {}
  /\ files = site.files
  /\ pc = "new" /\ runs = 0 /\ reuse = FALSE
  /\ blind = {} /\ unprobed = {} /\ todo = <<>>
  /\ worker = [s \in Sides |-> [at |-> "idle"]]
  /\ results = <<>> /\ config = FALSE /\ verdict = "" /\ faults = 0

Next ==
  \/ \E again \in BOOLEAN : Start(again)
  \/ Scope \/ Permissions
  \/ OpenProject \/ CloseProject
  \/ \E s \in Sides : ReadMeta(s) \/ ReadPage(s) \/ Commit(s)
  \/ CompareAll \/ Configure \/ Finalize \/ Fails
  \/ \E s \in Sides : \E p \in Matched : Edit(s, p)

Spec == Init /\ [][Next]_vars

-----------------------------------------------------------------------------
(* Properties *)

TypeOK ==
  /\ site \in Sites
  /\ \A s \in Sides : \A p \in Matched :
       /\ \A n \in DOMAIN live[s][p] : n \in Nat \ {Project}
       /\ files[s][p] # NoFile => DOMAIN files[s][p].issues \subseteq Nat \ {Project}
  /\ touched \subseteq Sides \X Matched \X Nat
  /\ blind \cup unprobed \subseteq Sides \X Selected /\ blind \cap unprobed = {}
  /\ ToSet(todo) \subseteq Selected
  /\ \A s \in Sides : worker[s].at \in {"idle", "meta", "pages", "count", "ok", "short", "raised"}
  /\ \A s \in Sides : worker[s].at # "idle" => pc = "extract" /\ todo # <<>>
  /\ pc = "done" => verdict \in {"CRITICAL", "GAPS_FOUND", "CLEAN_WITH_TAILS", "CLEAN"}
  /\ pc \in {"config", "finalize", "done"} => DOMAIN results = Selected
  /\ runs \in 0..MaxRuns /\ faults \in 0..MaxFaults

Untouched(p, n) == \A s \in Sides : <<s, p, n>> \notin touched
EditsIn(s, p) == \E t \in touched : t[1] = s /\ t[2] = p

\* What the audit cannot know: a page that lacked issues while the count could not tell, being
\* off, unread, made right again by the users, or by a page that repeated an issue.
Unnoticed(s, p) ==
  files[s][p].torn /\ (files[s][p].count # "exact" \/ files[s][p].again \/ EditsIn(s, p))
\* Issues the account may not browse where no blind spot is found: Data Center, at least half
\* of the project, or a probe that read nothing.
Concealed(s, p) ==
  /\ site.hidden[s][p] # {}
  /\ ~Cloud(s) \/ <<s, p>> \in unprobed \/ ~IsBlind(s, p) \/ EditsIn(s, p)

\* The report says of this field of this issue that its values were not compared: a side has
\* two fields of the name, or keeps another kind of value in this issue.
FieldTold(p, x, i, j) ==
  /\ Finding("cf_value_not_compared", Project, x, Blank) \in results[p].findings
  /\ \/ x \in site.ambiguous["src"] \cup site.ambiguous["tgt"]
     \/ x \in DOMAIN j.custom /\ j.custom[x].kind # i.custom[x].kind
\* The target has everything that the source issue n has, as j, or the report says of this
\* very issue that its comments could not be compared, or that one of its fields was not.
Carried(p, n, i, j) ==
  /\ i.fields = j.fields /\ i.body = j.body /\ i.files = j.files
  /\ \/ BagOf(i.comments) = BagOf(j.comments)
     \/ Finding("comment_uncheckable", n, "comment", Blank) \in results[p].findings
  /\ \A x \in DOMAIN i.custom :
       (x \in DOMAIN j.custom /\ i.custom[x] = j.custom[x]) \/ FieldTold(p, x, i, j)
\* The report calls a missing issue one that was created after the cutover.
Told(p, n) == Finding("tail_post_cutover", n, Blank, "source") \in results[p].findings

\* extract.py: "a silent pagination gap can never masquerade as a clean extraction". A clean
\* verdict means that every source issue of the audited projects, as far as nobody touched it
\* meanwhile, is on the target with all its content, but for what the report says of that issue
\* that it did not compare, or calls late. This holds over failed and repeated runs and reused
\* extracts; the exceptions are Unnoticed, Concealed and an extract without the list of custom
\* fields.
NoFalseClean ==
  pc = "done" /\ verdict \in {"CLEAN", "CLEAN_WITH_TAILS"} =>
    \A p \in Selected :
      \/ \E s \in Sides : Unnoticed(s, p) \/ Concealed(s, p) \/ ~files[s][p].meta
      \/ \A n \in DOMAIN live["src"][p] :
           \/ ~Untouched(p, n)
           \/ IF n \in DOMAIN live["tgt"][p]
              THEN Carried(p, n, live["src"][p][n], live["tgt"][p][n])
              ELSE Told(p, n)

\* A loss is not made up: an issue reported missing or changed, which nobody touched, is not on
\* the target, or differs there in the field that the finding names. compare.py: mixing the
\* formats of extracts would be "confidently wrong". One loss is made up: a field whose name the
\* target has twice is "disclosed rather than silently mis-compared" (compare.py:413), and yet
\* every value that the source has of it is reported lost.
NoFalseAlarm ==
  pc = "done" =>
    \A p \in Selected : \A f \in results[p].findings :
      \/ f.kind \notin Dents \cup {"missing_in_tgt"} \/ ~Untouched(p, f.key)
      \/ \E s \in Sides : files[s][p].torn \/ site.hidden[s][p] # {} \/ ~files[s][p].meta
      \/ IF f.kind = "missing_in_tgt" THEN f.key \notin DOMAIN live["tgt"][p]
         ELSE LET i == live["src"][p][f.key]
                  j == live["tgt"][p][f.key]
              IN  CASE f.kind \in FieldLike -> i.fields[f.field] # j.fields[f.field]
                    [] f.kind = "key_collision" -> i.fields["created"] # j.fields["created"]
                    [] f.kind = "content_mismatch" -> i.body # j.body
                    [] f.kind = "comment_mismatch" -> BagOf(i.comments) # BagOf(j.comments)
                    [] f.kind = "attachment_mismatch" -> i.files # j.files
                    [] f.kind = "cf_value_mismatch" ->
                         /\ f.field \in DOMAIN i.custom
                         /\ f.field \in DOMAIN j.custom =>
                              f.field \in site.ambiguous["tgt"] \/ j.custom[f.field] # i.custom[f.field]

\* aggregate.py: subtracting what was born on the target "drove a perfect migration's headline
\* fidelity arbitrarily below zero". The fidelity stays between none and all of the audited
\* issues, forgiving systematic gaps never lowers it, and it agrees with the verdict: a clean
\* verdict without tails is full fidelity, and full fidelity is a clean verdict unless the
\* configuration, a blind spot or a renamed key speaks against it.
FidelityAgrees ==
  pc = "done" =>
    LET raw == FidelityRaw(results)
        full == Audited(results)
        rekeyed == \E p \in Selected : Count(results[p].findings, "rekey_suspected") > 0
    IN  /\ 0 <= raw /\ raw <= FidelityCore(results) /\ FidelityCore(results) <= full
        /\ verdict = "CLEAN" => raw = full
        /\ raw = full /\ ~config /\ blind = {} /\ ~rekeyed => verdict \in {"CLEAN", "CLEAN_WITH_TAILS"}
=============================================================================
