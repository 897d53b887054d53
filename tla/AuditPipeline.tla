--------------------------- MODULE AuditPipeline ---------------------------
(* What the audits of a Jira and of a Confluence environment share: stages  *)
(* that read an area each into a snapshot and survive failed reads, rules   *)
(* that turn the snapshot into findings, and the verdict on the findings.   *)
EXTENDS Dictionaries, Integers, Sequences, FiniteSets, SequencesExt, FiniteSetsExt

CONSTANTS
  Sites,      \* the instances audited
  Limit,      \* name of a threshold -> its value
  MaxFaults   \* bound: reads that fail in one audit

ASSUME FaultsAssumption == MaxFaults \in Nat

VARIABLES
  site,      \* the instance, which the audit does not change
  pc,        \* the next stage of the pipeline
  faults,    \* reads that have failed
  areas,     \* the snapshot: area -> record
  ideal,     \* history: the snapshot the same audit takes when no read fails
  findings,  \* what the rules reported
  verdict

vars == <<site, pc, faults, areas, ideal, findings, verdict>>

-----------------------------------------------------------------------------
(* Names, and the areas the instance lists by name. A name is <<base, form>>: the form is *)
(* what a migration or a user made of the base name.                                      *)

Norm(n) == IF n[2] = "copy" THEN n ELSE <<n[1], "plain">>

\* What a dictionary filled with setdefault(_norm_name(nm), w) keeps: the first of each key.
FirstOfName(ws) ==
  {ws[i] : i \in {i \in DOMAIN ws : \A j \in 1..(i - 1) : Norm(ws[j].name) # Norm(ws[i].name)}}

CloudOnly == {"workflow_schemes", "screen_schemes", "field_config_schemes",
              "issuetype_screen_schemes", "field_configurations"}
ListAreas == CloudOnly \cup
  {"statuses", "issue_types", "priorities", "resolutions", "link_types", "roles", "screens",
   "issuetype_schemes", "permission_schemes", "notification_schemes"}

-----------------------------------------------------------------------------
(* Reading *)

Cloud == site.dep = "cloud"
Skip == [skipped |-> TRUE, error |-> FALSE]
Read(err, rec) == [skipped |-> FALSE, error |-> err] ++ rec
Unread == -1

First(rows, n) == IF n < Len(rows) THEN SubSeq(rows, 1, n) ELSE rows

\* The rows a paginated read that failed on a later page still returns.
Cut(rows, failed) == IF failed THEN SubSeq(rows, 1, Len(rows) - 1) ELSE rows

\* The sets of at most n reads.
Larger(sets, reads) == sets \cup {F \cup {r} : F \in sets, r \in reads}
Failing(n, reads) ==
  LET sets[k \in 0..n] == IF k = 0 THEN {{}} ELSE Larger(sets[k - 1], reads)
  IN  sets[n]

\* One stage: any of its reads may fail; Rec(A, F) is what the stage writes over the snapshot
\* A when the reads F fail.
Stage(from, to, reads, Rec(_, _)) ==
  /\ pc = from
  /\ pc' = to
  /\ \E F \in Failing(MaxFaults - faults, reads) :
       /\ faults' = faults + Cardinality(F)
       /\ areas' = Rec(areas, F) ++ areas
       /\ ideal' = Rec(ideal, {}) ++ ideal
  /\ UNCHANGED <<site, findings, verdict>>

-----------------------------------------------------------------------------
(* Findings. A finding says which object of which area it is about; a finding *)
(* about a whole area names the area itself.                                  *)

Finding(area, name, kind, sev) == [area |-> area, name |-> name, kind |-> kind, sev |-> sev]
Whole(area, kind, sev) == Finding(area, <<area, "area">>, kind, sev)
When(cond, finding) == IF cond THEN {finding} ELSE {}
Each(area, names, kind, sev) == {Finding(area, n, kind, sev) : n \in names}

Evaluable(A, area) == ~A[area].skipped /\ ~A[area].error
Has(A, area, part) == Evaluable(A, area) /\ part \in DOMAIN A[area]
Over(A, area, bound) == Has(A, area, "count") /\ A[area].count > Limit[bound]
Above(A, area, kind, sev, bound) == When(Over(A, area, bound), Whole(area, kind, sev))

Coverage(A) ==
  {Whole(a, "capability_gap", "info") : a \in {a \in DOMAIN A : A[a].skipped}}
    \cup {Whole(a, "area_error", "warning") : a \in {a \in DOMAIN A : A[a].error}}

RunRules(Rules(_)) ==
  /\ pc = "checks"
  /\ findings' = Coverage(areas) \cup Rules(areas)
  /\ pc' = "analysis"
  /\ UNCHANGED <<site, faults, areas, ideal, verdict>>

-----------------------------------------------------------------------------
(* The verdict. The grade of the AI assessment counts when there is one; the call may *)
(* fail or be switched off.                                                           *)

Verdict(fs, grade) ==
  LET some(sevs) == \E f \in fs : f.sev \in sevs
  IN  CASE some({"high"}) -> "CRITICAL"
        [] ~some({"high"}) /\ (some({"medium", "warning"}) \/ grade = "poor") -> "NEEDS_ATTENTION"
        [] ~some({"high", "medium", "warning"}) /\ grade # "poor" /\ some({"low"}) -> "HEALTHY_WITH_NOTES"
        [] OTHER -> "HEALTHY"

Analyse ==
  /\ pc = "analysis"
  /\ \E grade \in {"none", "good", "poor"} : verdict' = Verdict(findings, grade)
  /\ pc' = "done"
  /\ UNCHANGED <<site, faults, areas, ideal, findings>>
=============================================================================
