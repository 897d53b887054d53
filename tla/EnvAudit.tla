------------------------------ MODULE EnvAudit ------------------------------
(* The stages of an environment audit: gather, checks and analysis, dispatched *)
(* on the product of the connector. Any read may fail; the properties are      *)
(* about what a failed read may do to the findings, which an operator deletes  *)
(* objects on the strength of, and to the verdict.                             *)
EXTENDS JiraAudit, ConfluenceAudit, FixRegistry

\* What the products promise of an instance: lists are lists, the use of a scheme is known for
\* every scheme there is, a key names one space, only grants to groups name groups, and a
\* response that leaves restricted pages out says that there is more.
JiraSite(s) ==
  /\ \A a \in ListAreas : s.lists[a] \in Seq(ToSet(s.lists[a]))
  /\ \A a \in SchemeAreas \cup TypeSchemeAreas : ToSet(s.lists[a]) \subseteq DOMAIN s.using[a]
  /\ s.fields \in Seq(ToSet(s.fields)) /\ s.groups \in Seq(ToSet(s.groups))
  /\ s.workflows \in Seq(ToSet(s.workflows))
ConfluenceSite(s) ==
  /\ s.spaces \in Seq(ToSet(s.spaces)) /\ s.groups \in Seq(ToSet(s.groups))
  /\ DOMAIN s.content = ContentMetrics /\ DOMAIN s.macros # {}
  /\ \A i, j \in DOMAIN s.spaces : s.spaces[i].key = s.spaces[j].key => i = j
  /\ \A sp \in ToSet(s.spaces) :
       /\ sp.key \in DOMAIN s.perms /\ sp.key \in DOMAIN s.pages
       /\ \A r \in s.perms[sp.key] : r.names # {} => r.principal = "group"
  /\ \A k \in DOMAIN s.pages :
       /\ s.pages[k].restricted \in Nat /\ s.pages[k].beyond \in Nat
       /\ s.pages[k].readable /\ s.pages[k].beyond > 0 => s.pages[k].more
ASSUME SitesAssumption ==
  \A s \in Sites : \/ s.product = "jira" /\ JiraSite(s)
                   \/ s.product = "confluence" /\ ConfluenceSite(s)
\* A cap is a number of reads.
ASSUME CapsAssumption == {ScreenCap, GroupCap, OptionCap, BoardCap, ListCap, CountCap, PermCap, MemberCap} \subseteq Nat

Rules(A) == IF site.product = "jira" THEN JiraRules(A) ELSE ConfluenceRules(A)
\* The checks stage, which also attaches to every finding its entry in the registry.
RunChecks == RunRules(Rules)

Done == pc = "done" /\ UNCHANGED vars

Init ==
  /\ site \in Sites
  /\ pc = IF site.product = "jira" THEN "simple" ELSE "spaces"
  /\ faults = 0
  /\ areas = <<>>
  /\ ideal = <<>>
  /\ findings = {}
  /\ verdict = "none"

Next == JiraStage \/ ConfluenceStage \/ RunChecks \/ Analyse \/ Done

Spec == Init /\ [][Next]_vars

-----------------------------------------------------------------------------
(* Properties *)

\* The snapshot and its history cover the same areas; every finding is about one of these
\* areas, so of the product at hand, of a kind the registry of fixes has an entry for and of a
\* severity the verdict counts.
TypeOK ==
  /\ site \in Sites
  /\ faults \in 0..MaxFaults
  /\ DOMAIN areas = DOMAIN ideal
  /\ \A a \in DOMAIN areas : areas[a].skipped \in BOOLEAN /\ areas[a].error \in BOOLEAN
  /\ \A f \in findings : /\ f.area \in DOMAIN areas /\ f.kind \in DOMAIN Fixes
                        /\ f.sev \in {"high", "medium", "low", "warning", "info"}
  /\ verdict \in {"none", "CRITICAL", "NEEDS_ATTENTION", "HEALTHY_WITH_NOTES", "HEALTHY"}

OnTabs(s) == UNION {site.tabs[s][i] : i \in DOMAIN site.tabs[s]}
ScreensRead ==
  /\ areas["screens"] = ideal["screens"]
  /\ Len(site.lists["screens"]) <= ScreenCap
TwinWorkflows ==
  \E i, j \in DOMAIN site.workflows : i # j /\ Norm(site.workflows[i].name) = Norm(site.workflows[j].name)

\* What makes the object of a finding safe to delete.
Disposable(f) ==
  CASE f.kind \in {"scheme_unused", "unused_issue_type_scheme", "unused_issue_type_screen_scheme"} ->
         site.using[f.area][f.name] = {}
    [] f.kind \in {"empty_group", "confluence_empty_group"} -> site.members[f.name] = 0
    [] f.kind = "unused_custom_field" -> \A s \in ToSet(site.lists["screens"]) : f.name \notin OnTabs(s)
    [] f.kind = "empty_screen" -> OnTabs(f.name) = {}
    [] f.kind = "status_not_in_workflow" ->
         \A i \in DOMAIN site.workflows : f.name \notin ToSet(site.workflows[i].statuses)
    [] f.kind = "empty_project" -> site.projects[f.name[1]].issues = 0
    [] f.kind = "empty_space" -> \A sp \in ToSet(site.spaces) : sp.key = f.name => sp.current /\ sp.pages = 0
    [] f.kind = "workflow_unreferenced" -> f.name \notin site.wfUsed
    [] OTHER -> f.name \notin site.screensUsed

\* Whatever reads fail, an object offered for deletion is one nothing uses. Two kinds of
\* evidence are weaker than the rules assume: the fields of a screen that was read in part or
\* lies beyond the cap, and the statuses of a workflow dropped because another one's name
\* normalises to the same key.
NeverAccusesUsed ==
  \A f \in findings : f.kind \in AppKinds =>
    \/ Disposable(f)
    \/ f.kind \in {"unused_custom_field", "empty_screen"} /\ ~ScreensRead
    \/ f.kind = "status_not_in_workflow" /\ TwinWorkflows

\* The areas a finding is derived from.
Sources(f) ==
  {f.area} \cup
  (CASE f.kind = "unused_custom_field" -> {"screens"}
     [] f.kind = "status_not_in_workflow" -> {"workflows"}
     [] f.kind = "workflow_unreferenced" -> {"workflow_schemes"}
     [] f.kind = "screen_not_in_scheme" -> {"screen_schemes"}
     [] f.kind = "large_option_set" -> {"custom_fields"}
     [] f.area \in {"space_permissions", "page_restrictions"} -> {"spaces"}
     [] OTHER -> {})

\* What the report says about an area that was not read in full.
Failed(a) == Whole(a, "area_error", "warning") \in findings
Disclosed(a, reasons) == Failed(a) \/ \E r \in reasons : Gap(a, r) \in findings

\* The parts of a snapshot a failed read leaves out without marking the area: the use of a
\* scheme, the screen whose task raised, the group whose probe failed, the pages of a space,
\* one count of several.
SilentHole(a) ==
  \/ a \in SchemeAreas \cup TypeSchemeAreas /\ DOMAIN areas[a] # DOMAIN ideal[a]
  \/ a = "screens" /\ Has(areas, a, "fields") /\ DOMAIN areas[a].fields # DOMAIN ideal[a].fields
  \/ a = "groups" /\ Evaluable(areas, a) /\ DOMAIN areas[a].members # DOMAIN ideal[a].members
  \/ a = "issue_quality" /\ Unread \in {areas[a].count[m] : m \in Metrics}
  \/ a = "spaces" /\ areas[a].by_space # ideal[a].by_space
  \/ a \in {"content_quality", "macros"} /\ areas[a].counts # ideal[a].counts

\* A finding the same instance gives when no read fails is missing only where the report says
\* that an area it comes from was not read in full, or where the snapshot has one of the
\* holes above. No other failure can turn a defect into a clean report.
NothingHidden ==
  pc = "done" =>
    \A f \in Rules(ideal) \ findings :
      \E a \in Sources(f) : Disclosed(a, {"probe", "members"}) \/ SilentHole(a)

\* The two silent cases of DangersDisclosed. A space that is not global, personal spaces and
\* those of other types, is counted and never probed. The restrictions of a space whose API
\* does not return them go unsaid when it returns those of another space.
NeverProbed(sp) == sp.type # "global"
Drowned(sp) == ~site.pages[sp.key].readable /\ \E l \in DOMAIN site.pages : site.pages[l].readable

\* A dangerous global space is reported, or the report says that this danger could not be
\* judged everywhere: a public space, a space without an administrator, a grant to an empty
\* group (who joins the group gets the space), a page whose restriction may not migrate.
\* Of the dangers of spaces that are not global the report says nothing (NeverProbed); of
\* those of a global one it is silent only about restrictions, and only when Drowned.
DangersDisclosed ==
  pc = "done" /\ site.product = "confluence" =>
    \A sp \in ToSet(site.spaces) :
      LET k == sp.key
          p == "space_permissions"
          reported(area, kind) == \E f \in findings : f.area = area /\ f.name = k /\ f.kind = kind
          told(area, reasons) == Failed("spaces") \/ Disclosed(area, {"cap", "probe"} \cup reasons)
      IN  \/ NeverProbed(sp)
          \/ /\ (\E r \in site.perms[k] : r.principal = "anonymous") =>
                  reported(p, "anonymous_space_access") \/ told(p, {"anonymous"})
             /\ (\A r \in site.perms[k] : r.op # "administer") => reported(p, "space_no_admin") \/ told(p, {})
             /\ (\E r \in site.perms[k] : \E g \in r.names : site.members[g] = 0) =>
                  reported(p, "permission_grant_to_empty_group") \/ told(p, {"names", "members"})
             /\ site.pages[k].restricted + site.pages[k].beyond > 0 =>
                  \/ reported("page_restrictions", "restricted_pages")
                  \/ told("page_restrictions", {"unreadable", "sample"})
                  \/ Drowned(sp)
=============================================================================
