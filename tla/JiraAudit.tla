------------------------------ MODULE JiraAudit ------------------------------
(* The audit of a Jira environment: gather_config reads the configuration area *)
(* by area, run_checks judges the snapshot.                                    *)
(*                                                                             *)
(* A name is a sequence of strings, <<base, form>>: the form is what a         *)
(* migration or a user made of the base name. An instance of Jira is a         *)
(* record, one field per kind of object:                                       *)
(*   product    "jira"; dep "cloud" or "dc"                                    *)
(*   lists      names of every list area, in the order of the API              *)
(*   tabs       screen -> for each of its tabs, the fields on it               *)
(*   fields     names of the custom fields, sorted; foreign: those of apps;    *)
(*              options: select field -> number of options                     *)
(*   using      scheme area -> scheme -> projects that use it                  *)
(*   wfUsed, screensUsed   what the schemes refer to                           *)
(*   workflows  [name, statuses, moves], a move being [to, from, type]         *)
(*   grants     permission scheme -> [perm, holder]s                           *)
(*   groups, members, components, versions, boards, projects, shared,          *)
(*   quality, plugins                                                          *)
EXTENDS AuditPipeline

CONSTANTS
  Defaults,       \* base names of the resolutions Jira ships with
  TerminalNames,  \* base names the terminal-status pattern matches
  AdminNames,     \* base names the admin-group patterns match
  ScreenCap,      \* _SCREEN_DEEP_CAP
  GroupCap,       \* _GROUPS_PROBE_CAP
  OptionCap,      \* _CUSTOM_FIELD_OPTIONS_CAP
  BoardCap,       \* _BOARD_CAP
  ListCap         \* _FILTER_CAP and _DASHBOARD_CAP

-----------------------------------------------------------------------------
(* Names *)

HasSuffix(n) == n[2] \in {"migrated", "copy"}
Strip(n) == <<n[1], "plain">>

\* Names that normalise to a name earlier in the list.
Later(ns) == {ns[i] : i \in {i \in DOMAIN ns : \E j \in 1..(i - 1) : Norm(ns[j]) = Norm(ns[i])}}

-----------------------------------------------------------------------------
(* The areas and how they are read *)

SchemeAreas == {"workflow_schemes", "screen_schemes", "field_config_schemes"}
TypeSchemeAreas == {"issuetype_schemes", "issuetype_screen_schemes"}
Metrics == {"done_unresolved", "stale_open", "unassigned_unresolved", "resolved_but_open",
            "total_unresolved"}

\* The list areas, read by the pool and merged in a fixed order.
Lists(A, F) ==
  [a \in ListAreas |->
     IF ~Cloud /\ a \in CloudOnly THEN Skip
     ELSE LET rows == Cut(site.lists[a], a \in F)
          IN  Read(a \in F, [names |-> SetToSeq(ToSet(rows)), count |-> Len(rows)])]
GatherSimple == Stage("simple", "screens", ListAreas, Lists)

\* Fields of the first ScreenCap screens, in Cloud. <<s, 0>> is the read of the tabs of s,
\* <<s, i>> of the fields of its tab i, <<s, -1>> stands for a task that raises. A failed tab
\* has no fields, a task that raises no entry.
Deep == ToSet(First(site.lists["screens"], ScreenCap))
ScreenReads == {<<s, i>> : s \in Deep, i \in -1..2}
FieldsOn(s, F) ==
  IF <<s, 0>> \in F THEN {}
  ELSE UNION {site.tabs[s][i] : i \in {i \in DOMAIN site.tabs[s] : <<s, i>> \notin F}}
ScreenFields(A, F) ==
  IF ~Cloud \/ A["screens"].error THEN <<>>
  ELSE [screens |-> [fields |-> [s \in {s \in Deep : <<s, -1>> \notin F} |-> FieldsOn(s, F)]]
                     ++ A["screens"]]
GatherScreenFields == Stage("screens", "fields", ScreenReads, ScreenFields)

Foreign(rows) == SelectSeq(rows, LAMBDA n : n \in site.foreign)
CustomFields(A, F) ==
  LET rows == Cut(site.fields, F # {})
  IN  [custom_fields |-> Read(F # {}, [names |-> rows, count |-> Len(rows), foreign |-> Len(Foreign(rows))])]
GatherFields == Stage("fields", "schemes", {"field"}, CustomFields)

\* Every scheme area is read a second time for the projects that use its schemes, and for the
\* workflows and screens they name; when that read fails the usage is left out.
Refers(a, screens) ==
  CASE a = "workflow_schemes" -> [used |-> site.wfUsed]
    [] a = "screen_schemes" -> [used |-> site.screensUsed \cap screens]
    [] OTHER -> <<>>
SchemeUse(A, F) ==
  [a \in {a \in SchemeAreas : ~A[a].skipped /\ ~A[a].error /\ a \notin F} |->
     [projects_using |-> site.using[a]] ++ Refers(a, ToSet(A["screens"].names)) ++ A[a]]
GatherSchemes == Stage("schemes", "workflows", SchemeAreas, SchemeUse)

\* A transition without source statuses, or from all of them, is global unless it is the
\* initial one.
Edge(m, statuses) ==
  [to |-> m.to, from |-> m.from,
   global |-> \/ m.type = "global"
              \/ /\ m.type # "initial"
                 /\ m.from = {} \/ (statuses # {} /\ statuses \subseteq m.from)]
Creating(moves) == SelectSeq(moves, LAMBDA m : m.type = "initial")
Initial(w) ==
  LET creates == Creating(w.moves)
  IN  IF creates # <<>> THEN creates[1].to
      ELSE IF w.statuses # <<>> THEN w.statuses[1] ELSE <<>>
Detail(w) ==
  [statuses |-> w.statuses, initial |-> Initial(w),
   edges |-> [i \in DOMAIN w.moves |-> Edge(w.moves[i], ToSet(w.statuses))]]

\* Of two workflows whose names normalise to one key only the first is kept.
Workflows(A, F) ==
  LET ws == FirstOfName(Cut(site.workflows, F # {}))
      base == [names |-> SetToSeq({w.name : w \in ws}), count |-> Cardinality(ws),
               structure |-> Cloud]
  IN  [workflows |-> Read(F # {},
        IF Cloud THEN [detail |-> [n \in {w.name : w \in ws} |->
                                     Detail(CHOOSE w \in ws : w.name = n)]] ++ base
        ELSE base)]
GatherWorkflows == Stage("workflows", "grants", {"workflow"}, Workflows)

Grants(A, F) ==
  [permission_scheme_grants |->
     IF ~Cloud THEN Skip ELSE Read(F # {}, [by_scheme |-> IF F = {} THEN site.grants ELSE <<>>])]
GatherGrants == Stage("grants", "groups", {"permissionscheme"}, Grants)

\* The members of the first GroupCap groups are counted; a group whose probe failed has no
\* count, as one beyond the cap.
GroupList == <<"group/bulk", "list">>
Groups(A, F) ==
  LET rows == Cut(site.groups, GroupList \in F)
      probed == ToSet(First(rows, GroupCap))
  IN  [groups |-> IF ~Cloud THEN Skip
                  ELSE Read(GroupList \in F,
                            [names |-> rows, members |-> [g \in probed \ F |-> site.members[g]]])]
GatherGroups == Stage("groups", "projects", {GroupList} \cup ToSet(site.groups), Groups)

\* Components and versions are read project by project; one project that fails is an error of
\* the area.
PerProject(area, content, F) ==
  [a \in {area} |-> Read(F # {}, [by_project |-> [p \in DOMAIN content \ F |-> content[p]]])]
Components(A, F) == PerProject("components", site.components, F)
GatherComponents == Stage("projects", "versions", DOMAIN site.components, Components)
Versions(A, F) == PerProject("versions", site.versions, F)
GatherVersions == Stage("versions", "options", DOMAIN site.versions, Versions)

\* Mutant: a field whose options could not be read has none, and nobody says so.
OptionsUnsaid(A, F) ==
  [custom_field_options |->
    IF ~Cloud THEN Skip
    ELSE Read(FALSE, [by_field |-> [n \in DOMAIN site.options |-> IF n \in F THEN 0 ELSE site.options[n]]])]

\* Options of the first OptionCap select fields among the custom fields read before; a failed
\* field counts 0 options and is an error of the area.
Selects(names) == SelectSeq(names, LAMBDA n : n \in DOMAIN site.options)
Options(A, F) ==
  LET chosen == ToSet(First(Selects(A["custom_fields"].names), OptionCap))
  IN  [custom_field_options |->
        IF ~Cloud THEN Skip
        ELSE Read(F \cap chosen # {},
                  [by_field |-> [n \in chosen |-> IF n \in F THEN 0 ELSE site.options[n]]])]
GatherOptions == Stage("options", "boards", DOMAIN site.options, Options)

\* At most BoardCap boards are counted.
Boards(A, F) ==
  [boards |-> Read(F # {}, [count |-> IF F # {} THEN 0
                                      ELSE IF site.boards > BoardCap THEN BoardCap ELSE site.boards])]
GatherBoards == Stage("boards", "activity", {"board"}, Boards)

\* Issue counts and activity exist in Cloud only.
Activity(A, F) ==
  [projects |-> Read(F # {}, [by_project |->
     IF F # {} THEN <<>>
     ELSE [p \in DOMAIN site.projects |->
             IF Cloud THEN site.projects[p] ELSE [issues |-> Unread, stale |-> FALSE]]])]
GatherProjects == Stage("activity", "shared", {"project/search"}, Activity)

\* Filters and dashboards: at most ListCap rows of each, reduced to the state of the owner and
\* whether the object is shared with everyone.
Shared(A, F) ==
  [a \in {"filters", "dashboards"} |->
     LET rows == First(Cut(site.shared[a], a \in F), ListCap)
         base == [count |-> Len(rows), capped |-> Len(rows) >= ListCap]
     IN  Read(a \in F, IF Cloud THEN [items |-> rows] ++ base ELSE base)]
GatherShared == Stage("shared", "typeschemes", {"filters", "dashboards"}, Shared)

\* Which projects use the issue-type schemes comes from an association endpoint, which lists
\* the schemes some project uses.
TypeSchemeUse(A, F) ==
  [a \in {a \in TypeSchemeAreas : Cloud /\ ~A[a].error /\ a \notin F} |->
     [projects_using |-> [n \in {n \in DOMAIN site.using[a] : site.using[a][n] # {}} |->
                            site.using[a][n]]] ++ A[a]]
GatherTypeSchemes == Stage("typeschemes", "quality", TypeSchemeAreas, TypeSchemeUse)

\* Five counts; one that fails is Unread, and only when all fail is the area in error.
Outage == "search"
Quality(A, F) ==
  LET lost == IF Outage \in F THEN Metrics ELSE F
  IN  [issue_quality |-> Read(lost = Metrics,
        [count |-> [m \in Metrics |-> IF m \in lost THEN Unread ELSE site.quality[m]]])]
GatherQuality == Stage("quality", "plugins", Metrics \cup {Outage}, Quality)

Plugins(A, F) ==
  [plugins |-> IF Cloud THEN Skip
               ELSE Read(F # {}, IF F = {} THEN site.plugins ELSE [user |-> Unread, script |-> FALSE])]
GatherPlugins == Stage("plugins", "checks", {"plugins"}, Plugins)

-----------------------------------------------------------------------------
(* The rules *)

Names(A, area) == IF Evaluable(A, area) THEN A[area].names ELSE <<>>

\* A name that carries a migration suffix and whose base name is there too.
Twins(ns) == {n \in ToSet(ns) : /\ HasSuffix(n)
                                /\ Norm(Strip(n)) \in {Norm(b) : b \in {b \in ToSet(ns) : ~HasSuffix(b)}}}

Originals(ns) == SelectSeq(ns, LAMBDA n : n \notin Twins(ns))
FieldRules(A) ==
  LET ns == Names(A, "custom_fields")
      onScreen == UNION {A["screens"].fields[s] : s \in DOMAIN A["screens"].fields}
  IN  \* A twin belongs to migration_artifact, not to duplicate_field.
      Each("custom_fields", Later(Originals(ns)), "duplicate_field", "medium")
        \cup (IF Has(A, "screens", "fields") /\ DOMAIN A["screens"].fields # {}
              THEN Each("custom_fields", ToSet(ns) \ onScreen, "unused_custom_field", "low") ELSE {})
        \cup When(Over(A, "custom_fields", "fieldCrit"), Whole("custom_fields", "field_sprawl", "high"))
        \cup When(Over(A, "custom_fields", "fieldWarn") /\ ~Over(A, "custom_fields", "fieldCrit"),
                  Whole("custom_fields", "field_sprawl", "medium"))
        \cup Above(A, "custom_fields", "near_field_limit", "medium", "fieldLimit")

ScreenRules(A) ==
  (IF Has(A, "screens", "fields")
   THEN Each("screens", {s \in DOMAIN A["screens"].fields : A["screens"].fields[s] = {}}, "empty_screen", "low")
   ELSE {})
    \cup Above(A, "screens", "screen_sprawl", "low", "screen")

\* The statuses and edges of the workflows, when they were introspected.
DetailOf(A) == IF Has(A, "workflows", "detail") THEN A["workflows"].detail ELSE <<>>
Statuses(A, w) == ToSet(DetailOf(A)[w].statuses)

WorkflowRules(A) ==
  LET D == DetailOf(A)
  IN  When(Evaluable(A, "workflows") /\ ~A["workflows"].structure, Whole("workflows", "capability_gap", "info"))
        \cup Each("workflows", {w \in DOMAIN D : Statuses(A, w) # {} /\ D[w].edges = <<>>},
                  "workflow_no_transitions", "high")
        \cup When(Len(Names(A, "workflows")) > Limit["workflow"], Whole("workflows", "workflow_sprawl", "medium"))

StatusRules(A) ==
  LET inWorkflows == UNION {Statuses(A, w) : w \in DOMAIN DetailOf(A)}
  IN  (IF DOMAIN DetailOf(A) # {}
       THEN Each("statuses", ToSet(Names(A, "statuses")) \ inWorkflows, "status_not_in_workflow", "medium") ELSE {})
        \cup Above(A, "statuses", "status_sprawl", "low", "status")
        \cup Each("statuses", Later(Names(A, "statuses")), "duplicate_status_name", "medium")

\* Mutant: schemes whose use was not read count as unused.
UnusedIfUnread(A, area) ==
  {n \in ToSet(Names(A, area)) :
     ~(Has(A, area, "projects_using") /\ n \in DOMAIN A[area].projects_using
        /\ A[area].projects_using[n] # {})}

\* Members of a scheme area no project uses, when it is known which projects use it.
Unused(A, area) ==
  IF Has(A, area, "projects_using")
  THEN {n \in ToSet(A[area].names) : \/ n \notin DOMAIN A[area].projects_using
                                     \/ A[area].projects_using[n] = {}}
  ELSE {}
SchemeRules(A) == UNION {Each(a, Unused(A, a), "scheme_unused", "low") : a \in SchemeAreas}

OptionRules(A) ==
  LET count == IF Evaluable(A, "custom_field_options") THEN A["custom_field_options"].by_field ELSE <<>>
      above(bound) == {n \in DOMAIN count : count[n] > Limit[bound]}
  IN  Each("custom_field_options", above("optionCrit"), "large_option_set", "medium")
        \cup Each("custom_field_options", above("optionWarn") \ above("optionCrit"), "large_option_set", "low")

CatalogueRules(A) ==
  Above(A, "permission_schemes", "permission_scheme_sprawl", "low", "permScheme")
    \cup Above(A, "resolutions", "resolution_sprawl", "low", "resolution")
    \cup Above(A, "priorities", "priority_sprawl", "low", "priority")
    \cup Above(A, "issue_types", "issue_type_sprawl", "low", "issueType")
    \cup Above(A, "link_types", "link_type_sprawl", "low", "linkType")
    \cup Each("issue_types", Later(Names(A, "issue_types")), "duplicate_issue_type_name", "medium")
    \cup Each("resolutions", {n \in ToSet(Names(A, "resolutions")) : Norm(n) \notin {<<d, "plain">> : d \in Defaults}},
              "unused_resolution", "low")
    \cup (IF Over(A, "priorities", "defaultPriorities")
          THEN Each("priorities", Later(Names(A, "priorities")), "redundant_priority_set", "low") ELSE {})

SizeRules(A) ==
  LET D == DetailOf(A)
      warn == {w \in DOMAIN D : \/ Len(D[w].statuses) > Limit["statusWarn"]
                                \/ Len(D[w].edges) > Limit["transitionWarn"]}
      info == {w \in DOMAIN D : Len(D[w].statuses) > Limit["statusInfo"]}
  IN  Each("workflows", warn, "large_workflow", "medium") \cup Each("workflows", info \ warn, "large_workflow", "low")

\* The graph of one workflow: statuses nothing leads to, statuses nothing leads out of.
Globals(edges) == SelectSeq(edges, LAMBDA e : e.global)
GraphRules(A) ==
  LET D == DetailOf(A)
      edges(w) == ToSet(D[w].edges)
      unreachable(w) == Statuses(A, w) \ ({e.to : e \in edges(w)} \cup {D[w].initial})
      deadEnds(w) == IF \E e \in edges(w) : e.global THEN {}
                     ELSE {s \in Statuses(A, w) : s[1] \notin TerminalNames} \ UNION {e.from : e \in edges(w)}
  IN  (UNION {Each("workflows", {w \o s : s \in unreachable(w)}, "unreachable_status", "medium")
                \cup Each("workflows", {w \o s : s \in deadEnds(w)}, "dead_end_status", "low")
              : w \in DOMAIN D})
        \cup Each("workflows", {w \in DOMAIN D : Len(Globals(D[w].edges)) > Limit["globals"]},
                  "global_transition_overuse", "low")

\* Workflows and screens no scheme refers to, when the references are known.
ReferenceRules(A) ==
  (IF Has(A, "workflow_schemes", "used")
   THEN Each("workflows", ToSet(Names(A, "workflows")) \ A["workflow_schemes"].used, "workflow_unreferenced", "low")
   ELSE {})
    \cup (IF Has(A, "screen_schemes", "used")
          THEN Each("screens", ToSet(Names(A, "screens")) \ A["screen_schemes"].used, "screen_not_in_scheme", "low")
          ELSE {})

TypeSchemeRules(A) ==
  Each("issuetype_schemes", Unused(A, "issuetype_schemes"), "unused_issue_type_scheme", "low")
    \cup Each("issuetype_screen_schemes", Unused(A, "issuetype_screen_schemes"),
              "unused_issue_type_screen_scheme", "low")

GroupRules(A) ==
  LET members == IF Evaluable(A, "groups") THEN A["groups"].members ELSE <<>>
      empty == {g \in DOMAIN members : members[g] = 0}
      bloated == {g \in DOMAIN members : members[g] > Limit["adminMembers"] /\ g[1] \in AdminNames}
  IN  Each("groups", empty, "empty_group", "low")
        \cup Each("groups", bloated, "large_group_admin_bloat", "low")

\* The rows read of one project's versions or components.
RowsOf(A, area) == IF Evaluable(A, area) THEN A[area].by_project ELSE <<>>
EachRow(area, rows, kind) ==
  UNION {{Finding(area, <<p, r.name>>, kind, "low") : r \in rows[p]} : p \in DOMAIN rows}

VersionRules(A) ==
  LET rows == RowsOf(A, "versions")
      late == [p \in DOMAIN rows |-> {v \in rows[p] : ~v.released /\ v.overdue}]
      shelved == [p \in DOMAIN rows |-> {v \in rows[p] : v.archived /\ ~v.released}]
      abandoned == {p \in DOMAIN rows : Cardinality(late[p]) >= Limit["overdue"]}
      mixed == {p \in DOMAIN rows : /\ Cardinality({v \in rows[p] : v.semver}) >= Limit["mix"]
                                    /\ Cardinality({v \in rows[p] : ~v.semver}) >= Limit["mix"]}
  IN  EachRow("versions", late, "version_overdue")
        \cup EachRow("versions", shelved, "version_archived_unreleased")
        \cup Each("versions", {<<p>> : p \in abandoned}, "many_overdue_versions_in_project", "medium")
        \cup Each("versions", {<<p>> : p \in mixed}, "version_naming_inconsistent", "info")

ComponentRules(A) ==
  LET rows == RowsOf(A, "components")
  IN  EachRow("components", [p \in DOMAIN rows |-> {c \in rows[p] : ~c.lead}], "component_no_lead")
        \cup EachRow("components", [p \in DOMAIN rows |-> {c \in rows[p] : c.unassigned}],
                     "component_unassigned_default")

GrantRules(A) ==
  LET by == IF Evaluable(A, "permission_scheme_grants") THEN A["permission_scheme_grants"].by_scheme ELSE <<>>
      granting(holder, perm) == {s \in DOMAIN by : [holder |-> holder, perm |-> perm] \in by[s]}
      report(holder, perm, kind, sev) == Each("permission_scheme_grants", granting(holder, perm), kind, sev)
  IN  report("anyone", "admin", "permission_grant_overly_broad", "medium")
        \cup report("anyone", "browse", "public_browse_grant", "low")
        \cup report("anyone", "write", "anonymous_write_grant", "medium")
        \cup report("loggedIn", "admin", "admin_grant_to_logged_in", "medium")

BoardRules(A) ==
  LET n == Cardinality(DOMAIN site.components)
  IN  When(/\ n > 0
           /\ Has(A, "boards", "count")
           /\ A["boards"].count >= Limit["boardMin"]
           /\ A["boards"].count > Limit["boardRatio"] * n,
           Whole("boards", "board_count_exceeds_projects", "info"))

ProjectRules(A) ==
  LET by == RowsOf(A, "projects")
  IN  Each("projects", {<<p>> : p \in {p \in DOMAIN by : by[p].issues = 0}}, "empty_project", "low")
        \cup Each("projects", {<<p>> : p \in {p \in DOMAIN by : by[p].issues > 0 /\ by[p].stale}},
                  "inactive_project", "medium")

Items(A, area) == IF Has(A, area, "items") THEN ToSet(A[area].items) ELSE {}
SharedRules(A) ==
  LET orphan(area) == \E it \in Items(A, area) : ~it.active
      public(area) == \E it \in Items(A, area) : it.public
  IN  (UNION {When(Has(A, a, "capped") /\ A[a].capped, Whole(a, "dashboard_filter_volume_high", "info"))
                \cup When(orphan(a), Whole(a, "shared_object_owned_by_inactive", "high"))
              : a \in {"filters", "dashboards"}})
        \cup When(public("filters"), Whole("filters", "public_shared_filter", "high"))
        \cup When(public("dashboards"), Whole("dashboards", "public_shared_dashboard", "medium"))

\* A metric that could not be read fires no rule. Backlogs are judged by their size or by
\* their share of all unresolved issues.
QualityRules(A) ==
  LET q == IF Evaluable(A, "issue_quality") THEN A["issue_quality"].count ELSE [m \in Metrics |-> Unread]
      share(m) == q["total_unresolved"] > 0 /\ 2 * q[m] >= q["total_unresolved"]
      backlog(m, bound) == q[m] > 0 /\ (q[m] > Limit[bound] \/ share(m))
      report(cond, kind, sev) == When(cond, Finding("issue_quality", <<kind>>, kind, sev))
  IN  report(q["done_unresolved"] > 0, "done_but_unresolved", "high")
        \cup report(q["resolved_but_open"] > 0, "resolved_but_open", "medium")
        \cup report(backlog("stale_open", "stale"), "stale_open_issues", "medium")
        \cup report(backlog("unassigned_unresolved", "unassigned"), "unassigned_unresolved_high", "low")

ArtifactRules(A) ==
  UNION {Each(a, Twins(Names(A, a)), "migration_artifact", "medium")
         : a \in {"custom_fields", "statuses", "workflows"} \cup SchemeAreas \cup TypeSchemeAreas}

\* Near a recommended maximum (medium), at it (high); issue types are limited per project.
GuardrailRules(A) ==
  LET near(area, kind, warn, limit) ==
        When(Over(A, area, limit), Whole(area, kind, "high"))
          \cup When(Over(A, area, warn) /\ ~Over(A, area, limit), Whole(area, kind, "medium"))
  IN  near("priorities", "near_priority_limit", "priorityNear", "priorityMax")
        \cup near("workflows", "near_workflow_limit", "workflowNear", "workflowMax")
        \cup Above(A, "issue_types", "near_issue_type_limit", "medium", "issueTypeLimit")

\* What blocks a migration from Data Center. The rule on reserved group names reads an area
\* that is always skipped there.
MigrationRules(A) ==
  IF Cloud THEN {}
  ELSE When(Evaluable(A, "custom_fields") /\ A["custom_fields"].foreign > 0,
            Whole("custom_fields", "unsupported_custom_field_type", "high"))
         \cup (IF ~Evaluable(A, "plugins") THEN {}
               ELSE When(A["plugins"].user > 0, Whole("plugins", "apps_to_assess_for_cloud", "medium"))
                      \cup When(A["plugins"].script, Whole("plugins", "script_app_present", "high")))

JiraRules(A) ==
  FieldRules(A) \cup ScreenRules(A) \cup WorkflowRules(A) \cup StatusRules(A)
    \cup SchemeRules(A) \cup OptionRules(A) \cup CatalogueRules(A) \cup SizeRules(A) \cup GraphRules(A)
    \cup ReferenceRules(A) \cup TypeSchemeRules(A) \cup GroupRules(A) \cup VersionRules(A)
    \cup ComponentRules(A) \cup GrantRules(A) \cup BoardRules(A) \cup ProjectRules(A) \cup SharedRules(A)
    \cup QualityRules(A) \cup ArtifactRules(A) \cup GuardrailRules(A) \cup MigrationRules(A)

JiraStage ==
  \/ GatherSimple \/ GatherScreenFields \/ GatherFields \/ GatherSchemes \/ GatherWorkflows
  \/ GatherGrants \/ GatherGroups \/ GatherComponents \/ GatherVersions \/ GatherOptions
  \/ GatherBoards \/ GatherProjects \/ GatherShared \/ GatherTypeSchemes \/ GatherQuality
  \/ GatherPlugins
=============================================================================
