----------------------------- MODULE ConfigAudit -----------------------------
(* The configuration audit of a migration: audit_config reads the             *)
(* configuration of the source and of the target area by area, narrows most   *)
(* areas to what the selected projects use, and reports what the target lacks. *)
(*                                                                            *)
(* A pair of sites is a record: projects, the selected ones; dep, per side    *)
(* "cloud" or "dc"; src and tgt, the instances. An instance has               *)
(*   lists      names of every list area, in the order of the API             *)
(*   fields     custom fields [name, type, select, contexts, seenBy]: the     *)
(*              option sets of its contexts, the projects that see one        *)
(*   flows      workflows [name, shape]                                       *)
(*   tabs       screen -> the set of fields on each of its tabs               *)
(*   uses       project -> area -> the names the project's schemes refer to,  *)
(*              in the order of the mapping endpoint                          *)
(*   screensOf  screen scheme -> the screens it refers to                     *)
(*   desk       project -> names of request types and queues                  *)
(*   components, versions   project -> names                                  *)
EXTENDS AuditPipeline

CONSTANTS
  MappingPage,  \* rows of a scheme's mapping that one response holds
  ContextCap,   \* _OPTION_CONTEXT_CAP
  DeepCap       \* _SCREEN_DEEP_CAP

ASSUME CapsAssumption == MappingPage \in Nat /\ ContextCap \in Nat /\ DeepCap \in Nat

\* What Jira promises of an instance: lists are lists, the names of a project's objects are
\* pairs, and what a scheme refers to exists.
SiteAssumption(i, projects) ==
  /\ i.fields \in Seq(ToSet(i.fields)) /\ i.flows \in Seq(ToSet(i.flows))
  /\ \A p \in projects :
       /\ \A n \in ToSet(i.desk[p]) \cup ToSet(i.components[p]) \cup ToSet(i.versions[p]) : n = <<n[1], n[2]>>
       /\ \A a \in {"issue_types", "field_configurations"} : i.uses[p][a] \in Seq(ToSet(i.lists[a]))
       /\ i.uses[p]["screen_schemes"] \in Seq({n \in DOMAIN i.screensOf : i.screensOf[n] \subseteq ToSet(i.lists["screens"])})
ASSUME SitesAssumption ==
  \A st \in Sites : SiteAssumption(st.src, st.projects) /\ SiteAssumption(st.tgt, st.projects)

Sides == {"src", "tgt"}
Projects == site.projects
DcSide == "dc" \in {site.dep[s] : s \in Sides}
Scoping == Projects # {} /\ ~DcSide

Keys(names) == {Norm(n) : n \in names}
KeysOf(records) == {Norm(r.name) : r \in records}
ByKey(records, k) == CHOOSE r \in records : Norm(r.name) = k

-----------------------------------------------------------------------------
(* Lists. <<s, a, "first">> is the read of the first page of area a on side s, which leaves *)
(* nothing when it fails; <<s, a, "later">> of a later page, which leaves the rows so far.   *)

Pages(s, a) == {<<s, a, "first">>, <<s, a, "later">>}
Listed(rows, s, a, F) ==
  IF <<s, a, "first">> \in F THEN <<>> ELSE Cut(rows, <<s, a, "later">> \in F /\ rows # <<>>)
FailedSides(a, F) == {s \in Sides : Pages(s, a) \cap F # {}}

TwoSides(a, F, rows) ==
  Read(FailedSides(a, F) # {},
       [failed |-> FailedSides(a, F),
        src |-> Listed(rows["src"], "src", a, F),
        tgt |-> Listed(rows["tgt"], "tgt", a, F)])
ListRows(a) == [s \in Sides |-> site[s].lists[a]]

\* Mutant: a list that failed on a later page is taken for the whole list.
ListsShort(A, F) ==
  [a \in ListAreas |->
     IF DcSide /\ a \in CloudOnly THEN Skip
     ELSE [TwoSides(a, F, ListRows(a)) EXCEPT !.failed = {s \in @ : <<s, a, "first">> \in F}]]
\* The simple areas, fetched by the pool and merged in a fixed order.
Lists(A, F) ==
  [a \in ListAreas |-> IF DcSide /\ a \in CloudOnly THEN Skip ELSE TwoSides(a, F, ListRows(a))]
ListReads == UNION {Pages(s, a) : s \in Sides, a \in ListAreas}
GatherLists == Stage("lists", "scopes", ListReads, Lists)

-----------------------------------------------------------------------------
(* What the selected projects use. An area can be narrowed when the walk from every         *)
(* project to its names succeeded on both sides. Each step of a walk is one read per        *)
(* project; the read of the project's id counts to the first step.                          *)

Walk == [
  workflow_schemes |-> {"workflowScheme"}, workflows |-> {"workflowScheme"},
  issuetype_screen_schemes |-> {"screens"}, screen_schemes |-> {"screens", "screenMap", "screenSchemes"},
  screens |-> {"screens", "screenMap", "screenSchemes"},
  issuetype_schemes |-> {"types"}, issue_types |-> {"types", "typeMap"},
  field_config_schemes |-> {"configs"}, field_configurations |-> {"configs", "configMap"},
  permission_schemes |-> {"permissions"}, notification_schemes |-> {"notifications"},
  statuses |-> {"statuses"}]
Steps(as) == {<<s, p, r>> : s \in Sides, p \in Projects, r \in UNION {Walk[a] : a \in as}}

\* The names a walk finds: the mapping endpoints are read without pagination, and ids are
\* turned into names by the list of the area, as far as it was read.
Mapped(s, p, a) == ToSet(First(site[s].uses[p][a], MappingPage))
Found(s, p, a, A) ==
  CASE a = "screens" -> ToSet(A[a][s]) \cap UNION {site[s].screensOf[n] : n \in Mapped(s, p, "screen_schemes")}
    [] a \in {"issue_types", "field_configurations"} -> Mapped(s, p, a) \cap ToSet(A[a][s])
    [] a = "screen_schemes" -> Mapped(s, p, a)
    [] OTHER -> ToSet(site[s].uses[p][a])

Resolved(s, a, A, F) ==
  \A p \in Projects : (\A r \in Walk[a] : <<s, p, r>> \notin F) /\ Found(s, p, a, A) # {}

Scope(ok, names) == [ok |-> Scoping /\ ok, keys |-> {Norm(n) : n \in names}]
\* Mutant: one side that resolved is enough.
WalkScopeOneSided(a, A, F) ==
  LET used == UNION {Found(s, p, a, A) : s \in {s \in Sides : Resolved(s, a, A, F)}, p \in Projects}
  IN  Scope(\E s \in Sides : Resolved(s, a, A, F), used)
\* The union of what both sides use; either side that cannot tell leaves the area unscoped.
FoundBySides(a, A) == UNION {UNION {Found(s, p, a, A) : p \in Projects} : s \in Sides}
WalkScope(a, A, F) ==
  IF ~Scoping THEN Scope(FALSE, {})
  ELSE Scope(\A s \in Sides : Resolved(s, a, A, F), FoundBySides(a, A))

ListScoped == DOMAIN Walk \ {"workflows", "screens"}
Scopes(A, F) == [a \in {a \in ListScoped : ~A[a].skipped} |-> [scope |-> WalkScope(a, A, F)] ++ A[a]]
GatherScopes == Stage("scopes", "fields", Steps(ListScoped), Scopes)

-----------------------------------------------------------------------------
(* Custom fields: presence, type, and the options of select fields. <<s, "context", n>> is  *)
(* the read that tells whether a project sees field n, <<s, "contexts", n>> the list of its *)
(* contexts, <<s, "options", n>> the options of the first of them.                          *)

FieldNames(s) == {site[s].fields[i].name : i \in DOMAIN site[s].fields}
ContextReads == UNION {{<<s, r, n>> : r \in {"context", "contexts", "options"}, n \in FieldNames(s)} : s \in Sides}

InScope(s, f, F) == <<s, "context", f.name>> \in F \/ f.seenBy \cap Projects # {}
OptionsOf(s, f, F) ==
  IF <<s, "contexts", f.name>> \in F THEN {}
  ELSE LET read == First(f.contexts, ContextCap)
       IN  UNION {read[i] : i \in {i \in DOMAIN read : i > 1 \/ <<s, "options", f.name>> \notin F}}

FieldList(A, F) ==
  [custom_fields |-> TwoSides("fields", F, [s \in Sides |-> site[s].fields])]
GatherFields == Stage("fields", "contexts", {<<s, "fields", "first">> : s \in Sides}, FieldList)

FieldDetail(A, F) ==
  LET list == A["custom_fields"]
      kept(s) == FirstOfName(list[s])
      used(s) == {f.name : f \in {f \in kept(s) : InScope(s, f, F)}}
  IN  [custom_fields |->
        [scope |-> Scope(\A s \in Sides : <<s, "ids", <<>>>> \notin F, used("src") \cup used("tgt")),
         options |-> [s \in Sides |-> [n \in {f.name : f \in kept(s)} |->
                        OptionsOf(s, CHOOSE f \in kept(s) : f.name = n, F)]]] ++ list]
GatherContexts ==
  Stage("contexts", "workflows", ContextReads \cup {<<s, "ids", <<>>>> : s \in Sides}, FieldDetail)

-----------------------------------------------------------------------------
(* Workflows, screens and what belongs to one project *)

Flows(A, F) ==
  LET list == TwoSides("workflows", F, [s \in Sides |-> site[s].flows])
  IN  [workflows |-> [scope |-> WalkScope("workflows", A, F)] ++ list]
GatherWorkflows ==
  Stage("workflows", "screens", Steps({"workflows"}) \cup UNION {Pages(s, "workflows") : s \in Sides}, Flows)

Screens(A, F) == [screens |-> [scope |-> WalkScope("screens", A, F)] ++ A["screens"]]
GatherScreens == Stage("screens", "tabs", Steps({"screens"}), Screens)

\* Narrowing keeps the rows whose key is in scope, on both sides.
Narrowed(A, a) == "scope" \in DOMAIN A[a] /\ A[a].scope.ok
\* Mutant: each side is narrowed to what that side uses.
RowsInOwnScope(A, a, s) ==
  {n \in ToSet(A[a][s]) :
     Narrowed(A, a) => Norm(n) \in UNION {Keys(ToSet(site[s].uses[p][a])) : p \in Projects}}
RowsIn(A, a, s) == {n \in ToSet(A[a][s]) : Narrowed(A, a) => Norm(n) \in A[a].scope.keys}

\* The first screen of a key on one side, the one whose fields are read. Screens whose key is
\* on both sides; those before a screen when they are sorted, as the lists stand; those up to
\* the cap.
ScreenOf(A, s, k) == LET rows == A["screens"][s] IN rows[CHOOSE i \in DOMAIN rows :
  Norm(rows[i]) = k /\ \A j \in 1..(i - 1) : Norm(rows[j]) # k]
InBoth(A) ==
  {n \in RowsIn(A, "screens", "src") :
     Norm(n) \in Keys(RowsIn(A, "screens", "tgt")) /\ n = ScreenOf(A, "src", Norm(n))}
Before(A, n) ==
  LET rows == A["screens"]["src"]
  IN  {m \in InBoth(A) : \E j \in DOMAIN rows : rows[j] = n /\ \E i \in 1..(j - 1) : rows[i] = m}
Common(A) == {n \in InBoth(A) : Cardinality(Before(A, n)) < DeepCap}
\* <<s, n, 0>> is the read of the tabs of screen n, <<s, n, i>> of the fields of the i-th.
TabReads == UNION {UNION {{<<s, n, i>> : i \in 0..Len(site[s].tabs[n])} : n \in DOMAIN site[s].tabs} : s \in Sides}
FieldsOn(s, n, F) ==
  IF <<s, n, 0>> \in F THEN {}
  ELSE UNION {site[s].tabs[n][i] : i \in {i \in DOMAIN site[s].tabs[n] : <<s, n, i>> \notin F}}
Tabs(A, F) ==
  [screens |-> [fields |-> [s \in Sides |-> [k \in Keys(Common(A)) |-> FieldsOn(s, ScreenOf(A, s, k), F)]]]
                ++ A["screens"]]
GatherTabs == Stage("tabs", "projects", TabReads, Tabs)

\* One read per side and project; a project one side of which failed is not compared.
ProjectAreas == {"jsm", "components", "versions"}
ProjectLists(A, F) ==
  [a \in ProjectAreas |-> Read(FALSE, [failed |-> {w \in Sides \X Projects : <<w[1], w[2], a>> \in F}])]
ProjectReads == {<<s, p, a>> : s \in Sides, p \in Projects, a \in ProjectAreas}
GatherProjects == Stage("projects", "compare", ProjectReads, ProjectLists)

-----------------------------------------------------------------------------
(* Findings *)

Errors(A, a) == {Finding(a, <<s>>, "area_error", "error") : s \in A[a].failed}
Missing(a, src, tgt) == Each(a, src \ tgt, "missing_in_tgt", "gap")

ListFindings(A) ==
  UNION {Errors(A, a) \cup Missing(a, Keys(RowsIn(A, a, "src")), Keys(RowsIn(A, a, "tgt"))) :
           a \in {a \in ListAreas : ~A[a].skipped}}

\* Records of an area keyed by normalized name, narrowed to the scope.
RecordsIn(A, a, s) ==
  {r \in FirstOfName(A[a][s]) : A[a].scope.ok => Norm(r.name) \in A[a].scope.keys}
Both(A, a) == KeysOf(RecordsIn(A, a, "src")) \cap KeysOf(RecordsIn(A, a, "tgt"))
RecordFindings(A, a) == Errors(A, a) \cup Missing(a, KeysOf(RecordsIn(A, a, "src")), KeysOf(RecordsIn(A, a, "tgt")))
Pair(A, a, k) == [s \in Sides |-> ByKey(RecordsIn(A, a, s), k)]

\* Mutant: the options are compared for a Data Center pair, which has no endpoint for them.
FieldFindingsAlways(A) ==
  LET a == "custom_fields"
      options(k) == [s \in Sides |-> A[a].options[s][Pair(A, a, k)[s].name]]
  IN  Each(a, {k \in Both(A, a) : Pair(A, a, k).src.type # Pair(A, a, k).tgt.type}, "type_mismatch", "gap")
        \cup Each(a, {k \in Both(A, a) : /\ Pair(A, a, k).src.select
                                         /\ ~(options(k).src \subseteq options(k).tgt)}, "option_mismatch", "gap")
FieldFindings(A) ==
  LET a == "custom_fields"
      options(k) == [s \in Sides |-> A[a].options[s][Pair(A, a, k)[s].name]]
  IN  Each(a, {k \in Both(A, a) : Pair(A, a, k).src.type # Pair(A, a, k).tgt.type}, "type_mismatch", "gap")
        \cup Each(a, {k \in Both(A, a) : /\ ~DcSide /\ Pair(A, a, k).src.select
                                         /\ ~(options(k).src \subseteq options(k).tgt)}, "option_mismatch", "gap")

FlowFindings(A) ==
  LET a == "workflows"
  IN  Each(a, {k \in Both(A, a) : ~DcSide /\ Pair(A, a, k).src.shape # Pair(A, a, k).tgt.shape},
           "structure_mismatch", "gap")

TabFindings(A) ==
  Each("screens", {k \in Keys(Common(A)) : ~(A["screens"].fields.src[k] \subseteq A["screens"].fields.tgt[k])},
       "field_mismatch", "gap")

\* What belongs to one project: the names of a finding start with the project.
RowsOf(s, a, p) == IF a = "jsm" THEN site[s].desk[p] ELSE site[s][a][p]
FailedFor(A, a, p) == {s \in Sides : <<s, p>> \in A[a].failed}
LostOf(a, p) ==
  {<<p>> \o k : k \in Keys(ToSet(RowsOf("src", a, p))) \ Keys(ToSet(RowsOf("tgt", a, p)))}
OneProject(A, a, p) ==
  IF FailedFor(A, a, p) # {}
  THEN Each(a, {IF a = "jsm" THEN <<p>> ELSE <<p, s>> : s \in FailedFor(A, a, p)}, "area_error", "error")
  ELSE Each(a, LostOf(a, p), "missing_in_tgt", "gap")
ProjectFindings(A) == UNION {UNION {OneProject(A, a, p) : p \in Projects} : a \in ProjectAreas}

AllFindings(A) ==
  ListFindings(A) \cup RecordFindings(A, "custom_fields") \cup FieldFindings(A)
    \cup RecordFindings(A, "workflows") \cup FlowFindings(A) \cup TabFindings(A) \cup ProjectFindings(A)

Compare ==
  /\ pc = "compare"
  /\ findings' = AllFindings(areas)
  /\ pc' = "done"
  /\ UNCHANGED <<site, faults, areas, ideal, verdict>>

Done == pc = "done" /\ UNCHANGED vars

Init ==
  /\ site \in Sites
  /\ pc = "lists"
  /\ faults = 0
  /\ areas = <<>>
  /\ ideal = <<>>
  /\ findings = {}
  /\ verdict = "none"

Next ==
  \/ GatherLists \/ GatherScopes \/ GatherFields \/ GatherContexts \/ GatherWorkflows
  \/ GatherScreens \/ GatherTabs \/ GatherProjects \/ Compare \/ Done

Spec == Init /\ [][Next]_vars

-----------------------------------------------------------------------------
(* Properties *)

\* Findings are of the kinds their area has, and nothing is compared that a Data Center site
\* has no endpoint for. Every side that was not read has its own error, in the lists and
\* records for the area, in the objects of projects for the project.
TypeOK ==
  /\ site \in Sites /\ faults \in 0..MaxFaults /\ DOMAIN areas = DOMAIN ideal
  /\ \A f \in findings :
       /\ f.kind \in {"missing_in_tgt", "area_error"} \cup
            (CASE f.area = "custom_fields" -> {"type_mismatch", "option_mismatch"}
               [] f.area = "workflows" -> {"structure_mismatch"}
               [] f.area = "screens" -> {"field_mismatch"}
               [] OTHER -> {})
       /\ f.kind \in {"option_mismatch", "structure_mismatch"} => ~DcSide
       /\ f.area \in DOMAIN areas /\ ~areas[f.area].skipped
  /\ pc = "done" => \A a \in {a \in DOMAIN areas : ~areas[a].skipped} : \A w \in areas[a].failed :
       IF a \in ProjectAreas
       THEN Finding(a, IF a = "jsm" THEN <<w[2]>> ELSE <<w[2], w[1]>>, "area_error", "error") \in findings
       ELSE Finding(a, <<w>>, "area_error", "error") \in findings

Told(a) == \E f \in findings : f.area = a /\ f.kind = "area_error"

\* An object of an area in which only some reads of one project failed.
Object(f) == IF f.area \in ProjectAreas THEN f.name[1] ELSE f.name
ToldOf(f) ==
  IF f.area \in ProjectAreas
  THEN \E g \in findings : g.area = f.area /\ g.kind = "area_error" /\ g.name[1] = Object(f)
  ELSE Told(f.area)

\* The errors audit_config discards. An option of the source that was not read is missing
\* nowhere; neither is a field of a screen of the source. A lost option or field of the
\* target hides nothing.
OptionsLost(k) ==
  LET n == Pair(ideal, "custom_fields", k).src.name
  IN  areas["custom_fields"].options.src[n] # ideal["custom_fields"].options.src[n]
TabsLost(k) ==
  k \in DOMAIN areas["screens"].fields.src /\ areas["screens"].fields.src[k] # ideal["screens"].fields.src[k]

\* A walk to the screens that fails widens the comparison to all screens: one that a selected
\* project uses may then be past the cap, and its fields are not compared. The area's
\* summary, but no finding, says that it is capped.
PushedOut(k) ==
  /\ Narrowed(ideal, "screens") /\ ~Narrowed(areas, "screens")
  /\ k \in Keys(InBoth(areas)) \ Keys(Common(areas))

\* "It must NEVER hide a real gap": a finding that the audit gives when no read fails is also
\* given when reads fail, or the area, for a project's objects the project, has an error.
\* Three losses go unsaid: the options of this very field on the source, the fields of this
\* very screen on the source, and a screen pushed out of the deep check.
NothingHidden ==
  pc = "done" =>
    \A f \in AllFindings(ideal) \ findings :
      \/ ToldOf(f)
      \/ f.kind = "option_mismatch" /\ OptionsLost(f.name)
      \/ f.kind = "field_mismatch" /\ (TabsLost(f.name) \/ PushedOut(f.name))

\* The same areas, compared instance-wide.
Wide(A) ==
  [a \in DOMAIN A |-> IF "scope" \in DOMAIN A[a] THEN [A[a] EXCEPT !.scope.ok = FALSE] ELSE A[a]]

\* The keys of an area that the selected projects use on the source, and those of them that
\* the first page of the mapping leaves out.
SchemesUsed(p, all) == LET u == site.src.uses[p]["screen_schemes"] IN ToSet(IF all THEN u ELSE First(u, MappingPage))
Used(p, a, all) ==
  CASE a = "screens" -> UNION {site.src.screensOf[n] : n \in SchemesUsed(p, all)}
    [] a = "screen_schemes" -> SchemesUsed(p, all)
    [] a \in {"issue_types", "field_configurations"} /\ ~all -> Mapped("src", p, a)
    [] OTHER -> ToSet(site.src.uses[p][a])
UsedKeys(a, all) == UNION {Keys(Used(p, a, all)) : p \in Projects}
FieldsUsed == {Norm(site.src.fields[i].name) : i \in {i \in DOMAIN site.src.fields : site.src.fields[i].seenBy \cap Projects # {}}}
Shadowed ==
  {Norm(site.src.fields[i].name) : i \in {i \in DOMAIN site.src.fields :
     \E j \in 1..(i - 1) : Norm(site.src.fields[j].name) = Norm(site.src.fields[i].name)}}

\* "Scoping may only ever NARROW over-reporting": an object that a selected project uses on
\* the source and that the target lacks is never lost by the narrowing, whichever of the
\* walks fail and at whatever depth. Two uses are missed without a failure: one beyond the
\* first page of its scheme's mapping, and a field behind another one of the same key.
ScopeHidesNothing ==
  pc = "done" =>
    \A f \in ListFindings(Wide(areas)) \cup RecordFindings(Wide(areas), "custom_fields")
               \cup RecordFindings(Wide(areas), "workflows") :
      f \notin findings =>
        \/ Told(f.area)
        \/ f.area = "custom_fields" /\ (f.name \notin FieldsUsed \/ f.name \in Shadowed)
        \/ f.area # "custom_fields" /\ f.name \notin UsedKeys(f.area, FALSE)

\* A gap is never manufactured: what is reported missing is missing on the target, unless
\* the target's list has an error of its own in the report.
NoFalseGap ==
  pc = "done" =>
    \A f \in findings : f.kind = "missing_in_tgt" =>
      \/ Finding(f.area, <<"tgt">>, "area_error", "error") \in findings
      \/ CASE f.area \in ProjectAreas -> \A n \in ToSet(RowsOf("tgt", f.area, f.name[1])) : <<f.name[1]>> \o Norm(n) # f.name
           [] f.area = "custom_fields" -> f.name \notin {Norm(n) : n \in FieldNames("tgt")}
           [] f.area = "workflows" -> f.name \notin KeysOf(ToSet(site.tgt.flows))
           [] OTHER -> f.name \notin Keys(ToSet(site.tgt.lists[f.area]))
=============================================================================
