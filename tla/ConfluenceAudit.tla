--------------------------- MODULE ConfluenceAudit ---------------------------
(* The audit of a Confluence environment: gather_confluence reads the spaces   *)
(* first and then the areas that depend on them, run_checks_confluence judges  *)
(* the snapshot. An instance is a record:                                      *)
(*   product   "confluence"; dep "cloud" or "dc"                               *)
(*   spaces    sequence of [key, type, current, home, pages, under], under     *)
(*             being the pages below the homepage                              *)
(*   perms     space -> [principal, op, names]s, names being the groups of a   *)
(*             group grant that the API names                                  *)
(*   pages     space -> [restricted, beyond, readable, more]: restricted pages *)
(*             in the first response and beyond it, whether the API returns    *)
(*             restrictions, whether there are more pages                      *)
(*   groups, members, templates, blueprints, labels, content, macros           *)
EXTENDS AuditPipeline

CONSTANTS
  MacroRisk,   \* RISKY_MACROS: macro -> "third_party_app", "removed_builtin", "content_visibility"
  CountCap,    \* _SPACE_PAGECOUNT_CAP
  PermCap,     \* _SPACE_PERM_CAP
  MemberCap    \* _GROUPS_PROBE_CAP

-----------------------------------------------------------------------------
(* The areas and how they are read *)

ContentMetrics == {"pages_total", "stale_pages", "drafts"}
SpaceList == <<<<"space", "list">>, "all">>

\* The pages of a space, unread when the count failed or the space lies beyond the cap.
Pages(sp, counted, F) == IF sp.key \in counted /\ <<sp.key, "pages">> \notin F THEN sp.pages ELSE Unread

\* Pages outside the homepage's subtree: total - below - homepage, for spaces with a homepage.
Orphans(sp, counted, F) ==
  IF Pages(sp, counted, F) # Unread /\ sp.home /\ <<sp.key, "under">> \notin F
  THEN Max({sp.pages - sp.under - 1, 0}) ELSE Unread

\* Global spaces are recorded one by one, archived and personal ones are counted.
GlobalSpaces(rows) ==
  LET upto[n \in 0..Len(rows)] ==
        IF n = 0 THEN <<>>
        ELSE IF rows[n].type = "global" THEN Append(upto[n - 1], rows[n]) ELSE upto[n - 1]
  IN  upto[Len(rows)]
PersonalSpaces(rows) == SelectSeq(rows, LAMBDA sp : sp.type = "personal")
ArchivedSpaces(rows) == SelectSeq(rows, LAMBDA sp : ~sp.current)
Spaces(A, F) ==
  LET rows == Cut(site.spaces, SpaceList \in F)
      global == GlobalSpaces(rows)
      counted == {sp.key : sp \in ToSet(First(global, CountCap))}
      entry(sp) == [current |-> sp.current, home |-> sp.home, pages |-> Pages(sp, counted, F),
                    orphans |-> Orphans(sp, counted, F)]
  IN  [spaces |-> Read(SpaceList \in F,
        [by_space |-> [k \in {sp.key : sp \in ToSet(global)} |->
                         entry(CHOOSE sp \in ToSet(global) : sp.key = k)],
         order |-> [i \in DOMAIN global |-> global[i].key],
         count |-> Len(rows),
         personal |-> Len(PersonalSpaces(rows)),
         archived |-> Len(ArchivedSpaces(rows)),
         capped |-> Len(global) > CountCap])]
SpaceKeys == {sp.key : sp \in ToSet(site.spaces)}
GatherSpaces ==
  Stage("spaces", "space_permissions", {SpaceList} \cup SpaceKeys \X {"pages", "under"}, Spaces)

\* The probes of the first PermCap global spaces: the area is in error when all of them fail;
\* when some do, the others are kept and the failure is noted.
PerSpace(area, A, F, Probe(_)) ==
  LET order == A["spaces"].order
      probed == ToSet(First(order, PermCap))
  IN  [a \in {area} |->
         Read(probed # {} /\ probed \subseteq F,
              [by_space |-> [k \in probed \ F |-> Probe(k)],
               partly |-> probed \cap F # {} /\ ~(probed \subseteq F),
               capped |-> Len(order) > PermCap])]

\* Mutant: without an anonymous principal the space is taken for private.
ReducedPrivate(k) ==
  [types |-> {r.principal : r \in site.perms[k]}, ops |-> {r.op : r \in site.perms[k]},
   admin |-> \E r \in site.perms[k] : r.op = "administer",
   anonymous |-> IF ~Cloud /\ \E r \in site.perms[k] : r.principal = "anonymous" THEN "yes" ELSE "no",
   grants |-> {}, hidden |-> \E r \in site.perms[k] : r.principal = "group"]

\* The permissions of a space reduced to types. Cloud does not tell about anonymous access,
\* and names no group.
Reduced(k) ==
  LET rows == site.perms[k]
      names == IF Cloud THEN {} ELSE UNION {r.names : r \in rows}
  IN  [types |-> {r.principal : r \in rows},
       ops |-> {r.op : r \in rows},
       admin |-> \E r \in rows : r.op = "administer",
       anonymous |-> IF Cloud THEN "unknown"
                     ELSE IF \E r \in rows : r.principal = "anonymous" THEN "yes" ELSE "no",
       grants |-> names,
       hidden |-> names = {} /\ \E r \in rows : r.principal = "group"]
SpacePermissions(A, F) == PerSpace("space_permissions", A, F, Reduced)
GatherPermissions == Stage("space_permissions", "page_restrictions", SpaceKeys, SpacePermissions)

\* One response per space, its restricted pages counted.
Sampled(k) ==
  [restricted |-> IF site.pages[k].readable THEN site.pages[k].restricted ELSE 0,
   evaluable |-> site.pages[k].readable, more |-> site.pages[k].more]
Restrictions(A, F) == PerSpace("page_restrictions", A, F, Sampled)
GatherRestrictions == Stage("page_restrictions", "directory", SpaceKeys, Restrictions)

\* The members of the first MemberCap groups; a failed probe leaves no count.
DirectoryList == <<"group", "list">>
Directory(A, F) ==
  LET rows == Cut(site.groups, DirectoryList \in F)
  IN  [groups |-> Read(DirectoryList \in F,
        [names |-> rows, members |-> [g \in ToSet(First(rows, MemberCap)) \ F |-> site.members[g]],
         capped |-> Len(rows) > MemberCap])]
GatherDirectory == Stage("directory", "templates", {DirectoryList} \cup ToSet(site.groups), Directory)

Templates(A, F) ==
  [templates |-> Read(F # {}, [count |-> IF "page" \in F THEN Unread ELSE site.templates,
                               blueprints |-> IF "blueprint" \in F THEN Unread ELSE site.blueprints])]
GatherTemplates == Stage("templates", "labels", {"page", "blueprint"}, Templates)

Labels(A, F) == [labels |-> Read(F # {}, [count |-> IF F = {} THEN site.labels ELSE Unread])]
GatherLabels == Stage("labels", "content", {"label"}, Labels)

\* Counts of one search each; one that fails is Unread, and only when all fail is the area in
\* error.
Search == "search"
Counts(area, counts, F) ==
  LET lost == IF Search \in F THEN DOMAIN counts ELSE F
  IN  [a \in {area} |->
         Read(lost = DOMAIN counts,
              [counts |-> [m \in DOMAIN counts |-> IF m \in lost THEN Unread ELSE counts[m]]])]
Content(A, F) == Counts("content_quality", site.content, F)
GatherContent == Stage("content", "macros", {Search} \cup DOMAIN site.content, Content)

Macros(A, F) == Counts("macros", site.macros, F)
GatherMacros == Stage("macros", "checks", {Search} \cup DOMAIN site.macros, Macros)

-----------------------------------------------------------------------------
(* The rules *)

\* A coverage gap inside an area that is otherwise judged.
Gap(area, reason) == Finding(area, <<area, reason>>, "capability_gap", "info")

SpaceRules(A) ==
  LET by == IF Evaluable(A, "spaces") THEN A["spaces"].by_space ELSE <<>>
      current == {k \in DOMAIN by : by[k].current}
      stray == {k \in current : by[k].orphans > Limit["orphans"]}
      mostly == {k \in stray : by[k].pages > 0 /\ 2 * by[k].orphans > by[k].pages}
      spaces(part, bound) == Evaluable(A, "spaces") /\ A["spaces"][part] > Limit[bound]
  IN  Each("spaces", {k \in current : by[k].pages = 0}, "empty_space", "low")
        \cup Each("spaces", {k \in current : by[k].pages > Limit["largeSpace"]}, "large_space", "medium")
        \cup Each("spaces", {k \in current : ~by[k].home}, "space_no_homepage", "medium")
        \cup Each("spaces", mostly, "orphaned_pages", "high")
        \cup Each("spaces", stray \ mostly, "orphaned_pages", "medium")
        \cup When(spaces("archived", "archived"), Whole("spaces", "archived_space_clutter", "low"))
        \cup When(spaces("personal", "personal"), Whole("spaces", "personal_space_sprawl", "low"))
        \cup When(spaces("count", "spaceCrit"), Whole("spaces", "space_count_near_guardrail", "high"))
        \cup When(spaces("count", "spaceWarn") /\ ~spaces("count", "spaceCrit"),
                  Whole("spaces", "space_count_near_guardrail", "medium"))

WriteOps == {"create", "administer"}

\* Grants to a group are judged by the members the groups area counted; a group without a
\* count is disclosed, not taken for empty.
PermissionRules(A) ==
  LET by == IF Evaluable(A, "space_permissions") THEN A["space_permissions"].by_space ELSE <<>>
      members == IF Evaluable(A, "groups") THEN A["groups"].members ELSE <<>>
      public == {k \in DOMAIN by : by[k].anonymous = "yes"}
      report(ks, kind, sev) == Each("space_permissions", ks, kind, sev)
  IN  report({k \in DOMAIN by : \E g \in by[k].grants \cap DOMAIN members : members[g] = 0},
             "permission_grant_to_empty_group", "medium")
        \cup report({k \in DOMAIN by : ~by[k].admin}, "space_no_admin", "high")
        \cup report(public, "anonymous_space_access", "high")
        \cup report({k \in public : by[k].ops \cap WriteOps # {}}, "anonymous_write_grant", "high")
        \cup report({k \in DOMAIN by : "broad" \in by[k].types}, "space_permission_to_anyone", "medium")
        \cup When(DOMAIN by # {} /\ \A k \in DOMAIN by : by[k].anonymous = "unknown",
                  Gap("space_permissions", "anonymous"))
        \cup When(\E k \in DOMAIN by : by[k].hidden, Gap("space_permissions", "names"))
        \cup When(\E k \in DOMAIN by : by[k].grants \ DOMAIN members # {}, Gap("space_permissions", "members"))

\* Caps and partial failures are disclosed whether or not the area could be judged.
SamplingRules(A) ==
  {Gap(a, "cap") : a \in {a \in {"spaces", "space_permissions", "page_restrictions"} : A[a].capped}}
    \cup {Gap(a, "probe") : a \in {a \in {"space_permissions", "page_restrictions"} : A[a].partly}}

RestrictionRules(A) ==
  LET by == IF Evaluable(A, "page_restrictions") THEN A["page_restrictions"].by_space ELSE <<>>
      readable == {k \in DOMAIN by : by[k].evaluable}
  IN  Each("page_restrictions", {k \in readable : by[k].restricted > 0}, "restricted_pages", "medium")
        \cup When(DOMAIN by # {} /\ readable = {}, Gap("page_restrictions", "unreadable"))
        \cup When(readable # {} /\ \E k \in DOMAIN by : by[k].more, Gap("page_restrictions", "sample"))

CountsOf(A, area) == IF Evaluable(A, area) THEN A[area].counts ELSE <<>>

ContentRules(A) ==
  LET q == CountsOf(A, "content_quality")
  IN  IF q = <<>> THEN {}
      ELSE When(/\ q["stale_pages"] # Unread
                /\ q["pages_total"] > 0
                /\ 2 * q["stale_pages"] > q["pages_total"],
                Whole("content_quality", "stale_page_ratio_high", "medium"))
             \cup When(q["drafts"] > Limit["drafts"], Whole("content_quality", "drafts_pileup", "low"))

MacroRules(A) ==
  LET used == {m \in DOMAIN CountsOf(A, "macros") : CountsOf(A, "macros")[m] > 0}
      risky(risk) == {<<m>> : m \in {m \in used : MacroRisk[m] = risk}}
  IN  Each("macros", risky("content_visibility"), "cross_space_include_risk", "medium")
        \cup Each("macros", risky("third_party_app"), "unsupported_macro_usage", "high")
        \cup Each("macros", risky("removed_builtin"), "unsupported_macro_usage", "medium")

LibraryRules(A) ==
  Above(A, "labels", "label_sprawl", "low", "label")
    \cup Above(A, "templates", "template_sprawl", "low", "template")
    \cup (IF Evaluable(A, "groups")
          THEN Each("groups", {g \in DOMAIN A["groups"].members : A["groups"].members[g] = 0},
                    "confluence_empty_group", "low")
          ELSE {})

ConfluenceRules(A) ==
  SpaceRules(A) \cup PermissionRules(A) \cup SamplingRules(A) \cup RestrictionRules(A)
    \cup ContentRules(A) \cup MacroRules(A) \cup LibraryRules(A)

ConfluenceStage ==
  \/ GatherSpaces \/ GatherPermissions \/ GatherRestrictions \/ GatherDirectory
  \/ GatherTemplates \/ GatherLabels \/ GatherContent \/ GatherMacros
=============================================================================
