----------------------------- MODULE MCEnvAudit -----------------------------
(* Instances for the environment audit. Jira: one with nothing to report, one *)
(* with every kind of leftover, one past every threshold, one after a         *)
(* migration, on Cloud and on Data Center. Confluence: one with nothing to    *)
(* report, one with dangerous spaces, one past the caps.                      *)
EXTENDS EnvAudit

N(b) == <<b, "plain">>
Move(to, from, type) == [to |-> to, from |-> from, type |-> type]
Workflow(n, statuses, moves) == [name |-> n, statuses |-> statuses, moves |-> moves]

Tidy == [
  product |-> "jira",
  dep |-> "cloud",
  lists |-> [a \in ListAreas |->
               CASE a = "statuses" -> <<N("Open"), N("Done")>>
                 [] a = "screens" -> <<N("Scr"), N("Scr2"), N("Scr3")>>
                 [] OTHER -> <<N("A"), N("B")>>],
  tabs |-> N("Scr") :> <<{N("F")}, {N("G")}>> @@ N("Scr2") :> <<{N("G")}>> @@ N("Scr3") :> <<{N("F")}>>,
  fields |-> <<N("F"), N("G")>>,
  foreign |-> {},
  options |-> N("F") :> 1 @@ N("G") :> 1,
  using |-> [a \in SchemeAreas \cup TypeSchemeAreas |-> N("A") :> {"P"} @@ N("B") :> {"Q"}],
  wfUsed |-> {N("W"), N("V")},
  screensUsed |-> {N("Scr"), N("Scr2"), N("Scr3")},
  workflows |-> <<Workflow(N("W"), <<N("Open"), N("Done")>>,
                           <<Move(N("Open"), {}, "initial"), Move(N("Done"), {N("Open")}, "directed")>>),
                  Workflow(N("V"), <<N("Open")>>, <<Move(N("Open"), {N("Open")}, "initial")>>)>>,
  grants |-> N("A") :> {[perm |-> "admin", holder |-> "group"]} @@ N("B") :> {[perm |-> "browse", holder |-> "loggedIn"]},
  groups |-> <<N("staff"), N("admins")>>,
  members |-> N("staff") :> 3 @@ N("admins") :> 1,
  components |-> "P" :> {[name |-> "c", lead |-> TRUE, unassigned |-> FALSE]} @@ "Q" :> {},
  versions |-> "P" :> {[name |-> "1.0", released |-> TRUE, overdue |-> TRUE, archived |-> TRUE, semver |-> TRUE]} @@ "Q" :> {},
  boards |-> 2,
  projects |-> "P" :> [issues |-> 2, stale |-> FALSE] @@ "Q" :> [issues |-> 1, stale |-> FALSE],
  shared |-> [a \in {"filters", "dashboards"} |-> <<[active |-> TRUE, public |-> FALSE]>>],
  quality |-> [m \in Metrics |-> IF m = "total_unresolved" THEN 3 ELSE 0],
  plugins |-> [user |-> 0, script |-> FALSE]]

\* Objects nothing uses, and the defects of content and permissions.
Messy == [Tidy EXCEPT
  !.lists["statuses"] = @ \o <<N("Lost")>>,
  !.lists["screens"] = <<N("Scr"), N("Bare")>>,
  !.tabs = N("Scr") :> <<{N("F")}>> @@ N("Bare") :> <<{}>>,
  !.using = [a \in SchemeAreas \cup TypeSchemeAreas |-> N("A") :> {"P"} @@ N("B") :> {}],
  !.wfUsed = {N("W")},
  !.screensUsed = {N("Scr")},
  !.workflows = <<@[1], Workflow(N("V"), <<N("Open"), N("Review"), N("Stuck")>>, <<>>),
                  Workflow(N("U"), <<N("Open"), N("Stuck")>>, <<Move(N("Stuck"), {}, "global"),
                                                               Move(N("Open"), {}, "directed")>>)>>,
  !.grants = N("A") :> {[perm |-> p, holder |-> "anyone"] : p \in {"admin", "browse", "write"}}
               @@ N("B") :> {[perm |-> "admin", holder |-> "loggedIn"]},
  !.members = N("staff") :> 0 @@ N("admins") :> 5,
  !.components = "P" :> {[name |-> "c", lead |-> FALSE, unassigned |-> TRUE]} @@ "Q" :> {},
  !.versions = "P" :> {[name |-> "old", released |-> FALSE, overdue |-> TRUE, archived |-> TRUE, semver |-> FALSE],
                        [name |-> "2.0", released |-> TRUE, overdue |-> FALSE, archived |-> FALSE, semver |-> TRUE]}
                 @@ "Q" :> {},
  !.projects = "P" :> [issues |-> 0, stale |-> FALSE] @@ "Q" :> [issues |-> 1, stale |-> TRUE],
  !.shared = [a \in {"filters", "dashboards"} |-> <<[active |-> FALSE, public |-> FALSE], [active |-> TRUE, public |-> TRUE]>>],
  !.quality = [m \in Metrics |-> 2],
  !.foreign = {N("F")},
  !.plugins = [user |-> 1, script |-> TRUE]]

\* Only leftovers of the lowest severity.
Worn == [Tidy EXCEPT
  !.using["screen_schemes"] = N("A") :> {"P"} @@ N("B") :> {},
  !.members = N("staff") :> 0 @@ N("admins") :> 1]

Many(b) == <<N(b), N("B"), N("C"), N("D")>>
Crowded == [Tidy EXCEPT
  !.lists = [a \in ListAreas |-> CASE a = "screens" -> @["screens"] \o <<N("Scr4")>> [] a = "statuses" -> Many("Open") [] OTHER -> Many("A")],
  !.tabs = @ @@ N("Scr4") :> <<{N("H")}>>,
  !.screensUsed = @ \cup {N("Scr4")},
  !.using = [a \in SchemeAreas \cup TypeSchemeAreas |-> [n \in ToSet(Many("A")) |-> {"P"}]],
  !.fields = <<N("F"), N("G"), N("H"), N("I")>>,
  !.options = N("F") :> 3 @@ N("G") :> 5,
  !.boards = 12,
  !.shared = [a \in {"filters", "dashboards"} |-> [i \in 1..3 |-> [active |-> TRUE, public |-> FALSE]]],
  !.workflows = [i \in 1..4 |-> Workflow(<<<<"W", "X", "Y", "Z">>[i], "plain">>, SubSeq(Many("Open"), 1, i),
                                         [j \in 1..i |-> Move(Many("Open")[j], {}, "global")])]]

\* After a migration: twins of names, some with a copy suffix.
T(b) == <<b, "migrated">>
C(b) == <<b, "copy">>
Migrated == [Tidy EXCEPT
  !.lists = [a \in ListAreas |-> CASE a = "screens" -> @["screens"]
                                   [] a = "statuses" -> <<N("Open"), T("Open"), N("Done"), N("Old")>>
                                   [] OTHER -> <<N("A"), T("A"), C("A"), <<"A", "upper">>, T("B")>>],
  !.using = [a \in SchemeAreas \cup TypeSchemeAreas |->
               [n \in {N("A"), T("A"), C("A"), <<"A", "upper">>, T("B")} |-> {"P"}]],
  !.fields = <<N("F"), T("F"), <<"F", "upper">>, N("G"), C("G"), T("H")>>,
  !.workflows = <<@[1], Workflow(T("W"), <<N("Open"), N("Old")>>,
                                 <<Move(N("Open"), {}, "initial"), Move(N("Old"), {N("Open")}, "directed")>>),
                  Workflow(C("W"), <<N("Open")>>, <<Move(N("Open"), {}, "initial")>>)>>]

\* Confluence: a tidy site, one whose spaces are dangerous, one past the caps.
K(b) == <<b, "space">>
Space(k, type, pages, under) == [key |-> K(k), type |-> type, current |-> TRUE, home |-> TRUE, pages |-> pages, under |-> under]
Grant(principal, op, names) == [principal |-> principal, op |-> op, names |-> names]
Own == {Grant("user", "administer", {})}
Sample(restricted, beyond, readable, more) ==
  [restricted |-> restricted, beyond |-> beyond, readable |-> readable, more |-> more]

Wiki == [
  product |-> "confluence",
  dep |-> "dc",
  spaces |-> <<Space("S", "global", 3, 2), Space("T", "global", 1, 0), Space("me", "personal", 0, 0)>>,
  perms |-> K("S") :> Own \cup {Grant("group", "create", {N("staff")})} @@ K("T") :> Own @@ K("me") :> Own,
  pages |-> [k \in {K("S"), K("T"), K("me")} |-> Sample(0, 0, TRUE, FALSE)],
  groups |-> <<N("staff"), N("guests")>>,
  members |-> N("staff") :> 2 @@ N("guests") :> 1 @@ N("late") :> 0,
  templates |-> 1, blueprints |-> 0, labels |-> 1,
  content |-> "pages_total" :> 4 @@ "stale_pages" :> 1 @@ "drafts" :> 0,
  macros |-> "gliffy" :> 0 @@ "chart" :> 0 @@ "include" :> 0]

OpenWiki == [Wiki EXCEPT
  !.spaces = <<Space("S", "global", 6, 1), [Space("T", "global", 0, 0) EXCEPT !.home = FALSE], Space("team", "other", 1, 0),
               Space("me", "personal", 0, 0)>>,
  !.perms = K("S") :> {Grant("anonymous", "create", {}), Grant("broad", "read", {})}
              @@ K("T") :> Own \cup {Grant("group", "read", {N("guests")})} @@ K("team") :> {} @@ K("me") :> Own,
  !.pages = K("S") :> Sample(0, 1, TRUE, TRUE) @@ K("T") :> Sample(1, 0, FALSE, FALSE) @@ K("team") :> Sample(1, 0, TRUE, FALSE)
              @@ K("me") :> Sample(0, 0, TRUE, FALSE),
  !.members = N("staff") :> 2 @@ N("guests") :> 0,
  !.labels = 9, !.templates = 9,
  !.content = "pages_total" :> 4 @@ "stale_pages" :> 3 @@ "drafts" :> 9,
  !.macros = "gliffy" :> 1 @@ "chart" :> 1 @@ "include" :> 1]

BigWiki == [Wiki EXCEPT
  !.spaces = <<Space("S", "global", 9, 8), Space("T", "global", 6, 3), Space("U", "global", 3, 2),
               [Space("V", "global", 0, 0) EXCEPT !.current = FALSE],
               Space("me", "personal", 0, 0), Space("you", "personal", 0, 0)>>,
  !.perms = K("S") :> Own @@ K("T") :> Own \cup {Grant("group", "read", {N("late")})} @@ K("U") :> {}
              @@ K("V") :> Own @@ K("me") :> Own @@ K("you") :> Own,
  !.pages = [k \in {K("S"), K("T"), K("U"), K("V"), K("me"), K("you")} |-> Sample(0, IF k = K("U") THEN 1 ELSE 0, FALSE, FALSE)],
  !.groups = <<N("staff"), N("guests"), N("late")>>]

MCMacroRisk == "gliffy" :> "third_party_app" @@ "chart" :> "removed_builtin" @@ "include" :> "content_visibility"

MCLimit ==
  "orphans" :> 1 @@ "largeSpace" :> 7 @@ "archived" :> 0 @@ "personal" :> 1 @@ "spaceWarn" :> 3 @@ "spaceCrit" :> 5
  @@ "drafts" :> 5 @@ "label" :> 5 @@ "template" :> 5 @@
  "fieldCrit" :> 5 @@ "fieldWarn" :> 3 @@ "fieldLimit" :> 4 @@ "screen" :> 3 @@ "workflow" :> 3
  @@ "status" :> 3 @@ "optionCrit" :> 4 @@ "optionWarn" :> 2 @@ "permScheme" :> 3 @@ "resolution" :> 3
  @@ "priority" :> 3 @@ "issueType" :> 3 @@ "linkType" :> 3 @@ "defaultPriorities" :> 2
  @@ "statusWarn" :> 3 @@ "statusInfo" :> 2 @@ "transitionWarn" :> 3 @@ "globals" :> 3
  @@ "adminMembers" :> 4 @@ "overdue" :> 1 @@ "mix" :> 1 @@ "boardMin" :> 3 @@ "boardRatio" :> 3
  @@ "stale" :> 5 @@ "unassigned" :> 5 @@ "priorityNear" :> 2 @@ "priorityMax" :> 4
  @@ "workflowNear" :> 2 @@ "workflowMax" :> 3 @@ "issueTypeLimit" :> 4

OnCloud(s) == [s EXCEPT !.dep = "cloud"]
OnDC(s) == [s EXCEPT !.dep = "dc"]
MCSites == {Tidy, Messy, Worn, Crowded, Migrated} \cup {OnDC(s) : s \in {Tidy, Messy, Migrated}}
  \cup {Wiki, OpenWiki, BigWiki} \cup {OnCloud(s) : s \in {Wiki, OpenWiki}}
=============================================================================
