---------------------------- MODULE MCConfigAudit ----------------------------
(* Instances for the configuration audit: a faithful migration, one that lost *)
(* and changed objects, one that renamed them and wired its projects          *)
(* otherwise, one with long mappings and twins, one with more screens than    *)
(* the deep check takes; with one, two or no selected projects, between Cloud *)
(* sites and from Data Center.                                                *)
EXTENDS ConfigAudit

N(b) == <<b, "plain">>
Field(n, type, contexts, seenBy) ==
  [name |-> n, type |-> type, select |-> type = "select", contexts |-> contexts, seenBy |-> seenBy]
Flow(n, shape) == [name |-> n, shape |-> shape]

Areas == DOMAIN Walk
Uses(n, screenSchemes) == [a \in Areas |-> IF a = "screen_schemes" THEN screenSchemes ELSE n]

Source == [
  lists |-> [a \in ListAreas |-> <<N("A"), N("B")>>],
  fields |-> <<Field(N("F"), "select", <<{"x", "y"}, {"z"}>>, {"P"}), Field(N("G"), "text", <<>>, {"Q"})>>,
  flows |-> <<Flow(N("A"), "s1"), Flow(N("B"), "s2")>>,
  tabs |-> N("A") :> <<{N("F")}, {N("G")}>> @@ N("B") :> <<{N("F")}>>,
  uses |-> "P" :> Uses(<<N("A"), N("B")>>, <<N("A"), N("B")>>) @@ "Q" :> Uses(<<N("A")>>, <<N("A")>>),
  screensOf |-> N("A") :> {N("A")} @@ N("B") :> {N("B")},
  desk |-> "P" :> <<N("R")>> @@ "Q" :> <<>>,
  components |-> "P" :> <<N("C"), N("D")>> @@ "Q" :> <<>>,
  versions |-> "P" :> <<N("V")>> @@ "Q" :> <<N("V")>>]

\* Objects lost on the way, types, options, fields and workflows changed.
Lost == [Source EXCEPT
  !.lists = [a \in ListAreas |-> <<N("A")>>],
  !.fields = <<Field(N("F"), "select", <<{"x"}, {"z"}>>, {"P"})>>,
  !.flows = <<Flow(N("A"), "s2")>>,
  !.tabs = N("A") :> <<{N("F")}>>,
  !.uses = "P" :> Uses(<<N("A")>>, <<N("A")>>) @@ "Q" :> Uses(<<N("A")>>, <<N("A")>>),
  !.screensOf = N("A") :> {N("A")},
  !.desk = "P" :> <<>> @@ "Q" :> <<>>,
  !.components = "P" :> <<N("C")>> @@ "Q" :> <<>>]

\* Names with the suffix of the tool; the projects use other schemes than on the source.
T(b) == <<b, "migrated">>
Rewired == [Source EXCEPT
  !.lists = [a \in ListAreas |-> <<T("A"), N("B"), N("Z")>>],
  !.fields = <<Field(T("F"), "text", <<>>, {"Q"}), Field(N("G"), "text", <<>>, {"P"})>>,
  !.flows = <<Flow(T("A"), "s1"), Flow(N("B"), "s2"), Flow(N("Z"), "s1")>>,
  !.tabs = T("A") :> <<{N("F"), N("G")}>> @@ N("B") :> <<{N("F")}, {N("G")}>> @@ N("Z") :> <<{}>>,
  !.uses = "P" :> Uses(<<N("Z")>>, <<N("Z")>>) @@ "Q" :> Uses(<<N("Z")>>, <<N("Z")>>),
  !.screensOf = T("A") :> {T("A")} @@ N("B") :> {N("B")} @@ N("Z") :> {N("Z")}]

\* A mapping of more rows than a page, a field behind its twin, an option in a late context.
Long == [Source EXCEPT
  !.lists = [a \in ListAreas |-> <<N("A"), N("B"), N("C"), T("C")>>],
  !.fields = <<Field(N("F"), "select", <<{"x"}, {"y"}, {"z"}>>, {}), Field(T("F"), "select", <<{"w"}>>, {"P"})>>,
  !.flows = <<Flow(N("A"), "s1"), Flow(N("C"), "s1"), Flow(T("C"), "s2")>>,
  !.tabs = [n \in {N("A"), N("B"), N("C"), T("C")} |-> <<{N("F")}>>],
  !.uses = "P" :> Uses(<<N("A"), N("B"), N("C")>>, <<N("A"), N("B"), N("C")>>) @@ "Q" :> Uses(<<N("A")>>, <<N("A")>>),
  !.screensOf = [n \in {N("A"), N("B"), N("C")} |-> {n}]]

\* More screens than the cap, the last of which changed and is all that project P uses.
Many == [Source EXCEPT
  !.lists = [a \in ListAreas |-> IF a = "screens" THEN <<N("A"), N("B"), N("C")>> ELSE <<N("C")>>],
  !.fields = <<>>, !.flows = <<>>,
  !.tabs = [n \in {N("A"), N("B"), N("C")} |-> <<{N("F")}>>],
  !.uses = [p \in {"P", "Q"} |-> Uses(<<N("C")>>, <<N("C")>>)],
  !.screensOf = N("C") :> {N("C")}]
ManyLess == [Many EXCEPT !.tabs = [n \in {N("A"), N("B"), N("C")} |-> <<IF n = N("C") THEN {} ELSE {N("F")}>>]]

Clouds == [src |-> "cloud", tgt |-> "cloud"]
Migration(projects, dep, src, tgt) == [projects |-> projects, dep |-> dep, src |-> src, tgt |-> tgt]
MCSites ==
  {Migration({"P"}, Clouds, Source, t) : t \in {Source, Lost, Rewired}}
    \cup {Migration({}, Clouds, Source, Lost), Migration({"P", "Q"}, Clouds, Source, Lost),
          Migration({"P"}, Clouds, Long, Lost), Migration({"P"}, Clouds, Many, ManyLess),
          Migration({"P"}, [src |-> "dc", tgt |-> "cloud"], Source, Lost)}
NoLimit == <<>>
=============================================================================
