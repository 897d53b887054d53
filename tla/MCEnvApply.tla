----------------------------- MODULE MCEnvApply -----------------------------
(* Instances of EnvApply for TLC: screens, groups, fields and schemes of a  *)
(* small Jira instance.                                                     *)
EXTENDS EnvApply, TLC

CONSTANTS s1, s2, g1, w1, w2, c1

F(kind, name) == [kind |-> kind, name |-> name]

\* Two screens, a group, two workflow schemes that share a name, a custom field.
MCName == s1 :> "S" @@ s2 :> "T" @@ g1 :> "G" @@ w1 :> "W" @@ w2 :> "W" @@ c1 :> "C"
MCClass == s1 :> "screens" @@ s2 :> "screens" @@ g1 :> "empty_group"
           @@ w1 :> "scheme_unused" @@ w2 :> "scheme_unused" @@ c1 :> "unused_custom_field"

Screen  == F("empty_screen", "S")
Orphan  == F("screen_not_in_scheme", "S")
Orphan2 == F("screen_not_in_scheme", "T")
Group   == F("empty_group", "G")
Scheme  == F("scheme_unused", "W")
Field   == F("unused_custom_field", "C")
Human   == F("unreachable_status", "S")
Unknown == F("empty_screen", "U")

\* The lists that take several requests, and what may be in use at first.
LivePaged  == {"screens", "screenschemes"}
RerunPaged == {"scheme_unused", "screens", "filters"}
LiveUses   == {<<s2, "screenschemes">>}
RerunUses  == {<<c1, "filters">>}

MCStored == {Screen, Orphan, Orphan2, Group, Scheme, Field, Human}
LiveSelections == {<<Screen, Group, Orphan2>>, <<Screen, Orphan>>}
RerunSelections == {<<Human, Unknown, Field>>, <<Scheme>>, <<Scheme, Field>>, <<Orphan2>>}
=============================================================================
