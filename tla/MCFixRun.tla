------------------------------ MODULE MCFixRun -------------------------------
(* Instances of FixRun for TLC.                                             *)
EXTENDS FixRun, TLC

CONSTANTS i1, i2, i3

About(area, kind, name) == [area |-> area, kind |-> kind, name |-> name]

\* A missing field, a field without options and with a wrong type, a missing link type.
MCFindings == <<About("link_types", "missing_in_tgt", 3),
                About("custom_fields", "missing_in_tgt", 1),
                About("custom_fields", "option_mismatch", 2),
                About("custom_fields", "type_mismatch", 2)>>
LostFindings == <<About("link_types", "missing_in_tgt", 3),
                  About("custom_fields", "missing_in_tgt", 1)>>

MCSamples == {<<"object", "options", "options", "none">>, <<"none", "context", "none", "none">>,
              <<"object", "plain", "options", "none">>, <<"none", "none", "options", "none">>}
LostSamples == {<<"object", "plain">>, <<"none", "options">>}

MCCaptures == {{i1, i2}, Issue}
MCNamesakes == {{}, {<<"custom_fields", 1>>}}
NoNamesakes == {{}}
MCPicks == {{"field.create", "field.populate", "link_type.create"}, {"field.create", "field.options"},
            {"field.wire"}}
Issues == Permutations(Issue)
CreatePicks == {{"link_type.create"}}
=============================================================================
