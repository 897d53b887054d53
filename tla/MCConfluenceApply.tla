-------------------------- MODULE MCConfluenceApply --------------------------
(* Instances of ConfluenceApply: two spaces and two groups, one per page of a *)
(* list, of which the members of the first group are counted.                 *)
EXTENDS ConfluenceApply

MCOrder == <<"S1", "S2", "G1", "G2">>
\* A space and two groups, one finding selected twice, more than the cap.
MCBatches == {<<"S2", "G1", "G2">>, <<"G1", "G1">>, <<"S1", "S2", "G1", "G2">>}
=============================================================================
