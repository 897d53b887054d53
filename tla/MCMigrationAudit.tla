-------------------------- MODULE MCMigrationAudit --------------------------
(* Instances for the audit of a migration: faithful ones, with extracts of an  *)
(* older build, of two projects, from Data Center; one with every kind of      *)
(* loss; one with a field lost everywhere; renamed keys; issues after the      *)
(* cutover on either side; hidden issues, noticed or not; a name of two fields. *)
EXTENDS MigrationAudit

None == 0
Empty == 0
Written == 99

\* The issue with the n-th content.
Plain(n) ==
  [fields |-> [created |-> n, reporter |-> 1, summary |-> n, parent |-> None, issuelinks |-> 1],
   body |-> n, comments |-> <<1>>, files |-> {n}, custom |-> "Team" :> [kind |-> "option", fp |-> n]]
New == [Plain(9) EXCEPT !.body = Empty]
Plains(ns) == [n \in ns |-> Plain(n)]
Child == [Plain(2) EXCEPT !.fields["parent"] = 1]

Nobody == [s \in Sides |-> [p \in {"P", "Q"} |-> {}]]
NoFiles == [s \in Sides |-> [p \in {"P", "Q"} |-> NoFile]]
One(src, tgt) == [
  dep |-> [src |-> "cloud", tgt |-> "cloud"], projects |-> [src |-> {"P", "Q"}, tgt |-> {"P"}], requested |-> {},
  names |-> [s \in Sides |-> {"Team", "Cost"}], ambiguous |-> [s \in Sides |-> {}], hidden |-> Nobody,
  issues |-> "src" :> ("P" :> src) @@ "tgt" :> ("P" :> tgt), old |-> FALSE, files |-> NoFiles]

Twice(side) == "P" :> side @@ "Q" :> Plains({1})
Two == [One(<<>>, <<>>) EXCEPT
  !.projects["tgt"] = {"P", "Q"}, !.issues = [s \in Sides |-> Twice(Plains({1, 2}))]]

\* The older build wrote other fingerprints of the bodies.
Older == [current |-> FALSE, meta |-> TRUE, torn |-> FALSE, again |-> FALSE, count |-> "exact", names |-> {"Team"}, ambiguous |-> {},
          issues |-> [n \in 1..3 |-> [Plain(n) EXCEPT !.body = 50 + n, !.comments = [total |-> 1, items |-> <<1>>]]]]
Upgraded == [One(Plains(1..3), Plains(1..3)) EXCEPT !.old = TRUE, !.files["src"]["P"] = Older]

FromDC == [One(2 :> Child @@ Plains({1}), 2 :> [Child EXCEPT !.custom["Team"].fp = 8] @@ Plains({1})) EXCEPT
  !.dep["src"] = "dc", !.names["src"] = {}, !.ambiguous["src"] = {"Team"}]

Costly(i) == [i EXCEPT !.custom = "Cost" :> [kind |-> "number", fp |-> 7] @@ @]
Long(i, c) == [i EXCEPT !.comments = <<1, 1, c>>]
Lossy == [One(1 :> Costly(Plain(1)) @@ 2 :> Long(Plain(2), 1) @@ Plains(3..4) @@ 5 :> Long(Plain(5), 1),
              1 :> [Plain(1) EXCEPT !.fields["summary"] = 8, !.files = {}, !.comments = <<2>>]
                @@ 2 :> [Long(Plain(2), 2) EXCEPT !.custom["Team"].kind = "text"]
                @@ 4 :> [Plain(4) EXCEPT !.fields["created"] = 8, !.fields["reporter"] = 2]
                @@ 5 :> [Plain(5) EXCEPT !.custom = <<>>, !.body = 8, !.fields["issuelinks"] = None])
          EXCEPT !.names["tgt"] = {"Team"}]
Uncheckable == One(2 :> Long(Plain(2), 1) @@ Plains({1}),
                   2 :> Long(Plain(2), 2) @@ 1 :> [Plain(1) EXCEPT !.custom["Team"].kind = "text"])

\* One issue is missing that the second page of the source begins with.
Skipped == One(Plains(1..4), Plains({1, 2, 4}))

\* The target has two fields of the name of the source's one.
Homonyms == [One(Plains(1..2), Plains(1..2)) EXCEPT !.names["tgt"] = {"Cost"}, !.ambiguous["tgt"] = {"Team"}]

Dropped == One([n \in 1..3 |-> [Plain(n) EXCEPT !.fields["parent"] = 1]], Plains(1..3))
Renamed == One(Plains(1..3), 1 :> Plain(1) @@ 11 :> Plain(2) @@ 12 :> Plain(3) @@ 13 :> Plain(3))
LiveSource == One(Plains({1, 2, 4}), Plains(1..2))
LiveTarget == One(Plains({1}), Plains(1..3))
Valueless == One(Plains(1..2), 2 :> [Plain(2) EXCEPT !.custom = <<>>] @@ Plains({1}))

\* The account sees none of ns on the side; the target has the issues in kept.
Hidden(side, all, ns, kept) == [One(Plains(all), Plains(kept)) EXCEPT !.hidden[side]["P"] = ns]

MCSites == {Two, Upgraded, FromDC, Lossy, Uncheckable, Dropped, Renamed, LiveSource, LiveTarget, Valueless, Homonyms, Skipped,
            Hidden("tgt", 1..3, {1, 2}, 1..3), Hidden("src", 1..3, {2, 3}, {1}), Hidden("src", 1..2, {2}, {1})}
=============================================================================
