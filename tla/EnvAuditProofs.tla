------------------------- MODULE EnvAuditProofs ----------------------------
(* Theorems about EnvAudit for any instances, thresholds, caps and failed     *)
(* reads: no object something uses is offered for deletion, no defect is      *)
(* hidden by a failed read, no danger of a space goes unsaid.                 *)
EXTENDS EnvAudit, FiniteSetTheorems, SequenceTheorems, WellFoundedInduction, TLAPS

-----------------------------------------------------------------------------
(* Numbers and the reads that fail.                                           *)

\* A set of naturals with an element has a least one.
LEMMA LeastOf ==
  ASSUME NEW T \in SUBSET Nat, T # {}
  PROVE  \E x \in T : \A y \in T : x <= y
<1> DEFINE R == OpToRel(<, Nat)
<1>1. IsWellFoundedOn(R, Nat)
  BY NatLessThanWellFounded
<1>2. \A x, y \in Nat : y < x => <<y, x>> \in R
  BY DEF OpToRel
<1> HIDE DEF R
<1>3. PICK x \in T : \A y \in T : ~ (<<y, x>> \in R)
  BY <1>1, WFMin
<1>4. ASSUME NEW y \in T PROVE x <= y
  <2>1. ~(y < x)
    BY <1>2, <1>3
  <2>2. QED
    BY <2>1
<1>5. QED
  BY <1>4

\* The sets of at most k reads, for each k up to n: there is such a function, by the least k
\* up to which there is none.
LEMMA FailingTable ==
  ASSUME NEW n \in Nat, NEW reads
  PROVE  \E g : /\ g = [k \in 0..n |-> IF k = 0 THEN {{}} ELSE Larger(g[k - 1], reads)]
                /\ Failing(n, reads) = g[n]
<1> DEFINE Step(g, k) == IF k = 0 THEN {{}} ELSE Larger(g[k - 1], reads)
           Is(g, m) == g = [k \in 0..m |-> Step(g, k)]
           Without == {m \in Nat : ~ \E g : Is(g, m)}
<1>1. Without = {}
  <2> SUFFICES ASSUME Without # {} PROVE FALSE
    OBVIOUS
  <2>1. PICK m \in Without : \A y \in Without : m <= y
    BY LeastOf
  <2>2. CASE m = 0
    <3>1. Is([k \in 0..0 |-> {{}}], 0)
      OBVIOUS
    <3>2. QED
      BY <2>1, <2>2, <3>1
  <2>3. CASE m # 0
    <3>1. m - 1 \in Nat /\ ~(m <= m - 1)
      BY <2>1, <2>3
    <3>2. PICK g : Is(g, m - 1)
      <4> HIDE DEF Is
      <4>1. m - 1 \notin Without
        BY <2>1, <3>1
      <4>2. QED
        BY <3>1, <4>1
    <3> DEFINE h == [k \in 0..m |-> IF k = m THEN Step(g, m) ELSE g[k]]
    <3>3. \A k \in 0..m : h[k] = Step(h, k)
      <4> TAKE k \in 0..m
      <4>1. CASE k = 0
        BY <2>3, <3>2, <4>1
      <4>2. CASE k # 0
        <5>1. h[k - 1] = g[k - 1]
          BY <4>2
        <5>2. Step(h, k) = Step(g, k)
          BY <5>1, <4>2
        <5>3. CASE k = m
          BY <5>2, <5>3
        <5>4. CASE k # m
          <6>1. k \in 0..(m - 1) /\ h[k] = g[k]
            BY <5>4
          <6>2. g[k] = Step(g, k)
            BY <6>1, <3>2
          <6>3. QED
            BY <6>1, <6>2, <5>2
        <5>5. QED
          BY <5>3, <5>4
      <4>3. QED
        BY <4>1, <4>2
    <3>4. Is(h, m)
      BY <3>3
    <3>5. QED
      BY <3>4, <2>1
  <2>4. QED
    BY <2>2, <2>3
<1>2. PICK g : Is(g, n)
  BY <1>1
<1>3. QED
  BY <1>2 DEF Failing

\* At most n of the reads fail.
LEMMA FailingIs ==
  ASSUME NEW n \in Nat, NEW reads, NEW G \in Failing(n, reads)
  PROVE  G \subseteq reads /\ IsFiniteSet(G) /\ Cardinality(G) <= n /\ Cardinality(G) \in Nat
<1>1. PICK g : /\ g = [k \in 0..n |-> IF k = 0 THEN {{}} ELSE Larger(g[k - 1], reads)]
               /\ Failing(n, reads) = g[n]
  BY FailingTable
<1> DEFINE Few(F, k) == F \subseteq reads /\ IsFiniteSet(F) /\ Cardinality(F) <= k /\ Cardinality(F) \in Nat
           Wrong == {k \in 0..n : ~ \A F \in g[k] : Few(F, k)}
<1>2. \A k \in 0..n : g[k] = IF k = 0 THEN {{}} ELSE Larger(g[k - 1], reads)
  BY <1>1
<1> HIDE DEF Few
<1>3. Wrong = {}
  <2> SUFFICES ASSUME Wrong # {} PROVE FALSE
    OBVIOUS
  <2>1. PICK k \in Wrong : \A y \in Wrong : k <= y
    <3>1. Wrong \subseteq Nat
      OBVIOUS
    <3> HIDE DEF Wrong
    <3>2. QED
      BY <3>1, LeastOf
  <2>2. PICK F \in g[k] : ~Few(F, k)
    BY <2>1
  <2>3. k # 0
    <3>1. Few({}, 0)
      BY FS_EmptySet DEF Few
    <3>2. QED
      BY <1>2, <2>2, <3>1
  <2>4. k - 1 \in 0..n /\ k - 1 \notin Wrong
    BY <2>1, <2>3
  <2>5. \A H \in g[k - 1] : Few(H, k - 1)
    BY <2>4
  <2>6. CASE F \in g[k - 1]
    <3>1. Few(F, k - 1) /\ k \in Nat
      BY <2>5, <2>6
    <3>2. QED
      BY <3>1, <2>2 DEF Few
  <2>7. ASSUME NEW H \in g[k - 1], NEW r \in reads, F = H \cup {r} PROVE FALSE
    <3>1. Few(H, k - 1) /\ k \in Nat
      BY <2>5
    <3>2. IsFiniteSet(F) /\ Cardinality(F) \in {Cardinality(H), Cardinality(H) + 1}
      BY <3>1, <2>7, FS_AddElement DEF Few
    <3>4. F \subseteq reads
      BY <3>1, <2>7 DEF Few
    <3>3. QED
      BY <3>1, <3>2, <3>4, <2>2 DEF Few
  <2>8. F \in Larger(g[k - 1], reads)
    BY <2>2, <2>3, <1>2
  <2>9. F \in g[k - 1] \/ \E H \in g[k - 1] : \E r \in reads : F = H \cup {r}
    BY <2>8 DEF Larger
  <2>10. QED
    BY <2>9, <2>6, <2>7
<1>4. n \notin Wrong /\ n \in 0..n
  BY <1>3
<1>5. QED
  BY <1>1, <1>4 DEF Few

-----------------------------------------------------------------------------
(* What a snapshot holds at each stage.                                       *)

JiraRank ==
  [simple |-> 0, screens |-> 1, fields |-> 2, schemes |-> 3, workflows |-> 4, grants |-> 5,
   groups |-> 6, projects |-> 7, versions |-> 8, options |-> 9, boards |-> 10, activity |-> 11,
   shared |-> 12, typeschemes |-> 13, quality |-> 14, plugins |-> 15,
   checks |-> 16, analysis |-> 16, done |-> 16]
WikiRank ==
  [spaces |-> 0, space_permissions |-> 1, page_restrictions |-> 2, directory |-> 3, templates |-> 4,
   labels |-> 5, content |-> 6, macros |-> 7, checks |-> 8, analysis |-> 8, done |-> 8]

Upon(n, m, as) == IF n > m THEN as ELSE {}
JiraAreas(n) ==
  Upon(n, 0, ListAreas) \cup Upon(n, 2, {"custom_fields"}) \cup Upon(n, 4, {"workflows"})
    \cup Upon(n, 5, {"permission_scheme_grants"}) \cup Upon(n, 6, {"groups"})
    \cup Upon(n, 7, {"components"}) \cup Upon(n, 8, {"versions"})
    \cup Upon(n, 9, {"custom_field_options"}) \cup Upon(n, 10, {"boards"})
    \cup Upon(n, 11, {"projects"}) \cup Upon(n, 12, {"filters", "dashboards"})
    \cup Upon(n, 14, {"issue_quality"}) \cup Upon(n, 15, {"plugins"})
WikiAreas(n) ==
  Upon(n, 0, {"spaces"}) \cup Upon(n, 1, {"space_permissions"}) \cup Upon(n, 2, {"page_restrictions"})
    \cup Upon(n, 3, {"groups"}) \cup Upon(n, 4, {"templates"}) \cup Upon(n, 5, {"labels"})
    \cup Upon(n, 6, {"content_quality"}) \cup Upon(n, 7, {"macros"})

Schemes == SchemeAreas \cup TypeSchemeAreas
ProbedAreas == {"space_permissions", "page_restrictions"}

Flagged(r) ==
  /\ r = [k \in DOMAIN r |-> r[k]]
  /\ {"skipped", "error"} \subseteq DOMAIN r /\ r.skipped \in BOOLEAN /\ r.error \in BOOLEAN
SameBut(r, i, part) == DOMAIN r = DOMAIN i /\ \A k \in DOMAIN r : k # part => r[k] = i[k]
Part(g, h) == DOMAIN g \subseteq DOMAIN h /\ g = [k \in DOMAIN g |-> h[k]] /\ h = [k \in DOMAIN h |-> h[k]]

\* How the record r of an area read without an error may fall short of i, the record of the
\* same area when no read fails.
Short(a, r, i) ==
  \/ a \in Schemes /\ DOMAIN r \cap {"projects_using", "used"} = {} /\ "projects_using" \in DOMAIN i
  \/ a = "screen_schemes" /\ SameBut(r, i, "used")
  \/ a = "screens" /\ SameBut(r, i, "fields") /\ "fields" \in DOMAIN r
       /\ DOMAIN r.fields \subseteq DOMAIN i.fields
       /\ \A s \in DOMAIN r.fields : r.fields[s] \subseteq i.fields[s]
  \/ a = "groups" /\ SameBut(r, i, "members") /\ Part(r.members, i.members)
  \/ a = "custom_field_options"
  \/ a = "issue_quality" /\ Unread \in {r.count[m] : m \in Metrics}
  \/ a = "spaces" /\ SameBut(r, i, "by_space") /\ DOMAIN r.by_space = DOMAIN i.by_space
  \/ a \in ProbedAreas
  \/ a \in {"content_quality", "macros"} /\ SameBut(r, i, "counts")

AreaOK(a, r, i) ==
  /\ Flagged(r) /\ Flagged(i) /\ ~i.error
  /\ r.error \/ r = i \/ Short(a, r, i)

\* What the record of a Jira area says, when no read failed, is true of the instance.
Judged(i) == ~i.skipped /\ ~i.error
SchemeTrue(a, i) ==
  "projects_using" \in DOMAIN i =>
    \A n \in ToSet(i.names) :
      n \notin DOMAIN i.projects_using \/ i.projects_using[n] = {} => site.using[a][n] = {}
FieldsTrue(i) ==
  /\ ~i.skipped => "names" \in DOMAIN i
  /\ "fields" \in DOMAIN i => i.fields = [s \in Deep |-> OnTabs(s)]
DetailTrue(i) ==
  "detail" \in DOMAIN i /\ ~TwinWorkflows =>
    \A j \in DOMAIN site.workflows :
      /\ site.workflows[j].name \in DOMAIN i.detail
      /\ i.detail[site.workflows[j].name].statuses = site.workflows[j].statuses
MembersTrue(r) == \A g \in DOMAIN r.members : r.members[g] = site.members[g]
JiraTrue(a, i) ==
  /\ a \in Schemes => SchemeTrue(a, i)
  /\ a = "screens" => FieldsTrue(i)
  /\ a = "workflows" => DetailTrue(i)
  /\ a = "projects" => \A p \in DOMAIN i.by_project : i.by_project[p].issues = 0 => site.projects[p].issues = 0

\* What the schemes refer to is what the instance says, among the screens that were listed.
UsedTrue(A) ==
  /\ "used" \in DOMAIN A["workflow_schemes"] => A["workflow_schemes"].used = site.wfUsed
  /\ "used" \in DOMAIN A["screen_schemes"] =>
       A["screen_schemes"].used = site.screensUsed \cap ToSet(A["screens"].names)
OptionsKept(A, I) ==
  \/ A["custom_field_options"].error
  \/ A["custom_fields"].error
  \/ A["custom_field_options"] = I["custom_field_options"]

\* The records the later stages complete.
Bare(A, n) ==
  /\ n < 2 => "fields" \notin DOMAIN A["screens"]
  /\ n < 4 => \A a \in SchemeAreas : DOMAIN A[a] \cap {"projects_using", "used"} = {}
  /\ n < 14 => \A a \in TypeSchemeAreas : "projects_using" \notin DOMAIN A[a]
  /\ \A a \in TypeSchemeAreas : "used" \notin DOMAIN A[a]
NamesTrue(A) ==
  \A a \in Schemes : ~A[a].skipped => "names" \in DOMAIN A[a] /\ ToSet(A[a].names) \subseteq ToSet(site.lists[a])

JiraSnap(A, I, n) ==
  /\ DOMAIN A = JiraAreas(n) /\ DOMAIN I = JiraAreas(n)
  /\ \A a \in JiraAreas(n) : AreaOK(a, A[a], I[a]) /\ (Judged(I[a]) => JiraTrue(a, I[a]))
  /\ n > 0 => Bare(A, n) /\ Bare(I, n) /\ UsedTrue(A) /\ UsedTrue(I) /\ NamesTrue(I)
  /\ n > 6 => (Judged(A["groups"]) => MembersTrue(A["groups"]))
  /\ n > 9 => OptionsKept(A, I)

\* What the record of a Confluence area says is true of the instance, whatever failed.
GlobalKeys == {sp.key : sp \in {sp \in ToSet(site.spaces) : sp.type = "global"}}
SpacesTrue(r) ==
  /\ ToSet(r.order) \subseteq GlobalKeys /\ r.order \in Seq(GlobalKeys)
  /\ ~r.error => GlobalKeys \subseteq ToSet(r.order)
  /\ \A sp \in ToSet(site.spaces) : sp.key \in DOMAIN r.by_space =>
       /\ r.by_space[sp.key].current = sp.current
       /\ r.by_space[sp.key].pages \in {Unread, sp.pages}
  /\ ~r.skipped /\ "order" \in DOMAIN r
ProbesTrue(A, a) ==
  /\ ~A[a].skipped /\ A[a].capped \in BOOLEAN /\ A[a].partly \in BOOLEAN
  /\ DOMAIN A[a].by_space \subseteq GlobalKeys
  /\ \A k \in DOMAIN A[a].by_space : A[a].by_space[k] = IF a = "space_permissions" THEN Reduced(k) ELSE Sampled(k)
  /\ A["spaces"].error \/ A[a].error \/ A[a].partly \/ A[a].capped \/ GlobalKeys \subseteq DOMAIN A[a].by_space
ProbesKept(A, I, a) ==
  A["spaces"].error \/ A[a].error \/ A[a].partly \/ A[a] = I[a]

WikiSnap(A, I, n) ==
  /\ DOMAIN A = WikiAreas(n) /\ DOMAIN I = WikiAreas(n)
  /\ \A a \in WikiAreas(n) : AreaOK(a, A[a], I[a])
  /\ n > 0 => SpacesTrue(A["spaces"]) /\ SpacesTrue(I["spaces"])
  /\ n > 1 => ProbesTrue(A, "space_permissions") /\ ProbesKept(A, I, "space_permissions")
  /\ n > 2 => ProbesTrue(A, "page_restrictions") /\ ProbesKept(A, I, "page_restrictions")
  /\ n > 3 => MembersTrue(A["groups"])

SnapOK ==
  \/ site.product = "jira" /\ pc \in DOMAIN JiraRank /\ JiraSnap(areas, ideal, JiraRank[pc])
  \/ site.product = "confluence" /\ pc \in DOMAIN WikiRank /\ WikiSnap(areas, ideal, WikiRank[pc])

Verdicts == {"none", "CRITICAL", "NEEDS_ATTENTION", "HEALTHY_WITH_NOTES", "HEALTHY"}

AuditInv ==
  /\ site \in Sites
  /\ faults \in 0..MaxFaults
  /\ SnapOK
  /\ findings = IF pc \in {"analysis", "done"} THEN Coverage(areas) \cup Rules(areas) ELSE {}
  /\ verdict \in Verdicts

-----------------------------------------------------------------------------
(* Dictionaries and the areas.                                                *)

\* What an updated dictionary holds.
IsUpdate(h, f, g) ==
  /\ DOMAIN h = DOMAIN f \cup DOMAIN g
  /\ \A k \in DOMAIN f : h[k] = f[k]
  /\ \A k \in DOMAIN g : k \notin DOMAIN f => h[k] = g[k]
LEMMA UpdateIs ==
  ASSUME NEW f, NEW g
  PROVE  IsUpdate(f ++ g, f, g)
BY DEF IsUpdate, ++

\* The record of an area that was read, with the error or without.
IsRead(r, e, rec) ==
  /\ Flagged(r) /\ r.skipped = FALSE /\ r.error = e
  /\ DOMAIN r = {"skipped", "error"} \cup DOMAIN rec
  /\ \A k \in DOMAIN rec \ {"skipped", "error"} : r[k] = rec[k]
LEMMA ReadIs ==
  ASSUME NEW e \in BOOLEAN, NEW rec
  PROVE  IsRead(Read(e, rec), e, rec)
BY DEF IsRead, Read, Flagged, ++

LEMMA ReadFlags ==
  ASSUME NEW e \in BOOLEAN, NEW rec, NEW r, r = Read(e, rec)
  PROVE  Flagged(r) /\ ~r.skipped /\ (r.error <=> e)
<1>1. Flagged(r) /\ ~r.skipped /\ r.error = e
  BY ReadIs DEF IsRead
<1>2. QED
  BY <1>1

LEMMA SkipIs == Flagged(Skip) /\ Skip.skipped /\ ~Skip.error /\ DOMAIN Skip = {"skipped", "error"}
BY DEF Skip, Flagged

\* An area that was skipped, or read with an error or as when no read fails.
LEMMA SameOK ==
  ASSUME NEW a, NEW r, Flagged(r), ~r.error
  PROVE  AreaOK(a, r, r)
BY DEF AreaOK
LEMMA ErrorOK ==
  ASSUME NEW a, NEW r, NEW i, Flagged(r), r.error, Flagged(i), ~i.error
  PROVE  AreaOK(a, r, i)
BY DEF AreaOK

\* A stage that adds areas to the snapshot of a Jira instance.
AreasOK(R, Q) ==
  \A a \in DOMAIN R : AreaOK(a, R[a], Q[a]) /\ (Judged(Q[a]) => JiraTrue(a, Q[a]))
LEMMA AreasAdded ==
  ASSUME NEW A, NEW I, NEW R, NEW Q, NEW n \in 1..15, JiraSnap(A, I, n),
         JiraAreas(n + 1) = JiraAreas(n) \cup DOMAIN R, DOMAIN Q = DOMAIN R,
         DOMAIN R \cap JiraAreas(n) = {}, AreasOK(R, Q),
         n = 6 => (Judged(R["groups"]) => MembersTrue(R["groups"])),
         n = 9 => OptionsKept(R ++ A, Q ++ I)
  PROVE  JiraSnap(R ++ A, Q ++ I, n + 1)
<1> DEFINE B == R ++ A
           J == Q ++ I
<1>1. IsUpdate(B, R, A) /\ IsUpdate(J, Q, I)
  BY UpdateIs
<1>2. DOMAIN A = JiraAreas(n) /\ DOMAIN I = JiraAreas(n)
  BY DEF JiraSnap
<1>3. /\ \A a \in JiraAreas(n) : B[a] = A[a] /\ J[a] = I[a]
      /\ \A a \in DOMAIN R : B[a] = R[a] /\ J[a] = Q[a]
  BY <1>1, <1>2 DEF IsUpdate
<1> HIDE DEF B, J
<1>4. DOMAIN B = JiraAreas(n + 1) /\ DOMAIN J = JiraAreas(n + 1)
  BY <1>1, <1>2 DEF IsUpdate
<1>5. \A a \in JiraAreas(n + 1) : AreaOK(a, B[a], J[a]) /\ (Judged(J[a]) => JiraTrue(a, J[a]))
  <2>1. \A a \in JiraAreas(n) : AreaOK(a, A[a], I[a]) /\ (Judged(I[a]) => JiraTrue(a, I[a]))
    BY DEF JiraSnap
  <2>2. QED
    BY <1>3, <2>1 DEF AreasOK
<1>6. ListAreas \subseteq JiraAreas(n)
  BY DEF JiraAreas, Upon
<1>7. \A a \in ListAreas : B[a] = A[a] /\ J[a] = I[a]
  BY <1>3, <1>6
<1>8. SchemeAreas \cup TypeSchemeAreas \cup {"screens", "workflow_schemes", "screen_schemes"} \subseteq ListAreas
  BY DEF SchemeAreas, TypeSchemeAreas, ListAreas, CloudOnly
<1>9. Bare(A, n) /\ Bare(I, n) /\ UsedTrue(A) /\ UsedTrue(I) /\ NamesTrue(I)
  BY DEF JiraSnap
<1>10. Bare(B, n + 1) /\ Bare(J, n + 1)
  BY <1>7, <1>8, <1>9 DEF Bare
<1>11. UsedTrue(B) /\ UsedTrue(J) /\ NamesTrue(J)
  BY <1>7, <1>8, <1>9 DEF UsedTrue, NamesTrue, Schemes
<1>12. n + 1 > 6 => (Judged(B["groups"]) => MembersTrue(B["groups"]))
  <2>1. CASE n = 6
    <3>1. "groups" \in JiraAreas(n + 1) /\ "groups" \notin JiraAreas(n)
      BY <2>1 DEF JiraAreas, Upon, ListAreas, CloudOnly
    <3>2. QED
      BY <1>3, <2>1, <3>1
  <2>2. CASE n > 6
    <3>1. "groups" \in JiraAreas(n)
      BY <2>2 DEF JiraAreas, Upon
    <3>2. QED
      BY <1>3, <2>2, <3>1 DEF JiraSnap
  <2>3. QED
    BY <2>1, <2>2
<1>13. n + 1 > 9 => OptionsKept(B, J)
  <2>1. CASE n = 9
    BY <2>1 DEF B, J
  <2>2. CASE n > 9
    <3>1. {"custom_fields", "custom_field_options"} \subseteq JiraAreas(n)
      BY <2>2 DEF JiraAreas, Upon
    <3>2. OptionsKept(A, I)
      BY <2>2 DEF JiraSnap
    <3>3. QED
      BY <1>3, <3>1, <3>2 DEF OptionsKept
  <2>3. QED
    BY <2>1, <2>2
<1>14. JiraSnap(B, J, n + 1)
  BY <1>4, <1>5, <1>10, <1>11, <1>12, <1>13 DEF JiraSnap
<1>15. QED
  BY <1>14 DEF B, J

-----------------------------------------------------------------------------
(* The stages of the audit of a Jira instance that read new areas.            *)

LEMMA NewAreas ==
  /\ JiraAreas(3) = JiraAreas(2) \cup {"custom_fields"} /\ "custom_fields" \notin JiraAreas(2)
  /\ JiraAreas(5) = JiraAreas(4) \cup {"workflows"} /\ "workflows" \notin JiraAreas(4)
  /\ JiraAreas(6) = JiraAreas(5) \cup {"permission_scheme_grants"} /\ "permission_scheme_grants" \notin JiraAreas(5)
  /\ JiraAreas(7) = JiraAreas(6) \cup {"groups"} /\ "groups" \notin JiraAreas(6)
  /\ JiraAreas(8) = JiraAreas(7) \cup {"components"} /\ "components" \notin JiraAreas(7)
  /\ JiraAreas(9) = JiraAreas(8) \cup {"versions"} /\ "versions" \notin JiraAreas(8)
  /\ JiraAreas(10) = JiraAreas(9) \cup {"custom_field_options"} /\ "custom_field_options" \notin JiraAreas(9)
  /\ JiraAreas(11) = JiraAreas(10) \cup {"boards"} /\ "boards" \notin JiraAreas(10)
  /\ JiraAreas(12) = JiraAreas(11) \cup {"projects"} /\ "projects" \notin JiraAreas(11)
  /\ JiraAreas(13) = JiraAreas(12) \cup {"filters", "dashboards"} /\ {"filters", "dashboards"} \cap JiraAreas(12) = {}
  /\ JiraAreas(15) = JiraAreas(14) \cup {"issue_quality"} /\ "issue_quality" \notin JiraAreas(14)
  /\ JiraAreas(16) = JiraAreas(15) \cup {"plugins"} /\ "plugins" \notin JiraAreas(15)
BY DEF JiraAreas, Upon, ListAreas, CloudOnly

\* The kinds of area nothing is claimed of but that they are read in full or not.
LEMMA PlainTrue ==
  ASSUME NEW a, a \notin Schemes \cup {"screens", "workflows", "projects"}, NEW i
  PROVE  JiraTrue(a, i)
BY DEF JiraTrue, Schemes

\* A read that fails is an error; one that does not gives the record of the ideal snapshot.
LEMMA ReadOK ==
  ASSUME NEW a, NEW e \in BOOLEAN, NEW rec, NEW ideally, ~e => rec = ideally
  PROVE  AreaOK(a, Read(e, rec), Read(FALSE, ideally))
<1>1. IsRead(Read(e, rec), e, rec) /\ IsRead(Read(FALSE, ideally), FALSE, ideally)
  BY ReadIs
<1>2. CASE e
  BY <1>1, <1>2, ErrorOK DEF IsRead
<1>3. CASE ~e
  <2>1. Read(e, rec) = Read(FALSE, ideally)
    BY <1>3
  <2>2. QED
    BY <1>1, <2>1, SameOK DEF IsRead
<1>4. QED
  BY <1>2, <1>3

LEMMA ReadEither ==
  ASSUME NEW a, NEW e \in BOOLEAN, NEW d \in BOOLEAN, NEW rec, NEW ideally, ~d, ~e => rec = ideally
  PROVE  AreaOK(a, Read(e, rec), Read(d, ideally))
<1>1. IsRead(Read(e, rec), e, rec) /\ IsRead(Read(d, ideally), d, ideally)
  BY ReadIs
<1>2. CASE e
  BY <1>1, <1>2, ErrorOK DEF IsRead
<1>3. CASE ~e
  <2>1. Read(e, rec) = Read(d, ideally)
    BY <1>3
  <2>2. QED
    BY <1>1, <2>1, SameOK DEF IsRead
<1>4. QED
  BY <1>2, <1>3

LEMMA FieldsRead ==
  ASSUME NEW A, NEW I, NEW F, JiraSnap(A, I, 2)
  PROVE  JiraSnap(CustomFields(A, F) ++ A, CustomFields(I, {}) ++ I, 3)
<1> DEFINE R == CustomFields(A, F)
           Q == CustomFields(I, {})
<1>1. DOMAIN R = {"custom_fields"} /\ DOMAIN Q = {"custom_fields"}
  BY DEF CustomFields
<1>2. AreaOK("custom_fields", R["custom_fields"], Q["custom_fields"])
  BY ReadOK, SkipIs, SameOK DEF CustomFields
<1> HIDE DEF R, Q
<1>3. AreasOK(R, Q)
  BY <1>1, <1>2, PlainTrue DEF AreasOK, Schemes, SchemeAreas, TypeSchemeAreas
<1>4. JiraSnap(R ++ A, Q ++ I, 3)
  BY <1>1, <1>3, NewAreas, AreasAdded
<1>5. QED
  BY <1>4 DEF R, Q

LEMMA GrantsRead ==
  ASSUME NEW A, NEW I, NEW F, JiraSnap(A, I, 5)
  PROVE  JiraSnap(Grants(A, F) ++ A, Grants(I, {}) ++ I, 6)
<1> DEFINE R == Grants(A, F)
           Q == Grants(I, {})
<1>1. DOMAIN R = {"permission_scheme_grants"} /\ DOMAIN Q = {"permission_scheme_grants"}
  BY DEF Grants
<1>2. AreaOK("permission_scheme_grants", R["permission_scheme_grants"], Q["permission_scheme_grants"])
  BY ReadOK, SkipIs, SameOK DEF Grants
<1> HIDE DEF R, Q
<1>3. AreasOK(R, Q)
  BY <1>1, <1>2, PlainTrue DEF AreasOK, Schemes, SchemeAreas, TypeSchemeAreas
<1>4. JiraSnap(R ++ A, Q ++ I, 6)
  BY <1>1, <1>3, NewAreas, AreasAdded
<1>5. QED
  BY <1>4 DEF R, Q

LEMMA ComponentsRead ==
  ASSUME NEW A, NEW I, NEW F, JiraSnap(A, I, 7)
  PROVE  JiraSnap(Components(A, F) ++ A, Components(I, {}) ++ I, 8)
<1> DEFINE R == Components(A, F)
           Q == Components(I, {})
<1>1. DOMAIN R = {"components"} /\ DOMAIN Q = {"components"}
  BY DEF Components, PerProject
<1>2. AreaOK("components", R["components"], Q["components"])
  BY ReadOK, SkipIs, SameOK DEF Components, PerProject
<1> HIDE DEF R, Q
<1>3. AreasOK(R, Q)
  BY <1>1, <1>2, PlainTrue DEF AreasOK, Schemes, SchemeAreas, TypeSchemeAreas
<1>4. JiraSnap(R ++ A, Q ++ I, 8)
  BY <1>1, <1>3, NewAreas, AreasAdded
<1>5. QED
  BY <1>4 DEF R, Q

LEMMA VersionsRead ==
  ASSUME NEW A, NEW I, NEW F, JiraSnap(A, I, 8)
  PROVE  JiraSnap(Versions(A, F) ++ A, Versions(I, {}) ++ I, 9)
<1> DEFINE R == Versions(A, F)
           Q == Versions(I, {})
<1>1. DOMAIN R = {"versions"} /\ DOMAIN Q = {"versions"}
  BY DEF Versions, PerProject
<1>2. AreaOK("versions", R["versions"], Q["versions"])
  BY ReadOK, SkipIs, SameOK DEF Versions, PerProject
<1> HIDE DEF R, Q
<1>3. AreasOK(R, Q)
  BY <1>1, <1>2, PlainTrue DEF AreasOK, Schemes, SchemeAreas, TypeSchemeAreas
<1>4. JiraSnap(R ++ A, Q ++ I, 9)
  BY <1>1, <1>3, NewAreas, AreasAdded
<1>5. QED
  BY <1>4 DEF R, Q

LEMMA BoardsRead ==
  ASSUME NEW A, NEW I, NEW F, JiraSnap(A, I, 10)
  PROVE  JiraSnap(Boards(A, F) ++ A, Boards(I, {}) ++ I, 11)
<1> DEFINE R == Boards(A, F)
           Q == Boards(I, {})
<1>1. DOMAIN R = {"boards"} /\ DOMAIN Q = {"boards"}
  BY DEF Boards
<1>2. AreaOK("boards", R["boards"], Q["boards"])
  BY ReadOK, SkipIs, SameOK DEF Boards
<1> HIDE DEF R, Q
<1>3. AreasOK(R, Q)
  BY <1>1, <1>2, PlainTrue DEF AreasOK, Schemes, SchemeAreas, TypeSchemeAreas
<1>4. JiraSnap(R ++ A, Q ++ I, 11)
  BY <1>1, <1>3, NewAreas, AreasAdded
<1>5. QED
  BY <1>4 DEF R, Q

LEMMA PluginsRead ==
  ASSUME NEW A, NEW I, NEW F, JiraSnap(A, I, 15)
  PROVE  JiraSnap(Plugins(A, F) ++ A, Plugins(I, {}) ++ I, 16)
<1> DEFINE R == Plugins(A, F)
           Q == Plugins(I, {})
<1>1. DOMAIN R = {"plugins"} /\ DOMAIN Q = {"plugins"}
  BY DEF Plugins
<1>2. AreaOK("plugins", R["plugins"], Q["plugins"])
  BY ReadOK, SkipIs, SameOK DEF Plugins
<1> HIDE DEF R, Q
<1>3. AreasOK(R, Q)
  BY <1>1, <1>2, PlainTrue DEF AreasOK, Schemes, SchemeAreas, TypeSchemeAreas
<1>4. JiraSnap(R ++ A, Q ++ I, 16)
  BY <1>1, <1>3, NewAreas, AreasAdded
<1>5. QED
  BY <1>4 DEF R, Q

LEMMA SharedRead ==
  ASSUME NEW A, NEW I, NEW F, JiraSnap(A, I, 12)
  PROVE  JiraSnap(Shared(A, F) ++ A, Shared(I, {}) ++ I, 13)
<1> DEFINE R == Shared(A, F)
           Q == Shared(I, {})
<1>1. DOMAIN R = {"filters", "dashboards"} /\ DOMAIN Q = {"filters", "dashboards"}
  BY DEF Shared
<1>2. ASSUME NEW a \in {"filters", "dashboards"} PROVE AreaOK(a, R[a], Q[a])
  <2> DEFINE rows == First(Cut(site.shared[a], a \in F), ListCap)
             whole == First(Cut(site.shared[a], a \in {}), ListCap)
             base(rs) == [count |-> Len(rs), capped |-> Len(rs) >= ListCap]
             rec(rs) == IF Cloud THEN [items |-> rs] ++ base(rs) ELSE base(rs)
  <2>1. R[a] = Read(a \in F, rec(rows)) /\ Q[a] = Read(a \in {}, rec(whole))
    BY DEF Shared
  <2>2. a \notin F => rows = whole
    BY DEF Cut
  <2> HIDE DEF rec, rows, whole
  <2>3. AreaOK(a, Read(a \in F, rec(rows)), Read(a \in {}, rec(whole)))
    <3> DEFINE e == a \in F
               d == a \in {}
               x == rec(rows)
               y == rec(whole)
    <3>1. e \in BOOLEAN /\ d \in BOOLEAN /\ ~d /\ (~e => x = y)
      BY <2>2
    <3> HIDE DEF e, d, x, y
    <3>2. AreaOK(a, Read(e, x), Read(d, y))
      BY <3>1, ReadEither
    <3>3. QED
      BY <3>2 DEF e, d, x, y
  <2>4. QED
    BY <2>1, <2>3
<1> HIDE DEF R, Q
<1>3. AreasOK(R, Q)
  BY <1>1, <1>2, PlainTrue DEF AreasOK, Schemes, SchemeAreas, TypeSchemeAreas
<1>4. JiraSnap(R ++ A, Q ++ I, 13)
  BY <1>1, <1>3, NewAreas, AreasAdded
<1>5. QED
  BY <1>4 DEF R, Q

\* The projects of the ideal snapshot without issues have none.
LEMMA ProjectsRead ==
  ASSUME NEW A, NEW I, NEW F, JiraSnap(A, I, 11)
  PROVE  JiraSnap(Activity(A, F) ++ A, Activity(I, {}) ++ I, 12)
<1> DEFINE R == Activity(A, F)
           Q == Activity(I, {})
<1>1. DOMAIN R = {"projects"} /\ DOMAIN Q = {"projects"}
  BY DEF Activity
<1>2. AreaOK("projects", R["projects"], Q["projects"])
  BY ReadOK DEF Activity
<1>3. JiraTrue("projects", Q["projects"])
  <2> DEFINE by == [p \in DOMAIN site.projects |->
                      IF Cloud THEN site.projects[p] ELSE [issues |-> Unread, stale |-> FALSE]]
  <2>1. Q["projects"] = Read(FALSE, [by_project |-> by])
    BY DEF Activity
  <2>2. \A p \in DOMAIN by : by[p].issues = 0 => site.projects[p].issues = 0
    BY DEF Unread
  <2> HIDE DEF by, Q
  <2>3. IsRead(Q["projects"], FALSE, [by_project |-> by])
    BY <2>1, ReadIs
  <2>5. Q["projects"].by_project = by
    BY <2>3 DEF IsRead
  <2>4. QED
    BY <2>2, <2>5 DEF JiraTrue, Schemes, SchemeAreas, TypeSchemeAreas
<1> HIDE DEF R, Q
<1>4. AreasOK(R, Q)
  BY <1>1, <1>2, <1>3 DEF AreasOK
<1>5. JiraSnap(R ++ A, Q ++ I, 12)
  BY <1>1, <1>4, NewAreas, AreasAdded
<1>6. QED
  BY <1>5 DEF R, Q

\* A count that was not read is marked unread.
LEMMA QualityRead ==
  ASSUME NEW A, NEW I, NEW F, JiraSnap(A, I, 14), F \subseteq Metrics \cup {Outage}
  PROVE  JiraSnap(Quality(A, F) ++ A, Quality(I, {}) ++ I, 15)
<1> DEFINE R == Quality(A, F)
           Q == Quality(I, {})
           lost == IF Outage \in F THEN Metrics ELSE F
           count(G) == [m \in Metrics |-> IF m \in G THEN Unread ELSE site.quality[m]]
           r == R["issue_quality"]
           i == Q["issue_quality"]
<1>1. DOMAIN R = {"issue_quality"} /\ DOMAIN Q = {"issue_quality"}
  BY DEF Quality
<1>2. r = Read(lost = Metrics, [count |-> count(lost)]) /\ i = Read({} = Metrics, [count |-> count({})])
  BY DEF Quality, Outage, Metrics
<1>3. lost \subseteq Metrics /\ (lost = {} => count(lost) = count({})) /\ Metrics # {}
  BY DEF Metrics, Outage
<1>4. \A m \in lost : count(lost)[m] = Unread
  BY <1>3
<1> HIDE DEF R, Q, lost, count
<1>5. IsRead(r, lost = Metrics, [count |-> count(lost)]) /\ IsRead(i, FALSE, [count |-> count({})])
  BY <1>2, <1>3, ReadIs
<1>6. AreaOK("issue_quality", r, i)
  <2>1. Flagged(r) /\ Flagged(i) /\ ~i.error /\ r.count = count(lost)
    BY <1>5 DEF IsRead
  <2>2. CASE lost = {}
    BY <1>2, <1>3, <2>1, <2>2 DEF AreaOK
  <2>3. CASE lost # {}
    <3>1. Unread \in {r.count[m] : m \in Metrics}
      BY <1>3, <1>4, <2>1, <2>3
    <3>2. QED
      BY <2>1, <3>1 DEF AreaOK, Short
  <2>4. QED
    BY <2>2, <2>3
<1>7. AreasOK(R, Q)
  BY <1>1, <1>6, PlainTrue DEF AreasOK, Schemes, SchemeAreas, TypeSchemeAreas
<1>8. JiraSnap(R ++ A, Q ++ I, 15)
  BY <1>1, <1>7, NewAreas, AreasAdded
<1>9. QED
  BY <1>8 DEF R, Q

LEMMA JiraIs ==
  ASSUME site \in Sites, site.product = "jira"
  PROVE  JiraSite(site)
BY SitesAssumption

LEMMA ShortOK ==
  ASSUME NEW a, NEW r, NEW i, Flagged(r), Flagged(i), ~i.error, Short(a, r, i)
  PROVE  AreaOK(a, r, i)
BY DEF AreaOK

\* The options are as when no read fails where those of every field chosen could be read, and
\* the fields to choose from.
LEMMA OptionsRead ==
  ASSUME NEW A, NEW I, NEW F, JiraSnap(A, I, 9)
  PROVE  JiraSnap(Options(A, F) ++ A, Options(I, {}) ++ I, 10)
<1> DEFINE R == Options(A, F)
           Q == Options(I, {})
           chosen(S) == ToSet(First(Selects(S["custom_fields"].names), OptionCap))
           by(S, G) == [n \in chosen(S) |-> IF n \in G THEN 0 ELSE site.options[n]]
           a == "custom_field_options"
<1>1. DOMAIN R = {a} /\ DOMAIN Q = {a}
  BY DEF Options
<1>2. ~Cloud => R[a] = Skip /\ Q[a] = Skip
  BY DEF Options
<1>3. Cloud => /\ R[a] = Read(F \cap chosen(A) # {}, [by_field |-> by(A, F)])
               /\ Q[a] = Read({} \cap chosen(I) # {}, [by_field |-> by(I, {})])
  BY DEF Options
<1>4. F \cap chosen(A) = {} /\ chosen(A) = chosen(I) => by(A, F) = by(I, {})
  OBVIOUS
<1>5. A["custom_fields"] = I["custom_fields"] => chosen(A) = chosen(I)
  OBVIOUS
<1> HIDE DEF R, Q, chosen, by
<1> DEFINE e == F \cap chosen(A) # {}
           d == {} \cap chosen(I) # {}
<1>13. e \in BOOLEAN /\ d \in BOOLEAN /\ ~d
  OBVIOUS
<1>14. Cloud => R[a] = Read(e, [by_field |-> by(A, F)]) /\ Q[a] = Read(d, [by_field |-> by(I, {})])
  BY <1>3
<1> HIDE DEF e, d
<1>15. Cloud => (R[a].error <=> e) /\ (Q[a].error <=> d) /\ Flagged(R[a]) /\ Flagged(Q[a])
  BY <1>13, <1>14, ReadFlags
<1>6. Flagged(R[a]) /\ Flagged(Q[a]) /\ ~Q[a].error
  BY <1>2, <1>13, <1>15, SkipIs
<1>7. AreasOK(R, Q)
  <2>1. AreaOK(a, R[a], Q[a])
    BY <1>6, ShortOK DEF Short
  <2>2. QED
    BY <1>1, <2>1, PlainTrue DEF AreasOK, Schemes, SchemeAreas, TypeSchemeAreas
<1>8. A["custom_fields"].error \/ A["custom_fields"] = I["custom_fields"]
  <2>1. AreaOK("custom_fields", A["custom_fields"], I["custom_fields"])
    BY DEF JiraSnap, JiraAreas, Upon
  <2>2. ~Short("custom_fields", A["custom_fields"], I["custom_fields"])
    BY DEF Short, Schemes, SchemeAreas, TypeSchemeAreas, ProbedAreas
  <2>3. QED
    BY <2>1, <2>2 DEF AreaOK
<1>9. R[a].error \/ A["custom_fields"].error \/ R[a] = Q[a]
  <2>1. CASE Cloud
    <3>1. F \cap chosen(A) # {} => R[a].error
      BY <1>15, <2>1 DEF e
    <3>2. F \cap chosen(A) = {} /\ A["custom_fields"] = I["custom_fields"] => R[a] = Q[a]
      BY <1>3, <1>4, <1>5, <2>1
    <3>3. QED
      BY <1>8, <3>1, <3>2
  <2>2. QED
    BY <1>2, <2>1
<1>10. OptionsKept(R ++ A, Q ++ I)
  <2>1. IsUpdate(R ++ A, R, A) /\ IsUpdate(Q ++ I, Q, I)
    BY UpdateIs
  <2>2. "custom_fields" \in DOMAIN A /\ "custom_fields" # a
    BY DEF JiraSnap, JiraAreas, Upon
  <2> DEFINE B == R ++ A
             J == Q ++ I
  <2> HIDE DEF B, J
  <2>3. B[a] = R[a] /\ J[a] = Q[a] /\ B["custom_fields"] = A["custom_fields"]
    BY <1>1, <2>1, <2>2 DEF IsUpdate, B, J
  <2>4. OptionsKept(B, J)
    BY <1>9, <2>3 DEF OptionsKept
  <2>5. QED
    BY <2>4 DEF B, J
<1>11. JiraSnap(R ++ A, Q ++ I, 10)
  BY <1>1, <1>7, <1>10, NewAreas, AreasAdded
<1>12. QED
  BY <1>11 DEF R, Q

\* The members counted are the members there are.
LEMMA GroupsRead ==
  ASSUME NEW A, NEW I, NEW F, JiraSnap(A, I, 6)
  PROVE  JiraSnap(Groups(A, F) ++ A, Groups(I, {}) ++ I, 7)
<1> DEFINE R == Groups(A, F)
           Q == Groups(I, {})
           rows(e) == IF e THEN SubSeq(site.groups, 1, Len(site.groups) - 1) ELSE site.groups
           members(rs, G) == [g \in ToSet(First(rs, GroupCap)) \ G |-> site.members[g]]
           rec(rs, G) == [names |-> rs, members |-> members(rs, G)]
           cut == Cut(site.groups, GroupList \in F)
           r == R["groups"]
           i == Q["groups"]
<1>1. DOMAIN R = {"groups"} /\ DOMAIN Q = {"groups"}
  BY DEF Groups
<1>2. ~Cloud => r = Skip /\ i = Skip
  BY DEF Groups
<1>3. Cloud => r = Read(GroupList \in F, rec(cut, F)) /\ i = Read(GroupList \in {}, rec(site.groups, {}))
  BY DEF Groups, Cut
<1>4. GroupList \notin F => cut = site.groups
  BY DEF Cut
<1>5. Part(members(site.groups, F), members(site.groups, {}))
  BY DEF Part
<1>6. \A rs, G : \A g \in DOMAIN members(rs, G) : members(rs, G)[g] = site.members[g]
  OBVIOUS
<1> DEFINE e == GroupList \in F
           d == GroupList \in {}
<1>7. e \in BOOLEAN /\ d \in BOOLEAN /\ ~d /\ (~e => cut = site.groups)
  BY <1>4
<1>8. Cloud => r = Read(e, rec(cut, F)) /\ i = Read(d, rec(site.groups, {}))
  BY <1>3
<1> HIDE DEF R, Q, e, d, cut, members
<1>9. Cloud => IsRead(r, e, rec(cut, F)) /\ IsRead(i, d, rec(site.groups, {}))
  BY <1>7, <1>8, ReadIs
<1>10. Cloud => /\ DOMAIN r = {"skipped", "error", "names", "members"} /\ DOMAIN i = DOMAIN r
                /\ r.members = members(cut, F) /\ i.members = members(site.groups, {})
                /\ r.names = cut /\ i.names = site.groups
                /\ ~r.skipped /\ ~i.skipped /\ r.error = e /\ i.error = d
  BY <1>9 DEF IsRead
<1>11. Flagged(r) /\ Flagged(i) /\ ~i.error
  BY <1>2, <1>7, <1>9, SkipIs DEF IsRead
<1>12. AreaOK("groups", r, i)
  <2>1. CASE ~Cloud
    BY <1>2, <2>1, SkipIs, SameOK
  <2>2. CASE Cloud /\ e
    BY <1>10, <1>11, <2>2, ErrorOK
  <2>3. CASE Cloud /\ ~e
    <3>1. r.members = members(site.groups, F) /\ r.names = i.names /\ r.error = i.error
      BY <1>7, <1>10, <2>3
    <3>5. r.skipped = i.skipped
      BY <1>10, <1>11, <2>3 DEF Flagged
    <3>6. DOMAIN r = {"skipped", "error", "names", "members"} /\ DOMAIN i = DOMAIN r
      BY <1>10, <2>3
    <3>2. SameBut(r, i, "members")
      BY <3>1, <3>5, <3>6 DEF SameBut
    <3>4. Part(r.members, i.members)
      BY <1>5, <1>10, <2>3, <3>1
    <3>3. QED
      BY <1>11, <3>2, <3>4, ShortOK DEF Short
  <2>4. QED
    BY <2>1, <2>2, <2>3
<1>13. Judged(r) => MembersTrue(r)
  BY <1>2, <1>6, <1>10, SkipIs DEF Judged, MembersTrue
<1>14. AreasOK(R, Q)
  BY <1>1, <1>12, PlainTrue DEF AreasOK, Schemes, SchemeAreas, TypeSchemeAreas
<1>15. JiraSnap(R ++ A, Q ++ I, 7)
  BY <1>1, <1>13, <1>14, NewAreas, AreasAdded
<1>16. QED
  BY <1>15 DEF R, Q

\* Without twins the workflows introspected are those of the instance, each with its statuses.
LEMMA WorkflowsRead ==
  ASSUME NEW A, NEW I, NEW F, JiraSnap(A, I, 4), site \in Sites, site.product = "jira"
  PROVE  JiraSnap(Workflows(A, F) ++ A, Workflows(I, {}) ++ I, 5)
<1> DEFINE R == Workflows(A, F)
           Q == Workflows(I, {})
           base(ws) == [names |-> SetToSeq({w.name : w \in ws}), count |-> Cardinality(ws), structure |-> Cloud]
           detail(ws) == [n \in {w.name : w \in ws} |-> Detail(CHOOSE w \in ws : w.name = n)]
           rec(ws) == IF Cloud THEN [detail |-> detail(ws)] ++ base(ws) ELSE base(ws)
           content(G) == rec(FirstOfName(Cut(site.workflows, G # {})))
           all == FirstOfName(site.workflows)
           i == Q["workflows"]
<1>1. DOMAIN R = {"workflows"} /\ DOMAIN Q = {"workflows"}
  BY DEF Workflows
<1>2. R["workflows"] = Read(F # {}, content(F)) /\ i = Read({} # {}, content({}))
  BY DEF Workflows
<1>3. content({}) = rec(all)
  BY DEF Cut
<1>4. ASSUME ~TwinWorkflows, NEW j \in DOMAIN site.workflows
      PROVE  /\ site.workflows[j].name \in DOMAIN detail(all)
             /\ detail(all)[site.workflows[j].name].statuses = site.workflows[j].statuses
  <2> DEFINE W == site.workflows
             w == W[j]
  <2>1. DOMAIN W \subseteq Nat /\ \A k \in 1..(j - 1) : k \in DOMAIN W
    <3>1. W \in Seq(ToSet(W))
      BY JiraIs DEF JiraSite
    <3>2. Len(W) \in Nat /\ DOMAIN W = 1..Len(W)
      BY <3>1
    <3>3. QED
      BY <3>2
  <2>2. \A k, l \in DOMAIN W : Norm(W[k].name) = Norm(W[l].name) => k = l
    BY <1>4 DEF TwinWorkflows
  <2>3. \A k \in 1..(j - 1) : Norm(W[k].name) # Norm(w.name)
    BY <2>1, <2>2
  <2>4. w \in all
    BY <2>3 DEF FirstOfName
  <2>5. \A v \in all : v.name = w.name => v = w
    <3>1. \A v \in all : \E k \in DOMAIN W : v = W[k]
      BY DEF FirstOfName
    <3>2. QED
      BY <3>1, <2>2
  <2> HIDE DEF all, w
  <2>6. (CHOOSE v \in all : v.name = w.name) = w
    BY <2>4, <2>5
  <2>7. w.name \in DOMAIN detail(all) /\ detail(all)[w.name] = Detail(w)
    BY <2>4, <2>6
  <2>8. Detail(w).statuses = w.statuses
    BY DEF Detail
  <2>9. QED
    BY <2>7, <2>8 DEF w
<1>5. AreaOK("workflows", R["workflows"], Q["workflows"])
  <2> DEFINE e == F # {}
             d == {} # {}
  <2> HIDE DEF content, R, Q
  <2>1. e \in BOOLEAN /\ d \in BOOLEAN /\ ~d /\ (~e => content(F) = content({}))
    OBVIOUS
  <2>2. R["workflows"] = Read(e, content(F)) /\ i = Read(d, content({}))
    BY <1>2
  <2> HIDE DEF e, d
  <2>3. QED
    BY <2>1, <2>2, ReadEither
<1>6. JiraTrue("workflows", i)
  <2> SUFFICES ASSUME "detail" \in DOMAIN i, ~TwinWorkflows
               PROVE  \A j \in DOMAIN site.workflows :
                        /\ site.workflows[j].name \in DOMAIN i.detail
                        /\ i.detail[site.workflows[j].name].statuses = site.workflows[j].statuses
    BY DEF JiraTrue, DetailTrue, Schemes, SchemeAreas, TypeSchemeAreas
  <2> DEFINE d == {} # {}
             y == rec(all)
  <2>0. y = content({})
    BY <1>3
  <2> HIDE DEF content, y, Q
  <2>1. d \in BOOLEAN /\ i = Read(d, y)
    BY <1>2, <2>0
  <2> HIDE DEF d
  <2>2. IsRead(i, d, y)
    BY <2>1, ReadIs
  <2>3. Cloud /\ y.detail = detail(all) /\ "detail" \in DOMAIN y
    <3>1. "detail" \in DOMAIN y
      BY <2>2 DEF IsRead
    <3>2. ~Cloud => DOMAIN y = {"names", "count", "structure"}
      BY DEF y
    <3> DEFINE b == base(all)
               t == [detail |-> detail(all)]
    <3>3. Cloud => y = t ++ b
      BY DEF y
    <3>4. DOMAIN t = {"detail"} /\ t.detail = detail(all)
      OBVIOUS
    <3> HIDE DEF b, t, detail
    <3>5. IsUpdate(t ++ b, t, b)
      BY UpdateIs
    <3>6. QED
      BY <3>1, <3>2, <3>3, <3>4, <3>5 DEF IsUpdate
  <2>4. i.detail = detail(all)
    BY <2>2, <2>3 DEF IsRead
  <2> HIDE DEF detail, all
  <2>5. QED
    BY <1>4, <2>4
<1> HIDE DEF R, Q
<1>7. AreasOK(R, Q)
  BY <1>1, <1>5, <1>6 DEF AreasOK
<1>8. JiraSnap(R ++ A, Q ++ I, 5)
  BY <1>1, <1>7, NewAreas, AreasAdded
<1>9. QED
  BY <1>8 DEF R, Q

-----------------------------------------------------------------------------
(* The lists of a Jira instance, and the stages that complete them.           *)

LEMMA SeqOfSet ==
  ASSUME NEW S, NEW s \in Seq(S)
  PROVE  ToSet(SetToSeq(ToSet(s))) \subseteq ToSet(s)
<1> DEFINE T == ToSet(s)
<1>1. IsFiniteSet(T)
  <2>1. Len(s) \in Nat /\ DOMAIN s = 1..Len(s)
    OBVIOUS
  <2>2. s \in Surjection(1..Len(s), T)
    BY <2>1 DEF Surjection, ToSet
  <2>3. IsFiniteSet(1..Len(s))
    BY <2>1, FS_Interval
  <2>4. QED
    BY <2>2, <2>3, FS_Surjection
<1> HIDE DEF T
<1>2. Cardinality(T) \in Nat /\ ExistsBijection(1..Cardinality(T), T)
  BY <1>1, FS_CardinalityType
<1>3. PICK f \in Bijection(1..Cardinality(T), T) : TRUE
  BY <1>2 DEF ExistsBijection
<1>4. f \in [1..Cardinality(T) -> T] /\ IsInjective(f)
  BY <1>3 DEF Bijection, Injection, IsInjective
<1>5. SetToSeq(T) \in [1..Cardinality(T) -> T]
  BY <1>4 DEF SetToSeq
<1>6. \A i \in DOMAIN SetToSeq(T) : SetToSeq(T)[i] \in T
  BY <1>5
<1>7. ToSet(SetToSeq(T)) \subseteq T
  BY <1>6 DEF ToSet
<1>8. QED
  BY <1>7 DEF T

LEMMA AreaSets ==
  /\ SchemeAreas \cup TypeSchemeAreas \cup {"screens", "workflow_schemes", "screen_schemes"} \subseteq ListAreas
  /\ SchemeAreas \cap TypeSchemeAreas = {} /\ "screens" \notin SchemeAreas \cup TypeSchemeAreas
  /\ "workflow_schemes" \in SchemeAreas /\ "screen_schemes" \in SchemeAreas
  /\ ListAreas \cap ({"groups", "custom_field_options", "issue_quality", "spaces", "content_quality", "macros",
                      "workflows", "projects"} \cup ProbedAreas) = {}
BY DEF SchemeAreas, TypeSchemeAreas, ListAreas, CloudOnly, ProbedAreas

\* The record of a list no later stage has completed.
Plain(a, r, i) ==
  /\ AreaOK(a, r, i)
  /\ DOMAIN r \subseteq {"skipped", "error", "names", "count"}
  /\ DOMAIN i \subseteq {"skipped", "error", "names", "count"}
  /\ ~i.skipped => "names" \in DOMAIN i /\ ToSet(i.names) \subseteq ToSet(site.lists[a])
LEMMA ListRead ==
  ASSUME NEW A, NEW I, NEW F, NEW a \in ListAreas, site \in Sites, site.product = "jira"
  PROVE  Plain(a, Lists(A, F)[a], Lists(I, {})[a])
<1> DEFINE r == Lists(A, F)[a]
           i == Lists(I, {})[a]
           out == ~Cloud /\ a \in CloudOnly
           rec(rs) == [names |-> SetToSeq(ToSet(rs)), count |-> Len(rs)]
           rows == Cut(site.lists[a], a \in F)
           whole == site.lists[a]
           e == a \in F
           d == a \in {}
<1>1. out => r = Skip /\ i = Skip
  BY DEF Lists
<1>2. ~out => r = Read(e, rec(rows)) /\ i = Read(d, rec(whole))
  BY DEF Lists, Cut
<1>3. e \in BOOLEAN /\ d \in BOOLEAN /\ ~d /\ (~e => rec(rows) = rec(whole))
  BY DEF Cut
<1>4. DOMAIN rec(rows) = {"names", "count"} /\ DOMAIN rec(whole) = {"names", "count"}
      /\ rec(whole).names = SetToSeq(ToSet(whole))
  OBVIOUS
<1>5. whole \in Seq(ToSet(whole))
  BY JiraIs DEF JiraSite
<1>6. ToSet(SetToSeq(ToSet(whole))) \subseteq ToSet(whole)
  BY <1>5, SeqOfSet
<1> HIDE DEF r, i, out, rec, rows, e, d
<1>7. Plain(a, r, i)
  <2>1. CASE out
    BY <1>1, <2>1, SkipIs, SameOK DEF Plain
  <2>2. CASE ~out
    <3>1. AreaOK(a, r, i)
      BY <1>2, <1>3, <2>2, ReadEither
    <3>2. IsRead(r, e, rec(rows)) /\ IsRead(i, d, rec(whole))
      BY <1>2, <1>3, <2>2, ReadIs
    <3>3. i.names = SetToSeq(ToSet(whole))
      BY <1>4, <3>2 DEF IsRead
    <3>4. QED
      BY <1>4, <1>6, <3>1, <3>2, <3>3 DEF IsRead, Plain
  <2>3. QED
    BY <2>1, <2>2
<1>8. QED
  BY <1>7 DEF r, i

LEMMA SimpleRead ==
  ASSUME NEW A, NEW I, NEW F, JiraSnap(A, I, 0), site \in Sites, site.product = "jira"
  PROVE  JiraSnap(Lists(A, F) ++ A, Lists(I, {}) ++ I, 1)
<1> DEFINE R == Lists(A, F)
           Q == Lists(I, {})
           B == R ++ A
           J == Q ++ I
<1>1. DOMAIN R = ListAreas /\ DOMAIN Q = ListAreas
  BY DEF Lists
<1>2. \A a \in ListAreas : Plain(a, R[a], Q[a])
  BY ListRead
<1>3. DOMAIN A = {} /\ DOMAIN I = {} /\ JiraAreas(1) = ListAreas
  BY DEF JiraSnap, JiraAreas, Upon
<1>4. IsUpdate(B, R, A) /\ IsUpdate(J, Q, I)
  BY UpdateIs
<1> HIDE DEF B, J, R, Q
<1>5. /\ DOMAIN B = ListAreas /\ DOMAIN J = ListAreas
      /\ \A a \in ListAreas : Plain(a, B[a], J[a])
  BY <1>1, <1>2, <1>3, <1>4 DEF IsUpdate
<1>6. \A a \in ListAreas : AreaOK(a, B[a], J[a]) /\ JiraTrue(a, J[a])
  <2> TAKE a \in ListAreas
  <2>1. Plain(a, B[a], J[a])
    BY <1>5
  <2>2. /\ "projects_using" \notin DOMAIN J[a] /\ "fields" \notin DOMAIN J[a] /\ AreaOK(a, B[a], J[a])
        /\ ~J[a].skipped => "names" \in DOMAIN J[a]
    BY <2>1 DEF Plain
  <2>3. a \notin {"workflows", "projects"}
    BY AreaSets
  <2>4. QED
    BY <2>2, <2>3 DEF JiraTrue, SchemeTrue, FieldsTrue
<1>7. \A a \in ListAreas : /\ DOMAIN B[a] \cap {"projects_using", "used", "fields"} = {}
                           /\ DOMAIN J[a] \cap {"projects_using", "used", "fields"} = {}
  BY <1>5 DEF Plain
<1>8. Bare(B, 1) /\ Bare(J, 1)
  BY <1>7, AreaSets DEF Bare
<1>9. UsedTrue(B) /\ UsedTrue(J)
  BY <1>7, AreaSets DEF UsedTrue
<1>10. NamesTrue(J)
  BY <1>5, AreaSets DEF NamesTrue, Plain, Schemes
<1>11. JiraSnap(B, J, 1)
  BY <1>3, <1>5, <1>6, <1>8, <1>9, <1>10 DEF JiraSnap
<1>12. QED
  BY <1>11 DEF B, J, R, Q

\* A stage that completes the records of some lists.
LEMMA ListsCompleted ==
  ASSUME NEW A, NEW I, NEW B, NEW J, NEW n \in {1, 3, 13}, NEW C \in SUBSET ListAreas,
         JiraSnap(A, I, n), DOMAIN B = DOMAIN A, DOMAIN J = DOMAIN I,
         \A a \in DOMAIN A : a \notin C => B[a] = A[a] /\ J[a] = I[a],
         \A a \in C : AreaOK(a, B[a], J[a]) /\ (Judged(J[a]) => JiraTrue(a, J[a])),
         Bare(B, n + 1), Bare(J, n + 1), UsedTrue(B), UsedTrue(J), NamesTrue(J)
  PROVE  JiraSnap(B, J, n + 1)
<1>1. JiraAreas(n + 1) = JiraAreas(n) /\ DOMAIN A = JiraAreas(n) /\ DOMAIN I = JiraAreas(n)
  BY DEF JiraSnap, JiraAreas, Upon
<1>2. \A a \in JiraAreas(n) : AreaOK(a, B[a], J[a]) /\ (Judged(J[a]) => JiraTrue(a, J[a]))
  BY <1>1 DEF JiraSnap
<1>3. n + 1 > 6 => n > 6 /\ "groups" \in JiraAreas(n) /\ "groups" \notin C
  BY AreaSets DEF JiraAreas, Upon
<1>4. n + 1 > 9 => /\ n > 9 /\ {"custom_fields", "custom_field_options"} \subseteq JiraAreas(n)
                   /\ {"custom_fields", "custom_field_options"} \cap C = {}
  BY DEF JiraAreas, Upon, ListAreas, CloudOnly
<1>5. n + 1 > 6 => (Judged(B["groups"]) => MembersTrue(B["groups"]))
  BY <1>1, <1>3 DEF JiraSnap
<1>6. n + 1 > 9 => OptionsKept(B, J)
  <2>1. n + 1 > 9 => OptionsKept(A, I)
    BY <1>4 DEF JiraSnap
  <2>2. QED
    BY <1>1, <1>4, <2>1 DEF OptionsKept
<1>7. QED
  BY <1>1, <1>2, <1>5, <1>6 DEF JiraSnap

\* Completing a record leaves its marks and its other parts alone.
LEMMA UpdateFlags ==
  ASSUME NEW h, NEW r, {"skipped", "error"} \cap DOMAIN h = {}, Flagged(r)
  PROVE  Flagged(h ++ r) /\ (h ++ r).skipped = r.skipped /\ (h ++ r).error = r.error
<1> DEFINE x == h ++ r
<1>1. IsUpdate(x, h, r)
  BY UpdateIs
<1>4. x = [k \in DOMAIN x |-> x[k]]
  BY DEF ++
<1> HIDE DEF x
<1>2. Flagged(x) /\ x.skipped = r.skipped /\ x.error = r.error
  BY <1>1, <1>4 DEF IsUpdate, Flagged
<1>3. QED
  BY <1>2 DEF x

\* The fields of the screens, each on the tabs that could be read.
LEMMA ScreenRecordOK ==
  ASSUME NEW r, NEW i, NEW x, NEW y, NEW F, Flagged(r), Flagged(i), ~i.error, r.error \/ r = i,
         ~i.skipped => "names" \in DOMAIN i,
         x = IF r.error THEN r
             ELSE [fields |-> [s \in {s \in Deep : <<s, -1>> \notin F} |-> FieldsOn(s, F)]] ++ r,
         y = [fields |-> [s \in {s \in Deep : <<s, -1>> \notin {}} |-> FieldsOn(s, {})]] ++ i
  PROVE  AreaOK("screens", x, y) /\ FieldsTrue(y)
<1> DEFINE f == [s \in {s \in Deep : <<s, -1>> \notin F} |-> FieldsOn(s, F)]
           g == [s \in {s \in Deep : <<s, -1>> \notin {}} |-> FieldsOn(s, {})]
           h == [fields |-> f]
           k == [fields |-> g]
<1>1. /\ DOMAIN f \subseteq DOMAIN g
      /\ \A s \in DOMAIN f : f[s] \subseteq g[s]
  <2>1. \A s : FieldsOn(s, F) \subseteq FieldsOn(s, {})
    BY DEF FieldsOn
  <2>2. QED
    BY <2>1
<1>2. g = [s \in Deep |-> OnTabs(s)]
  <2>1. \A s : FieldsOn(s, {}) = OnTabs(s)
    BY DEF FieldsOn, OnTabs
  <2>2. QED
    BY <2>1
<1>3. /\ DOMAIN h = {"fields"} /\ h.fields = f /\ DOMAIN k = {"fields"} /\ k.fields = g
      /\ y = k ++ i /\ (~r.error => x = h ++ r) /\ (r.error => x = r)
  OBVIOUS
<1> HIDE DEF f, g, h, k
<1>4. IsUpdate(h ++ r, h, r) /\ IsUpdate(k ++ i, k, i)
  BY UpdateIs
<1>5. /\ Flagged(y) /\ ~y.error /\ y.fields = g /\ "fields" \in DOMAIN y
      /\ ~y.skipped => "names" \in DOMAIN y
  BY <1>3, <1>4, UpdateFlags DEF IsUpdate
<1>6. CASE r.error
  BY <1>2, <1>3, <1>5, <1>6, ErrorOK DEF FieldsTrue
<1>7. CASE ~r.error
  <2>1. r = i /\ x = h ++ r /\ y = k ++ r
    BY <1>3, <1>7
  <2>2. Flagged(x) /\ x.fields = f /\ "fields" \in DOMAIN x
    BY <1>3, <1>4, <2>1, UpdateFlags DEF IsUpdate
  <2>3. SameBut(x, y, "fields")
    BY <1>3, <1>4, <2>1 DEF IsUpdate, SameBut
  <2>4. AreaOK("screens", x, y)
    BY <1>1, <1>5, <2>2, <2>3, ShortOK DEF Short
  <2>5. QED
    BY <1>2, <1>5, <2>4 DEF FieldsTrue
<1>8. QED
  BY <1>6, <1>7

LEMMA ScreenFieldsRead ==
  ASSUME NEW A, NEW I, NEW F, JiraSnap(A, I, 1)
  PROVE  JiraSnap(ScreenFields(A, F) ++ A, ScreenFields(I, {}) ++ I, 2)
<1> DEFINE a == "screens"
           R == ScreenFields(A, F)
           Q == ScreenFields(I, {})
           B == R ++ A
           J == Q ++ I
           r == A[a]
           i == I[a]
<1>1. DOMAIN A = ListAreas /\ DOMAIN I = ListAreas
  BY DEF JiraSnap, JiraAreas, Upon
<1>2. Bare(A, 1) /\ Bare(I, 1) /\ UsedTrue(A) /\ UsedTrue(I) /\ NamesTrue(I)
  BY DEF JiraSnap
<1>3. /\ Flagged(r) /\ Flagged(i) /\ ~i.error
      /\ r.error \/ r = i
      /\ "fields" \notin DOMAIN r /\ "fields" \notin DOMAIN i
      /\ ~i.skipped => "names" \in DOMAIN i
  <2>1. AreaOK(a, r, i) /\ (Judged(i) => FieldsTrue(i))
    BY AreaSets DEF JiraSnap, JiraAreas, Upon, JiraTrue
  <2>2. QED
    BY <1>2, <2>1, AreaSets DEF AreaOK, Short, Bare, Schemes, ProbedAreas, FieldsTrue, Judged
<1>4. IsUpdate(B, R, A) /\ IsUpdate(J, Q, I)
  BY UpdateIs
<1>5. DOMAIN R \subseteq {a} /\ DOMAIN Q \subseteq {a}
  BY DEF ScreenFields
<1>6. \/ B[a] = r /\ J[a] = i /\ ~Cloud
      \/ AreaOK(a, B[a], J[a]) /\ FieldsTrue(J[a])
  <2>1. CASE ~Cloud
    <3>1. DOMAIN R = {} /\ DOMAIN Q = {}
      BY <2>1 DEF ScreenFields
    <3> HIDE DEF R, Q, B, J
    <3>2. QED
      BY <1>1, <1>4, <2>1, <3>1, AreaSets DEF IsUpdate
  <2>2. CASE Cloud
    <3> DEFINE f == [s \in {s \in Deep : <<s, -1>> \notin F} |-> FieldsOn(s, F)]
               g == [s \in {s \in Deep : <<s, -1>> \notin {}} |-> FieldsOn(s, {})]
    <3>1. r.error => DOMAIN R = {}
      BY <2>2 DEF ScreenFields
    <3>2. ~r.error => R = [screens |-> [fields |-> f] ++ r]
      BY <2>2 DEF ScreenFields
    <3>3. Q = [screens |-> [fields |-> g] ++ i]
      BY <1>3, <2>2 DEF ScreenFields
    <3> HIDE DEF R, Q, B, J
    <3>4. B[a] = IF r.error THEN r ELSE [fields |-> f] ++ r
      BY <1>1, <1>4, <3>1, <3>2, AreaSets DEF IsUpdate
    <3>5. J[a] = [fields |-> g] ++ i
      BY <1>4, <3>3 DEF IsUpdate
    <3>6. AreaOK(a, B[a], J[a]) /\ FieldsTrue(J[a])
      BY <1>3, <3>4, <3>5, ScreenRecordOK
    <3>7. QED
      BY <3>6
  <2>3. QED
    BY <2>1, <2>2
<1> HIDE DEF R, Q, B, J
<1>7. /\ DOMAIN B = ListAreas /\ DOMAIN J = ListAreas
      /\ \A b \in ListAreas : b # a => B[b] = A[b] /\ J[b] = I[b]
  BY <1>1, <1>4, <1>5, AreaSets DEF IsUpdate
<1>8. AreaOK(a, B[a], J[a]) /\ (Judged(J[a]) => JiraTrue(a, J[a]))
  <2>1. CASE B[a] = r /\ J[a] = i /\ ~Cloud
    BY <2>1, AreaSets DEF JiraSnap, JiraAreas, Upon
  <2>2. CASE AreaOK(a, B[a], J[a]) /\ FieldsTrue(J[a])
    BY <2>2, AreaSets DEF JiraTrue, Schemes
  <2>3. QED
    BY <1>6, <2>1, <2>2
<1>9. Bare(B, 2) /\ Bare(J, 2)
  BY <1>2, <1>7, AreaSets DEF Bare
<1>10. UsedTrue(B) /\ UsedTrue(J)
  BY <1>9, AreaSets DEF Bare, UsedTrue
<1>11. NamesTrue(J)
  BY <1>2, <1>7, AreaSets DEF NamesTrue, Schemes
<1>12. JiraSnap(B, J, 2)
  <2> DEFINE C == {a}
  <2>1. C \in SUBSET ListAreas
    BY AreaSets
  <2>2. \A b \in C : AreaOK(b, B[b], J[b]) /\ (Judged(J[b]) => JiraTrue(b, J[b]))
    BY <1>8
  <2>3. \A b \in DOMAIN A : b \notin C => B[b] = A[b] /\ J[b] = I[b]
    BY <1>1, <1>7
  <2> HIDE DEF C
  <2>4. QED
    BY <1>1, <1>7, <1>9, <1>10, <1>11, <2>1, <2>2, <2>3, ListsCompleted
<1>13. JiraSnap(R ++ A, Q ++ I, 2)
  BY <1>12 DEF B, J
<1>14. QED
  BY <1>13 DEF R, Q

\* A list of schemes completed with the use of the schemes.
IsUsed(x, a, r, screens) ==
  /\ Flagged(x) /\ x.skipped = r.skipped /\ x.error = r.error
  /\ "projects_using" \in DOMAIN x /\ x.projects_using = site.using[a]
  /\ DOMAIN x = DOMAIN r \cup DOMAIN Refers(a, screens) \cup {"projects_using"}
  /\ \A k \in DOMAIN r : k \notin {"projects_using", "used"} => x[k] = r[k]
  /\ "used" \in DOMAIN Refers(a, screens) => x.used = Refers(a, screens).used
LEMMA UseIs ==
  ASSUME NEW a, NEW r, NEW screens, Flagged(r)
  PROVE  IsUsed([projects_using |-> site.using[a]] ++ Refers(a, screens) ++ r, a, r, screens)
<1> DEFINE p == [projects_using |-> site.using[a]]
           q == Refers(a, screens)
           h == p ++ q
           x == h ++ r
<1>1. DOMAIN p = {"projects_using"} /\ p.projects_using = site.using[a]
  OBVIOUS
<1>2. DOMAIN q \subseteq {"used"}
  BY DEF Refers
<1> HIDE DEF p, q
<1>3. IsUpdate(h, p, q)
  BY UpdateIs
<1> HIDE DEF h
<1>4. IsUpdate(x, h, r)
  BY UpdateIs
<1>5. {"skipped", "error"} \cap DOMAIN h = {}
  BY <1>1, <1>2, <1>3 DEF IsUpdate
<1>6. Flagged(x) /\ x.skipped = r.skipped /\ x.error = r.error
  BY <1>5, UpdateFlags
<1> HIDE DEF x
<1>7. IsUsed(x, a, r, screens)
  BY <1>1, <1>2, <1>3, <1>4, <1>6 DEF IsUsed, IsUpdate, q
<1>8. QED
  BY <1>7 DEF x, h, p, q

LEMMA RefersIs ==
  ASSUME NEW a, NEW screens
  PROVE  /\ a = "workflow_schemes" => DOMAIN Refers(a, screens) = {"used"} /\ Refers(a, screens).used = site.wfUsed
         /\ a = "screen_schemes" =>
              DOMAIN Refers(a, screens) = {"used"} /\ Refers(a, screens).used = site.screensUsed \cap screens
         /\ a \notin {"workflow_schemes", "screen_schemes"} => DOMAIN Refers(a, screens) = {}
         /\ a # "screen_schemes" => \A other : Refers(a, screens) = Refers(a, other)
BY DEF Refers

LEMMA SchemeRecordOK ==
  ASSUME NEW a \in SchemeAreas, NEW r, NEW i, NEW x, NEW y, NEW e \in BOOLEAN, NEW S, NEW T,
         Flagged(r), Flagged(i), ~i.error,
         ~i.skipped => "names" \in DOMAIN i /\ ToSet(i.names) \subseteq DOMAIN site.using[a],
         r.error \/ r = i \/ (a = "screen_schemes" /\ SameBut(r, i, "used")),
         DOMAIN r \cap {"projects_using", "used"} = {}, DOMAIN i \cap {"projects_using", "used"} = {},
         IF ~r.skipped /\ ~r.error /\ ~e THEN x = [projects_using |-> site.using[a]] ++ Refers(a, S) ++ r ELSE x = r,
         IF ~i.skipped /\ ~i.error THEN y = [projects_using |-> site.using[a]] ++ Refers(a, T) ++ i ELSE y = i
  PROVE  AreaOK(a, x, y) /\ SchemeTrue(a, y)
<1>1. CASE i.skipped
  <2>1. y = i
    BY <1>1
  <2>2. r.error \/ (r.skipped /\ r = i) \/ (a = "screen_schemes" /\ SameBut(r, i, "used") /\ r.skipped)
    BY <1>1 DEF SameBut, Flagged
  <2>3. x = r
    BY <2>2
  <2>4. AreaOK(a, x, y)
    BY <2>1, <2>3 DEF AreaOK, Short
  <2>5. QED
    BY <2>1, <2>4 DEF SchemeTrue
<1>2. CASE ~i.skipped
  <2>1. y = [projects_using |-> site.using[a]] ++ Refers(a, T) ++ i
    BY <1>2
  <2>2. IsUsed(y, a, i, T)
    BY <2>1, UseIs
  <2>3. Flagged(y) /\ ~y.error /\ "projects_using" \in DOMAIN y
    BY <2>2 DEF IsUsed
  <2>4. SchemeTrue(a, y)
    <3>1. y.names = i.names /\ y.projects_using = site.using[a]
      BY <1>2, <2>2 DEF IsUsed
    <3>2. QED
      BY <1>2, <3>1 DEF SchemeTrue
  <2>5. AreaOK(a, x, y)
    <3>1. CASE r.error
      <4>1. x = r
        BY <3>1
      <4>2. QED
        BY <2>3, <3>1, <4>1, ErrorOK
    <3>2. CASE ~r.error /\ e
      <4>1. x = r
        BY <3>2
      <4>2. QED
        BY <2>3, <4>1, ShortOK DEF Short, Schemes
    <3>3. CASE ~r.error /\ ~e
      <4>1. ~r.skipped
        BY <1>2, <3>3 DEF SameBut, Flagged
      <4>2. x = [projects_using |-> site.using[a]] ++ Refers(a, S) ++ r
        BY <3>3, <4>1
      <4>3. IsUsed(x, a, r, S)
        BY <4>2, UseIs
      <4>4. CASE a # "screen_schemes"
        <5>1. r = i /\ Refers(a, S) = Refers(a, T)
          BY <3>3, <4>4, RefersIs
        <5>2. x = y
          BY <2>1, <4>2, <5>1
        <5>3. QED
          BY <2>3, <5>2, SameOK
      <4>5. CASE a = "screen_schemes"
        <5>1. SameBut(r, i, "used")
          BY <3>3, <4>5 DEF SameBut
        <5>2. DOMAIN Refers(a, S) = {"used"} /\ DOMAIN Refers(a, T) = {"used"}
          BY <4>5, RefersIs
        <5>3. SameBut(x, y, "used")
          BY <2>2, <4>3, <5>1, <5>2 DEF IsUsed, SameBut
        <5>4. QED
          BY <2>3, <4>3, <4>5, <5>3, ShortOK DEF IsUsed, Short
      <4>6. QED
        BY <4>4, <4>5
    <3>4. QED
      BY <3>1, <3>2, <3>3
  <2>6. QED
    BY <2>4, <2>5
<1>3. QED
  BY <1>1, <1>2

LEMMA SchemesRead ==
  ASSUME NEW A, NEW I, NEW F, JiraSnap(A, I, 3), site \in Sites, site.product = "jira"
  PROVE  JiraSnap(SchemeUse(A, F) ++ A, SchemeUse(I, {}) ++ I, 4)
<1> DEFINE R == SchemeUse(A, F)
           Q == SchemeUse(I, {})
           B == R ++ A
           J == Q ++ I
           S == ToSet(A["screens"].names)
           T == ToSet(I["screens"].names)
<1>1. DOMAIN A = JiraAreas(3) /\ DOMAIN I = JiraAreas(3) /\ ListAreas \subseteq JiraAreas(3)
  BY DEF JiraSnap, JiraAreas, Upon
<1>2. Bare(A, 3) /\ Bare(I, 3) /\ UsedTrue(A) /\ UsedTrue(I) /\ NamesTrue(I)
  BY DEF JiraSnap
<1>3. IsUpdate(B, R, A) /\ IsUpdate(J, Q, I)
  BY UpdateIs
<1>4. /\ DOMAIN R = {a \in SchemeAreas : ~A[a].skipped /\ ~A[a].error /\ a \notin F}
      /\ \A a \in DOMAIN R : R[a] = [projects_using |-> site.using[a]] ++ Refers(a, S) ++ A[a]
  BY DEF SchemeUse
<1>5. /\ DOMAIN Q = {a \in SchemeAreas : ~I[a].skipped /\ ~I[a].error /\ a \notin {}}
      /\ \A a \in DOMAIN Q : Q[a] = [projects_using |-> site.using[a]] ++ Refers(a, T) ++ I[a]
  BY DEF SchemeUse
<1> HIDE DEF R, Q, B, J, S, T
<1>6. /\ DOMAIN B = DOMAIN A /\ DOMAIN J = DOMAIN I
      /\ \A b \in DOMAIN A : b \notin SchemeAreas => B[b] = A[b] /\ J[b] = I[b]
  BY <1>1, <1>3, <1>4, <1>5, AreaSets DEF IsUpdate
<1>7. ASSUME NEW a \in SchemeAreas
      PROVE  /\ B[a] = IF ~A[a].skipped /\ ~A[a].error /\ a \notin F
                       THEN [projects_using |-> site.using[a]] ++ Refers(a, S) ++ A[a] ELSE A[a]
             /\ J[a] = IF ~I[a].skipped /\ ~I[a].error
                       THEN [projects_using |-> site.using[a]] ++ Refers(a, T) ++ I[a] ELSE I[a]
  <2>1. a \in DOMAIN A /\ a \in DOMAIN I
    BY <1>1, AreaSets
  <2>2. CASE a \in DOMAIN R
    BY <1>3, <1>4, <1>5, <2>1, <2>2 DEF IsUpdate
  <2>3. CASE a \notin DOMAIN R
    BY <1>3, <1>4, <1>5, <2>1, <2>3 DEF IsUpdate
  <2>4. QED
    BY <2>2, <2>3
<1>8. ASSUME NEW a \in SchemeAreas
      PROVE  /\ Flagged(A[a]) /\ Flagged(I[a]) /\ ~I[a].error
             /\ A[a].error \/ A[a] = I[a] \/ (a = "screen_schemes" /\ SameBut(A[a], I[a], "used"))
             /\ DOMAIN A[a] \cap {"projects_using", "used"} = {} /\ DOMAIN I[a] \cap {"projects_using", "used"} = {}
  <2>1. AreaOK(a, A[a], I[a])
    BY <1>1, AreaSets DEF JiraSnap
  <2>2. DOMAIN A[a] \cap {"projects_using", "used"} = {} /\ DOMAIN I[a] \cap {"projects_using", "used"} = {}
    BY <1>2 DEF Bare
  <2>3. QED
    BY <2>1, <2>2, AreaSets DEF AreaOK, Short
<1>9. ASSUME NEW a \in SchemeAreas PROVE AreaOK(a, B[a], J[a]) /\ SchemeTrue(a, J[a])
  <2> DEFINE e == a \in F
  <2>1. ~I[a].skipped => "names" \in DOMAIN I[a] /\ ToSet(I[a].names) \subseteq DOMAIN site.using[a]
    BY <1>2, JiraIs DEF NamesTrue, JiraSite, Schemes
  <2>2. e \in BOOLEAN
    OBVIOUS
  <2>3. IF ~A[a].skipped /\ ~A[a].error /\ ~e
        THEN B[a] = [projects_using |-> site.using[a]] ++ Refers(a, S) ++ A[a] ELSE B[a] = A[a]
    BY <1>7
  <2>4. IF ~I[a].skipped /\ ~I[a].error
        THEN J[a] = [projects_using |-> site.using[a]] ++ Refers(a, T) ++ I[a] ELSE J[a] = I[a]
    BY <1>7
  <2> HIDE DEF e
  <2>5. QED
    BY <1>8, <2>1, <2>2, <2>3, <2>4, SchemeRecordOK
<1>10. \A a \in SchemeAreas : JiraTrue(a, J[a])
  BY <1>9, AreaSets DEF JiraTrue
<1>11. Bare(B, 4) /\ Bare(J, 4)
  <2>1. TypeSchemeAreas \subseteq DOMAIN A /\ TypeSchemeAreas \cap SchemeAreas = {}
    BY <1>1, AreaSets
  <2>2. QED
    BY <1>2, <1>6, <2>1 DEF Bare
<1>12. \A a \in SchemeAreas : /\ IsUsed(B[a], a, A[a], S) \/ B[a] = A[a]
                              /\ IsUsed(J[a], a, I[a], T) \/ J[a] = I[a]
  <2> TAKE a \in SchemeAreas
  <2>1. IsUsed(B[a], a, A[a], S) \/ B[a] = A[a]
    <3>1. IsUsed([projects_using |-> site.using[a]] ++ Refers(a, S) ++ A[a], a, A[a], S)
      BY <1>8, UseIs
    <3>2. QED
      BY <1>7, <3>1
  <2>2. IsUsed(J[a], a, I[a], T) \/ J[a] = I[a]
    <3>1. IsUsed([projects_using |-> site.using[a]] ++ Refers(a, T) ++ I[a], a, I[a], T)
      BY <1>8, UseIs
    <3>2. QED
      BY <1>7, <3>1
  <2>3. QED
    BY <2>1, <2>2
<1>13. B["screens"] = A["screens"] /\ J["screens"] = I["screens"]
  BY <1>1, <1>6, AreaSets
<1>14. UsedTrue(B) /\ UsedTrue(J)
  <2>1. \A a \in SchemeAreas :
          /\ "used" \in DOMAIN B[a] => "used" \in DOMAIN Refers(a, S) /\ B[a].used = Refers(a, S).used
          /\ "used" \in DOMAIN J[a] => "used" \in DOMAIN Refers(a, T) /\ J[a].used = Refers(a, T).used
    BY <1>8, <1>12 DEF IsUsed
  <2>2. "workflow_schemes" \in SchemeAreas /\ "screen_schemes" \in SchemeAreas
    BY AreaSets
  <2>3. QED
    BY <1>13, <2>1, <2>2, RefersIs DEF UsedTrue, S, T
<1>15. NamesTrue(J)
  <2>1. ASSUME NEW a \in SchemeAreas, ~J[a].skipped
        PROVE  "names" \in DOMAIN J[a] /\ ToSet(J[a].names) \subseteq ToSet(site.lists[a])
    <3>1. ~I[a].skipped
      BY <1>12, <2>1 DEF IsUsed
    <3>2. "names" \in DOMAIN I[a] /\ ToSet(I[a].names) \subseteq ToSet(site.lists[a])
      BY <1>2, <3>1 DEF NamesTrue, Schemes
    <3>3. "names" \in DOMAIN J[a] /\ J[a].names = I[a].names
      BY <1>12, <3>2 DEF IsUsed
    <3>4. QED
      BY <3>2, <3>3
  <2>2. \A a \in TypeSchemeAreas : J[a] = I[a]
    BY <1>1, <1>6, AreaSets
  <2>3. QED
    BY <1>2, <2>1, <2>2 DEF NamesTrue, Schemes
<1>16. JiraSnap(B, J, 4)
  <2> DEFINE C == SchemeAreas
  <2>1. C \in SUBSET ListAreas
    BY AreaSets
  <2>2. \A b \in C : AreaOK(b, B[b], J[b]) /\ (Judged(J[b]) => JiraTrue(b, J[b]))
    BY <1>9, <1>10
  <2>3. \A b \in DOMAIN A : b \notin C => B[b] = A[b] /\ J[b] = I[b]
    BY <1>1, <1>6
  <2>4. JiraSnap(A, I, 3) /\ DOMAIN B = DOMAIN A /\ DOMAIN J = DOMAIN I
    BY <1>1, <1>6
  <2> HIDE DEF C
  <2>5. QED
    BY <2>1, <2>2, <2>3, <2>4, <1>11, <1>14, <1>15, ListsCompleted
<1>17. JiraSnap(R ++ A, Q ++ I, 4)
  BY <1>16 DEF B, J
<1>18. QED
  BY <1>17 DEF R, Q

\* A list of issue-type schemes completed with the projects that use them.
UsedBy(a) == [n \in {n \in DOMAIN site.using[a] : site.using[a][n] # {}} |-> site.using[a][n]]
LEMMA TypeSchemeRecordOK ==
  ASSUME NEW a \in TypeSchemeAreas, NEW r, NEW i, NEW x, NEW y, NEW e \in BOOLEAN,
         Flagged(r), Flagged(i), ~i.error,
         ~i.skipped => "names" \in DOMAIN i /\ ToSet(i.names) \subseteq DOMAIN site.using[a],
         r.error \/ r = i,
         DOMAIN r \cap {"projects_using", "used"} = {}, DOMAIN i \cap {"projects_using", "used"} = {},
         IF ~r.error /\ ~e THEN x = [projects_using |-> UsedBy(a)] ++ r ELSE x = r,
         y = [projects_using |-> UsedBy(a)] ++ i
  PROVE  /\ AreaOK(a, x, y) /\ "used" \notin DOMAIN x /\ "used" \notin DOMAIN y /\ y.skipped = i.skipped
         /\ ~i.skipped => SchemeTrue(a, y) /\ "names" \in DOMAIN y /\ y.names = i.names
<1> DEFINE h == [projects_using |-> UsedBy(a)]
<1>1. DOMAIN h = {"projects_using"} /\ h.projects_using = UsedBy(a)
  OBVIOUS
<1>2. y = h ++ i /\ (x = h ++ r \/ x = r) /\ (~r.error /\ ~e => x = h ++ r) /\ (r.error \/ e => x = r)
  OBVIOUS
<1> HIDE DEF h
<1>3. IsUpdate(h ++ i, h, i) /\ IsUpdate(h ++ r, h, r)
  BY UpdateIs
<1>4. Flagged(y) /\ ~y.error /\ y.skipped = i.skipped /\ y.projects_using = UsedBy(a) /\ "projects_using" \in DOMAIN y
  BY <1>1, <1>2, <1>3, UpdateFlags DEF IsUpdate
<1>5. ~i.skipped => "names" \in DOMAIN y /\ y.names = i.names
  BY <1>1, <1>2, <1>3 DEF IsUpdate
<1>6. ~i.skipped => SchemeTrue(a, y)
  <2>1. \A n \in DOMAIN site.using[a] : n \notin DOMAIN UsedBy(a) \/ UsedBy(a)[n] = {} => site.using[a][n] = {}
    BY DEF UsedBy
  <2>2. QED
    BY <1>4, <1>5, <2>1 DEF SchemeTrue
<1>7. "used" \notin DOMAIN x /\ "used" \notin DOMAIN y
  BY <1>1, <1>2, <1>3 DEF IsUpdate
<1>8. AreaOK(a, x, y)
  <2>1. CASE r.error
    BY <1>2, <1>4, <2>1, ErrorOK
  <2>2. CASE ~r.error /\ e
    <3>1. x = r
      BY <1>2, <2>2
    <3>2. QED
      BY <1>4, <3>1, ShortOK DEF Short, Schemes
  <2>3. CASE ~r.error /\ ~e
    <3>1. x = y
      BY <1>2, <2>3
    <3>2. QED
      BY <1>4, <3>1, SameOK
  <2>4. QED
    BY <2>1, <2>2, <2>3
<1>9. QED
  BY <1>4, <1>5, <1>6, <1>7, <1>8

LEMMA TypeSchemesRead ==
  ASSUME NEW A, NEW I, NEW F, JiraSnap(A, I, 13), site \in Sites, site.product = "jira"
  PROVE  JiraSnap(TypeSchemeUse(A, F) ++ A, TypeSchemeUse(I, {}) ++ I, 14)
<1> DEFINE R == TypeSchemeUse(A, F)
           Q == TypeSchemeUse(I, {})
           B == R ++ A
           J == Q ++ I
<1>1. DOMAIN A = JiraAreas(13) /\ DOMAIN I = JiraAreas(13) /\ ListAreas \subseteq JiraAreas(13)
  BY DEF JiraSnap, JiraAreas, Upon
<1>2. Bare(A, 13) /\ Bare(I, 13) /\ UsedTrue(A) /\ UsedTrue(I) /\ NamesTrue(I)
  BY DEF JiraSnap
<1>3. IsUpdate(B, R, A) /\ IsUpdate(J, Q, I)
  BY UpdateIs
<1>4. /\ DOMAIN R = {a \in TypeSchemeAreas : Cloud /\ ~A[a].error /\ a \notin F}
      /\ \A a \in DOMAIN R : R[a] = [projects_using |-> UsedBy(a)] ++ A[a]
  BY DEF TypeSchemeUse, UsedBy
<1>5. /\ DOMAIN Q = {a \in TypeSchemeAreas : Cloud /\ ~I[a].error /\ a \notin {}}
      /\ \A a \in DOMAIN Q : Q[a] = [projects_using |-> UsedBy(a)] ++ I[a]
  BY DEF TypeSchemeUse, UsedBy
<1> HIDE DEF R, Q, B, J
<1>6. /\ DOMAIN B = DOMAIN A /\ DOMAIN J = DOMAIN I
      /\ \A b \in DOMAIN A : b \notin TypeSchemeAreas => B[b] = A[b] /\ J[b] = I[b]
  BY <1>1, <1>3, <1>4, <1>5, AreaSets DEF IsUpdate
<1>7. ASSUME NEW a \in TypeSchemeAreas
      PROVE  /\ B[a] = IF Cloud /\ ~A[a].error /\ a \notin F THEN [projects_using |-> UsedBy(a)] ++ A[a] ELSE A[a]
             /\ J[a] = IF Cloud /\ ~I[a].error THEN [projects_using |-> UsedBy(a)] ++ I[a] ELSE I[a]
  <2>1. a \in DOMAIN A /\ a \in DOMAIN I
    BY <1>1, AreaSets
  <2>2. B[a] = IF Cloud /\ ~A[a].error /\ a \notin F THEN [projects_using |-> UsedBy(a)] ++ A[a] ELSE A[a]
    BY <1>3, <1>4, <2>1 DEF IsUpdate
  <2>3. J[a] = IF Cloud /\ ~I[a].error THEN [projects_using |-> UsedBy(a)] ++ I[a] ELSE I[a]
    BY <1>3, <1>5, <2>1 DEF IsUpdate
  <2>4. QED
    BY <2>2, <2>3
<1>8. ASSUME NEW a \in TypeSchemeAreas
      PROVE  /\ Flagged(A[a]) /\ Flagged(I[a]) /\ ~I[a].error
             /\ AreaOK(a, A[a], I[a]) /\ (A[a].error \/ A[a] = I[a])
             /\ DOMAIN A[a] \cap {"projects_using", "used"} = {} /\ DOMAIN I[a] \cap {"projects_using", "used"} = {}
             /\ ~I[a].skipped => "names" \in DOMAIN I[a] /\ ToSet(I[a].names) \subseteq ToSet(site.lists[a])
  <2>1. AreaOK(a, A[a], I[a])
    BY <1>1, AreaSets DEF JiraSnap
  <2>2. DOMAIN A[a] \cap {"projects_using", "used"} = {} /\ DOMAIN I[a] \cap {"projects_using", "used"} = {}
    BY <1>2 DEF Bare
  <2>3. ~I[a].skipped => "names" \in DOMAIN I[a] /\ ToSet(I[a].names) \subseteq ToSet(site.lists[a])
    BY <1>2 DEF NamesTrue, Schemes
  <2>4. ~Short(a, A[a], I[a])
    BY <2>2, AreaSets DEF Short
  <2>5. QED
    BY <2>1, <2>2, <2>3, <2>4 DEF AreaOK
<1>9. ASSUME NEW a \in TypeSchemeAreas
      PROVE  /\ AreaOK(a, B[a], J[a]) /\ "used" \notin DOMAIN B[a] /\ "used" \notin DOMAIN J[a]
             /\ ~J[a].skipped => /\ SchemeTrue(a, J[a]) /\ "names" \in DOMAIN J[a]
                                 /\ ToSet(J[a].names) \subseteq ToSet(site.lists[a])
  <2>1. CASE ~Cloud
    <3>1. B[a] = A[a] /\ J[a] = I[a]
      BY <1>7, <2>1
    <3>2. QED
      BY <1>8, <3>1 DEF SchemeTrue
  <2>2. CASE Cloud
    <3> DEFINE e == a \in F
    <3>1. ~I[a].skipped => "names" \in DOMAIN I[a] /\ ToSet(I[a].names) \subseteq DOMAIN site.using[a]
      BY <1>8, JiraIs DEF JiraSite
    <3>2. e \in BOOLEAN
      OBVIOUS
    <3>3. IF ~A[a].error /\ ~e THEN B[a] = [projects_using |-> UsedBy(a)] ++ A[a] ELSE B[a] = A[a]
      BY <1>7, <2>2
    <3>4. J[a] = [projects_using |-> UsedBy(a)] ++ I[a]
      BY <1>7, <1>8, <2>2
    <3> HIDE DEF e
    <3>5. /\ AreaOK(a, B[a], J[a]) /\ "used" \notin DOMAIN B[a] /\ "used" \notin DOMAIN J[a]
          /\ J[a].skipped = I[a].skipped
          /\ ~I[a].skipped => SchemeTrue(a, J[a]) /\ "names" \in DOMAIN J[a] /\ J[a].names = I[a].names
      BY <1>8, <3>1, <3>2, <3>3, <3>4, TypeSchemeRecordOK
    <3>6. QED
      BY <1>8, <3>5
  <2>3. QED
    BY <2>1, <2>2
<1>10. \A a \in TypeSchemeAreas : Judged(J[a]) => JiraTrue(a, J[a])
  BY <1>9, AreaSets DEF JiraTrue, Judged
<1>11. Bare(B, 14) /\ Bare(J, 14)
  BY <1>9 DEF Bare
<1>12. UsedTrue(B) /\ UsedTrue(J)
  <2>1. \A a \in SchemeAreas \cup {"screens"} : B[a] = A[a] /\ J[a] = I[a]
    BY <1>1, <1>6, AreaSets
  <2>2. QED
    BY <1>2, <2>1, AreaSets DEF UsedTrue
<1>13. NamesTrue(J)
  <2>1. \A a \in SchemeAreas : J[a] = I[a]
    BY <1>1, <1>6, AreaSets
  <2>2. QED
    BY <1>2, <1>9, <2>1 DEF NamesTrue, Schemes
<1>14. JiraSnap(B, J, 14)
  <2> DEFINE C == TypeSchemeAreas
  <2>1. C \in SUBSET ListAreas
    BY AreaSets
  <2>2. \A b \in C : AreaOK(b, B[b], J[b]) /\ (Judged(J[b]) => JiraTrue(b, J[b]))
    BY <1>9, <1>10
  <2>3. \A b \in DOMAIN A : b \notin C => B[b] = A[b] /\ J[b] = I[b]
    BY <1>1, <1>6
  <2>4. JiraSnap(A, I, 13) /\ DOMAIN B = DOMAIN A /\ DOMAIN J = DOMAIN I
    BY <1>1, <1>6
  <2> HIDE DEF C
  <2>5. QED
    BY <2>1, <2>2, <2>3, <2>4, <1>11, <1>12, <1>13, ListsCompleted
<1>15. JiraSnap(R ++ A, Q ++ I, 14)
  BY <1>14 DEF B, J
<1>16. QED
  BY <1>15 DEF R, Q

-----------------------------------------------------------------------------
(* The sequences of a Confluence instance.                                    *)

LEMMA WikiIs ==
  ASSUME site \in Sites, site.product = "confluence"
  PROVE  ConfluenceSite(site)
BY SitesAssumption

LEMMA CutIs ==
  ASSUME NEW S, NEW s \in Seq(S), NEW failed \in BOOLEAN
  PROVE  /\ Cut(s, failed) \in Seq(S) /\ ToSet(Cut(s, failed)) \subseteq ToSet(s)
         /\ ~failed => Cut(s, failed) = s
<1>1. CASE ~failed
  BY <1>1 DEF Cut
<1>2. CASE failed
  <2>1. Cut(s, failed) = SubSeq(s, 1, Len(s) - 1) /\ Len(s) \in Nat
    BY <1>2 DEF Cut
  <2>2. CASE s = <<>>
    <3>1. SubSeq(s, 1, Len(s) - 1) = <<>>
      BY <2>2
    <3>2. QED
      BY <1>2, <2>1, <2>2, <3>1 DEF ToSet
  <2>3. CASE s # <<>>
    <3> DEFINE c == SubSeq(s, 1, Len(s) - 1)
    <3>1. Len(s) - 1 \in Nat /\ Len(s) - 1 <= Len(s)
      BY <2>1, <2>3
    <3>2. c \in Seq(S) /\ Len(c) = Len(s) - 1 /\ \A i \in 1..(Len(s) - 1) : c[i] = s[i]
      BY <3>1, SubSeqProperties
    <3>3. DOMAIN c = 1..(Len(s) - 1) /\ DOMAIN s = 1..Len(s)
      BY <3>2
    <3>4. ToSet(c) \subseteq ToSet(s)
      BY <3>2, <3>3, <2>1 DEF ToSet
    <3>5. QED
      BY <1>2, <2>1, <3>2, <3>4
  <2>4. QED
    BY <2>2, <2>3
<1>3. QED
  BY <1>1, <1>2

LEMMA FirstIs ==
  ASSUME NEW S, NEW s \in Seq(S), NEW n \in Nat
  PROVE  ToSet(First(s, n)) \subseteq ToSet(s) /\ (~(Len(s) > n) => ToSet(First(s, n)) = ToSet(s))
<1>1. Len(s) \in Nat /\ DOMAIN s = 1..Len(s)
  OBVIOUS
<1>2. CASE n < Len(s)
  <2> DEFINE c == SubSeq(s, 1, n)
  <2>1. First(s, n) = c
    BY <1>2 DEF First
  <2>2. Len(c) = n /\ c \in Seq(S) /\ \A i \in 1..n : c[i] = s[i]
    BY <1>1, <1>2, SubSeqProperties
  <2>3. DOMAIN c = 1..n
    BY <2>2
  <2>4. ToSet(c) \subseteq ToSet(s)
    BY <1>1, <1>2, <2>2, <2>3 DEF ToSet
  <2>5. QED
    BY <1>1, <1>2, <2>1, <2>4
<1>3. CASE ~(n < Len(s))
  BY <1>1, <1>3 DEF First
<1>4. QED
  BY <1>2, <1>3

\* There is a function that collects the global spaces row by row.
LEMMA GlobalTable ==
  ASSUME NEW rows, Len(rows) \in Nat
  PROVE  \E g : /\ g = [k \in 0..Len(rows) |->
                          IF k = 0 THEN <<>>
                          ELSE IF rows[k].type = "global" THEN Append(g[k - 1], rows[k]) ELSE g[k - 1]]
                /\ GlobalSpaces(rows) = g[Len(rows)]
<1> DEFINE Step(g, k) == IF k = 0 THEN <<>>
                         ELSE IF rows[k].type = "global" THEN Append(g[k - 1], rows[k]) ELSE g[k - 1]
           Is(g, m) == g = [k \in 0..m |-> Step(g, k)]
           Without == {m \in Nat : ~ \E g : Is(g, m)}
<1>1. Without = {}
  <2> SUFFICES ASSUME Without # {} PROVE FALSE
    OBVIOUS
  <2>1. PICK m \in Without : \A y \in Without : m <= y
    BY LeastOf
  <2>2. CASE m = 0
    <3>1. Is([k \in 0..0 |-> <<>>], 0)
      OBVIOUS
    <3>2. QED
      BY <2>1, <2>2, <3>1
  <2>3. CASE m # 0
    <3>1. m - 1 \in Nat /\ ~(m <= m - 1)
      BY <2>1, <2>3
    <3>2. PICK g : Is(g, m - 1)
      <4> HIDE DEF Is
      <4>1. m - 1 \notin Without
        BY <2>1, <3>1
      <4>2. QED
        BY <3>1, <4>1
    <3> DEFINE h == [k \in 0..m |-> IF k = m THEN Step(g, m) ELSE g[k]]
    <3>3. \A k \in 0..m : h[k] = Step(h, k)
      <4> TAKE k \in 0..m
      <4>1. CASE k = 0
        BY <2>3, <3>2, <4>1
      <4>2. CASE k # 0
        <5>1. h[k - 1] = g[k - 1]
          BY <4>2
        <5>2. Step(h, k) = Step(g, k)
          BY <5>1, <4>2
        <5>3. CASE k = m
          BY <5>2, <5>3
        <5>4. CASE k # m
          <6>1. k \in 0..(m - 1) /\ h[k] = g[k]
            BY <5>4
          <6>2. g[k] = Step(g, k)
            BY <6>1, <3>2
          <6>3. QED
            BY <6>1, <6>2, <5>2
        <5>5. QED
          BY <5>3, <5>4
      <4>3. QED
        BY <4>1, <4>2
    <3>4. Is(h, m)
      BY <3>3
    <3>5. QED
      BY <3>4, <2>1
  <2>4. QED
    BY <2>2, <2>3
<1>2. PICK g : Is(g, Len(rows))
  BY <1>1
<1>3. QED
  BY <1>2 DEF GlobalSpaces

\* The global spaces of some rows are those of type global.
Global(T) == {sp \in T : sp.type = "global"}
LEMMA GlobalSpacesIs ==
  ASSUME NEW S, NEW rows \in Seq(S)
  PROVE  GlobalSpaces(rows) \in Seq(Global(ToSet(rows))) /\ ToSet(GlobalSpaces(rows)) = Global(ToSet(rows))
<1> DEFINE n == Len(rows)
           T == Global(ToSet(rows))
           Up(k) == {rows[j] : j \in {j \in 1..k : rows[j].type = "global"}}
<1>1. n \in Nat /\ DOMAIN rows = 1..n
  OBVIOUS
<1>2. PICK g : /\ g = [k \in 0..n |-> IF k = 0 THEN <<>>
                                      ELSE IF rows[k].type = "global" THEN Append(g[k - 1], rows[k]) ELSE g[k - 1]]
               /\ GlobalSpaces(rows) = g[n]
  BY <1>1, GlobalTable DEF GlobalSpaces
<1>3. \A k \in 0..n : g[k] = IF k = 0 THEN <<>>
                             ELSE IF rows[k].type = "global" THEN Append(g[k - 1], rows[k]) ELSE g[k - 1]
  BY <1>2
<1> DEFINE Good(k) == g[k] \in Seq(T) /\ ToSet(g[k]) = Up(k)
           Wrong == {k \in 0..n : ~Good(k)}
<1>4. Up(0) = {} /\ ToSet(<<>>) = {} /\ <<>> \in Seq(T)
  BY DEF ToSet
<1>5. ASSUME NEW k \in 1..n, rows[k].type = "global" PROVE Up(k) = Up(k - 1) \cup {rows[k]} /\ rows[k] \in T
  <2>1. rows[k] \in ToSet(rows)
    BY <1>1 DEF ToSet
  <2>2. 1..k = 1..(k - 1) \cup {k}
    BY <1>1
  <2>3. QED
    BY <2>1, <2>2, <1>5 DEF Global
<1>6. ASSUME NEW k \in 1..n, rows[k].type # "global" PROVE Up(k) = Up(k - 1)
  <2>2. 1..k = 1..(k - 1) \cup {k}
    BY <1>1
  <2>3. QED
    BY <2>2, <1>6
<1>7. Up(n) = T
  BY <1>1 DEF ToSet, Global
<1> HIDE DEF Up, T
<1>8. Wrong = {}
  <2> SUFFICES ASSUME Wrong # {} PROVE FALSE
    OBVIOUS
  <2>1. PICK k \in Wrong : \A y \in Wrong : k <= y
    <3>1. Wrong \subseteq Nat
      OBVIOUS
    <3> HIDE DEF Wrong
    <3>2. QED
      BY <3>1, LeastOf
  <2>2. ~Good(k) /\ k \in 0..n
    BY <2>1
  <2>3. k # 0
    BY <1>1, <1>3, <1>4, <2>2
  <2>4. k \in 1..n /\ k - 1 \in 0..n /\ k - 1 \notin Wrong
    BY <1>1, <2>1, <2>2, <2>3
  <2>5. g[k - 1] \in Seq(T) /\ ToSet(g[k - 1]) = Up(k - 1)
    BY <2>4
  <2>6. CASE rows[k].type # "global"
    <3>1. g[k] = g[k - 1]
      BY <1>3, <2>2, <2>3, <2>6
    <3>2. QED
      BY <1>6, <2>2, <2>4, <2>5, <2>6, <3>1
  <2>7. CASE rows[k].type = "global"
    <3>1. g[k] = Append(g[k - 1], rows[k])
      BY <1>3, <2>2, <2>3, <2>7
    <3>2. Up(k) = Up(k - 1) \cup {rows[k]} /\ rows[k] \in T
      BY <1>5, <2>4, <2>7
    <3>3. g[k] \in Seq(T) /\ ToSet(g[k]) = ToSet(g[k - 1]) \cup {rows[k]}
      <4> DEFINE s == g[k - 1]
                 x == rows[k]
      <4>1. s \in Seq(T) /\ x \in T
        BY <2>5, <3>2
      <4> HIDE DEF s, x
      <4>2. Append(s, x) \in Seq(T) /\ Len(Append(s, x)) = Len(s) + 1 /\ Len(s) \in Nat
        BY <4>1
      <4>3. DOMAIN Append(s, x) = 1..(Len(s) + 1) /\ DOMAIN s = 1..Len(s)
        BY <4>1, <4>2
      <4>4. Append(s, x)[Len(s) + 1] = x /\ \A i \in 1..Len(s) : Append(s, x)[i] = s[i]
        BY <4>1
      <4>5. ToSet(Append(s, x)) = ToSet(s) \cup {x}
        BY <4>2, <4>3, <4>4 DEF ToSet
      <4>6. QED
        BY <3>1, <4>2, <4>5 DEF s, x
    <3>4. QED
      BY <2>2, <2>5, <3>2, <3>3
  <2>8. QED
    BY <2>6, <2>7
<1>9. Good(n)
  BY <1>1, <1>8
<1>10. QED
  BY <1>2, <1>7, <1>9 DEF T

-----------------------------------------------------------------------------
(* The stages of the audit of a Confluence instance.                          *)

LEMMA NewWikiAreas ==
  /\ WikiAreas(0) = {} /\ WikiAreas(1) = {"spaces"}
  /\ WikiAreas(2) = WikiAreas(1) \cup {"space_permissions"} /\ "space_permissions" \notin WikiAreas(1)
  /\ WikiAreas(3) = WikiAreas(2) \cup {"page_restrictions"} /\ "page_restrictions" \notin WikiAreas(2)
  /\ WikiAreas(4) = WikiAreas(3) \cup {"groups"} /\ "groups" \notin WikiAreas(3)
  /\ WikiAreas(5) = WikiAreas(4) \cup {"templates"} /\ "templates" \notin WikiAreas(4)
  /\ WikiAreas(6) = WikiAreas(5) \cup {"labels"} /\ "labels" \notin WikiAreas(5)
  /\ WikiAreas(7) = WikiAreas(6) \cup {"content_quality"} /\ "content_quality" \notin WikiAreas(6)
  /\ WikiAreas(8) = WikiAreas(7) \cup {"macros"} /\ "macros" \notin WikiAreas(7)
BY DEF WikiAreas, Upon

\* A stage that adds an area to the snapshot of a Confluence instance.
LEMMA WikiAdded ==
  ASSUME NEW A, NEW I, NEW R, NEW Q, NEW n \in 1..7, NEW new, WikiSnap(A, I, n),
         WikiAreas(n + 1) = WikiAreas(n) \cup {new}, DOMAIN Q = {new}, DOMAIN R = {new},
         new \notin WikiAreas(n), AreaOK(new, R[new], Q[new]),
         n = 1 => ProbesTrue(R ++ A, "space_permissions") /\ ProbesKept(R ++ A, Q ++ I, "space_permissions"),
         n = 2 => ProbesTrue(R ++ A, "page_restrictions") /\ ProbesKept(R ++ A, Q ++ I, "page_restrictions"),
         n = 3 => new = "groups" /\ MembersTrue(R["groups"])
  PROVE  WikiSnap(R ++ A, Q ++ I, n + 1)
<1> DEFINE B == R ++ A
           J == Q ++ I
<1>1. IsUpdate(B, R, A) /\ IsUpdate(J, Q, I)
  BY UpdateIs
<1>2. DOMAIN A = WikiAreas(n) /\ DOMAIN I = WikiAreas(n)
  BY DEF WikiSnap
<1>3. /\ \A a \in WikiAreas(n) : B[a] = A[a] /\ J[a] = I[a]
      /\ B[new] = R[new] /\ J[new] = Q[new]
  BY <1>1, <1>2 DEF IsUpdate
<1>4. DOMAIN B = WikiAreas(n + 1) /\ DOMAIN J = WikiAreas(n + 1)
  BY <1>1, <1>2 DEF IsUpdate
<1>5. \A a \in WikiAreas(n + 1) : AreaOK(a, B[a], J[a])
  BY <1>3 DEF WikiSnap
<1>6. /\ n = 1 => ProbesTrue(B, "space_permissions") /\ ProbesKept(B, J, "space_permissions")
      /\ n = 2 => ProbesTrue(B, "page_restrictions") /\ ProbesKept(B, J, "page_restrictions")
  OBVIOUS
<1> HIDE DEF B, J
<1>7. "spaces" \in WikiAreas(n)
  BY DEF WikiAreas, Upon
<1>8. SpacesTrue(B["spaces"]) /\ SpacesTrue(J["spaces"])
  BY <1>3, <1>7 DEF WikiSnap
<1>9. n > 1 => ProbesTrue(B, "space_permissions") /\ ProbesKept(B, J, "space_permissions")
  <2>1. ASSUME n > 1 PROVE "space_permissions" \in WikiAreas(n)
    BY <2>1 DEF WikiAreas, Upon
  <2>2. n > 1 => ProbesTrue(A, "space_permissions") /\ ProbesKept(A, I, "space_permissions")
    BY DEF WikiSnap
  <2>3. QED
    BY <1>3, <1>7, <2>1, <2>2 DEF ProbesTrue, ProbesKept
<1>10. n > 2 => ProbesTrue(B, "page_restrictions") /\ ProbesKept(B, J, "page_restrictions")
  <2>1. ASSUME n > 2 PROVE "page_restrictions" \in WikiAreas(n)
    BY <2>1 DEF WikiAreas, Upon
  <2>2. n > 2 => ProbesTrue(A, "page_restrictions") /\ ProbesKept(A, I, "page_restrictions")
    BY DEF WikiSnap
  <2>3. QED
    BY <1>3, <1>7, <2>1, <2>2 DEF ProbesTrue, ProbesKept
<1>11. n > 3 => MembersTrue(B["groups"])
  <2>1. ASSUME n > 3 PROVE "groups" \in WikiAreas(n)
    BY <2>1 DEF WikiAreas, Upon
  <2>2. QED
    BY <1>3, <2>1 DEF WikiSnap
<1>12. n = 3 => MembersTrue(B["groups"])
  BY <1>3
<1>13. WikiSnap(B, J, n + 1)
  BY <1>4, <1>5, <1>6, <1>8, <1>9, <1>10, <1>11, <1>12 DEF WikiSnap
<1>14. QED
  BY <1>13 DEF B, J

LEMMA TemplatesRead ==
  ASSUME NEW A, NEW I, NEW F, WikiSnap(A, I, 4)
  PROVE  WikiSnap(Templates(A, F) ++ A, Templates(I, {}) ++ I, 5)
<1> DEFINE R == Templates(A, F)
           Q == Templates(I, {})
<1>1. DOMAIN R = {"templates"} /\ DOMAIN Q = {"templates"}
  BY DEF Templates
<1>2. AreaOK("templates", R["templates"], Q["templates"])
  BY ReadOK DEF Templates
<1> HIDE DEF R, Q
<1>3. WikiSnap(R ++ A, Q ++ I, 5)
  BY <1>1, <1>2, NewWikiAreas, WikiAdded
<1>4. QED
  BY <1>3 DEF R, Q

LEMMA LabelsRead ==
  ASSUME NEW A, NEW I, NEW F, WikiSnap(A, I, 5)
  PROVE  WikiSnap(Labels(A, F) ++ A, Labels(I, {}) ++ I, 6)
<1> DEFINE R == Labels(A, F)
           Q == Labels(I, {})
<1>1. DOMAIN R = {"labels"} /\ DOMAIN Q = {"labels"}
  BY DEF Labels
<1>2. AreaOK("labels", R["labels"], Q["labels"])
  BY ReadOK DEF Labels
<1> HIDE DEF R, Q
<1>3. WikiSnap(R ++ A, Q ++ I, 6)
  BY <1>1, <1>2, NewWikiAreas, WikiAdded
<1>4. QED
  BY <1>3 DEF R, Q

\* Counts of one search each, some of them unread.
LEMMA CountsOK ==
  ASSUME NEW a \in {"content_quality", "macros"}, NEW counts, NEW F, DOMAIN counts # {}
  PROVE  /\ DOMAIN Counts(a, counts, F) = {a}
         /\ AreaOK(a, Counts(a, counts, F)[a], Counts(a, counts, {})[a])
<1> DEFINE lost == IF Search \in F THEN DOMAIN counts ELSE F
           rec(G) == [counts |-> [m \in DOMAIN counts |-> IF m \in G THEN Unread ELSE counts[m]]]
           r == Counts(a, counts, F)[a]
           i == Counts(a, counts, {})[a]
           e == lost = DOMAIN counts
           d == {} = DOMAIN counts
<1>1. DOMAIN Counts(a, counts, F) = {a} /\ DOMAIN rec(lost) = {"counts"} /\ DOMAIN rec({}) = {"counts"}
  BY DEF Counts
<1>2. r = Read(e, rec(lost)) /\ i = Read(d, rec({}))
  BY DEF Counts
<1>3. e \in BOOLEAN /\ d \in BOOLEAN /\ ~d
  OBVIOUS
<1> HIDE DEF e, d, r, i, rec, lost
<1>4. IsRead(r, e, rec(lost)) /\ IsRead(i, d, rec({}))
  BY <1>2, <1>3, ReadIs
<1>5. AreaOK(a, r, i)
  <2>1. CASE e
    BY <1>3, <1>4, <2>1, ErrorOK DEF IsRead
  <2>2. CASE ~e
    <3>1. DOMAIN r = {"skipped", "error", "counts"} /\ DOMAIN i = DOMAIN r
      BY <1>1, <1>4 DEF IsRead
    <3>2. r.skipped = i.skipped
      BY <1>4 DEF IsRead
    <3>3. r.error = i.error
      BY <1>3, <1>4, <2>2 DEF IsRead
    <3>4. SameBut(r, i, "counts")
      BY <3>1, <3>2, <3>3 DEF SameBut
    <3>5. Flagged(r) /\ Flagged(i) /\ ~i.error
      BY <1>3, <1>4 DEF IsRead
    <3>6. QED
      BY <3>4, <3>5, ShortOK DEF Short
  <2>3. QED
    BY <2>1, <2>2
<1>6. QED
  BY <1>1, <1>5 DEF r, i

LEMMA ContentRead ==
  ASSUME NEW A, NEW I, NEW F, WikiSnap(A, I, 6), site \in Sites, site.product = "confluence"
  PROVE  WikiSnap(Content(A, F) ++ A, Content(I, {}) ++ I, 7)
<1> DEFINE R == Content(A, F)
           Q == Content(I, {})
<1>1. DOMAIN site.content # {}
  BY WikiIs DEF ConfluenceSite, ContentMetrics
<1>2. DOMAIN R = {"content_quality"} /\ DOMAIN Q = {"content_quality"}
  BY DEF Content, Counts
<1>3. AreaOK("content_quality", R["content_quality"], Q["content_quality"])
  BY <1>1, CountsOK DEF Content
<1> HIDE DEF R, Q
<1>4. WikiSnap(R ++ A, Q ++ I, 7)
  BY <1>2, <1>3, NewWikiAreas, WikiAdded
<1>5. QED
  BY <1>4 DEF R, Q

LEMMA MacrosRead ==
  ASSUME NEW A, NEW I, NEW F, WikiSnap(A, I, 7), site \in Sites, site.product = "confluence"
  PROVE  WikiSnap(Macros(A, F) ++ A, Macros(I, {}) ++ I, 8)
<1> DEFINE R == Macros(A, F)
           Q == Macros(I, {})
<1>1. DOMAIN site.macros # {}
  BY WikiIs DEF ConfluenceSite
<1>2. DOMAIN R = {"macros"} /\ DOMAIN Q = {"macros"}
  BY DEF Macros, Counts
<1>3. AreaOK("macros", R["macros"], Q["macros"])
  BY <1>1, CountsOK DEF Macros
<1> HIDE DEF R, Q
<1>4. WikiSnap(R ++ A, Q ++ I, 8)
  BY <1>2, <1>3, NewWikiAreas, WikiAdded
<1>5. QED
  BY <1>4 DEF R, Q

\* The members counted are the members there are.
LEMMA DirectoryRead ==
  ASSUME NEW A, NEW I, NEW F, WikiSnap(A, I, 3), site \in Sites, site.product = "confluence"
  PROVE  WikiSnap(Directory(A, F) ++ A, Directory(I, {}) ++ I, 4)
<1> DEFINE R == Directory(A, F)
           Q == Directory(I, {})
           members(rs, G) == [g \in ToSet(First(rs, MemberCap)) \ G |-> site.members[g]]
           rec(rs, G) == [names |-> rs, members |-> members(rs, G), capped |-> Len(rs) > MemberCap]
           e == DirectoryList \in F
           d == DirectoryList \in {}
           cut == Cut(site.groups, e)
           r == R["groups"]
           i == Q["groups"]
<1>1. DOMAIN R = {"groups"} /\ DOMAIN Q = {"groups"}
  BY DEF Directory
<1>2. r = Read(e, rec(cut, F)) /\ i = Read(d, rec(site.groups, {}))
  BY DEF Directory, Cut
<1>3. e \in BOOLEAN /\ d \in BOOLEAN /\ ~d /\ (~e => cut = site.groups)
  BY DEF Cut
<1>5. Part(members(site.groups, F), members(site.groups, {}))
  BY DEF Part
<1>6. \A rs, G : \A g \in DOMAIN members(rs, G) : members(rs, G)[g] = site.members[g]
  OBVIOUS
<1> HIDE DEF R, Q, e, d, cut, members
<1>9. IsRead(r, e, rec(cut, F)) /\ IsRead(i, d, rec(site.groups, {}))
  BY <1>2, <1>3, ReadIs
<1>10. /\ DOMAIN r = {"skipped", "error", "names", "members", "capped"} /\ DOMAIN i = DOMAIN r
       /\ r.members = members(cut, F) /\ i.members = members(site.groups, {})
       /\ r.names = cut /\ i.names = site.groups
       /\ r.error = e /\ i.error = d
  BY <1>9 DEF IsRead
<1>14. r.capped = (Len(cut) > MemberCap) /\ i.capped = (Len(site.groups) > MemberCap)
  BY <1>9 DEF IsRead
<1>11. Flagged(r) /\ Flagged(i) /\ ~i.error /\ r.skipped = i.skipped
  BY <1>3, <1>9 DEF IsRead
<1>12. AreaOK("groups", r, i)
  <2>2. CASE e
    BY <1>10, <1>11, <2>2, ErrorOK
  <2>3. CASE ~e
    <3>1. cut = site.groups
      BY <1>3, <2>3
    <3>5. r.error = i.error /\ r.names = i.names
      BY <1>3, <1>10, <2>3
    <3>6. r.capped = i.capped
      BY <1>14, <3>1
    <3>2. SameBut(r, i, "members")
      BY <1>10, <1>11, <3>5, <3>6 DEF SameBut
    <3>4. Part(r.members, i.members)
      BY <1>5, <1>10, <3>1
    <3>3. QED
      BY <1>11, <3>2, <3>4, ShortOK DEF Short
  <2>4. QED
    BY <2>2, <2>3
<1>13. MembersTrue(r)
  BY <1>6, <1>10 DEF MembersTrue
<1>15. WikiSnap(R ++ A, Q ++ I, 4)
  BY <1>1, <1>12, <1>13, NewWikiAreas, WikiAdded
<1>16. QED
  BY <1>15 DEF R, Q

\* What the probes of the spaces of some order give.
Probes(order, F, val) ==
  LET probed == ToSet(First(order, PermCap))
  IN  Read(probed # {} /\ probed \subseteq F,
           [by_space |-> [k \in probed \ F |-> val[k]],
            partly |-> probed \cap F # {} /\ ~(probed \subseteq F),
            capped |-> Len(order) > PermCap])
ProbesOK(r, i, order, F, val) ==
  /\ Flagged(r) /\ ~r.skipped /\ r.capped \in BOOLEAN /\ r.partly \in BOOLEAN /\ (F = {} => ~r.error)
  /\ DOMAIN r.by_space \subseteq ToSet(order)
  /\ \A k \in DOMAIN r.by_space : r.by_space[k] = val[k]
  /\ r.error \/ r.partly \/ r.capped \/ ToSet(order) \subseteq DOMAIN r.by_space
  /\ r.error \/ r.partly \/ r = i
LEMMA ProbesAre ==
  ASSUME NEW S, NEW order \in Seq(S), NEW F, NEW val
  PROVE  ProbesOK(Probes(order, F, val), Probes(order, {}, val), order, F, val)
<1> DEFINE probed == ToSet(First(order, PermCap))
           by(G) == [k \in probed \ G |-> val[k]]
           e(G) == probed # {} /\ probed \subseteq G
           p(G) == probed \cap G # {} /\ ~(probed \subseteq G)
           c == Len(order) > PermCap
           rec(G) == [by_space |-> by(G), partly |-> p(G), capped |-> c]
           r == Probes(order, F, val)
           i == Probes(order, {}, val)
<1>1. r = Read(e(F), rec(F)) /\ i = Read(e({}), rec({}))
  BY DEF Probes
<1>2. probed \subseteq ToSet(order) /\ (~c => probed = ToSet(order))
  <2>1. PermCap \in Nat
    BY CapsAssumption
  <2>2. QED
    BY <2>1, FirstIs
<1>3. e(F) \in BOOLEAN /\ p(F) \in BOOLEAN /\ c \in BOOLEAN
  OBVIOUS
<1>4. F = {} => ~e(F)
  OBVIOUS
<1>5. e(F) \/ p(F) \/ (by(F) = by({}) /\ e(F) = e({}) /\ p(F) = p({}) /\ DOMAIN by(F) = probed)
  <2>1. CASE probed \cap F # {}
    BY <2>1
  <2>2. CASE probed \cap F = {}
    <3>1. probed \ F = probed \ {} /\ probed \ F = probed
      BY <2>2
    <3>2. e(F) = e({}) /\ p(F) = p({})
      BY <2>2
    <3>3. QED
      BY <3>1, <3>2
  <2>3. QED
    BY <2>1, <2>2
<1>6. DOMAIN by(F) \subseteq probed /\ \A k \in DOMAIN by(F) : by(F)[k] = val[k]
  OBVIOUS
<1> HIDE DEF probed, by, e, p, c, r, i
<1>7. IsRead(r, e(F), rec(F))
  BY <1>1, <1>3, ReadIs
<1>8. Flagged(r) /\ ~r.skipped /\ r.by_space = by(F)
  BY <1>7 DEF IsRead
<1>9. r.error = e(F) /\ r.partly = p(F) /\ r.capped = c
  BY <1>7 DEF IsRead
<1>10. r.error \/ r.partly \/ r = i
  BY <1>1, <1>5, <1>9
<1>11. r.error \/ r.partly \/ r.capped \/ ToSet(order) \subseteq DOMAIN r.by_space
  BY <1>2, <1>5, <1>8, <1>9
<1>12. DOMAIN r.by_space \subseteq ToSet(order)
  BY <1>2, <1>6, <1>8
<1>13. r.capped \in BOOLEAN /\ r.partly \in BOOLEAN
  BY <1>3, <1>9
<1>14. F = {} => ~r.error
  BY <1>4, <1>9
<1>15. \A k \in DOMAIN r.by_space : r.by_space[k] = val[k]
  BY <1>6, <1>8
<1>16. ProbesOK(r, i, order, F, val)
  BY <1>8, <1>10, <1>11, <1>12, <1>13, <1>14, <1>15 DEF ProbesOK
<1>17. QED
  BY <1>16 DEF r, i

\* The order of the spaces is the same when they could be listed.
LEMMA OrderKept ==
  ASSUME NEW A, NEW I, NEW n \in 1..8, WikiSnap(A, I, n)
  PROVE  /\ A["spaces"].order \in Seq(GlobalKeys) /\ I["spaces"].order \in Seq(GlobalKeys)
         /\ ToSet(A["spaces"].order) \subseteq GlobalKeys
         /\ A["spaces"].error \/ GlobalKeys \subseteq ToSet(A["spaces"].order)
         /\ A["spaces"].error \/ A["spaces"].order = I["spaces"].order
<1>1. SpacesTrue(A["spaces"]) /\ SpacesTrue(I["spaces"]) /\ AreaOK("spaces", A["spaces"], I["spaces"])
  BY DEF WikiSnap, WikiAreas, Upon
<1>2. A["spaces"].error \/ A["spaces"] = I["spaces"] \/ SameBut(A["spaces"], I["spaces"], "by_space")
  BY <1>1 DEF AreaOK, Short, Schemes, SchemeAreas, TypeSchemeAreas, ProbedAreas
<1>3. A["spaces"].error \/ A["spaces"].order = I["spaces"].order
  BY <1>1, <1>2 DEF SpacesTrue, SameBut
<1>4. QED
  BY <1>1, <1>3 DEF SpacesTrue

\* The snapshot with the probes of one area added.
Answers(val, a) ==
  \A k \in GlobalKeys : val[k] = IF a = "space_permissions" THEN Reduced(k) ELSE Sampled(k)
LEMMA ProbesAdded ==
  ASSUME NEW A, NEW I, NEW R, NEW Q, NEW n \in 1..7, NEW a \in ProbedAreas, NEW F, NEW val,
         WikiSnap(A, I, n), DOMAIN R = {a}, DOMAIN Q = {a},
         R[a] = Probes(A["spaces"].order, F, val), Q[a] = Probes(I["spaces"].order, {}, val),
         Answers(val, a)
  PROVE  /\ AreaOK(a, R[a], Q[a])
         /\ ProbesTrue(R ++ A, a) /\ ProbesKept(R ++ A, Q ++ I, a)
<1> DEFINE o == A["spaces"].order
           B == R ++ A
           J == Q ++ I
           wrong == A["spaces"].error
<1>1. IsUpdate(B, R, A) /\ IsUpdate(J, Q, I)
  BY UpdateIs
<1>2. "spaces" \in DOMAIN A /\ a # "spaces"
  BY DEF WikiSnap, WikiAreas, Upon, ProbedAreas
<1>3. B[a] = R[a] /\ J[a] = Q[a] /\ B["spaces"] = A["spaces"]
  BY <1>1, <1>2 DEF IsUpdate
<1>4. ProbesOK(R[a], Probes(o, {}, val), o, F, val)
  BY OrderKept, ProbesAre
<1>5. ProbesOK(Q[a], Q[a], I["spaces"].order, {}, val)
  BY OrderKept, ProbesAre
<1>6. /\ ToSet(o) \subseteq GlobalKeys
      /\ wrong \/ GlobalKeys \subseteq ToSet(o)
      /\ wrong \/ Probes(o, {}, val) = Q[a]
  BY OrderKept
<1> HIDE DEF B, J, wrong
<1>7. AreaOK(a, R[a], Q[a])
  BY <1>4, <1>5, ShortOK DEF ProbesOK, Short
<1>8. ProbesKept(B, J, a)
  BY <1>3, <1>4, <1>6 DEF ProbesOK, ProbesKept, wrong
<1>9. /\ ~B[a].skipped /\ B[a].capped \in BOOLEAN /\ B[a].partly \in BOOLEAN
      /\ DOMAIN B[a].by_space \subseteq GlobalKeys
  BY <1>3, <1>4, <1>6 DEF ProbesOK
<1>10. \A k \in DOMAIN B[a].by_space : B[a].by_space[k] = val[k]
  BY <1>3, <1>4 DEF ProbesOK
<1>11. B["spaces"].error \/ B[a].error \/ B[a].partly \/ B[a].capped \/ GlobalKeys \subseteq DOMAIN B[a].by_space
  BY <1>3, <1>4, <1>6 DEF ProbesOK, wrong
<1>12. ProbesTrue(B, a)
  BY <1>9, <1>10, <1>11 DEF ProbesTrue, Answers
<1>13. QED
  BY <1>7, <1>8, <1>12 DEF B, J

LEMMA PermissionsRead ==
  ASSUME NEW A, NEW I, NEW F, WikiSnap(A, I, 1)
  PROVE  WikiSnap(SpacePermissions(A, F) ++ A, SpacePermissions(I, {}) ++ I, 2)
<1> DEFINE R == SpacePermissions(A, F)
           Q == SpacePermissions(I, {})
           a == "space_permissions"
           val == [k \in GlobalKeys |-> Reduced(k)]
<1>1. DOMAIN R = {a} /\ DOMAIN Q = {a}
  BY DEF SpacePermissions, PerSpace
<1>2. ASSUME NEW order \in Seq(GlobalKeys), ToSet(order) \subseteq GlobalKeys, NEW G
      PROVE  [k \in ToSet(First(order, PermCap)) \ G |-> Reduced(k)]
               = [k \in ToSet(First(order, PermCap)) \ G |-> val[k]]
  <2>1. ToSet(First(order, PermCap)) \subseteq GlobalKeys
    BY <1>2, CapsAssumption, FirstIs
  <2> HIDE DEF val
  <2>2. \A k \in ToSet(First(order, PermCap)) \ G : Reduced(k) = val[k]
    BY <2>1 DEF val
  <2>3. QED
    BY <2>2
<1>3. /\ A["spaces"].order \in Seq(GlobalKeys) /\ ToSet(A["spaces"].order) \subseteq GlobalKeys
      /\ I["spaces"].order \in Seq(GlobalKeys) /\ ToSet(I["spaces"].order) \subseteq GlobalKeys
  BY OrderKept DEF WikiSnap, SpacesTrue
<1>4. R[a] = Probes(A["spaces"].order, F, val)
  <2> HIDE DEF val
  <2>1. QED
    BY <1>2, <1>3 DEF SpacePermissions, PerSpace, Probes
<1>5. Q[a] = Probes(I["spaces"].order, {}, val)
  <2> HIDE DEF val
  <2>1. QED
    BY <1>2, <1>3 DEF SpacePermissions, PerSpace, Probes
<1>6. Answers(val, a)
  BY DEF Answers
<1> HIDE DEF R, Q, val
<1>10. a \in ProbedAreas
  BY DEF ProbedAreas
<1>11. WikiSnap(A, I, 1) /\ 1 \in 1..7
  OBVIOUS
<1> HIDE DEF a
<1>7. AreaOK(a, R[a], Q[a]) /\ ProbesTrue(R ++ A, a) /\ ProbesKept(R ++ A, Q ++ I, a)
  BY <1>1, <1>4, <1>5, <1>6, <1>10, <1>11, ProbesAdded
<1>8. WikiSnap(R ++ A, Q ++ I, 2)
  BY <1>1, <1>7, NewWikiAreas, WikiAdded DEF a
<1>9. QED
  BY <1>8 DEF R, Q

LEMMA RestrictionsRead ==
  ASSUME NEW A, NEW I, NEW F, WikiSnap(A, I, 2)
  PROVE  WikiSnap(Restrictions(A, F) ++ A, Restrictions(I, {}) ++ I, 3)
<1> DEFINE R == Restrictions(A, F)
           Q == Restrictions(I, {})
           a == "page_restrictions"
           val == [k \in GlobalKeys |-> Sampled(k)]
<1>1. DOMAIN R = {a} /\ DOMAIN Q = {a}
  BY DEF Restrictions, PerSpace
<1>2. ASSUME NEW order \in Seq(GlobalKeys), ToSet(order) \subseteq GlobalKeys, NEW G
      PROVE  [k \in ToSet(First(order, PermCap)) \ G |-> Sampled(k)]
               = [k \in ToSet(First(order, PermCap)) \ G |-> val[k]]
  <2>1. ToSet(First(order, PermCap)) \subseteq GlobalKeys
    BY <1>2, CapsAssumption, FirstIs
  <2> HIDE DEF val
  <2>2. \A k \in ToSet(First(order, PermCap)) \ G : Sampled(k) = val[k]
    BY <2>1 DEF val
  <2>3. QED
    BY <2>2
<1>3. /\ A["spaces"].order \in Seq(GlobalKeys) /\ ToSet(A["spaces"].order) \subseteq GlobalKeys
      /\ I["spaces"].order \in Seq(GlobalKeys) /\ ToSet(I["spaces"].order) \subseteq GlobalKeys
  BY OrderKept DEF WikiSnap, SpacesTrue
<1>4. R[a] = Probes(A["spaces"].order, F, val)
  <2> HIDE DEF val
  <2>1. QED
    BY <1>2, <1>3 DEF Restrictions, PerSpace, Probes
<1>5. Q[a] = Probes(I["spaces"].order, {}, val)
  <2> HIDE DEF val
  <2>1. QED
    BY <1>2, <1>3 DEF Restrictions, PerSpace, Probes
<1>6. Answers(val, a)
  BY DEF Answers
<1> HIDE DEF R, Q, val
<1>10. a \in ProbedAreas
  BY DEF ProbedAreas
<1>11. WikiSnap(A, I, 2) /\ 2 \in 1..7
  OBVIOUS
<1> HIDE DEF a
<1>7. AreaOK(a, R[a], Q[a]) /\ ProbesTrue(R ++ A, a) /\ ProbesKept(R ++ A, Q ++ I, a)
  BY <1>1, <1>4, <1>5, <1>6, <1>10, <1>11, ProbesAdded
<1>8. WikiSnap(R ++ A, Q ++ I, 3)
  BY <1>1, <1>7, NewWikiAreas, WikiAdded DEF a
<1>9. QED
  BY <1>8 DEF R, Q

\* What the list of the spaces gives, when the reads F fail.
SpaceRows(F) == Cut(site.spaces, SpaceList \in F)
Counted(F) == {sp.key : sp \in ToSet(First(GlobalSpaces(SpaceRows(F)), CountCap))}
SpaceEntry(sp, F) ==
  [current |-> sp.current, home |-> sp.home, pages |-> Pages(sp, Counted(F), F),
   orphans |-> Orphans(sp, Counted(F), F)]
SpaceRecord(F) ==
  LET global == GlobalSpaces(SpaceRows(F))
  IN  [by_space |-> [k \in {sp.key : sp \in ToSet(global)} |->
                       SpaceEntry(CHOOSE sp \in ToSet(global) : sp.key = k, F)],
       order |-> [i \in DOMAIN global |-> global[i].key],
       count |-> Len(SpaceRows(F)),
       personal |-> Len(PersonalSpaces(SpaceRows(F))),
       archived |-> Len(ArchivedSpaces(SpaceRows(F))),
       capped |-> Len(global) > CountCap]
LEMMA SpacesIs ==
  ASSUME NEW A, NEW F
  PROVE  DOMAIN Spaces(A, F) = {"spaces"} /\ Spaces(A, F)["spaces"] = Read(SpaceList \in F, SpaceRecord(F))
BY DEF Spaces, SpaceRecord, SpaceEntry, SpaceRows, Counted

\* The spaces of the instance, and those of them that were listed.
LEMMA ListedSpaces ==
  ASSUME NEW F, site \in Sites, site.product = "confluence"
  PROVE  LET global == GlobalSpaces(SpaceRows(F))
             T == ToSet(global)
         IN  /\ global \in Seq(T) /\ T \subseteq Global(ToSet(site.spaces))
             /\ SpaceList \notin F => T = Global(ToSet(site.spaces))
             /\ SpaceList \notin F => SpaceRows(F) = SpaceRows({})
             /\ \A sp, c \in ToSet(site.spaces) : sp.key = c.key => sp = c
<1> DEFINE rows == SpaceRows(F)
           e == SpaceList \in F
           U == ToSet(site.spaces)
<1>1. site.spaces \in Seq(U) /\ \A i, j \in DOMAIN site.spaces : site.spaces[i].key = site.spaces[j].key => i = j
  BY WikiIs DEF ConfluenceSite
<1>2. e \in BOOLEAN /\ rows = Cut(site.spaces, e) /\ SpaceRows({}) = site.spaces
  BY DEF SpaceRows, Cut
<1>3. \A sp, c \in U : sp.key = c.key => sp = c
  BY <1>1 DEF ToSet
<1> HIDE DEF rows, e, U
<1>4. /\ rows \in Seq(U) /\ ToSet(rows) \subseteq ToSet(site.spaces)
      /\ ~e => rows = site.spaces
  BY <1>1, <1>2, CutIs
<1>5. GlobalSpaces(rows) \in Seq(Global(ToSet(rows))) /\ ToSet(GlobalSpaces(rows)) = Global(ToSet(rows))
  BY <1>4, GlobalSpacesIs
<1>6. Global(ToSet(rows)) \subseteq Global(ToSet(site.spaces))
  BY <1>4 DEF Global
<1>7. QED
  BY <1>2, <1>3, <1>4, <1>5, <1>6 DEF rows, e, U

LEMMA RecordTrue ==
  ASSUME NEW F, site \in Sites, site.product = "confluence", NEW r, NEW e \in BOOLEAN,
         e <=> SpaceList \in F, r = Read(e, SpaceRecord(F))
  PROVE  SpacesTrue(r)
<1> DEFINE global == GlobalSpaces(SpaceRows(F))
           T == ToSet(global)
           U == ToSet(site.spaces)
           by == [k \in {sp.key : sp \in T} |-> SpaceEntry(CHOOSE sp \in T : sp.key = k, F)]
           order == [i \in DOMAIN global |-> global[i].key]
<1>1. /\ global \in Seq(T) /\ T \subseteq Global(U)
      /\ SpaceList \notin F => T = Global(U)
      /\ \A sp, c \in U : sp.key = c.key => sp = c
  BY ListedSpaces
<1>2. SpaceRecord(F).by_space = by /\ SpaceRecord(F).order = order
      /\ {"by_space", "order"} \subseteq DOMAIN SpaceRecord(F)
  BY DEF SpaceRecord
<1>3. IsRead(r, e, SpaceRecord(F))
  BY ReadIs
<1>4. ~r.skipped /\ r.error = e /\ r.by_space = by /\ r.order = order /\ "order" \in DOMAIN r
  BY <1>2, <1>3 DEF IsRead
<1>5. GlobalKeys = {sp.key : sp \in Global(U)}
  BY DEF GlobalKeys, Global
<1>6. order \in Seq(GlobalKeys) /\ ToSet(order) = {sp.key : sp \in T}
  <2> HIDE DEF global
  <2>1. Len(global) \in Nat /\ DOMAIN global = 1..Len(global)
    BY <1>1
  <2>2. \A i \in DOMAIN global : global[i] \in T
    BY DEF ToSet
  <2>3. order \in [1..Len(global) -> GlobalKeys]
    BY <1>1, <1>5, <2>1, <2>2
  <2>4. order \in Seq(GlobalKeys)
    BY <2>1, <2>3, IsASeq
  <2>5. ToSet(order) = {sp.key : sp \in T}
    BY DEF ToSet
  <2>6. QED
    BY <2>4, <2>5
<1>7. ASSUME NEW sp \in U, sp.key \in DOMAIN by
      PROVE  by[sp.key].current = sp.current /\ by[sp.key].pages \in {Unread, sp.pages}
  <2> DEFINE c == CHOOSE s \in T : s.key = sp.key
  <2>1. \E s \in T : s.key = sp.key
    BY <1>7
  <2>2. c \in T /\ c.key = sp.key
    BY <2>1
  <2>3. c = sp
    BY <1>1, <2>2 DEF Global
  <2>4. by[sp.key] = SpaceEntry(c, F)
    BY <1>7
  <2>5. SpaceEntry(sp, F).current = sp.current /\ SpaceEntry(sp, F).pages \in {Unread, sp.pages}
    BY DEF SpaceEntry, Pages
  <2>6. QED
    BY <2>3, <2>4, <2>5
<1> HIDE DEF by, order, T, U, global
<1>8. ToSet(order) \subseteq GlobalKeys /\ (~e => GlobalKeys \subseteq ToSet(order))
  BY <1>1, <1>5, <1>6
<1>9. QED
  BY <1>4, <1>6, <1>7, <1>8 DEF SpacesTrue, U

LEMMA RecordKept ==
  ASSUME NEW F, site \in Sites, site.product = "confluence", NEW r, NEW i, NEW e \in BOOLEAN, NEW d \in BOOLEAN,
         e <=> SpaceList \in F, ~d, r = Read(e, SpaceRecord(F)), i = Read(d, SpaceRecord({}))
  PROVE  AreaOK("spaces", r, i)
<1>1. IsRead(r, e, SpaceRecord(F)) /\ IsRead(i, d, SpaceRecord({}))
  BY ReadIs
<1>2. Flagged(r) /\ Flagged(i) /\ ~i.error /\ r.skipped = i.skipped
  BY <1>1 DEF IsRead
<1>3. CASE e
  BY <1>1, <1>2, <1>3, ErrorOK DEF IsRead
<1>4. CASE ~e
  <2>1. SpaceRows(F) = SpaceRows({})
    BY <1>4, ListedSpaces
  <2> DEFINE x == SpaceRecord(F)
             y == SpaceRecord({})
             names == {"by_space", "order", "count", "personal", "archived", "capped"}
  <2>2. DOMAIN x = names /\ DOMAIN y = names
    BY DEF SpaceRecord
  <2>3. x.order = y.order /\ x.count = y.count /\ x.personal = y.personal /\ x.archived = y.archived
        /\ DOMAIN x.by_space = DOMAIN y.by_space
    BY <2>1 DEF SpaceRecord
  <2>4. x.capped = y.capped
    BY <2>1 DEF SpaceRecord
  <2> HIDE DEF x, y
  <2>5. IsRead(r, e, x) /\ IsRead(i, d, y)
    BY <1>1 DEF x, y
  <2>6. DOMAIN r = {"skipped", "error"} \cup names /\ DOMAIN i = DOMAIN r
    BY <2>2, <2>5 DEF IsRead
  <2>7. /\ r.order = x.order /\ r.count = x.count /\ r.personal = x.personal
        /\ r.archived = x.archived /\ r.capped = x.capped /\ r.by_space = x.by_space
    BY <2>2, <2>5 DEF IsRead
  <2>8. /\ i.order = y.order /\ i.count = y.count /\ i.personal = y.personal
        /\ i.archived = y.archived /\ i.capped = y.capped /\ i.by_space = y.by_space
    BY <2>2, <2>5 DEF IsRead
  <2>9. r.error = i.error
    BY <1>1, <1>4 DEF IsRead
  <2>10. SameBut(r, i, "by_space")
    BY <1>2, <2>3, <2>4, <2>6, <2>7, <2>8, <2>9 DEF SameBut
  <2>11. DOMAIN r.by_space = DOMAIN i.by_space
    BY <2>3, <2>7, <2>8
  <2>12. QED
    BY <1>2, <2>10, <2>11, ShortOK DEF Short
<1>5. QED
  BY <1>3, <1>4

LEMMA SpacesRead ==
  ASSUME NEW A, NEW I, NEW F, WikiSnap(A, I, 0), site \in Sites, site.product = "confluence"
  PROVE  WikiSnap(Spaces(A, F) ++ A, Spaces(I, {}) ++ I, 1)
<1> DEFINE R == Spaces(A, F)
           Q == Spaces(I, {})
           B == R ++ A
           J == Q ++ I
           e == SpaceList \in F
           d == SpaceList \in {}
<1>1. DOMAIN R = {"spaces"} /\ DOMAIN Q = {"spaces"}
  BY SpacesIs
<1>2. R["spaces"] = Read(e, SpaceRecord(F)) /\ Q["spaces"] = Read(d, SpaceRecord({}))
  BY SpacesIs
<1>3. DOMAIN A = {} /\ DOMAIN I = {}
  BY NewWikiAreas DEF WikiSnap
<1>4. IsUpdate(B, R, A) /\ IsUpdate(J, Q, I)
  BY UpdateIs
<1>5. e \in BOOLEAN /\ d \in BOOLEAN /\ ~d /\ (e <=> SpaceList \in F) /\ (d <=> SpaceList \in {})
  OBVIOUS
<1> HIDE DEF B, J, R, Q, e, d
<1>6. DOMAIN B = {"spaces"} /\ DOMAIN J = {"spaces"} /\ B["spaces"] = R["spaces"] /\ J["spaces"] = Q["spaces"]
  BY <1>1, <1>3, <1>4 DEF IsUpdate
<1>7. SpacesTrue(B["spaces"]) /\ SpacesTrue(J["spaces"])
  BY <1>2, <1>5, <1>6, RecordTrue
<1>8. AreaOK("spaces", B["spaces"], J["spaces"])
  BY <1>2, <1>5, <1>6, RecordKept
<1>9. WikiSnap(B, J, 1)
  BY <1>6, <1>7, <1>8, NewWikiAreas DEF WikiSnap
<1>10. QED
  BY <1>9 DEF B, J, R, Q

-----------------------------------------------------------------------------
(* The invariant.                                                             *)

\* What is said of a snapshot stays true as long as the instance does not change.
LEMMA JiraFrame ==
  ASSUME site' = site, NEW A, NEW I, NEW n, JiraSnap(A, I, n)
  PROVE  JiraSnap(A, I, n)'
<1>1. Deep' = Deep /\ (\A s : OnTabs(s)' = OnTabs(s)) /\ TwinWorkflows' = TwinWorkflows
  BY DEF Deep, OnTabs, TwinWorkflows
<1>2. \A a, i : SchemeTrue(a, i) => SchemeTrue(a, i)'
  BY DEF SchemeTrue
<1>3. \A i : FieldsTrue(i) => FieldsTrue(i)'
  BY <1>1 DEF FieldsTrue
<1>4. \A i : DetailTrue(i) => DetailTrue(i)'
  BY <1>1 DEF DetailTrue
<1>5. \A a, i : JiraTrue(a, i) => JiraTrue(a, i)'
  BY <1>2, <1>3, <1>4 DEF JiraTrue
<1>6. \A r : MembersTrue(r) => MembersTrue(r)'
  BY DEF MembersTrue
<1>7. (UsedTrue(A) => UsedTrue(A)') /\ (UsedTrue(I) => UsedTrue(I)') /\ (NamesTrue(I) => NamesTrue(I)')
  BY DEF UsedTrue, NamesTrue
<1>8. QED
  BY <1>5, <1>6, <1>7 DEF JiraSnap

LEMMA WikiFrame ==
  ASSUME site' = site, NEW A, NEW I, NEW n, WikiSnap(A, I, n)
  PROVE  WikiSnap(A, I, n)'
<1>1. GlobalKeys' = GlobalKeys /\ Cloud' = Cloud
  BY DEF GlobalKeys, Cloud
<1>2. \A k : Reduced(k)' = Reduced(k) /\ Sampled(k)' = Sampled(k)
  BY <1>1 DEF Reduced, Sampled
<1>3. \A r : SpacesTrue(r) => SpacesTrue(r)'
  BY <1>1 DEF SpacesTrue
<1>4. \A a : ProbesTrue(A, a) => ProbesTrue(A, a)'
  BY <1>1, <1>2 DEF ProbesTrue
<1>5. \A r : MembersTrue(r) => MembersTrue(r)'
  BY DEF MembersTrue
<1>6. QED
  BY <1>3, <1>4, <1>5 DEF WikiSnap

\* The stages are those of one product; the snapshot is that of the stage.
Late == {"checks", "analysis", "done"}
LEMMA StageIs ==
  /\ DOMAIN JiraRank \cap DOMAIN WikiRank = Late
  /\ Late \subseteq DOMAIN JiraRank \cap DOMAIN WikiRank
  /\ \A p \in Late : JiraRank[p] = 16 /\ WikiRank[p] = 8
BY DEF JiraRank, WikiRank, Late

LEMMA JiraKeeps ==
  ASSUME AuditInv, site' = site, findings' = findings, verdict' = verdict, pc \notin {"analysis", "done"},
         faults' \in 0..MaxFaults, site.product = "jira",
         pc' \in DOMAIN JiraRank \ {"analysis", "done"}, NEW B, NEW J, NEW n, areas' = B, ideal' = J,
         JiraRank[pc'] = n, JiraSnap(B, J, n)
  PROVE  AuditInv'
<1>1. JiraSnap(B, J, n)'
  BY JiraFrame
<1>2. JiraSnap(areas, ideal, JiraRank[pc])'
  BY <1>1
<1>3. SnapOK'
  BY <1>2 DEF SnapOK
<1>4. QED
  BY <1>3 DEF AuditInv

LEMMA WikiKeeps ==
  ASSUME AuditInv, site' = site, findings' = findings, verdict' = verdict, pc \notin {"analysis", "done"},
         faults' \in 0..MaxFaults, site.product = "confluence",
         pc' \in DOMAIN WikiRank \ {"analysis", "done"}, NEW B, NEW J, NEW n, areas' = B, ideal' = J,
         WikiRank[pc'] = n, WikiSnap(B, J, n)
  PROVE  AuditInv'
<1>1. WikiSnap(B, J, n)'
  BY WikiFrame
<1>2. WikiSnap(areas, ideal, WikiRank[pc])'
  BY <1>1
<1>3. SnapOK'
  BY <1>2 DEF SnapOK
<1>4. QED
  BY <1>3 DEF AuditInv

\* The reads that fail are within the bound.
LEMMA FaultsBound ==
  ASSUME faults \in 0..MaxFaults, NEW reads, NEW F \in Failing(MaxFaults - faults, reads),
         faults' = faults + Cardinality(F)
  PROVE  faults' \in 0..MaxFaults /\ F \subseteq reads
<1>1. MaxFaults \in Nat /\ MaxFaults - faults \in Nat
  BY FaultsAssumption
<1>2. Cardinality(F) <= MaxFaults - faults /\ Cardinality(F) \in Nat /\ F \subseteq reads
  BY <1>1, FailingIs
<1>3. QED
  BY <1>1, <1>2

\* Stage by stage: the reads that fail are picked, and the snapshots it leaves are named.
LEMMA SimpleHolds ==
  ASSUME AuditInv, GatherSimple PROVE AuditInv'
<1>1. pc = "simple" /\ pc' = "screens" /\ site' = site /\ findings' = findings /\ verdict' = verdict
  BY DEF GatherSimple, Stage
<1>2. PICK F \in Failing(MaxFaults - faults, ListAreas) :
        /\ faults' = faults + Cardinality(F)
        /\ areas' = Lists(areas, F) ++ areas
        /\ ideal' = Lists(ideal, {}) ++ ideal
  BY DEF GatherSimple, Stage
<1>3. PICK B : B = Lists(areas, F) ++ areas
  OBVIOUS
<1>4. PICK J : J = Lists(ideal, {}) ++ ideal
  OBVIOUS
<1>5. JiraSnap(areas, ideal, 0) /\ site \in Sites /\ site.product = "jira"
  BY <1>1 DEF AuditInv, SnapOK, JiraRank, WikiRank
<1>6. faults' \in 0..MaxFaults /\ F \subseteq ListAreas
  BY <1>2, FaultsBound DEF AuditInv
<1>7. JiraSnap(B, J, 1)
  BY <1>3, <1>4, <1>5, <1>6, SimpleRead
<1>8. pc' \in DOMAIN JiraRank \ {"analysis", "done"} /\ JiraRank[pc'] = 1
  BY <1>1 DEF JiraRank
<1>9. pc \notin {"analysis", "done"} /\ areas' = B /\ ideal' = J
  BY <1>1, <1>2, <1>3, <1>4
<1>10. QED
  BY <1>1, <1>5, <1>6, <1>7, <1>8, <1>9, JiraKeeps

LEMMA ScreenFieldsHolds ==
  ASSUME AuditInv, GatherScreenFields PROVE AuditInv'
<1>1. pc = "screens" /\ pc' = "fields" /\ site' = site /\ findings' = findings /\ verdict' = verdict
  BY DEF GatherScreenFields, Stage
<1>2. PICK F \in Failing(MaxFaults - faults, ScreenReads) :
        /\ faults' = faults + Cardinality(F)
        /\ areas' = ScreenFields(areas, F) ++ areas
        /\ ideal' = ScreenFields(ideal, {}) ++ ideal
  BY DEF GatherScreenFields, Stage
<1>3. PICK B : B = ScreenFields(areas, F) ++ areas
  OBVIOUS
<1>4. PICK J : J = ScreenFields(ideal, {}) ++ ideal
  OBVIOUS
<1>5. JiraSnap(areas, ideal, 1) /\ site \in Sites /\ site.product = "jira"
  BY <1>1 DEF AuditInv, SnapOK, JiraRank, WikiRank
<1>6. faults' \in 0..MaxFaults /\ F \subseteq ScreenReads
  BY <1>2, FaultsBound DEF AuditInv
<1>7. JiraSnap(B, J, 2)
  BY <1>3, <1>4, <1>5, <1>6, ScreenFieldsRead
<1>8. pc' \in DOMAIN JiraRank \ {"analysis", "done"} /\ JiraRank[pc'] = 2
  BY <1>1 DEF JiraRank
<1>9. pc \notin {"analysis", "done"} /\ areas' = B /\ ideal' = J
  BY <1>1, <1>2, <1>3, <1>4
<1>10. QED
  BY <1>1, <1>5, <1>6, <1>7, <1>8, <1>9, JiraKeeps

LEMMA FieldsHolds ==
  ASSUME AuditInv, GatherFields PROVE AuditInv'
<1>1. pc = "fields" /\ pc' = "schemes" /\ site' = site /\ findings' = findings /\ verdict' = verdict
  BY DEF GatherFields, Stage
<1>2. PICK F \in Failing(MaxFaults - faults, {"field"}) :
        /\ faults' = faults + Cardinality(F)
        /\ areas' = CustomFields(areas, F) ++ areas
        /\ ideal' = CustomFields(ideal, {}) ++ ideal
  BY DEF GatherFields, Stage
<1>3. PICK B : B = CustomFields(areas, F) ++ areas
  OBVIOUS
<1>4. PICK J : J = CustomFields(ideal, {}) ++ ideal
  OBVIOUS
<1>5. JiraSnap(areas, ideal, 2) /\ site \in Sites /\ site.product = "jira"
  BY <1>1 DEF AuditInv, SnapOK, JiraRank, WikiRank
<1>6. faults' \in 0..MaxFaults /\ F \subseteq {"field"}
  BY <1>2, FaultsBound DEF AuditInv
<1>7. JiraSnap(B, J, 3)
  BY <1>3, <1>4, <1>5, <1>6, FieldsRead
<1>8. pc' \in DOMAIN JiraRank \ {"analysis", "done"} /\ JiraRank[pc'] = 3
  BY <1>1 DEF JiraRank
<1>9. pc \notin {"analysis", "done"} /\ areas' = B /\ ideal' = J
  BY <1>1, <1>2, <1>3, <1>4
<1>10. QED
  BY <1>1, <1>5, <1>6, <1>7, <1>8, <1>9, JiraKeeps

LEMMA SchemesHolds ==
  ASSUME AuditInv, GatherSchemes PROVE AuditInv'
<1>1. pc = "schemes" /\ pc' = "workflows" /\ site' = site /\ findings' = findings /\ verdict' = verdict
  BY DEF GatherSchemes, Stage
<1>2. PICK F \in Failing(MaxFaults - faults, SchemeAreas) :
        /\ faults' = faults + Cardinality(F)
        /\ areas' = SchemeUse(areas, F) ++ areas
        /\ ideal' = SchemeUse(ideal, {}) ++ ideal
  BY DEF GatherSchemes, Stage
<1>3. PICK B : B = SchemeUse(areas, F) ++ areas
  OBVIOUS
<1>4. PICK J : J = SchemeUse(ideal, {}) ++ ideal
  OBVIOUS
<1>5. JiraSnap(areas, ideal, 3) /\ site \in Sites /\ site.product = "jira"
  BY <1>1 DEF AuditInv, SnapOK, JiraRank, WikiRank
<1>6. faults' \in 0..MaxFaults /\ F \subseteq SchemeAreas
  BY <1>2, FaultsBound DEF AuditInv
<1>7. JiraSnap(B, J, 4)
  BY <1>3, <1>4, <1>5, <1>6, SchemesRead
<1>8. pc' \in DOMAIN JiraRank \ {"analysis", "done"} /\ JiraRank[pc'] = 4
  BY <1>1 DEF JiraRank
<1>9. pc \notin {"analysis", "done"} /\ areas' = B /\ ideal' = J
  BY <1>1, <1>2, <1>3, <1>4
<1>10. QED
  BY <1>1, <1>5, <1>6, <1>7, <1>8, <1>9, JiraKeeps

LEMMA WorkflowsHolds ==
  ASSUME AuditInv, GatherWorkflows PROVE AuditInv'
<1>1. pc = "workflows" /\ pc' = "grants" /\ site' = site /\ findings' = findings /\ verdict' = verdict
  BY DEF GatherWorkflows, Stage
<1>2. PICK F \in Failing(MaxFaults - faults, {"workflow"}) :
        /\ faults' = faults + Cardinality(F)
        /\ areas' = Workflows(areas, F) ++ areas
        /\ ideal' = Workflows(ideal, {}) ++ ideal
  BY DEF GatherWorkflows, Stage
<1>3. PICK B : B = Workflows(areas, F) ++ areas
  OBVIOUS
<1>4. PICK J : J = Workflows(ideal, {}) ++ ideal
  OBVIOUS
<1>5. JiraSnap(areas, ideal, 4) /\ site \in Sites /\ site.product = "jira"
  BY <1>1 DEF AuditInv, SnapOK, JiraRank, WikiRank
<1>6. faults' \in 0..MaxFaults /\ F \subseteq {"workflow"}
  BY <1>2, FaultsBound DEF AuditInv
<1>7. JiraSnap(B, J, 5)
  BY <1>3, <1>4, <1>5, <1>6, WorkflowsRead
<1>8. pc' \in DOMAIN JiraRank \ {"analysis", "done"} /\ JiraRank[pc'] = 5
  BY <1>1 DEF JiraRank
<1>9. pc \notin {"analysis", "done"} /\ areas' = B /\ ideal' = J
  BY <1>1, <1>2, <1>3, <1>4
<1>10. QED
  BY <1>1, <1>5, <1>6, <1>7, <1>8, <1>9, JiraKeeps

LEMMA GrantsHolds ==
  ASSUME AuditInv, GatherGrants PROVE AuditInv'
<1>1. pc = "grants" /\ pc' = "groups" /\ site' = site /\ findings' = findings /\ verdict' = verdict
  BY DEF GatherGrants, Stage
<1>2. PICK F \in Failing(MaxFaults - faults, {"permissionscheme"}) :
        /\ faults' = faults + Cardinality(F)
        /\ areas' = Grants(areas, F) ++ areas
        /\ ideal' = Grants(ideal, {}) ++ ideal
  BY DEF GatherGrants, Stage
<1>3. PICK B : B = Grants(areas, F) ++ areas
  OBVIOUS
<1>4. PICK J : J = Grants(ideal, {}) ++ ideal
  OBVIOUS
<1>5. JiraSnap(areas, ideal, 5) /\ site \in Sites /\ site.product = "jira"
  BY <1>1 DEF AuditInv, SnapOK, JiraRank, WikiRank
<1>6. faults' \in 0..MaxFaults /\ F \subseteq {"permissionscheme"}
  BY <1>2, FaultsBound DEF AuditInv
<1>7. JiraSnap(B, J, 6)
  BY <1>3, <1>4, <1>5, <1>6, GrantsRead
<1>8. pc' \in DOMAIN JiraRank \ {"analysis", "done"} /\ JiraRank[pc'] = 6
  BY <1>1 DEF JiraRank
<1>9. pc \notin {"analysis", "done"} /\ areas' = B /\ ideal' = J
  BY <1>1, <1>2, <1>3, <1>4
<1>10. QED
  BY <1>1, <1>5, <1>6, <1>7, <1>8, <1>9, JiraKeeps

LEMMA GroupsHolds ==
  ASSUME AuditInv, GatherGroups PROVE AuditInv'
<1>1. pc = "groups" /\ pc' = "projects" /\ site' = site /\ findings' = findings /\ verdict' = verdict
  BY DEF GatherGroups, Stage
<1>2. PICK F \in Failing(MaxFaults - faults, {GroupList} \cup ToSet(site.groups)) :
        /\ faults' = faults + Cardinality(F)
        /\ areas' = Groups(areas, F) ++ areas
        /\ ideal' = Groups(ideal, {}) ++ ideal
  BY DEF GatherGroups, Stage
<1>3. PICK B : B = Groups(areas, F) ++ areas
  OBVIOUS
<1>4. PICK J : J = Groups(ideal, {}) ++ ideal
  OBVIOUS
<1>5. JiraSnap(areas, ideal, 6) /\ site \in Sites /\ site.product = "jira"
  BY <1>1 DEF AuditInv, SnapOK, JiraRank, WikiRank
<1>6. faults' \in 0..MaxFaults /\ F \subseteq {GroupList} \cup ToSet(site.groups)
  BY <1>2, FaultsBound DEF AuditInv
<1>7. JiraSnap(B, J, 7)
  BY <1>3, <1>4, <1>5, <1>6, GroupsRead
<1>8. pc' \in DOMAIN JiraRank \ {"analysis", "done"} /\ JiraRank[pc'] = 7
  BY <1>1 DEF JiraRank
<1>9. pc \notin {"analysis", "done"} /\ areas' = B /\ ideal' = J
  BY <1>1, <1>2, <1>3, <1>4
<1>10. QED
  BY <1>1, <1>5, <1>6, <1>7, <1>8, <1>9, JiraKeeps

LEMMA ComponentsHolds ==
  ASSUME AuditInv, GatherComponents PROVE AuditInv'
<1>1. pc = "projects" /\ pc' = "versions" /\ site' = site /\ findings' = findings /\ verdict' = verdict
  BY DEF GatherComponents, Stage
<1>2. PICK F \in Failing(MaxFaults - faults, DOMAIN site.components) :
        /\ faults' = faults + Cardinality(F)
        /\ areas' = Components(areas, F) ++ areas
        /\ ideal' = Components(ideal, {}) ++ ideal
  BY DEF GatherComponents, Stage
<1>3. PICK B : B = Components(areas, F) ++ areas
  OBVIOUS
<1>4. PICK J : J = Components(ideal, {}) ++ ideal
  OBVIOUS
<1>5. JiraSnap(areas, ideal, 7) /\ site \in Sites /\ site.product = "jira"
  BY <1>1 DEF AuditInv, SnapOK, JiraRank, WikiRank
<1>6. faults' \in 0..MaxFaults /\ F \subseteq DOMAIN site.components
  BY <1>2, FaultsBound DEF AuditInv
<1>7. JiraSnap(B, J, 8)
  BY <1>3, <1>4, <1>5, <1>6, ComponentsRead
<1>8. pc' \in DOMAIN JiraRank \ {"analysis", "done"} /\ JiraRank[pc'] = 8
  BY <1>1 DEF JiraRank
<1>9. pc \notin {"analysis", "done"} /\ areas' = B /\ ideal' = J
  BY <1>1, <1>2, <1>3, <1>4
<1>10. QED
  BY <1>1, <1>5, <1>6, <1>7, <1>8, <1>9, JiraKeeps

LEMMA VersionsHolds ==
  ASSUME AuditInv, GatherVersions PROVE AuditInv'
<1>1. pc = "versions" /\ pc' = "options" /\ site' = site /\ findings' = findings /\ verdict' = verdict
  BY DEF GatherVersions, Stage
<1>2. PICK F \in Failing(MaxFaults - faults, DOMAIN site.versions) :
        /\ faults' = faults + Cardinality(F)
        /\ areas' = Versions(areas, F) ++ areas
        /\ ideal' = Versions(ideal, {}) ++ ideal
  BY DEF GatherVersions, Stage
<1>3. PICK B : B = Versions(areas, F) ++ areas
  OBVIOUS
<1>4. PICK J : J = Versions(ideal, {}) ++ ideal
  OBVIOUS
<1>5. JiraSnap(areas, ideal, 8) /\ site \in Sites /\ site.product = "jira"
  BY <1>1 DEF AuditInv, SnapOK, JiraRank, WikiRank
<1>6. faults' \in 0..MaxFaults /\ F \subseteq DOMAIN site.versions
  BY <1>2, FaultsBound DEF AuditInv
<1>7. JiraSnap(B, J, 9)
  BY <1>3, <1>4, <1>5, <1>6, VersionsRead
<1>8. pc' \in DOMAIN JiraRank \ {"analysis", "done"} /\ JiraRank[pc'] = 9
  BY <1>1 DEF JiraRank
<1>9. pc \notin {"analysis", "done"} /\ areas' = B /\ ideal' = J
  BY <1>1, <1>2, <1>3, <1>4
<1>10. QED
  BY <1>1, <1>5, <1>6, <1>7, <1>8, <1>9, JiraKeeps

LEMMA OptionsHolds ==
  ASSUME AuditInv, GatherOptions PROVE AuditInv'
<1>1. pc = "options" /\ pc' = "boards" /\ site' = site /\ findings' = findings /\ verdict' = verdict
  BY DEF GatherOptions, Stage
<1>2. PICK F \in Failing(MaxFaults - faults, DOMAIN site.options) :
        /\ faults' = faults + Cardinality(F)
        /\ areas' = Options(areas, F) ++ areas
        /\ ideal' = Options(ideal, {}) ++ ideal
  BY DEF GatherOptions, Stage
<1>3. PICK B : B = Options(areas, F) ++ areas
  OBVIOUS
<1>4. PICK J : J = Options(ideal, {}) ++ ideal
  OBVIOUS
<1>5. JiraSnap(areas, ideal, 9) /\ site \in Sites /\ site.product = "jira"
  BY <1>1 DEF AuditInv, SnapOK, JiraRank, WikiRank
<1>6. faults' \in 0..MaxFaults /\ F \subseteq DOMAIN site.options
  BY <1>2, FaultsBound DEF AuditInv
<1>7. JiraSnap(B, J, 10)
  BY <1>3, <1>4, <1>5, <1>6, OptionsRead
<1>8. pc' \in DOMAIN JiraRank \ {"analysis", "done"} /\ JiraRank[pc'] = 10
  BY <1>1 DEF JiraRank
<1>9. pc \notin {"analysis", "done"} /\ areas' = B /\ ideal' = J
  BY <1>1, <1>2, <1>3, <1>4
<1>10. QED
  BY <1>1, <1>5, <1>6, <1>7, <1>8, <1>9, JiraKeeps

LEMMA BoardsHolds ==
  ASSUME AuditInv, GatherBoards PROVE AuditInv'
<1>1. pc = "boards" /\ pc' = "activity" /\ site' = site /\ findings' = findings /\ verdict' = verdict
  BY DEF GatherBoards, Stage
<1>2. PICK F \in Failing(MaxFaults - faults, {"board"}) :
        /\ faults' = faults + Cardinality(F)
        /\ areas' = Boards(areas, F) ++ areas
        /\ ideal' = Boards(ideal, {}) ++ ideal
  BY DEF GatherBoards, Stage
<1>3. PICK B : B = Boards(areas, F) ++ areas
  OBVIOUS
<1>4. PICK J : J = Boards(ideal, {}) ++ ideal
  OBVIOUS
<1>5. JiraSnap(areas, ideal, 10) /\ site \in Sites /\ site.product = "jira"
  BY <1>1 DEF AuditInv, SnapOK, JiraRank, WikiRank
<1>6. faults' \in 0..MaxFaults /\ F \subseteq {"board"}
  BY <1>2, FaultsBound DEF AuditInv
<1>7. JiraSnap(B, J, 11)
  BY <1>3, <1>4, <1>5, <1>6, BoardsRead
<1>8. pc' \in DOMAIN JiraRank \ {"analysis", "done"} /\ JiraRank[pc'] = 11
  BY <1>1 DEF JiraRank
<1>9. pc \notin {"analysis", "done"} /\ areas' = B /\ ideal' = J
  BY <1>1, <1>2, <1>3, <1>4
<1>10. QED
  BY <1>1, <1>5, <1>6, <1>7, <1>8, <1>9, JiraKeeps

LEMMA ProjectsHolds ==
  ASSUME AuditInv, GatherProjects PROVE AuditInv'
<1>1. pc = "activity" /\ pc' = "shared" /\ site' = site /\ findings' = findings /\ verdict' = verdict
  BY DEF GatherProjects, Stage
<1>2. PICK F \in Failing(MaxFaults - faults, {"project/search"}) :
        /\ faults' = faults + Cardinality(F)
        /\ areas' = Activity(areas, F) ++ areas
        /\ ideal' = Activity(ideal, {}) ++ ideal
  BY DEF GatherProjects, Stage
<1>3. PICK B : B = Activity(areas, F) ++ areas
  OBVIOUS
<1>4. PICK J : J = Activity(ideal, {}) ++ ideal
  OBVIOUS
<1>5. JiraSnap(areas, ideal, 11) /\ site \in Sites /\ site.product = "jira"
  BY <1>1 DEF AuditInv, SnapOK, JiraRank, WikiRank
<1>6. faults' \in 0..MaxFaults /\ F \subseteq {"project/search"}
  BY <1>2, FaultsBound DEF AuditInv
<1>7. JiraSnap(B, J, 12)
  BY <1>3, <1>4, <1>5, <1>6, ProjectsRead
<1>8. pc' \in DOMAIN JiraRank \ {"analysis", "done"} /\ JiraRank[pc'] = 12
  BY <1>1 DEF JiraRank
<1>9. pc \notin {"analysis", "done"} /\ areas' = B /\ ideal' = J
  BY <1>1, <1>2, <1>3, <1>4
<1>10. QED
  BY <1>1, <1>5, <1>6, <1>7, <1>8, <1>9, JiraKeeps

LEMMA SharedHolds ==
  ASSUME AuditInv, GatherShared PROVE AuditInv'
<1>1. pc = "shared" /\ pc' = "typeschemes" /\ site' = site /\ findings' = findings /\ verdict' = verdict
  BY DEF GatherShared, Stage
<1>2. PICK F \in Failing(MaxFaults - faults, {"filters", "dashboards"}) :
        /\ faults' = faults + Cardinality(F)
        /\ areas' = Shared(areas, F) ++ areas
        /\ ideal' = Shared(ideal, {}) ++ ideal
  BY DEF GatherShared, Stage
<1>3. PICK B : B = Shared(areas, F) ++ areas
  OBVIOUS
<1>4. PICK J : J = Shared(ideal, {}) ++ ideal
  OBVIOUS
<1>5. JiraSnap(areas, ideal, 12) /\ site \in Sites /\ site.product = "jira"
  BY <1>1 DEF AuditInv, SnapOK, JiraRank, WikiRank
<1>6. faults' \in 0..MaxFaults /\ F \subseteq {"filters", "dashboards"}
  BY <1>2, FaultsBound DEF AuditInv
<1>7. JiraSnap(B, J, 13)
  BY <1>3, <1>4, <1>5, <1>6, SharedRead
<1>8. pc' \in DOMAIN JiraRank \ {"analysis", "done"} /\ JiraRank[pc'] = 13
  BY <1>1 DEF JiraRank
<1>9. pc \notin {"analysis", "done"} /\ areas' = B /\ ideal' = J
  BY <1>1, <1>2, <1>3, <1>4
<1>10. QED
  BY <1>1, <1>5, <1>6, <1>7, <1>8, <1>9, JiraKeeps

LEMMA TypeSchemesHolds ==
  ASSUME AuditInv, GatherTypeSchemes PROVE AuditInv'
<1>1. pc = "typeschemes" /\ pc' = "quality" /\ site' = site /\ findings' = findings /\ verdict' = verdict
  BY DEF GatherTypeSchemes, Stage
<1>2. PICK F \in Failing(MaxFaults - faults, TypeSchemeAreas) :
        /\ faults' = faults + Cardinality(F)
        /\ areas' = TypeSchemeUse(areas, F) ++ areas
        /\ ideal' = TypeSchemeUse(ideal, {}) ++ ideal
  BY DEF GatherTypeSchemes, Stage
<1>3. PICK B : B = TypeSchemeUse(areas, F) ++ areas
  OBVIOUS
<1>4. PICK J : J = TypeSchemeUse(ideal, {}) ++ ideal
  OBVIOUS
<1>5. JiraSnap(areas, ideal, 13) /\ site \in Sites /\ site.product = "jira"
  BY <1>1 DEF AuditInv, SnapOK, JiraRank, WikiRank
<1>6. faults' \in 0..MaxFaults /\ F \subseteq TypeSchemeAreas
  BY <1>2, FaultsBound DEF AuditInv
<1>7. JiraSnap(B, J, 14)
  BY <1>3, <1>4, <1>5, <1>6, TypeSchemesRead
<1>8. pc' \in DOMAIN JiraRank \ {"analysis", "done"} /\ JiraRank[pc'] = 14
  BY <1>1 DEF JiraRank
<1>9. pc \notin {"analysis", "done"} /\ areas' = B /\ ideal' = J
  BY <1>1, <1>2, <1>3, <1>4
<1>10. QED
  BY <1>1, <1>5, <1>6, <1>7, <1>8, <1>9, JiraKeeps

LEMMA QualityHolds ==
  ASSUME AuditInv, GatherQuality PROVE AuditInv'
<1>1. pc = "quality" /\ pc' = "plugins" /\ site' = site /\ findings' = findings /\ verdict' = verdict
  BY DEF GatherQuality, Stage
<1>2. PICK F \in Failing(MaxFaults - faults, Metrics \cup {Outage}) :
        /\ faults' = faults + Cardinality(F)
        /\ areas' = Quality(areas, F) ++ areas
        /\ ideal' = Quality(ideal, {}) ++ ideal
  BY DEF GatherQuality, Stage
<1>3. PICK B : B = Quality(areas, F) ++ areas
  OBVIOUS
<1>4. PICK J : J = Quality(ideal, {}) ++ ideal
  OBVIOUS
<1>5. JiraSnap(areas, ideal, 14) /\ site \in Sites /\ site.product = "jira"
  BY <1>1 DEF AuditInv, SnapOK, JiraRank, WikiRank
<1>6. faults' \in 0..MaxFaults /\ F \subseteq Metrics \cup {Outage}
  BY <1>2, FaultsBound DEF AuditInv
<1>7. JiraSnap(B, J, 15)
  BY <1>3, <1>4, <1>5, <1>6, QualityRead
<1>8. pc' \in DOMAIN JiraRank \ {"analysis", "done"} /\ JiraRank[pc'] = 15
  BY <1>1 DEF JiraRank
<1>9. pc \notin {"analysis", "done"} /\ areas' = B /\ ideal' = J
  BY <1>1, <1>2, <1>3, <1>4
<1>10. QED
  BY <1>1, <1>5, <1>6, <1>7, <1>8, <1>9, JiraKeeps

LEMMA PluginsHolds ==
  ASSUME AuditInv, GatherPlugins PROVE AuditInv'
<1>1. pc = "plugins" /\ pc' = "checks" /\ site' = site /\ findings' = findings /\ verdict' = verdict
  BY DEF GatherPlugins, Stage
<1>2. PICK F \in Failing(MaxFaults - faults, {"plugins"}) :
        /\ faults' = faults + Cardinality(F)
        /\ areas' = Plugins(areas, F) ++ areas
        /\ ideal' = Plugins(ideal, {}) ++ ideal
  BY DEF GatherPlugins, Stage
<1>3. PICK B : B = Plugins(areas, F) ++ areas
  OBVIOUS
<1>4. PICK J : J = Plugins(ideal, {}) ++ ideal
  OBVIOUS
<1>5. JiraSnap(areas, ideal, 15) /\ site \in Sites /\ site.product = "jira"
  BY <1>1 DEF AuditInv, SnapOK, JiraRank, WikiRank
<1>6. faults' \in 0..MaxFaults /\ F \subseteq {"plugins"}
  BY <1>2, FaultsBound DEF AuditInv
<1>7. JiraSnap(B, J, 16)
  BY <1>3, <1>4, <1>5, <1>6, PluginsRead
<1>8. pc' \in DOMAIN JiraRank \ {"analysis", "done"} /\ JiraRank[pc'] = 16
  BY <1>1 DEF JiraRank
<1>9. pc \notin {"analysis", "done"} /\ areas' = B /\ ideal' = J
  BY <1>1, <1>2, <1>3, <1>4
<1>10. QED
  BY <1>1, <1>5, <1>6, <1>7, <1>8, <1>9, JiraKeeps

LEMMA SpacesHolds ==
  ASSUME AuditInv, GatherSpaces PROVE AuditInv'
<1>1. pc = "spaces" /\ pc' = "space_permissions" /\ site' = site /\ findings' = findings /\ verdict' = verdict
  BY DEF GatherSpaces, Stage
<1>2. PICK F \in Failing(MaxFaults - faults, {SpaceList} \cup SpaceKeys \X {"pages", "under"}) :
        /\ faults' = faults + Cardinality(F)
        /\ areas' = Spaces(areas, F) ++ areas
        /\ ideal' = Spaces(ideal, {}) ++ ideal
  BY DEF GatherSpaces, Stage
<1>3. PICK B : B = Spaces(areas, F) ++ areas
  OBVIOUS
<1>4. PICK J : J = Spaces(ideal, {}) ++ ideal
  OBVIOUS
<1>5. WikiSnap(areas, ideal, 0) /\ site \in Sites /\ site.product = "confluence"
  BY <1>1 DEF AuditInv, SnapOK, JiraRank, WikiRank
<1>6. faults' \in 0..MaxFaults /\ F \subseteq {SpaceList} \cup SpaceKeys \X {"pages", "under"}
  BY <1>2, FaultsBound DEF AuditInv
<1>7. WikiSnap(B, J, 1)
  BY <1>3, <1>4, <1>5, <1>6, SpacesRead
<1>8. pc' \in DOMAIN WikiRank \ {"analysis", "done"} /\ WikiRank[pc'] = 1
  BY <1>1 DEF WikiRank
<1>9. pc \notin {"analysis", "done"} /\ areas' = B /\ ideal' = J
  BY <1>1, <1>2, <1>3, <1>4
<1>10. QED
  BY <1>1, <1>5, <1>6, <1>7, <1>8, <1>9, WikiKeeps

LEMMA PermissionsHolds ==
  ASSUME AuditInv, GatherPermissions PROVE AuditInv'
<1>1. pc = "space_permissions" /\ pc' = "page_restrictions"
      /\ site' = site /\ findings' = findings /\ verdict' = verdict
  BY DEF GatherPermissions, Stage
<1>2. PICK F \in Failing(MaxFaults - faults, SpaceKeys) :
        /\ faults' = faults + Cardinality(F)
        /\ areas' = SpacePermissions(areas, F) ++ areas
        /\ ideal' = SpacePermissions(ideal, {}) ++ ideal
  BY DEF GatherPermissions, Stage
<1>3. PICK B : B = SpacePermissions(areas, F) ++ areas
  OBVIOUS
<1>4. PICK J : J = SpacePermissions(ideal, {}) ++ ideal
  OBVIOUS
<1>5. WikiSnap(areas, ideal, 1) /\ site \in Sites /\ site.product = "confluence"
  BY <1>1 DEF AuditInv, SnapOK, JiraRank, WikiRank
<1>6. faults' \in 0..MaxFaults /\ F \subseteq SpaceKeys
  BY <1>2, FaultsBound DEF AuditInv
<1>7. WikiSnap(B, J, 2)
  BY <1>3, <1>4, <1>5, <1>6, PermissionsRead
<1>8. pc' \in DOMAIN WikiRank \ {"analysis", "done"} /\ WikiRank[pc'] = 2
  BY <1>1 DEF WikiRank
<1>9. pc \notin {"analysis", "done"} /\ areas' = B /\ ideal' = J
  BY <1>1, <1>2, <1>3, <1>4
<1>10. QED
  BY <1>1, <1>5, <1>6, <1>7, <1>8, <1>9, WikiKeeps

LEMMA RestrictionsHolds ==
  ASSUME AuditInv, GatherRestrictions PROVE AuditInv'
<1>1. pc = "page_restrictions" /\ pc' = "directory" /\ site' = site /\ findings' = findings /\ verdict' = verdict
  BY DEF GatherRestrictions, Stage
<1>2. PICK F \in Failing(MaxFaults - faults, SpaceKeys) :
        /\ faults' = faults + Cardinality(F)
        /\ areas' = Restrictions(areas, F) ++ areas
        /\ ideal' = Restrictions(ideal, {}) ++ ideal
  BY DEF GatherRestrictions, Stage
<1>3. PICK B : B = Restrictions(areas, F) ++ areas
  OBVIOUS
<1>4. PICK J : J = Restrictions(ideal, {}) ++ ideal
  OBVIOUS
<1>5. WikiSnap(areas, ideal, 2) /\ site \in Sites /\ site.product = "confluence"
  BY <1>1 DEF AuditInv, SnapOK, JiraRank, WikiRank
<1>6. faults' \in 0..MaxFaults /\ F \subseteq SpaceKeys
  BY <1>2, FaultsBound DEF AuditInv
<1>7. WikiSnap(B, J, 3)
  BY <1>3, <1>4, <1>5, <1>6, RestrictionsRead
<1>8. pc' \in DOMAIN WikiRank \ {"analysis", "done"} /\ WikiRank[pc'] = 3
  BY <1>1 DEF WikiRank
<1>9. pc \notin {"analysis", "done"} /\ areas' = B /\ ideal' = J
  BY <1>1, <1>2, <1>3, <1>4
<1>10. QED
  BY <1>1, <1>5, <1>6, <1>7, <1>8, <1>9, WikiKeeps

LEMMA DirectoryHolds ==
  ASSUME AuditInv, GatherDirectory PROVE AuditInv'
<1>1. pc = "directory" /\ pc' = "templates" /\ site' = site /\ findings' = findings /\ verdict' = verdict
  BY DEF GatherDirectory, Stage
<1>2. PICK F \in Failing(MaxFaults - faults, {DirectoryList} \cup ToSet(site.groups)) :
        /\ faults' = faults + Cardinality(F)
        /\ areas' = Directory(areas, F) ++ areas
        /\ ideal' = Directory(ideal, {}) ++ ideal
  BY DEF GatherDirectory, Stage
<1>3. PICK B : B = Directory(areas, F) ++ areas
  OBVIOUS
<1>4. PICK J : J = Directory(ideal, {}) ++ ideal
  OBVIOUS
<1>5. WikiSnap(areas, ideal, 3) /\ site \in Sites /\ site.product = "confluence"
  BY <1>1 DEF AuditInv, SnapOK, JiraRank, WikiRank
<1>6. faults' \in 0..MaxFaults /\ F \subseteq {DirectoryList} \cup ToSet(site.groups)
  BY <1>2, FaultsBound DEF AuditInv
<1>7. WikiSnap(B, J, 4)
  BY <1>3, <1>4, <1>5, <1>6, DirectoryRead
<1>8. pc' \in DOMAIN WikiRank \ {"analysis", "done"} /\ WikiRank[pc'] = 4
  BY <1>1 DEF WikiRank
<1>9. pc \notin {"analysis", "done"} /\ areas' = B /\ ideal' = J
  BY <1>1, <1>2, <1>3, <1>4
<1>10. QED
  BY <1>1, <1>5, <1>6, <1>7, <1>8, <1>9, WikiKeeps

LEMMA TemplatesHolds ==
  ASSUME AuditInv, GatherTemplates PROVE AuditInv'
<1>1. pc = "templates" /\ pc' = "labels" /\ site' = site /\ findings' = findings /\ verdict' = verdict
  BY DEF GatherTemplates, Stage
<1>2. PICK F \in Failing(MaxFaults - faults, {"page", "blueprint"}) :
        /\ faults' = faults + Cardinality(F)
        /\ areas' = Templates(areas, F) ++ areas
        /\ ideal' = Templates(ideal, {}) ++ ideal
  BY DEF GatherTemplates, Stage
<1>3. PICK B : B = Templates(areas, F) ++ areas
  OBVIOUS
<1>4. PICK J : J = Templates(ideal, {}) ++ ideal
  OBVIOUS
<1>5. WikiSnap(areas, ideal, 4) /\ site \in Sites /\ site.product = "confluence"
  BY <1>1 DEF AuditInv, SnapOK, JiraRank, WikiRank
<1>6. faults' \in 0..MaxFaults /\ F \subseteq {"page", "blueprint"}
  BY <1>2, FaultsBound DEF AuditInv
<1>7. WikiSnap(B, J, 5)
  BY <1>3, <1>4, <1>5, <1>6, TemplatesRead
<1>8. pc' \in DOMAIN WikiRank \ {"analysis", "done"} /\ WikiRank[pc'] = 5
  BY <1>1 DEF WikiRank
<1>9. pc \notin {"analysis", "done"} /\ areas' = B /\ ideal' = J
  BY <1>1, <1>2, <1>3, <1>4
<1>10. QED
  BY <1>1, <1>5, <1>6, <1>7, <1>8, <1>9, WikiKeeps

LEMMA LabelsHolds ==
  ASSUME AuditInv, GatherLabels PROVE AuditInv'
<1>1. pc = "labels" /\ pc' = "content" /\ site' = site /\ findings' = findings /\ verdict' = verdict
  BY DEF GatherLabels, Stage
<1>2. PICK F \in Failing(MaxFaults - faults, {"label"}) :
        /\ faults' = faults + Cardinality(F)
        /\ areas' = Labels(areas, F) ++ areas
        /\ ideal' = Labels(ideal, {}) ++ ideal
  BY DEF GatherLabels, Stage
<1>3. PICK B : B = Labels(areas, F) ++ areas
  OBVIOUS
<1>4. PICK J : J = Labels(ideal, {}) ++ ideal
  OBVIOUS
<1>5. WikiSnap(areas, ideal, 5) /\ site \in Sites /\ site.product = "confluence"
  BY <1>1 DEF AuditInv, SnapOK, JiraRank, WikiRank
<1>6. faults' \in 0..MaxFaults /\ F \subseteq {"label"}
  BY <1>2, FaultsBound DEF AuditInv
<1>7. WikiSnap(B, J, 6)
  BY <1>3, <1>4, <1>5, <1>6, LabelsRead
<1>8. pc' \in DOMAIN WikiRank \ {"analysis", "done"} /\ WikiRank[pc'] = 6
  BY <1>1 DEF WikiRank
<1>9. pc \notin {"analysis", "done"} /\ areas' = B /\ ideal' = J
  BY <1>1, <1>2, <1>3, <1>4
<1>10. QED
  BY <1>1, <1>5, <1>6, <1>7, <1>8, <1>9, WikiKeeps

LEMMA ContentHolds ==
  ASSUME AuditInv, GatherContent PROVE AuditInv'
<1>1. pc = "content" /\ pc' = "macros" /\ site' = site /\ findings' = findings /\ verdict' = verdict
  BY DEF GatherContent, Stage
<1>2. PICK F \in Failing(MaxFaults - faults, {Search} \cup DOMAIN site.content) :
        /\ faults' = faults + Cardinality(F)
        /\ areas' = Content(areas, F) ++ areas
        /\ ideal' = Content(ideal, {}) ++ ideal
  BY DEF GatherContent, Stage
<1>3. PICK B : B = Content(areas, F) ++ areas
  OBVIOUS
<1>4. PICK J : J = Content(ideal, {}) ++ ideal
  OBVIOUS
<1>5. WikiSnap(areas, ideal, 6) /\ site \in Sites /\ site.product = "confluence"
  BY <1>1 DEF AuditInv, SnapOK, JiraRank, WikiRank
<1>6. faults' \in 0..MaxFaults /\ F \subseteq {Search} \cup DOMAIN site.content
  BY <1>2, FaultsBound DEF AuditInv
<1>7. WikiSnap(B, J, 7)
  BY <1>3, <1>4, <1>5, <1>6, ContentRead
<1>8. pc' \in DOMAIN WikiRank \ {"analysis", "done"} /\ WikiRank[pc'] = 7
  BY <1>1 DEF WikiRank
<1>9. pc \notin {"analysis", "done"} /\ areas' = B /\ ideal' = J
  BY <1>1, <1>2, <1>3, <1>4
<1>10. QED
  BY <1>1, <1>5, <1>6, <1>7, <1>8, <1>9, WikiKeeps

LEMMA MacrosHolds ==
  ASSUME AuditInv, GatherMacros PROVE AuditInv'
<1>1. pc = "macros" /\ pc' = "checks" /\ site' = site /\ findings' = findings /\ verdict' = verdict
  BY DEF GatherMacros, Stage
<1>2. PICK F \in Failing(MaxFaults - faults, {Search} \cup DOMAIN site.macros) :
        /\ faults' = faults + Cardinality(F)
        /\ areas' = Macros(areas, F) ++ areas
        /\ ideal' = Macros(ideal, {}) ++ ideal
  BY DEF GatherMacros, Stage
<1>3. PICK B : B = Macros(areas, F) ++ areas
  OBVIOUS
<1>4. PICK J : J = Macros(ideal, {}) ++ ideal
  OBVIOUS
<1>5. WikiSnap(areas, ideal, 7) /\ site \in Sites /\ site.product = "confluence"
  BY <1>1 DEF AuditInv, SnapOK, JiraRank, WikiRank
<1>6. faults' \in 0..MaxFaults /\ F \subseteq {Search} \cup DOMAIN site.macros
  BY <1>2, FaultsBound DEF AuditInv
<1>7. WikiSnap(B, J, 8)
  BY <1>3, <1>4, <1>5, <1>6, MacrosRead
<1>8. pc' \in DOMAIN WikiRank \ {"analysis", "done"} /\ WikiRank[pc'] = 8
  BY <1>1 DEF WikiRank
<1>9. pc \notin {"analysis", "done"} /\ areas' = B /\ ideal' = J
  BY <1>1, <1>2, <1>3, <1>4
<1>10. QED
  BY <1>1, <1>5, <1>6, <1>7, <1>8, <1>9, WikiKeeps

\* The rules judge the snapshot, and the instance only by its use of the products.
LEMMA RulesSame ==
  ASSUME site' = site, areas' = areas
  PROVE  Rules(areas)' = Rules(areas) /\ Coverage(areas)' = Coverage(areas)
<1>1. Coverage(areas)' = Coverage(areas)
  BY DEF Coverage
<1>2. JiraRules(areas)' = JiraRules(areas)
  <2>1. Cloud' = Cloud
    BY DEF Cloud
  <2>2. /\ FieldRules(areas)' = FieldRules(areas) /\ ScreenRules(areas)' = ScreenRules(areas)
        /\ WorkflowRules(areas)' = WorkflowRules(areas) /\ StatusRules(areas)' = StatusRules(areas)
    BY DEF FieldRules, ScreenRules, WorkflowRules, StatusRules, Names, Evaluable, Has, Over, Above, DetailOf, Statuses
  <2>3. /\ SchemeRules(areas)' = SchemeRules(areas) /\ OptionRules(areas)' = OptionRules(areas)
        /\ CatalogueRules(areas)' = CatalogueRules(areas) /\ SizeRules(areas)' = SizeRules(areas)
    BY DEF SchemeRules, OptionRules, CatalogueRules, SizeRules, Names, Evaluable, Has, Over, Above, DetailOf, Statuses,
           Unused
  <2>4. /\ GraphRules(areas)' = GraphRules(areas) /\ ReferenceRules(areas)' = ReferenceRules(areas)
        /\ TypeSchemeRules(areas)' = TypeSchemeRules(areas) /\ GroupRules(areas)' = GroupRules(areas)
    BY DEF GraphRules, ReferenceRules, TypeSchemeRules, GroupRules, Names, Evaluable, Has, DetailOf, Statuses, Unused
  <2>5. /\ VersionRules(areas)' = VersionRules(areas) /\ ComponentRules(areas)' = ComponentRules(areas)
        /\ GrantRules(areas)' = GrantRules(areas) /\ BoardRules(areas)' = BoardRules(areas)
        /\ ProjectRules(areas)' = ProjectRules(areas)
    BY DEF VersionRules, ComponentRules, GrantRules, BoardRules, ProjectRules, RowsOf, Evaluable, Has
  <2>6. /\ SharedRules(areas)' = SharedRules(areas) /\ QualityRules(areas)' = QualityRules(areas)
        /\ ArtifactRules(areas)' = ArtifactRules(areas) /\ GuardrailRules(areas)' = GuardrailRules(areas)
    BY DEF SharedRules, QualityRules, ArtifactRules, GuardrailRules, Items, Names, Evaluable, Has, Over, Above
  <2>7. MigrationRules(areas)' = MigrationRules(areas)
    BY <2>1 DEF MigrationRules, Evaluable
  <2>8. QED
    BY <2>2, <2>3, <2>4, <2>5, <2>6, <2>7 DEF JiraRules
<1>3. ConfluenceRules(areas)' = ConfluenceRules(areas)
  BY DEF ConfluenceRules, SpaceRules, PermissionRules, SamplingRules, RestrictionRules, ContentRules, MacroRules,
         LibraryRules, CountsOf, Evaluable, Has, Over, Above
<1>4. QED
  BY <1>1, <1>2, <1>3 DEF Rules

\* After the last stage the snapshots change no more.
LEMMA SnapKept ==
  ASSUME SnapOK, site' = site, areas' = areas, ideal' = ideal, pc' = pc \/ (pc \in Late /\ pc' \in Late)
  PROVE  SnapOK'
<1>1. PICK B : B = areas
  OBVIOUS
<1>2. PICK J : J = ideal
  OBVIOUS
<1>3. areas' = B /\ ideal' = J
  BY <1>1, <1>2
<1>4. CASE site.product = "jira" /\ pc \in DOMAIN JiraRank /\ JiraSnap(areas, ideal, JiraRank[pc])
  <2>1. PICK n : n = JiraRank[pc]
    OBVIOUS
  <2>2. JiraSnap(B, J, n)
    BY <1>1, <1>2, <1>4, <2>1
  <2>3. JiraSnap(B, J, n)'
    BY <2>2, JiraFrame
  <2>4. pc' \in DOMAIN JiraRank /\ JiraRank[pc'] = n
    BY <1>4, <2>1, StageIs
  <2>5. JiraSnap(areas, ideal, JiraRank[pc])'
    BY <1>3, <2>3, <2>4
  <2>6. QED
    BY <1>4, <2>4, <2>5 DEF SnapOK
<1>5. CASE site.product = "confluence" /\ pc \in DOMAIN WikiRank /\ WikiSnap(areas, ideal, WikiRank[pc])
  <2>1. PICK n : n = WikiRank[pc]
    OBVIOUS
  <2>2. WikiSnap(B, J, n)
    BY <1>1, <1>2, <1>5, <2>1
  <2>3. WikiSnap(B, J, n)'
    BY <2>2, WikiFrame
  <2>4. pc' \in DOMAIN WikiRank /\ WikiRank[pc'] = n
    BY <1>5, <2>1, StageIs
  <2>5. WikiSnap(areas, ideal, WikiRank[pc])'
    BY <1>3, <2>3, <2>4
  <2>6. QED
    BY <1>5, <2>4, <2>5 DEF SnapOK
<1>6. QED
  BY <1>4, <1>5 DEF SnapOK

LEMMA ChecksHold ==
  ASSUME AuditInv, RunChecks PROVE AuditInv'
<1>1. pc = "checks" /\ pc' = "analysis" /\ UNCHANGED <<site, faults, areas, ideal, verdict>>
      /\ findings' = Coverage(areas) \cup Rules(areas)
  BY DEF RunChecks, RunRules
<1>2. SnapOK'
  BY <1>1, SnapKept DEF AuditInv, Late
<1>3. findings' = Coverage(areas)' \cup Rules(areas)'
  BY <1>1, RulesSame
<1>4. QED
  BY <1>1, <1>2, <1>3 DEF AuditInv

LEMMA AnalyseHolds ==
  ASSUME AuditInv, Analyse PROVE AuditInv'
<1>1. pc = "analysis" /\ pc' = "done" /\ UNCHANGED <<site, faults, areas, ideal, findings>>
  BY DEF Analyse
<1>2. verdict' \in Verdicts
  BY DEF Analyse, Verdict, Verdicts
<1>3. SnapOK'
  BY <1>1, SnapKept DEF AuditInv, Late
<1>4. findings = Coverage(areas) \cup Rules(areas)
  BY <1>1 DEF AuditInv
<1>5. findings' = Coverage(areas)' \cup Rules(areas)'
  BY <1>1, <1>4, RulesSame
<1>6. QED
  BY <1>1, <1>2, <1>3, <1>5 DEF AuditInv

LEMMA NothingChanges ==
  ASSUME AuditInv, UNCHANGED vars PROVE AuditInv'
<1>1. pc' = pc /\ UNCHANGED <<site, faults, areas, ideal, findings, verdict>>
  BY DEF vars
<1>2. SnapOK'
  BY <1>1, SnapKept DEF AuditInv
<1>3. Coverage(areas)' \cup Rules(areas)' = Coverage(areas) \cup Rules(areas)
  BY <1>1, RulesSame
<1>4. QED
  BY <1>1, <1>2, <1>3 DEF AuditInv

LEMMA InitHolds ==
  ASSUME Init PROVE AuditInv
<1>1. DOMAIN areas = {} /\ DOMAIN ideal = {} /\ faults \in 0..MaxFaults
  BY FaultsAssumption DEF Init
<1>2. site.product \in {"jira", "confluence"}
  BY SitesAssumption DEF Init
<1>3. CASE site.product = "jira"
  <2>1. JiraSnap(areas, ideal, 0)
    BY <1>1 DEF JiraSnap, JiraAreas, Upon
  <2>2. QED
    BY <1>1, <1>3, <2>1 DEF AuditInv, SnapOK, JiraRank, Init, Verdicts
<1>4. CASE site.product = "confluence"
  <2>1. WikiSnap(areas, ideal, 0)
    BY <1>1 DEF WikiSnap, WikiAreas, Upon
  <2>2. QED
    BY <1>1, <1>4, <2>1 DEF AuditInv, SnapOK, WikiRank, Init, Verdicts
<1>5. QED
  BY <1>2, <1>3, <1>4

\* The invariant holds in every state the audit reaches.
THEOREM AuditCorrect == Spec => []AuditInv
<1>1. Init => AuditInv
  BY InitHolds
<1>2. AuditInv /\ [Next]_vars => AuditInv'
  <2>1. ASSUME AuditInv, JiraStage PROVE AuditInv'
    BY <2>1, SimpleHolds, ScreenFieldsHolds, FieldsHolds, SchemesHolds, WorkflowsHolds, GrantsHolds, GroupsHolds,
       ComponentsHolds, VersionsHolds, OptionsHolds, BoardsHolds, ProjectsHolds, SharedHolds, TypeSchemesHolds,
       QualityHolds, PluginsHolds DEF JiraStage
  <2>2. ASSUME AuditInv, ConfluenceStage PROVE AuditInv'
    BY <2>2, SpacesHolds, PermissionsHolds, RestrictionsHolds, DirectoryHolds, TemplatesHolds, LabelsHolds,
       ContentHolds, MacrosHolds DEF ConfluenceStage
  <2>3. QED
    BY <2>1, <2>2, ChecksHold, AnalyseHolds, NothingChanges DEF Next, Done
<1>3. QED
  BY <1>1, <1>2, PTL DEF Spec

-----------------------------------------------------------------------------
(* The registry of fixes.                                                     *)

Apps(f) == {k \in DOMAIN f : f[k] = "app"}
LEMMA TierUpdate ==
  ASSUME NEW f, NEW g
  PROVE  DOMAIN (f ++ g) = DOMAIN f \cup DOMAIN g /\ Apps(f ++ g) \subseteq Apps(f) \cup Apps(g)
BY DEF Apps, ++
LEMMA TierIs ==
  ASSUME NEW kinds
  PROVE  /\ DOMAIN App(kinds) = kinds /\ Apps(App(kinds)) = kinds
         /\ DOMAIN Human(kinds) = kinds /\ Apps(Human(kinds)) = {}
BY DEF Apps, App, Human

JiraKinds ==
  {"scheme_unused", "unused_issue_type_scheme", "unused_issue_type_screen_scheme", "empty_group",
   "migration_artifact", "apps_to_assess_for_cloud", "script_app_present", "unsupported_custom_field_type",
   "unused_custom_field", "empty_screen", "status_not_in_workflow", "duplicate_field",
   "workflow_no_transitions", "field_sprawl", "large_option_set", "workflow_sprawl", "status_sprawl",
   "screen_sprawl", "permission_scheme_sprawl", "version_overdue", "version_archived_unreleased",
   "component_no_lead", "permission_grant_overly_broad", "resolution_sprawl", "priority_sprawl",
   "issue_type_sprawl", "link_type_sprawl", "large_workflow", "public_browse_grant",
   "component_unassigned_default", "near_field_limit", "near_issue_type_limit", "near_priority_limit",
   "near_workflow_limit", "unused_resolution", "duplicate_status_name", "duplicate_issue_type_name",
   "redundant_priority_set", "many_overdue_versions_in_project", "large_group_admin_bloat",
   "anonymous_write_grant", "empty_project", "admin_grant_to_logged_in", "board_count_exceeds_projects",
   "dashboard_filter_volume_high", "version_naming_inconsistent", "inactive_project",
   "shared_object_owned_by_inactive", "public_shared_filter", "public_shared_dashboard",
   "unreachable_status", "dead_end_status", "global_transition_overuse", "workflow_unreferenced",
   "screen_not_in_scheme", "done_but_unresolved", "resolved_but_open", "stale_open_issues",
   "unassigned_unresolved_high"}
WikiKinds ==
  {"empty_space", "confluence_empty_group", "large_space", "space_no_homepage", "orphaned_pages",
   "unsupported_macro_usage", "cross_space_include_risk", "archived_space_clutter",
   "personal_space_sprawl", "space_count_near_guardrail", "space_no_admin", "anonymous_space_access",
   "space_permission_to_anyone", "permission_grant_to_empty_group", "restricted_pages",
   "stale_page_ratio_high", "drafts_pileup", "label_sprawl", "template_sprawl"}
Disposing ==
  {"scheme_unused", "unused_issue_type_scheme", "unused_issue_type_screen_scheme", "empty_group",
   "unused_custom_field", "empty_screen", "status_not_in_workflow", "empty_project",
   "workflow_unreferenced", "screen_not_in_scheme", "empty_space", "confluence_empty_group"}

\* Every block registers its kinds and leaves to the app only those it disposes of.
Registers(f, kinds) == kinds \subseteq DOMAIN f /\ Apps(f) \subseteq Disposing
LEMMA RegisterUpdate ==
  ASSUME NEW f, NEW g, NEW K, NEW L, Registers(f, K), Registers(g, L)
  PROVE  Registers(f ++ g, K \cup L)
<1>1. DOMAIN (f ++ g) = DOMAIN f \cup DOMAIN g /\ Apps(f ++ g) \subseteq Apps(f) \cup Apps(g)
  BY TierUpdate
<1>2. QED
  BY <1>1 DEF Registers

LEMMA RegistryIs ==
  /\ JiraKinds \cup WikiKinds \cup {"capability_gap", "area_error"} \subseteq DOMAIN Fixes
  /\ AppKinds \subseteq Disposing
<1>1. Registers(LeftoverFixes, {"scheme_unused", "unused_issue_type_scheme",
                                "unused_issue_type_screen_scheme", "empty_group"})
  BY TierIs DEF LeftoverFixes, Registers, Disposing
<1>2. Registers(MigrationFixes, {"migration_artifact"}
                           \cup {"group_name_collision_reserved", "apps_to_assess_for_cloud",
                                 "script_app_present", "unsupported_custom_field_type"})
  <2>1. Registers([migration_artifact |-> "unfixable"], {"migration_artifact"})
    BY TierIs DEF Registers, Disposing, Apps
  <2>2. Registers(Human({"group_name_collision_reserved", "apps_to_assess_for_cloud", "script_app_present",
                         "unsupported_custom_field_type"}),
                  {"group_name_collision_reserved", "apps_to_assess_for_cloud", "script_app_present",
                   "unsupported_custom_field_type"})
    BY TierIs DEF Registers
  <2>3. QED
    BY <2>1, <2>2, RegisterUpdate DEF MigrationFixes
<1>3. Registers(FieldAndStatusFixes, {"unused_custom_field", "empty_screen", "status_not_in_workflow"}
                                \cup {"duplicate_field", "workflow_no_transitions"})
  <2>1. Registers(App({"unused_custom_field", "empty_screen", "status_not_in_workflow"}),
                  {"unused_custom_field", "empty_screen", "status_not_in_workflow"})
    BY TierIs DEF Registers, Disposing
  <2>2. Registers(Human({"duplicate_field", "workflow_no_transitions"}),
                  {"duplicate_field", "workflow_no_transitions"})
    BY TierIs DEF Registers
  <2>3. QED
    BY <2>1, <2>2, RegisterUpdate DEF FieldAndStatusFixes
<1>4. Registers(SprawlFixes, {"field_sprawl", "large_option_set", "workflow_sprawl", "status_sprawl",
                              "screen_sprawl", "permission_scheme_sprawl"})
  BY TierIs DEF SprawlFixes, Registers, Disposing
<1>5. Registers(ReleaseFixes, {"version_overdue", "version_archived_unreleased", "component_no_lead",
                               "permission_grant_overly_broad"})
  BY TierIs DEF ReleaseFixes, Registers, Disposing
<1>6. Registers(CatalogueFixes, {"resolution_sprawl", "priority_sprawl", "issue_type_sprawl",
                                 "link_type_sprawl", "large_workflow", "public_browse_grant"})
  BY TierIs DEF CatalogueFixes, Registers, Disposing
<1>7. Registers(LimitFixes, {"component_unassigned_default", "near_field_limit", "near_issue_type_limit",
                             "near_priority_limit", "near_workflow_limit", "unused_resolution"})
  BY TierIs DEF LimitFixes, Registers, Disposing
<1>8. Registers(DuplicateFixes, {"duplicate_status_name", "duplicate_issue_type_name",
                                 "redundant_priority_set", "many_overdue_versions_in_project",
                                 "large_group_admin_bloat", "anonymous_write_grant"})
  BY TierIs DEF DuplicateFixes, Registers, Disposing
<1>9. Registers(ProjectFixes, {"empty_project"}
                         \cup {"admin_grant_to_logged_in", "board_count_exceeds_projects",
                               "dashboard_filter_volume_high", "version_naming_inconsistent",
                               "inactive_project"})
  <2>1. Registers(App({"empty_project"}), {"empty_project"})
    BY TierIs DEF Registers, Disposing
  <2>2. Registers(Human({"admin_grant_to_logged_in", "board_count_exceeds_projects",
                         "dashboard_filter_volume_high", "version_naming_inconsistent", "inactive_project"}),
                  {"admin_grant_to_logged_in", "board_count_exceeds_projects",
                   "dashboard_filter_volume_high", "version_naming_inconsistent", "inactive_project"})
    BY TierIs DEF Registers
  <2>3. QED
    BY <2>1, <2>2, RegisterUpdate DEF ProjectFixes
<1>10. Registers(SharingAndGraphFixes, {"shared_object_owned_by_inactive", "public_shared_filter",
                                        "public_shared_dashboard", "unreachable_status", "dead_end_status",
                                        "global_transition_overuse"})
  BY TierIs DEF SharingAndGraphFixes, Registers, Disposing
<1>11. Registers(ReferenceAndIssueFixes, {"workflow_unreferenced", "screen_not_in_scheme"}
                                    \cup {"done_but_unresolved", "resolved_but_open", "stale_open_issues",
                                          "unassigned_unresolved_high"})
  <2>1. Registers(App({"workflow_unreferenced", "screen_not_in_scheme"}),
                  {"workflow_unreferenced", "screen_not_in_scheme"})
    BY TierIs DEF Registers, Disposing
  <2>2. Registers(Human({"done_but_unresolved", "resolved_but_open", "stale_open_issues",
                         "unassigned_unresolved_high"}),
                  {"done_but_unresolved", "resolved_but_open", "stale_open_issues",
                   "unassigned_unresolved_high"})
    BY TierIs DEF Registers
  <2>3. QED
    BY <2>1, <2>2, RegisterUpdate DEF ReferenceAndIssueFixes
<1>12. Registers(SpaceFixes, {"empty_space", "confluence_empty_group"}
                        \cup {"large_space", "space_no_homepage", "orphaned_pages", "unsupported_macro_usage"})
  <2>1. Registers(App({"empty_space", "confluence_empty_group"}), {"empty_space", "confluence_empty_group"})
    BY TierIs DEF Registers, Disposing
  <2>2. Registers(Human({"large_space", "space_no_homepage", "orphaned_pages", "unsupported_macro_usage"}),
                  {"large_space", "space_no_homepage", "orphaned_pages", "unsupported_macro_usage"})
    BY TierIs DEF Registers
  <2>3. QED
    BY <2>1, <2>2, RegisterUpdate DEF SpaceFixes
<1>13. Registers(SpaceAccessFixes, {"cross_space_include_risk", "archived_space_clutter",
                                    "personal_space_sprawl", "space_count_near_guardrail", "space_no_admin",
                                    "anonymous_space_access"})
  BY TierIs DEF SpaceAccessFixes, Registers, Disposing
<1>14. Registers(ContentFixes, {"space_permission_to_anyone", "permission_grant_to_empty_group",
                                "restricted_pages", "stale_page_ratio_high", "drafts_pileup", "label_sprawl",
                                "template_sprawl"})
  BY TierIs DEF ContentFixes, Registers, Disposing
<1>15. Registers(CoverageFixes, {"capability_gap", "area_error"})
  BY TierIs DEF CoverageFixes, Registers, Disposing
<1> DEFINE F2 == LeftoverFixes ++ MigrationFixes
           F3 == F2 ++ FieldAndStatusFixes
           F4 == F3 ++ SprawlFixes
           F5 == F4 ++ ReleaseFixes
           F6 == F5 ++ CatalogueFixes
           F7 == F6 ++ LimitFixes
           F8 == F7 ++ DuplicateFixes
           F9 == F8 ++ ProjectFixes
           F10 == F9 ++ SharingAndGraphFixes
           F11 == F10 ++ ReferenceAndIssueFixes
           F12 == F11 ++ SpaceFixes
           F13 == F12 ++ SpaceAccessFixes
           F14 == F13 ++ ContentFixes
           F15 == F14 ++ CoverageFixes
<1>16. Fixes = F15
  BY DEF Fixes, JiraFixes
<1>17. DOMAIN F2 = DOMAIN LeftoverFixes \cup DOMAIN MigrationFixes /\ Apps(F2) \subseteq Disposing
  BY <1>2, <1>1, TierUpdate DEF Registers
<1>18. DOMAIN F3 = DOMAIN F2 \cup DOMAIN FieldAndStatusFixes /\ Apps(F3) \subseteq Disposing
  <2> HIDE DEF F2
  <2>1. QED
    BY <1>3, <1>17, TierUpdate DEF Registers
<1>19. DOMAIN F4 = DOMAIN F3 \cup DOMAIN SprawlFixes /\ Apps(F4) \subseteq Disposing
  <2> HIDE DEF F3
  <2>1. QED
    BY <1>4, <1>18, TierUpdate DEF Registers
<1>20. DOMAIN F5 = DOMAIN F4 \cup DOMAIN ReleaseFixes /\ Apps(F5) \subseteq Disposing
  <2> HIDE DEF F4
  <2>1. QED
    BY <1>5, <1>19, TierUpdate DEF Registers
<1>21. DOMAIN F6 = DOMAIN F5 \cup DOMAIN CatalogueFixes /\ Apps(F6) \subseteq Disposing
  <2> HIDE DEF F5
  <2>1. QED
    BY <1>6, <1>20, TierUpdate DEF Registers
<1>22. DOMAIN F7 = DOMAIN F6 \cup DOMAIN LimitFixes /\ Apps(F7) \subseteq Disposing
  <2> HIDE DEF F6
  <2>1. QED
    BY <1>7, <1>21, TierUpdate DEF Registers
<1>23. DOMAIN F8 = DOMAIN F7 \cup DOMAIN DuplicateFixes /\ Apps(F8) \subseteq Disposing
  <2> HIDE DEF F7
  <2>1. QED
    BY <1>8, <1>22, TierUpdate DEF Registers
<1>24. DOMAIN F9 = DOMAIN F8 \cup DOMAIN ProjectFixes /\ Apps(F9) \subseteq Disposing
  <2> HIDE DEF F8
  <2>1. QED
    BY <1>9, <1>23, TierUpdate DEF Registers
<1>25. DOMAIN F10 = DOMAIN F9 \cup DOMAIN SharingAndGraphFixes /\ Apps(F10) \subseteq Disposing
  <2> HIDE DEF F9
  <2>1. QED
    BY <1>10, <1>24, TierUpdate DEF Registers
<1>26. DOMAIN F11 = DOMAIN F10 \cup DOMAIN ReferenceAndIssueFixes /\ Apps(F11) \subseteq Disposing
  <2> HIDE DEF F10
  <2>1. QED
    BY <1>11, <1>25, TierUpdate DEF Registers
<1>27. DOMAIN F12 = DOMAIN F11 \cup DOMAIN SpaceFixes /\ Apps(F12) \subseteq Disposing
  <2> HIDE DEF F11
  <2>1. QED
    BY <1>12, <1>26, TierUpdate DEF Registers
<1>28. DOMAIN F13 = DOMAIN F12 \cup DOMAIN SpaceAccessFixes /\ Apps(F13) \subseteq Disposing
  <2> HIDE DEF F12
  <2>1. QED
    BY <1>13, <1>27, TierUpdate DEF Registers
<1>29. DOMAIN F14 = DOMAIN F13 \cup DOMAIN ContentFixes /\ Apps(F14) \subseteq Disposing
  <2> HIDE DEF F13
  <2>1. QED
    BY <1>14, <1>28, TierUpdate DEF Registers
<1>30. DOMAIN F15 = DOMAIN F14 \cup DOMAIN CoverageFixes /\ Apps(F15) \subseteq Disposing
  <2> HIDE DEF F14
  <2>1. QED
    BY <1>15, <1>29, TierUpdate DEF Registers
<1> HIDE DEF F2, F3, F4, F5, F6, F7, F8, F9, F10, F11, F12, F13, F14, F15
<1>31. \A k \in JiraKinds \cup WikiKinds \cup {"capability_gap", "area_error"} : k \in DOMAIN F15
  <2>1. /\ DOMAIN LeftoverFixes \subseteq DOMAIN F15 /\ DOMAIN MigrationFixes \subseteq DOMAIN F15
        /\ DOMAIN FieldAndStatusFixes \subseteq DOMAIN F15 /\ DOMAIN SprawlFixes \subseteq DOMAIN F15
        /\ DOMAIN ReleaseFixes \subseteq DOMAIN F15 /\ DOMAIN CatalogueFixes \subseteq DOMAIN F15
        /\ DOMAIN LimitFixes \subseteq DOMAIN F15 /\ DOMAIN DuplicateFixes \subseteq DOMAIN F15
        /\ DOMAIN ProjectFixes \subseteq DOMAIN F15 /\ DOMAIN SharingAndGraphFixes \subseteq DOMAIN F15
        /\ DOMAIN ReferenceAndIssueFixes \subseteq DOMAIN F15 /\ DOMAIN SpaceFixes \subseteq DOMAIN F15
        /\ DOMAIN SpaceAccessFixes \subseteq DOMAIN F15 /\ DOMAIN ContentFixes \subseteq DOMAIN F15
        /\ DOMAIN CoverageFixes \subseteq DOMAIN F15
    BY <1>17, <1>18, <1>19, <1>20, <1>21, <1>22, <1>23, <1>24, <1>25, <1>26, <1>27, <1>28, <1>29, <1>30
  <2>2. QED
    BY <2>1, <1>1, <1>2, <1>3, <1>4, <1>5, <1>6, <1>7, <1>8, <1>9, <1>10, <1>11, <1>12, <1>13, <1>14, <1>15
       DEF Registers, JiraKinds, WikiKinds
<1>32. QED
  BY <1>16, <1>31, <1>30 DEF AppKinds, Apps

-----------------------------------------------------------------------------
(* The findings of the rules.                                                 *)

Severities == {"high", "medium", "low", "warning", "info"}

\* What a finding of a group says.
LEMMA EachIs ==
  ASSUME NEW a, NEW N, NEW k, NEW v, NEW f \in Each(a, N, k, v)
  PROVE  f.area = a /\ f.name \in N /\ f.kind = k /\ f.sev = v
BY DEF Each, Finding
LEMMA WhenIs ==
  ASSUME NEW c, NEW g, NEW f \in When(c, g)
  PROVE  c /\ f = g
BY DEF When
LEMMA WholeIs ==
  ASSUME NEW a, NEW k, NEW v
  PROVE  Whole(a, k, v).area = a /\ Whole(a, k, v).kind = k /\ Whole(a, k, v).sev = v
BY DEF Whole, Finding
LEMMA WhenWhole ==
  ASSUME NEW c, NEW a, NEW k, NEW v, NEW f \in When(c, Whole(a, k, v))
  PROVE  c /\ f.area = a /\ f.kind = k /\ f.sev = v
BY WhenIs, WholeIs
LEMMA AboveIs ==
  ASSUME NEW A, NEW a, NEW k, NEW v, NEW b, NEW f \in Above(A, a, k, v, b)
  PROVE  f.area = a /\ f.kind = k /\ f.sev = v
BY WhenWhole DEF Above

\* A finding of one of some areas and kinds.
Says(f, as, ks) == f.area \in as /\ f.kind \in ks /\ f.sev \in Severities

LEMMA CoverageIs ==
  ASSUME NEW A, NEW f \in Coverage(A)
  PROVE  Says(f, DOMAIN A, {"capability_gap", "area_error"})
BY WholeIs DEF Coverage, Says, Severities

LEMMA FieldRuleIs ==
  ASSUME NEW A, NEW f \in FieldRules(A)
  PROVE  /\ Says(f, {"custom_fields"}, {"duplicate_field", "unused_custom_field", "field_sprawl", "near_field_limit"})
         /\ f.kind = "unused_custom_field" =>
              /\ Has(A, "screens", "fields")
              /\ \A s \in DOMAIN A["screens"].fields : f.name \notin A["screens"].fields[s]
BY EachIs, WhenWhole, AboveIs DEF FieldRules, Says, Severities

LEMMA ScreenRuleIs ==
  ASSUME NEW A, NEW f \in ScreenRules(A)
  PROVE  /\ Says(f, {"screens"}, {"empty_screen", "screen_sprawl"})
         /\ f.kind = "empty_screen" =>
              Has(A, "screens", "fields") /\ f.name \in DOMAIN A["screens"].fields /\ A["screens"].fields[f.name] = {}
BY EachIs, AboveIs DEF ScreenRules, Says, Severities

LEMMA WorkflowRuleIs ==
  ASSUME NEW A, NEW f \in WorkflowRules(A)
  PROVE  Says(f, {"workflows"}, {"capability_gap", "workflow_no_transitions", "workflow_sprawl"})
BY EachIs, WhenWhole DEF WorkflowRules, Says, Severities

LEMMA StatusRuleIs ==
  ASSUME NEW A, NEW f \in StatusRules(A)
  PROVE  /\ Says(f, {"statuses"}, {"status_not_in_workflow", "status_sprawl", "duplicate_status_name"})
         /\ f.kind = "status_not_in_workflow" =>
              DOMAIN DetailOf(A) # {} /\ \A w \in DOMAIN DetailOf(A) : f.name \notin Statuses(A, w)
BY EachIs, AboveIs DEF StatusRules, Says, Severities

LEMMA SchemeRuleIs ==
  ASSUME NEW A, NEW f \in SchemeRules(A)
  PROVE  Says(f, SchemeAreas, {"scheme_unused"}) /\ f.name \in Unused(A, f.area)
<1>1. PICK a \in SchemeAreas : f \in Each(a, Unused(A, a), "scheme_unused", "low")
  BY DEF SchemeRules
<1>2. QED
  BY <1>1, EachIs DEF Says, Severities

LEMMA OptionRuleIs ==
  ASSUME NEW A, NEW f \in OptionRules(A)
  PROVE  Says(f, {"custom_field_options"}, {"large_option_set"})
BY EachIs DEF OptionRules, Says, Severities

CatalogueAreas == {"permission_schemes", "resolutions", "priorities", "issue_types", "link_types"}
LEMMA CatalogueRuleIs ==
  ASSUME NEW A, NEW f \in CatalogueRules(A)
  PROVE  Says(f, CatalogueAreas,
              {"permission_scheme_sprawl", "resolution_sprawl", "priority_sprawl", "issue_type_sprawl",
               "link_type_sprawl", "duplicate_issue_type_name", "unused_resolution", "redundant_priority_set"})
BY EachIs, AboveIs DEF CatalogueRules, Says, Severities, CatalogueAreas

LEMMA SizeRuleIs ==
  ASSUME NEW A, NEW f \in SizeRules(A)
  PROVE  Says(f, {"workflows"}, {"large_workflow"})
BY EachIs DEF SizeRules, Says, Severities

LEMMA GraphRuleIs ==
  ASSUME NEW A, NEW f \in GraphRules(A)
  PROVE  Says(f, {"workflows"}, {"unreachable_status", "dead_end_status", "global_transition_overuse"})
<1> DEFINE D == DetailOf(A)
           edges(w) == ToSet(D[w].edges)
           unreachable(w) == Statuses(A, w) \ ({e.to : e \in edges(w)} \cup {D[w].initial})
           deadEnds(w) == IF \E e \in edges(w) : e.global THEN {}
                          ELSE {s \in Statuses(A, w) : s[1] \notin TerminalNames} \ UNION {e.from : e \in edges(w)}
           lost(w) == {w \o s : s \in unreachable(w)}
           dead(w) == {w \o s : s \in deadEnds(w)}
           many == {w \in DOMAIN D : Len(Globals(D[w].edges)) > Limit["globals"]}
<1>1. \/ \E w \in DOMAIN D : \/ f \in Each("workflows", lost(w), "unreachable_status", "medium")
                             \/ f \in Each("workflows", dead(w), "dead_end_status", "low")
      \/ f \in Each("workflows", many, "global_transition_overuse", "low")
  BY DEF GraphRules
<1> HIDE DEF D, lost, dead, many
<1>2. QED
  BY <1>1, EachIs DEF Says, Severities

LEMMA ReferenceRuleIs ==
  ASSUME NEW A, NEW f \in ReferenceRules(A)
  PROVE  /\ Says(f, {"workflows", "screens"}, {"workflow_unreferenced", "screen_not_in_scheme"})
         /\ f.kind = "workflow_unreferenced" =>
              f.area = "workflows" /\ Has(A, "workflow_schemes", "used") /\ f.name \notin A["workflow_schemes"].used
         /\ f.kind = "screen_not_in_scheme" =>
              /\ f.area = "screens" /\ Has(A, "screen_schemes", "used")
              /\ f.name \in ToSet(Names(A, "screens")) /\ f.name \notin A["screen_schemes"].used
BY EachIs DEF ReferenceRules, Says, Severities

LEMMA TypeSchemeRuleIs ==
  ASSUME NEW A, NEW f \in TypeSchemeRules(A)
  PROVE  /\ Says(f, TypeSchemeAreas, {"unused_issue_type_scheme", "unused_issue_type_screen_scheme"})
         /\ f.name \in Unused(A, f.area)
BY EachIs DEF TypeSchemeRules, Says, Severities, TypeSchemeAreas

LEMMA GroupRuleIs ==
  ASSUME NEW A, NEW f \in GroupRules(A)
  PROVE  /\ Says(f, {"groups"}, {"empty_group", "large_group_admin_bloat"})
         /\ f.kind = "empty_group" =>
              Evaluable(A, "groups") /\ f.name \in DOMAIN A["groups"].members /\ A["groups"].members[f.name] = 0
BY EachIs DEF GroupRules, Says, Severities

LEMMA RowIs ==
  ASSUME NEW a, NEW rows, NEW k, NEW f \in EachRow(a, rows, k)
  PROVE  f.area = a /\ f.kind = k /\ f.sev = "low"
BY DEF EachRow, Finding

LEMMA VersionRuleIs ==
  ASSUME NEW A, NEW f \in VersionRules(A)
  PROVE  Says(f, {"versions"}, {"version_overdue", "version_archived_unreleased",
                                "many_overdue_versions_in_project", "version_naming_inconsistent"})
BY EachIs, RowIs DEF VersionRules, Says, Severities

LEMMA ComponentRuleIs ==
  ASSUME NEW A, NEW f \in ComponentRules(A)
  PROVE  Says(f, {"components"}, {"component_no_lead", "component_unassigned_default"})
BY RowIs DEF ComponentRules, Says, Severities

LEMMA GrantRuleIs ==
  ASSUME NEW A, NEW f \in GrantRules(A)
  PROVE  Says(f, {"permission_scheme_grants"},
              {"permission_grant_overly_broad", "public_browse_grant", "anonymous_write_grant",
               "admin_grant_to_logged_in"})
BY EachIs DEF GrantRules, Says, Severities

LEMMA BoardRuleIs ==
  ASSUME NEW A, NEW f \in BoardRules(A)
  PROVE  Says(f, {"boards"}, {"board_count_exceeds_projects"})
<1> DEFINE n == Cardinality(DOMAIN site.components)
           c == /\ n > 0
                /\ Has(A, "boards", "count")
                /\ A["boards"].count >= Limit["boardMin"]
                /\ A["boards"].count > Limit["boardRatio"] * n
<1>1. f \in When(c, Whole("boards", "board_count_exceeds_projects", "info"))
  BY DEF BoardRules
<1> HIDE DEF c
<1>2. QED
  BY <1>1, WhenWhole DEF Says, Severities

LEMMA ProjectRuleIs ==
  ASSUME NEW A, NEW f \in ProjectRules(A)
  PROVE  /\ Says(f, {"projects"}, {"empty_project", "inactive_project"})
         /\ f.kind = "empty_project" =>
              Evaluable(A, "projects")
                /\ \E p \in DOMAIN A["projects"].by_project : f.name = <<p>> /\ A["projects"].by_project[p].issues = 0
BY EachIs DEF ProjectRules, RowsOf, Says, Severities

LEMMA SharedRuleIs ==
  ASSUME NEW A, NEW f \in SharedRules(A)
  PROVE  Says(f, {"filters", "dashboards"},
              {"dashboard_filter_volume_high", "shared_object_owned_by_inactive", "public_shared_filter",
               "public_shared_dashboard"})
<1> DEFINE orphan(a) == \E it \in Items(A, a) : ~it.active
           public(a) == \E it \in Items(A, a) : it.public
           full(a) == Has(A, a, "capped") /\ A[a].capped
<1>1. \/ \E a \in {"filters", "dashboards"} :
           \/ f \in When(full(a), Whole(a, "dashboard_filter_volume_high", "info"))
           \/ f \in When(orphan(a), Whole(a, "shared_object_owned_by_inactive", "high"))
      \/ f \in When(public("filters"), Whole("filters", "public_shared_filter", "high"))
      \/ f \in When(public("dashboards"), Whole("dashboards", "public_shared_dashboard", "medium"))
  BY DEF SharedRules
<1> HIDE DEF orphan, public, full
<1>2. QED
  BY <1>1, WhenWhole DEF Says, Severities

LEMMA QualityRuleIs ==
  ASSUME NEW A, NEW f \in QualityRules(A)
  PROVE  Says(f, {"issue_quality"},
              {"done_but_unresolved", "resolved_but_open", "stale_open_issues", "unassigned_unresolved_high"})
BY WhenIs DEF QualityRules, Finding, Says, Severities

ArtifactAreas == {"custom_fields", "statuses", "workflows"} \cup SchemeAreas \cup TypeSchemeAreas
LEMMA ArtifactRuleIs ==
  ASSUME NEW A, NEW f \in ArtifactRules(A)
  PROVE  Says(f, ArtifactAreas, {"migration_artifact"})
<1>1. PICK a \in ArtifactAreas : f \in Each(a, Twins(Names(A, a)), "migration_artifact", "medium")
  BY DEF ArtifactRules, ArtifactAreas
<1>2. QED
  BY <1>1, EachIs DEF Says, Severities

LEMMA GuardrailRuleIs ==
  ASSUME NEW A, NEW f \in GuardrailRules(A)
  PROVE  Says(f, {"priorities", "workflows", "issue_types"},
              {"near_priority_limit", "near_workflow_limit", "near_issue_type_limit"})
BY WhenWhole, AboveIs DEF GuardrailRules, Says, Severities

LEMMA MigrationRuleIs ==
  ASSUME NEW A, NEW f \in MigrationRules(A)
  PROVE  Says(f, {"custom_fields", "plugins"},
              {"unsupported_custom_field_type", "apps_to_assess_for_cloud", "script_app_present"})
BY WhenWhole DEF MigrationRules, Says, Severities

\* Which rule a finding comes from.
JiraPart(f, A) ==
  \/ f \in FieldRules(A) \/ f \in ScreenRules(A) \/ f \in WorkflowRules(A) \/ f \in StatusRules(A)
  \/ f \in SchemeRules(A) \/ f \in OptionRules(A) \/ f \in CatalogueRules(A) \/ f \in SizeRules(A)
  \/ f \in GraphRules(A) \/ f \in ReferenceRules(A) \/ f \in TypeSchemeRules(A) \/ f \in GroupRules(A)
  \/ f \in VersionRules(A) \/ f \in ComponentRules(A) \/ f \in GrantRules(A) \/ f \in BoardRules(A)
  \/ f \in ProjectRules(A) \/ f \in SharedRules(A) \/ f \in QualityRules(A) \/ f \in ArtifactRules(A)
  \/ f \in GuardrailRules(A) \/ f \in MigrationRules(A)
LEMMA JiraParts ==
  ASSUME NEW A, NEW f
  PROVE  f \in JiraRules(A) <=> JiraPart(f, A)
BY DEF JiraRules, JiraPart

LEMMA SpaceRuleIs ==
  ASSUME NEW A, NEW f \in SpaceRules(A)
  PROVE  /\ Says(f, {"spaces"}, {"empty_space", "large_space", "space_no_homepage", "orphaned_pages",
                                 "archived_space_clutter", "personal_space_sprawl", "space_count_near_guardrail"})
         /\ f.kind = "empty_space" =>
              /\ Evaluable(A, "spaces") /\ f.name \in DOMAIN A["spaces"].by_space
              /\ A["spaces"].by_space[f.name].current /\ A["spaces"].by_space[f.name].pages = 0
<1> DEFINE by == IF Evaluable(A, "spaces") THEN A["spaces"].by_space ELSE <<>>
           current == {k \in DOMAIN by : by[k].current}
           empty == {k \in current : by[k].pages = 0}
           large == {k \in current : by[k].pages > Limit["largeSpace"]}
           homeless == {k \in current : ~by[k].home}
           stray == {k \in current : by[k].orphans > Limit["orphans"]}
           mostly == {k \in stray : by[k].pages > 0 /\ 2 * by[k].orphans > by[k].pages}
           partly == stray \ mostly
           over(part, bound) == Evaluable(A, "spaces") /\ A["spaces"][part] > Limit[bound]
           near == over("count", "spaceWarn") /\ ~over("count", "spaceCrit")
<1>1. \/ f \in Each("spaces", empty, "empty_space", "low")
      \/ f \in Each("spaces", large, "large_space", "medium")
      \/ f \in Each("spaces", homeless, "space_no_homepage", "medium")
      \/ f \in Each("spaces", mostly, "orphaned_pages", "high")
      \/ f \in Each("spaces", partly, "orphaned_pages", "medium")
      \/ f \in When(over("archived", "archived"), Whole("spaces", "archived_space_clutter", "low"))
      \/ f \in When(over("personal", "personal"), Whole("spaces", "personal_space_sprawl", "low"))
      \/ f \in When(over("count", "spaceCrit"), Whole("spaces", "space_count_near_guardrail", "high"))
      \/ f \in When(near, Whole("spaces", "space_count_near_guardrail", "medium"))
  BY DEF SpaceRules
<1>2. \A k \in empty : /\ Evaluable(A, "spaces") /\ k \in DOMAIN A["spaces"].by_space
                      /\ A["spaces"].by_space[k].current /\ A["spaces"].by_space[k].pages = 0
  OBVIOUS
<1> HIDE DEF empty, large, homeless, mostly, partly, over, near
<1>3. QED
  BY <1>1, <1>2, EachIs, WhenWhole DEF Says, Severities

LEMMA GapIs ==
  ASSUME NEW c, NEW a, NEW r, NEW f \in When(c, Gap(a, r))
  PROVE  f.area = a /\ f.kind = "capability_gap" /\ f.sev = "info"
BY WhenIs DEF Gap, Finding

LEMMA PermissionRuleIs ==
  ASSUME NEW A, NEW f \in PermissionRules(A)
  PROVE  Says(f, {"space_permissions"},
              {"permission_grant_to_empty_group", "space_no_admin", "anonymous_space_access",
               "anonymous_write_grant", "space_permission_to_anyone", "capability_gap"})
<1> DEFINE by == IF Evaluable(A, "space_permissions") THEN A["space_permissions"].by_space ELSE <<>>
           members == IF Evaluable(A, "groups") THEN A["groups"].members ELSE <<>>
           a == "space_permissions"
           joinable == {k \in DOMAIN by : \E g \in by[k].grants \cap DOMAIN members : members[g] = 0}
           ownerless == {k \in DOMAIN by : ~by[k].admin}
           public == {k \in DOMAIN by : by[k].anonymous = "yes"}
           writable == {k \in public : by[k].ops \cap WriteOps # {}}
           broad == {k \in DOMAIN by : "broad" \in by[k].types}
           untold == DOMAIN by # {} /\ \A k \in DOMAIN by : by[k].anonymous = "unknown"
           nameless == \E k \in DOMAIN by : by[k].hidden
           uncounted == \E k \in DOMAIN by : by[k].grants \ DOMAIN members # {}
<1>1. \/ f \in Each(a, joinable, "permission_grant_to_empty_group", "medium")
      \/ f \in Each(a, ownerless, "space_no_admin", "high")
      \/ f \in Each(a, public, "anonymous_space_access", "high")
      \/ f \in Each(a, writable, "anonymous_write_grant", "high")
      \/ f \in Each(a, broad, "space_permission_to_anyone", "medium")
      \/ f \in When(untold, Gap(a, "anonymous"))
      \/ f \in When(nameless, Gap(a, "names"))
      \/ f \in When(uncounted, Gap(a, "members"))
  BY DEF PermissionRules
<1> HIDE DEF joinable, ownerless, public, writable, broad, untold, nameless, uncounted
<1>2. QED
  BY <1>1, EachIs, GapIs DEF Says, Severities

LEMMA SamplingRuleIs ==
  ASSUME NEW A, NEW f \in SamplingRules(A)
  PROVE  Says(f, {"spaces", "space_permissions", "page_restrictions"}, {"capability_gap"})
BY DEF SamplingRules, Gap, Finding, Says, Severities

LEMMA RestrictionRuleIs ==
  ASSUME NEW A, NEW f \in RestrictionRules(A)
  PROVE  Says(f, {"page_restrictions"}, {"restricted_pages", "capability_gap"})
BY EachIs, GapIs DEF RestrictionRules, Says, Severities

LEMMA ContentRuleIs ==
  ASSUME NEW A, NEW f \in ContentRules(A)
  PROVE  Says(f, {"content_quality"}, {"stale_page_ratio_high", "drafts_pileup"})
<1> DEFINE q == CountsOf(A, "content_quality")
           stale == q["stale_pages"] # Unread /\ q["pages_total"] > 0 /\ 2 * q["stale_pages"] > q["pages_total"]
           drafts == q["drafts"] > Limit["drafts"]
<1>1. \/ f \in When(stale, Whole("content_quality", "stale_page_ratio_high", "medium"))
      \/ f \in When(drafts, Whole("content_quality", "drafts_pileup", "low"))
  BY DEF ContentRules
<1> HIDE DEF stale, drafts
<1>2. QED
  BY <1>1, WhenWhole DEF Says, Severities

LEMMA MacroRuleIs ==
  ASSUME NEW A, NEW f \in MacroRules(A)
  PROVE  Says(f, {"macros"}, {"cross_space_include_risk", "unsupported_macro_usage"})
BY EachIs DEF MacroRules, Says, Severities

LEMMA LibraryRuleIs ==
  ASSUME NEW A, NEW f \in LibraryRules(A)
  PROVE  /\ Says(f, {"labels", "templates", "groups"}, {"label_sprawl", "template_sprawl", "confluence_empty_group"})
         /\ f.kind = "confluence_empty_group" =>
              Evaluable(A, "groups") /\ f.name \in DOMAIN A["groups"].members /\ A["groups"].members[f.name] = 0
BY EachIs, AboveIs DEF LibraryRules, Says, Severities

WikiPart(f, A) ==
  \/ f \in SpaceRules(A) \/ f \in PermissionRules(A) \/ f \in SamplingRules(A) \/ f \in RestrictionRules(A)
  \/ f \in ContentRules(A) \/ f \in MacroRules(A) \/ f \in LibraryRules(A)
LEMMA WikiParts ==
  ASSUME NEW A, NEW f
  PROVE  f \in ConfluenceRules(A) <=> WikiPart(f, A)
BY DEF ConfluenceRules, WikiPart

LEMMA JiraKindIs ==
  ASSUME NEW A, NEW f \in JiraRules(A)
  PROVE  f.sev \in Severities /\ f.kind \in JiraKinds \cup {"capability_gap"}
<1>1. JiraPart(f, A)
  BY JiraParts
<1>2. CASE \/ f \in FieldRules(A) \/ f \in ScreenRules(A) \/ f \in WorkflowRules(A) \/ f \in StatusRules(A)
           \/ f \in SchemeRules(A) \/ f \in OptionRules(A) \/ f \in CatalogueRules(A)
  BY <1>2, FieldRuleIs, ScreenRuleIs, WorkflowRuleIs, StatusRuleIs, SchemeRuleIs, OptionRuleIs, CatalogueRuleIs
     DEF Says, JiraKinds
<1>3. CASE \/ f \in SizeRules(A) \/ f \in GraphRules(A) \/ f \in ReferenceRules(A) \/ f \in TypeSchemeRules(A)
           \/ f \in GroupRules(A) \/ f \in VersionRules(A) \/ f \in ComponentRules(A)
  BY <1>3, SizeRuleIs, GraphRuleIs, ReferenceRuleIs, TypeSchemeRuleIs, GroupRuleIs, VersionRuleIs, ComponentRuleIs
     DEF Says, JiraKinds
<1>4. CASE \/ f \in GrantRules(A) \/ f \in BoardRules(A) \/ f \in ProjectRules(A) \/ f \in SharedRules(A)
           \/ f \in QualityRules(A) \/ f \in ArtifactRules(A) \/ f \in GuardrailRules(A) \/ f \in MigrationRules(A)
  BY <1>4, GrantRuleIs, BoardRuleIs, ProjectRuleIs, SharedRuleIs, QualityRuleIs, ArtifactRuleIs, GuardrailRuleIs,
     MigrationRuleIs DEF Says, JiraKinds
<1>5. QED
  BY <1>1, <1>2, <1>3, <1>4 DEF JiraPart

LEMMA WikiKindIs ==
  ASSUME NEW A, NEW f \in ConfluenceRules(A)
  PROVE  f.sev \in Severities /\ f.kind \in JiraKinds \cup WikiKinds \cup {"capability_gap"}
<1>1. WikiPart(f, A)
  BY WikiParts
<1>2. QED
  BY <1>1, SpaceRuleIs, PermissionRuleIs, SamplingRuleIs, RestrictionRuleIs, ContentRuleIs, MacroRuleIs, LibraryRuleIs
     DEF WikiPart, Says, JiraKinds, WikiKinds

\* The snapshots, and the findings once the rules have run.
LEMMA Judgement ==
  ASSUME AuditInv
  PROVE  /\ DOMAIN areas = DOMAIN ideal /\ \A a \in DOMAIN areas : AreaOK(a, areas[a], ideal[a])
         /\ findings # {} => pc \in {"analysis", "done"}
         /\ pc \in {"analysis", "done"} =>
              /\ findings = Coverage(areas) \cup Rules(areas)
              /\ \/ site.product = "jira" /\ JiraSnap(areas, ideal, 16)
                 \/ site.product = "confluence" /\ WikiSnap(areas, ideal, 8)
<1>1. DOMAIN areas = DOMAIN ideal /\ \A a \in DOMAIN areas : AreaOK(a, areas[a], ideal[a])
  BY DEF AuditInv, SnapOK, JiraSnap, WikiSnap
<1>2. QED
  BY <1>1, StageIs DEF AuditInv, SnapOK, Late

\* The areas of a finding are those of the product.
LEMMA JiraAreaIs ==
  ASSUME NEW A, NEW f \in JiraRules(A)
  PROVE  f.area \in JiraAreas(16)
<1> DEFINE M == ListAreas \cup {"custom_fields", "workflows", "permission_scheme_grants", "groups", "components",
                                "versions", "custom_field_options", "boards", "projects", "filters",
                                "dashboards", "issue_quality", "plugins"}
<1>1. M = JiraAreas(16)
  BY DEF JiraAreas, Upon
<1>2. JiraPart(f, A)
  BY JiraParts
<1> USE DEF Says, ListAreas, CloudOnly
<1>3. CASE \/ f \in FieldRules(A) \/ f \in ScreenRules(A) \/ f \in WorkflowRules(A) \/ f \in StatusRules(A)
           \/ f \in SchemeRules(A) \/ f \in OptionRules(A) \/ f \in CatalogueRules(A)
  BY <1>1, <1>3, FieldRuleIs, ScreenRuleIs, WorkflowRuleIs, StatusRuleIs, SchemeRuleIs, OptionRuleIs, CatalogueRuleIs
     DEF SchemeAreas, CatalogueAreas
<1>4. CASE \/ f \in SizeRules(A) \/ f \in GraphRules(A) \/ f \in ReferenceRules(A) \/ f \in TypeSchemeRules(A)
           \/ f \in GroupRules(A) \/ f \in VersionRules(A) \/ f \in ComponentRules(A)
  BY <1>1, <1>4, SizeRuleIs, GraphRuleIs, ReferenceRuleIs, TypeSchemeRuleIs, GroupRuleIs, VersionRuleIs,
     ComponentRuleIs DEF TypeSchemeAreas
<1>5. CASE \/ f \in GrantRules(A) \/ f \in BoardRules(A) \/ f \in ProjectRules(A) \/ f \in SharedRules(A)
           \/ f \in QualityRules(A) \/ f \in ArtifactRules(A) \/ f \in GuardrailRules(A) \/ f \in MigrationRules(A)
  BY <1>1, <1>5, GrantRuleIs, BoardRuleIs, ProjectRuleIs, SharedRuleIs, QualityRuleIs, ArtifactRuleIs,
     GuardrailRuleIs, MigrationRuleIs DEF ArtifactAreas, SchemeAreas, TypeSchemeAreas
<1>6. QED
  BY <1>2, <1>3, <1>4, <1>5 DEF JiraPart

LEMMA WikiAreaIs ==
  ASSUME NEW A, NEW f \in ConfluenceRules(A)
  PROVE  f.area \in WikiAreas(8)
<1>1. WikiPart(f, A)
  BY WikiParts
<1>2. QED
  BY <1>1, SpaceRuleIs, PermissionRuleIs, SamplingRuleIs, RestrictionRuleIs, ContentRuleIs, MacroRuleIs, LibraryRuleIs
     DEF WikiPart, Says, WikiAreas, Upon

\* TypeOK: both snapshots are of the same areas, every area is marked as read, skipped or in
\* error, and every finding is about one of these areas, of a kind that has an entry in the
\* registry of fixes and of a severity the verdict counts.
THEOREM TypeCorrect == Spec => []TypeOK
<1>1. AuditInv => TypeOK
  <2> SUFFICES ASSUME AuditInv PROVE TypeOK
    OBVIOUS
  <2>1. site \in Sites /\ faults \in 0..MaxFaults /\ verdict \in Verdicts
    BY DEF AuditInv
  <2>2. /\ DOMAIN areas = DOMAIN ideal
        /\ \A a \in DOMAIN areas : areas[a].skipped \in BOOLEAN /\ areas[a].error \in BOOLEAN
    BY Judgement DEF AreaOK, Flagged
  <2>3. ASSUME NEW f \in findings
        PROVE  f.sev \in Severities /\ f.kind \in DOMAIN Fixes /\ f.area \in DOMAIN areas
    <3>1. f \in Coverage(areas) \/ f \in Rules(areas)
      BY Judgement
    <3>2. \/ site.product = "jira" /\ DOMAIN areas = JiraAreas(16)
          \/ site.product = "confluence" /\ DOMAIN areas = WikiAreas(8)
      BY Judgement DEF JiraSnap, WikiSnap
    <3>3. f \in Rules(areas) => f.area \in DOMAIN areas
      BY <3>2, JiraAreaIs, WikiAreaIs DEF Rules
    <3>4. QED
      BY <3>1, <3>3, CoverageIs, JiraKindIs, WikiKindIs, RegistryIs DEF Rules, Says
  <2>4. QED
    BY <2>1, <2>2, <2>3 DEF TypeOK, Verdicts, Severities
<1>2. QED
  BY <1>1, AuditCorrect, PTL

-----------------------------------------------------------------------------
(* What the app may delete.                                                   *)

\* The facts about a finished snapshot of a Jira instance.
JiraDone(A, I) ==
  /\ \A a \in ListAreas \cup {"workflows", "projects", "groups"} :
       AreaOK(a, A[a], I[a]) /\ (Judged(I[a]) => JiraTrue(a, I[a]))
  /\ NamesTrue(I) /\ UsedTrue(A) /\ (Judged(A["groups"]) => MembersTrue(A["groups"]))
LEMMA JiraDoneIs ==
  ASSUME NEW A, NEW I, JiraSnap(A, I, 16)
  PROVE  JiraDone(A, I)
<1>1. ListAreas \cup {"workflows", "projects", "groups"} \subseteq JiraAreas(16)
  BY DEF JiraAreas, Upon
<1>2. QED
  BY <1>1 DEF JiraSnap, JiraDone

\* An area that was read, and not in part, is as when no read fails.
LEMMA WholeArea ==
  ASSUME NEW a, NEW r, NEW i, AreaOK(a, r, i), Judged(r), ~Short(a, r, i)
  PROVE  r = i /\ Judged(i)
BY DEF AreaOK, Judged

LEMMA UnusedIsUnused ==
  ASSUME NEW A, NEW I, JiraDone(A, I), NEW a \in Schemes, NEW n \in Unused(A, a)
  PROVE  site.using[a][n] = {}
<1>1. Judged(A[a]) /\ "projects_using" \in DOMAIN A[a] /\ n \in ToSet(A[a].names)
      /\ (n \notin DOMAIN A[a].projects_using \/ A[a].projects_using[n] = {})
  BY DEF Unused, Has, Evaluable, Judged
<1>2. AreaOK(a, A[a], I[a]) /\ (Judged(I[a]) => JiraTrue(a, I[a]))
  BY AreaSets DEF JiraDone, Schemes
<1>3. A[a] = I[a] \/ SameBut(A[a], I[a], "used")
  BY <1>1, <1>2, AreaSets DEF AreaOK, Judged, Short, Schemes
<1>4. /\ I[a].projects_using = A[a].projects_using /\ "projects_using" \in DOMAIN I[a]
      /\ I[a].skipped = A[a].skipped /\ I[a].error = A[a].error
  BY <1>1, <1>2, <1>3 DEF SameBut, AreaOK, Flagged
<1>5. Judged(I[a]) /\ SchemeTrue(a, I[a])
  BY <1>1, <1>2, <1>4 DEF Judged, JiraTrue
<1>6. I[a].names = A[a].names
  <2>1. "names" \in DOMAIN I[a]
    BY <1>5 DEF JiraDone, NamesTrue, Judged
  <2>2. QED
    BY <1>3, <2>1 DEF SameBut
<1>7. QED
  BY <1>1, <1>4, <1>5, <1>6 DEF SchemeTrue

\* The screens say what is on them when they were all read in full.
LEMMA FieldUnused ==
  ASSUME NEW A, NEW I, JiraDone(A, I), site \in Sites, site.product = "jira", Has(A, "screens", "fields"),
         A["screens"] = I["screens"], Len(site.lists["screens"]) <= ScreenCap
  PROVE  A["screens"].fields = [s \in ToSet(site.lists["screens"]) |-> OnTabs(s)]
<1>1. Judged(A["screens"]) /\ "fields" \in DOMAIN A["screens"]
  BY DEF Has, Evaluable, Judged
<1>2. FieldsTrue(I["screens"])
  BY <1>1, AreaSets DEF JiraDone, JiraTrue
<1>3. Deep = ToSet(site.lists["screens"])
  <2>1. site.lists["screens"] \in Seq(ToSet(site.lists["screens"]))
    BY JiraIs, AreaSets DEF JiraSite
  <2>2. ScreenCap \in Nat /\ ~(Len(site.lists["screens"]) > ScreenCap)
    BY <2>1, CapsAssumption
  <2>3. QED
    BY <2>1, <2>2, FirstIs DEF Deep
<1>4. QED
  BY <1>1, <1>2, <1>3 DEF FieldsTrue

\* Whatever one workflow says of its statuses, a status none has is in none.
LEMMA StatusUnused ==
  ASSUME NEW A, NEW I, JiraDone(A, I), ~TwinWorkflows, DOMAIN DetailOf(A) # {}, NEW n,
         \A w \in DOMAIN DetailOf(A) : n \notin Statuses(A, w), NEW j \in DOMAIN site.workflows
  PROVE  n \notin ToSet(site.workflows[j].statuses)
<1>1. Has(A, "workflows", "detail") /\ DetailOf(A) = A["workflows"].detail
  BY DEF DetailOf
<1>2. Judged(A["workflows"]) /\ AreaOK("workflows", A["workflows"], I["workflows"])
      /\ (Judged(I["workflows"]) => JiraTrue("workflows", I["workflows"]))
  BY <1>1 DEF Has, Evaluable, Judged, JiraDone
<1>3. ~Short("workflows", A["workflows"], I["workflows"])
  BY DEF Short, Schemes, SchemeAreas, TypeSchemeAreas, ProbedAreas
<1>4. DetailTrue(A["workflows"])
  BY <1>2, <1>3, WholeArea DEF JiraTrue
<1>5. /\ site.workflows[j].name \in DOMAIN A["workflows"].detail
      /\ A["workflows"].detail[site.workflows[j].name].statuses = site.workflows[j].statuses
  BY <1>1, <1>4 DEF DetailTrue, Has
<1>6. QED
  BY <1>1, <1>5 DEF Statuses

LEMMA ProjectEmpty ==
  ASSUME NEW A, NEW I, JiraDone(A, I), Evaluable(A, "projects"), NEW p \in DOMAIN A["projects"].by_project,
         A["projects"].by_project[p].issues = 0
  PROVE  site.projects[p].issues = 0
<1>1. Judged(A["projects"]) /\ AreaOK("projects", A["projects"], I["projects"])
      /\ (Judged(I["projects"]) => JiraTrue("projects", I["projects"]))
  BY DEF Evaluable, Judged, JiraDone
<1>2. ~Short("projects", A["projects"], I["projects"])
  BY DEF Short, Schemes, SchemeAreas, TypeSchemeAreas, ProbedAreas
<1>3. QED
  BY <1>1, <1>2, WholeArea DEF JiraTrue

\* A finding of a kind the app disposes of comes from the rule of that kind.
LEMMA JiraDisposes ==
  ASSUME NEW A, NEW f \in JiraRules(A), f.kind \in Disposing
  PROVE  \/ f.kind = "unused_custom_field" /\ f \in FieldRules(A)
         \/ f.kind = "empty_screen" /\ f \in ScreenRules(A)
         \/ f.kind = "status_not_in_workflow" /\ f \in StatusRules(A)
         \/ f.kind = "scheme_unused" /\ f \in SchemeRules(A)
         \/ f.kind \in {"workflow_unreferenced", "screen_not_in_scheme"} /\ f \in ReferenceRules(A)
         \/ f.kind \in {"unused_issue_type_scheme", "unused_issue_type_screen_scheme"} /\ f \in TypeSchemeRules(A)
         \/ f.kind = "empty_group" /\ f \in GroupRules(A)
         \/ f.kind = "empty_project" /\ f \in ProjectRules(A)
<1>1. JiraPart(f, A)
  BY JiraParts
<1>2. CASE \/ f \in FieldRules(A) \/ f \in ScreenRules(A) \/ f \in WorkflowRules(A) \/ f \in StatusRules(A)
           \/ f \in SchemeRules(A) \/ f \in OptionRules(A) \/ f \in CatalogueRules(A)
  BY <1>2, FieldRuleIs, ScreenRuleIs, WorkflowRuleIs, StatusRuleIs, SchemeRuleIs, OptionRuleIs, CatalogueRuleIs
     DEF Says, Disposing
<1>3. CASE \/ f \in SizeRules(A) \/ f \in GraphRules(A) \/ f \in ReferenceRules(A) \/ f \in TypeSchemeRules(A)
           \/ f \in GroupRules(A) \/ f \in VersionRules(A) \/ f \in ComponentRules(A)
  BY <1>3, SizeRuleIs, GraphRuleIs, ReferenceRuleIs, TypeSchemeRuleIs, GroupRuleIs, VersionRuleIs, ComponentRuleIs
     DEF Says, Disposing
<1>4. CASE \/ f \in GrantRules(A) \/ f \in BoardRules(A) \/ f \in ProjectRules(A) \/ f \in SharedRules(A)
           \/ f \in QualityRules(A) \/ f \in ArtifactRules(A) \/ f \in GuardrailRules(A) \/ f \in MigrationRules(A)
  BY <1>4, GrantRuleIs, BoardRuleIs, ProjectRuleIs, SharedRuleIs, QualityRuleIs, ArtifactRuleIs, GuardrailRuleIs,
     MigrationRuleIs DEF Says, Disposing
<1>5. QED
  BY <1>1, <1>2, <1>3, <1>4 DEF JiraPart

LEMMA WikiDisposes ==
  ASSUME NEW A, NEW f \in ConfluenceRules(A), f.kind \in Disposing
  PROVE  \/ f.kind = "empty_space" /\ f \in SpaceRules(A)
         \/ f.kind = "confluence_empty_group" /\ f \in LibraryRules(A)
<1>1. WikiPart(f, A)
  BY WikiParts
<1>2. QED
  BY <1>1, SpaceRuleIs, PermissionRuleIs, SamplingRuleIs, RestrictionRuleIs, ContentRuleIs, MacroRuleIs, LibraryRuleIs
     DEF WikiPart, Says, Disposing

\* What the properties say of a finding.
Weak(f) ==
  \/ f.kind \in {"unused_custom_field", "empty_screen"} /\ ~ScreensRead
  \/ f.kind = "status_not_in_workflow" /\ TwinWorkflows

LEMMA JiraNeverAccuses ==
  ASSUME site \in Sites, site.product = "jira", JiraSnap(areas, ideal, 16),
         NEW f \in JiraRules(areas), f.kind \in Disposing
  PROVE  Disposable(f) \/ Weak(f)
<1>1. JiraDone(areas, ideal)
  BY JiraDoneIs
<1>2. CASE f.kind = "unused_custom_field" /\ f \in FieldRules(areas)
  <2>1. /\ Has(areas, "screens", "fields")
        /\ \A s \in DOMAIN areas["screens"].fields : f.name \notin areas["screens"].fields[s]
    BY <1>2, FieldRuleIs
  <2>2. CASE ScreensRead
    <3>1. areas["screens"].fields = [s \in ToSet(site.lists["screens"]) |-> OnTabs(s)]
      BY <1>1, <2>1, <2>2, FieldUnused DEF ScreensRead
    <3>2. \A s \in ToSet(site.lists["screens"]) : f.name \notin OnTabs(s)
      BY <2>1, <3>1
    <3>3. QED
      BY <1>2, <3>2 DEF Disposable
  <2>3. QED
    BY <1>2, <2>2 DEF Weak
<1>3. CASE f.kind = "empty_screen" /\ f \in ScreenRules(areas)
  <2>1. /\ Has(areas, "screens", "fields")
        /\ f.name \in DOMAIN areas["screens"].fields /\ areas["screens"].fields[f.name] = {}
    BY <1>3, ScreenRuleIs
  <2>2. CASE ScreensRead
    <3>1. areas["screens"].fields = [s \in ToSet(site.lists["screens"]) |-> OnTabs(s)]
      BY <1>1, <2>1, <2>2, FieldUnused DEF ScreensRead
    <3>2. OnTabs(f.name) = {}
      BY <2>1, <3>1
    <3>3. QED
      BY <1>3, <3>2 DEF Disposable
  <2>3. QED
    BY <1>3, <2>2 DEF Weak
<1>4. CASE f.kind = "status_not_in_workflow" /\ f \in StatusRules(areas)
  <2>1. DOMAIN DetailOf(areas) # {} /\ \A w \in DOMAIN DetailOf(areas) : f.name \notin Statuses(areas, w)
    BY <1>4, StatusRuleIs
  <2>2. CASE ~TwinWorkflows
    <3>1. \A j \in DOMAIN site.workflows : f.name \notin ToSet(site.workflows[j].statuses)
      BY <1>1, <2>1, <2>2, StatusUnused
    <3>2. QED
      BY <1>4, <3>1 DEF Disposable
  <2>3. QED
    BY <1>4, <2>2 DEF Weak
<1>5. CASE f.kind = "scheme_unused" /\ f \in SchemeRules(areas)
  <2>1. f.area \in Schemes /\ f.name \in Unused(areas, f.area)
    BY <1>5, SchemeRuleIs DEF Says, Schemes
  <2>2. site.using[f.area][f.name] = {}
    BY <1>1, <2>1, UnusedIsUnused
  <2>3. QED
    BY <1>5, <2>2 DEF Disposable
<1>6. CASE f.kind \in {"unused_issue_type_scheme", "unused_issue_type_screen_scheme"} /\ f \in TypeSchemeRules(areas)
  <2>1. f.area \in Schemes /\ f.name \in Unused(areas, f.area)
    BY <1>6, TypeSchemeRuleIs DEF Says, Schemes
  <2>2. site.using[f.area][f.name] = {}
    BY <1>1, <2>1, UnusedIsUnused
  <2>3. QED
    BY <1>6, <2>2 DEF Disposable
<1>7. CASE f.kind = "workflow_unreferenced" /\ f \in ReferenceRules(areas)
  <2>1. Has(areas, "workflow_schemes", "used") /\ f.name \notin areas["workflow_schemes"].used
    BY <1>7, ReferenceRuleIs
  <2>2. areas["workflow_schemes"].used = site.wfUsed
    BY <1>1, <2>1 DEF Has, JiraDone, UsedTrue
  <2>3. QED
    BY <1>7, <2>1, <2>2 DEF Disposable
<1>8. CASE f.kind = "screen_not_in_scheme" /\ f \in ReferenceRules(areas)
  <2>1. /\ Has(areas, "screen_schemes", "used") /\ f.name \notin areas["screen_schemes"].used
        /\ f.name \in ToSet(Names(areas, "screens"))
    BY <1>8, ReferenceRuleIs
  <2>2. areas["screen_schemes"].used = site.screensUsed \cap ToSet(areas["screens"].names)
    BY <1>1, <2>1 DEF Has, JiraDone, UsedTrue
  <2>3. f.name \in ToSet(areas["screens"].names)
    BY <2>1 DEF Names, ToSet
  <2>4. f.name \notin site.screensUsed
    BY <2>1, <2>2, <2>3
  <2>5. QED
    BY <1>8, <2>4 DEF Disposable
<1>9. CASE f.kind = "empty_group" /\ f \in GroupRules(areas)
  <2>1. Evaluable(areas, "groups") /\ f.name \in DOMAIN areas["groups"].members /\ areas["groups"].members[f.name] = 0
    BY <1>9, GroupRuleIs
  <2>2. site.members[f.name] = 0
    BY <1>1, <2>1 DEF JiraDone, Judged, Evaluable, MembersTrue
  <2>3. QED
    BY <1>9, <2>2 DEF Disposable
<1>10. CASE f.kind = "empty_project" /\ f \in ProjectRules(areas)
  <2>1. /\ Evaluable(areas, "projects")
        /\ \E p \in DOMAIN areas["projects"].by_project : f.name = <<p>> /\ areas["projects"].by_project[p].issues = 0
    BY <1>10, ProjectRuleIs
  <2>2. PICK p \in DOMAIN areas["projects"].by_project : f.name = <<p>> /\ areas["projects"].by_project[p].issues = 0
    BY <2>1
  <2>3. site.projects[p].issues = 0
    BY <1>1, <2>1, <2>2, ProjectEmpty
  <2>4. f.name[1] = p
    BY <2>2
  <2>5. QED
    BY <1>10, <2>3, <2>4 DEF Disposable
<1>11. QED
  BY <1>2, <1>3, <1>4, <1>5, <1>6, <1>7, <1>8, <1>9, <1>10, JiraDisposes

LEMMA WikiNeverAccuses ==
  ASSUME WikiSnap(areas, ideal, 8), NEW f \in ConfluenceRules(areas), f.kind \in Disposing
  PROVE  Disposable(f)
<1>1. SpacesTrue(areas["spaces"]) /\ MembersTrue(areas["groups"])
  BY DEF WikiSnap
<1>2. CASE f.kind = "empty_space" /\ f \in SpaceRules(areas)
  <2>1. /\ f.name \in DOMAIN areas["spaces"].by_space
        /\ areas["spaces"].by_space[f.name].current /\ areas["spaces"].by_space[f.name].pages = 0
    BY <1>2, SpaceRuleIs
  <2>2. ASSUME NEW sp \in ToSet(site.spaces), sp.key = f.name PROVE sp.current /\ sp.pages = 0
    <3>1. areas["spaces"].by_space[f.name].current = sp.current
          /\ areas["spaces"].by_space[f.name].pages \in {Unread, sp.pages}
      BY <1>1, <2>1, <2>2 DEF SpacesTrue
    <3>2. QED
      BY <2>1, <3>1 DEF Unread
  <2>3. QED
    BY <1>2, <2>2 DEF Disposable
<1>3. CASE f.kind = "confluence_empty_group" /\ f \in LibraryRules(areas)
  <2>1. f.name \in DOMAIN areas["groups"].members /\ areas["groups"].members[f.name] = 0
    BY <1>3, LibraryRuleIs
  <2>2. site.members[f.name] = 0
    BY <1>1, <2>1 DEF MembersTrue
  <2>3. QED
    BY <1>3, <2>2 DEF Disposable
<1>4. QED
  BY <1>2, <1>3, WikiDisposes

\* NeverAccusesUsed: whatever reads fail, an object the app may delete is one nothing uses,
\* but for the two kinds of evidence that are weaker than the rules assume.
THEOREM NeverAccusesUsedHolds == Spec => []NeverAccusesUsed
<1>1. AuditInv => NeverAccusesUsed
  <2> SUFFICES ASSUME AuditInv, NEW f \in findings, f.kind \in AppKinds
               PROVE  Disposable(f) \/ Weak(f)
    BY DEF NeverAccusesUsed, Weak
  <2>1. f.kind \in Disposing
    BY RegistryIs
  <2>2. /\ f \in Coverage(areas) \/ f \in Rules(areas)
        /\ \/ site.product = "jira" /\ JiraSnap(areas, ideal, 16)
           \/ site.product = "confluence" /\ WikiSnap(areas, ideal, 8)
    BY Judgement
  <2>3. f \notin Coverage(areas)
    BY <2>1, CoverageIs DEF Says, Disposing
  <2>4. site \in Sites
    BY DEF AuditInv
  <2>5. QED
    BY <2>1, <2>2, <2>3, <2>4, JiraNeverAccuses, WikiNeverAccuses DEF Rules
<1>2. QED
  BY <1>1, AuditCorrect, PTL

-----------------------------------------------------------------------------
(* The same record gives the same findings. In each lemma A is the snapshot   *)
(* taken and I the one taken when no read fails.                              *)

LEMMA NamesKept ==
  ASSUME NEW A, NEW I, NEW a, A[a] = I[a]
  PROVE  /\ Names(A, a) = Names(I, a) /\ (Evaluable(A, a) <=> Evaluable(I, a))
         /\ \A p : Has(A, a, p) <=> Has(I, a, p)
         /\ \A b : Over(A, a, b) <=> Over(I, a, b)
         /\ RowsOf(A, a) = RowsOf(I, a) /\ Items(A, a) = Items(I, a) /\ CountsOf(A, a) = CountsOf(I, a)
BY DEF Names, Evaluable, Has, Over, RowsOf, Items, CountsOf

LEMMA AboveKept ==
  ASSUME NEW A, NEW I, NEW a, NEW k, NEW v, NEW b, NEW f \in Above(I, a, k, v, b), A[f.area] = I[f.area]
  PROVE  f \in Above(A, a, k, v, b)
<1>1. f.area = a
  BY AboveIs
<1>2. Over(A, a, b) <=> Over(I, a, b)
  BY <1>1, NamesKept
<1>3. QED
  BY <1>2 DEF Above, When

LEMMA DetailKept ==
  ASSUME NEW A, NEW I, A["workflows"] = I["workflows"]
  PROVE  DetailOf(A) = DetailOf(I) /\ \A w : Statuses(A, w) = Statuses(I, w)
<1>1. Has(A, "workflows", "detail") <=> Has(I, "workflows", "detail")
  BY NamesKept
<1>2. DetailOf(A) = DetailOf(I)
  BY <1>1 DEF DetailOf
<1>3. QED
  BY <1>2 DEF Statuses

LEMMA WorkflowKept ==
  ASSUME NEW A, NEW I, A["workflows"] = I["workflows"]
  PROVE  WorkflowRules(A) = WorkflowRules(I)
<1>1. /\ DetailOf(A) = DetailOf(I) /\ \A w : Statuses(A, w) = Statuses(I, w)
      /\ Names(A, "workflows") = Names(I, "workflows") /\ (Evaluable(A, "workflows") <=> Evaluable(I, "workflows"))
  BY DetailKept, NamesKept
<1>2. QED
  BY <1>1 DEF WorkflowRules

LEMMA OptionKept ==
  ASSUME NEW A, NEW I, A["custom_field_options"] = I["custom_field_options"]
  PROVE  OptionRules(A) = OptionRules(I)
BY DEF OptionRules, Evaluable

LEMMA EachKept ==
  ASSUME NEW a, NEW N, NEW M, NEW k, NEW v, NEW f \in Each(a, N, k, v), f.area = a => N \subseteq M
  PROVE  f \in Each(a, M, k, v)
BY EachIs DEF Each

LEMMA CatalogueKept ==
  ASSUME NEW A, NEW I, NEW f \in CatalogueRules(I), A[f.area] = I[f.area]
  PROVE  f \in CatalogueRules(A)
<1> DEFINE names(X, a) == ToSet(Names(X, a))
           own(X) == {n \in names(X, "resolutions") : Norm(n) \notin {<<d, "plain">> : d \in Defaults}}
           many(X) == IF Over(X, "priorities", "defaultPriorities") THEN Later(Names(X, "priorities")) ELSE {}
           same(X) == Later(Names(X, "issue_types"))
           Is(X) == \/ f \in Above(X, "permission_schemes", "permission_scheme_sprawl", "low", "permScheme")
                    \/ f \in Above(X, "resolutions", "resolution_sprawl", "low", "resolution")
                    \/ f \in Above(X, "priorities", "priority_sprawl", "low", "priority")
                    \/ f \in Above(X, "issue_types", "issue_type_sprawl", "low", "issueType")
                    \/ f \in Above(X, "link_types", "link_type_sprawl", "low", "linkType")
                    \/ f \in Each("issue_types", same(X), "duplicate_issue_type_name", "medium")
                    \/ f \in Each("resolutions", own(X), "unused_resolution", "low")
                    \/ f \in Each("priorities", many(X), "redundant_priority_set", "low")
<1>1. \A X : f \in CatalogueRules(X) <=> Is(X)
  BY DEF CatalogueRules, Each
<1>2. /\ A["issue_types"] = I["issue_types"] => same(A) = same(I)
      /\ A["resolutions"] = I["resolutions"] => own(A) = own(I)
      /\ A["priorities"] = I["priorities"] => many(A) = many(I)
  BY NamesKept
<1> HIDE DEF same, own, many
<1>3. Is(I)
  BY <1>1
<1>4. Is(A)
  BY <1>2, <1>3, AboveKept, EachIs
<1>5. QED
  BY <1>1, <1>4

LEMMA SizeKept ==
  ASSUME NEW A, NEW I, A["workflows"] = I["workflows"]
  PROVE  SizeRules(A) = SizeRules(I)
BY DetailKept DEF SizeRules

LEMMA GraphKept ==
  ASSUME NEW A, NEW I, A["workflows"] = I["workflows"]
  PROVE  GraphRules(A) = GraphRules(I)
<1> DEFINE edges(X, w) == ToSet(DetailOf(X)[w].edges)
           unreachable(X, w) == Statuses(X, w) \ ({e.to : e \in edges(X, w)} \cup {DetailOf(X)[w].initial})
           deadEnds(X, w) == IF \E e \in edges(X, w) : e.global THEN {}
                             ELSE {s \in Statuses(X, w) : s[1] \notin TerminalNames}
                                    \ UNION {e.from : e \in edges(X, w)}
           lost(X, w) == {w \o s : s \in unreachable(X, w)}
           dead(X, w) == {w \o s : s \in deadEnds(X, w)}
           many(X) == {w \in DOMAIN DetailOf(X) : Len(Globals(DetailOf(X)[w].edges)) > Limit["globals"]}
           Is(X, f) == \/ \E w \in DOMAIN DetailOf(X) :
                            \/ f \in Each("workflows", lost(X, w), "unreachable_status", "medium")
                            \/ f \in Each("workflows", dead(X, w), "dead_end_status", "low")
                       \/ f \in Each("workflows", many(X), "global_transition_overuse", "low")
<1>1. \A X, f : (f \in GraphRules(X) => Is(X, f)) /\ (Is(X, f) => f \in GraphRules(X))
  <2> TAKE X, f
  <2> DEFINE one(w) == Each("workflows", lost(X, w), "unreachable_status", "medium")
                         \cup Each("workflows", dead(X, w), "dead_end_status", "low")
             over == Each("workflows", many(X), "global_transition_overuse", "low")
  <2>1. GraphRules(X) = (UNION {one(w) : w \in DOMAIN DetailOf(X)}) \cup over
    BY DEF GraphRules
  <2>2. \A w : f \in one(w) <=> \/ f \in Each("workflows", lost(X, w), "unreachable_status", "medium")
                               \/ f \in Each("workflows", dead(X, w), "dead_end_status", "low")
    <3> HIDE DEF lost, dead
    <3>1. QED
      OBVIOUS
  <2> HIDE DEF one
  <2>3. f \in GraphRules(X) <=> (\E w \in DOMAIN DetailOf(X) : f \in one(w)) \/ f \in over
    <3> HIDE DEF over
    <3>1. QED
      BY <2>1
  <2> HIDE DEF lost, dead, many
  <2>4. QED
    BY <2>2, <2>3
<1>2. DetailOf(A) = DetailOf(I) /\ \A w : Statuses(A, w) = Statuses(I, w)
  BY DetailKept
<1>3. \A w : edges(A, w) = edges(I, w)
  BY <1>2
<1> HIDE DEF edges
<1>4. \A w : unreachable(A, w) = unreachable(I, w)
  BY <1>2, <1>3
<1>5. \A w : deadEnds(A, w) = deadEnds(I, w)
  <2> TAKE w
  <2>1. /\ (\E e \in edges(A, w) : e.global) <=> (\E e \in edges(I, w) : e.global)
        /\ {s \in Statuses(A, w) : s[1] \notin TerminalNames} = {s \in Statuses(I, w) : s[1] \notin TerminalNames}
        /\ (UNION {e.from : e \in edges(A, w)}) = UNION {e.from : e \in edges(I, w)}
    BY <1>2, <1>3
  <2>2. QED
    BY <2>1
<1> HIDE DEF unreachable, deadEnds
<1>6. \A w : lost(A, w) = lost(I, w) /\ dead(A, w) = dead(I, w)
  BY <1>4, <1>5
<1>7. many(A) = many(I)
  BY <1>2
<1> HIDE DEF lost, dead, many
<1>8. \A f : Is(A, f) <=> Is(I, f)
  BY <1>2, <1>6, <1>7
<1> HIDE DEF Is
<1>9. QED
  BY <1>1, <1>8

LEMMA GroupKept ==
  ASSUME NEW A, NEW I, Evaluable(I, "groups") => A["groups"] = I["groups"], NEW f \in GroupRules(I)
  PROVE  f \in GroupRules(A)
<1>1. Evaluable(I, "groups")
  BY EachIs DEF GroupRules
<1>2. QED
  BY <1>1 DEF GroupRules, Evaluable

LEMMA VersionKept ==
  ASSUME NEW A, NEW I, A["versions"] = I["versions"]
  PROVE  VersionRules(A) = VersionRules(I)
<1>1. RowsOf(A, "versions") = RowsOf(I, "versions")
  BY NamesKept
<1>2. QED
  BY <1>1 DEF VersionRules

LEMMA ComponentKept ==
  ASSUME NEW A, NEW I, A["components"] = I["components"]
  PROVE  ComponentRules(A) = ComponentRules(I)
<1>1. RowsOf(A, "components") = RowsOf(I, "components")
  BY NamesKept
<1>2. QED
  BY <1>1 DEF ComponentRules

LEMMA GrantKept ==
  ASSUME NEW A, NEW I, A["permission_scheme_grants"] = I["permission_scheme_grants"]
  PROVE  GrantRules(A) = GrantRules(I)
BY DEF GrantRules, Evaluable

LEMMA BoardKept ==
  ASSUME NEW A, NEW I, A["boards"] = I["boards"]
  PROVE  BoardRules(A) = BoardRules(I)
BY NamesKept DEF BoardRules

LEMMA ProjectKept ==
  ASSUME NEW A, NEW I, A["projects"] = I["projects"]
  PROVE  ProjectRules(A) = ProjectRules(I)
<1>1. RowsOf(A, "projects") = RowsOf(I, "projects")
  BY NamesKept
<1>2. QED
  BY <1>1 DEF ProjectRules

LEMMA QualityKept ==
  ASSUME NEW A, NEW I, A["issue_quality"] = I["issue_quality"]
  PROVE  QualityRules(A) = QualityRules(I)
BY DEF QualityRules, Evaluable

LEMMA SharedKept ==
  ASSUME NEW A, NEW I, NEW f \in SharedRules(I), A[f.area] = I[f.area]
  PROVE  f \in SharedRules(A)
<1> DEFINE orphan(X, a) == \E it \in Items(X, a) : ~it.active
           public(X, a) == \E it \in Items(X, a) : it.public
           full(X, a) == Has(X, a, "capped") /\ X[a].capped
           Is(X) == \/ \E a \in {"filters", "dashboards"} :
                         \/ f \in When(full(X, a), Whole(a, "dashboard_filter_volume_high", "info"))
                         \/ f \in When(orphan(X, a), Whole(a, "shared_object_owned_by_inactive", "high"))
                    \/ f \in When(public(X, "filters"), Whole("filters", "public_shared_filter", "high"))
                    \/ f \in When(public(X, "dashboards"), Whole("dashboards", "public_shared_dashboard", "medium"))
<1>1. (f \in SharedRules(I) => Is(I)) /\ (Is(A) => f \in SharedRules(A))
  <2>1. f \in SharedRules(I) => Is(I)
    BY DEF SharedRules
  <2> DEFINE one(a) == When(full(A, a), Whole(a, "dashboard_filter_volume_high", "info"))
                         \cup When(orphan(A, a), Whole(a, "shared_object_owned_by_inactive", "high"))
             rest == When(public(A, "filters"), Whole("filters", "public_shared_filter", "high"))
                       \cup When(public(A, "dashboards"), Whole("dashboards", "public_shared_dashboard", "medium"))
  <2>2. SharedRules(A) = (UNION {one(a) : a \in {"filters", "dashboards"}}) \cup rest
    BY DEF SharedRules
  <2>3. (\E a \in {"filters", "dashboards"} : f \in one(a)) \/ f \in rest => f \in SharedRules(A)
    <3> HIDE DEF one, rest
    <3>1. QED
      BY <2>2
  <2> HIDE DEF full, orphan, public
  <2>4. QED
    BY <2>1, <2>3
<1>2. \A a : A[a] = I[a] =>
        /\ orphan(A, a) <=> orphan(I, a)
        /\ public(A, a) <=> public(I, a)
        /\ full(A, a) <=> full(I, a)
  BY NamesKept
<1> HIDE DEF orphan, public, full
<1>3. \A c, g : f \in When(c, g) <=> c /\ f = g
  BY DEF When
<1>4. Is(A)
  BY <1>1, <1>2, <1>3, WholeIs
<1>5. QED
  BY <1>1, <1>4

LEMMA GuardrailKept ==
  ASSUME NEW A, NEW I, NEW f \in GuardrailRules(I), A[f.area] = I[f.area]
  PROVE  f \in GuardrailRules(A)
<1> DEFINE near(X, a, kind, warn, limit) ==
             \/ f \in When(Over(X, a, limit), Whole(a, kind, "high"))
             \/ f \in When(Over(X, a, warn) /\ ~Over(X, a, limit), Whole(a, kind, "medium"))
           Is(X) == \/ near(X, "priorities", "near_priority_limit", "priorityNear", "priorityMax")
                    \/ near(X, "workflows", "near_workflow_limit", "workflowNear", "workflowMax")
                    \/ f \in Above(X, "issue_types", "near_issue_type_limit", "medium", "issueTypeLimit")
<1>1. (f \in GuardrailRules(I) => Is(I)) /\ (Is(A) => f \in GuardrailRules(A))
  BY DEF GuardrailRules
<1>2. \A a, k, w, l : near(I, a, k, w, l) => f.area = a /\ near(A, a, k, w, l)
  <2> TAKE a, k, w, l
  <2>1. near(I, a, k, w, l) => f.area = a
    BY WhenWhole
  <2>2. A[a] = I[a] => (near(A, a, k, w, l) <=> near(I, a, k, w, l))
    BY NamesKept DEF When
  <2>3. QED
    BY <2>1, <2>2
<1> HIDE DEF near
<1>3. QED
  BY <1>1, <1>2, AboveKept

LEMMA MigrationKept ==
  ASSUME NEW A, NEW I, NEW f \in MigrationRules(I), A[f.area] = I[f.area]
  PROVE  f \in MigrationRules(A)
<1> DEFINE foreign(X) == Evaluable(X, "custom_fields") /\ X["custom_fields"].foreign > 0
           apps(X) == Evaluable(X, "plugins") /\ X["plugins"].user > 0
           scripts(X) == Evaluable(X, "plugins") /\ X["plugins"].script
           Is(X) == /\ ~Cloud
                    /\ \/ f \in When(foreign(X), Whole("custom_fields", "unsupported_custom_field_type", "high"))
                       \/ f \in When(apps(X), Whole("plugins", "apps_to_assess_for_cloud", "medium"))
                       \/ f \in When(scripts(X), Whole("plugins", "script_app_present", "high"))
<1>1. (f \in MigrationRules(I) => Is(I)) /\ (Is(A) => f \in MigrationRules(A))
  BY DEF MigrationRules, When
<1>2. /\ A["custom_fields"] = I["custom_fields"] => (foreign(A) <=> foreign(I))
      /\ A["plugins"] = I["plugins"] => (apps(A) <=> apps(I)) /\ (scripts(A) <=> scripts(I))
  BY NamesKept
<1> HIDE DEF foreign, apps, scripts
<1>3. \A c, g : f \in When(c, g) <=> c /\ f = g
  BY DEF When
<1>4. Is(A)
  BY <1>1, <1>2, <1>3, WholeIs
<1>5. QED
  BY <1>1, <1>4

\* The areas that may have been read in part and still count as read.
ScreensFine(A, I) ==
  \/ A["screens"] = I["screens"]
  \/ /\ SameBut(A["screens"], I["screens"], "fields") /\ "fields" \in DOMAIN A["screens"]
     /\ Evaluable(A, "screens") => DOMAIN A["screens"].fields = DOMAIN I["screens"].fields
     /\ \A s \in DOMAIN A["screens"].fields : A["screens"].fields[s] \subseteq I["screens"].fields[s]
Marked(A, a) == Flagged(A[a]) /\ (~A[a].skipped => "names" \in DOMAIN A[a])
Completed(A, I, a) == A[a] = I[a] \/ (SameBut(A[a], I[a], "used") /\ Marked(I, a))

LEMMA ScreensAre ==
  ASSUME NEW A, NEW I, ScreensFine(A, I), Marked(I, "screens")
  PROVE  /\ Names(A, "screens") = Names(I, "screens")
         /\ Has(A, "screens", "fields") <=> Has(I, "screens", "fields")
         /\ \A b : Over(A, "screens", b) <=> Over(I, "screens", b)
         /\ Evaluable(I, "screens") => A["screens"].names = I["screens"].names
         /\ Has(I, "screens", "fields") =>
              /\ DOMAIN A["screens"].fields = DOMAIN I["screens"].fields
              /\ \A s \in DOMAIN A["screens"].fields : A["screens"].fields[s] \subseteq I["screens"].fields[s]
<1>1. CASE A["screens"] = I["screens"]
  BY <1>1, NamesKept DEF Has, Evaluable
<1>2. CASE A["screens"] # I["screens"]
  <2>1. /\ DOMAIN A["screens"] = DOMAIN I["screens"]
        /\ \A k \in DOMAIN A["screens"] : k # "fields" => A["screens"][k] = I["screens"][k]
        /\ Evaluable(A, "screens") => DOMAIN A["screens"].fields = DOMAIN I["screens"].fields
        /\ \A s \in DOMAIN A["screens"].fields : A["screens"].fields[s] \subseteq I["screens"].fields[s]
    BY <1>2 DEF ScreensFine, SameBut
  <2>2. Evaluable(A, "screens") <=> Evaluable(I, "screens")
    BY <2>1 DEF Evaluable, Marked, Flagged
  <2>3. Evaluable(I, "screens") => A["screens"].names = I["screens"].names
    BY <2>1 DEF Marked, Evaluable
  <2>4. \A p : Has(A, "screens", p) <=> Has(I, "screens", p)
    BY <2>1, <2>2 DEF Has
  <2>5. \A b : Over(A, "screens", b) <=> Over(I, "screens", b)
    BY <2>1, <2>2 DEF Over, Has
  <2>6. QED
    BY <2>1, <2>2, <2>3, <2>4, <2>5 DEF Names, Has
<1>3. QED
  BY <1>1, <1>2

LEMMA CompletedIs ==
  ASSUME NEW A, NEW I, NEW a, Completed(A, I, a)
  PROVE  /\ Names(A, a) = Names(I, a) /\ (Evaluable(A, a) <=> Evaluable(I, a))
         /\ \A p : Has(A, a, p) <=> Has(I, a, p)
         /\ Unused(A, a) = Unused(I, a)
<1>1. CASE A[a] = I[a]
  BY <1>1, NamesKept DEF Unused
<1>2. CASE A[a] # I[a]
  <2>1. /\ DOMAIN A[a] = DOMAIN I[a] /\ \A k \in DOMAIN A[a] : k # "used" => A[a][k] = I[a][k]
        /\ Marked(I, a)
    BY <1>2 DEF Completed, SameBut
  <2>2. Evaluable(A, a) <=> Evaluable(I, a)
    BY <2>1 DEF Evaluable, Marked, Flagged
  <2>3. Evaluable(I, a) => A[a].names = I[a].names
    BY <2>1 DEF Marked, Evaluable
  <2>4. \A p : Has(A, a, p) <=> Has(I, a, p)
    BY <2>1, <2>2 DEF Has
  <2>5. Has(I, a, "projects_using") => Evaluable(I, a) /\ A[a].projects_using = I[a].projects_using
    BY <2>1 DEF Has
  <2>6. Unused(A, a) = Unused(I, a)
    BY <2>3, <2>4, <2>5 DEF Unused
  <2>7. QED
    BY <2>2, <2>3, <2>4, <2>6 DEF Names
<1>3. QED
  BY <1>1, <1>2

LEMMA FieldKept ==
  ASSUME NEW A, NEW I, NEW f \in FieldRules(I), A["custom_fields"] = I["custom_fields"],
         f.kind = "unused_custom_field" => ScreensFine(A, I) /\ Marked(I, "screens")
  PROVE  f \in FieldRules(A)
<1> DEFINE ns(X) == Names(X, "custom_fields")
           twice(X) == Later(Originals(ns(X)))
           on(X) == UNION {X["screens"].fields[s] : s \in DOMAIN X["screens"].fields}
           known(X) == Has(X, "screens", "fields") /\ DOMAIN X["screens"].fields # {}
           off(X) == ToSet(ns(X)) \ on(X)
           high(X) == Over(X, "custom_fields", "fieldCrit")
           medium(X) == Over(X, "custom_fields", "fieldWarn") /\ ~Over(X, "custom_fields", "fieldCrit")
           Is(X) == \/ f \in Each("custom_fields", twice(X), "duplicate_field", "medium")
                    \/ known(X) /\ f \in Each("custom_fields", off(X), "unused_custom_field", "low")
                    \/ f \in When(high(X), Whole("custom_fields", "field_sprawl", "high"))
                    \/ f \in When(medium(X), Whole("custom_fields", "field_sprawl", "medium"))
                    \/ f \in Above(X, "custom_fields", "near_field_limit", "medium", "fieldLimit")
<1>1. (f \in FieldRules(I) => Is(I)) /\ (Is(A) => f \in FieldRules(A))
  BY DEF FieldRules
<1>2. /\ ns(A) = ns(I) /\ twice(A) = twice(I) /\ (high(A) <=> high(I)) /\ (medium(A) <=> medium(I))
      /\ Above(A, "custom_fields", "near_field_limit", "medium", "fieldLimit")
           = Above(I, "custom_fields", "near_field_limit", "medium", "fieldLimit")
  <2>1. Names(A, "custom_fields") = Names(I, "custom_fields")
        /\ \A b : Over(A, "custom_fields", b) <=> Over(I, "custom_fields", b)
    BY NamesKept
  <2>2. QED
    BY <2>1 DEF Above, When
<1>3. ScreensFine(A, I) /\ Marked(I, "screens") /\ known(I) => known(A) /\ off(I) \subseteq off(A)
  <2> SUFFICES ASSUME ScreensFine(A, I), Marked(I, "screens"), known(I) PROVE known(A) /\ off(I) \subseteq off(A)
    OBVIOUS
  <2>1. /\ Has(A, "screens", "fields") /\ DOMAIN A["screens"].fields = DOMAIN I["screens"].fields
        /\ \A s \in DOMAIN A["screens"].fields : A["screens"].fields[s] \subseteq I["screens"].fields[s]
    BY ScreensAre
  <2>2. on(A) \subseteq on(I)
    BY <2>1
  <2> HIDE DEF on
  <2>3. QED
    BY <1>2, <2>1, <2>2
<1> HIDE DEF twice, off, known, high, medium
<1>4. f \in Each("custom_fields", off(I), "unused_custom_field", "low") => f.kind = "unused_custom_field"
  BY EachIs
<1>5. off(I) \subseteq off(A) => Each("custom_fields", off(I), "unused_custom_field", "low")
                                   \subseteq Each("custom_fields", off(A), "unused_custom_field", "low")
  BY DEF Each
<1>6. Is(A)
  BY <1>1, <1>2, <1>3, <1>4, <1>5 DEF When
<1>7. QED
  BY <1>1, <1>6

LEMMA ScreenKept ==
  ASSUME NEW A, NEW I, NEW f \in ScreenRules(I), Marked(I, "screens"), ScreensFine(A, I)
  PROVE  f \in ScreenRules(A)
<1> DEFINE bare(X) == {s \in DOMAIN X["screens"].fields : X["screens"].fields[s] = {}}
           Is(X) == \/ Has(X, "screens", "fields") /\ f \in Each("screens", bare(X), "empty_screen", "low")
                    \/ f \in Above(X, "screens", "screen_sprawl", "low", "screen")
<1>1. (f \in ScreenRules(I) => Is(I)) /\ (Is(A) => f \in ScreenRules(A))
  BY DEF ScreenRules
<1>2. /\ Has(A, "screens", "fields") <=> Has(I, "screens", "fields")
      /\ \A b : Over(A, "screens", b) <=> Over(I, "screens", b)
      /\ Has(I, "screens", "fields") => bare(I) \subseteq bare(A)
  BY ScreensAre
<1>3. Above(A, "screens", "screen_sprawl", "low", "screen") = Above(I, "screens", "screen_sprawl", "low", "screen")
  BY <1>2 DEF Above, When
<1> HIDE DEF bare
<1>4. QED
  BY <1>1, <1>2, <1>3 DEF Each

LEMMA StatusKept ==
  ASSUME NEW A, NEW I, NEW f \in StatusRules(I), A["statuses"] = I["statuses"],
         f.kind = "status_not_in_workflow" => A["workflows"] = I["workflows"]
  PROVE  f \in StatusRules(A)
<1> DEFINE used(X) == UNION {Statuses(X, w) : w \in DOMAIN DetailOf(X)}
           off(X) == ToSet(Names(X, "statuses")) \ used(X)
           known(X) == DOMAIN DetailOf(X) # {}
           twice(X) == Later(Names(X, "statuses"))
           Is(X) == \/ known(X) /\ f \in Each("statuses", off(X), "status_not_in_workflow", "medium")
                    \/ f \in Above(X, "statuses", "status_sprawl", "low", "status")
                    \/ f \in Each("statuses", twice(X), "duplicate_status_name", "medium")
<1>1. (f \in StatusRules(I) => Is(I)) /\ (Is(A) => f \in StatusRules(A))
  BY DEF StatusRules
<1>2. /\ Names(A, "statuses") = Names(I, "statuses")
      /\ Above(A, "statuses", "status_sprawl", "low", "status")
           = Above(I, "statuses", "status_sprawl", "low", "status")
  BY NamesKept DEF Above, When
<1>3. A["workflows"] = I["workflows"] => (known(A) <=> known(I)) /\ off(A) = off(I)
  BY <1>2, DetailKept
<1>4. f \in Each("statuses", off(I), "status_not_in_workflow", "medium") => f.kind = "status_not_in_workflow"
  BY EachIs
<1>5. twice(A) = twice(I)
  BY <1>2
<1> HIDE DEF off, known, twice
<1>6. QED
  BY <1>1, <1>2, <1>3, <1>4, <1>5

LEMMA SchemeKept ==
  ASSUME NEW A, NEW I, NEW f \in SchemeRules(I), Completed(A, I, f.area)
  PROVE  f \in SchemeRules(A)
<1>1. PICK a \in SchemeAreas : f \in Each(a, Unused(I, a), "scheme_unused", "low")
  BY DEF SchemeRules
<1>2. Unused(A, a) = Unused(I, a)
  BY <1>1, EachIs, CompletedIs
<1>3. QED
  BY <1>1, <1>2 DEF SchemeRules

LEMMA TypeSchemeKept ==
  ASSUME NEW A, NEW I, NEW f \in TypeSchemeRules(I), Completed(A, I, f.area)
  PROVE  f \in TypeSchemeRules(A)
<1> DEFINE Is(X) ==
      \/ f \in Each("issuetype_schemes", Unused(X, "issuetype_schemes"), "unused_issue_type_scheme", "low")
      \/ f \in Each("issuetype_screen_schemes", Unused(X, "issuetype_screen_schemes"),
                    "unused_issue_type_screen_scheme", "low")
<1>1. Is(I) /\ (Is(A) => f \in TypeSchemeRules(A))
  BY DEF TypeSchemeRules
<1>2. QED
  BY <1>1, EachIs, CompletedIs

LEMMA ArtifactKept ==
  ASSUME NEW A, NEW I, NEW f \in ArtifactRules(I), Completed(A, I, f.area)
  PROVE  f \in ArtifactRules(A)
<1>1. PICK a \in ArtifactAreas : f \in Each(a, Twins(Names(I, a)), "migration_artifact", "medium")
  BY DEF ArtifactRules, ArtifactAreas
<1>2. Names(A, a) = Names(I, a)
  BY <1>1, EachIs, CompletedIs
<1>3. QED
  BY <1>1, <1>2 DEF ArtifactRules, ArtifactAreas

LEMMA ReferenceKept ==
  ASSUME NEW A, NEW I, NEW f \in ReferenceRules(I), UsedTrue(A), UsedTrue(I),
         f.kind = "workflow_unreferenced" =>
           A["workflows"] = I["workflows"] /\ A["workflow_schemes"] = I["workflow_schemes"],
         f.kind = "screen_not_in_scheme" =>
           ScreensFine(A, I) /\ Marked(I, "screens") /\ Completed(A, I, "screen_schemes")
  PROVE  f \in ReferenceRules(A)
<1> DEFINE flows(X) == ToSet(Names(X, "workflows")) \ X["workflow_schemes"].used
           screens(X) == ToSet(Names(X, "screens")) \ X["screen_schemes"].used
           Is(X) == \/ /\ Has(X, "workflow_schemes", "used")
                       /\ f \in Each("workflows", flows(X), "workflow_unreferenced", "low")
                    \/ /\ Has(X, "screen_schemes", "used")
                       /\ f \in Each("screens", screens(X), "screen_not_in_scheme", "low")
<1>1. Is(I) /\ (Is(A) => f \in ReferenceRules(A))
  BY DEF ReferenceRules
<1>2. CASE /\ Has(I, "workflow_schemes", "used")
           /\ f \in Each("workflows", flows(I), "workflow_unreferenced", "low")
  <2>1. A["workflows"] = I["workflows"] /\ A["workflow_schemes"] = I["workflow_schemes"]
    BY <1>2, EachIs
  <2>2. flows(A) = flows(I) /\ Has(A, "workflow_schemes", "used")
    BY <1>2, <2>1, NamesKept
  <2>3. QED
    BY <1>1, <1>2, <2>2
<1>3. CASE /\ Has(I, "screen_schemes", "used")
           /\ f \in Each("screens", screens(I), "screen_not_in_scheme", "low")
  <2>1. ScreensFine(A, I) /\ Marked(I, "screens") /\ Completed(A, I, "screen_schemes")
    BY <1>3, EachIs
  <2>2. Has(A, "screen_schemes", "used") /\ Names(A, "screens") = Names(I, "screens")
    BY <1>3, <2>1, CompletedIs, ScreensAre
  <2>3. f.name \in ToSet(Names(I, "screens"))
    BY <1>3, EachIs
  <2>4. Evaluable(I, "screens")
    BY <2>3 DEF Names, ToSet
  <2>5. A["screens"].names = I["screens"].names
    BY <2>1, <2>4, ScreensAre
  <2>6. A["screen_schemes"].used = I["screen_schemes"].used
    BY <1>3, <2>2, <2>5 DEF UsedTrue, Has
  <2>7. screens(A) = screens(I)
    BY <2>2, <2>6
  <2>8. QED
    BY <1>1, <1>3, <2>2, <2>7
<1>4. QED
  BY <1>1, <1>2, <1>3

-----------------------------------------------------------------------------
(* No defect is hidden.                                                       *)

\* An area that is reported neither in error nor with a hole.
Fine(a) == ~areas[a].error /\ ~SilentHole(a)
LEMMA NotFailed ==
  ASSUME Coverage(areas) \subseteq findings, NEW a \in DOMAIN areas, ~Failed(a), ~SilentHole(a)
  PROVE  Fine(a)
BY DEF Coverage, Failed, Fine

Special == {"screens", "screen_schemes", "groups", "custom_field_options"} \cup ProbedAreas
LEMMA FineArea ==
  ASSUME NEW a, AreaOK(a, areas[a], ideal[a]), Fine(a), a \notin Special
  PROVE  areas[a] = ideal[a]
<1> DEFINE r == areas[a]
           i == ideal[a]
<1> SUFFICES r = i
  OBVIOUS
<1>1. r = i \/ Short(a, r, i)
  BY DEF Fine, AreaOK
<1>2. r = [k \in DOMAIN r |-> r[k]] /\ i = [k \in DOMAIN i |-> i[k]]
  BY DEF AreaOK, Flagged
<1>3. /\ a \in Schemes => DOMAIN r = DOMAIN i
      /\ a = "issue_quality" => Unread \notin {r.count[m] : m \in Metrics}
      /\ a = "spaces" => r.by_space = i.by_space
      /\ a \in {"content_quality", "macros"} => r.counts = i.counts
  BY DEF Fine, SilentHole, Schemes
<1> HIDE DEF r, i
<1>4. \A p : SameBut(r, i, p) /\ r[p] = i[p] => r = i
  <2> SUFFICES ASSUME NEW p, SameBut(r, i, p), r[p] = i[p] PROVE r = i
    OBVIOUS
  <2>1. DOMAIN r = DOMAIN i /\ \A k \in DOMAIN r : r[k] = i[k]
    BY DEF SameBut
  <2>2. QED
    BY <1>2, <2>1
<1>5. Schemes \cap {"issue_quality", "spaces", "content_quality", "macros"} = {}
  BY AreaSets DEF Schemes
<1>6. CASE a \in Schemes
  <2>1. DOMAIN r = DOMAIN i /\ a \notin {"issue_quality", "spaces", "content_quality", "macros"}
    BY <1>3, <1>5, <1>6
  <2>2. Short(a, r, i) => DOMAIN r \cap {"projects_using", "used"} = {} /\ "projects_using" \in DOMAIN i
    BY <2>1 DEF Short, Special
  <2>3. QED
    BY <1>1, <2>1, <2>2
<1>7. CASE a = "spaces"
  <2>1. r = i \/ SameBut(r, i, "by_space")
    BY <1>1, <1>5, <1>7 DEF Short, Special, ProbedAreas
  <2>2. QED
    BY <1>3, <1>4, <1>7, <2>1
<1>8. CASE a \in {"content_quality", "macros"}
  <2>1. r = i \/ SameBut(r, i, "counts")
    BY <1>1, <1>5, <1>8 DEF Short, Special, ProbedAreas
  <2>2. QED
    BY <1>3, <1>4, <1>8, <2>1
<1>9. CASE a \notin Schemes \cup {"spaces", "content_quality", "macros"}
  BY <1>1, <1>3, <1>9 DEF Short, Special
<1>10. QED
  BY <1>6, <1>7, <1>8, <1>9

LEMMA FineScreens ==
  ASSUME AreaOK("screens", areas["screens"], ideal["screens"]), Fine("screens")
  PROVE  ScreensFine(areas, ideal)
<1>1. \/ areas["screens"] = ideal["screens"]
      \/ /\ SameBut(areas["screens"], ideal["screens"], "fields") /\ "fields" \in DOMAIN areas["screens"]
         /\ \A s \in DOMAIN areas["screens"].fields : areas["screens"].fields[s] \subseteq ideal["screens"].fields[s]
  BY AreaSets DEF AreaOK, Fine, Short, Schemes, ProbedAreas
<1>2. Has(areas, "screens", "fields") => DOMAIN areas["screens"].fields = DOMAIN ideal["screens"].fields
  BY DEF Fine, SilentHole
<1>3. QED
  BY <1>1, <1>2 DEF ScreensFine, Has

LEMMA FineSchemes ==
  ASSUME NEW a \in Schemes, AreaOK(a, areas[a], ideal[a]), Fine(a), Marked(ideal, a)
  PROVE  Completed(areas, ideal, a)
<1>1. CASE a = "screen_schemes"
  <2>1. DOMAIN areas[a] = DOMAIN ideal[a]
    BY DEF Fine, SilentHole, Schemes
  <2>2. areas[a] = ideal[a] \/ Short(a, areas[a], ideal[a])
    BY DEF AreaOK, Fine
  <2>3. areas[a] = ideal[a] \/ SameBut(areas[a], ideal[a], "used")
    BY <1>1, <2>1, <2>2 DEF Short, ProbedAreas
  <2>4. QED
    BY <2>3 DEF Completed
<1>2. CASE a # "screen_schemes"
  <2>1. a \notin Special
    BY <1>2, AreaSets DEF Special, Schemes
  <2>2. QED
    BY <2>1, FineArea DEF Completed
<1>3. QED
  BY <1>1, <1>2

LEMMA FineGroups ==
  ASSUME AreaOK("groups", areas["groups"], ideal["groups"]), Fine("groups"), Evaluable(ideal, "groups")
  PROVE  areas["groups"] = ideal["groups"]
<1> DEFINE r == areas["groups"]
           i == ideal["groups"]
<1> SUFFICES r = i
  OBVIOUS
<1>1. r = i \/ (SameBut(r, i, "members") /\ Part(r.members, i.members))
  BY AreaSets DEF AreaOK, Fine, Short, Schemes, ProbedAreas
<1>2. /\ r = [k \in DOMAIN r |-> r[k]] /\ i = [k \in DOMAIN i |-> i[k]]
      /\ {"skipped", "error"} \subseteq DOMAIN r /\ ~i.skipped /\ ~i.error
      /\ ~r.skipped /\ ~r.error => DOMAIN r.members = DOMAIN i.members
  BY DEF AreaOK, Flagged, Evaluable, Fine, SilentHole
<1> HIDE DEF r, i
<1>3. CASE SameBut(r, i, "members") /\ Part(r.members, i.members)
  <2>1. DOMAIN r = DOMAIN i /\ (\A k \in DOMAIN r : k # "members" => r[k] = i[k]) /\ ~r.skipped /\ ~r.error
    BY <1>2, <1>3 DEF SameBut
  <2>2. r.members = i.members
    BY <1>2, <1>3, <2>1 DEF Part
  <2>3. \A k \in DOMAIN r : r[k] = i[k]
    BY <2>1, <2>2
  <2>4. QED
    BY <1>2, <2>1, <2>3
<1>4. QED
  BY <1>1, <1>3

\* What the areas of a Jira snapshot without a sign of a failure say.
JiraFine ==
  /\ \A a \in JiraAreas(16) \ Special : Fine(a) => areas[a] = ideal[a]
  /\ \A a \in Schemes : Fine(a) => Completed(areas, ideal, a)
  /\ Fine("screens") => ScreensFine(areas, ideal) /\ Marked(ideal, "screens")
  /\ Fine("groups") /\ Evaluable(ideal, "groups") => areas["groups"] = ideal["groups"]
  /\ Fine("custom_field_options") /\ Fine("custom_fields") =>
       areas["custom_field_options"] = ideal["custom_field_options"]
  /\ UsedTrue(areas) /\ UsedTrue(ideal)
LEMMA JiraFineIs ==
  ASSUME JiraSnap(areas, ideal, 16)
  PROVE  JiraFine
<1>1. \A a \in JiraAreas(16) : AreaOK(a, areas[a], ideal[a]) /\ (Judged(ideal[a]) => JiraTrue(a, ideal[a]))
  BY DEF JiraSnap
<1>2. ListAreas \cup {"groups", "custom_field_options", "custom_fields"} \subseteq JiraAreas(16)
  BY DEF JiraAreas, Upon
<1>3. UsedTrue(areas) /\ UsedTrue(ideal) /\ NamesTrue(ideal) /\ OptionsKept(areas, ideal)
  BY DEF JiraSnap
<1>4. Schemes \cup {"screens"} \subseteq ListAreas
  BY AreaSets DEF Schemes
<1>5. \A a \in JiraAreas(16) \ Special : Fine(a) => areas[a] = ideal[a]
  BY <1>1, FineArea
<1>6. ASSUME NEW a \in Schemes, Fine(a) PROVE Completed(areas, ideal, a)
  <2>1. AreaOK(a, areas[a], ideal[a])
    BY <1>1, <1>2, <1>4
  <2>2. Marked(ideal, a)
    BY <1>3, <2>1 DEF Marked, AreaOK, NamesTrue
  <2>3. QED
    BY <1>6, <2>1, <2>2, FineSchemes
<1>7. ASSUME Fine("screens") PROVE ScreensFine(areas, ideal) /\ Marked(ideal, "screens")
  <2>1. AreaOK("screens", areas["screens"], ideal["screens"])
        /\ (Judged(ideal["screens"]) => JiraTrue("screens", ideal["screens"]))
    BY <1>1, <1>2, <1>4
  <2>2. Marked(ideal, "screens")
    BY <2>1 DEF Marked, AreaOK, JiraTrue, FieldsTrue, Judged
  <2>3. QED
    BY <1>7, <2>1, <2>2, FineScreens
<1>8. Fine("groups") /\ Evaluable(ideal, "groups") => areas["groups"] = ideal["groups"]
  BY <1>1, <1>2, FineGroups
<1>9. Fine("custom_field_options") /\ Fine("custom_fields") =>
        areas["custom_field_options"] = ideal["custom_field_options"]
  BY <1>3 DEF OptionsKept, Fine
<1>10. QED
  BY <1>3, <1>5, <1>6, <1>7, <1>8, <1>9 DEF JiraFine

\* The areas a finding of a Jira instance comes from are among those its rule reads.
LEMMA SourcesAre ==
  ASSUME NEW f
  PROVE  /\ f.area \in Sources(f)
         /\ f.area \notin ProbedAreas =>
              /\ f.kind = "unused_custom_field" => "screens" \in Sources(f)
              /\ f.kind = "status_not_in_workflow" => "workflows" \in Sources(f)
              /\ f.kind = "workflow_unreferenced" => "workflow_schemes" \in Sources(f)
              /\ f.kind = "screen_not_in_scheme" => "screen_schemes" \in Sources(f)
              /\ f.kind = "large_option_set" => "custom_fields" \in Sources(f)
<1>1. f.area \in Sources(f)
  BY DEF Sources
<1>2. f.area \notin ProbedAreas /\ f.kind = "unused_custom_field" => "screens" \in Sources(f)
  BY DEF Sources, ProbedAreas
<1>3. f.area \notin ProbedAreas /\ f.kind = "status_not_in_workflow" => "workflows" \in Sources(f)
  BY DEF Sources, ProbedAreas
<1>4. f.area \notin ProbedAreas /\ f.kind = "workflow_unreferenced" => "workflow_schemes" \in Sources(f)
  BY DEF Sources, ProbedAreas
<1>5. f.area \notin ProbedAreas /\ f.kind = "screen_not_in_scheme" => "screen_schemes" \in Sources(f)
  BY DEF Sources, ProbedAreas
<1>6. f.area \notin ProbedAreas /\ f.kind = "large_option_set" => "custom_fields" \in Sources(f)
  BY DEF Sources, ProbedAreas
<1>7. QED
  BY <1>1, <1>2, <1>3, <1>4, <1>5, <1>6

JiraPlain ==
  {"custom_fields", "workflows", "permission_scheme_grants", "components", "versions", "boards", "projects",
   "filters", "dashboards", "issue_quality", "plugins", "statuses", "permission_schemes", "resolutions",
   "priorities", "issue_types", "link_types"}
LEMMA JiraPlainIs ==
  /\ JiraPlain \subseteq JiraAreas(16) \ Special
  /\ SchemeAreas \cup TypeSchemeAreas = Schemes
  /\ {"workflow_schemes", "screen_schemes"} \subseteq Schemes /\ "workflow_schemes" \in JiraAreas(16) \ Special
BY DEF JiraPlain, JiraAreas, Upon, ListAreas, CloudOnly, Special, ProbedAreas, Schemes, SchemeAreas, TypeSchemeAreas

LEMMA JiraHidesNothing ==
  ASSUME JiraFine, NEW f \in JiraRules(ideal), \A a \in Sources(f) : Fine(a)
  PROVE  f \in JiraRules(areas)
<1> SUFFICES JiraPart(f, areas)
  BY JiraParts
<1>1. JiraPart(f, ideal)
  BY JiraParts
<1>2. f.area \in JiraPlain => areas[f.area] = ideal[f.area] /\ f.area \notin ProbedAreas
  BY SourcesAre, JiraPlainIs DEF JiraFine, Special
<1>3. f.area \in Schemes => Completed(areas, ideal, f.area)
  BY SourcesAre DEF JiraFine
<1>4. f.area = "screens" => ScreensFine(areas, ideal) /\ Marked(ideal, "screens")
  BY SourcesAre DEF JiraFine
<1>5. CASE f \in FieldRules(ideal)
  <2>1. f.area = "custom_fields"
    BY <1>5, FieldRuleIs DEF Says
  <2>2. areas["custom_fields"] = ideal["custom_fields"] /\ f.area \notin ProbedAreas
    BY <1>2, <2>1 DEF JiraPlain
  <2>3. f.kind = "unused_custom_field" => ScreensFine(areas, ideal) /\ Marked(ideal, "screens")
    BY <2>2, SourcesAre DEF JiraFine
  <2>4. f \in FieldRules(areas)
    BY <1>5, <2>2, <2>3, FieldKept
  <2>5. QED
    BY <2>4 DEF JiraPart
<1>6. CASE f \in ScreenRules(ideal)
  <2>1. f.area = "screens"
    BY <1>6, ScreenRuleIs DEF Says
  <2>2. f \in ScreenRules(areas)
    BY <1>4, <1>6, <2>1, ScreenKept
  <2>3. QED
    BY <2>2 DEF JiraPart
<1>7. CASE f \in StatusRules(ideal)
  <2>1. f.area = "statuses"
    BY <1>7, StatusRuleIs DEF Says
  <2>2. areas["statuses"] = ideal["statuses"] /\ f.area \notin ProbedAreas
    BY <1>2, <2>1 DEF JiraPlain
  <2>3. f.kind = "status_not_in_workflow" => areas["workflows"] = ideal["workflows"]
    BY <2>2, SourcesAre, JiraPlainIs DEF JiraFine, JiraPlain
  <2>4. f \in StatusRules(areas)
    BY <1>7, <2>2, <2>3, StatusKept
  <2>5. QED
    BY <2>4 DEF JiraPart
<1>8. CASE f \in OptionRules(ideal)
  <2>1. f.area = "custom_field_options" /\ f.kind = "large_option_set"
    BY <1>8, OptionRuleIs DEF Says
  <2>2. {"custom_field_options", "custom_fields"} \subseteq Sources(f)
    BY <2>1, SourcesAre DEF ProbedAreas
  <2>3. f \in OptionRules(areas)
    BY <1>8, <2>2, OptionKept DEF JiraFine
  <2>4. QED
    BY <2>3 DEF JiraPart
<1>9. CASE f \in GroupRules(ideal)
  <2>1. f.area = "groups"
    BY <1>9, GroupRuleIs DEF Says
  <2>2. f \in GroupRules(areas)
    BY <1>9, <2>1, SourcesAre, GroupKept DEF JiraFine
  <2>3. QED
    BY <2>2 DEF JiraPart
<1>10. CASE f \in ReferenceRules(ideal)
  <2>1. /\ f.area \in {"workflows", "screens"} /\ f.area \notin ProbedAreas
        /\ f.kind = "workflow_unreferenced" => f.area = "workflows"
        /\ f.kind = "screen_not_in_scheme" => f.area = "screens"
    BY <1>10, ReferenceRuleIs DEF Says, ProbedAreas
  <2>2. f.kind = "workflow_unreferenced" =>
          areas["workflows"] = ideal["workflows"] /\ areas["workflow_schemes"] = ideal["workflow_schemes"]
    BY <1>2, <2>1, SourcesAre, JiraPlainIs DEF JiraFine, JiraPlain
  <2>3. f.kind = "screen_not_in_scheme" =>
          ScreensFine(areas, ideal) /\ Marked(ideal, "screens") /\ Completed(areas, ideal, "screen_schemes")
    BY <1>4, <2>1, SourcesAre, JiraPlainIs DEF JiraFine
  <2>4. f \in ReferenceRules(areas)
    BY <1>10, <2>2, <2>3, ReferenceKept DEF JiraFine
  <2>5. QED
    BY <2>4 DEF JiraPart
<1>11. CASE f \in SchemeRules(ideal)
  <2>1. f.area \in Schemes
    BY <1>11, SchemeRuleIs, JiraPlainIs DEF Says
  <2>2. f \in SchemeRules(areas)
    BY <1>3, <1>11, <2>1, SchemeKept
  <2>3. QED
    BY <2>2 DEF JiraPart
<1>12. CASE f \in TypeSchemeRules(ideal)
  <2>1. f.area \in Schemes
    BY <1>12, TypeSchemeRuleIs, JiraPlainIs DEF Says
  <2>2. f \in TypeSchemeRules(areas)
    BY <1>3, <1>12, <2>1, TypeSchemeKept
  <2>3. QED
    BY <2>2 DEF JiraPart
<1>13. CASE f \in ArtifactRules(ideal)
  <2>1. f.area \in JiraPlain \cup Schemes
    BY <1>13, ArtifactRuleIs, JiraPlainIs DEF Says, ArtifactAreas, JiraPlain
  <2>2. Completed(areas, ideal, f.area)
    BY <1>2, <1>3, <2>1 DEF Completed
  <2>3. f \in ArtifactRules(areas)
    BY <1>13, <2>2, ArtifactKept
  <2>4. QED
    BY <2>3 DEF JiraPart
<1>14. CASE f \in CatalogueRules(ideal)
  <2>1. areas[f.area] = ideal[f.area]
    BY <1>2, <1>14, CatalogueRuleIs DEF Says, CatalogueAreas, JiraPlain
  <2>2. f \in CatalogueRules(areas)
    BY <1>14, <2>1, CatalogueKept
  <2>3. QED
    BY <2>2 DEF JiraPart
<1>15. CASE f \in SharedRules(ideal)
  <2>1. areas[f.area] = ideal[f.area]
    BY <1>2, <1>15, SharedRuleIs DEF Says, JiraPlain
  <2>2. f \in SharedRules(areas)
    BY <1>15, <2>1, SharedKept
  <2>3. QED
    BY <2>2 DEF JiraPart
<1>16. CASE f \in GuardrailRules(ideal)
  <2>1. areas[f.area] = ideal[f.area]
    BY <1>2, <1>16, GuardrailRuleIs DEF Says, JiraPlain
  <2>2. f \in GuardrailRules(areas)
    BY <1>16, <2>1, GuardrailKept
  <2>3. QED
    BY <2>2 DEF JiraPart
<1>17. CASE f \in MigrationRules(ideal)
  <2>1. areas[f.area] = ideal[f.area]
    BY <1>2, <1>17, MigrationRuleIs DEF Says, JiraPlain
  <2>2. f \in MigrationRules(areas)
    BY <1>17, <2>1, MigrationKept
  <2>3. QED
    BY <2>2 DEF JiraPart
<1>18. CASE f \in WorkflowRules(ideal)
  <2>1. areas["workflows"] = ideal["workflows"]
    BY <1>2, <1>18, WorkflowRuleIs DEF Says, JiraPlain
  <2>2. f \in WorkflowRules(areas)
    BY <1>18, <2>1, WorkflowKept
  <2>3. QED
    BY <2>2 DEF JiraPart
<1>19. CASE f \in SizeRules(ideal)
  <2>1. areas["workflows"] = ideal["workflows"]
    BY <1>2, <1>19, SizeRuleIs DEF Says, JiraPlain
  <2>2. f \in SizeRules(areas)
    BY <1>19, <2>1, SizeKept
  <2>3. QED
    BY <2>2 DEF JiraPart
<1>20. CASE f \in GraphRules(ideal)
  <2>1. areas["workflows"] = ideal["workflows"]
    BY <1>2, <1>20, GraphRuleIs DEF Says, JiraPlain
  <2>2. f \in GraphRules(areas)
    BY <1>20, <2>1, GraphKept
  <2>3. QED
    BY <2>2 DEF JiraPart
<1>21. CASE f \in VersionRules(ideal)
  <2>1. areas["versions"] = ideal["versions"]
    BY <1>2, <1>21, VersionRuleIs DEF Says, JiraPlain
  <2>2. f \in VersionRules(areas)
    BY <1>21, <2>1, VersionKept
  <2>3. QED
    BY <2>2 DEF JiraPart
<1>22. CASE f \in ComponentRules(ideal)
  <2>1. areas["components"] = ideal["components"]
    BY <1>2, <1>22, ComponentRuleIs DEF Says, JiraPlain
  <2>2. f \in ComponentRules(areas)
    BY <1>22, <2>1, ComponentKept
  <2>3. QED
    BY <2>2 DEF JiraPart
<1>23. CASE f \in GrantRules(ideal)
  <2>1. areas["permission_scheme_grants"] = ideal["permission_scheme_grants"]
    BY <1>2, <1>23, GrantRuleIs DEF Says, JiraPlain
  <2>2. f \in GrantRules(areas)
    BY <1>23, <2>1, GrantKept
  <2>3. QED
    BY <2>2 DEF JiraPart
<1>24. CASE f \in BoardRules(ideal)
  <2>1. areas["boards"] = ideal["boards"]
    BY <1>2, <1>24, BoardRuleIs DEF Says, JiraPlain
  <2>2. f \in BoardRules(areas)
    BY <1>24, <2>1, BoardKept
  <2>3. QED
    BY <2>2 DEF JiraPart
<1>25. CASE f \in ProjectRules(ideal)
  <2>1. areas["projects"] = ideal["projects"]
    BY <1>2, <1>25, ProjectRuleIs DEF Says, JiraPlain
  <2>2. f \in ProjectRules(areas)
    BY <1>25, <2>1, ProjectKept
  <2>3. QED
    BY <2>2 DEF JiraPart
<1>26. CASE f \in QualityRules(ideal)
  <2>1. areas["issue_quality"] = ideal["issue_quality"]
    BY <1>2, <1>26, QualityRuleIs DEF Says, JiraPlain
  <2>2. f \in QualityRules(areas)
    BY <1>26, <2>1, QualityKept
  <2>3. QED
    BY <2>2 DEF JiraPart
<1>27. QED
  BY <1>1, <1>5, <1>6, <1>7, <1>8, <1>9, <1>10, <1>11, <1>12, <1>13, <1>14, <1>15,
     <1>16, <1>17, <1>18, <1>19, <1>20, <1>21, <1>22, <1>23, <1>24, <1>25, <1>26 DEF JiraPart

LEMMA SpaceKept ==
  ASSUME NEW A, NEW I, A["spaces"] = I["spaces"]
  PROVE  SpaceRules(A) = SpaceRules(I)
BY DEF SpaceRules, Evaluable

LEMMA RestrictionKept ==
  ASSUME NEW A, NEW I, A["page_restrictions"] = I["page_restrictions"]
  PROVE  RestrictionRules(A) = RestrictionRules(I)
BY DEF RestrictionRules, Evaluable

LEMMA ContentKept ==
  ASSUME NEW A, NEW I, A["content_quality"] = I["content_quality"]
  PROVE  ContentRules(A) = ContentRules(I)
<1>1. CountsOf(A, "content_quality") = CountsOf(I, "content_quality")
  BY NamesKept
<1>2. QED
  BY <1>1 DEF ContentRules

LEMMA MacroKept ==
  ASSUME NEW A, NEW I, A["macros"] = I["macros"]
  PROVE  MacroRules(A) = MacroRules(I)
<1>1. CountsOf(A, "macros") = CountsOf(I, "macros")
  BY NamesKept
<1>2. QED
  BY <1>1 DEF MacroRules

LEMMA SamplingKept ==
  ASSUME NEW A, NEW I, NEW f \in SamplingRules(I), A[f.area] = I[f.area]
  PROVE  f \in SamplingRules(A)
BY DEF SamplingRules, Gap, Finding

LEMMA LibraryKept ==
  ASSUME NEW A, NEW I, NEW f \in LibraryRules(I), f.area \in {"labels", "templates"} => A[f.area] = I[f.area],
         f.area = "groups" /\ Evaluable(I, "groups") => A["groups"] = I["groups"]
  PROVE  f \in LibraryRules(A)
<1> DEFINE empty(X) == {g \in DOMAIN X["groups"].members : X["groups"].members[g] = 0}
           Is(X) == \/ f \in Above(X, "labels", "label_sprawl", "low", "label")
                    \/ f \in Above(X, "templates", "template_sprawl", "low", "template")
                    \/ Evaluable(X, "groups") /\ f \in Each("groups", empty(X), "confluence_empty_group", "low")
<1>1. Is(I) /\ (Is(A) => f \in LibraryRules(A))
  BY DEF LibraryRules
<1>2. A["groups"] = I["groups"] => empty(A) = empty(I) /\ (Evaluable(A, "groups") <=> Evaluable(I, "groups"))
  BY NamesKept
<1> HIDE DEF empty
<1>3. QED
  BY <1>1, <1>2, EachIs, AboveIs, AboveKept

\* The members the rules see.
MembersOf(A) == IF Evaluable(A, "groups") THEN A["groups"].members ELSE <<>>
MembersAmong(A, I) ==
  /\ DOMAIN MembersOf(A) \subseteq DOMAIN MembersOf(I)
  /\ \A g \in DOMAIN MembersOf(A) : MembersOf(A)[g] = MembersOf(I)[g]
LEMMA MembersKept ==
  ASSUME NEW A, NEW I, AreaOK("groups", A["groups"], I["groups"])
  PROVE  MembersAmong(A, I)
<1> DEFINE r == A["groups"]
           i == I["groups"]
<1>1. CASE ~Evaluable(A, "groups")
  <2>1. DOMAIN MembersOf(A) = {}
    BY <1>1 DEF MembersOf
  <2>2. QED
    BY <2>1 DEF MembersAmong
<1>2. CASE Evaluable(A, "groups")
  <2>1. r = i \/ (SameBut(r, i, "members") /\ Part(r.members, i.members))
    BY <1>2, AreaSets DEF AreaOK, Evaluable, Short, Schemes, ProbedAreas
  <2>2. /\ {"skipped", "error"} \subseteq DOMAIN r /\ ~i.error /\ ~r.skipped
    BY <1>2 DEF AreaOK, Flagged, Evaluable
  <2> HIDE DEF r, i
  <2>3. /\ ~i.skipped /\ DOMAIN r.members \subseteq DOMAIN i.members
        /\ \A g \in DOMAIN r.members : r.members[g] = i.members[g]
    <3>1. CASE r = i
      BY <2>2, <3>1
    <3>2. CASE SameBut(r, i, "members") /\ Part(r.members, i.members)
      <4>1. ~i.skipped
        BY <2>2, <3>2 DEF SameBut
      <4>2. DOMAIN r.members \subseteq DOMAIN i.members
        BY <3>2 DEF Part
      <4>3. \A g \in DOMAIN r.members : r.members[g] = i.members[g]
        BY <3>2 DEF Part
      <4>4. QED
        BY <4>1, <4>2, <4>3
    <3>3. QED
      BY <2>1, <3>1, <3>2
  <2>4. MembersOf(A) = r.members /\ MembersOf(I) = i.members
    BY <1>2, <2>2, <2>3 DEF MembersOf, Evaluable, r, i
  <2>5. QED
    BY <2>3, <2>4 DEF MembersAmong
<1>3. QED
  BY <1>1, <1>2

LEMMA PermissionKept ==
  ASSUME NEW A, NEW I, NEW f \in PermissionRules(I), A["space_permissions"] = I["space_permissions"],
         MembersAmong(A, I)
  PROVE  f \in PermissionRules(A) \/ Gap("space_permissions", "members") \in PermissionRules(A)
<1> DEFINE a == "space_permissions"
           by(X) == IF Evaluable(X, a) THEN X[a].by_space ELSE <<>>
           joinable(X) == {k \in DOMAIN by(X) :
                             \E g \in by(X)[k].grants \cap DOMAIN MembersOf(X) : MembersOf(X)[g] = 0}
           ownerless(X) == {k \in DOMAIN by(X) : ~by(X)[k].admin}
           public(X) == {k \in DOMAIN by(X) : by(X)[k].anonymous = "yes"}
           writable(X) == {k \in public(X) : by(X)[k].ops \cap WriteOps # {}}
           broad(X) == {k \in DOMAIN by(X) : "broad" \in by(X)[k].types}
           untold(X) == DOMAIN by(X) # {} /\ \A k \in DOMAIN by(X) : by(X)[k].anonymous = "unknown"
           nameless(X) == \E k \in DOMAIN by(X) : by(X)[k].hidden
           uncounted(X) == \E k \in DOMAIN by(X) : by(X)[k].grants \ DOMAIN MembersOf(X) # {}
           Is(h, X) == \/ h \in Each(a, joinable(X), "permission_grant_to_empty_group", "medium")
                       \/ h \in Each(a, ownerless(X), "space_no_admin", "high")
                       \/ h \in Each(a, public(X), "anonymous_space_access", "high")
                       \/ h \in Each(a, writable(X), "anonymous_write_grant", "high")
                       \/ h \in Each(a, broad(X), "space_permission_to_anyone", "medium")
                       \/ h \in When(untold(X), Gap(a, "anonymous"))
                       \/ h \in When(nameless(X), Gap(a, "names"))
                       \/ h \in When(uncounted(X), Gap(a, "members"))
<1>1. Is(f, I)
  BY DEF PermissionRules, MembersOf
<1>2. \A h : Is(h, A) => h \in PermissionRules(A)
  BY DEF PermissionRules, MembersOf
<1>3. by(A) = by(I)
  BY DEF Evaluable
<1> HIDE DEF by
<1>4. ownerless(A) = ownerless(I) /\ public(A) = public(I) /\ broad(A) = broad(I)
      /\ (untold(A) <=> untold(I)) /\ (nameless(A) <=> nameless(I))
  BY <1>3
<1>5. writable(A) = writable(I)
  BY <1>3, <1>4
<1>6. uncounted(I) => uncounted(A)
  BY <1>3 DEF MembersAmong
<1>7. uncounted(A) \/ joinable(I) \subseteq joinable(A)
  <2> SUFFICES ASSUME ~uncounted(A), NEW k \in joinable(I) PROVE k \in joinable(A)
    OBVIOUS
  <2>1. PICK g \in by(I)[k].grants \cap DOMAIN MembersOf(I) : MembersOf(I)[g] = 0
    OBVIOUS
  <2>2. k \in DOMAIN by(A) /\ g \in by(A)[k].grants
    BY <1>3, <2>1
  <2>3. g \in DOMAIN MembersOf(A)
    BY <2>2
  <2>4. QED
    BY <2>1, <2>2, <2>3 DEF MembersAmong
<1> HIDE DEF joinable, ownerless, public, writable, broad, untold, nameless, uncounted
<1>8. uncounted(A) => Gap(a, "members") \in PermissionRules(A)
  BY <1>2 DEF When
<1>9. ~uncounted(A) => Is(f, A)
  BY <1>1, <1>4, <1>5, <1>6, <1>7 DEF Each, When
<1>10. QED
  BY <1>2, <1>8, <1>9

\* What the areas of a Confluence snapshot without a sign of a failure say.
Unbroken(a) == Fine(a) /\ Fine("spaces") /\ Gap(a, "probe") \notin findings
WikiPlain == {"spaces", "templates", "labels", "content_quality", "macros"}
WikiFine ==
  /\ \A a \in WikiPlain : Fine(a) => areas[a] = ideal[a]
  /\ \A a \in ProbedAreas : Unbroken(a) => areas[a] = ideal[a]
  /\ Fine("groups") /\ Evaluable(ideal, "groups") => areas["groups"] = ideal["groups"]
  /\ MembersAmong(areas, ideal)
LEMMA WikiFineIs ==
  ASSUME WikiSnap(areas, ideal, 8), SamplingRules(areas) \subseteq findings
  PROVE  WikiFine
<1>1. \A a \in WikiAreas(8) : AreaOK(a, areas[a], ideal[a])
  BY DEF WikiSnap
<1>2. WikiPlain \subseteq WikiAreas(8) \ Special /\ "groups" \in WikiAreas(8)
  BY DEF WikiAreas, Upon, WikiPlain, Special, ProbedAreas
<1>3. \A a \in WikiPlain : Fine(a) => areas[a] = ideal[a]
  BY <1>1, <1>2, FineArea
<1>4. ASSUME NEW a \in ProbedAreas, Unbroken(a) PROVE areas[a] = ideal[a]
  <2>1. ProbesKept(areas, ideal, a)
    BY DEF WikiSnap, ProbedAreas
  <2>2. ~areas[a].partly
    BY <1>4 DEF Unbroken, SamplingRules, ProbedAreas
  <2>3. QED
    BY <1>4, <2>1, <2>2 DEF ProbesKept, Unbroken, Fine
<1>5. Fine("groups") /\ Evaluable(ideal, "groups") => areas["groups"] = ideal["groups"]
  BY <1>1, <1>2, FineGroups
<1>6. MembersAmong(areas, ideal)
  BY <1>1, <1>2, MembersKept
<1>7. QED
  BY <1>3, <1>4, <1>5, <1>6 DEF WikiFine

\* The findings on permissions and restrictions also come from the list of spaces.
LEMMA WikiSourcesAre ==
  ASSUME NEW f, f.area \in ProbedAreas, f.kind \in WikiKinds \cup {"capability_gap", "anonymous_write_grant"}
  PROVE  "spaces" \in Sources(f)
BY DEF Sources, ProbedAreas, WikiKinds

LEMMA WikiHidesNothing ==
  ASSUME WikiFine, NEW f \in ConfluenceRules(ideal), PermissionRules(areas) \subseteq findings,
         \A a \in Sources(f) : Fine(a) /\ Gap(a, "probe") \notin findings /\ Gap(a, "members") \notin findings
  PROVE  f \in ConfluenceRules(areas)
<1> SUFFICES WikiPart(f, areas)
  BY WikiParts
<1>1. WikiPart(f, ideal)
  BY WikiParts
<1>2. f.area \in WikiPlain => areas[f.area] = ideal[f.area]
  BY SourcesAre DEF WikiFine
<1>3. f.area \in ProbedAreas /\ f.kind \in WikiKinds \cup {"capability_gap", "anonymous_write_grant"} =>
        areas[f.area] = ideal[f.area]
  BY SourcesAre, WikiSourcesAre DEF WikiFine, Unbroken
<1>4. CASE f \in SpaceRules(ideal)
  <2>1. areas["spaces"] = ideal["spaces"]
    BY <1>2, <1>4, SpaceRuleIs DEF Says, WikiPlain
  <2>2. f \in SpaceRules(areas)
    BY <1>4, <2>1, SpaceKept
  <2>3. QED
    BY <2>2 DEF WikiPart
<1>5. CASE f \in PermissionRules(ideal)
  <2>1. f.area = "space_permissions" /\ areas["space_permissions"] = ideal["space_permissions"]
    BY <1>3, <1>5, PermissionRuleIs DEF Says, ProbedAreas, WikiKinds
  <2>2. Gap("space_permissions", "members") \notin PermissionRules(areas)
    BY <2>1, SourcesAre
  <2>3. f \in PermissionRules(areas)
    BY <1>5, <2>1, <2>2, PermissionKept DEF WikiFine
  <2>4. QED
    BY <2>3 DEF WikiPart
<1>6. CASE f \in SamplingRules(ideal)
  <2>1. areas[f.area] = ideal[f.area]
    BY <1>2, <1>3, <1>6, SamplingRuleIs DEF Says, ProbedAreas, WikiPlain
  <2>2. f \in SamplingRules(areas)
    BY <1>6, <2>1, SamplingKept
  <2>3. QED
    BY <2>2 DEF WikiPart
<1>7. CASE f \in RestrictionRules(ideal)
  <2>1. areas["page_restrictions"] = ideal["page_restrictions"]
    BY <1>3, <1>7, RestrictionRuleIs DEF Says, ProbedAreas, WikiKinds
  <2>2. f \in RestrictionRules(areas)
    BY <1>7, <2>1, RestrictionKept
  <2>3. QED
    BY <2>2 DEF WikiPart
<1>8. CASE f \in ContentRules(ideal)
  <2>1. areas["content_quality"] = ideal["content_quality"]
    BY <1>2, <1>8, ContentRuleIs DEF Says, WikiPlain
  <2>2. f \in ContentRules(areas)
    BY <1>8, <2>1, ContentKept
  <2>3. QED
    BY <2>2 DEF WikiPart
<1>9. CASE f \in MacroRules(ideal)
  <2>1. areas["macros"] = ideal["macros"]
    BY <1>2, <1>9, MacroRuleIs DEF Says, WikiPlain
  <2>2. f \in MacroRules(areas)
    BY <1>9, <2>1, MacroKept
  <2>3. QED
    BY <2>2 DEF WikiPart
<1>10. CASE f \in LibraryRules(ideal)
  <2>1. f.area \in {"labels", "templates"} => areas[f.area] = ideal[f.area]
    BY <1>2 DEF WikiPlain
  <2>2. f.area = "groups" /\ Evaluable(ideal, "groups") => areas["groups"] = ideal["groups"]
    BY SourcesAre DEF WikiFine
  <2>3. f \in LibraryRules(areas)
    BY <1>10, <2>1, <2>2, LibraryKept
  <2>4. QED
    BY <2>3 DEF WikiPart
<1>11. QED
  BY <1>1, <1>4, <1>5, <1>6, <1>7, <1>8, <1>9, <1>10 DEF WikiPart

\* Every area a finding comes from is one of the snapshot.
DerivedKinds ==
  {"unused_custom_field", "status_not_in_workflow", "workflow_unreferenced", "screen_not_in_scheme",
   "large_option_set"}
LEMMA SourcesAmong ==
  ASSUME NEW f, NEW a \in Sources(f)
  PROVE  \/ a = f.area
         \/ a \in {"screens", "workflows", "workflow_schemes", "screen_schemes", "custom_fields"}
              /\ f.kind \in DerivedKinds
         \/ a = "spaces" /\ f.area \in ProbedAreas
BY DEF Sources, ProbedAreas, DerivedKinds

LEMMA JiraSourcesIn ==
  ASSUME NEW f \in JiraRules(ideal)
  PROVE  Sources(f) \subseteq JiraAreas(16)
<1> DEFINE own == JiraPlain \cup Schemes \cup {"screens", "groups", "custom_field_options"}
<1>1. JiraPart(f, ideal)
  BY JiraParts
<1>2. f.area \in own
  <2>1. CASE \/ f \in FieldRules(ideal) \/ f \in ScreenRules(ideal) \/ f \in WorkflowRules(ideal)
             \/ f \in StatusRules(ideal) \/ f \in SchemeRules(ideal) \/ f \in OptionRules(ideal)
             \/ f \in CatalogueRules(ideal)
    BY <2>1, FieldRuleIs, ScreenRuleIs, WorkflowRuleIs, StatusRuleIs, SchemeRuleIs, OptionRuleIs, CatalogueRuleIs,
       JiraPlainIs DEF Says, JiraPlain, CatalogueAreas
  <2>2. CASE \/ f \in SizeRules(ideal) \/ f \in GraphRules(ideal) \/ f \in ReferenceRules(ideal)
             \/ f \in TypeSchemeRules(ideal) \/ f \in GroupRules(ideal) \/ f \in VersionRules(ideal)
             \/ f \in ComponentRules(ideal)
    BY <2>2, SizeRuleIs, GraphRuleIs, ReferenceRuleIs, TypeSchemeRuleIs, GroupRuleIs, VersionRuleIs,
       ComponentRuleIs, JiraPlainIs DEF Says, JiraPlain
  <2>3. CASE \/ f \in GrantRules(ideal) \/ f \in BoardRules(ideal) \/ f \in ProjectRules(ideal)
             \/ f \in SharedRules(ideal) \/ f \in QualityRules(ideal) \/ f \in ArtifactRules(ideal)
             \/ f \in GuardrailRules(ideal) \/ f \in MigrationRules(ideal)
    BY <2>3, GrantRuleIs, BoardRuleIs, ProjectRuleIs, SharedRuleIs, QualityRuleIs, ArtifactRuleIs, GuardrailRuleIs,
       MigrationRuleIs, JiraPlainIs DEF Says, JiraPlain, ArtifactAreas
  <2>4. QED
    BY <1>1, <2>1, <2>2, <2>3 DEF JiraPart
<1>3. /\ own \subseteq JiraAreas(16) /\ own \cap ProbedAreas = {}
      /\ {"screens", "workflows", "workflow_schemes", "screen_schemes", "custom_fields"} \subseteq JiraAreas(16)
  BY DEF JiraPlain, JiraAreas, Upon, ListAreas, CloudOnly, ProbedAreas, Schemes, SchemeAreas, TypeSchemeAreas
<1> HIDE DEF own
<1>4. QED
  BY <1>2, <1>3, SourcesAmong

LEMMA WikiSourcesIn ==
  ASSUME NEW f \in ConfluenceRules(ideal)
  PROVE  Sources(f) \subseteq WikiAreas(8)
<1>1. WikiPart(f, ideal)
  BY WikiParts
<1>2. f.area \in WikiPlain \cup ProbedAreas \cup {"groups"} /\ f.kind \notin DerivedKinds
  BY <1>1, SpaceRuleIs, PermissionRuleIs, SamplingRuleIs, RestrictionRuleIs, ContentRuleIs, MacroRuleIs, LibraryRuleIs
     DEF WikiPart, Says, WikiPlain, ProbedAreas, DerivedKinds
<1>3. WikiPlain \cup ProbedAreas \cup {"groups", "spaces"} \subseteq WikiAreas(8)
  BY DEF WikiPlain, ProbedAreas, WikiAreas, Upon
<1>4. QED
  BY <1>2, <1>3, SourcesAmong

\* NothingHidden: a finding the same instance gives when no read fails is missing only where
\* the report says that an area it comes from was not read in full, or where the snapshot
\* has one of the known holes.
THEOREM NothingHiddenHolds == Spec => []NothingHidden
<1>1. AuditInv => NothingHidden
  <2> SUFFICES ASSUME AuditInv, pc = "done", NEW f \in Rules(ideal),
                      \A a \in Sources(f) : ~(Disclosed(a, {"probe", "members"}) \/ SilentHole(a))
               PROVE  f \in findings
    BY DEF NothingHidden
  <2>1. /\ findings = Coverage(areas) \cup Rules(areas)
        /\ \/ site.product = "jira" /\ JiraSnap(areas, ideal, 16)
           \/ site.product = "confluence" /\ WikiSnap(areas, ideal, 8)
    BY Judgement
  <2>2. /\ \A a \in Sources(f) : a \in DOMAIN areas => Fine(a)
        /\ \A a \in Sources(f) : Gap(a, "probe") \notin findings /\ Gap(a, "members") \notin findings
    BY <2>1, NotFailed DEF Disclosed
  <2>3. CASE site.product = "jira" /\ JiraSnap(areas, ideal, 16)
    <3>1. f \in JiraRules(ideal) /\ findings = Coverage(areas) \cup JiraRules(areas)
      BY <2>1, <2>3 DEF Rules
    <3>2. \A a \in Sources(f) : Fine(a)
      BY <2>2, <2>3, <3>1, JiraSourcesIn DEF JiraSnap
    <3>3. QED
      BY <2>3, <3>1, <3>2, JiraFineIs, JiraHidesNothing
  <2>4. CASE site.product = "confluence" /\ WikiSnap(areas, ideal, 8)
    <3>1. f \in ConfluenceRules(ideal) /\ findings = Coverage(areas) \cup ConfluenceRules(areas)
      BY <2>1, <2>4 DEF Rules
    <3>2. PermissionRules(areas) \cup SamplingRules(areas) \subseteq findings
      BY <3>1 DEF ConfluenceRules
    <3>3. \A a \in Sources(f) : Fine(a)
      BY <2>2, <2>4, <3>1, WikiSourcesIn DEF WikiSnap
    <3>4. QED
      BY <2>2, <2>4, <3>1, <3>2, <3>3, WikiFineIs, WikiHidesNothing
  <2>5. QED
    BY <2>1, <2>3, <2>4
<1>2. QED
  BY <1>1, AuditCorrect, PTL

-----------------------------------------------------------------------------
(* No danger of a space goes unsaid.                                          *)

\* What the rules on permissions and restrictions report, read the other way round.
PermissionsOf(A) == IF Evaluable(A, "space_permissions") THEN A["space_permissions"].by_space ELSE <<>>
LEMMA PermissionSays ==
  ASSUME NEW A, NEW k \in DOMAIN PermissionsOf(A)
  PROVE  LET by == PermissionsOf(A)
             p == "space_permissions"
             in(f) == f \in PermissionRules(A)
         IN  /\ by[k].anonymous = "yes" => in(Finding(p, k, "anonymous_space_access", "high"))
             /\ ~by[k].admin => in(Finding(p, k, "space_no_admin", "high"))
             /\ (\E g \in by[k].grants \cap DOMAIN MembersOf(A) : MembersOf(A)[g] = 0) =>
                  in(Finding(p, k, "permission_grant_to_empty_group", "medium"))
             /\ (\A l \in DOMAIN by : by[l].anonymous = "unknown") => in(Gap(p, "anonymous"))
             /\ by[k].hidden => in(Gap(p, "names"))
             /\ by[k].grants \ DOMAIN MembersOf(A) # {} => in(Gap(p, "members"))
<1> DEFINE a == "space_permissions"
           by == PermissionsOf(A)
           joinable == {l \in DOMAIN by : \E g \in by[l].grants \cap DOMAIN MembersOf(A) : MembersOf(A)[g] = 0}
           ownerless == {l \in DOMAIN by : ~by[l].admin}
           public == {l \in DOMAIN by : by[l].anonymous = "yes"}
           untold == DOMAIN by # {} /\ \A l \in DOMAIN by : by[l].anonymous = "unknown"
           nameless == \E l \in DOMAIN by : by[l].hidden
           uncounted == \E l \in DOMAIN by : by[l].grants \ DOMAIN MembersOf(A) # {}
<1>1. \A h : \/ h \in Each(a, joinable, "permission_grant_to_empty_group", "medium")
             \/ h \in Each(a, ownerless, "space_no_admin", "high")
             \/ h \in Each(a, public, "anonymous_space_access", "high")
             \/ h \in When(untold, Gap(a, "anonymous"))
             \/ h \in When(nameless, Gap(a, "names"))
             \/ h \in When(uncounted, Gap(a, "members"))
             => h \in PermissionRules(A)
  BY DEF PermissionRules, MembersOf, PermissionsOf
<1>2. /\ by[k].anonymous = "yes" => k \in public
      /\ ~by[k].admin => k \in ownerless
      /\ (\E g \in by[k].grants \cap DOMAIN MembersOf(A) : MembersOf(A)[g] = 0) => k \in joinable
      /\ (\A l \in DOMAIN by : by[l].anonymous = "unknown") => untold
      /\ by[k].hidden => nameless
      /\ by[k].grants \ DOMAIN MembersOf(A) # {} => uncounted
  OBVIOUS
<1> HIDE DEF by, joinable, ownerless, public, untold, nameless, uncounted
<1>3. QED
  BY <1>1, <1>2 DEF Each, When, by

RestrictionsOf(A) == IF Evaluable(A, "page_restrictions") THEN A["page_restrictions"].by_space ELSE <<>>
LEMMA RestrictionSays ==
  ASSUME NEW A, NEW k \in DOMAIN RestrictionsOf(A)
  PROVE  LET by == RestrictionsOf(A)
             p == "page_restrictions"
             in(f) == f \in RestrictionRules(A)
         IN  /\ by[k].evaluable /\ by[k].restricted > 0 => in(Finding(p, k, "restricted_pages", "medium"))
             /\ by[k].evaluable /\ by[k].more => in(Gap(p, "sample"))
             /\ (\A l \in DOMAIN by : ~by[l].evaluable) => in(Gap(p, "unreadable"))
<1> DEFINE by == RestrictionsOf(A)
           p == "page_restrictions"
           readable == {l \in DOMAIN by : by[l].evaluable}
           restricted == {l \in readable : by[l].restricted > 0}
           unreadable == DOMAIN by # {} /\ readable = {}
           sampled == readable # {} /\ \E l \in DOMAIN by : by[l].more
<1>1. \A h : \/ h \in Each(p, restricted, "restricted_pages", "medium")
             \/ h \in When(unreadable, Gap(p, "unreadable"))
             \/ h \in When(sampled, Gap(p, "sample"))
             => h \in RestrictionRules(A)
  BY DEF RestrictionRules, RestrictionsOf
<1>2. /\ by[k].evaluable /\ by[k].restricted > 0 => k \in restricted
      /\ by[k].evaluable /\ by[k].more => sampled
      /\ (\A l \in DOMAIN by : ~by[l].evaluable) => unreadable
  OBVIOUS
<1> HIDE DEF by, restricted, unreadable, sampled
<1>3. QED
  BY <1>1, <1>2 DEF Each, When, by

\* The probe of a space is in the snapshot, or its absence is in the report.
Told(area, reasons) == Failed("spaces") \/ Disclosed(area, {"cap", "probe"} \cup reasons)
LEMMA ProbeKnown ==
  ASSUME WikiSnap(areas, ideal, 8), findings = Coverage(areas) \cup ConfluenceRules(areas),
         NEW p \in ProbedAreas, NEW k \in GlobalKeys, ~Told(p, {})
  PROVE  /\ Evaluable(areas, p) /\ k \in DOMAIN areas[p].by_space /\ DOMAIN areas[p].by_space \subseteq GlobalKeys
         /\ \A l \in DOMAIN areas[p].by_space :
              areas[p].by_space[l] = IF p = "space_permissions" THEN Reduced(l) ELSE Sampled(l)
<1>1. ProbesTrue(areas, p)
  BY DEF WikiSnap, ProbedAreas
<1>2. {p, "spaces"} \subseteq DOMAIN areas
  BY DEF WikiSnap, WikiAreas, Upon, ProbedAreas
<1>3. ~areas["spaces"].error /\ ~areas[p].error
  BY <1>2 DEF Told, Disclosed, Failed, Coverage
<1>4. ~areas[p].capped /\ ~areas[p].partly
  <2>1. Gap(p, "cap") \notin SamplingRules(areas) /\ Gap(p, "probe") \notin SamplingRules(areas)
    BY DEF Told, Disclosed, ConfluenceRules
  <2>2. QED
    BY <2>1 DEF SamplingRules, ProbedAreas
<1>5. QED
  BY <1>1, <1>3, <1>4 DEF ProbesTrue, Evaluable

LEMMA ToldMore ==
  ASSUME NEW a, NEW S, NEW T, Told(a, S), S \subseteq T
  PROVE  Told(a, T)
BY DEF Told, Disclosed
LEMMA ToldBy ==
  ASSUME NEW a, NEW S, NEW r \in S, Gap(a, r) \in findings
  PROVE  Told(a, S)
BY DEF Told, Disclosed
LEMMA FindingIs ==
  ASSUME NEW a, NEW n, NEW k, NEW v
  PROVE  /\ Finding(a, n, k, v).area = a /\ Finding(a, n, k, v).name = n
         /\ Finding(a, n, k, v).kind = k /\ Finding(a, n, k, v).sev = v
BY DEF Finding

\* The permissions of a space the report knows of.
LEMMA PermissionDangers ==
  ASSUME site \in Sites, site.product = "confluence", WikiSnap(areas, ideal, 8),
         findings = Coverage(areas) \cup ConfluenceRules(areas), NEW sp \in ToSet(site.spaces), sp.type = "global"
  PROVE  LET k == sp.key
             p == "space_permissions"
             reported(kind) == \E f \in findings : f.area = p /\ f.name = k /\ f.kind = kind
         IN  /\ (\E r \in site.perms[k] : r.principal = "anonymous") =>
                  reported("anonymous_space_access") \/ Told(p, {"anonymous"})
             /\ (\A r \in site.perms[k] : r.op # "administer") => reported("space_no_admin") \/ Told(p, {})
             /\ (\E r \in site.perms[k] : \E g \in r.names : site.members[g] = 0) =>
                  reported("permission_grant_to_empty_group") \/ Told(p, {"names", "members"})
<1> DEFINE k == sp.key
           p == "space_permissions"
           by == PermissionsOf(areas)
           reported(kind) == \E f \in findings : f.area = p /\ f.name = k /\ f.kind = kind
<1>1. CASE Told(p, {})
  BY <1>1, ToldMore
<1>2. CASE ~Told(p, {})
  <2>1. k \in GlobalKeys
    BY DEF GlobalKeys
  <2>2. /\ Evaluable(areas, p) /\ k \in DOMAIN areas[p].by_space
        /\ \A l \in DOMAIN areas[p].by_space : areas[p].by_space[l] = Reduced(l)
    BY <1>2, <2>1, ProbeKnown DEF ProbedAreas
  <2>3. k \in DOMAIN by /\ \A l \in DOMAIN by : by[l] = Reduced(l)
    BY <2>2 DEF PermissionsOf
  <2>4. PermissionRules(areas) \subseteq findings
    BY DEF ConfluenceRules
  <2>5. /\ by[k].anonymous = "yes" => reported("anonymous_space_access")
        /\ ~by[k].admin => reported("space_no_admin")
        /\ (\E g \in by[k].grants \cap DOMAIN MembersOf(areas) : MembersOf(areas)[g] = 0) =>
             reported("permission_grant_to_empty_group")
        /\ (\A l \in DOMAIN by : by[l].anonymous = "unknown") => Told(p, {"anonymous"})
        /\ by[k].hidden => Told(p, {"names", "members"})
        /\ by[k].grants \ DOMAIN MembersOf(areas) # {} => Told(p, {"names", "members"})
    BY <2>3, <2>4, PermissionSays, FindingIs, ToldBy
  <2>6. ASSUME NEW r \in site.perms[k], r.principal = "anonymous"
        PROVE  reported("anonymous_space_access") \/ Told(p, {"anonymous"})
    <3>1. CASE Cloud
      <4>1. \A l \in DOMAIN by : by[l].anonymous = "unknown"
        BY <2>3, <3>1 DEF Reduced
      <4>2. QED
        BY <2>5, <4>1
    <3>2. CASE ~Cloud
      <4>1. Reduced(k).anonymous = "yes"
        BY <2>6, <3>2 DEF Reduced
      <4>2. QED
        BY <2>3, <2>5, <4>1
    <3>3. QED
      BY <3>1, <3>2
  <2>7. ASSUME \A r \in site.perms[k] : r.op # "administer" PROVE reported("space_no_admin")
    <3>1. ~Reduced(k).admin
      BY <2>7 DEF Reduced
    <3>2. QED
      BY <2>3, <2>5, <3>1
  <2>8. ASSUME NEW r \in site.perms[k], NEW g \in r.names, site.members[g] = 0
        PROVE  reported("permission_grant_to_empty_group") \/ Told(p, {"names", "members"})
    <3>1. r.principal = "group"
      BY <2>8, WikiIs DEF ConfluenceSite
    <3>2. CASE Cloud
      <4>1. Reduced(k).hidden
        BY <3>1, <3>2 DEF Reduced
      <4>2. QED
        BY <2>3, <2>5, <4>1
    <3>3. CASE ~Cloud
      <4>1. g \in Reduced(k).grants
        BY <3>3 DEF Reduced
      <4>2. g \in by[k].grants
        BY <2>3, <4>1
      <4>3. CASE g \in DOMAIN MembersOf(areas)
        <5>1. MembersTrue(areas["groups"]) /\ MembersOf(areas) = areas["groups"].members
          BY <4>3 DEF WikiSnap, MembersOf
        <5>2. MembersOf(areas)[g] = 0
          BY <2>8, <4>3, <5>1 DEF MembersTrue
        <5>3. QED
          BY <2>5, <4>2, <4>3, <5>2
      <4>4. CASE g \notin DOMAIN MembersOf(areas)
        BY <2>5, <4>2, <4>4
      <4>5. QED
        BY <4>3, <4>4
    <3>4. QED
      BY <3>2, <3>3
  <2>9. QED
    BY <2>6, <2>7, <2>8
<1>3. QED
  BY <1>1, <1>2

\* The restricted pages of a space.
LEMMA RestrictionDangers ==
  ASSUME site \in Sites, site.product = "confluence", WikiSnap(areas, ideal, 8),
         findings = Coverage(areas) \cup ConfluenceRules(areas), NEW sp \in ToSet(site.spaces), sp.type = "global",
         site.pages[sp.key].restricted + site.pages[sp.key].beyond > 0
  PROVE  \/ \E f \in findings : f.area = "page_restrictions" /\ f.name = sp.key /\ f.kind = "restricted_pages"
         \/ Told("page_restrictions", {"unreadable", "sample"})
         \/ ~site.pages[sp.key].readable /\ \E l \in DOMAIN site.pages : site.pages[l].readable
<1> DEFINE k == sp.key
           p == "page_restrictions"
           by == RestrictionsOf(areas)
<1>1. CASE Told(p, {})
  BY <1>1, ToldMore
<1>2. CASE ~Told(p, {})
  <2>1. k \in GlobalKeys
    BY DEF GlobalKeys
  <2>2. /\ Evaluable(areas, p) /\ k \in DOMAIN areas[p].by_space /\ DOMAIN areas[p].by_space \subseteq GlobalKeys
        /\ \A l \in DOMAIN areas[p].by_space : areas[p].by_space[l] = Sampled(l)
    BY <1>2, <2>1, ProbeKnown DEF ProbedAreas
  <2>3. k \in DOMAIN by /\ DOMAIN by \subseteq GlobalKeys /\ \A l \in DOMAIN by : by[l] = Sampled(l)
    BY <2>2 DEF RestrictionsOf
  <2>4. RestrictionRules(areas) \subseteq findings
    BY DEF ConfluenceRules
  <2>5. /\ by[k].evaluable /\ by[k].restricted > 0 =>
             \E f \in findings : f.area = p /\ f.name = k /\ f.kind = "restricted_pages"
        /\ by[k].evaluable /\ by[k].more => Told(p, {"unreadable", "sample"})
        /\ (\A l \in DOMAIN by : ~by[l].evaluable) => Told(p, {"unreadable", "sample"})
    BY <2>3, <2>4, RestrictionSays, FindingIs, ToldBy
  <2>6. /\ site.pages[k].restricted \in Nat /\ site.pages[k].beyond \in Nat
        /\ site.pages[k].readable /\ site.pages[k].beyond > 0 => site.pages[k].more
        /\ GlobalKeys \subseteq DOMAIN site.pages
    BY WikiIs DEF ConfluenceSite, GlobalKeys
  <2>7. CASE site.pages[k].readable
    <3>1. by[k].evaluable /\ by[k].restricted = site.pages[k].restricted /\ by[k].more = site.pages[k].more
      BY <2>3, <2>7 DEF Sampled
    <3>2. CASE site.pages[k].restricted > 0
      BY <2>5, <3>1, <3>2
    <3>3. CASE ~(site.pages[k].restricted > 0)
      <4>1. site.pages[k].beyond > 0
        BY <2>6, <3>3
      <4>2. QED
        BY <2>5, <2>6, <2>7, <3>1, <4>1
    <3>4. QED
      BY <3>2, <3>3
  <2>8. CASE ~site.pages[k].readable
    <3>1. CASE \A l \in DOMAIN site.pages : ~site.pages[l].readable
      <4>1. \A l \in DOMAIN by : ~by[l].evaluable
        BY <2>3, <2>6, <3>1 DEF Sampled
      <4>2. QED
        BY <2>5, <4>1
    <3>2. QED
      BY <2>8, <3>1
  <2>9. QED
    BY <2>7, <2>8
<1>3. QED
  BY <1>1, <1>2

\* DangersDisclosed: a public space, a space without an administrator, a grant to an empty
\* group and a restricted page are reported, or the report says that this danger could not be
\* judged everywhere, unless the space is not global (NeverProbed) or its restrictions are
\* unreadable where those of another space are not (Drowned).
THEOREM DangersDisclosedHolds == Spec => []DangersDisclosed
<1>1. AuditInv => DangersDisclosed
  <2> SUFFICES ASSUME AuditInv, pc = "done", site.product = "confluence" PROVE DangersDisclosed
    BY DEF DangersDisclosed
  <2>1. /\ WikiSnap(areas, ideal, 8) /\ site \in Sites
        /\ findings = Coverage(areas) \cup ConfluenceRules(areas)
    BY Judgement DEF AuditInv, Rules
  <2>2. QED
    BY <2>1, PermissionDangers, RestrictionDangers DEF DangersDisclosed, Told, NeverProbed, Drowned
<1>2. QED
  BY <1>1, AuditCorrect, PTL
=============================================================================
