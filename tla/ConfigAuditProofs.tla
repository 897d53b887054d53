------------------------- MODULE ConfigAuditProofs --------------------------
(* Theorems about ConfigAudit for any pairs of sites, caps and failed reads:  *)
(* the report hides no gap that it does not disclose, narrowing hides none    *)
(* that a selected project uses, and no gap is made up.                       *)
EXTENDS ConfigAudit, FiniteSetTheorems, SequenceTheorems, WellFoundedInduction, TLAPS

-----------------------------------------------------------------------------
(* Numbers and the reads that fail.                                           *)

\* A set of naturals with an element has a least one.
LEMMA LeastOf ==
  ASSUME NEW T \in SUBSET Nat, T # {}
  PROVE  \E x \in T : \A y \in T : x <= y
<1> DEFINE R == OpToRel(<, Nat)
<1>1. IsWellFoundedOn(R, Nat)
  BY NatLessThanWellFounded
<1>2. \A x, y \in Nat : y < x => <<y, x>> \in R
  BY DEF OpToRel
<1> HIDE DEF R
<1>3. PICK x \in T : \A y \in T : ~ (<<y, x>> \in R)
  BY <1>1, WFMin
<1>4. ASSUME NEW y \in T PROVE x <= y
  <2>1. ~(y < x)
    BY <1>2, <1>3
  <2>2. QED
    BY <2>1
<1>5. QED
  BY <1>4

\* The sets of at most k reads, for each k up to n: there is such a function, by the least k
\* up to which there is none.
LEMMA FailingTable ==
  ASSUME NEW n \in Nat, NEW reads
  PROVE  \E g : /\ g = [k \in 0..n |-> IF k = 0 THEN {{}} ELSE Larger(g[k - 1], reads)]
                /\ Failing(n, reads) = g[n]
<1> DEFINE Step(g, k) == IF k = 0 THEN {{}} ELSE Larger(g[k - 1], reads)
           Is(g, m) == g = [k \in 0..m |-> Step(g, k)]
           Without == {m \in Nat : ~ \E g : Is(g, m)}
<1>1. Without = {}
  <2> SUFFICES ASSUME Without # {} PROVE FALSE
    OBVIOUS
  <2>1. PICK m \in Without : \A y \in Without : m <= y
    BY LeastOf
  <2>2. CASE m = 0
    <3>1. Is([k \in 0..0 |-> {{}}], 0)
      OBVIOUS
    <3>2. QED
      BY <2>1, <2>2, <3>1
  <2>3. CASE m # 0
    <3>1. m - 1 \in Nat /\ ~(m <= m - 1)
      BY <2>1, <2>3
    <3>2. PICK g : Is(g, m - 1)
      <4> HIDE DEF Is
      <4>1. m - 1 \notin Without
        BY <2>1, <3>1
      <4>2. QED
        BY <3>1, <4>1
    <3> DEFINE h == [k \in 0..m |-> IF k = m THEN Step(g, m) ELSE g[k]]
    <3>3. \A k \in 0..m : h[k] = Step(h, k)
      <4> TAKE k \in 0..m
      <4>1. CASE k = 0
        BY <2>3, <3>2, <4>1
      <4>2. CASE k # 0
        <5>1. h[k - 1] = g[k - 1]
          BY <4>2
        <5>2. Step(h, k) = Step(g, k)
          BY <5>1, <4>2
        <5>3. CASE k = m
          BY <5>2, <5>3
        <5>4. CASE k # m
          <6>1. k \in 0..(m - 1) /\ h[k] = g[k]
            BY <5>4
          <6>2. g[k] = Step(g, k)
            BY <6>1, <3>2
          <6>3. QED
            BY <6>1, <6>2, <5>2
        <5>5. QED
          BY <5>3, <5>4
      <4>3. QED
        BY <4>1, <4>2
    <3>4. Is(h, m)
      BY <3>3
    <3>5. QED
      BY <3>4, <2>1
  <2>4. QED
    BY <2>2, <2>3
<1>2. PICK g : Is(g, n)
  BY <1>1
<1>3. QED
  BY <1>2 DEF Failing

\* At most n reads fail.
LEMMA FailingIs ==
  ASSUME NEW n \in Nat, NEW reads, NEW G \in Failing(n, reads)
  PROVE  IsFiniteSet(G) /\ Cardinality(G) <= n /\ Cardinality(G) \in Nat
<1>1. PICK g : /\ g = [k \in 0..n |-> IF k = 0 THEN {{}} ELSE Larger(g[k - 1], reads)]
               /\ Failing(n, reads) = g[n]
  BY FailingTable
<1> DEFINE Few(F, k) == IsFiniteSet(F) /\ Cardinality(F) <= k /\ Cardinality(F) \in Nat
           Wrong == {k \in 0..n : ~ \A F \in g[k] : Few(F, k)}
<1>2. \A k \in 0..n : g[k] = IF k = 0 THEN {{}} ELSE Larger(g[k - 1], reads)
  BY <1>1
<1> HIDE DEF Few
<1>3. Wrong = {}
  <2> SUFFICES ASSUME Wrong # {} PROVE FALSE
    OBVIOUS
  <2>1. PICK k \in Wrong : \A y \in Wrong : k <= y
    <3>1. Wrong \subseteq Nat
      OBVIOUS
    <3> HIDE DEF Wrong
    <3>2. QED
      BY <3>1, LeastOf
  <2>2. PICK F \in g[k] : ~Few(F, k)
    BY <2>1
  <2>3. k # 0
    <3>1. Few({}, 0)
      BY FS_EmptySet DEF Few
    <3>2. QED
      BY <1>2, <2>2, <3>1
  <2>4. k - 1 \in 0..n /\ k - 1 \notin Wrong
    BY <2>1, <2>3
  <2>5. \A H \in g[k - 1] : Few(H, k - 1)
    BY <2>4
  <2>6. CASE F \in g[k - 1]
    <3>1. Few(F, k - 1) /\ k \in Nat
      BY <2>5, <2>6
    <3>2. QED
      BY <3>1, <2>2 DEF Few
  <2>7. ASSUME NEW H \in g[k - 1], NEW r \in reads, F = H \cup {r} PROVE FALSE
    <3>1. Few(H, k - 1) /\ k \in Nat
      BY <2>5
    <3>2. IsFiniteSet(F) /\ Cardinality(F) \in {Cardinality(H), Cardinality(H) + 1}
      BY <3>1, <2>7, FS_AddElement DEF Few
    <3>3. QED
      BY <3>1, <3>2, <2>2 DEF Few
  <2>8. F \in Larger(g[k - 1], reads)
    BY <2>2, <2>3, <1>2
  <2>9. F \in g[k - 1] \/ \E H \in g[k - 1] : \E r \in reads : F = H \cup {r}
    BY <2>8 DEF Larger
  <2>10. QED
    BY <2>9, <2>6, <2>7
<1>4. n \notin Wrong /\ n \in 0..n
  BY <1>3
<1>5. QED
  BY <1>1, <1>4 DEF Few

-----------------------------------------------------------------------------
(* What a snapshot holds at each stage.                                       *)

Rank == [lists |-> 0, scopes |-> 1, fields |-> 2, contexts |-> 3, workflows |-> 4, screens |-> 5,
         tabs |-> 6, projects |-> 7, compare |-> 8, done |-> 9]

\* What a side has of an area.
FullRows(a, s) ==
  CASE a = "custom_fields" -> site[s].fields
    [] a = "workflows" -> site[s].flows
    [] OTHER -> site[s].lists[a]

\* The record of an area that was read: a side without a failed read is there in full.
InFull(r, a) ==
  /\ {"skipped", "failed", "src", "tgt"} \subseteq DOMAIN r
  /\ ~r.skipped
  /\ \A s \in Sides : s \notin r.failed => r[s] = FullRows(a, s)
HasScope(r) == "scope" \in DOMAIN r /\ DOMAIN r.scope = {"ok", "keys"}

ScopedAt(a, n) ==
  \/ a \in ListScoped /\ n > 1
  \/ a = "screens" /\ n > 5
  \/ a = "workflows" /\ n > 4

AreasAt(n) ==
  (IF n > 0 THEN ListAreas ELSE {}) \cup (IF n > 2 THEN {"custom_fields"} ELSE {})
    \cup (IF n > 4 THEN {"workflows"} ELSE {}) \cup (IF n > 7 THEN ProjectAreas ELSE {})

ListOK(r, a, n) ==
  IF DcSide /\ a \in CloudOnly THEN r = Skip
  ELSE InFull(r, a) /\ IF ScopedAt(a, n) THEN HasScope(r) ELSE "scope" \notin DOMAIN r

\* The fields of the screens are those of the screens both sides have.
TabsOK(A) == \A s \in Sides : DOMAIN A["screens"].fields[s] = Keys(Common(A))

SnapOK(A, n) ==
  /\ DOMAIN A = AreasAt(n)
  /\ n > 0 => \A a \in ListAreas : ListOK(A[a], a, n)
  /\ n > 2 => InFull(A["custom_fields"], "custom_fields")
  /\ n > 3 => HasScope(A["custom_fields"])
  /\ n > 4 => InFull(A["workflows"], "workflows") /\ HasScope(A["workflows"])
  /\ n > 6 => TabsOK(A)
  /\ n > 7 => \A a \in ProjectAreas : A[a].skipped = FALSE /\ A[a].failed \subseteq Sides \X Projects

\* No read of the ideal snapshot failed.
Unfailed(I) == \A a \in DOMAIN I : ~I[a].skipped => I[a].failed = {}

\* The keys of the fields of the source a project sees, those behind a twin aside.
FieldsSeen ==
  {Norm(f.name) : f \in {f \in FirstOfName(site.src.fields) : f.seenBy \cap Projects # {}}}

\* An area that was read in full and is narrowed is narrowed as when no read fails, and to no
\* less than the selected projects use. The custom fields may be narrowed to more.
ScopeTrue(r, i, a) ==
  r.failed = {} /\ r.scope.ok => r.scope = i.scope /\ UsedKeys(a, FALSE) \subseteq r.scope.keys
FieldScopeTrue(r, i) ==
  r.failed = {} => /\ r.scope.ok => i.scope.ok
                   /\ i.scope.keys \subseteq r.scope.keys
                   /\ FieldsSeen \subseteq r.scope.keys
\* What a failed read leaves out on the target is left out, and nothing put in its place.
OptionsShort(r, i) ==
  r.failed = {} => \A m \in {f.name : f \in FirstOfName(site.tgt.fields)} : r.options.tgt[m] \subseteq i.options.tgt[m]
TabsShort(r, i) ==
  r.failed = {} => \A k \in DOMAIN r.fields.tgt \cap DOMAIN i.fields.tgt : r.fields.tgt[k] \subseteq i.fields.tgt[k]
Linked(A, I, n) ==
  /\ \A a \in DOMAIN Walk : ScopedAt(a, n) /\ ~A[a].skipped => ScopeTrue(A[a], I[a], a)
  /\ n > 3 => FieldScopeTrue(A["custom_fields"], I["custom_fields"]) /\ OptionsShort(A["custom_fields"], I["custom_fields"])
  /\ n > 6 => TabsShort(A["screens"], I["screens"])

AuditInv ==
  /\ site \in Sites
  /\ pc \in DOMAIN Rank
  /\ faults \in 0..MaxFaults
  /\ SnapOK(areas, Rank[pc]) /\ SnapOK(ideal, Rank[pc])
  /\ Unfailed(ideal)
  /\ Linked(areas, ideal, Rank[pc])
  /\ findings = IF pc = "done" THEN AllFindings(areas) ELSE {}

-----------------------------------------------------------------------------
(* Dictionaries and the areas.                                                *)

\* What an updated dictionary holds.
IsUpdate(h, f, g) ==
  /\ DOMAIN h = DOMAIN f \cup DOMAIN g
  /\ \A k \in DOMAIN f : h[k] = f[k]
  /\ \A k \in DOMAIN g : k \notin DOMAIN f => h[k] = g[k]
LEMMA UpdateIs ==
  ASSUME NEW f, NEW g
  PROVE  IsUpdate(f ++ g, f, g)
BY DEF IsUpdate, ++

\* The areas by their kind.
LEMMA AreaKinds ==
  /\ CloudOnly \subseteq ListAreas /\ ListScoped \subseteq ListAreas
  /\ "screens" \in ListAreas \ CloudOnly /\ "screens" \notin ListScoped
  /\ "custom_fields" \notin ListAreas \cup ProjectAreas \cup ListScoped
  /\ "workflows" \notin ListAreas \cup ProjectAreas \cup ListScoped
  /\ ProjectAreas \cap ListAreas = {}
  /\ DOMAIN Walk = ListScoped \cup {"screens", "workflows"}
BY DEF CloudOnly, ListAreas, ListScoped, ProjectAreas, Walk

\* A side none of whose pages failed is read in full.
Fresh(r, b, F) ==
  /\ InFull(r, b) /\ DOMAIN r = {"skipped", "error", "failed", "src", "tgt"}
  /\ F = {} => r.failed = {}
AreRows(rows, b) == \A s \in Sides : rows[s] = FullRows(b, s)
LEMMA TwoSidesIs ==
  ASSUME NEW a, NEW F, NEW b, NEW rows, AreRows(rows, b)
  PROVE  Fresh(TwoSides(a, F, rows), b, F)
<1> DEFINE r == TwoSides(a, F, rows)
<1>1. /\ DOMAIN r = {"skipped", "error", "failed", "src", "tgt"}
      /\ r.skipped = FALSE /\ r.failed = FailedSides(a, F)
      /\ r.src = Listed(rows["src"], "src", a, F) /\ r.tgt = Listed(rows["tgt"], "tgt", a, F)
  BY DEF TwoSides, Read, ++
<1>2. \A s \in Sides : r[s] = Listed(rows[s], s, a, F)
  BY <1>1 DEF Sides
<1>3. ASSUME NEW s \in Sides, s \notin FailedSides(a, F) PROVE Listed(rows[s], s, a, F) = rows[s]
  BY <1>3 DEF FailedSides, Pages, Listed, Cut
<1>4. F = {} => FailedSides(a, F) = {}
  BY DEF FailedSides
<1> HIDE DEF r
<1>5. InFull(r, b)
  BY <1>1, <1>2, <1>3 DEF InFull, AreRows
<1>6. QED
  BY <1>1, <1>4, <1>5 DEF r, Fresh

\* Attaching a scope to a record that was read.
WithScope(x, r, w) ==
  /\ x.scope = w /\ DOMAIN x = DOMAIN r \cup {"scope"}
  /\ \A k \in DOMAIN r : k # "scope" => x[k] = r[k]
  /\ \A a : InFull(r, a) => InFull(x, a) /\ x.failed = r.failed
LEMMA ScopeAdded ==
  ASSUME NEW r, NEW w
  PROVE  WithScope([scope |-> w] ++ r, r, w)
<1> DEFINE x == [scope |-> w] ++ r
<1>1. /\ x.scope = w /\ DOMAIN x = DOMAIN r \cup {"scope"}
      /\ \A k \in DOMAIN r : k # "scope" => x[k] = r[k]
  BY DEF ++
<1> HIDE DEF x
<1>2. ASSUME NEW a, InFull(r, a) PROVE InFull(x, a) /\ x.failed = r.failed
  <2>1. x.skipped = r.skipped /\ x.failed = r.failed /\ \A s \in Sides : x[s] = r[s]
    BY <1>1, <1>2 DEF InFull, Sides
  <2>2. QED
    BY <1>1, <1>2, <2>1 DEF InFull
<1>3. WithScope(x, r, w)
  BY <1>1, <1>2 DEF WithScope
<1>4. QED
  BY <1>3 DEF x


-----------------------------------------------------------------------------
(* The walks from projects to names.                                          *)

\* The first rows of a list are rows of it.
LEMMA FirstIn ==
  ASSUME NEW S, NEW rows \in Seq(S), NEW n \in Nat
  PROVE  ToSet(First(rows, n)) \subseteq S
<1>1. CASE n < Len(rows)
  <2>1. SubSeq(rows, 1, n) \in Seq(S)
    BY <1>1
  <2>2. QED
    BY <1>1, <2>1 DEF First, ToSet
<1>2. CASE ~(n < Len(rows))
  BY <1>2 DEF First, ToSet
<1>3. QED
  BY <1>1, <1>2

\* A walk finds the same in two snapshots that agree on the area.
LEMMA FoundSame ==
  ASSUME NEW a, NEW A, NEW I, a = "workflows" \/ \A s \in Sides : A[a][s] = I[a][s],
         a \in DOMAIN Walk, NEW s \in Sides, NEW p
  PROVE  Found(s, p, a, A) = Found(s, p, a, I)
<1>1. CASE a = "workflows"
  BY <1>1 DEF Found
<1>2. CASE a # "workflows"
  BY <1>2 DEF Found
<1>3. QED
  BY <1>1, <1>2

\* What both sides of a pair use, name by name.
LEMMA FoundBySidesIs ==
  ASSUME NEW a, NEW A
  PROVE  \A n : n \in FoundBySides(a, A) <=> \E s \in Sides : \E p \in Projects : n \in Found(s, p, a, A)
BY DEF FoundBySides

LEMMA ScopeIs ==
  ASSUME NEW ok, NEW names
  PROVE  /\ DOMAIN Scope(ok, names) = {"ok", "keys"}
         /\ Scope(ok, names).ok = (Scoping /\ ok)
         /\ Scope(ok, names).keys = {Norm(n) : n \in names}
BY DEF Scope

\* A walk narrows an area when scoping is on and it succeeded on both sides.
LEMMA WalkIs ==
  ASSUME NEW a, NEW A, NEW F
  PROVE  /\ DOMAIN WalkScope(a, A, F) = {"ok", "keys"}
         /\ WalkScope(a, A, F).ok = (Scoping /\ \A s \in Sides : Resolved(s, a, A, F))
         /\ Scoping => WalkScope(a, A, F) = Scope(\A s \in Sides : Resolved(s, a, A, F), FoundBySides(a, A))
<1>1. CASE ~Scoping
  <2>1. WalkScope(a, A, F) = Scope(FALSE, {})
    BY <1>1 DEF WalkScope
  <2>2. QED
    BY <1>1, <2>1, ScopeIs
<1>2. CASE Scoping
  <2> DEFINE ok == \A s \in Sides : Resolved(s, a, A, F)
  <2>1. WalkScope(a, A, F) = Scope(ok, FoundBySides(a, A))
    BY <1>2 DEF WalkScope
  <2> HIDE DEF ok
  <2>2. DOMAIN WalkScope(a, A, F) = {"ok", "keys"} /\ WalkScope(a, A, F).ok = (Scoping /\ ok)
    BY <2>1, ScopeIs
  <2>3. QED
    BY <2>1, <2>2 DEF ok
<1>3. QED
  BY <1>1, <1>2

\* A walk that succeeds narrows the area as one without failures does.
LEMMA WalkSame ==
  ASSUME NEW a, NEW A, NEW I, NEW F, a = "workflows" \/ \A s \in Sides : A[a][s] = I[a][s],
         a \in DOMAIN Walk, WalkScope(a, A, F).ok
  PROVE  WalkScope(a, A, F) = WalkScope(a, I, {})
<1>1. Scoping /\ \A s \in Sides : Resolved(s, a, A, F)
  BY WalkIs
<1>2. \A s \in Sides, p \in Projects : Found(s, p, a, A) = Found(s, p, a, I)
  BY FoundSame
<1>3. \A s \in Sides : Resolved(s, a, I, {})
  BY <1>1, <1>2 DEF Resolved
<1>4. FoundBySides(a, A) = FoundBySides(a, I)
  <2>1. \A n : n \in FoundBySides(a, A) <=> n \in FoundBySides(a, I)
    BY <1>2, FoundBySidesIs
  <2>2. QED
    BY <2>1 DEF FoundBySides
<1>5. (\A s \in Sides : Resolved(s, a, A, F)) = (\A s \in Sides : Resolved(s, a, I, {}))
  BY <1>1, <1>3
<1>6. QED
  BY <1>1, <1>4, <1>5, WalkIs

\* What a project uses on the source is found when the list of the area is complete: what
\* the schemes refer to exists.
LEMMA UsedFound ==
  ASSUME NEW a, NEW A, a \in DOMAIN Walk, site \in Sites, NEW p \in Projects,
         a = "workflows" \/ A[a]["src"] = site.src.lists[a]
  PROVE  Used(p, a, FALSE) \subseteq Found("src", p, a, A)
<1>1. SiteAssumption(site.src, Projects)
  BY SitesAssumption DEF Projects
<1>2. MappingPage \in Nat
  BY CapsAssumption
<1>3. CASE a = "screens"
  <2>1. SchemesUsed(p, FALSE) = Mapped("src", p, "screen_schemes")
    BY DEF SchemesUsed, Mapped
  <2>2. \A n \in Mapped("src", p, "screen_schemes") : site.src.screensOf[n] \subseteq ToSet(site.src.lists["screens"])
    <3> DEFINE S == {n \in DOMAIN site.src.screensOf : site.src.screensOf[n] \subseteq ToSet(site.src.lists["screens"])}
    <3>1. site.src.uses[p]["screen_schemes"] \in Seq(S)
      BY <1>1 DEF SiteAssumption
    <3> HIDE DEF S
    <3>2. Mapped("src", p, "screen_schemes") \subseteq S
      BY <1>2, <3>1, FirstIn DEF Mapped
    <3>3. QED
      BY <3>2 DEF S
  <2> DEFINE U == UNION {site.src.screensOf[n] : n \in Mapped("src", p, "screen_schemes")}
  <2>3. Used(p, a, FALSE) = U
    BY <1>3, <2>1 DEF Used
  <2>4. Found("src", p, a, A) = ToSet(site.src.lists["screens"]) \cap U
    <3>1. Found("src", p, "screens", A) = ToSet(A["screens"]["src"]) \cap U
      BY DEF Found
    <3> HIDE DEF U
    <3>2. QED
      BY <1>3, <3>1
  <2>5. U \subseteq ToSet(site.src.lists["screens"])
    BY <2>2
  <2> HIDE DEF U
  <2>6. QED
    BY <2>3, <2>4, <2>5
<1>4. CASE a \in {"issue_types", "field_configurations"}
  <2>1. site.src.uses[p][a] \in Seq(ToSet(site.src.lists[a]))
    BY <1>1, <1>4 DEF SiteAssumption
  <2>2. Mapped("src", p, a) \subseteq ToSet(site.src.lists[a])
    BY <1>2, <2>1, FirstIn DEF Mapped
  <2>3. Used(p, a, FALSE) = Mapped("src", p, a)
    BY <1>4 DEF Used
  <2>4. Found("src", p, a, A) = Mapped("src", p, a) \cap ToSet(site.src.lists[a])
    BY <1>4 DEF Found
  <2>5. QED
    BY <2>2, <2>3, <2>4
<1>5. CASE a = "screen_schemes"
  <2>1. Used(p, a, FALSE) = SchemesUsed(p, FALSE) /\ Found("src", p, a, A) = Mapped("src", p, a)
    BY <1>5 DEF Used, Found
  <2>2. QED
    BY <1>5, <2>1 DEF SchemesUsed, Mapped
<1>6. CASE a \notin {"screens", "issue_types", "field_configurations", "screen_schemes"}
  BY <1>6 DEF Used, Found
<1>7. QED
  BY <1>3, <1>4, <1>5, <1>6

\* So no narrowing that succeeds loses the key of something in use.
LEMMA UsedInScope ==
  ASSUME NEW a, NEW A, NEW F, a \in DOMAIN Walk, site \in Sites, WalkScope(a, A, F).ok,
         a = "workflows" \/ A[a]["src"] = site.src.lists[a]
  PROVE  UsedKeys(a, FALSE) \subseteq WalkScope(a, A, F).keys
<1>1. Scoping /\ WalkScope(a, A, F) = Scope(\A s \in Sides : Resolved(s, a, A, F), FoundBySides(a, A))
  BY WalkIs
<1>2. WalkScope(a, A, F).keys = {Norm(n) : n \in FoundBySides(a, A)}
  <2> DEFINE ok == \A s \in Sides : Resolved(s, a, A, F)
  <2>1. WalkScope(a, A, F) = Scope(ok, FoundBySides(a, A))
    BY <1>1
  <2> HIDE DEF ok
  <2>2. QED
    BY <2>1, ScopeIs
<1>3. \A p \in Projects : Used(p, a, FALSE) \subseteq Found("src", p, a, A)
  BY UsedFound
<1>4. "src" \in Sides
  BY DEF Sides
<1>5. \A p \in Projects : Used(p, a, FALSE) \subseteq FoundBySides(a, A)
  BY <1>3, <1>4, FoundBySidesIs
<1>6. \A p \in Projects : Keys(Used(p, a, FALSE)) \subseteq WalkScope(a, A, F).keys
  BY <1>2, <1>5 DEF Keys
<1>7. QED
  BY <1>6 DEF UsedKeys

-----------------------------------------------------------------------------
(* What each stage makes of a snapshot. The lemmas are about any snapshot, the *)
(* real one and the ideal one alike.                                          *)

\* The stages in order.
LEMMA RanksIs ==
  /\ DOMAIN Rank = {"lists", "scopes", "fields", "contexts", "workflows", "screens", "tabs",
                    "projects", "compare", "done"}
  /\ Rank["lists"] = 0 /\ Rank["scopes"] = 1 /\ Rank["fields"] = 2 /\ Rank["contexts"] = 3
  /\ Rank["workflows"] = 4 /\ Rank["screens"] = 5 /\ Rank["tabs"] = 6 /\ Rank["projects"] = 7
  /\ Rank["compare"] = 8 /\ Rank["done"] = 9
BY DEF Rank

\* The lists: in full, or with an error of a side.
LEMMA ListsSnap ==
  ASSUME NEW A, NEW F, NEW B, B = Lists(A, F) ++ A, SnapOK(A, 0)
  PROVE  SnapOK(B, 1) /\ (F = {} => Unfailed(B))
<1>1. DOMAIN Lists(A, F) = ListAreas /\ DOMAIN A = {}
  BY DEF Lists, SnapOK, AreasAt
<1> DEFINE X == Lists(A, F)
<1> HIDE DEF X
<1>2. DOMAIN B = ListAreas /\ \A a \in ListAreas : B[a] = X[a]
  <2>1. IsUpdate(B, X, A)
    BY UpdateIs DEF X
  <2>2. DOMAIN X = ListAreas
    BY <1>1 DEF X
  <2>3. QED
    BY <1>1, <2>1, <2>2 DEF IsUpdate
<1>3. ASSUME NEW a \in ListAreas
      PROVE  ListOK(B[a], a, 1) /\ (F = {} /\ ~B[a].skipped => B[a].failed = {})
  <2>1. CASE DcSide /\ a \in CloudOnly
    <3>1. B[a] = Skip
      BY <1>2, <2>1 DEF X, Lists
    <3>2. QED
      BY <2>1, <3>1 DEF ListOK, Skip
  <2>2. CASE ~(DcSide /\ a \in CloudOnly)
    <3>1. B[a] = TwoSides(a, F, ListRows(a))
      BY <1>2, <2>2 DEF X, Lists
    <3>2. AreRows(ListRows(a), a)
      BY AreaKinds DEF ListRows, FullRows, AreRows
    <3>3. Fresh(B[a], a, F)
      BY <3>1, <3>2, TwoSidesIs
    <3>4. ~ScopedAt(a, 1)
      BY AreaKinds DEF ScopedAt
    <3>5. QED
      BY <2>2, <3>3, <3>4 DEF ListOK, Skip, Fresh
  <2>3. QED
    BY <2>1, <2>2
<1>4. SnapOK(B, 1)
  BY <1>2, <1>3 DEF SnapOK, AreasAt
<1>5. QED
  BY <1>2, <1>3, <1>4 DEF Unfailed

\* The scopes of the lists, which leave the rows and their failures as they were.
LEMMA ScopesSnap ==
  ASSUME NEW A, NEW F, NEW B, B = Scopes(A, F) ++ A, SnapOK(A, 1)
  PROVE  /\ SnapOK(B, 2) /\ (Unfailed(A) => Unfailed(B))
         /\ \A a \in ListScoped : ~B[a].skipped =>
              InFull(A[a], a) /\ B[a].scope = WalkScope(a, A, F) /\ B[a].failed = A[a].failed
<1>1. DOMAIN A = ListAreas
  BY DEF SnapOK, AreasAt
<1>2. DOMAIN Scopes(A, F) = {a \in ListScoped : ~A[a].skipped}
  BY DEF Scopes
<1> DEFINE X == Scopes(A, F)
<1> HIDE DEF X
<1>9. IsUpdate(B, X, A) /\ DOMAIN X = {a \in ListScoped : ~A[a].skipped}
  BY <1>2, UpdateIs DEF X
<1>3. DOMAIN B = ListAreas /\ \A a \in ListAreas : ~(a \in ListScoped /\ ~A[a].skipped) => B[a] = A[a]
  BY <1>1, <1>9, AreaKinds DEF IsUpdate
<1>4. \A a \in ListScoped : ~A[a].skipped => B[a] = [scope |-> WalkScope(a, A, F)] ++ A[a]
  <2>1. \A a \in DOMAIN X : B[a] = X[a]
    BY <1>9 DEF IsUpdate
  <2>2. \A a \in DOMAIN X : X[a] = [scope |-> WalkScope(a, A, F)] ++ A[a]
    BY DEF X, Scopes
  <2>3. QED
    BY <1>9, <2>1, <2>2
<1>5. ASSUME NEW a \in ListAreas
      PROVE  /\ ListOK(B[a], a, 2) /\ (~B[a].skipped => ~A[a].skipped /\ B[a].failed = A[a].failed)
             /\ a \in ListScoped /\ ~B[a].skipped =>
                  InFull(A[a], a) /\ B[a].scope = WalkScope(a, A, F)
  <2>1. ListOK(A[a], a, 1) /\ a # "workflows"
    BY AreaKinds DEF SnapOK
  <2>2. CASE A[a].skipped
    <3>1. B[a] = A[a]
      BY <1>3, <2>2
    <3>2. DcSide /\ a \in CloudOnly /\ A[a] = Skip
      BY <2>1, <2>2 DEF ListOK, Skip, InFull
    <3>3. QED
      BY <3>1, <3>2 DEF ListOK, Skip
  <2>3. CASE ~A[a].skipped /\ a \in ListScoped
    <3>1. ~(DcSide /\ a \in CloudOnly) /\ InFull(A[a], a)
      BY <2>1, <2>3 DEF ListOK, Skip
    <3>2. B[a] = [scope |-> WalkScope(a, A, F)] ++ A[a]
      BY <1>4, <2>3
    <3>3. InFull(B[a], a) /\ HasScope(B[a]) /\ B[a].failed = A[a].failed /\ B[a].scope = WalkScope(a, A, F)
      <4>1. WithScope(B[a], A[a], WalkScope(a, A, F))
        BY <3>2, ScopeAdded
      <4>2. DOMAIN WalkScope(a, A, F) = {"ok", "keys"}
        BY WalkIs
      <4>3. QED
        BY <3>1, <4>1, <4>2 DEF HasScope, WithScope
    <3>4. ScopedAt(a, 2)
      BY <2>3 DEF ScopedAt
    <3>5. QED
      BY <2>3, <3>1, <3>3, <3>4 DEF ListOK, Skip
  <2>4. CASE ~A[a].skipped /\ a \notin ListScoped
    <3>1. B[a] = A[a] /\ ~(DcSide /\ a \in CloudOnly)
      BY <1>3, <2>1, <2>4 DEF ListOK, Skip
    <3>2. ~ScopedAt(a, 1) /\ ~ScopedAt(a, 2)
      BY <2>1, <2>4 DEF ScopedAt
    <3>3. QED
      BY <2>1, <2>4, <3>1, <3>2 DEF ListOK, Skip
  <2>5. QED
    BY <2>2, <2>3, <2>4
<1>6. SnapOK(B, 2)
  BY <1>3, <1>5 DEF SnapOK, AreasAt
<1>7. Unfailed(A) => Unfailed(B)
  BY <1>1, <1>3, <1>5 DEF Unfailed
<1>8. QED
  BY <1>5, <1>6, <1>7, AreaKinds

\* The areas a stage leaves alone stay as they were.
Kept(B, A, X, n) ==
  /\ DOMAIN B = AreasAt(n) \cup DOMAIN X
  /\ \A a \in DOMAIN X : B[a] = X[a]
  /\ \A a \in AreasAt(n) \ DOMAIN X : B[a] = A[a]
  /\ \A a \in ListAreas \ DOMAIN X : B[a] = A[a] /\ ListOK(B[a], a, n + 1)
LEMMA OthersKept ==
  ASSUME NEW A, NEW X, NEW B, B = X ++ A, NEW n \in 2..7, SnapOK(A, n),
         n = 5 => "screens" \in DOMAIN X
  PROVE  Kept(B, A, X, n)
<1>1. DOMAIN A = AreasAt(n) /\ ListAreas \subseteq AreasAt(n)
  BY DEF SnapOK, AreasAt
<1>2. IsUpdate(B, X, A)
  BY UpdateIs
<1>3. \A a \in ListAreas \ DOMAIN X : B[a] = A[a] /\ ListOK(A[a], a, n)
  BY <1>1, <1>2 DEF SnapOK, IsUpdate
<1>4. \A a \in ListAreas \ DOMAIN X : ScopedAt(a, n) <=> ScopedAt(a, n + 1)
  BY AreaKinds DEF ScopedAt
<1>5. \A a \in ListAreas \ DOMAIN X : ListOK(B[a], a, n + 1)
  BY <1>3, <1>4 DEF ListOK, Skip
<1>6. QED
  BY <1>1, <1>2, <1>3, <1>5 DEF IsUpdate, Kept

\* The screen whose fields are read depends on the list only, the screens both sides have on
\* the lists and on the scope they are narrowed to.
LEMMA ScreenSame ==
  ASSUME NEW A, NEW B, NEW s, B["screens"][s] = A["screens"][s], NEW k
  PROVE  ScreenOf(B, s, k) = ScreenOf(A, s, k)
<1> DEFINE Of(rows) ==
             rows[CHOOSE i \in DOMAIN rows : Norm(rows[i]) = k /\ \A j \in 1..(i - 1) : Norm(rows[j]) # k]
<1>1. ScreenOf(A, s, k) = Of(A["screens"][s]) /\ ScreenOf(B, s, k) = Of(B["screens"][s])
  BY DEF ScreenOf
<1> HIDE DEF Of
<1>2. QED
  BY <1>1

LEMMA InBothIs ==
  ASSUME NEW A, NEW B, \A s \in Sides : B["screens"][s] = A["screens"][s]
  PROVE  /\ \A n : n \in InBoth(A) <=> /\ n \in RowsIn(A, "screens", "src")
                                      /\ Norm(n) \in Keys(RowsIn(A, "screens", "tgt"))
                                      /\ n = ScreenOf(B, "src", Norm(n))
<1>1. \A k : ScreenOf(B, "src", k) = ScreenOf(A, "src", k)
  BY ScreenSame DEF Sides
<1>2. QED
  BY <1>1 DEF InBoth

LEMMA CommonIs ==
  ASSUME NEW A, NEW B, \A s \in Sides : B["screens"][s] = A["screens"][s],
         \A s \in Sides : RowsIn(B, "screens", s) = RowsIn(A, "screens", s)
  PROVE  Common(B) = Common(A)
<1>1. InBoth(B) = InBoth(A)
  <2>1. \A n : n \in InBoth(A) <=> /\ n \in RowsIn(A, "screens", "src")
                                 /\ Norm(n) \in Keys(RowsIn(A, "screens", "tgt"))
                                 /\ n = ScreenOf(B, "src", Norm(n))
    BY InBothIs
  <2>2. RowsIn(B, "screens", "src") = RowsIn(A, "screens", "src") /\ RowsIn(B, "screens", "tgt") = RowsIn(A, "screens", "tgt")
    BY DEF Sides
  <2>3. \A n : n \in InBoth(B) <=> n \in InBoth(A)
    BY <2>1, <2>2 DEF InBoth
  <2>4. QED
    BY <2>3 DEF InBoth
<1>2. B["screens"]["src"] = A["screens"]["src"]
  BY DEF Sides
<1>3. \A n : Before(B, n) = Before(A, n)
  BY <1>1, <1>2 DEF Before
<1>4. QED
  BY <1>1, <1>3 DEF Common

LEMMA CommonSame ==
  ASSUME NEW A, NEW B, HasScope(A["screens"]), HasScope(B["screens"]),
         \A s \in Sides : B["screens"][s] = A["screens"][s],
         B["screens"].scope = A["screens"].scope
  PROVE  Common(B) = Common(A)
<1>1. Narrowed(B, "screens") = Narrowed(A, "screens")
  BY DEF Narrowed, HasScope
<1>2. \A s \in Sides : RowsIn(B, "screens", s) = RowsIn(A, "screens", s)
  BY <1>1 DEF RowsIn
<1>3. QED
  BY <1>2, CommonIs

\* The custom fields of both sides.
LEMMA FieldsSnap ==
  ASSUME NEW A, NEW F, NEW B, B = FieldList(A, F) ++ A, SnapOK(A, 2)
  PROVE  /\ SnapOK(B, 3) /\ (F = {} /\ Unfailed(A) => Unfailed(B))
         /\ \A a \in ListAreas : B[a] = A[a]
<1> DEFINE X == FieldList(A, F)
           rows == [s \in Sides |-> site[s].fields]
<1>1. DOMAIN X = {"custom_fields"} /\ X["custom_fields"] = TwoSides("fields", F, rows)
  BY DEF FieldList
<1>2. AreRows(rows, "custom_fields")
  BY DEF AreRows, FullRows
<1> HIDE DEF X, rows
<1>3. Kept(B, A, X, 2)
  BY <1>1, OthersKept DEF X
<1>4. Fresh(B["custom_fields"], "custom_fields", F)
  BY <1>1, <1>2, <1>3, TwoSidesIs DEF Kept
<1>5. DOMAIN B = AreasAt(3) /\ \A a \in ListAreas : B[a] = A[a] /\ ListOK(B[a], a, 3)
  BY <1>1, <1>3, AreaKinds DEF Kept, AreasAt
<1>6. SnapOK(B, 3)
  BY <1>4, <1>5 DEF SnapOK, Fresh
<1>7. ASSUME F = {}, Unfailed(A) PROVE Unfailed(B)
  <2>1. \A a \in AreasAt(2) : a \in DOMAIN A /\ a \in ListAreas
    BY DEF SnapOK, AreasAt
  <2>2. QED
    BY <1>4, <1>5, <1>7, <2>1 DEF Unfailed, Fresh, AreasAt
<1>8. QED
  BY <1>5, <1>6, <1>7

\* The scope of the custom fields.
FieldsUsedIn(list, s, F) == {f.name : f \in {f \in FirstOfName(list[s]) : InScope(s, f, F)}}
FieldScope(list, F) ==
  Scope(\A s \in Sides : <<s, "ids", <<>>>> \notin F, FieldsUsedIn(list, "src", F) \cup FieldsUsedIn(list, "tgt", F))

FieldOptions(list, F) ==
  [s \in Sides |-> [m \in {f.name : f \in FirstOfName(list[s])} |->
                      OptionsOf(s, CHOOSE f \in FirstOfName(list[s]) : f.name = m, F)]]

LEMMA DetailSnap ==
  ASSUME NEW A, NEW F, NEW B, B = FieldDetail(A, F) ++ A, SnapOK(A, 3)
  PROVE  /\ SnapOK(B, 4) /\ (Unfailed(A) => Unfailed(B))
         /\ \A a \in ListAreas : B[a] = A[a]
         /\ B["custom_fields"].failed = A["custom_fields"].failed
         /\ B["custom_fields"].scope = FieldScope(A["custom_fields"], F)
         /\ B["custom_fields"].options = FieldOptions(A["custom_fields"], F)
<1> DEFINE X == FieldDetail(A, F)
           list == A["custom_fields"]
           kept(s) == FirstOfName(list[s])
           used(s) == {f.name : f \in {f \in kept(s) : InScope(s, f, F)}}
           w == Scope(\A s \in Sides : <<s, "ids", <<>>>> \notin F, used("src") \cup used("tgt"))
           opts == [s \in Sides |-> [n \in {f.name : f \in kept(s)} |->
                     OptionsOf(s, CHOOSE f \in kept(s) : f.name = n, F)]]
           r == B["custom_fields"]
           new == [scope |-> w, options |-> opts]
<1>1. DOMAIN X = {"custom_fields"} /\ X["custom_fields"] = new ++ list
  BY DEF FieldDetail
<1>2. DOMAIN new = {"scope", "options"} /\ new.scope = w /\ new.options = opts
  OBVIOUS
<1>3. DOMAIN w = {"ok", "keys"}
  <2> DEFINE ok == \A s \in Sides : <<s, "ids", <<>>>> \notin F
             names == used("src") \cup used("tgt")
  <2>1. w = Scope(ok, names)
    OBVIOUS
  <2> HIDE DEF ok, names, w
  <2>2. QED
    BY <2>1, ScopeIs
<1>14. opts = FieldOptions(list, F) /\ w = FieldScope(list, F)
  BY DEF FieldOptions, FieldScope, FieldsUsedIn
<1> HIDE DEF X, w, opts, new
<1>4. Kept(B, A, X, 3)
  BY <1>1, OthersKept DEF X
<1>5. r = new ++ list
  BY <1>1, <1>4 DEF Kept
<1>6. IsUpdate(r, new, list)
  BY <1>5, UpdateIs
<1>7. InFull(list, "custom_fields")
  BY DEF SnapOK
<1>8. /\ r.scope = w /\ "scope" \in DOMAIN r /\ r.options = opts
      /\ r.skipped = list.skipped /\ r.failed = list.failed /\ \A s \in Sides : r[s] = list[s]
      /\ DOMAIN list \subseteq DOMAIN r
  <2> HIDE DEF r, list
  <2>1. QED
    BY <1>2, <1>6, <1>7 DEF IsUpdate, InFull, Sides
<1>9. InFull(r, "custom_fields") /\ HasScope(r)
  BY <1>3, <1>7, <1>8 DEF InFull, HasScope
<1>10. DOMAIN B = AreasAt(4) /\ \A a \in ListAreas : B[a] = A[a] /\ ListOK(B[a], a, 4)
  BY <1>1, <1>4, AreaKinds DEF Kept, AreasAt
<1>11. SnapOK(B, 4)
  BY <1>9, <1>10 DEF SnapOK
<1>12. ASSUME Unfailed(A) PROVE Unfailed(B)
  <2>1. DOMAIN A = AreasAt(3)
    BY DEF SnapOK
  <2>2. QED
    BY <1>8, <1>10, <1>12, <2>1 DEF Unfailed, AreasAt
<1>13. QED
  BY <1>8, <1>10, <1>11, <1>12, <1>14

\* The workflows, and their scope.
LEMMA FlowsSnap ==
  ASSUME NEW A, NEW F, NEW B, B = Flows(A, F) ++ A, SnapOK(A, 4)
  PROVE  /\ SnapOK(B, 5) /\ (F = {} /\ Unfailed(A) => Unfailed(B))
         /\ \A a \in ListAreas \cup {"custom_fields"} : B[a] = A[a]
         /\ B["workflows"].scope = WalkScope("workflows", A, F)
<1> DEFINE X == Flows(A, F)
           rows == [s \in Sides |-> site[s].flows]
           list == TwoSides("workflows", F, rows)
           w == WalkScope("workflows", A, F)
<1>1. DOMAIN X = {"workflows"} /\ X["workflows"] = [scope |-> w] ++ list
  BY DEF Flows
<1>2. AreRows(rows, "workflows")
  BY DEF AreRows, FullRows
<1> HIDE DEF X, rows
<1>3. Kept(B, A, X, 4)
  BY <1>1, OthersKept DEF X
<1>4. Fresh(list, "workflows", F)
  BY <1>2, TwoSidesIs
<1>5. WithScope(B["workflows"], list, w)
  BY <1>1, <1>3, ScopeAdded DEF Kept
<1>6. DOMAIN w = {"ok", "keys"}
  BY WalkIs
<1> HIDE DEF list, w
<1>7. /\ InFull(B["workflows"], "workflows") /\ HasScope(B["workflows"])
      /\ B["workflows"].scope = w /\ (F = {} => B["workflows"].failed = {})
  BY <1>4, <1>5, <1>6 DEF Fresh, WithScope, HasScope
<1>8. /\ DOMAIN B = AreasAt(5) /\ \A a \in ListAreas : B[a] = A[a] /\ ListOK(B[a], a, 5)
      /\ B["custom_fields"] = A["custom_fields"]
  BY <1>1, <1>3, AreaKinds DEF Kept, AreasAt
<1>9. SnapOK(B, 5)
  BY <1>7, <1>8 DEF SnapOK
<1>10. ASSUME F = {}, Unfailed(A) PROVE Unfailed(B)
  <2>1. DOMAIN A = AreasAt(4)
    BY DEF SnapOK
  <2>2. QED
    BY <1>7, <1>8, <1>10, <2>1 DEF Unfailed, AreasAt
<1>11. QED
  BY <1>7, <1>8, <1>9, <1>10 DEF w

\* The scope of the screens.
LEMMA ScreensSnap ==
  ASSUME NEW A, NEW F, NEW B, B = Screens(A, F) ++ A, SnapOK(A, 5)
  PROVE  /\ SnapOK(B, 6) /\ (Unfailed(A) => Unfailed(B))
         /\ \A a \in DOMAIN A : a # "screens" => B[a] = A[a]
         /\ InFull(A["screens"], "screens") /\ B["screens"].failed = A["screens"].failed
         /\ B["screens"].scope = WalkScope("screens", A, F)
<1> DEFINE X == Screens(A, F)
           list == A["screens"]
           w == WalkScope("screens", A, F)
<1>1. DOMAIN X = {"screens"} /\ X["screens"] = [scope |-> w] ++ list
  BY DEF Screens
<1>2. InFull(list, "screens") /\ DOMAIN A = AreasAt(5)
  BY AreaKinds DEF SnapOK, ListOK, Skip
<1>3. DOMAIN w = {"ok", "keys"}
  BY WalkIs
<1> HIDE DEF X
<1>4. Kept(B, A, X, 5)
  BY <1>1, OthersKept DEF X
<1>5. WithScope(B["screens"], list, w)
  BY <1>1, <1>4, ScopeAdded DEF Kept
<1> HIDE DEF list, w
<1>6. /\ InFull(B["screens"], "screens") /\ HasScope(B["screens"])
      /\ B["screens"].scope = w /\ B["screens"].failed = list.failed
  BY <1>2, <1>3, <1>5 DEF WithScope, HasScope
<1>7. ListOK(B["screens"], "screens", 6)
  BY <1>6, AreaKinds DEF ListOK, Skip, ScopedAt
<1>8. /\ DOMAIN B = AreasAt(6) /\ \A a \in ListAreas : ListOK(B[a], a, 6)
      /\ \A a \in DOMAIN A : a # "screens" => B[a] = A[a]
  BY <1>1, <1>2, <1>4, <1>7, AreaKinds DEF Kept, AreasAt
<1>9. SnapOK(B, 6)
  BY <1>2, <1>8, AreaKinds DEF SnapOK, AreasAt
<1>10. ASSUME Unfailed(A) PROVE Unfailed(B)
  <2>1. ~B["screens"].skipped /\ ~A["screens"].skipped
    BY <1>2, <1>6 DEF InFull, list
  <2>2. AreasAt(5) = AreasAt(6) /\ "screens" \in AreasAt(5)
    BY AreaKinds DEF AreasAt
  <2>3. QED
    BY <1>2, <1>6, <1>8, <1>10, <2>1, <2>2 DEF Unfailed, list
<1>11. QED
  BY <1>2, <1>6, <1>8, <1>9, <1>10 DEF w, list

\* The fields of the screens both sides have.
ScreenFields(A, F) == [s \in Sides |-> [k \in Keys(Common(A)) |-> FieldsOn(s, ScreenOf(A, s, k), F)]]

LEMMA TabsSnap ==
  ASSUME NEW A, NEW F, NEW B, B = Tabs(A, F) ++ A, SnapOK(A, 6)
  PROVE  /\ SnapOK(B, 7) /\ (Unfailed(A) => Unfailed(B))
         /\ \A a \in DOMAIN A : a # "screens" => B[a] = A[a]
         /\ ~B["screens"].skipped /\ ~A["screens"].skipped
         /\ B["screens"].failed = A["screens"].failed /\ B["screens"].scope = A["screens"].scope
         /\ B["screens"].fields = ScreenFields(A, F)
<1> DEFINE X == Tabs(A, F)
           list == A["screens"]
           fields == [s \in Sides |-> [k \in Keys(Common(A)) |-> FieldsOn(s, ScreenOf(A, s, k), F)]]
           new == [fields |-> fields]
           r == B["screens"]
<1>1. DOMAIN X = {"screens"} /\ X["screens"] = new ++ list
  BY DEF Tabs
<1>2. ScopedAt("screens", 6) /\ InFull(list, "screens") /\ HasScope(list) /\ DOMAIN A = AreasAt(6)
  BY AreaKinds DEF SnapOK, ListOK, Skip, ScopedAt
<1>3. DOMAIN new = {"fields"} /\ new.fields = fields /\ \A s \in Sides : DOMAIN fields[s] = Keys(Common(A))
  OBVIOUS
<1> HIDE DEF X, fields, new
<1>4. Kept(B, A, X, 6)
  BY <1>1, OthersKept DEF X
<1>5. r = new ++ list
  BY <1>1, <1>4 DEF Kept
<1>6. IsUpdate(r, new, list)
  BY <1>5, UpdateIs
<1>7. /\ r.fields = fields /\ "scope" \in DOMAIN r /\ r.scope = list.scope
      /\ r.skipped = list.skipped /\ r.failed = list.failed /\ \A s \in Sides : r[s] = list[s]
      /\ DOMAIN list \subseteq DOMAIN r
  <2> HIDE DEF r, list
  <2>1. QED
    BY <1>2, <1>3, <1>6 DEF IsUpdate, InFull, HasScope, Sides
<1>8. InFull(r, "screens") /\ HasScope(r)
  BY <1>2, <1>7 DEF InFull, HasScope
<1>9. ListOK(r, "screens", 7)
  BY <1>8, AreaKinds DEF ListOK, Skip, ScopedAt
<1>10. /\ DOMAIN B = AreasAt(7) /\ \A a \in ListAreas : ListOK(B[a], a, 7)
       /\ \A a \in DOMAIN A : a # "screens" => B[a] = A[a]
  BY <1>1, <1>2, <1>4, <1>9, AreaKinds DEF Kept, AreasAt
<1>11. Common(B) = Common(A)
  BY <1>2, <1>7, <1>8, CommonSame
<1>12. TabsOK(B)
  BY <1>3, <1>7, <1>11 DEF TabsOK
<1>13. SnapOK(B, 7)
  BY <1>2, <1>10, <1>12, AreaKinds DEF SnapOK, AreasAt
<1>14. ASSUME Unfailed(A) PROVE Unfailed(B)
  <2>1. AreasAt(6) = AreasAt(7) /\ "screens" \in AreasAt(6)
    BY AreaKinds DEF AreasAt
  <2>2. QED
    BY <1>2, <1>7, <1>10, <1>14, <2>1 DEF Unfailed
<1>15. fields = ScreenFields(A, F)
  BY DEF fields, ScreenFields
<1>16. QED
  BY <1>2, <1>7, <1>8, <1>10, <1>13, <1>14, <1>15 DEF InFull

\* What belongs to one project.
LEMMA ProjectsSnap ==
  ASSUME NEW A, NEW F, NEW B, B = ProjectLists(A, F) ++ A, SnapOK(A, 7)
  PROVE  /\ SnapOK(B, 8) /\ (F = {} /\ Unfailed(A) => Unfailed(B))
         /\ \A a \in DOMAIN A : B[a] = A[a]
<1> DEFINE X == ProjectLists(A, F)
           hit(a) == {w \in Sides \X Projects : <<w[1], w[2], a>> \in F}
<1>1. DOMAIN X = ProjectAreas /\ \A a \in ProjectAreas : X[a] = Read(FALSE, [failed |-> hit(a)])
  BY DEF ProjectLists
<1>2. \A a \in ProjectAreas : X[a].skipped = FALSE /\ X[a].failed = hit(a) /\ hit(a) \subseteq Sides \X Projects
  BY <1>1 DEF Read, ++
<1>3. F = {} => \A a \in ProjectAreas : X[a].failed = {}
  <2>1. F = {} => \A a \in ProjectAreas : hit(a) = {}
    OBVIOUS
  <2>2. QED
    BY <1>2, <2>1
<1> HIDE DEF X, hit
<1>4. Kept(B, A, X, 7)
  BY OthersKept DEF X
<1>5. DOMAIN A = AreasAt(7) /\ ProjectAreas \cap AreasAt(7) = {}
  BY AreaKinds DEF SnapOK, AreasAt
<1>6. /\ DOMAIN B = AreasAt(8) /\ \A a \in ListAreas : ListOK(B[a], a, 8)
      /\ \A a \in DOMAIN A : B[a] = A[a]
      /\ \A a \in ProjectAreas : B[a] = X[a]
  BY <1>1, <1>4, <1>5, AreaKinds DEF Kept, AreasAt
<1>7. "custom_fields" \in DOMAIN A /\ "workflows" \in DOMAIN A /\ "screens" \in DOMAIN A
  BY <1>5, AreaKinds DEF AreasAt
<1>8. B["screens"] = A["screens"] /\ TabsOK(A) /\ HasScope(A["screens"])
  BY <1>6, <1>7, AreaKinds DEF SnapOK, ListOK, Skip, ScopedAt
<1>9. TabsOK(B)
  <2>1. Common(B) = Common(A)
    BY <1>8, CommonSame
  <2>2. QED
    BY <1>8, <2>1 DEF TabsOK
<1>10. SnapOK(B, 8)
  BY <1>2, <1>6, <1>7, <1>9 DEF SnapOK
<1>11. ASSUME F = {}, Unfailed(A) PROVE Unfailed(B)
  <2>1. AreasAt(8) = AreasAt(7) \cup ProjectAreas
    BY DEF AreasAt
  <2>2. \A a \in ProjectAreas : B[a].failed = {}
    BY <1>3, <1>6, <1>11
  <2>3. \A a \in AreasAt(7) : ~B[a].skipped => B[a].failed = {}
    BY <1>5, <1>6, <1>11 DEF Unfailed
  <2>4. QED
    BY <1>6, <2>1, <2>2, <2>3 DEF Unfailed
<1>12. QED
  BY <1>6, <1>10, <1>11

-----------------------------------------------------------------------------
(* What the scopes are worth.                                                 *)

\* A walk over lists that are complete narrows as the walk without failures does, and to no
\* less than the selected projects use.
LEMMA WalkTrue ==
  ASSUME NEW a \in DOMAIN Walk, NEW A, NEW I, NEW F, NEW r, NEW i, site \in Sites,
         r.scope = WalkScope(a, A, F), i.scope = WalkScope(a, I, {}),
         a # "workflows" => /\ r.failed = A[a].failed /\ I[a].failed = {}
                            /\ InFull(A[a], a) /\ InFull(I[a], a)
  PROVE  ScopeTrue(r, i, a)
<1> SUFFICES ASSUME r.failed = {}, r.scope.ok
             PROVE  r.scope = i.scope /\ UsedKeys(a, FALSE) \subseteq r.scope.keys
  BY DEF ScopeTrue
<1> WalkScope(a, A, F).ok
  OBVIOUS
<1>1. CASE a = "workflows"
  <2>1. WalkScope(a, A, F) = WalkScope(a, I, {})
    BY <1>1, WalkSame
  <2>2. UsedKeys(a, FALSE) \subseteq WalkScope(a, A, F).keys
    BY <1>1, UsedInScope
  <2>3. QED
    BY <2>1, <2>2
<1>2. CASE a # "workflows"
  <2>1. \A s \in Sides : A[a][s] = FullRows(a, s) /\ I[a][s] = FullRows(a, s)
    BY <1>2 DEF InFull
  <2>2. FullRows(a, "src") = site.src.lists[a] /\ "src" \in Sides
    BY <1>2, AreaKinds DEF FullRows, Sides
  <2>3. A[a]["src"] = site.src.lists[a] /\ \A s \in Sides : A[a][s] = I[a][s]
    BY <2>1, <2>2
  <2>4. WalkScope(a, A, F) = WalkScope(a, I, {})
    BY <2>3, WalkSame
  <2>5. UsedKeys(a, FALSE) \subseteq WalkScope(a, A, F).keys
    BY <2>3, UsedInScope
  <2>6. QED
    BY <2>4, <2>5
<1>3. QED
  BY <1>1, <1>2

\* Stage by stage, the scopes of the real snapshot against those of the ideal one.
LEMMA ScopesLinked ==
  ASSUME NEW A, NEW I, NEW F, NEW B, NEW J, site \in Sites,
         B = Scopes(A, F) ++ A, J = Scopes(I, {}) ++ I, SnapOK(A, 1), SnapOK(I, 1), Unfailed(I)
  PROVE  Linked(B, J, 2)
<1>1. ASSUME NEW a \in ListScoped, ~B[a].skipped PROVE ScopeTrue(B[a], J[a], a)
  <2>1. InFull(A[a], a) /\ B[a].scope = WalkScope(a, A, F) /\ B[a].failed = A[a].failed
    BY <1>1, ScopesSnap
  <2>2. SnapOK(B, 2) /\ SnapOK(J, 2)
    BY ScopesSnap
  <2>3. ListOK(B[a], a, 2) /\ ListOK(J[a], a, 2)
    BY <2>2, AreaKinds DEF SnapOK
  <2>4. ~J[a].skipped
    BY <1>1, <2>3 DEF ListOK, InFull, Skip
  <2>5. InFull(I[a], a) /\ J[a].scope = WalkScope(a, I, {})
    BY <2>4, ScopesSnap
  <2>6. I[a].failed = {}
    BY <2>5, AreaKinds DEF SnapOK, AreasAt, Unfailed, InFull
  <2>7. a \in DOMAIN Walk
    BY AreaKinds
  <2>8. QED
    BY <2>1, <2>5, <2>6, <2>7, WalkTrue
<1>2. QED
  BY <1>1, AreaKinds DEF Linked, ScopedAt

LEMMA FieldsLinked ==
  ASSUME NEW A, NEW I, NEW F, NEW B, NEW J,
         B = FieldList(A, F) ++ A, J = FieldList(I, {}) ++ I, SnapOK(A, 2), SnapOK(I, 2), Linked(A, I, 2)
  PROVE  Linked(B, J, 3)
<1>1. (\A a \in ListAreas : B[a] = A[a]) /\ \A a \in ListAreas : J[a] = I[a]
  BY FieldsSnap
<1>2. \A a \in DOMAIN Walk : ScopedAt(a, 3) => ScopedAt(a, 2) /\ a \in ListAreas
  BY AreaKinds DEF ScopedAt
<1>3. QED
  BY <1>1, <1>2 DEF Linked

\* The options of a field and the fields of a screen, when reads of them fail.
LEMMA LessRead ==
  ASSUME NEW s, NEW f, NEW F
  PROVE  OptionsOf(s, f, F) \subseteq OptionsOf(s, f, {}) /\ FieldsOn(s, f, F) \subseteq FieldsOn(s, f, {})
<1>1. OptionsOf(s, f, F) \subseteq OptionsOf(s, f, {})
  BY DEF OptionsOf
<1>2. FieldsOn(s, f, F) \subseteq FieldsOn(s, f, {})
  BY DEF FieldsOn
<1>3. QED
  BY <1>1, <1>2

LEMMA DetailLinked ==
  ASSUME NEW A, NEW I, NEW F, NEW B, NEW J,
         B = FieldDetail(A, F) ++ A, J = FieldDetail(I, {}) ++ I, SnapOK(A, 3), SnapOK(I, 3),
         Unfailed(I), Linked(A, I, 3)
  PROVE  Linked(B, J, 4)
<1> DEFINE r == B["custom_fields"]
           i == J["custom_fields"]
           list == A["custom_fields"]
           full == I["custom_fields"]
<1>1. r.scope = FieldScope(list, F) /\ r.failed = list.failed /\ \A a \in ListAreas : B[a] = A[a]
  BY DetailSnap
<1>2. i.scope = FieldScope(full, {}) /\ \A a \in ListAreas : J[a] = I[a]
  BY DetailSnap
<1>4. FieldScopeTrue(r, i)
  <2> SUFFICES ASSUME list.failed = {}
               PROVE  /\ r.scope.ok => i.scope.ok
                      /\ i.scope.keys \subseteq r.scope.keys
                      /\ FieldsSeen \subseteq r.scope.keys
    BY <1>1 DEF FieldScopeTrue
  <2>1. /\ InFull(list, "custom_fields") /\ InFull(full, "custom_fields")
        /\ full.failed = {}
    BY DEF SnapOK, AreasAt, Unfailed, InFull
  <2>2. \A s \in Sides : list[s] = site[s].fields /\ full[s] = site[s].fields
    BY <2>1 DEF InFull, FullRows
  <2>3. \A s \in Sides : \A f : InScope(s, f, {}) => InScope(s, f, F)
    BY DEF InScope
  <2>4. \A s \in Sides : FieldsUsedIn(full, s, {}) \subseteq FieldsUsedIn(list, s, F)
    BY <2>2, <2>3 DEF FieldsUsedIn
  <2> DEFINE okr == \A s \in Sides : <<s, "ids", <<>>>> \notin F
             oki == \A s \in Sides : <<s, "ids", <<>>>> \notin {}
             namesr == FieldsUsedIn(list, "src", F) \cup FieldsUsedIn(list, "tgt", F)
             namesi == FieldsUsedIn(full, "src", {}) \cup FieldsUsedIn(full, "tgt", {})
  <2>5. namesi \subseteq namesr
    BY <2>4 DEF Sides
  <2>6. {f.name : f \in {f \in FirstOfName(site.src.fields) : f.seenBy \cap Projects # {}}} \subseteq namesr
    <3>1. list["src"] = site.src.fields
      BY <2>2 DEF Sides
    <3>2. QED
      BY <3>1 DEF InScope, FieldsUsedIn
  <2>11. r.scope = Scope(okr, namesr) /\ i.scope = Scope(oki, namesi) /\ oki
    BY <1>1, <1>2 DEF FieldScope
  <2> HIDE DEF namesi, namesr, okr, oki, r, i
  <2>7. r.scope.keys = {Norm(n) : n \in namesr} /\ i.scope.keys = {Norm(n) : n \in namesi}
    BY <2>11, ScopeIs
  <2>8. r.scope.ok => i.scope.ok
    <3>1. Scope(okr, namesr).ok = (Scoping /\ okr)
      BY ScopeIs
    <3>2. Scope(oki, namesi).ok = (Scoping /\ oki)
      BY ScopeIs
    <3>3. QED
      BY <2>11, <3>1, <3>2
  <2>9. FieldsSeen \subseteq r.scope.keys
    BY <2>6, <2>7 DEF FieldsSeen
  <2>10. QED
    BY <2>5, <2>7, <2>8, <2>9
<1>7. OptionsShort(r, i)
  <2> SUFFICES ASSUME list.failed = {}, NEW m \in {f.name : f \in FirstOfName(site.tgt.fields)}
               PROVE  r.options.tgt[m] \subseteq i.options.tgt[m]
    BY <1>1 DEF OptionsShort
  <2>1. InFull(list, "custom_fields") /\ InFull(full, "custom_fields") /\ full.failed = {}
    BY DEF SnapOK, AreasAt, Unfailed, InFull
  <2>2. list["tgt"] = site.tgt.fields /\ full["tgt"] = site.tgt.fields
    BY <2>1 DEF InFull, FullRows, Sides
  <2> DEFINE Of(rows, G) == OptionsOf("tgt", CHOOSE f \in FirstOfName(rows) : f.name = m, G)
  <2>3. FieldOptions(list, F).tgt[m] = Of(list["tgt"], F) /\ FieldOptions(full, {}).tgt[m] = Of(full["tgt"], {})
    <3>1. m \in {f.name : f \in FirstOfName(list["tgt"])} /\ m \in {f.name : f \in FirstOfName(full["tgt"])}
      BY <2>2
    <3>2. QED
      BY <3>1 DEF FieldOptions, Sides
  <2>4. \A rows : Of(rows, F) \subseteq Of(rows, {})
    BY LessRead
  <2> HIDE DEF Of
  <2>5. r.options = FieldOptions(list, F) /\ i.options = FieldOptions(full, {})
    BY DetailSnap
  <2>6. QED
    BY <2>2, <2>3, <2>4, <2>5
<1>5. \A a \in DOMAIN Walk : ScopedAt(a, 4) /\ ~B[a].skipped => ScopeTrue(B[a], J[a], a)
  <2>1. \A a \in DOMAIN Walk : ScopedAt(a, 4) => ScopedAt(a, 3) /\ a \in ListAreas
    BY AreaKinds DEF ScopedAt
  <2>2. QED
    BY <1>1, <1>2, <2>1 DEF Linked
<1>6. QED
  BY <1>4, <1>5, <1>7 DEF Linked

LEMMA FlowsLinked ==
  ASSUME NEW A, NEW I, NEW F, NEW B, NEW J, site \in Sites,
         B = Flows(A, F) ++ A, J = Flows(I, {}) ++ I, SnapOK(A, 4), SnapOK(I, 4), Linked(A, I, 4)
  PROVE  Linked(B, J, 5)
<1>1. /\ B["workflows"].scope = WalkScope("workflows", A, F)
      /\ \A a \in ListAreas \cup {"custom_fields"} : B[a] = A[a]
  BY FlowsSnap
<1>2. /\ J["workflows"].scope = WalkScope("workflows", I, {})
      /\ \A a \in ListAreas \cup {"custom_fields"} : J[a] = I[a]
  BY FlowsSnap
<1>3. ScopeTrue(B["workflows"], J["workflows"], "workflows")
  BY <1>1, <1>2, WalkTrue, AreaKinds
<1>4. \A a \in DOMAIN Walk : ScopedAt(a, 5) => a = "workflows" \/ (ScopedAt(a, 4) /\ a \in ListAreas)
  BY AreaKinds DEF ScopedAt
<1>5. QED
  BY <1>1, <1>2, <1>3, <1>4 DEF Linked

LEMMA ScreensLinked ==
  ASSUME NEW A, NEW I, NEW F, NEW B, NEW J, site \in Sites,
         B = Screens(A, F) ++ A, J = Screens(I, {}) ++ I, SnapOK(A, 5), SnapOK(I, 5), Unfailed(I),
         Linked(A, I, 5)
  PROVE  Linked(B, J, 6)
<1>1. /\ InFull(A["screens"], "screens") /\ B["screens"].failed = A["screens"].failed
      /\ B["screens"].scope = WalkScope("screens", A, F)
      /\ \A a \in DOMAIN A : a # "screens" => B[a] = A[a]
  BY ScreensSnap
<1>2. /\ InFull(I["screens"], "screens")
      /\ J["screens"].scope = WalkScope("screens", I, {})
      /\ \A a \in DOMAIN I : a # "screens" => J[a] = I[a]
  BY ScreensSnap
<1>3. DOMAIN A = AreasAt(5) /\ DOMAIN I = AreasAt(5)
  BY DEF SnapOK
<1>4. I["screens"].failed = {}
  BY <1>2, <1>3, AreaKinds DEF Unfailed, InFull, AreasAt
<1>5. ScopeTrue(B["screens"], J["screens"], "screens")
  BY <1>1, <1>2, <1>4, WalkTrue, AreaKinds
<1>6. \A a \in DOMAIN Walk : ScopedAt(a, 6) => a = "screens" \/ (ScopedAt(a, 5) /\ a \in AreasAt(5) /\ a # "screens")
  BY AreaKinds DEF ScopedAt, AreasAt
<1>7. "custom_fields" \in AreasAt(5) /\ "custom_fields" # "screens"
  BY AreaKinds DEF AreasAt
<1>8. QED
  BY <1>1, <1>2, <1>3, <1>5, <1>6, <1>7 DEF Linked

LEMMA TabsLinked ==
  ASSUME NEW A, NEW I, NEW F, NEW B, NEW J,
         B = Tabs(A, F) ++ A, J = Tabs(I, {}) ++ I, SnapOK(A, 6), SnapOK(I, 6), Unfailed(I), Linked(A, I, 6)
  PROVE  Linked(B, J, 7)
<1>1. /\ ~A["screens"].skipped
      /\ B["screens"].failed = A["screens"].failed /\ B["screens"].scope = A["screens"].scope
      /\ \A a \in DOMAIN A : a # "screens" => B[a] = A[a]
  BY TabsSnap
<1>2. /\ J["screens"].scope = I["screens"].scope
      /\ \A a \in DOMAIN I : a # "screens" => J[a] = I[a]
  BY TabsSnap
<1>3. DOMAIN A = AreasAt(6) /\ DOMAIN I = AreasAt(6)
  BY DEF SnapOK
<1>4. ScopeTrue(B["screens"], J["screens"], "screens")
  <2>1. ScopeTrue(A["screens"], I["screens"], "screens")
    BY <1>1, AreaKinds DEF Linked, ScopedAt
  <2>2. QED
    BY <1>1, <1>2, <2>1 DEF ScopeTrue
<1>5. \A a \in DOMAIN Walk : ScopedAt(a, 7) => a = "screens" \/ (ScopedAt(a, 6) /\ a \in AreasAt(6) /\ a # "screens")
  BY AreaKinds DEF ScopedAt, AreasAt
<1>6. "custom_fields" \in AreasAt(6) /\ "custom_fields" # "screens"
  BY AreaKinds DEF AreasAt
<1>7. TabsShort(B["screens"], J["screens"])
  <2> SUFFICES ASSUME A["screens"].failed = {},
                      NEW k \in DOMAIN B["screens"].fields.tgt \cap DOMAIN J["screens"].fields.tgt
               PROVE  B["screens"].fields.tgt[k] \subseteq J["screens"].fields.tgt[k]
    BY <1>1 DEF TabsShort
  <2>1. InFull(A["screens"], "screens") /\ InFull(I["screens"], "screens")
    BY AreaKinds DEF SnapOK, ListOK, Skip
  <2>2. I["screens"].failed = {}
    BY <2>1, <1>3, AreaKinds DEF Unfailed, InFull, AreasAt
  <2>3. A["screens"]["tgt"] = I["screens"]["tgt"]
    BY <2>1, <2>2 DEF InFull, Sides
  <2>4. B["screens"].fields = ScreenFields(A, F) /\ J["screens"].fields = ScreenFields(I, {})
    BY TabsSnap
  <2>5. /\ B["screens"].fields.tgt[k] = FieldsOn("tgt", ScreenOf(A, "tgt", k), F)
        /\ J["screens"].fields.tgt[k] = FieldsOn("tgt", ScreenOf(I, "tgt", k), {})
    BY <2>4 DEF ScreenFields, Sides
  <2>6. ScreenOf(A, "tgt", k) = ScreenOf(I, "tgt", k)
    BY <2>3, ScreenSame
  <2>7. QED
    BY <2>5, <2>6, LessRead
<1>8. QED
  BY <1>1, <1>2, <1>3, <1>4, <1>5, <1>6, <1>7 DEF Linked

LEMMA ProjectsLinked ==
  ASSUME NEW A, NEW I, NEW F, NEW B, NEW J,
         B = ProjectLists(A, F) ++ A, J = ProjectLists(I, {}) ++ I, SnapOK(A, 7), SnapOK(I, 7), Linked(A, I, 7)
  PROVE  Linked(B, J, 8)
<1>1. (\A a \in DOMAIN A : B[a] = A[a]) /\ \A a \in DOMAIN I : J[a] = I[a]
  BY ProjectsSnap
<1>2. DOMAIN A = AreasAt(7) /\ DOMAIN I = AreasAt(7)
  BY DEF SnapOK
<1>3. \A a \in DOMAIN Walk : a \in AreasAt(7) /\ (ScopedAt(a, 8) => ScopedAt(a, 7))
  BY AreaKinds DEF ScopedAt, AreasAt
<1>4. "custom_fields" \in AreasAt(7) /\ "screens" \in AreasAt(7)
  BY AreaKinds DEF AreasAt
<1>5. QED
  BY <1>1, <1>2, <1>3, <1>4 DEF Linked

-----------------------------------------------------------------------------
(* The invariant.                                                             *)

\* What is said of a snapshot stays true as long as the sites do not change.
LEMMA SnapFrame ==
  ASSUME site' = site, NEW A, NEW n, SnapOK(A, n)
  PROVE  SnapOK(A, n)'
<1>1. (DcSide <=> DcSide') /\ Projects' = Projects
  BY DEF DcSide, Projects
<1>2. \A a, s : FullRows(a, s)' = FullRows(a, s)
  BY DEF FullRows
<1>3. \A r, a : InFull(r, a) => InFull(r, a)'
  BY <1>2 DEF InFull
<1>4. Common(A)' = Common(A)
  BY DEF Common, InBoth, Before, ScreenOf, RowsIn, Narrowed, Keys
<1>5. \A r, a : ListOK(r, a, n) => ListOK(r, a, n)'
  BY <1>1, <1>3 DEF ListOK, HasScope
<1>6. TabsOK(A) => TabsOK(A)'
  BY <1>4 DEF TabsOK, Keys
<1>7. QED
  BY <1>1, <1>3, <1>5, <1>6 DEF SnapOK, HasScope

LEMMA LinkFrame ==
  ASSUME site' = site, NEW A, NEW I, NEW n, Linked(A, I, n)
  PROVE  Linked(A, I, n)'
<1>1. Projects' = Projects
  BY DEF Projects
<1>2. FieldsSeen' = FieldsSeen
  BY <1>1 DEF FieldsSeen
<1>3. \A a : UsedKeys(a, FALSE)' = UsedKeys(a, FALSE)
  BY <1>1 DEF UsedKeys, Used, SchemesUsed, Mapped
<1>4. \A r, i, a : ScopeTrue(r, i, a) => ScopeTrue(r, i, a)'
  BY <1>3 DEF ScopeTrue
<1>5. \A r, i : FieldScopeTrue(r, i) => FieldScopeTrue(r, i)'
  BY <1>2 DEF FieldScopeTrue
<1>6. \A r, i : OptionsShort(r, i) => OptionsShort(r, i)'
  BY DEF OptionsShort
<1>7. \A r, i : TabsShort(r, i) => TabsShort(r, i)'
  BY DEF TabsShort
<1>8. QED
  BY <1>4, <1>5, <1>6, <1>7 DEF Linked

\* A stage that leaves sound snapshots behind keeps the invariant.
LEMMA StageKeeps ==
  ASSUME AuditInv, site' = site, findings' = findings, pc # "done", faults' \in 0..MaxFaults,
         pc' \in DOMAIN Rank \ {"done"}, NEW B, NEW J, NEW n, areas' = B, ideal' = J, Rank[pc'] = n,
         SnapOK(B, n), SnapOK(J, n), Unfailed(J), Linked(B, J, n)
  PROVE  AuditInv'
<1>1. SnapOK(B, n)' /\ Linked(B, J, n)'
  BY SnapFrame, LinkFrame
<1>3. SnapOK(J, n)'
  BY SnapFrame
<1>4. Unfailed(J)'
  BY DEF Unfailed
<1>5. SnapOK(areas, Rank[pc])' /\ SnapOK(ideal, Rank[pc])' /\ Linked(areas, ideal, Rank[pc])'
  BY <1>1, <1>3
<1>6. Unfailed(ideal)'
  BY <1>4
<1>7. findings' = {}
  BY DEF AuditInv
<1>8. QED
  BY <1>5, <1>6, <1>7 DEF AuditInv

\* The reads that fail are within the bound.
LEMMA FaultsBound ==
  ASSUME faults \in 0..MaxFaults, NEW reads, NEW F \in Failing(MaxFaults - faults, reads),
         faults' = faults + Cardinality(F)
  PROVE  faults' \in 0..MaxFaults
<1>1. MaxFaults \in Nat /\ MaxFaults - faults \in Nat
  BY FaultsAssumption
<1>2. Cardinality(F) <= MaxFaults - faults /\ Cardinality(F) \in Nat
  BY <1>1, FailingIs
<1>3. QED
  BY <1>1, <1>2

LEMMA InitHolds ==
  ASSUME Init PROVE AuditInv
<1>1. DOMAIN areas = {} /\ DOMAIN ideal = {} /\ faults \in 0..MaxFaults
  BY FaultsAssumption DEF Init
<1>2. Rank[pc] = 0 /\ pc \in DOMAIN Rank /\ pc # "done"
  BY RanksIs DEF Init
<1>3. SnapOK(areas, 0) /\ SnapOK(ideal, 0) /\ Unfailed(ideal)
  BY <1>1 DEF SnapOK, AreasAt, Unfailed
<1>4. Linked(areas, ideal, 0)
  BY DEF Linked, ScopedAt
<1>5. QED
  BY <1>1, <1>2, <1>3, <1>4 DEF AuditInv, Init

\* Stage by stage: the reads that fail are picked, and the snapshots it leaves are named.
LEMMA ListsHold ==
  ASSUME AuditInv, GatherLists PROVE AuditInv'
<1>1. pc = "lists" /\ pc' = "scopes" /\ site' = site /\ findings' = findings
  BY DEF GatherLists, Stage
<1>2. PICK F \in Failing(MaxFaults - faults, ListReads) :
        /\ faults' = faults + Cardinality(F)
        /\ areas' = Lists(areas, F) ++ areas
        /\ ideal' = Lists(ideal, {}) ++ ideal
  BY DEF GatherLists, Stage
<1>3. PICK B : B = Lists(areas, F) ++ areas
  OBVIOUS
<1>4. PICK J : J = Lists(ideal, {}) ++ ideal
  OBVIOUS
<1>5. SnapOK(areas, 0) /\ SnapOK(ideal, 0) /\ Unfailed(ideal) /\ Linked(areas, ideal, 0) /\ site \in Sites
  BY <1>1, RanksIs DEF AuditInv
<1>6. SnapOK(B, 1) /\ SnapOK(J, 1) /\ Unfailed(J)
  BY <1>3, <1>4, <1>5, ListsSnap
<1>7. Linked(B, J, 1)
  BY AreaKinds DEF Linked, ScopedAt
<1>8. faults' \in 0..MaxFaults
  BY <1>2, FaultsBound DEF AuditInv
<1>9. QED
  BY <1>1, <1>2, <1>3, <1>4, <1>6, <1>7, <1>8, RanksIs, StageKeeps

LEMMA ScopesHold ==
  ASSUME AuditInv, GatherScopes PROVE AuditInv'
<1>1. pc = "scopes" /\ pc' = "fields" /\ site' = site /\ findings' = findings
  BY DEF GatherScopes, Stage
<1>2. PICK F \in Failing(MaxFaults - faults, Steps(ListScoped)) :
        /\ faults' = faults + Cardinality(F)
        /\ areas' = Scopes(areas, F) ++ areas
        /\ ideal' = Scopes(ideal, {}) ++ ideal
  BY DEF GatherScopes, Stage
<1>3. PICK B : B = Scopes(areas, F) ++ areas
  OBVIOUS
<1>4. PICK J : J = Scopes(ideal, {}) ++ ideal
  OBVIOUS
<1>5. SnapOK(areas, 1) /\ SnapOK(ideal, 1) /\ Unfailed(ideal) /\ Linked(areas, ideal, 1) /\ site \in Sites
  BY <1>1, RanksIs DEF AuditInv
<1>6. SnapOK(B, 2) /\ SnapOK(J, 2) /\ Unfailed(J)
  BY <1>3, <1>4, <1>5, ScopesSnap
<1>7. Linked(B, J, 2)
  BY <1>3, <1>4, <1>5, ScopesLinked
<1>8. faults' \in 0..MaxFaults
  BY <1>2, FaultsBound DEF AuditInv
<1>9. QED
  BY <1>1, <1>2, <1>3, <1>4, <1>6, <1>7, <1>8, RanksIs, StageKeeps

LEMMA FieldsHold ==
  ASSUME AuditInv, GatherFields PROVE AuditInv'
<1>1. pc = "fields" /\ pc' = "contexts" /\ site' = site /\ findings' = findings
  BY DEF GatherFields, Stage
<1>2. PICK F \in Failing(MaxFaults - faults, {<<s, "fields", "first">> : s \in Sides}) :
        /\ faults' = faults + Cardinality(F)
        /\ areas' = FieldList(areas, F) ++ areas
        /\ ideal' = FieldList(ideal, {}) ++ ideal
  BY DEF GatherFields, Stage
<1>3. PICK B : B = FieldList(areas, F) ++ areas
  OBVIOUS
<1>4. PICK J : J = FieldList(ideal, {}) ++ ideal
  OBVIOUS
<1>5. SnapOK(areas, 2) /\ SnapOK(ideal, 2) /\ Unfailed(ideal) /\ Linked(areas, ideal, 2) /\ site \in Sites
  BY <1>1, RanksIs DEF AuditInv
<1>6. SnapOK(B, 3) /\ SnapOK(J, 3) /\ Unfailed(J)
  BY <1>3, <1>4, <1>5, FieldsSnap
<1>7. Linked(B, J, 3)
  BY <1>3, <1>4, <1>5, FieldsLinked
<1>8. faults' \in 0..MaxFaults
  BY <1>2, FaultsBound DEF AuditInv
<1>9. QED
  BY <1>1, <1>2, <1>3, <1>4, <1>6, <1>7, <1>8, RanksIs, StageKeeps

LEMMA ContextsHold ==
  ASSUME AuditInv, GatherContexts PROVE AuditInv'
<1>1. pc = "contexts" /\ pc' = "workflows" /\ site' = site /\ findings' = findings
  BY DEF GatherContexts, Stage
<1>2. PICK F \in Failing(MaxFaults - faults, ContextReads \cup {<<s, "ids", <<>>>> : s \in Sides}) :
        /\ faults' = faults + Cardinality(F)
        /\ areas' = FieldDetail(areas, F) ++ areas
        /\ ideal' = FieldDetail(ideal, {}) ++ ideal
  BY DEF GatherContexts, Stage
<1>3. PICK B : B = FieldDetail(areas, F) ++ areas
  OBVIOUS
<1>4. PICK J : J = FieldDetail(ideal, {}) ++ ideal
  OBVIOUS
<1>5. SnapOK(areas, 3) /\ SnapOK(ideal, 3) /\ Unfailed(ideal) /\ Linked(areas, ideal, 3) /\ site \in Sites
  BY <1>1, RanksIs DEF AuditInv
<1>6. SnapOK(B, 4) /\ SnapOK(J, 4) /\ Unfailed(J)
  BY <1>3, <1>4, <1>5, DetailSnap
<1>7. Linked(B, J, 4)
  BY <1>3, <1>4, <1>5, DetailLinked
<1>8. faults' \in 0..MaxFaults
  BY <1>2, FaultsBound DEF AuditInv
<1>9. QED
  BY <1>1, <1>2, <1>3, <1>4, <1>6, <1>7, <1>8, RanksIs, StageKeeps

LEMMA WorkflowsHold ==
  ASSUME AuditInv, GatherWorkflows PROVE AuditInv'
<1>1. pc = "workflows" /\ pc' = "screens" /\ site' = site /\ findings' = findings
  BY DEF GatherWorkflows, Stage
<1>2. PICK F \in Failing(MaxFaults - faults, Steps({"workflows"}) \cup UNION {Pages(s, "workflows") : s \in Sides}) :
        /\ faults' = faults + Cardinality(F)
        /\ areas' = Flows(areas, F) ++ areas
        /\ ideal' = Flows(ideal, {}) ++ ideal
  BY DEF GatherWorkflows, Stage
<1>3. PICK B : B = Flows(areas, F) ++ areas
  OBVIOUS
<1>4. PICK J : J = Flows(ideal, {}) ++ ideal
  OBVIOUS
<1>5. SnapOK(areas, 4) /\ SnapOK(ideal, 4) /\ Unfailed(ideal) /\ Linked(areas, ideal, 4) /\ site \in Sites
  BY <1>1, RanksIs DEF AuditInv
<1>6. SnapOK(B, 5) /\ SnapOK(J, 5) /\ Unfailed(J)
  BY <1>3, <1>4, <1>5, FlowsSnap
<1>7. Linked(B, J, 5)
  BY <1>3, <1>4, <1>5, FlowsLinked
<1>8. faults' \in 0..MaxFaults
  BY <1>2, FaultsBound DEF AuditInv
<1>9. QED
  BY <1>1, <1>2, <1>3, <1>4, <1>6, <1>7, <1>8, RanksIs, StageKeeps

LEMMA ScreensHold ==
  ASSUME AuditInv, GatherScreens PROVE AuditInv'
<1>1. pc = "screens" /\ pc' = "tabs" /\ site' = site /\ findings' = findings
  BY DEF GatherScreens, Stage
<1>2. PICK F \in Failing(MaxFaults - faults, Steps({"screens"})) :
        /\ faults' = faults + Cardinality(F)
        /\ areas' = Screens(areas, F) ++ areas
        /\ ideal' = Screens(ideal, {}) ++ ideal
  BY DEF GatherScreens, Stage
<1>3. PICK B : B = Screens(areas, F) ++ areas
  OBVIOUS
<1>4. PICK J : J = Screens(ideal, {}) ++ ideal
  OBVIOUS
<1>5. SnapOK(areas, 5) /\ SnapOK(ideal, 5) /\ Unfailed(ideal) /\ Linked(areas, ideal, 5) /\ site \in Sites
  BY <1>1, RanksIs DEF AuditInv
<1>6. SnapOK(B, 6) /\ SnapOK(J, 6) /\ Unfailed(J)
  BY <1>3, <1>4, <1>5, ScreensSnap
<1>7. Linked(B, J, 6)
  BY <1>3, <1>4, <1>5, ScreensLinked
<1>8. faults' \in 0..MaxFaults
  BY <1>2, FaultsBound DEF AuditInv
<1>9. QED
  BY <1>1, <1>2, <1>3, <1>4, <1>6, <1>7, <1>8, RanksIs, StageKeeps

LEMMA TabsHold ==
  ASSUME AuditInv, GatherTabs PROVE AuditInv'
<1>1. pc = "tabs" /\ pc' = "projects" /\ site' = site /\ findings' = findings
  BY DEF GatherTabs, Stage
<1>2. PICK F \in Failing(MaxFaults - faults, TabReads) :
        /\ faults' = faults + Cardinality(F)
        /\ areas' = Tabs(areas, F) ++ areas
        /\ ideal' = Tabs(ideal, {}) ++ ideal
  BY DEF GatherTabs, Stage
<1>3. PICK B : B = Tabs(areas, F) ++ areas
  OBVIOUS
<1>4. PICK J : J = Tabs(ideal, {}) ++ ideal
  OBVIOUS
<1>5. SnapOK(areas, 6) /\ SnapOK(ideal, 6) /\ Unfailed(ideal) /\ Linked(areas, ideal, 6) /\ site \in Sites
  BY <1>1, RanksIs DEF AuditInv
<1>6. SnapOK(B, 7) /\ SnapOK(J, 7) /\ Unfailed(J)
  BY <1>3, <1>4, <1>5, TabsSnap
<1>7. Linked(B, J, 7)
  BY <1>3, <1>4, <1>5, TabsLinked
<1>8. faults' \in 0..MaxFaults
  BY <1>2, FaultsBound DEF AuditInv
<1>9. QED
  BY <1>1, <1>2, <1>3, <1>4, <1>6, <1>7, <1>8, RanksIs, StageKeeps

LEMMA ProjectsHold ==
  ASSUME AuditInv, GatherProjects PROVE AuditInv'
<1>1. pc = "projects" /\ pc' = "compare" /\ site' = site /\ findings' = findings
  BY DEF GatherProjects, Stage
<1>2. PICK F \in Failing(MaxFaults - faults, ProjectReads) :
        /\ faults' = faults + Cardinality(F)
        /\ areas' = ProjectLists(areas, F) ++ areas
        /\ ideal' = ProjectLists(ideal, {}) ++ ideal
  BY DEF GatherProjects, Stage
<1>3. PICK B : B = ProjectLists(areas, F) ++ areas
  OBVIOUS
<1>4. PICK J : J = ProjectLists(ideal, {}) ++ ideal
  OBVIOUS
<1>5. SnapOK(areas, 7) /\ SnapOK(ideal, 7) /\ Unfailed(ideal) /\ Linked(areas, ideal, 7) /\ site \in Sites
  BY <1>1, RanksIs DEF AuditInv
<1>6. SnapOK(B, 8) /\ SnapOK(J, 8) /\ Unfailed(J)
  BY <1>3, <1>4, <1>5, ProjectsSnap
<1>7. Linked(B, J, 8)
  BY <1>3, <1>4, <1>5, ProjectsLinked
<1>8. faults' \in 0..MaxFaults
  BY <1>2, FaultsBound DEF AuditInv
<1>9. QED
  BY <1>1, <1>2, <1>3, <1>4, <1>6, <1>7, <1>8, RanksIs, StageKeeps

\* The findings on a snapshot depend on the sites and on the snapshot only.
LEMMA AllSame ==
  ASSUME site' = site, areas' = areas
  PROVE  AllFindings(areas)' = AllFindings(areas)
BY DEF AllFindings, ListFindings, RecordFindings, FieldFindings, FlowFindings, TabFindings, ProjectFindings,
       OneProject, LostOf, FailedFor, RowsOf, Errors, Missing, Common, InBoth, Before, ScreenOf, RowsIn, Narrowed, RecordsIn, Both, Pair,
       DcSide, Projects

\* The comparison changes no snapshot.
LEMMA CompareHolds ==
  ASSUME AuditInv, Compare PROVE AuditInv'
<1>1. pc = "compare" /\ pc' = "done" /\ site' = site /\ faults' = faults /\ findings' = AllFindings(areas)
  BY DEF Compare
<1>2. PICK B : B = areas
  OBVIOUS
<1>3. PICK J : J = ideal
  OBVIOUS
<1>4. areas' = B /\ ideal' = J
  BY <1>2, <1>3 DEF Compare
<1>5. SnapOK(B, 8) /\ SnapOK(J, 8) /\ Unfailed(J) /\ Linked(B, J, 8)
  BY <1>1, <1>2, <1>3, RanksIs DEF AuditInv
<1>6. SnapOK(B, 9) /\ SnapOK(J, 9) /\ Linked(B, J, 9)
  <2>1. \A a : ScopedAt(a, 9) <=> ScopedAt(a, 8)
    BY DEF ScopedAt
  <2>2. \A r, a : ListOK(r, a, 8) => ListOK(r, a, 9)
    BY <2>1 DEF ListOK
  <2>3. QED
    BY <1>5, <2>1, <2>2 DEF SnapOK, Linked, AreasAt
<1>7. SnapOK(B, 9)' /\ SnapOK(J, 9)' /\ Linked(B, J, 9)'
  BY <1>1, <1>6, SnapFrame, LinkFrame
<1>8. Unfailed(J)'
  BY <1>5 DEF Unfailed
<1>9. findings' = AllFindings(areas)'
  BY <1>1, <1>4, <1>2, AllSame
<1>10. QED
  BY <1>1, <1>4, <1>7, <1>8, <1>9, RanksIs DEF AuditInv

LEMMA NothingChanges ==
  ASSUME AuditInv, UNCHANGED vars PROVE AuditInv'
<1>1. PICK B : B = areas
  OBVIOUS
<1>2. PICK J : J = ideal
  OBVIOUS
<1>3. PICK n : n = Rank[pc]
  OBVIOUS
<1>4. /\ areas' = B /\ ideal' = J /\ pc' = pc /\ site' = site /\ findings' = findings /\ faults' = faults
      /\ Rank[pc'] = n
  BY <1>1, <1>2, <1>3 DEF vars
<1>5. SnapOK(B, n) /\ SnapOK(J, n) /\ Linked(B, J, n) /\ Unfailed(J)
  BY <1>1, <1>2, <1>3 DEF AuditInv
<1>6. SnapOK(B, n)' /\ SnapOK(J, n)' /\ Linked(B, J, n)' /\ Unfailed(J)'
  BY <1>4, <1>5, SnapFrame, LinkFrame DEF Unfailed
<1>7. CASE pc = "done"
  <2>1. AllFindings(areas)' = AllFindings(areas)
    BY <1>1, <1>4, AllSame
  <2>2. QED
    BY <1>4, <1>6, <1>7, <2>1 DEF AuditInv
<1>8. CASE pc # "done"
  BY <1>4, <1>6, <1>8 DEF AuditInv
<1>9. QED
  BY <1>7, <1>8

\* The invariant holds in every state the audit reaches.
THEOREM AuditCorrect == Spec => []AuditInv
<1>1. Init => AuditInv
  BY InitHolds
<1>2. AuditInv /\ [Next]_vars => AuditInv'
  BY ListsHold, ScopesHold, FieldsHold, ContextsHold, WorkflowsHold, ScreensHold, TabsHold, ProjectsHold,
     CompareHolds, NothingChanges DEF Next, Done
<1>3. QED
  BY <1>1, <1>2, PTL DEF Spec

-----------------------------------------------------------------------------
(* The findings.                                                              *)

\* What a finding of a group says.
LEMMA EachIs ==
  ASSUME NEW a, NEW N, NEW k, NEW v, NEW f \in Each(a, N, k, v)
  PROVE  f.area = a /\ f.name \in N /\ f.kind = k /\ f.sev = v
BY DEF Each, Finding

\* Findings of a kind differ by their names only.
LEMMA EachMoved ==
  ASSUME NEW a, NEW N, NEW M, NEW k, NEW v, NEW f \in Each(a, N, k, v), f.name \in M
  PROVE  f \in Each(a, M, k, v)
BY DEF Each, Finding

\* An error is that of a side that was not read.
LEMMA ErrorIs ==
  ASSUME NEW A, NEW a, NEW f \in Errors(A, a)
  PROVE  f.area = a /\ f.kind = "area_error" /\ A[a].failed # {}
BY DEF Errors, Finding

\* What a report is made of.
ListPart(A, a) == Errors(A, a) \cup Missing(a, Keys(RowsIn(A, a, "src")), Keys(RowsIn(A, a, "tgt")))
PartOf(f, A) ==
  \/ \E a \in ListAreas : ~A[a].skipped /\ f \in ListPart(A, a)
  \/ f \in RecordFindings(A, "custom_fields") \/ f \in RecordFindings(A, "workflows")
  \/ f \in FieldFindings(A) \/ f \in FlowFindings(A) \/ f \in TabFindings(A)
  \/ \E a \in ProjectAreas : \E p \in Projects : f \in OneProject(A, a, p)
LEMMA ListParts ==
  ASSUME NEW A, NEW f
  PROVE  f \in ListFindings(A) <=> \E a \in ListAreas : ~A[a].skipped /\ f \in ListPart(A, a)
BY DEF ListFindings, ListPart
LEMMA Parts ==
  ASSUME NEW A, NEW f
  PROVE  f \in AllFindings(A) <=> PartOf(f, A)
<1>1. f \in ProjectFindings(A) <=> \E a \in ProjectAreas : \E p \in Projects : f \in OneProject(A, a, p)
  BY DEF ProjectFindings
<1>2. QED
  BY <1>1, ListParts DEF AllFindings, PartOf

\* The findings about a field, about a workflow, and about a screen.
LEMMA FieldFindingIs ==
  ASSUME NEW A, NEW f \in FieldFindings(A)
  PROVE  /\ f.area = "custom_fields" /\ f.kind \in {"type_mismatch", "option_mismatch"}
         /\ f.kind = "option_mismatch" => ~DcSide
<1> DEFINE Pr(k) == Pair(A, "custom_fields", k)
           options(k) == [s \in Sides |-> A["custom_fields"].options[s][Pr(k)[s].name]]
           T == {k \in Both(A, "custom_fields") : Pr(k).src.type # Pr(k).tgt.type}
           O == {k \in Both(A, "custom_fields") :
                   /\ ~DcSide /\ Pr(k).src.select
                   /\ ~(options(k).src \subseteq options(k).tgt)}
<1>1. FieldFindings(A) = Each("custom_fields", T, "type_mismatch", "gap")
                           \cup Each("custom_fields", O, "option_mismatch", "gap")
  BY DEF FieldFindings
<1>2. O # {} => ~DcSide
  OBVIOUS
<1> HIDE DEF T, O
<1>3. QED
  BY <1>1, <1>2, EachIs

LEMMA FlowFindingIs ==
  ASSUME NEW A, NEW f \in FlowFindings(A)
  PROVE  f.area = "workflows" /\ f.kind = "structure_mismatch" /\ ~DcSide
BY DEF FlowFindings, Each, Finding

LEMMA TabFindingIs ==
  ASSUME NEW A, NEW f \in TabFindings(A)
  PROVE  f.area = "screens" /\ f.kind = "field_mismatch"
BY DEF TabFindings, Each, Finding

\* Findings of a list, of records and of a project.
LEMMA ListPartIs ==
  ASSUME NEW A, NEW a, NEW f \in ListPart(A, a)
  PROVE  f.area = a /\ f.kind \in {"missing_in_tgt", "area_error"}
BY ErrorIs, EachIs DEF ListPart, Missing

LEMMA RecordFindingIs ==
  ASSUME NEW A, NEW a, NEW f \in RecordFindings(A, a)
  PROVE  f.area = a /\ f.kind \in {"missing_in_tgt", "area_error"}
BY ErrorIs, EachIs DEF RecordFindings, Missing

LEMMA OneProjectIs ==
  ASSUME NEW A, NEW a, NEW p, NEW f \in OneProject(A, a, p)
  PROVE  f.area = a /\ f.kind \in {"missing_in_tgt", "area_error"}
BY EachIs DEF OneProject

\* A report is of the areas that were read, and of the kinds they have.
LEMMA Sorts ==
  ASSUME NEW A, SnapOK(A, 9), NEW f \in AllFindings(A)
  PROVE  /\ f.kind \in {"missing_in_tgt", "area_error"} \cup
              (CASE f.area = "custom_fields" -> {"type_mismatch", "option_mismatch"}
                 [] f.area = "workflows" -> {"structure_mismatch"}
                 [] f.area = "screens" -> {"field_mismatch"}
                 [] OTHER -> {})
         /\ f.kind \in {"option_mismatch", "structure_mismatch"} => ~DcSide
         /\ f.area \in DOMAIN A /\ ~A[f.area].skipped
<1>1. PartOf(f, A)
  BY Parts
<1>2. /\ DOMAIN A = ListAreas \cup {"custom_fields", "workflows"} \cup ProjectAreas
      /\ ~A["custom_fields"].skipped /\ ~A["workflows"].skipped /\ ~A["screens"].skipped
      /\ \A a \in ProjectAreas : ~A[a].skipped
  BY AreaKinds DEF SnapOK, AreasAt, InFull, ListOK, Skip
<1>3. CASE \E a \in ListAreas : ~A[a].skipped /\ f \in ListPart(A, a)
  BY <1>2, <1>3, ListPartIs
<1>4. CASE f \in RecordFindings(A, "custom_fields") \/ f \in RecordFindings(A, "workflows")
  BY <1>2, <1>4, RecordFindingIs
<1>5. CASE f \in FieldFindings(A)
  BY <1>2, <1>5, FieldFindingIs
<1>6. CASE f \in FlowFindings(A)
  BY <1>2, <1>6, FlowFindingIs
<1>7. CASE f \in TabFindings(A)
  BY <1>2, <1>7, TabFindingIs, AreaKinds
<1>8. CASE \E a \in ProjectAreas : \E p \in Projects : f \in OneProject(A, a, p)
  BY <1>2, <1>8, OneProjectIs
<1>9. QED
  BY <1>1, <1>3, <1>4, <1>5, <1>6, <1>7, <1>8 DEF PartOf

\* The snapshots at the end.
LEMMA AtTheEnd ==
  ASSUME AuditInv, pc = "done"
  PROVE  /\ SnapOK(areas, 9) /\ SnapOK(ideal, 9) /\ Unfailed(ideal) /\ Linked(areas, ideal, 9)
         /\ findings = AllFindings(areas) /\ site \in Sites
BY RanksIs DEF AuditInv

\* Every side that was not read has its own error in the report.
LEMMA ErrorsSaid ==
  ASSUME AuditInv, pc = "done", NEW a \in DOMAIN areas, ~areas[a].skipped, NEW w \in areas[a].failed
  PROVE  IF a \in ProjectAreas
         THEN Finding(a, IF a = "jsm" THEN <<w[2]>> ELSE <<w[2], w[1]>>, "area_error", "error") \in findings
         ELSE Finding(a, <<w>>, "area_error", "error") \in findings
<1>1. SnapOK(areas, 9) /\ findings = AllFindings(areas)
  BY AtTheEnd
<1>2. DOMAIN areas = ListAreas \cup {"custom_fields", "workflows"} \cup ProjectAreas
  BY <1>1 DEF SnapOK, AreasAt
<1>3. CASE a \in ProjectAreas
  <2>1. w \in Sides \X Projects
    BY <1>1, <1>3 DEF SnapOK
  <2>2. PICK s \in Sides, p \in Projects : w = <<s, p>>
    BY <2>1
  <2>3. s \in FailedFor(areas, a, p)
    BY <2>2 DEF FailedFor
  <2> DEFINE name(t) == IF a = "jsm" THEN <<p>> ELSE <<p, t>>
             f == Finding(a, name(s), "area_error", "error")
  <2>4. f \in OneProject(areas, a, p)
    <3>1. name(s) \in {name(t) : t \in FailedFor(areas, a, p)}
      BY <2>3
    <3>2. FailedFor(areas, a, p) # {}
      BY <2>3
    <3>3. OneProject(areas, a, p) = Each(a, {name(t) : t \in FailedFor(areas, a, p)}, "area_error", "error")
      BY <3>2 DEF OneProject
    <3> HIDE DEF name
    <3>4. QED
      BY <3>1, <3>3 DEF Each
  <2>5. f \in findings
    BY <1>1, <1>3, <2>4, Parts DEF PartOf
  <2>6. f = Finding(a, IF a = "jsm" THEN <<w[2]>> ELSE <<w[2], w[1]>>, "area_error", "error")
    BY <2>2
  <2>7. QED
    BY <1>3, <2>5, <2>6
<1>4. CASE a \notin ProjectAreas
  <2> DEFINE f == Finding(a, <<w>>, "area_error", "error")
  <2>1. f \in Errors(areas, a)
    BY DEF Errors
  <2> HIDE DEF f
  <2>2. f \in findings
    BY <1>1, <1>2, <1>4, <2>1, Parts DEF PartOf, ListPart, RecordFindings
  <2>3. QED
    BY <1>4, <2>2 DEF f
<1>5. QED
  BY <1>3, <1>4

\* TypeOK: the findings are of the areas that were read and of the kinds these have, nothing
\* is compared that a Data Center site has no endpoint for, every side that was not read has
\* its own error, no more reads fail than the bound allows.
THEOREM TypeCorrect == Spec => []TypeOK
<1>1. AuditInv => TypeOK
  <2> SUFFICES ASSUME AuditInv PROVE TypeOK
    OBVIOUS
  <2>1. site \in Sites /\ faults \in 0..MaxFaults /\ DOMAIN areas = DOMAIN ideal
    BY DEF AuditInv, SnapOK
  <2>2. CASE pc = "done"
    BY <2>1, <2>2, AtTheEnd, Sorts, ErrorsSaid DEF TypeOK
  <2>3. CASE pc # "done"
    BY <2>1, <2>3 DEF TypeOK, AuditInv
  <2>4. QED
    BY <2>2, <2>3
<1>2. QED
  BY <1>1, AuditCorrect, PTL

-----------------------------------------------------------------------------
(* No gap is made up.                                                         *)

\* The first record of each key stands for all records of the key.
LEMMA FirstOfNameKeys ==
  ASSUME NEW S, NEW ws \in Seq(S)
  PROVE  /\ \A i \in DOMAIN ws : Norm(ws[i].name) \in KeysOf(FirstOfName(ws))
         /\ \A r \in FirstOfName(ws) : \E i \in DOMAIN ws : r = ws[i]
         /\ \A r, q \in FirstOfName(ws) : Norm(r.name) = Norm(q.name) => r = q
<1> Len(ws) \in Nat /\ DOMAIN ws = 1..Len(ws)
  OBVIOUS
<1>1. ASSUME NEW i \in DOMAIN ws PROVE Norm(ws[i].name) \in KeysOf(FirstOfName(ws))
  <2> DEFINE T == {j \in DOMAIN ws : Norm(ws[j].name) = Norm(ws[i].name)}
  <2>1. T \in SUBSET Nat /\ T # {}
    OBVIOUS
  <2>2. PICK x \in T : \A y \in T : x <= y
    <3> HIDE DEF T
    <3>1. QED
      BY <2>1, LeastOf
  <2>3. \A j \in 1..(x - 1) : Norm(ws[j].name) # Norm(ws[x].name)
    <3> SUFFICES ASSUME NEW j \in 1..(x - 1), Norm(ws[j].name) = Norm(ws[x].name) PROVE FALSE
      OBVIOUS
    <3>1. x \in 1..Len(ws) /\ j \in 1..Len(ws) /\ j < x
      OBVIOUS
    <3>2. j \in T
      BY <3>1, <2>2
    <3> HIDE DEF T
    <3>3. QED
      BY <2>2, <3>1, <3>2
  <2>4. ws[x] \in FirstOfName(ws)
    BY <2>3 DEF FirstOfName
  <2>5. QED
    BY <2>2, <2>4 DEF KeysOf
<1>2. ASSUME NEW r \in FirstOfName(ws), NEW q \in FirstOfName(ws), Norm(r.name) = Norm(q.name) PROVE r = q
  <2>1. PICK i \in DOMAIN ws : r = ws[i] /\ \A j \in 1..(i - 1) : Norm(ws[j].name) # Norm(ws[i].name)
    BY DEF FirstOfName
  <2>2. PICK j \in DOMAIN ws : q = ws[j] /\ \A n \in 1..(j - 1) : Norm(ws[n].name) # Norm(ws[j].name)
    BY DEF FirstOfName
  <2>3. i \in 1..Len(ws) /\ j \in 1..Len(ws)
    OBVIOUS
  <2>4. ~(i < j) /\ ~(j < i)
    BY <1>2, <2>1, <2>2, <2>3
  <2>5. QED
    BY <2>1, <2>2, <2>3, <2>4
<1>3. QED
  BY <1>1, <1>2 DEF FirstOfName

\* What Jira promises of either side.
LEMMA SiteLists ==
  ASSUME site \in Sites, NEW s \in Sides
  PROVE  /\ SiteAssumption(site[s], Projects)
         /\ site[s].fields \in Seq(ToSet(site[s].fields)) /\ site[s].flows \in Seq(ToSet(site[s].flows))
         /\ FieldNames(s) = {site[s].fields[i].name : i \in DOMAIN site[s].fields}
<1>1. SiteAssumption(site[s], Projects)
  BY SitesAssumption DEF Sides, Projects
<1>2. QED
  BY <1>1 DEF SiteAssumption, FieldNames

\* Names of a project's objects, normalized or not, are pairs.
LEMMA NormPair ==
  ASSUME NEW n, n = <<n[1], n[2]>>
  PROVE  Norm(n) = <<Norm(n)[1], Norm(n)[2]>>
BY DEF Norm

\* A pair behind a project.
LEMMA OneAndTwo ==
  ASSUME NEW p, NEW a, NEW b
  PROVE  <<p>> \o <<a, b>> = <<p, a, b>>
<1> DEFINE S == {p, a, b}
           u == <<p>>
           w == <<a, b>>
           x == u \o w
           y == <<p, a, b>>
<1>1. u \in Seq(S) /\ Len(u) = 1 /\ u[1] = p
  OBVIOUS
<1>2. w \in Seq(S) /\ Len(w) = 2 /\ w[1] = a /\ w[2] = b
  OBVIOUS
<1>3. y \in Seq(S) /\ Len(y) = 3 /\ y[1] = p /\ y[2] = a /\ y[3] = b
  OBVIOUS
<1> HIDE DEF S, u, w, y
<1>4. x \in Seq(S) /\ Len(x) = 3 /\ x[1] = p /\ x[2] = a /\ x[3] = b
  BY <1>1, <1>2, ConcatProperties
<1> HIDE DEF x
<1>5. x = y
  <2>1. \A i \in 1..3 : x[i] = y[i]
    BY <1>3, <1>4
  <2>2. QED
    BY <1>3, <1>4, <2>1
<1>6. QED
  BY <1>5 DEF x, y, u, w

LEMMA PairAfter ==
  ASSUME NEW p, NEW k, k = <<k[1], k[2]>>
  PROVE  <<p>> \o k = <<p, k[1], k[2]>>
<1>1. PICK a : a = k[1]
  OBVIOUS
<1>2. PICK b : b = k[2]
  OBVIOUS
<1>3. k = <<a, b>>
  BY <1>1, <1>2
<1>4. <<p>> \o <<a, b>> = <<p, a, b>>
  BY OneAndTwo
<1>5. QED
  BY Zenon, <1>1, <1>2, <1>3, <1>4

\* The finding of a project names the project first, and then the object.
LEMMA LostIs ==
  ASSUME site \in Sites, NEW a \in ProjectAreas, NEW p \in Projects, NEW x \in LostOf(a, p)
  PROVE  /\ x[1] = p
         /\ \A n \in ToSet(RowsOf("tgt", a, p)) : <<p>> \o Norm(n) # x
<1>1. \A s \in Sides : \A n \in ToSet(RowsOf(s, a, p)) : n = <<n[1], n[2]>>
  <2> SUFFICES ASSUME NEW s \in Sides PROVE \A n \in ToSet(RowsOf(s, a, p)) : n = <<n[1], n[2]>>
    OBVIOUS
  <2>1. SiteAssumption(site[s], Projects)
    BY SiteLists
  <2>2. RowsOf(s, a, p) \in {site[s].desk[p], site[s].components[p], site[s].versions[p]}
    BY DEF RowsOf, ProjectAreas
  <2>3. QED
    BY <2>1, <2>2 DEF SiteAssumption
<1>2. PICK k : /\ k \in Keys(ToSet(RowsOf("src", a, p))) /\ k \notin Keys(ToSet(RowsOf("tgt", a, p)))
               /\ x = <<p>> \o k
  BY DEF LostOf
<1>3. PICK m \in ToSet(RowsOf("src", a, p)) : k = Norm(m)
  BY <1>2 DEF Keys
<1>4. k = <<k[1], k[2]>>
  BY <1>1, <1>3, NormPair DEF Sides
<1>5. x = <<p, k[1], k[2]>>
  BY <1>2, <1>4, PairAfter
<1>6. ASSUME NEW n \in ToSet(RowsOf("tgt", a, p)), <<p>> \o Norm(n) = x PROVE FALSE
  <2>1. PICK h : h = Norm(n)
    OBVIOUS
  <2>2. h = <<h[1], h[2]>>
    BY <1>1, <2>1, NormPair DEF Sides
  <2>3. x = <<p, h[1], h[2]>>
    BY <1>6, <2>1, <2>2, PairAfter
  <2>4. h[1] = k[1] /\ h[2] = k[2]
    BY <1>5, <2>3
  <2>5. h = k
    BY <1>4, <2>2, <2>4
  <2>6. QED
    BY <1>2, <2>1, <2>5 DEF Keys
<1>7. QED
  BY <1>5, <1>6

\* The keys that a list lacks after narrowing are missing from the list, too.
LEMMA MissingKeys ==
  ASSUME NEW A, NEW a, NEW k \in Keys(RowsIn(A, a, "src")), k \notin Keys(RowsIn(A, a, "tgt"))
  PROVE  k \in Keys(ToSet(A[a]["src"])) /\ k \notin Keys(ToSet(A[a]["tgt"]))
BY DEF Keys, RowsIn

\* Keys of records that are missing after narrowing are missing without it.
LEMMA RecordKeys ==
  ASSUME NEW A, NEW a, NEW k \in KeysOf(RecordsIn(A, a, "src")), k \notin KeysOf(RecordsIn(A, a, "tgt"))
  PROVE  /\ k \in KeysOf(FirstOfName(A[a]["src"])) /\ k \notin KeysOf(FirstOfName(A[a]["tgt"]))
         /\ A[a].scope.ok => k \in A[a].scope.keys
BY DEF KeysOf, RecordsIn

\* A record area whose target side was read: what is missing there is missing on the target.
LEMMA RecordMissing ==
  ASSUME NEW A, NEW a, NEW f \in RecordFindings(A, a), f.kind = "missing_in_tgt",
         NEW S, A[a]["tgt"] \in Seq(S)
  PROVE  \A i \in DOMAIN A[a]["tgt"] : Norm(A[a]["tgt"][i].name) # f.name
<1>1. f \in Missing(a, KeysOf(RecordsIn(A, a, "src")), KeysOf(RecordsIn(A, a, "tgt")))
  BY ErrorIs DEF RecordFindings
<1>2. f.name \in KeysOf(RecordsIn(A, a, "src")) /\ f.name \notin KeysOf(RecordsIn(A, a, "tgt"))
  BY <1>1, EachIs DEF Missing
<1>3. f.name \notin KeysOf(FirstOfName(A[a]["tgt"]))
  BY <1>2, RecordKeys
<1>4. QED
  BY <1>3, FirstOfNameKeys

\* A target that was not read has its error.
LEMMA ErrorOfTarget ==
  ASSUME NEW A, NEW a, "tgt" \in A[a].failed
  PROVE  Finding(a, <<"tgt">>, "area_error", "error") \in Errors(A, a)
BY DEF Errors

FalseGap(f) ==
  /\ f.kind = "missing_in_tgt"
  /\ Finding(f.area, <<"tgt">>, "area_error", "error") \notin findings
  /\ ~ CASE f.area \in ProjectAreas -> \A n \in ToSet(RowsOf("tgt", f.area, f.name[1])) : <<f.name[1]>> \o Norm(n) # f.name
          [] f.area = "custom_fields" -> f.name \notin {Norm(n) : n \in FieldNames("tgt")}
          [] f.area = "workflows" -> f.name \notin KeysOf(ToSet(site.tgt.flows))
          [] OTHER -> f.name \notin Keys(ToSet(site.tgt.lists[f.area]))

\* What is reported missing is missing, by the kinds of findings.
LEMMA GapsAreReal ==
  ASSUME AuditInv, pc = "done", NEW f \in findings PROVE ~FalseGap(f)
<1> SUFFICES ASSUME FalseGap(f) PROVE FALSE
  OBVIOUS
<1>1. PartOf(f, areas) /\ SnapOK(areas, 9) /\ findings = AllFindings(areas) /\ site \in Sites
  BY AtTheEnd, Parts
<1>2. f.kind = "missing_in_tgt" /\ Finding(f.area, <<"tgt">>, "area_error", "error") \notin findings
  BY DEF FalseGap
<1>3. ASSUME NEW a \in ListAreas, ~areas[a].skipped, f \in ListPart(areas, a) PROVE FALSE
  <2>1. f.area = a /\ f \notin Errors(areas, a)
    BY <1>2, <1>3, ListPartIs, ErrorIs
  <2>2. f.name \in Keys(RowsIn(areas, a, "src")) /\ f.name \notin Keys(RowsIn(areas, a, "tgt"))
    BY <1>3, <2>1, EachIs DEF ListPart, Missing
  <2>3. "tgt" \notin areas[a].failed
    <3>1. Errors(areas, a) \subseteq findings
      BY <1>1, <1>3, Parts DEF PartOf, ListPart
    <3>2. QED
      BY <1>2, <2>1, <3>1, ErrorOfTarget
  <2>4. areas[a]["tgt"] = site.tgt.lists[a]
    <3>1. InFull(areas[a], a)
      BY <1>1, <1>3 DEF SnapOK, ListOK, Skip
    <3>2. FullRows(a, "tgt") = site.tgt.lists[a]
      BY AreaKinds DEF FullRows
    <3>3. QED
      BY <2>3, <3>1, <3>2 DEF InFull, Sides
  <2>5. f.name \notin Keys(ToSet(site.tgt.lists[a]))
    BY <2>2, <2>4, MissingKeys
  <2>6. a \notin ProjectAreas /\ a # "custom_fields" /\ a # "workflows"
    BY AreaKinds
  <2>7. QED
    BY <2>1, <2>5, <2>6 DEF FalseGap
<1>4. ASSUME NEW a \in {"custom_fields", "workflows"}, f \in RecordFindings(areas, a) PROVE FALSE
  <2>1. f.area = a
    BY <1>4, RecordFindingIs
  <2>2. "tgt" \notin areas[a].failed
    <3>1. Errors(areas, a) \subseteq findings
      BY <1>1, Parts DEF PartOf, RecordFindings
    <3>2. QED
      BY <1>2, <2>1, <3>1, ErrorOfTarget
  <2>3. areas[a]["tgt"] = FullRows(a, "tgt")
    <3>1. InFull(areas[a], a)
      BY <1>1 DEF SnapOK
    <3>2. QED
      BY <2>2, <3>1 DEF InFull, Sides
  <2>4. CASE a = "custom_fields"
    <3>1. areas[a]["tgt"] = site["tgt"].fields
      BY <2>3, <2>4 DEF FullRows
    <3>2. /\ site["tgt"].fields \in Seq(ToSet(site["tgt"].fields))
          /\ FieldNames("tgt") = {site["tgt"].fields[i].name : i \in DOMAIN site["tgt"].fields}
      BY <1>1, SiteLists DEF Sides
    <3>3. \A i \in DOMAIN site["tgt"].fields : Norm(site["tgt"].fields[i].name) # f.name
      BY <1>2, <1>4, <3>1, <3>2, RecordMissing
    <3>4. f.name \notin {Norm(n) : n \in FieldNames("tgt")}
      BY <3>2, <3>3
    <3>5. QED
      BY <2>1, <2>4, <3>4 DEF FalseGap, ProjectAreas
  <2>5. CASE a = "workflows"
    <3>1. areas[a]["tgt"] = site["tgt"].flows
      BY <2>3, <2>5 DEF FullRows
    <3>2. site["tgt"].flows \in Seq(ToSet(site["tgt"].flows))
      BY <1>1, SiteLists DEF Sides
    <3>3. \A i \in DOMAIN site["tgt"].flows : Norm(site["tgt"].flows[i].name) # f.name
      BY <1>2, <1>4, <3>1, <3>2, RecordMissing
    <3>4. f.name \notin KeysOf(ToSet(site.tgt.flows))
      BY <3>3 DEF KeysOf, ToSet
    <3>5. QED
      BY <2>1, <2>5, <3>4 DEF FalseGap, ProjectAreas
  <2>6. QED
    BY <2>4, <2>5
<1>5. CASE f \in FieldFindings(areas) \/ f \in FlowFindings(areas) \/ f \in TabFindings(areas)
  BY <1>2, <1>5, FieldFindingIs, FlowFindingIs, TabFindingIs
<1>6. ASSUME NEW a \in ProjectAreas, NEW p \in Projects, f \in OneProject(areas, a, p) PROVE FALSE
  <2>1. f.area = a /\ f.name \in LostOf(a, p)
    BY <1>2, <1>6, EachIs DEF OneProject
  <2>2. f.name[1] = p /\ \A n \in ToSet(RowsOf("tgt", a, p)) : <<p>> \o Norm(n) # f.name
    BY <1>1, <2>1, LostIs
  <2>3. a # "custom_fields" /\ a # "workflows"
    BY DEF ProjectAreas
  <2>4. QED
    BY <2>1, <2>2, <2>3 DEF FalseGap
<1>7. QED
  BY <1>1, <1>3, <1>4, <1>5, <1>6 DEF PartOf

\* NoFalseGap: what the report calls missing is missing on the target, in areas that are
\* narrowed and in those that are not, unless the report says that the target's list was not
\* read. The keys of the two sides, under one normalization, decide it; narrowing removes a
\* key from both sides or from none.
THEOREM NoFalseGapHolds == Spec => []NoFalseGap
<1>1. AuditInv => NoFalseGap
  <2> SUFFICES ASSUME AuditInv, pc = "done", NEW f \in findings, f.kind = "missing_in_tgt",
                      Finding(f.area, <<"tgt">>, "area_error", "error") \notin findings
               PROVE  CASE f.area \in ProjectAreas -> \A n \in ToSet(RowsOf("tgt", f.area, f.name[1])) : <<f.name[1]>> \o Norm(n) # f.name
                        [] f.area = "custom_fields" -> f.name \notin {Norm(n) : n \in FieldNames("tgt")}
                        [] f.area = "workflows" -> f.name \notin KeysOf(ToSet(site.tgt.flows))
                        [] OTHER -> f.name \notin Keys(ToSet(site.tgt.lists[f.area]))
    BY DEF NoFalseGap
  <2>1. ~FalseGap(f)
    BY GapsAreReal
  <2>2. QED
    BY <2>1 DEF FalseGap
<1>2. QED
  BY <1>1, AuditCorrect, PTL

-----------------------------------------------------------------------------
(* Narrowing hides nothing in use.                                            *)

\* The comparison without narrowing sees the same lists and the same failures.
WideOf(x, r) ==
  /\ x.skipped = r.skipped /\ x.failed = r.failed /\ \A s \in Sides : x[s] = r[s]
  /\ "scope" \in DOMAIN x => ~x.scope.ok
LEMMA WideScoped ==
  ASSUME NEW A, NEW a \in DOMAIN A, NEW b, InFull(A[a], b), HasScope(A[a])
  PROVE  WideOf(Wide(A)[a], A[a])
<1>1. Wide(A)[a] = [A[a] EXCEPT !.scope = [A[a].scope EXCEPT !.ok = FALSE]]
  BY DEF Wide, HasScope
<1> DEFINE r == A[a]
           x == Wide(A)[a]
           w == [r.scope EXCEPT !.ok = FALSE]
<1>2. w.ok = FALSE
  BY DEF HasScope
<1>3. x = [r EXCEPT !.scope = w] /\ "scope" \in DOMAIN r /\ {"skipped", "failed", "src", "tgt"} \subseteq DOMAIN r
  BY <1>1 DEF InFull, HasScope
<1> HIDE DEF r, x, w
<1>4. x.scope = w /\ x.skipped = r.skipped /\ x.failed = r.failed /\ x["src"] = r["src"] /\ x["tgt"] = r["tgt"]
  BY <1>3
<1>5. WideOf(x, r)
  BY <1>2, <1>4 DEF WideOf, Sides
<1>6. QED
  BY <1>5 DEF x, r

LEMMA WideIs ==
  ASSUME NEW A, SnapOK(A, 9), NEW a \in ListAreas \cup {"custom_fields", "workflows"}
  PROVE  WideOf(Wide(A)[a], A[a]) /\ a \in DOMAIN A
<1>1. a \in DOMAIN A
  BY DEF SnapOK, AreasAt
<1>2. CASE "scope" \in DOMAIN A[a]
  <2>1. InFull(A[a], a) /\ HasScope(A[a])
    <3>1. CASE a \in ListAreas
      <4>1. ListOK(A[a], a, 9)
        BY <3>1 DEF SnapOK
      <4>2. ~(DcSide /\ a \in CloudOnly)
        BY <1>2, <4>1 DEF ListOK, Skip
      <4>3. QED
        BY <1>2, <4>1, <4>2 DEF ListOK, Skip
    <3>2. CASE a \notin ListAreas
      BY <3>2 DEF SnapOK
    <3>3. QED
      BY <3>1, <3>2
  <2>2. QED
    BY <1>1, <2>1, WideScoped
<1>3. CASE "scope" \notin DOMAIN A[a]
  <2>1. Wide(A)[a] = A[a]
    BY <1>1, <1>3 DEF Wide
  <2>2. QED
    BY <1>1, <1>3, <2>1 DEF WideOf
<1>4. QED
  BY <1>2, <1>3

\* What the comparison without narrowing finds in an area that was read in full is found, or
\* its key is out of the scope.
LEMMA WideList ==
  ASSUME NEW A, SnapOK(A, 9), NEW a \in ListAreas, NEW f \in ListPart(Wide(A), a), A[a].failed = {}
  PROVE  f \in ListPart(A, a) \/ (Narrowed(A, a) /\ f.name \notin A[a].scope.keys)
<1> DEFINE W == Wide(A)
<1>1. WideOf(W[a], A[a])
  BY WideIs
<1> HIDE DEF W
<1>2. f \notin Errors(W, a)
  BY <1>1, ErrorIs DEF WideOf
<1>3. f \in Missing(a, Keys(RowsIn(W, a, "src")), Keys(RowsIn(W, a, "tgt")))
  BY <1>2 DEF ListPart, W
<1>4. f.name \in Keys(RowsIn(W, a, "src")) /\ f.name \notin Keys(RowsIn(W, a, "tgt"))
  BY <1>3, EachIs DEF Missing
<1>5. \A s \in Sides : RowsIn(W, a, s) = ToSet(A[a][s])
  BY <1>1 DEF RowsIn, Narrowed, WideOf
<1>6. f.name \in Keys(ToSet(A[a]["src"])) /\ f.name \notin Keys(ToSet(A[a]["tgt"]))
  BY <1>4, <1>5 DEF Sides
<1>7. f.name \notin Keys(RowsIn(A, a, "tgt"))
  BY <1>6 DEF RowsIn, Keys
<1>8. CASE f.name \in Keys(RowsIn(A, a, "src"))
  <2>1. f.name \in Keys(RowsIn(A, a, "src")) \ Keys(RowsIn(A, a, "tgt"))
    BY <1>7, <1>8
  <2>2. f \in Missing(a, Keys(RowsIn(A, a, "src")), Keys(RowsIn(A, a, "tgt")))
    BY <1>3, <2>1, EachMoved DEF Missing
  <2>3. QED
    BY <2>2 DEF ListPart
<1>9. CASE f.name \notin Keys(RowsIn(A, a, "src"))
  BY <1>6, <1>9 DEF RowsIn, Keys
<1>10. QED
  BY <1>8, <1>9

\* The same of the areas that are records.
LEMMA WideRecords ==
  ASSUME NEW A, SnapOK(A, 9), NEW a \in {"custom_fields", "workflows"}, NEW f \in RecordFindings(Wide(A), a),
         A[a].failed = {}
  PROVE  f \in RecordFindings(A, a) \/
           (A[a].scope.ok /\ f.name \notin A[a].scope.keys /\ f.name \in KeysOf(FirstOfName(A[a]["src"])))
<1> DEFINE W == Wide(A)
<1>1. WideOf(W[a], A[a]) /\ HasScope(A[a]) /\ a \in DOMAIN A
  <2>1. WideOf(W[a], A[a]) /\ a \in DOMAIN A
    BY WideIs
  <2>2. HasScope(A[a])
    BY DEF SnapOK
  <2>3. QED
    BY <2>1, <2>2
<1>2. ~W[a].scope.ok
  <2>1. "scope" \in DOMAIN W[a]
    BY <1>1 DEF Wide, HasScope
  <2> HIDE DEF W
  <2>2. QED
    BY <1>1, <2>1 DEF WideOf
<1> HIDE DEF W
<1>3. f \notin Errors(W, a)
  BY <1>1, ErrorIs DEF WideOf
<1>4. f \in Missing(a, KeysOf(RecordsIn(W, a, "src")), KeysOf(RecordsIn(W, a, "tgt")))
  BY <1>3 DEF RecordFindings, W
<1>5. f.name \in KeysOf(RecordsIn(W, a, "src")) /\ f.name \notin KeysOf(RecordsIn(W, a, "tgt"))
  BY <1>4, EachIs DEF Missing
<1>6. \A s \in Sides : RecordsIn(W, a, s) = FirstOfName(A[a][s])
  BY <1>1, <1>2 DEF RecordsIn, WideOf
<1>7. f.name \in KeysOf(FirstOfName(A[a]["src"])) /\ f.name \notin KeysOf(FirstOfName(A[a]["tgt"]))
  BY <1>5, <1>6 DEF Sides
<1>8. f.name \notin KeysOf(RecordsIn(A, a, "tgt"))
  BY <1>7 DEF RecordsIn, KeysOf
<1>9. CASE f.name \in KeysOf(RecordsIn(A, a, "src"))
  <2>1. f.name \in KeysOf(RecordsIn(A, a, "src")) \ KeysOf(RecordsIn(A, a, "tgt"))
    BY <1>8, <1>9
  <2>2. f \in Missing(a, KeysOf(RecordsIn(A, a, "src")), KeysOf(RecordsIn(A, a, "tgt")))
    BY <1>4, <2>1, EachMoved DEF Missing
  <2>3. QED
    BY <2>2 DEF RecordFindings
<1>10. CASE f.name \notin KeysOf(RecordsIn(A, a, "src"))
  BY <1>7, <1>10 DEF RecordsIn, KeysOf
<1>11. QED
  BY <1>9, <1>10

\* An area with a failed read has an error in the report.
LEMMA FailedIsTold ==
  ASSUME AuditInv, pc = "done", NEW a \in ListAreas \cup {"custom_fields", "workflows"},
         ~areas[a].skipped, areas[a].failed # {}
  PROVE  Told(a)
<1>1. PICK s \in areas[a].failed : TRUE
  OBVIOUS
<1> DEFINE f == Finding(a, <<s>>, "area_error", "error")
<1>2. f \in Errors(areas, a) /\ f.area = a /\ f.kind = "area_error"
  BY DEF Errors, Finding
<1>3. f \in findings
  BY <1>2, AtTheEnd, Parts DEF PartOf, ListPart, RecordFindings
<1>4. QED
  BY <1>2, <1>3 DEF Told

\* A field that a selected project sees and that is out of a scope it should be in stands
\* behind another one of its key.
LEMMA SeenOrShadowed ==
  ASSUME site \in Sites, NEW k \in FieldsUsed, k \notin FieldsSeen
  PROVE  k \in Shadowed
<1> DEFINE ws == site.src.fields
<1>1. PICK i \in DOMAIN ws : Norm(ws[i].name) = k /\ ws[i].seenBy \cap Projects # {}
  BY DEF FieldsUsed
<1>2. CASE \A j \in 1..(i - 1) : Norm(ws[j].name) # Norm(ws[i].name)
  BY <1>1, <1>2 DEF FirstOfName, FieldsSeen
<1>3. CASE \E j \in 1..(i - 1) : Norm(ws[j].name) = Norm(ws[i].name)
  BY <1>1, <1>3 DEF Shadowed
<1>4. QED
  BY <1>2, <1>3

\* ScopeHidesNothing: what the comparison of the whole instances would call missing and the
\* report lacks is not in use by a selected project, or its area has an error. The two uses
\* the code misses are the exceptions: beyond the first page of a mapping, and behind a field
\* of the same key.
THEOREM ScopeHidesNothingHolds == Spec => []ScopeHidesNothing
<1>1. AuditInv => ScopeHidesNothing
  <2> SUFFICES ASSUME AuditInv, pc = "done",
                      NEW f \in ListFindings(Wide(areas)) \cup RecordFindings(Wide(areas), "custom_fields")
                                  \cup RecordFindings(Wide(areas), "workflows"),
                      f \notin findings, ~Told(f.area)
               PROVE  \/ f.area = "custom_fields" /\ (f.name \notin FieldsUsed \/ f.name \in Shadowed)
                      \/ f.area # "custom_fields" /\ f.name \notin UsedKeys(f.area, FALSE)
    BY DEF ScopeHidesNothing
  <2>1. SnapOK(areas, 9) /\ Linked(areas, ideal, 9) /\ ~PartOf(f, areas) /\ site \in Sites
    BY AtTheEnd, Parts
  <2>2. ASSUME NEW a \in ListAreas, ~Wide(areas)[a].skipped, f \in ListPart(Wide(areas), a)
        PROVE  f.area # "custom_fields" /\ f.name \notin UsedKeys(f.area, FALSE)
    <3>1. f.area = a /\ a # "custom_fields"
      BY <2>2, ListPartIs, AreaKinds
    <3>2. ~areas[a].skipped
      BY <2>1, <2>2, WideIs DEF WideOf
    <3>3. areas[a].failed = {}
      BY <3>1, <3>2, FailedIsTold
    <3>4. Narrowed(areas, a) /\ f.name \notin areas[a].scope.keys
      BY <2>1, <2>2, <3>2, <3>3, WideList DEF PartOf
    <3>5. ListOK(areas[a], a, 9)
      BY <2>1 DEF SnapOK
    <3>6. ScopedAt(a, 9) /\ a \in DOMAIN Walk
      BY <3>2, <3>4, <3>5, AreaKinds DEF ListOK, Skip, Narrowed, ScopedAt
    <3>7. ScopeTrue(areas[a], ideal[a], a)
      BY <2>1, <3>2, <3>6 DEF Linked
    <3>8. QED
      BY <3>1, <3>3, <3>4, <3>7 DEF ScopeTrue, Narrowed
  <2>3. ASSUME f \in RecordFindings(Wide(areas), "workflows")
        PROVE  f.area # "custom_fields" /\ f.name \notin UsedKeys(f.area, FALSE)
    <3>1. f.area = "workflows"
      BY <2>3, RecordFindingIs
    <3>2. ~areas["workflows"].skipped
      BY <2>1 DEF SnapOK, InFull
    <3>3. areas["workflows"].failed = {}
      BY <3>1, <3>2, FailedIsTold
    <3>4. areas["workflows"].scope.ok /\ f.name \notin areas["workflows"].scope.keys
      BY <2>1, <2>3, <3>3, WideRecords DEF PartOf
    <3>5. ScopeTrue(areas["workflows"], ideal["workflows"], "workflows")
      BY <2>1, <3>2, AreaKinds DEF Linked, ScopedAt
    <3>6. QED
      BY <3>1, <3>3, <3>4, <3>5 DEF ScopeTrue
  <2>4. ASSUME f \in RecordFindings(Wide(areas), "custom_fields")
        PROVE  f.area = "custom_fields" /\ (f.name \notin FieldsUsed \/ f.name \in Shadowed)
    <3>1. f.area = "custom_fields"
      BY <2>4, RecordFindingIs
    <3>2. areas["custom_fields"].failed = {}
      <4>1. ~areas["custom_fields"].skipped
        BY <2>1 DEF SnapOK, InFull
      <4>2. QED
        BY <3>1, <4>1, FailedIsTold
    <3>3. f.name \notin areas["custom_fields"].scope.keys
      BY <2>1, <2>4, <3>2, WideRecords DEF PartOf
    <3>4. f.name \notin FieldsSeen
      BY <2>1, <3>2, <3>3 DEF Linked, FieldScopeTrue
    <3>5. QED
      BY <2>1, <3>1, <3>4, SeenOrShadowed
  <2>5. CASE f \in ListFindings(Wide(areas))
    BY <2>2, <2>5, ListParts
  <2>6. QED
    BY <2>3, <2>4, <2>5
<1>2. QED
  BY <1>1, AuditCorrect, PTL

-----------------------------------------------------------------------------
(* No failed read hides a gap.                                                *)

\* An area that was read without failures is the ideal one, and is narrowed no further.
Wider(r, i) == r.scope.ok => i.scope.ok /\ i.scope.keys \subseteq r.scope.keys

\* The lists.
LEMMA ReadListAsIdeal ==
  ASSUME AuditInv, pc = "done", NEW a \in ListAreas, ~areas[a].skipped, areas[a].failed = {}
  PROVE  /\ ~ideal[a].skipped /\ \A s \in Sides : areas[a][s] = ideal[a][s]
         /\ Narrowed(areas, a) => Narrowed(ideal, a) /\ areas[a].scope = ideal[a].scope
<1>1. SnapOK(areas, 9) /\ SnapOK(ideal, 9) /\ Unfailed(ideal) /\ Linked(areas, ideal, 9)
  BY AtTheEnd
<1>2. ListOK(areas[a], a, 9) /\ ListOK(ideal[a], a, 9) /\ a \in DOMAIN ideal
  BY <1>1 DEF SnapOK, AreasAt
<1>3. ~(DcSide /\ a \in CloudOnly)
  BY <1>2 DEF ListOK, Skip
<1>4. InFull(areas[a], a) /\ InFull(ideal[a], a)
  BY <1>2, <1>3 DEF ListOK
<1>5. ideal[a].failed = {}
  BY <1>1, <1>2, <1>4 DEF Unfailed, InFull
<1>6. ASSUME Narrowed(areas, a) PROVE Narrowed(ideal, a) /\ areas[a].scope = ideal[a].scope
  <2>1. ScopedAt(a, 9) /\ a \in DOMAIN Walk
    BY <1>2, <1>3, <1>6, AreaKinds DEF ListOK, Narrowed, ScopedAt
  <2>2. HasScope(ideal[a])
    BY <1>2, <1>3, <2>1 DEF ListOK
  <2>3. ScopeTrue(areas[a], ideal[a], a)
    BY <1>1, <2>1 DEF Linked
  <2>4. QED
    BY <1>6, <2>2, <2>3 DEF ScopeTrue, Narrowed, HasScope
<1>7. QED
  BY <1>4, <1>5, <1>6 DEF InFull

\* The custom fields and the workflows.
LEMMA ReadRecordsAsIdeal ==
  ASSUME AuditInv, pc = "done", NEW a \in {"custom_fields", "workflows"}, areas[a].failed = {}
  PROVE  /\ \A s \in Sides : areas[a][s] = FullRows(a, s) /\ ideal[a][s] = FullRows(a, s)
         /\ Wider(areas[a], ideal[a])
<1>1. SnapOK(areas, 9) /\ SnapOK(ideal, 9) /\ Unfailed(ideal) /\ Linked(areas, ideal, 9)
  BY AtTheEnd
<1>2. InFull(areas[a], a) /\ InFull(ideal[a], a) /\ a \in DOMAIN ideal
  BY <1>1 DEF SnapOK, AreasAt
<1>3. ideal[a].failed = {}
  BY <1>1, <1>2 DEF Unfailed, InFull
<1>4. ASSUME a = "custom_fields" PROVE Wider(areas[a], ideal[a])
  BY <1>1, <1>4 DEF Linked, FieldScopeTrue, Wider
<1>5. ASSUME a = "workflows" PROVE Wider(areas[a], ideal[a])
  <2>1. ScopeTrue(areas[a], ideal[a], a)
    BY <1>1, <1>2, <1>5, AreaKinds DEF Linked, ScopedAt, InFull
  <2>2. QED
    BY <2>1 DEF ScopeTrue, Wider
<1>6. QED
  BY <1>2, <1>3, <1>4, <1>5 DEF InFull

\* A finding of a list is found, or the area has an error.
LEMMA ListNotHidden ==
  ASSUME AuditInv, pc = "done", NEW a \in ListAreas, ~ideal[a].skipped, NEW f \in ListPart(ideal, a)
  PROVE  f \in findings \/ Told(f.area)
<1>1. f.area = a
  BY ListPartIs
<1>2. SnapOK(areas, 9) /\ SnapOK(ideal, 9) /\ Unfailed(ideal)
  BY AtTheEnd
<1>3. ~areas[a].skipped /\ a \in DOMAIN ideal
  <2>1. ListOK(areas[a], a, 9) /\ ListOK(ideal[a], a, 9) /\ a \in DOMAIN ideal
    BY <1>2 DEF SnapOK, AreasAt
  <2>2. ~(DcSide /\ a \in CloudOnly)
    BY <2>1 DEF ListOK, Skip
  <2>3. QED
    BY <2>1, <2>2 DEF ListOK, InFull
<1> SUFFICES ASSUME areas[a].failed = {} PROVE f \in findings
  BY <1>1, <1>3, FailedIsTold
<1>4. /\ \A s \in Sides : areas[a][s] = ideal[a][s]
      /\ Narrowed(areas, a) => Narrowed(ideal, a) /\ areas[a].scope = ideal[a].scope
  BY <1>3, ReadListAsIdeal
<1>5. f \notin Errors(ideal, a)
  BY <1>2, <1>3, ErrorIs DEF Unfailed
<1>6. f \in Missing(a, Keys(RowsIn(ideal, a, "src")), Keys(RowsIn(ideal, a, "tgt")))
  BY <1>5 DEF ListPart
<1>7. f.name \in Keys(RowsIn(ideal, a, "src")) /\ f.name \notin Keys(RowsIn(ideal, a, "tgt"))
  BY <1>6, EachIs DEF Missing
<1>8. f.name \in Keys(RowsIn(areas, a, "src"))
  BY <1>4, <1>7 DEF Keys, RowsIn, Sides
<1>9. f.name \notin Keys(RowsIn(areas, a, "tgt"))
  <2> SUFFICES ASSUME NEW n \in RowsIn(areas, a, "tgt"), f.name = Norm(n) PROVE FALSE
    BY DEF Keys
  <2>1. n \in ToSet(ideal[a]["tgt"])
    BY <1>4 DEF RowsIn, Sides
  <2>2. Narrowed(ideal, a) => f.name \in ideal[a].scope.keys
    BY <1>7 DEF Keys, RowsIn
  <2>3. n \in RowsIn(ideal, a, "tgt")
    BY <2>1, <2>2 DEF RowsIn
  <2>4. QED
    BY <1>7, <2>3 DEF Keys
<1>10. f \in ListPart(areas, a)
  <2>1. f.name \in Keys(RowsIn(areas, a, "src")) \ Keys(RowsIn(areas, a, "tgt"))
    BY <1>8, <1>9
  <2>2. QED
    BY <1>6, <2>1, EachMoved DEF Missing, ListPart
<1>11. QED
  BY <1>3, <1>10, AtTheEnd, Parts DEF PartOf

\* The records under a key that the ideal report narrows to.
LEMMA RecordsSame ==
  ASSUME AuditInv, pc = "done", NEW a \in {"custom_fields", "workflows"}, areas[a].failed = {}
  PROVE  /\ \A s \in Sides : RecordsIn(ideal, a, s) \subseteq RecordsIn(areas, a, s)
         /\ \A s, t \in Sides : \A q \in RecordsIn(ideal, a, s) : \A r \in RecordsIn(areas, a, t) :
              Norm(r.name) = Norm(q.name) => r \in RecordsIn(ideal, a, t)
         /\ \A s \in Sides : \A r, q \in RecordsIn(areas, a, s) : Norm(r.name) = Norm(q.name) => r = q
<1>1. /\ \A s \in Sides : areas[a][s] = FullRows(a, s) /\ ideal[a][s] = FullRows(a, s)
      /\ Wider(areas[a], ideal[a])
  BY ReadRecordsAsIdeal
<1>2. \A s \in Sides : FullRows(a, s) \in Seq(ToSet(FullRows(a, s)))
  BY AtTheEnd, SiteLists DEF FullRows
<1>3. \A s \in Sides : \A r, q \in FirstOfName(FullRows(a, s)) : Norm(r.name) = Norm(q.name) => r = q
  BY <1>2, FirstOfNameKeys
<1>4. QED
  BY <1>1, <1>3 DEF RecordsIn, Wider

\* The record of a key.
LEMMA ByKeyIs ==
  ASSUME NEW R, NEW r \in R, \A x, y \in R : Norm(x.name) = Norm(y.name) => x = y
  PROVE  ByKey(R, Norm(r.name)) = r
<1> DEFINE k == Norm(r.name)
<1>1. \E x \in R : Norm(x.name) = k
  OBVIOUS
<1>2. ByKey(R, k) \in R /\ Norm(ByKey(R, k).name) = k
  BY <1>1 DEF ByKey
<1>3. QED
  BY <1>2

\* So both sides have the same two records to compare.
LEMMA PairSame ==
  ASSUME AuditInv, pc = "done", NEW a \in {"custom_fields", "workflows"}, areas[a].failed = {},
         NEW k \in Both(ideal, a)
  PROVE  k \in Both(areas, a) /\ Pair(areas, a, k) = Pair(ideal, a, k)
<1>1. /\ \A s \in Sides : RecordsIn(ideal, a, s) \subseteq RecordsIn(areas, a, s)
      /\ \A s \in Sides : \A r, q \in RecordsIn(areas, a, s) : Norm(r.name) = Norm(q.name) => r = q
  BY RecordsSame
<1>2. \A s \in Sides : k \in KeysOf(RecordsIn(ideal, a, s))
  BY DEF Both, Sides
<1>3. \A s \in Sides : ByKey(RecordsIn(areas, a, s), k) = ByKey(RecordsIn(ideal, a, s), k)
  <2> SUFFICES ASSUME NEW s \in Sides PROVE ByKey(RecordsIn(areas, a, s), k) = ByKey(RecordsIn(ideal, a, s), k)
    OBVIOUS
  <2>1. PICK r \in RecordsIn(ideal, a, s) : Norm(r.name) = k
    BY <1>2 DEF KeysOf
  <2>2. r \in RecordsIn(areas, a, s)
    BY <1>1
  <2>3. ByKey(RecordsIn(areas, a, s), k) = r
    BY <1>1, <2>1, <2>2, ByKeyIs
  <2>4. ByKey(RecordsIn(ideal, a, s), k) = r
    BY <1>1, <2>1, ByKeyIs
  <2>5. QED
    BY <2>3, <2>4
<1>4. k \in Both(areas, a)
  BY <1>1, <1>2 DEF Both, KeysOf, Sides
<1>5. QED
  BY <1>3, <1>4 DEF Pair

\* The findings of the ideal comparison, kind by kind.
LEMMA RecordNotHidden ==
  ASSUME AuditInv, pc = "done", NEW a \in {"custom_fields", "workflows"}, NEW f \in RecordFindings(ideal, a),
         areas[a].failed = {}
  PROVE  f \in RecordFindings(areas, a)
<1>1. f \notin Errors(ideal, a)
  <2>1. ~ideal[a].skipped /\ a \in DOMAIN ideal /\ Unfailed(ideal)
    BY AtTheEnd DEF SnapOK, InFull, AreasAt
  <2>2. QED
    BY <2>1, ErrorIs DEF Unfailed
<1>2. f \in Missing(a, KeysOf(RecordsIn(ideal, a, "src")), KeysOf(RecordsIn(ideal, a, "tgt")))
  BY <1>1 DEF RecordFindings
<1>3. f.name \in KeysOf(RecordsIn(ideal, a, "src")) /\ f.name \notin KeysOf(RecordsIn(ideal, a, "tgt"))
  BY <1>2, EachIs DEF Missing
<1>4. PICK q \in RecordsIn(ideal, a, "src") : f.name = Norm(q.name)
  BY <1>3 DEF KeysOf
<1>5. q \in RecordsIn(areas, a, "src")
  BY RecordsSame DEF Sides
<1>6. \A r \in RecordsIn(areas, a, "tgt") : Norm(r.name) = Norm(q.name) => r \in RecordsIn(ideal, a, "tgt")
  BY RecordsSame DEF Sides
<1>7. f.name \in KeysOf(RecordsIn(areas, a, "src")) \ KeysOf(RecordsIn(areas, a, "tgt"))
  BY <1>3, <1>4, <1>5, <1>6 DEF KeysOf
<1>8. QED
  BY <1>2, <1>7, EachMoved DEF Missing, RecordFindings

\* What goes unsaid.
Excused(f) ==
  \/ f.kind = "option_mismatch" /\ OptionsLost(f.name)
  \/ f.kind = "field_mismatch" /\ (TabsLost(f.name) \/ PushedOut(f.name))

\* A lost option of the target hides nothing.
LEMMA OptionsNotHidden ==
  ASSUME AuditInv, pc = "done", areas["custom_fields"].failed = {},
         NEW k \in Both(ideal, "custom_fields"), ~OptionsLost(k)
  PROVE  LET a == "custom_fields"
             opts(A, s) == A[a].options[s][Pair(A, a, k)[s].name]
         IN  opts(areas, "src") \subseteq opts(areas, "tgt") => opts(ideal, "src") \subseteq opts(ideal, "tgt")
<1> DEFINE a == "custom_fields"
           opts(A, s) == A[a].options[s][Pair(A, a, k)[s].name]
<1>1. Pair(areas, a, k) = Pair(ideal, a, k)
  BY PairSame
<1>2. opts(areas, "src") = opts(ideal, "src")
  BY <1>1 DEF OptionsLost
<1>3. Pair(ideal, a, k)["tgt"].name \in {f.name : f \in FirstOfName(site.tgt.fields)}
  <2>1. k \in KeysOf(RecordsIn(ideal, a, "tgt"))
    BY DEF Both
  <2>2. PICK r \in RecordsIn(ideal, a, "tgt") : Norm(r.name) = k
    BY <2>1 DEF KeysOf
  <2>3. ByKey(RecordsIn(ideal, a, "tgt"), k) \in RecordsIn(ideal, a, "tgt")
    BY <2>2 DEF ByKey
  <2>4. ideal[a]["tgt"] = FullRows(a, "tgt")
    BY ReadRecordsAsIdeal DEF Sides
  <2>5. ideal[a]["tgt"] = site.tgt.fields
    BY <2>4 DEF FullRows
  <2>6. ByKey(RecordsIn(ideal, a, "tgt"), k) \in FirstOfName(site.tgt.fields)
    BY <2>3, <2>5 DEF RecordsIn
  <2>7. Pair(ideal, a, k)["tgt"] = ByKey(RecordsIn(ideal, a, "tgt"), k)
    BY DEF Pair, Sides
  <2>8. QED
    BY <2>6, <2>7
<1>4. OptionsShort(areas[a], ideal[a])
  BY AtTheEnd DEF Linked
<1>5. opts(areas, "tgt") \subseteq opts(ideal, "tgt")
  BY <1>1, <1>3, <1>4 DEF OptionsShort
<1>6. QED
  BY <1>2, <1>5

LEMMA FieldNotHidden ==
  ASSUME AuditInv, pc = "done", NEW f \in FieldFindings(ideal), areas["custom_fields"].failed = {},
         ~Excused(f)
  PROVE  f \in FieldFindings(areas)
<1> DEFINE a == "custom_fields"
           differs(A) == {k \in Both(A, a) : Pair(A, a, k).src.type # Pair(A, a, k).tgt.type}
           opts(A, k) == [s \in Sides |-> A[a].options[s][Pair(A, a, k)[s].name]]
           lacks(A) == {k \in Both(A, a) : /\ ~DcSide /\ Pair(A, a, k).src.select
                                           /\ ~(opts(A, k).src \subseteq opts(A, k).tgt)}
<1>1. \A A : FieldFindings(A) = Each(a, differs(A), "type_mismatch", "gap")
                                 \cup Each(a, lacks(A), "option_mismatch", "gap")
  BY DEF FieldFindings
<1>2. \A k \in Both(ideal, a) : k \in Both(areas, a) /\ Pair(areas, a, k) = Pair(ideal, a, k)
  BY PairSame
<1>3. CASE f \in Each(a, differs(ideal), "type_mismatch", "gap")
  <2>1. differs(ideal) \subseteq differs(areas)
    BY <1>2
  <2> HIDE DEF differs, lacks
  <2>2. f.name \in differs(areas)
    BY <1>3, <2>1, EachIs
  <2>3. QED
    BY <1>1, <1>3, <2>2, EachMoved
<1>4. CASE f \in Each(a, lacks(ideal), "option_mismatch", "gap")
  <2> HIDE DEF differs, lacks
  <2>1. f.kind = "option_mismatch" /\ f.name \in lacks(ideal)
    BY <1>4, EachIs
  <2>2. ~OptionsLost(f.name)
    BY <2>1 DEF Excused
  <2>3. f.name \in Both(ideal, a)
    BY <2>1 DEF lacks
  <2>4. opts(areas, f.name).src \subseteq opts(areas, f.name).tgt => opts(ideal, f.name).src \subseteq opts(ideal, f.name).tgt
    BY <2>2, <2>3, OptionsNotHidden DEF Sides
  <2> HIDE DEF opts
  <2>5. f.name \in lacks(areas)
    BY <1>2, <2>1, <2>3, <2>4 DEF lacks
  <2>6. QED
    BY <1>1, <1>4, <2>5, EachMoved
<1>5. QED
  BY <1>1, <1>3, <1>4

LEMMA FlowNotHidden ==
  ASSUME AuditInv, pc = "done", NEW f \in FlowFindings(ideal), areas["workflows"].failed = {}
  PROVE  f \in FlowFindings(areas)
<1> DEFINE a == "workflows"
           differs(A) == {k \in Both(A, a) : ~DcSide /\ Pair(A, a, k).src.shape # Pair(A, a, k).tgt.shape}
<1>1. \A A : FlowFindings(A) = Each(a, differs(A), "structure_mismatch", "gap")
  BY DEF FlowFindings
<1>2. \A k \in Both(ideal, a) : k \in Both(areas, a) /\ Pair(areas, a, k) = Pair(ideal, a, k)
  BY PairSame
<1>3. differs(ideal) \subseteq differs(areas)
  BY <1>2
<1> HIDE DEF differs
<1>4. f \in Each(a, differs(ideal), "structure_mismatch", "gap")
  BY <1>1
<1>5. f.name \in differs(areas)
  BY <1>3, <1>4, EachIs
<1>6. QED
  BY <1>1, <1>4, <1>5, EachMoved

\* A screen that the ideal report looks into is looked into, or pushed out.
LEMMA ScreenLooked ==
  ASSUME AuditInv, pc = "done", areas["screens"].failed = {}, NEW k \in Keys(Common(ideal))
  PROVE  k \in Keys(Common(areas)) \/ PushedOut(k)
<1>1. ~areas["screens"].skipped /\ "screens" \in ListAreas
  BY AtTheEnd, AreaKinds DEF SnapOK, ListOK, Skip, InFull
<1>2. /\ \A s \in Sides : areas["screens"][s] = ideal["screens"][s]
      /\ Narrowed(areas, "screens") => Narrowed(ideal, "screens") /\ areas["screens"].scope = ideal["screens"].scope
  BY <1>1, ReadListAsIdeal
<1>3. CASE Narrowed(areas, "screens") <=> Narrowed(ideal, "screens")
  <2>1. \A s \in Sides : RowsIn(areas, "screens", s) = RowsIn(ideal, "screens", s)
    BY <1>2, <1>3 DEF RowsIn
  <2>2. Common(areas) = Common(ideal)
    BY <1>2, <2>1, CommonIs
  <2>3. QED
    BY <2>2
<1>4. CASE Narrowed(ideal, "screens") /\ ~Narrowed(areas, "screens")
  <2>1. \A s \in Sides : RowsIn(ideal, "screens", s) \subseteq RowsIn(areas, "screens", s)
    BY <1>2, <1>4 DEF RowsIn
  <2>2. RowsIn(ideal, "screens", "src") \subseteq RowsIn(areas, "screens", "src")
        /\ RowsIn(ideal, "screens", "tgt") \subseteq RowsIn(areas, "screens", "tgt")
    BY <2>1 DEF Sides
  <2>3. PICK n \in Common(ideal) : k = Norm(n)
    BY DEF Keys
  <2>4. n \in InBoth(ideal)
    BY DEF Common
  <2>5. /\ n \in RowsIn(ideal, "screens", "src") /\ Norm(n) \in Keys(RowsIn(ideal, "screens", "tgt"))
        /\ n = ScreenOf(areas, "src", Norm(n))
    BY <1>2, <2>4, InBothIs
  <2>6. Norm(n) \in Keys(RowsIn(areas, "screens", "tgt"))
    BY <2>2, <2>5 DEF Keys
  <2>7. n \in InBoth(areas)
    BY <2>2, <2>5, <2>6 DEF InBoth
  <2>8. k \in Keys(InBoth(areas))
    BY <2>3, <2>7 DEF Keys
  <2>9. QED
    BY <1>4, <2>8 DEF PushedOut
<1>5. QED
  BY <1>2, <1>3, <1>4

LEMMA TabNotHidden ==
  ASSUME AuditInv, pc = "done", NEW f \in TabFindings(ideal), ~Excused(f), areas["screens"].failed = {}
  PROVE  f \in TabFindings(areas)
<1> DEFINE k == f.name
           short(A) == {m \in Keys(Common(A)) :
                          ~(A["screens"].fields.src[m] \subseteq A["screens"].fields.tgt[m])}
<1>1. \A A : TabFindings(A) = Each("screens", short(A), "field_mismatch", "gap")
  BY DEF TabFindings
<1> HIDE DEF short
<1>2. k \in short(ideal)
  BY <1>1, EachIs
<1>3. k \in Keys(Common(ideal)) /\ ~(ideal["screens"].fields.src[k] \subseteq ideal["screens"].fields.tgt[k])
  BY <1>2 DEF short
<1>4. ~TabsLost(k) /\ ~PushedOut(k)
  BY TabFindingIs DEF Excused
<1>5. k \in Keys(Common(areas))
  BY <1>3, <1>4, ScreenLooked
<1>6. \A s \in Sides : k \in DOMAIN areas["screens"].fields[s] /\ k \in DOMAIN ideal["screens"].fields[s]
  BY <1>3, <1>5, AtTheEnd DEF SnapOK, TabsOK
<1>7. areas["screens"].fields.src[k] = ideal["screens"].fields.src[k]
  BY <1>4, <1>6 DEF TabsLost, Sides
<1>8. areas["screens"].fields.tgt[k] \subseteq ideal["screens"].fields.tgt[k]
  <2>1. TabsShort(areas["screens"], ideal["screens"])
    BY AtTheEnd DEF Linked
  <2>2. QED
    BY <1>6, <2>1 DEF TabsShort, Sides
<1>9. k \in short(areas)
  BY <1>3, <1>5, <1>7, <1>8 DEF short
<1>10. QED
  BY <1>1, <1>9, EachMoved

LEMMA ProjectNotHidden ==
  ASSUME AuditInv, pc = "done", NEW a \in ProjectAreas, NEW p \in Projects, NEW f \in OneProject(ideal, a, p)
  PROVE  f \in findings \/ ToldOf(f)
<1>1. FailedFor(ideal, a, p) = {}
  <2>1. ~ideal[a].skipped /\ a \in DOMAIN ideal /\ Unfailed(ideal)
    <3>1. SnapOK(ideal, 9) /\ Unfailed(ideal)
      BY AtTheEnd
    <3>2. QED
      BY <3>1 DEF SnapOK, AreasAt
  <2>2. QED
    BY <2>1 DEF Unfailed, FailedFor
<1>2. f \in Each(a, LostOf(a, p), "missing_in_tgt", "gap")
  BY <1>1 DEF OneProject
<1>3. f.area = a /\ f.name \in LostOf(a, p)
  BY <1>2, EachIs
<1>4. f.name[1] = p
  BY <1>3, LostIs, AtTheEnd
<1>5. \A g : g \in OneProject(areas, a, p) => g \in findings
  BY AtTheEnd, Parts DEF PartOf
<1>6. CASE FailedFor(areas, a, p) = {}
  BY <1>2, <1>5, <1>6 DEF OneProject
<1>7. CASE FailedFor(areas, a, p) # {}
  <2>1. PICK s \in FailedFor(areas, a, p) : TRUE
    BY <1>7
  <2>2. PICK n : n = IF a = "jsm" THEN <<p>> ELSE <<p, s>>
    OBVIOUS
  <2> DEFINE g == Finding(a, n, "area_error", "error")
  <2>3. g \in OneProject(areas, a, p)
    <3>1. n \in {IF a = "jsm" THEN <<p>> ELSE <<p, t>> : t \in FailedFor(areas, a, p)}
      BY <2>1, <2>2
    <3>2. QED
      BY <1>7, <3>1 DEF OneProject, Each
  <2>4. n[1] = p
    BY <2>2
  <2>5. g.area = a /\ g.kind = "area_error" /\ g.name[1] = p
    BY <2>4 DEF Finding
  <2> HIDE DEF g
  <2>6. ToldOf(f)
    BY <1>3, <1>4, <1>5, <2>3, <2>5 DEF ToldOf, Object
  <2>7. QED
    BY <2>6
<1>8. QED
  BY <1>6, <1>7

\* NothingHidden: a gap that the audit reports when all its reads succeed is reported when some
\* fail, or the report says that the area, or the project, was not read. Lost options of this
\* field or fields of this screen on the source, and a screen that a failed walk pushed out of
\* the deep check, go unsaid.
THEOREM NothingHiddenHolds == Spec => []NothingHidden
<1>1. AuditInv => NothingHidden
  <2> SUFFICES ASSUME AuditInv, pc = "done", NEW f \in AllFindings(ideal), f \notin findings, ~Excused(f)
               PROVE  ToldOf(f)
    BY DEF NothingHidden, Excused
  <2>1. PartOf(f, ideal) /\ ~PartOf(f, areas)
    BY AtTheEnd, Parts
  <2>2. \A a \in ListAreas \cup {"custom_fields", "workflows"} : f.area = a /\ Told(a) => ToldOf(f)
    BY AreaKinds DEF ToldOf
  <2>3. ~areas["custom_fields"].skipped /\ ~areas["workflows"].skipped
    BY AtTheEnd DEF SnapOK, InFull
  <2>4. CASE \E a \in ListAreas : ~ideal[a].skipped /\ f \in ListPart(ideal, a)
    BY <2>2, <2>4, ListNotHidden, ListPartIs
  <2>5. CASE f \in RecordFindings(ideal, "custom_fields") \/ f \in FieldFindings(ideal)
    <3>1. f.area = "custom_fields"
      BY <2>5, RecordFindingIs, FieldFindingIs
    <3>2. areas["custom_fields"].failed # {}
      BY <2>1, <2>5, RecordNotHidden, FieldNotHidden DEF PartOf
    <3>3. QED
      BY <2>2, <2>3, <3>1, <3>2, FailedIsTold
  <2>6. CASE f \in RecordFindings(ideal, "workflows") \/ f \in FlowFindings(ideal)
    <3>1. f.area = "workflows"
      BY <2>6, RecordFindingIs, FlowFindingIs
    <3>2. areas["workflows"].failed # {}
      BY <2>1, <2>6, RecordNotHidden, FlowNotHidden DEF PartOf
    <3>3. QED
      BY <2>2, <2>3, <3>1, <3>2, FailedIsTold
  <2>7. CASE f \in TabFindings(ideal)
    <3>1. f.area = "screens" /\ "screens" \in ListAreas
      BY <2>7, TabFindingIs, AreaKinds
    <3>2. areas["screens"].failed # {}
      BY <2>1, <2>7, TabNotHidden DEF PartOf
    <3>3. ~areas["screens"].skipped
      BY AtTheEnd, AreaKinds DEF SnapOK, ListOK, Skip, InFull
    <3>4. QED
      BY <2>2, <3>1, <3>2, <3>3, FailedIsTold
  <2>8. CASE \E a \in ProjectAreas : \E p \in Projects : f \in OneProject(ideal, a, p)
    BY <2>8, ProjectNotHidden
  <2>9. QED
    BY <2>1, <2>4, <2>5, <2>6, <2>7, <2>8 DEF PartOf
<1>2. QED
  BY <1>1, AuditCorrect, PTL
=============================================================================
