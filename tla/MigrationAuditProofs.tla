------------------------ MODULE MigrationAuditProofs ------------------------
(* Theorems about MigrationAudit for any pairs of sites, any page size, any     *)
(* number of runs, failures and edits: a clean verdict is a true one and no     *)
(* loss is made up, within the exceptions that the properties name.             *)
EXTENDS MigrationAudit, FiniteSetTheorems, SequenceTheorems, WellFoundedInduction, TLAPS

-----------------------------------------------------------------------------
(* Finite sets of numbers, and the pages of a list.                            *)

\* A finite set of numbers has a largest one: among the subsets that had none, take a
\* smallest, and leave one number out of it.
LEMMA MaxOfFinite ==
  ASSUME NEW S, IsFiniteSet(S), S \subseteq Int, S # {}
  PROVE  Max(S) \in S /\ \A y \in S : y <= Max(S)
<1> DEFINE Has(U) == \E x \in U : \A y \in U : y <= x
           Bad == {U \in FiniteSubsetsOf(S) : U # {} /\ ~Has(U)}
<1>1. Bad = {}
  <2>1. SUFFICES ASSUME Bad # {} PROVE FALSE
    OBVIOUS
  <2>2. IsWellFoundedOn(StrictSubsetOrdering(S), FiniteSubsetsOf(S))
    BY FS_StrictSubsetOrderingWellFounded
  <2>3. PICK U \in Bad : \A V \in Bad : <<V, U>> \notin StrictSubsetOrdering(S)
    <3>1. Bad \subseteq FiniteSubsetsOf(S)
      OBVIOUS
    <3> HIDE DEF Bad
    <3>2. QED
      BY <2>1, <2>2, <3>1, WFMin
  <2>4. U \subseteq S /\ IsFiniteSet(U) /\ U # {} /\ ~Has(U)
    BY <2>3 DEF FiniteSubsetsOf
  <2>5. PICK x \in U : TRUE
    BY <2>4
  <2>6. IsFiniteSet(U \ {x})
    BY <2>4, FS_RemoveElement
  <2>7. CASE U \ {x} = {}
    <3>1. U = {x} /\ x \in Int
      BY <2>4, <2>5, <2>7
    <3>2. QED
      BY <2>4, <3>1
  <2>8. CASE U \ {x} # {}
    <3>1. <<U \ {x}, U>> \in StrictSubsetOrdering(S)
      BY <2>4, <2>5 DEF StrictSubsetOrdering
    <3>2. U \ {x} \in FiniteSubsetsOf(S)
      BY <2>4, <2>6 DEF FiniteSubsetsOf
    <3>3. Has(U \ {x})
      BY <2>3, <2>8, <3>1, <3>2
    <3>4. PICK m \in U \ {x} : \A y \in U \ {x} : y <= m
      BY <3>3
    <3>5. m \in Int /\ x \in Int /\ \A y \in U : y \in Int
      BY <2>4, <2>5
    <3>6. CASE x <= m
      BY <2>4, <3>4, <3>6
    <3>7. CASE ~(x <= m)
      <4>1. \A y \in U : y <= x
        BY <3>4, <3>5, <3>7
      <4>2. QED
        BY <2>4, <2>5, <4>1
    <3>8. QED
      BY <3>6, <3>7
  <2>9. QED
    BY <2>7, <2>8
<1>2. S \in FiniteSubsetsOf(S)
  BY DEF FiniteSubsetsOf
<1>3. PICK x \in S : \A y \in S : y <= x
  BY <1>1, <1>2
<1>4. \A y \in S : x >= y
  BY <1>3
<1>5. /\ (CHOOSE z \in S : \A y \in S : z >= y) \in S
      /\ \A y \in S : (CHOOSE z \in S : \A y1 \in S : z >= y1) >= y
  BY <1>3, <1>4
<1>6. QED
  BY <1>5 DEF Max

\* A set of naturals with an element has a least one.
LEMMA LeastOf ==
  ASSUME NEW T \in SUBSET Nat, T # {}
  PROVE  \E x \in T : \A y \in T : x <= y
<1> DEFINE R == OpToRel(<, Nat)
<1>1. IsWellFoundedOn(R, Nat)
  BY NatLessThanWellFounded
<1>2. \A x, y \in Nat : y < x => <<y, x>> \in R
  BY DEF OpToRel
<1> HIDE DEF R
<1>3. PICK x \in T : \A y \in T : ~ (<<y, x>> \in R)
  BY <1>1, WFMin
<1>4. ASSUME NEW y \in T PROVE x <= y
  <2>1. ~(y < x)
    BY <1>2, <1>3
  <2>2. QED
    BY <2>1
<1>5. QED
  BY <1>4

\* The first numbers of a set, as many as a page holds.
FirstOf(rest, size) == {n \in rest : Cardinality({m \in rest : m <= n}) <= size}

\* They come before the others, and they are all when the page is not full.
LEMMA FirstPage ==
  ASSUME NEW rest, IsFiniteSet(rest), rest \subseteq Nat, NEW size \in Nat,
         NEW page, page = FirstOf(rest, size)
  PROVE  /\ \A n \in rest, k \in page : n <= k => n \in page
         /\ Cardinality(page) < size => page = rest
<1> USE DEF FirstOf
<1> DEFINE below(n) == {m \in rest : m <= n}
<1>1. \A n \in rest : IsFiniteSet(below(n)) /\ Cardinality(below(n)) \in Nat
  <2>1. TAKE n \in rest
  <2>2. below(n) \subseteq rest
    OBVIOUS
  <2>3. QED
    BY <2>2, FS_Subset, FS_CardinalityType
<1>2. ASSUME NEW n \in rest, NEW k \in page, n <= k PROVE n \in page
  <2>0. k \in rest
    BY <1>2
  <2>1. below(n) \subseteq below(k)
    <3>1. \A m \in rest : m <= n => m <= k
      BY <1>2, <2>0
    <3>2. QED
      BY <3>1
  <2>2. Cardinality(below(n)) <= Cardinality(below(k))
    BY <1>1, <1>2, <2>1, FS_Subset
  <2>3. Cardinality(below(k)) <= size
    BY <1>2
  <2>4. Cardinality(below(n)) <= size
    <3>1. Cardinality(below(n)) \in Nat /\ Cardinality(below(k)) \in Nat
      BY <1>1, <1>2, <2>0
    <3> HIDE DEF below
    <3>2. QED
      BY <2>2, <2>3, <3>1
  <2>5. QED
    BY <2>4
<1>3. ASSUME page # rest PROVE ~(Cardinality(page) < size)
  <2> DEFINE late == rest \ page
  <2>1. late # {} /\ late \subseteq Nat
    BY <1>3
  <2>2. PICK x \in late : \A y \in late : x <= y
    BY <2>1, LeastOf
  <2>3. x \in rest /\ x \in Nat /\ Cardinality(below(x)) > size
    BY <1>1, <2>2
  <2>4. below(x) = page \cup {x}
    <3>1. ASSUME NEW m \in below(x) PROVE m \in page \cup {x}
      BY <2>2, <2>3, <3>1
    <3>2. ASSUME NEW m \in page PROVE m \in below(x)
      <4>1. m \in rest /\ m \in Nat /\ x \notin page
        BY <2>2
      <4>2. ~(x <= m)
        BY <1>2, <2>3, <3>2, <4>1
      <4>3. QED
        BY <2>3, <4>1, <4>2
    <3>3. x \in below(x)
      BY <2>3
    <3>4. QED
      BY <3>1, <3>2, <3>3
  <2>5. IsFiniteSet(page) /\ Cardinality(page) \in Nat
    <3>1. page \subseteq rest
      OBVIOUS
    <3>2. QED
      BY <3>1, FS_Subset, FS_CardinalityType
  <2>6. Cardinality(below(x)) = Cardinality(page) + 1
    <3>1. x \notin page
      BY <2>2
    <3>2. Cardinality(page \cup {x}) = Cardinality(page) + 1
      BY <2>5, <3>1, FS_AddElement
    <3>3. QED
      BY <2>4, <3>2
  <2>7. QED
    BY <2>3, <2>5, <2>6
<1>4. QED
  BY <1>2, <1>3

\* The list of a finite set has its elements, and no others.
LEMMA ListOfSet ==
  ASSUME NEW S, IsFiniteSet(S)
  PROVE  SetToSeq(S) \in Seq(S) /\ ToSet(SetToSeq(S)) = S
<1> DEFINE n == Cardinality(S)
<1>1. n \in Nat /\ ExistsBijection(1..n, S)
  BY FS_CardinalityType
<1>2. PICK f : f \in Bijection(1..n, S)
  BY <1>1 DEF ExistsBijection
<1>3. f \in [1..n -> S] /\ IsInjective(f)
  BY <1>2 DEF Bijection, Injection
<1>4. SetToSeq(S) \in [1..n -> S] /\ IsInjective(SetToSeq(S))
  BY <1>3 DEF SetToSeq
<1> DEFINE g == SetToSeq(S)
<1>5. g \in Injection(1..n, S)
  BY <1>4 DEF Injection
<1>6. Cardinality(1..n) = n
  BY <1>1, FS_Interval
<1> HIDE DEF g
<1>7. g \in Surjection(1..n, S)
  BY <1>5, <1>6, FS_Injection
<1>8. \A x \in S : \E i \in 1..n : g[i] = x
  BY <1>7 DEF Surjection
<1>9. g \in [1..n -> S]
  BY <1>4 DEF g
<1>10. g \in Seq(S)
  BY <1>1, <1>9
<1>11. ToSet(g) = S
  BY <1>8, <1>9 DEF ToSet
<1>12. QED
  BY <1>10, <1>11 DEF g

\* Lists with the same elements, each as often, are of the same length.
LEMMA SameBagSameLength ==
  ASSUME NEW S, NEW q \in Seq(S), NEW r \in Seq(S), BagOf(q) = BagOf(r)
  PROVE  Len(q) = Len(r)
<1> DEFINE places(f, x) == {i \in DOMAIN f : f[i] = x}
<1>1. /\ Len(q) \in Nat /\ DOMAIN q = 1..Len(q)
      /\ Len(r) \in Nat /\ DOMAIN r = 1..Len(r)
  BY LenProperties
<1>2. /\ IsFiniteSet(DOMAIN q) /\ Cardinality(DOMAIN q) = Len(q)
      /\ IsFiniteSet(DOMAIN r) /\ Cardinality(DOMAIN r) = Len(r)
  <2>1. \A n \in Nat : IsFiniteSet(1..n) /\ Cardinality(1..n) = n
    BY FS_Interval
  <2>2. QED
    BY <1>1, <2>1
<1>3. ToSet(q) = ToSet(r) /\ \A x \in ToSet(q) : Cardinality(places(q, x)) = Cardinality(places(r, x))
  <2>1. DOMAIN BagOf(q) = ToSet(q) /\ DOMAIN BagOf(r) = ToSet(r)
    BY DEF BagOf
  <2>2. \A x \in ToSet(q) : BagOf(q)[x] = Cardinality(places(q, x))
    BY DEF BagOf
  <2>3. \A x \in ToSet(r) : BagOf(r)[x] = Cardinality(places(r, x))
    BY DEF BagOf
  <2>4. QED
    BY <2>1, <2>2, <2>3
<1>4. \A x \in ToSet(q) : ExistsBijection(places(q, x), places(r, x))
  <2>1. TAKE x \in ToSet(q)
  <2>2. places(q, x) \subseteq DOMAIN q /\ places(r, x) \subseteq DOMAIN r
    OBVIOUS
  <2>3. IsFiniteSet(places(q, x)) /\ IsFiniteSet(places(r, x))
    BY <1>2, <2>2, FS_Subset
  <2> HIDE DEF places
  <2>4. QED
    BY <1>3, <2>3, FS_SameCardinalityBij
<1> DEFINE to(x) == CHOOSE g : g \in Bijection(places(q, x), places(r, x))
           all == [i \in DOMAIN q |-> to(q[i])[i]]
<1>5. \A x \in ToSet(q) : /\ to(x) \in [places(q, x) -> places(r, x)]
                          /\ \A i, j \in places(q, x) : to(x)[i] = to(x)[j] => i = j
                          /\ \A j \in places(r, x) : \E i \in places(q, x) : to(x)[i] = j
  <2>1. TAKE x \in ToSet(q)
  <2>2. PICK g : g \in Bijection(places(q, x), places(r, x))
    BY <1>4 DEF ExistsBijection
  <2>3. to(x) \in Bijection(places(q, x), places(r, x))
    BY <2>2
  <2> HIDE DEF to, places
  <2>4. QED
    BY <2>3 DEF Bijection, Injection, Surjection, IsInjective
<1>6. \A i \in DOMAIN q : q[i] \in ToSet(q) /\ i \in places(q, q[i])
  BY DEF ToSet
<1> HIDE DEF to
<1>7. \A i \in DOMAIN q : all[i] = to(q[i])[i] /\ all[i] \in DOMAIN r /\ r[all[i]] = q[i]
  <2>1. TAKE i \in DOMAIN q
  <2>2. to(q[i])[i] \in places(r, q[i])
    <3> HIDE DEF places
    <3>1. QED
      BY <1>5, <1>6
  <2>3. QED
    BY <2>2
<1>8. all \in [DOMAIN q -> DOMAIN r]
  BY <1>7
<1> HIDE DEF all
<1>9. \A i, j \in DOMAIN q : all[i] = all[j] => i = j
  <2>1. SUFFICES ASSUME NEW i \in DOMAIN q, NEW j \in DOMAIN q, all[i] = all[j] PROVE i = j
    OBVIOUS
  <2>2. q[i] = q[j]
    BY <1>7, <2>1
  <2>3. i \in places(q, q[i]) /\ j \in places(q, q[i]) /\ q[i] \in ToSet(q)
    BY <1>6, <2>2
  <2>4. to(q[i])[i] = to(q[i])[j]
    BY <1>7, <2>1, <2>2
  <2> HIDE DEF places
  <2>5. QED
    BY <1>5, <2>3, <2>4
<1>10. \A j \in DOMAIN r : \E i \in DOMAIN q : all[i] = j
  <2>1. TAKE j \in DOMAIN r
  <2>2. r[j] \in ToSet(q) /\ j \in places(r, r[j])
    <3>1. r[j] \in ToSet(r)
      BY DEF ToSet
    <3>2. QED
      BY <1>3, <3>1
  <2>3. PICK i \in places(q, r[j]) : to(r[j])[i] = j
    <3> HIDE DEF places
    <3>1. QED
      BY <1>5, <2>2
  <2>4. i \in DOMAIN q /\ q[i] = r[j]
    OBVIOUS
  <2>5. QED
    BY <1>7, <2>3, <2>4
<1>11. ExistsBijection(DOMAIN q, DOMAIN r)
  <2>1. all \in Bijection(DOMAIN q, DOMAIN r)
    BY <1>8, <1>9, <1>10 DEF Bijection, Injection, Surjection, IsInjective
  <2>2. QED
    BY <2>1 DEF ExistsBijection
<1>12. QED
  BY <1>2, <1>11, FS_Bijection

\* What an extract with the list of fields keeps of an issue: how many comments it has, and the
\* comments themselves when all were sent.
KeptAs(e, i, names, ambiguous) ==
  /\ WellFormed(i, names \cup ambiguous)
  /\ e.fields = i.fields /\ e.body = i.body /\ e.files = i.files
  /\ e.comments.total = Len(i.comments)
  /\ Complete(e.comments) => e.comments.items = i.comments
  /\ DOMAIN e.custom = names \cap DOMAIN i.custom
  /\ \A x \in DOMAIN e.custom : e.custom[x] = i.custom[x]
LEMMA SlimKeeps ==
  ASSUME NEW s, NEW i, WellFormed(i, site.names[s] \cup site.ambiguous[s])
  PROVE  KeptAs(Slim(s, i, TRUE), i, site.names[s], site.ambiguous[s])
<1> DEFINE e == Slim(s, i, TRUE)
<1>1. {"fields", "body", "comments", "files", "custom"} = DOMAIN i
  BY DEF WellFormed
<1>2. e.body = i.body /\ e.files = i.files
  BY <1>1 DEF Slim
<1>3. e.fields = i.fields
  <2>1. e.fields = [i.fields EXCEPT !.parent = i.fields["parent"]]
    BY <1>1 DEF Slim
  <2>2. i.fields = [f \in DOMAIN NewIssue.fields |-> i.fields[f]]
    BY DEF WellFormed
  <2>3. QED
    BY <2>1, <2>2
<1>4. /\ e.comments.total = Len(i.comments)
      /\ e.comments.items = SubSeq(i.comments, 1, Min({InlineCap, Len(i.comments)}))
  BY <1>1 DEF Slim
<1>5. Complete(e.comments) => e.comments.items = i.comments
  <2> DEFINE c == i.comments
             m == Min({InlineCap, Len(c)})
  <2>1. c \in Seq(ToSet(c)) /\ Len(c) \in Nat /\ InlineCap \in Nat
    BY BoundsAssumption, LenProperties DEF WellFormed
  <2>2. m \in {InlineCap, Len(c)} /\ m <= Len(c)
    <3>1. \E x \in {InlineCap, Len(c)} : \A y \in {InlineCap, Len(c)} : x <= y
      BY <2>1
    <3>2. QED
      BY <2>1, <3>1 DEF Min
  <2>3. m \in Nat
    BY <2>1, <2>2
  <2> HIDE DEF m
  <2>4. \A j \in 1..m : c[j] \in ToSet(c)
    BY <2>1, <2>2, <2>3, ElementOfSeq
  <2>5. Len(SubSeq(c, 1, m)) = m
    BY <2>3, <2>4, SubSeqProperties
  <2>6. ASSUME Complete(e.comments) PROVE m = Len(c)
    BY <1>4, <2>5, <2>6 DEF Complete, m
  <2>7. SubSeq(c, 1, Len(c)) = c
    BY <2>1, SubSeqFull
  <2>8. QED
    BY <1>4, <2>6, <2>7 DEF m
<1>6. e.custom = Restrict(i.custom, site.names[s] \cap DOMAIN i.custom)
  BY <1>1 DEF Slim
<1>7. /\ DOMAIN e.custom = site.names[s] \cap DOMAIN i.custom
      /\ \A x \in DOMAIN e.custom : e.custom[x] = i.custom[x]
  BY <1>6 DEF Restrict
<1>8. QED
  BY <1>2, <1>3, <1>4, <1>5, <1>7 DEF KeptAs
-----------------------------------------------------------------------------
(* The invariant.  Of an issue that no user touched, all that any state knows   *)
(* is what the site was given at the start: the site still has it (LiveInv), an *)
(* extraction under way and an extract on disk have it as Slim keeps it         *)
(* (WorkInv, FileInv), and what is judged was compared from such extracts       *)
(* (StageInv).  A touched issue is one that nothing is said about.              *)

Home(s, p) == site.issues[s][p]
InSight(s, p) == DOMAIN Home(s, p) \ site.hidden[s][p]
Quiet(s, p, n) == <<s, p, n>> \notin touched

\* What was read of an untouched issue is what the site has of it.
Truthful(s, p, issues, meta) ==
  /\ DOMAIN issues \subseteq Nat \ {Project}
  /\ \A n \in DOMAIN issues : Quiet(s, p, n) =>
       n \in InSight(s, p) /\ issues[n] = Slim(s, Home(s, p)[n], meta)

\* Every untouched issue that the account sees was read, or every one up to the last one read.
Full(s, p, issues) == \A n \in InSight(s, p) : Quiet(s, p, n) => n \in DOMAIN issues
Reached(s, p, issues) ==
  \A n \in InSight(s, p) : Quiet(s, p, n) /\ n <= Max(DOMAIN issues \cup {0}) => n \in DOMAIN issues

\* An extract is complete unless it is torn and the count could not tell: it was off or unread,
\* or a page repeated an issue, or users were at work.
Sound(s, p, X) ==
  /\ X.meta \in BOOLEAN
  /\ X.meta => X.names = site.names[s] /\ X.ambiguous = site.ambiguous[s]
  /\ Truthful(s, p, X.issues, X.meta)
  /\ ~X.torn \/ (X.count = "exact" /\ ~X.again /\ ~EditsIn(s, p)) => Full(s, p, X.issues)
Ready(s, p) == Sound(s, p, files[s][p])

LiveOf(s, p) ==
  /\ p \in DOMAIN live[s]
  /\ IsFiniteSet(DOMAIN live[s][p]) /\ DOMAIN live[s][p] \subseteq Nat \ {Project}
  /\ \A n \in Nat : Quiet(s, p, n) =>
       /\ n \in DOMAIN live[s][p] <=> n \in DOMAIN Home(s, p)
       /\ n \in DOMAIN Home(s, p) => live[s][p][n] = Home(s, p)[n]
LiveInv == DOMAIN live = Sides /\ \A s \in Sides, p \in Matched : LiveOf(s, p)

FileOf(s, p) ==
  /\ p \in DOMAIN files[s]
  /\ files[s][p] # NoFile => DOMAIN files[s][p].issues \subseteq Nat \ {Project}
  /\ files[s][p] # NoFile /\ files[s][p].current => Ready(s, p)
FileInv == DOMAIN files = Sides /\ \A s \in Sides, p \in Matched : FileOf(s, p)

WorkOf(s) ==
  /\ worker[s].at \in {"meta", "pages", "count"} =>
       /\ DOMAIN worker[s] = {"at", "got", "rows", "meta", "torn", "again"}
       /\ worker[s].meta \in BOOLEAN /\ worker[s].torn \in BOOLEAN /\ worker[s].again \in BOOLEAN
       /\ IsFiniteSet(DOMAIN worker[s].got) /\ worker[s].rows \in Nat
       /\ ~worker[s].again => worker[s].rows = Cardinality(DOMAIN worker[s].got)
       /\ Truthful(s, Head(todo), worker[s].got, worker[s].meta)
  /\ worker[s].at = "meta" => worker[s].got = <<>> /\ worker[s].rows = 0
  /\ worker[s].at = "pages" /\ ~worker[s].torn => Reached(s, Head(todo), worker[s].got)
  /\ worker[s].at = "count" /\ ~worker[s].torn => Full(s, Head(todo), worker[s].got)
  /\ worker[s].at = "ok" => Ready(s, Head(todo))
WorkInv == DOMAIN worker = Sides /\ \A s \in Sides : WorkOf(s)

Judged == {"config", "finalize", "done"}
StageInv ==
  /\ todo \in Seq(Selected)
  /\ pc = "permissions" => ToSet(todo) = Selected
  /\ pc = "extract" => \A p \in Selected \ ToSet(todo) : \A s \in Sides : Ready(s, p)
  /\ pc \in Judged =>
       /\ \A p \in Selected : \A s \in Sides : Ready(s, p)
       /\ results = [p \in Selected |-> Result(files["src"][p], files["tgt"][p])]
  /\ pc = "done" => verdict = Verdict(results, blind # {}, config)

\* A blind spot is found where one is, if nobody works there and the probe was read.
BlindInv ==
  pc \in Judged \cup {"extract"} =>
    \A s \in Sides, p \in Selected :
      Cloud(s) /\ <<s, p>> \notin unprobed /\ ~EditsIn(s, p) =>
        (<<s, p>> \in blind <=> 2 * Cardinality(InSight(s, p)) < Cardinality(DOMAIN Home(s, p)))

AuditInv == TypeOK /\ LiveInv /\ FileInv /\ WorkInv /\ StageInv /\ BlindInv
-----------------------------------------------------------------------------
(* What the assumptions say of a site, and what lasts.                         *)

LEMMA SiteFacts ==
  ASSUME site \in Sites
  PROVE  /\ DOMAIN site.issues = Sides /\ DOMAIN site.files = Sides
         /\ IsFiniteSet(Selected) /\ Selected \subseteq Matched
         /\ \A s \in Sides, p \in Matched :
              /\ p \in DOMAIN site.issues[s] /\ p \in DOMAIN site.files[s]
              /\ IsFiniteSet(DOMAIN Home(s, p)) /\ DOMAIN Home(s, p) \subseteq Nat \ {Project}
              /\ \A n \in DOMAIN Home(s, p) : WellFormed(Home(s, p)[n], site.names[s] \cup site.ambiguous[s])
              /\ site.files[s][p] # NoFile =>
                   ~site.files[s][p].current /\ DOMAIN site.files[s][p].issues \subseteq Nat \ {Project}
<1>1. IsFiniteSet(site.projects["src"])
  BY SitesAssumption
<1>2. Selected \subseteq Matched /\ Matched \subseteq site.projects["src"]
  BY DEF Selected, Matched
<1>3. IsFiniteSet(Selected)
  BY <1>1, <1>2, FS_Subset
<1>4. QED
  BY <1>2, <1>3, SitesAssumption DEF Matched, Home

\* The site is given once, and a touched issue stays touched.
LEMMA Lasting ==
  ASSUME [Next]_vars
  PROVE  /\ site' = site /\ Matched' = Matched /\ Selected' = Selected
         /\ touched \subseteq touched'
<1>1. site' = site /\ touched \subseteq touched'
  BY DEF Next, vars, Start, Scope, Permissions, OpenProject, CloseProject, ReadMeta, ReadPage, Commit,
         CompareAll, Configure, Finalize, Fails, Edit, UnchangedSites, UnchangedWork
<1>2. QED
  BY <1>1 DEF Matched, Selected

\* A sound extract stays one while users touch more issues.
LEMMA KeptSound ==
  ASSUME NEW s, NEW p, site' = site, touched \subseteq touched'
  PROVE  /\ \A issues, meta : Truthful(s, p, issues, meta) => Truthful(s, p, issues, meta)'
         /\ \A issues : Full(s, p, issues) => Full(s, p, issues)'
         /\ \A issues : Reached(s, p, issues) => Reached(s, p, issues)'
         /\ \A X : Sound(s, p, X) => Sound(s, p, X)'
<1> USE DEF Truthful, Full, Reached, Quiet, InSight, Home
<1>1. \A issues, meta : Truthful(s, p, issues, meta) => Truthful(s, p, issues, meta)'
  <2>1. \A i, meta : Slim(s, i, meta)' = Slim(s, i, meta)
    BY DEF Slim, Cloud
  <2>2. QED
    BY <2>1
<1>2. \A issues : Full(s, p, issues) => Full(s, p, issues)'
  OBVIOUS
<1>3. \A issues : Reached(s, p, issues) => Reached(s, p, issues)'
  OBVIOUS
<1>4. \A X : Sound(s, p, X) => Sound(s, p, X)'
  <2>1. EditsIn(s, p) => EditsIn(s, p)'
    BY DEF EditsIn
  <2> HIDE DEF Truthful, Full, Reached, Quiet, InSight, Home
  <2>2. QED
    BY <1>1, <1>2, <2>1 DEF Sound
<1>5. QED
  BY <1>1, <1>2, <1>3, <1>4

\* The same of an extract on disk that is left alone.
LEMMA KeptReady ==
  ASSUME NEW s, NEW p, site' = site, touched \subseteq touched', files'[s][p] = files[s][p], Ready(s, p)
  PROVE  Ready(s, p)'
<1>1. PICK X : X = files[s][p]
  OBVIOUS
<1>2. Sound(s, p, X)
  BY <1>1 DEF Ready
<1>3. Sound(s, p, X)'
  BY <1>2, KeptSound
<1>4. QED
  BY <1>1, <1>3 DEF Ready, Sound
-----------------------------------------------------------------------------
(* The start of the history.                                                   *)

LEMMA InitHolds == Init => AuditInv
<1> SUFFICES ASSUME Init PROVE AuditInv
  OBVIOUS
<1>1. /\ site \in Sites /\ live = site.issues /\ files = site.files /\ touched = {} /\ pc = "new"
      /\ runs = 0 /\ blind = {} /\ unprobed = {} /\ todo = <<>> /\ faults = 0
      /\ worker = [s \in Sides |-> [at |-> "idle"]]
  BY DEF Init
<1>2. LiveInv
  <2>1. \A s \in Sides, p \in Matched : DOMAIN Home(s, p) \subseteq Nat \ {Project}
    BY <1>1, SiteFacts
  <2>2. QED
    BY <1>1, <2>1, SiteFacts DEF LiveInv, LiveOf, Home
<1>3. FileInv
  BY <1>1, SiteFacts DEF FileInv, FileOf
<1>4. WorkInv
  BY <1>1 DEF WorkInv, WorkOf
<1>5. StageInv
  BY <1>1, EmptySeq DEF StageInv, Judged
<1>6. BlindInv
  BY <1>1 DEF BlindInv, Judged
<1>7. TypeOK
  <2>1. ToSet(todo) \subseteq Selected
    BY <1>1 DEF ToSet
  <2>2. QED
    BY <1>1, <1>2, <1>3, <2>1, BoundsAssumption DEF TypeOK, LiveInv, LiveOf, FileInv, FileOf
<1>8. QED
  BY <1>2, <1>3, <1>4, <1>5, <1>6, <1>7 DEF AuditInv
-----------------------------------------------------------------------------
(* The sites.                                                                  *)

\* An edit touches one issue, and changes no other one.
LEMMA EditEffect ==
  ASSUME LiveInv, NEW s0 \in Sides, NEW p0 \in Matched, Edit(s0, p0)
  PROVE  \E n0 \in Nat :
           /\ touched' = touched \cup {<<s0, p0, n0>>} /\ DOMAIN live' = Sides
           /\ \A s \in Sides, p \in Matched :
                /\ p \in DOMAIN live'[s]
                /\ IsFiniteSet(DOMAIN live'[s][p]) /\ DOMAIN live'[s][p] \subseteq Nat \ {Project}
                /\ \A n \in Nat : <<s, p, n>> # <<s0, p0, n0>> =>
                     /\ n \in DOMAIN live'[s][p] <=> n \in DOMAIN live[s][p]
                     /\ n \in DOMAIN live[s][p] => live'[s][p][n] = live[s][p][n]
<1> DEFINE here == live[s0][p0]
           new == Max(DOMAIN here \cup {0}) + 1
           Other(g, n0) == /\ IsFiniteSet(DOMAIN g) /\ DOMAIN g \subseteq Nat \ {Project}
                           /\ \A n \in Nat : n # n0 =>
                                /\ n \in DOMAIN g <=> n \in DOMAIN here
                                /\ n \in DOMAIN here => g[n] = here[n]
<1>1. /\ DOMAIN live = Sides /\ \A s \in Sides, p \in Matched : LiveOf(s, p)
      /\ IsFiniteSet(DOMAIN here) /\ DOMAIN here \subseteq Nat \ {Project} /\ p0 \in DOMAIN live[s0]
  BY DEF LiveInv, LiveOf
<1>2. new \in Nat \ {Project}
  <2>1. IsFiniteSet(DOMAIN here \cup {0})
    BY <1>1, FS_AddElement
  <2>2. DOMAIN here \cup {0} \subseteq Int /\ DOMAIN here \cup {0} # {}
    BY <1>1
  <2>3. Max(DOMAIN here \cup {0}) \in DOMAIN here \cup {0}
    BY <2>1, <2>2, MaxOfFinite
  <2>4. Max(DOMAIN here \cup {0}) \in Nat
    BY <1>1, <2>3
  <2> HIDE DEF here
  <2>5. QED
    BY <2>4 DEF Project
<1> HIDE DEF new
<1>3. \E n0 \in Nat : \E g :
        /\ touched' = touched \cup {<<s0, p0, n0>>}
        /\ live' = [live EXCEPT ![s0][p0] = g] /\ Other(g, n0)
  <2>1. CASE \E n \in DOMAIN here :
               /\ \/ live' = [live EXCEPT ![s0][p0] = Restrict(@, DOMAIN here \ {n})]
                  \/ live' = [live EXCEPT ![s0][p0][n].body = OtherBody]
               /\ touched' = touched \cup {<<s0, p0, n>>}
    <3>1. PICK n \in DOMAIN here :
               /\ \/ live' = [live EXCEPT ![s0][p0] = Restrict(@, DOMAIN here \ {n})]
                  \/ live' = [live EXCEPT ![s0][p0][n].body = OtherBody]
               /\ touched' = touched \cup {<<s0, p0, n>>}
      BY <2>1
    <3>2. CASE live' = [live EXCEPT ![s0][p0] = Restrict(@, DOMAIN here \ {n})]
      <4> DEFINE g == [x \in DOMAIN here \ {n} |-> here[x]]
      <4>1. live' = [live EXCEPT ![s0][p0] = g]
        BY <1>1, <3>2 DEF Restrict
      <4>2. Other(g, n)
        BY <1>1, FS_RemoveElement
      <4>3. QED
        BY <1>1, <3>1, <4>1, <4>2
    <3>3. CASE live' = [live EXCEPT ![s0][p0][n].body = OtherBody]
      <4> DEFINE g == [here EXCEPT ![n].body = OtherBody]
      <4>1. live' = [live EXCEPT ![s0][p0] = g]
        BY <1>1, <3>3
      <4>2. Other(g, n)
        BY <1>1
      <4>3. QED
        BY <1>1, <3>1, <4>1, <4>2
    <3>4. QED
      BY <3>1, <3>2, <3>3
  <2>2. CASE /\ live' = [live EXCEPT ![s0][p0] =
                           [n \in DOMAIN here \cup {new} |-> IF n = new THEN NewIssue ELSE here[n]]]
             /\ touched' = touched \cup {<<s0, p0, new>>}
    <3> DEFINE g == [n \in DOMAIN here \cup {new} |-> IF n = new THEN NewIssue ELSE here[n]]
    <3>1. Other(g, new)
      <4>1. IsFiniteSet(DOMAIN here \cup {new})
        BY <1>1, FS_AddElement
      <4>2. QED
        BY <1>1, <1>2, <4>1
    <3>2. QED
      BY <1>2, <2>2, <3>1
  <2>3. QED
    BY <2>1, <2>2 DEF Edit, new
<1>3a. PICK n0 \in Nat : \E g :
         /\ touched' = touched \cup {<<s0, p0, n0>>}
         /\ live' = [live EXCEPT ![s0][p0] = g] /\ Other(g, n0)
  BY <1>3
<1>4. PICK g : /\ touched' = touched \cup {<<s0, p0, n0>>}
               /\ live' = [live EXCEPT ![s0][p0] = g] /\ Other(g, n0)
  BY <1>3a
<1>5. DOMAIN live' = Sides /\ live'[s0][p0] = g
  BY <1>1, <1>4
<1>6. ASSUME NEW s \in Sides, NEW p \in Matched
      PROVE  /\ p \in DOMAIN live'[s]
             /\ IsFiniteSet(DOMAIN live'[s][p]) /\ DOMAIN live'[s][p] \subseteq Nat \ {Project}
             /\ \A n \in Nat : <<s, p, n>> # <<s0, p0, n0>> =>
                  /\ n \in DOMAIN live'[s][p] <=> n \in DOMAIN live[s][p]
                  /\ n \in DOMAIN live[s][p] => live'[s][p][n] = live[s][p][n]
  <2>1. p \in DOMAIN live'[s]
    BY <1>1, <1>4 DEF LiveOf
  <2>2. CASE s = s0 /\ p = p0
    BY <1>4, <1>5, <2>1, <2>2
  <2>3. CASE ~(s = s0 /\ p = p0)
    <3>1. live'[s][p] = live[s][p]
      BY <1>1, <1>4, <2>3 DEF LiveOf
    <3>2. QED
      BY <1>1, <2>1, <3>1 DEF LiveOf
  <2>4. QED
    BY <2>2, <2>3
<1>7. QED
  BY <1>4, <1>5, <1>6

LEMMA LiveNext == LiveInv /\ [Next]_vars => LiveInv'
<1> SUFFICES ASSUME LiveInv, [Next]_vars PROVE LiveInv'
  OBVIOUS
<1>1. site' = site /\ Matched' = Matched /\ touched \subseteq touched'
  BY Lasting
<1>2. CASE UNCHANGED <<live, touched>>
  BY <1>1, <1>2 DEF LiveInv, LiveOf, Quiet, Home
<1>3. ASSUME NEW s0 \in Sides, NEW p0 \in Matched, Edit(s0, p0) PROVE LiveInv'
  <2>1. PICK n0 \in Nat :
           /\ touched' = touched \cup {<<s0, p0, n0>>} /\ DOMAIN live' = Sides
           /\ \A s \in Sides, p \in Matched :
                /\ p \in DOMAIN live'[s]
                /\ IsFiniteSet(DOMAIN live'[s][p]) /\ DOMAIN live'[s][p] \subseteq Nat \ {Project}
                /\ \A n \in Nat : <<s, p, n>> # <<s0, p0, n0>> =>
                     /\ n \in DOMAIN live'[s][p] <=> n \in DOMAIN live[s][p]
                     /\ n \in DOMAIN live[s][p] => live'[s][p][n] = live[s][p][n]
    BY <1>3, EditEffect
  <2>2. ASSUME NEW s \in Sides, NEW p \in Matched PROVE LiveOf(s, p)'
    <3>1. ASSUME NEW n \in Nat, Quiet(s, p, n)'
          PROVE  /\ n \in DOMAIN live'[s][p] <=> n \in DOMAIN Home(s, p)
                 /\ n \in DOMAIN Home(s, p) => live'[s][p][n] = Home(s, p)[n]
      <4>1. Quiet(s, p, n) /\ <<s, p, n>> # <<s0, p0, n0>>
        BY <2>1, <3>1 DEF Quiet
      <4>2. /\ n \in DOMAIN live[s][p] <=> n \in DOMAIN Home(s, p)
            /\ n \in DOMAIN Home(s, p) => live[s][p][n] = Home(s, p)[n]
        BY <4>1 DEF LiveInv, LiveOf
      <4>3. QED
        BY <2>1, <4>1, <4>2
    <3>2. Home(s, p)' = Home(s, p)
      BY <1>1 DEF Home
    <3>3. QED
      BY <2>1, <3>1, <3>2 DEF LiveOf
  <2>3. QED
    BY <1>1, <2>1, <2>2 DEF LiveInv
<1>4. QED
  BY <1>2, <1>3 DEF Next, vars, Start, Scope, Permissions, OpenProject, CloseProject, ReadMeta, ReadPage,
     Commit, CompareAll, Configure, Finalize, Fails, UnchangedSites, UnchangedWork
-----------------------------------------------------------------------------
(* The extraction.                                                             *)

LEMMA VisibleFacts ==
  ASSUME site \in Sites, LiveInv, NEW s \in Sides, NEW p \in Matched
  PROVE  /\ IsFiniteSet(Visible(s, p)) /\ Visible(s, p) \subseteq DOMAIN live[s][p]
         /\ DOMAIN live[s][p] \subseteq Nat \ {Project} /\ InSight(s, p) \subseteq Nat \ {Project}
         /\ \A n \in Nat : Quiet(s, p, n) =>
              /\ n \in Visible(s, p) <=> n \in InSight(s, p)
              /\ n \in DOMAIN live[s][p] <=> n \in DOMAIN Home(s, p)
              /\ n \in DOMAIN Home(s, p) => live[s][p][n] = Home(s, p)[n]
         /\ ~EditsIn(s, p) => /\ Visible(s, p) = InSight(s, p) /\ DOMAIN live[s][p] = DOMAIN Home(s, p)
                              /\ \A n : Quiet(s, p, n)
<1>1. LiveOf(s, p)
  BY DEF LiveInv
<1>2. DOMAIN Home(s, p) \subseteq Nat \ {Project}
  BY SiteFacts
<1>3. IsFiniteSet(Visible(s, p)) /\ Visible(s, p) \subseteq DOMAIN live[s][p]
  <2>1. Visible(s, p) \subseteq DOMAIN live[s][p]
    BY DEF Visible
  <2>2. QED
    BY <1>1, <2>1, FS_Subset DEF LiveOf
<1>4. ~EditsIn(s, p) => \A n : Quiet(s, p, n)
  BY DEF EditsIn, Quiet
<1>5. \A n \in Nat : Quiet(s, p, n) => (n \in Visible(s, p) <=> n \in InSight(s, p))
  BY <1>1 DEF LiveOf, Visible, InSight
<1>6. InSight(s, p) \subseteq Nat \ {Project} /\ DOMAIN live[s][p] \subseteq Nat \ {Project}
  BY <1>1, <1>2 DEF LiveOf, InSight
<1>7. ASSUME ~EditsIn(s, p)
      PROVE  Visible(s, p) = InSight(s, p) /\ DOMAIN live[s][p] = DOMAIN Home(s, p)
  <2>1. \A n : Quiet(s, p, n)
    BY <1>4, <1>7
  <2>2. QED
    BY <1>1, <1>2, <1>3, <1>5, <1>6, <2>1 DEF LiveOf
<1>8. QED
  BY <1>1, <1>3, <1>4, <1>5, <1>6, <1>7 DEF LiveOf

\* The next page, and what is left of the list when it is not full.
LEMMA PageFacts ==
  ASSUME site \in Sites, LiveInv, NEW s \in Sides, NEW p \in Matched,
         IsFiniteSet(DOMAIN worker[s].got), DOMAIN worker[s].got \subseteq Nat
  PROVE  LET after == Max(DOMAIN worker[s].got \cup {0})
             page  == NextPage(s, p)
         IN  /\ after \in Nat /\ \A n \in DOMAIN worker[s].got : n <= after
             /\ IsFiniteSet(page) /\ page \subseteq Visible(s, p)
             /\ \A k \in page : after < k
             /\ \A n \in Visible(s, p), k \in page : after < n /\ n <= k => n \in page
             /\ Cardinality(page) < PageSize => \A n \in Visible(s, p) : after < n => n \in page
<1> DEFINE got   == worker[s].got
           after == Max(DOMAIN got \cup {0})
           rest  == {n \in Visible(s, p) : n > after}
           page  == {n \in rest : Cardinality({m \in rest : m <= n}) <= PageSize}
<1>1. NextPage(s, p) = page
  BY DEF NextPage
<1>2. after \in Nat /\ \A n \in DOMAIN got : n <= after
  <2>1. IsFiniteSet(DOMAIN got \cup {0})
    BY FS_AddElement
  <2>2. DOMAIN got \cup {0} \subseteq Int /\ DOMAIN got \cup {0} # {}
    OBVIOUS
  <2>3. after \in DOMAIN got \cup {0} /\ \A y \in DOMAIN got \cup {0} : y <= after
    BY <2>1, <2>2, MaxOfFinite
  <2> HIDE DEF after
  <2>4. QED
    BY <2>3
<1> HIDE DEF after
<1>3. IsFiniteSet(Visible(s, p)) /\ Visible(s, p) \subseteq Nat
  BY VisibleFacts
<1>4. rest \subseteq Visible(s, p) /\ IsFiniteSet(rest) /\ rest \subseteq Nat
  <2>1. rest \subseteq Visible(s, p)
    OBVIOUS
  <2>2. QED
    BY <1>3, <2>1, FS_Subset
<1>5. page \subseteq rest /\ IsFiniteSet(page)
  <2>1. page \subseteq rest
    OBVIOUS
  <2>2. QED
    BY <1>4, <2>1, FS_Subset
<1>6. /\ \A n \in rest, k \in page : n <= k => n \in page
      /\ Cardinality(page) < PageSize => page = rest
  <2>1. PageSize \in Nat
    BY BoundsAssumption
  <2> DEFINE R == rest
             P == page
  <2>2. P = FirstOf(R, PageSize)
    BY DEF FirstOf
  <2> HIDE DEF R, P
  <2>3. IsFiniteSet(R) /\ R \subseteq Nat
    BY <1>4 DEF R
  <2>4. /\ \A n \in R, k \in P : n <= k => n \in P
        /\ Cardinality(P) < PageSize => P = R
    BY <2>1, <2>2, <2>3, FirstPage
  <2>5. QED
    BY <2>4 DEF R, P
<1>7. (\A n \in Visible(s, p) : after < n => n \in rest) /\ \A k \in rest : after < k
  BY <1>2, <1>3
<1> HIDE DEF rest, page
<1>8. /\ \A k \in page : after < k
      /\ \A n \in Visible(s, p), k \in page : after < n /\ n <= k => n \in page
      /\ Cardinality(page) < PageSize => \A n \in Visible(s, p) : after < n => n \in page
  BY <1>5, <1>6, <1>7
<1>9. QED
  BY <1>1, <1>2, <1>4, <1>5, <1>8 DEF after

\* What a page changes of an extraction.
Taken(s, p, ns, again, torn, end) ==
  /\ DOMAIN worker' = Sides /\ \A t \in Sides \ {s} : worker'[t] = worker[t]
  /\ DOMAIN worker'[s] = DOMAIN worker[s] /\ worker'[s].meta = worker[s].meta
  /\ worker'[s].at = IF end THEN "count" ELSE "pages"
  /\ worker'[s].got =
       [n \in ns \cup again \cup DOMAIN worker[s].got |->
          IF n \in ns \cup again THEN Slim(s, live[s][p][n], worker[s].meta) ELSE worker[s].got[n]]
  /\ worker'[s].rows = worker[s].rows + Cardinality(ns \cup again)
  /\ worker'[s].torn = (worker[s].torn \/ torn)
  /\ worker'[s].again = (worker[s].again \/ again # {})
LEMMA TakeEffect ==
  ASSUME NEW s \in Sides, DOMAIN worker = Sides,
         DOMAIN worker[s] = {"at", "got", "rows", "meta", "torn", "again"},
         NEW p, NEW ns, NEW again, NEW torn, NEW end, Take(s, p, ns, again, torn, end)
  PROVE  Taken(s, p, ns, again, torn, end)
<1> DEFINE all == ns \cup again
           got == [n \in all \cup DOMAIN worker[s].got |->
                     IF n \in all THEN Slim(s, live[s][p][n], worker[s].meta) ELSE worker[s].got[n]]
           at   == IF end THEN "count" ELSE "pages"
           rows == worker[s].rows + Cardinality(all)
           lost == worker[s].torn \/ torn
           seen == worker[s].again \/ again # {}
           w == [worker[s] EXCEPT !.got = got, !.rows = rows, !.torn = lost, !.again = seen, !.at = at]
<1>1. worker' = [worker EXCEPT ![s] = w]
  BY DEF Take
<1> HIDE DEF got, at, rows, lost, seen
<1>2. /\ DOMAIN w = DOMAIN worker[s] /\ w.meta = worker[s].meta /\ w.at = at
      /\ w.got = got /\ w.rows = rows
  OBVIOUS
<1>3. w.torn = lost
  OBVIOUS
<1>4. w.again = seen
  OBVIOUS
<1> HIDE DEF w
<1>5. DOMAIN worker' = Sides /\ worker'[s] = w /\ \A t \in Sides \ {s} : worker'[t] = worker[t]
  BY <1>1
<1>6. QED
  BY <1>2, <1>3, <1>4, <1>5 DEF Taken, got, at, rows, lost, seen

\* A page is taken in whole, or torn, and may bring again what the extraction has; or the read
\* fails.
ReadPageTakes(s, p) ==
  \E ns \in SUBSET NextPage(s, p), again \in SUBSET (DOMAIN worker[s].got \cap Visible(s, p)) :
    \E torn \in BOOLEAN, end \in BOOLEAN :
      /\ Take(s, p, ns, again, torn, end)
      /\ ~torn => ns = NextPage(s, p) /\ (end <=> Cardinality(NextPage(s, p)) < PageSize)
LEMMA ReadPageCases ==
  ASSUME NEW s, ReadPage(s)
  PROVE  worker' = [worker EXCEPT ![s] = [at |-> "raised"]] \/ ReadPageTakes(s, Head(todo))
<1> DEFINE p    == Head(todo)
           page == NextPage(s, p)
           last == Cardinality(page) < PageSize
           lack == {{}} \cup {{n} : n \in {n \in page : \E m \in page : m > n}}
           mine == DOMAIN worker[s].got \cap Visible(s, p)
           took(ns, again, torn, end) == Take(s, p, ns, again, torn, end)
<1>1. \/ took(page, {}, FALSE, last)
      \/ \E without \in lack, again \in Repeated(s, p) : took(page \ without, again, without # {}, last)
      \/ \E again \in Repeated(s, p) : took(page, again, TRUE, TRUE)
      \/ worker' = [worker EXCEPT ![s] = [at |-> "raised"]]
  BY DEF ReadPage
<1>2. Repeated(s, p) \subseteq SUBSET mine
  BY DEF Repeated
<1>3. ReadPageTakes(s, p) <=>
        \E ns \in SUBSET page, again \in SUBSET mine : \E torn \in BOOLEAN, end \in BOOLEAN :
          took(ns, again, torn, end) /\ (~torn => ns = page /\ (end <=> last))
  BY DEF ReadPageTakes
<1>4. last \in BOOLEAN
  OBVIOUS
<1> HIDE DEF took, page, last, mine
<1>5. ASSUME NEW ns \in SUBSET page, NEW again \in SUBSET mine, NEW torn \in BOOLEAN, NEW end \in BOOLEAN,
             took(ns, again, torn, end), ~torn => ns = page /\ (end <=> last)
      PROVE  ReadPageTakes(s, p)
  BY <1>3, <1>5
<1>6. CASE took(page, {}, FALSE, last)
  BY <1>4, <1>5, <1>6
<1>7. ASSUME NEW without \in lack, NEW again \in Repeated(s, p), took(page \ without, again, without # {}, last)
      PROVE  ReadPageTakes(s, p)
  <2>1. page \ without \in SUBSET page /\ again \in SUBSET mine /\ (without # {}) \in BOOLEAN
    BY <1>2
  <2>2. ~(without # {}) => page \ without = page /\ (last <=> last)
    OBVIOUS
  <2>3. QED
    BY <1>4, <1>5, <1>7, <2>1, <2>2
<1>8. ASSUME NEW again \in Repeated(s, p), took(page, again, TRUE, TRUE) PROVE ReadPageTakes(s, p)
  BY <1>2, <1>5, <1>8
<1>9. QED
  BY <1>1, <1>6, <1>7, <1>8

\* A page changes the extraction of its side alone.
LEMMA ReadPageSteps ==
  ASSUME NEW s \in Sides, DOMAIN worker = Sides, WorkOf(s), ReadPage(s)
  PROVE  /\ DOMAIN worker' = Sides /\ \A t \in Sides \ {s} : worker'[t] = worker[t]
         /\ worker'[s].at \in {"raised", "count", "pages"}
<1>1. DOMAIN worker[s] = {"at", "got", "rows", "meta", "torn", "again"}
  BY DEF ReadPage, Works, WorkOf
<1>2. CASE worker' = [worker EXCEPT ![s] = [at |-> "raised"]]
  BY <1>2
<1>3. CASE ReadPageTakes(s, Head(todo))
  <2>1. PICK ns, again, torn, end : Take(s, Head(todo), ns, again, torn, end)
    BY <1>3 DEF ReadPageTakes
  <2>2. Taken(s, Head(todo), ns, again, torn, end)
    BY <1>1, <2>1, TakeEffect
  <2>3. QED
    BY <2>2 DEF Taken
<1>4. QED
  BY <1>2, <1>3, ReadPageCases

\* A page adds what the site has, and moves on without a gap unless it is torn.
LEMMA TakeWork ==
  ASSUME site \in Sites, LiveInv, NEW s \in Sides, DOMAIN worker = Sides, WorkOf(s),
         NEW p \in Matched, p = Head(todo), worker[s].at = "pages",
         UNCHANGED <<site, live, touched, files, todo, pc>>,
         NEW ns \in SUBSET NextPage(s, p), NEW again \in SUBSET (DOMAIN worker[s].got \cap Visible(s, p)),
         NEW torn \in BOOLEAN, NEW end \in BOOLEAN, Take(s, p, ns, again, torn, end),
         ~torn => ns = NextPage(s, p) /\ (end <=> Cardinality(NextPage(s, p)) < PageSize)
  PROVE  WorkOf(s)'
<1> DEFINE got  == worker[s].got
           page == NextPage(s, p)
           last == Cardinality(page) < PageSize
           after == Max(DOMAIN got \cup {0})
           all  == ns \cup again
           with == [n \in all \cup DOMAIN got |->
                      IF n \in all THEN Slim(s, live[s][p][n], worker[s].meta) ELSE got[n]]
<1>1. /\ DOMAIN worker[s] = {"at", "got", "rows", "meta", "torn", "again"}
      /\ worker[s].meta \in BOOLEAN /\ worker[s].torn \in BOOLEAN /\ worker[s].again \in BOOLEAN
      /\ worker[s].rows \in Nat /\ (~worker[s].again => worker[s].rows = Cardinality(DOMAIN got))
      /\ IsFiniteSet(DOMAIN got) /\ Truthful(s, p, got, worker[s].meta)
      /\ ~worker[s].torn => Reached(s, p, got)
  BY DEF WorkOf
<1>3. DOMAIN got \subseteq Nat \ {Project}
  BY <1>1 DEF Truthful
<1>4. /\ after \in Nat /\ \A n \in DOMAIN got : n <= after
      /\ IsFiniteSet(page) /\ page \subseteq Visible(s, p) /\ \A k \in page : after < k
      /\ \A n \in Visible(s, p), k \in page : after < n /\ n <= k => n \in page
      /\ last => \A n \in Visible(s, p) : after < n => n \in page
  <2>1. DOMAIN got \subseteq Nat
    BY <1>3
  <2>2. QED
    BY <1>1, <1>3, <2>1, PageFacts
<1>5. /\ Visible(s, p) \subseteq Nat \ {Project} /\ InSight(s, p) \subseteq Nat \ {Project}
      /\ \A n \in Nat : Quiet(s, p, n) =>
           /\ n \in Visible(s, p) <=> n \in InSight(s, p)
           /\ n \in InSight(s, p) => live[s][p][n] = Home(s, p)[n]
  BY <1>3, VisibleFacts DEF InSight
<1>6. Taken(s, p, ns, again, torn, end)
  BY <1>1, TakeEffect
<1>6a. /\ DOMAIN worker'[s] = {"at", "got", "rows", "meta", "torn", "again"}
       /\ worker'[s].meta = worker[s].meta /\ worker'[s].at = IF end THEN "count" ELSE "pages"
  BY <1>1, <1>6 DEF Taken
<1>6b. worker'[s].got = with
  BY <1>6 DEF Taken
<1>6c. worker'[s].rows = worker[s].rows + Cardinality(all)
  BY <1>6 DEF Taken
<1>7. worker'[s].torn = (worker[s].torn \/ torn) /\ worker'[s].again = (worker[s].again \/ again # {})
  BY <1>6 DEF Taken
<1> HIDE DEF page, last, after
<1>8. ns \subseteq page /\ again \subseteq DOMAIN got /\ all \subseteq Visible(s, p)
  BY <1>4 DEF page
<1>9. IsFiniteSet(ns) /\ IsFiniteSet(all) /\ DOMAIN with = ns \cup DOMAIN got /\ IsFiniteSet(DOMAIN with)
  <2>1. IsFiniteSet(ns) /\ IsFiniteSet(again)
    BY <1>1, <1>4, <1>8, FS_Subset
  <2>2. IsFiniteSet(ns \cup DOMAIN got) /\ IsFiniteSet(all)
    BY <1>1, <2>1, FS_Union
  <2>3. DOMAIN with = ns \cup DOMAIN got
    BY <1>8
  <2>4. QED
    BY <2>1, <2>2, <2>3
<1>10. worker'[s].rows \in Nat /\ (~worker'[s].again => worker'[s].rows = Cardinality(DOMAIN with))
  <2>1. Cardinality(all) \in Nat
    BY <1>9, FS_CardinalityType
  <2>2. ASSUME again = {}, ~worker[s].again PROVE worker'[s].rows = Cardinality(DOMAIN with)
    <3>1. all = ns /\ worker[s].rows = Cardinality(DOMAIN got)
      BY <1>1, <2>2
    <3>2. ns \cap DOMAIN got = {}
      <4>1. \A k \in ns : k \in Nat /\ after < k
        BY <1>4, <1>5, <1>8
      <4>2. \A n \in DOMAIN got : n \in Nat /\ ~(after < n)
        BY <1>3, <1>4
      <4> HIDE DEF got
      <4>3. QED
        BY <4>1, <4>2
    <3>3. /\ Cardinality(ns \cup DOMAIN got) =
               Cardinality(ns) + Cardinality(DOMAIN got) - Cardinality(ns \cap DOMAIN got)
          /\ Cardinality(ns \cap DOMAIN got) = 0
          /\ Cardinality(ns) \in Nat /\ Cardinality(DOMAIN got) \in Nat
      BY <1>1, <1>9, <3>2, FS_Union, FS_EmptySet, FS_CardinalityType
    <3>4. worker'[s].rows = Cardinality(DOMAIN got) + Cardinality(ns)
      BY <1>6c, <3>1, <3>3
    <3> HIDE DEF with, got
    <3>5. QED
      BY <1>9, <3>3, <3>4
  <2> HIDE DEF with, all
  <2>3. worker'[s].rows \in Nat
    BY <1>1, <1>6c, <2>1
  <2>4. QED
    BY <1>1, <1>7, <2>2, <2>3
<1>11. Truthful(s, p, with, worker[s].meta)
  <2>1. DOMAIN with \subseteq Nat \ {Project}
    BY <1>3, <1>4, <1>5, <1>8, <1>9
  <2>2. ASSUME NEW n \in DOMAIN with, Quiet(s, p, n)
        PROVE  n \in InSight(s, p) /\ with[n] = Slim(s, Home(s, p)[n], worker[s].meta)
    <3>1. CASE n \in all
      <4>1. n \in Nat /\ n \in Visible(s, p)
        BY <1>5, <1>8, <3>1
      <4>2. n \in InSight(s, p) /\ live[s][p][n] = Home(s, p)[n]
        BY <1>5, <2>2, <4>1
      <4>3. QED
        BY <3>1, <4>2
    <3>2. CASE n \notin all
      <4>1. n \in DOMAIN got /\ with[n] = got[n]
        BY <3>2
      <4>2. QED
        BY <1>1, <2>2, <4>1 DEF Truthful
    <3>3. QED
      BY <3>1, <3>2
  <2> HIDE DEF with
  <2>3. QED
    BY <2>1, <2>2 DEF Truthful
<1> HIDE DEF all, with
<1>12. ASSUME ~worker'[s].torn PROVE IF end THEN Full(s, p, with) ELSE Reached(s, p, with)
  <2>1. ~worker[s].torn /\ ~torn
    BY <1>7, <1>12
  <2>2. Reached(s, p, got) /\ ns = page /\ (end <=> last)
    BY <1>1, <2>1 DEF page, last
  <2>3. ASSUME NEW n \in InSight(s, p), Quiet(s, p, n), n <= after PROVE n \in DOMAIN got
    BY <2>2, <2>3 DEF Reached, after
  <2>4. \A n \in InSight(s, p) : Quiet(s, p, n) => n \in Nat /\ n \in Visible(s, p)
    BY <1>5
  <2>5. CASE end
    <3>1. ASSUME NEW n \in InSight(s, p), Quiet(s, p, n) PROVE n \in page \cup DOMAIN got
      <4>1. n \in Nat /\ n \in Visible(s, p)
        BY <2>4, <3>1
      <4>2. CASE n <= after
        BY <2>3, <3>1, <4>2
      <4>3. CASE after < n
        BY <1>4, <2>2, <2>5, <4>1, <4>3
      <4>4. QED
        BY <1>4, <4>1, <4>2, <4>3
    <3>2. QED
      BY <1>9, <2>2, <2>5, <3>1 DEF Full
  <2>6. CASE ~end
    <3> DEFINE top == Max(DOMAIN with \cup {0})
    <3>1. top \in DOMAIN with \cup {0}
      <4>1. IsFiniteSet(DOMAIN with \cup {0})
        BY <1>9, FS_AddElement
      <4>2. DOMAIN with \cup {0} \subseteq Int /\ DOMAIN with \cup {0} # {}
        BY <1>3, <1>4, <1>5, <1>8, <1>9
      <4>3. QED
        BY <4>1, <4>2, MaxOfFinite
    <3> HIDE DEF top
    <3>2. ASSUME NEW n \in InSight(s, p), Quiet(s, p, n), n <= top PROVE n \in page \cup DOMAIN got
      <4>1. n \in Nat /\ n \in Visible(s, p)
        BY <2>4, <3>2
      <4>2. CASE n <= after
        BY <2>3, <3>2, <4>2
      <4>3. CASE after < n
        <5>1. top \in page \cup DOMAIN got \cup {0}
          BY <1>9, <2>2, <3>1
        <5>2. top \in page
          <6>1. \A m \in DOMAIN got \cup {0} : m \in Nat /\ m <= after
            BY <1>3, <1>4
          <6>2. ASSUME top \in DOMAIN got \cup {0} PROVE FALSE
            BY <1>4, <3>2, <4>1, <4>3, <6>1, <6>2
          <6>3. QED
            BY <5>1, <6>2
        <5>3. QED
          BY <1>4, <3>2, <4>1, <4>3, <5>2
      <4>4. QED
        BY <1>4, <4>1, <4>2, <4>3
    <3>3. QED
      BY <1>9, <2>2, <2>6, <3>2 DEF Reached, top
  <2>7. QED
    BY <2>5, <2>6
<1>13. PICK X : X = with
  OBVIOUS
<1>14. PICK m : m = worker[s].meta
  OBVIOUS
<1> HIDE DEF got
<1>15. Head(todo)' = p
  OBVIOUS
<1>16. Truthful(s, p, X, m)' /\ (~worker'[s].torn => IF end THEN Full(s, p, X)' ELSE Reached(s, p, X)')
  <2>1. Truthful(s, p, X, m) /\ (~worker'[s].torn => IF end THEN Full(s, p, X) ELSE Reached(s, p, X))
    BY <1>11, <1>12, <1>13, <1>14
  <2>2. site' = site /\ touched \subseteq touched'
    OBVIOUS
  <2>3. QED
    BY <2>1, <2>2, KeptSound
<1>17. worker'[s].torn \in BOOLEAN /\ worker'[s].again \in BOOLEAN
  BY <1>1, <1>7
<1>18. QED
  BY <1>1, <1>6a, <1>6b, <1>9, <1>10, <1>13, <1>14, <1>15, <1>16, <1>17 DEF WorkOf, Truthful, Full, Reached

LEMMA ReadPageWork ==
  ASSUME site \in Sites, LiveInv, NEW s \in Sides, DOMAIN worker = Sides, WorkOf(s),
         Head(todo) \in Matched, ReadPage(s)
  PROVE  WorkOf(s)'
<1>1. worker[s].at = "pages" /\ UNCHANGED <<site, live, touched, files, todo, pc>>
  BY DEF ReadPage, Works, UnchangedWork, UnchangedSites
<1>2. PICK p \in Matched : p = Head(todo)
  OBVIOUS
<1>3. CASE worker' = [worker EXCEPT ![s] = [at |-> "raised"]]
  <2>1. worker'[s].at = "raised"
    BY <1>3
  <2>2. QED
    BY <2>1 DEF WorkOf
<1>4. CASE ReadPageTakes(s, p)
  <2>1. PICK ns \in SUBSET NextPage(s, p), again \in SUBSET (DOMAIN worker[s].got \cap Visible(s, p)),
             torn \in BOOLEAN, end \in BOOLEAN :
          /\ Take(s, p, ns, again, torn, end)
          /\ ~torn => ns = NextPage(s, p) /\ (end <=> Cardinality(NextPage(s, p)) < PageSize)
    BY <1>4 DEF ReadPageTakes
  <2>2. QED
    BY <1>1, <1>2, <2>1, TakeWork
<1>5. QED
  BY <1>2, <1>3, <1>4, ReadPageCases

\* An extract that is kept is sound; otherwise the side is short.
LEMMA CommitExtract ==
  ASSUME site \in Sites, LiveInv, NEW s \in Sides, WorkOf(s), Head(todo) \in Matched, Commit(s)
  PROVE  \/ UNCHANGED files /\ worker' = [worker EXCEPT ![s] = [at |-> "short"]]
         \/ \E X : /\ files' = [files EXCEPT ![s][Head(todo)] = X] /\ Sound(s, Head(todo), X)
                   /\ worker' = [worker EXCEPT ![s] = [at |-> "ok"]]
<1> DEFINE p    == Head(todo)
           got  == worker[s].got
           n    == worker[s].rows
           seen == Cardinality(Visible(s, p))
           mark(count) == CASE count = seen -> "exact" [] count = Unknown -> "unknown" [] OTHER -> "off"
           X(count) == Extract(s, worker[s], mark(count))
<1>1. /\ worker[s].meta \in BOOLEAN /\ IsFiniteSet(DOMAIN got) /\ n \in Nat
      /\ ~worker[s].again => n = Cardinality(DOMAIN got)
      /\ Truthful(s, p, got, worker[s].meta)
      /\ ~worker[s].torn => Full(s, p, got)
  BY DEF Commit, Works, WorkOf
<1>2. n \in Nat /\ seen \in Nat
  BY <1>1, VisibleFacts, FS_CardinalityType
<1>3. PICK count : /\ files' = IF ~Keeps(n, count) THEN files ELSE [files EXCEPT ![s][p] = X(count)]
                   /\ worker' = [worker EXCEPT ![s] = [at |-> IF count \in {Unknown, n} THEN "ok" ELSE "short"]]
  <2>1. \E count \in {Unknown, seen - 1, seen, seen + 1} \ {-1} :
           /\ files' = IF ~Keeps(n, count) THEN files ELSE [files EXCEPT ![s][p] = X(count)]
           /\ worker' = [worker EXCEPT ![s] = [at |-> IF count \in {Unknown, n} THEN "ok" ELSE "short"]]
    <3> HIDE DEF X
    <3>1. QED
      BY DEF Commit, X
  <2>2. QED
    BY <2>1
<1>4. CASE count \notin {Unknown, n}
  <2>1. files' = files
    BY <1>3, <1>4 DEF Keeps
  <2>2. worker' = [worker EXCEPT ![s] = [at |-> "short"]]
    BY <1>3, <1>4
  <2>3. QED
    BY <2>1, <2>2
<1>5. CASE count \in {Unknown, n}
  <2>1. files' = [files EXCEPT ![s][p] = X(count)]
    <3> HIDE DEF X
    <3>1. QED
      BY <1>3, <1>5 DEF Keeps
  <2>2. worker' = [worker EXCEPT ![s] = [at |-> "ok"]]
    BY <1>3, <1>5
  <2>3. X(count).count = "exact" => count = seen
    BY DEF Extract
  <2>4. ASSUME X(count).count = "exact", ~worker[s].again, ~EditsIn(s, p) PROVE Full(s, p, got)
    <3>1. Cardinality(DOMAIN got) = seen
      BY <1>1, <1>2, <1>5, <2>3, <2>4 DEF Unknown
    <3>2. Visible(s, p) = InSight(s, p) /\ \A m : Quiet(s, p, m)
      BY <2>4, VisibleFacts
    <3>3. DOMAIN got \subseteq InSight(s, p)
      <4>1. Truthful(s, p, got, worker[s].meta)
        BY <1>1
      <4>2. \A m \in DOMAIN got : Quiet(s, p, m) => m \in InSight(s, p)
        BY <4>1 DEF Truthful
      <4> HIDE DEF got
      <4>3. QED
        BY <3>2, <4>2
    <3>4. IsFiniteSet(InSight(s, p))
      BY <3>2, VisibleFacts
    <3>5. DOMAIN got = InSight(s, p)
      BY <3>1, <3>2, <3>3, <3>4, FS_Subset
    <3>6. QED
      BY <3>5 DEF Full
  <2>5. Sound(s, p, X(count))
    <3>1. /\ X(count).meta = worker[s].meta /\ X(count).torn = worker[s].torn /\ X(count).issues = got
          /\ X(count).again = worker[s].again
          /\ X(count).names = IF worker[s].meta THEN site.names[s] ELSE {}
          /\ X(count).ambiguous = IF worker[s].meta THEN site.ambiguous[s] ELSE {}
      BY DEF Extract
    <3>2. /\ worker[s].meta \in BOOLEAN /\ Truthful(s, p, got, worker[s].meta)
          /\ ~worker[s].torn => Full(s, p, got)
      BY <1>1
    <3>3. X(count).count = "exact" /\ ~worker[s].again /\ ~EditsIn(s, p) => Full(s, p, got)
      BY <2>4
    <3> HIDE DEF X, got, mark
    <3>4. QED
      BY <3>1, <3>2, <3>3 DEF Sound
  <2> HIDE DEF X
  <2>6. QED
    BY <2>1, <2>2, <2>5
<1>6. QED
  BY <1>4, <1>5

\* A side is not disturbed by what the other one does, nor by users.
LEMMA OtherWork ==
  ASSUME NEW t \in Sides, WorkOf(t), site' = site, touched \subseteq touched', todo' = todo,
         worker'[t] = worker[t], files'[t][Head(todo)] = files[t][Head(todo)]
  PROVE  WorkOf(t)'
<1>1. PICK w : w = worker[t]
  OBVIOUS
<1>2. PICK p : p = Head(todo)
  OBVIOUS
<1>3. worker'[t] = w /\ Head(todo)' = p
  BY <1>1, <1>2
<1>4. w.at = "ok" => Ready(t, p)'
  <2>1. w.at = "ok" => Ready(t, p)
    BY <1>1, <1>2 DEF WorkOf
  <2>2. QED
    BY <1>2, <2>1, KeptReady
<1>5. /\ Truthful(t, p, w.got, w.meta) => Truthful(t, p, w.got, w.meta)'
      /\ Full(t, p, w.got) => Full(t, p, w.got)'
      /\ Reached(t, p, w.got) => Reached(t, p, w.got)'
  BY KeptSound
<1>6. /\ w.at \in {"meta", "pages", "count"} =>
           /\ DOMAIN w = {"at", "got", "rows", "meta", "torn", "again"}
           /\ w.meta \in BOOLEAN /\ w.torn \in BOOLEAN /\ w.again \in BOOLEAN /\ w.rows \in Nat
           /\ ~w.again => w.rows = Cardinality(DOMAIN w.got)
           /\ IsFiniteSet(DOMAIN w.got) /\ Truthful(t, p, w.got, w.meta)
      /\ w.at = "meta" => w.got = <<>> /\ w.rows = 0
      /\ w.at = "pages" /\ ~w.torn => Reached(t, p, w.got)
      /\ w.at = "count" /\ ~w.torn => Full(t, p, w.got)
  BY <1>1, <1>2 DEF WorkOf
<1>7. QED
  BY <1>3, <1>4, <1>5, <1>6 DEF WorkOf, Ready, Sound, Truthful, Full, Reached

LEMMA HeadSelected ==
  ASSUME site \in Sites, StageInv, todo # <<>>
  PROVE  /\ Head(todo) \in Selected /\ Head(todo) \in Matched
         /\ Tail(todo) \in Seq(Selected) /\ ToSet(todo) = {Head(todo)} \cup ToSet(Tail(todo))
<1>1. todo \in Seq(Selected)
  BY DEF StageInv
<1>2. /\ Head(todo) \in Selected /\ Tail(todo) \in Seq(Selected) /\ Len(Tail(todo)) = Len(todo) - 1
      /\ \A i \in 1..Len(Tail(todo)) : Tail(todo)[i] = todo[i + 1]
  BY <1>1, HeadTailProperties
<1>3. /\ Len(todo) \in Nat \ {0} /\ DOMAIN todo = 1..Len(todo) /\ Head(todo) = todo[1]
      /\ DOMAIN Tail(todo) = 1..Len(Tail(todo)) /\ Len(Tail(todo)) \in Nat
  BY <1>1, <1>2, EmptySeq, LenProperties
<1>4. ToSet(todo) = {Head(todo)} \cup ToSet(Tail(todo))
  <2>1. ASSUME NEW i \in 1..Len(todo) PROVE todo[i] \in {Head(todo)} \cup ToSet(Tail(todo))
    <3>1. CASE i = 1
      BY <1>3, <3>1
    <3>2. CASE i # 1
      <4>1. i - 1 \in 1..Len(Tail(todo)) /\ Tail(todo)[i - 1] = todo[(i - 1) + 1]
        BY <1>2, <1>3, <2>1, <3>2
      <4>2. Tail(todo)[i - 1] = todo[i]
        BY <2>1, <4>1
      <4>3. QED
        BY <1>3, <4>1, <4>2 DEF ToSet
    <3>3. QED
      BY <3>1, <3>2
  <2>2. ASSUME NEW i \in 1..Len(Tail(todo)) PROVE Tail(todo)[i] \in ToSet(todo)
    BY <1>2, <1>3, <2>2 DEF ToSet
  <2>3. Head(todo) \in ToSet(todo)
    BY <1>3 DEF ToSet
  <2>4. QED
    BY <1>3, <2>1, <2>2, <2>3 DEF ToSet
<1>5. QED
  BY <1>2, <1>4, SiteFacts
-----------------------------------------------------------------------------
(* The invariant lasts.                                                        *)

LEMMA FileNext == AuditInv /\ [Next]_vars => FileInv'
<1> SUFFICES ASSUME AuditInv, [Next]_vars PROVE FileInv'
  OBVIOUS
<1>1. site' = site /\ Matched' = Matched /\ touched \subseteq touched'
  BY Lasting
<1>2. DOMAIN files = Sides /\ \A s \in Sides, p \in Matched : FileOf(s, p)
  BY DEF AuditInv, FileInv
<1>3. ASSUME NEW s \in Sides, NEW p \in Matched, p \in DOMAIN files'[s], files'[s][p] = files[s][p]
      PROVE  FileOf(s, p)'
  <2>1. FileOf(s, p)
    BY <1>2
  <2>2. Ready(s, p) => Ready(s, p)'
    BY <1>1, <1>3, KeptReady
  <2>3. QED
    BY <1>3, <2>1, <2>2 DEF FileOf
<1>4. CASE UNCHANGED files
  <2>1. \A s \in Sides, p \in Matched : FileOf(s, p)'
    <3>1. TAKE s \in Sides, p \in Matched
    <3>2. p \in DOMAIN files'[s] /\ files'[s][p] = files[s][p]
      BY <1>2, <1>4 DEF FileOf
    <3>3. QED
      BY <1>3, <3>2
  <2>2. QED
    BY <1>1, <1>2, <1>4, <2>1 DEF FileInv
<1>5. CASE files' = [s \in Sides |-> [p \in Matched |-> NoFile]]
  BY <1>1, <1>5 DEF FileInv, FileOf
<1>6. ASSUME NEW s0 \in Sides, Commit(s0) PROVE FileInv'
  <2>1. site \in Sites /\ LiveInv /\ WorkOf(s0) /\ StageInv /\ todo # <<>>
    BY <1>6 DEF AuditInv, TypeOK, WorkInv, Commit, Works
  <2>2. Head(todo) \in Matched
    BY <2>1, HeadSelected
  <2>3. CASE UNCHANGED files
    BY <1>4, <2>3
  <2>4. CASE \E X : files' = [files EXCEPT ![s0][Head(todo)] = X] /\ Sound(s0, Head(todo), X)
    <3>1. PICK p0 : p0 = Head(todo)
      OBVIOUS
    <3>2. PICK X : files' = [files EXCEPT ![s0][p0] = X] /\ Sound(s0, p0, X)
      BY <2>4, <3>1
    <3>3. DOMAIN files' = Sides /\ files'[s0][p0] = X
      BY <1>2, <2>2, <3>1, <3>2 DEF FileOf
    <3>4. ASSUME NEW s \in Sides, NEW p \in Matched PROVE FileOf(s, p)'
      <4>1. p \in DOMAIN files'[s]
        BY <1>2, <3>2 DEF FileOf
      <4>2. CASE s = s0 /\ p = p0
        <5>1. Sound(s0, p0, X)'
          BY <1>1, <3>2, KeptSound
        <5>2. DOMAIN X.issues \subseteq Nat \ {Project}
          BY <3>2 DEF Sound, Truthful
        <5>3. QED
          BY <3>3, <4>1, <4>2, <5>1, <5>2 DEF FileOf, Ready, Sound
      <4>3. CASE ~(s = s0 /\ p = p0)
        <5>1. files'[s][p] = files[s][p]
          BY <1>2, <3>2, <4>3 DEF FileOf
        <5>2. QED
          BY <1>3, <4>1, <5>1
      <4>4. QED
        BY <4>2, <4>3
    <3>5. QED
      BY <1>1, <3>3, <3>4 DEF FileInv
  <2>5. QED
    BY <1>6, <2>1, <2>2, <2>3, <2>4, CommitExtract
<1>7. QED
  BY <1>4, <1>5, <1>6 DEF Next, vars, Start, Scope, Permissions, OpenProject, CloseProject, ReadMeta, ReadPage,
     CompareAll, Configure, Finalize, Fails, Edit, UnchangedSites, UnchangedWork

LEMMA WorkNext == AuditInv /\ [Next]_vars => WorkInv'
<1> SUFFICES ASSUME AuditInv, [Next]_vars PROVE WorkInv'
  OBVIOUS
<1>1. site' = site /\ touched \subseteq touched'
  BY Lasting
<1>2. /\ site \in Sites /\ LiveInv /\ StageInv /\ DOMAIN worker = Sides
      /\ \A s \in Sides : WorkOf(s) /\ (worker[s].at # "idle" => todo # <<>>)
  BY DEF AuditInv, TypeOK, WorkInv
<1>3. CASE \E next : Stops(next)
  <2>1. worker' = [s \in Sides |-> [at |-> "idle"]]
    BY <1>3 DEF Stops
  <2>2. DOMAIN worker' = Sides /\ \A s \in Sides : worker'[s].at = "idle"
    BY <2>1
  <2>3. QED
    BY <2>2 DEF WorkInv, WorkOf
<1>4. CASE UNCHANGED <<worker, todo, files>>
  <2>1. \A t \in Sides : WorkOf(t)'
    BY <1>1, <1>2, <1>4, OtherWork
  <2>2. QED
    BY <1>2, <1>4, <2>1 DEF WorkInv
<1>5. CASE OpenProject
  <2>1. /\ todo # <<>> /\ UNCHANGED <<files, todo>>
        /\ worker' = [s \in Sides |->
             IF Reusable(s, Head(todo)) THEN [at |-> "ok"]
             ELSE [at |-> "meta", got |-> <<>>, rows |-> 0, meta |-> FALSE, torn |-> FALSE, again |-> FALSE]]
    BY <1>5 DEF OpenProject
  <2>2. PICK p : p = Head(todo) /\ p \in Matched
    BY <1>2, <2>1, HeadSelected
  <2>3. ASSUME NEW s \in Sides PROVE WorkOf(s)'
    <3>1. CASE Reusable(s, p)
      <4>1. worker'[s] = [at |-> "ok"] /\ Head(todo)' = p
        BY <2>1, <2>2, <3>1
      <4>2. Ready(s, p)
        BY <2>2, <3>1 DEF Reusable, AuditInv, FileInv, FileOf
      <4>3. Ready(s, p)'
        BY <1>1, <2>1, <4>2, KeptReady
      <4>4. worker'[s].at = "ok"
        BY <4>1
      <4>5. QED
        BY <4>1, <4>3, <4>4 DEF WorkOf, Ready
    <3>2. CASE ~Reusable(s, p)
      <4>1. worker'[s] = [at |-> "meta", got |-> <<>>, rows |-> 0, meta |-> FALSE, torn |-> FALSE, again |-> FALSE]
        BY <2>1, <2>2, <3>2
      <4>2. /\ DOMAIN worker'[s] = {"at", "got", "rows", "meta", "torn", "again"}
            /\ worker'[s].at = "meta" /\ worker'[s].got = <<>> /\ worker'[s].meta = FALSE
            /\ worker'[s].torn = FALSE /\ worker'[s].rows = 0 /\ worker'[s].again = FALSE
        BY <4>1
      <4>3. DOMAIN <<>> = {} /\ IsFiniteSet({}) /\ Cardinality({}) = 0
        BY FS_EmptySet
      <4>4. Cardinality(DOMAIN worker'[s].got) = 0 /\ worker'[s].rows \in Nat
        BY <4>2, <4>3
      <4>5. QED
        BY <4>2, <4>3, <4>4 DEF WorkOf, Truthful
    <3>3. QED
      BY <3>1, <3>2
  <2>4. QED
    BY <2>1, <2>3 DEF WorkInv
<1>6. ASSUME NEW s0 \in Sides, ReadMeta(s0) PROVE WorkInv'
  <2>1. /\ worker[s0].at = "meta" /\ UNCHANGED <<files, todo>>
        /\ \/ worker' = [worker EXCEPT ![s0].at = "pages", ![s0].meta = TRUE]
           \/ worker' = [worker EXCEPT ![s0].at = "pages"]
    BY <1>6 DEF ReadMeta, Works, UnchangedWork
  <2>2. /\ DOMAIN worker[s0] = {"at", "got", "rows", "meta", "torn", "again"}
        /\ worker[s0].got = <<>> /\ worker[s0].rows = 0
        /\ worker[s0].meta \in BOOLEAN /\ worker[s0].torn \in BOOLEAN /\ worker[s0].again \in BOOLEAN
    BY <1>2, <2>1 DEF WorkOf
  <2>3. DOMAIN worker' = Sides /\ \A t \in Sides \ {s0} : worker'[t] = worker[t]
    BY <1>2, <2>1
  <2>4. \A t \in Sides \ {s0} : WorkOf(t)'
    BY <1>1, <1>2, <2>1, <2>3, OtherWork
  <2>5. WorkOf(s0)'
    <3>1. /\ DOMAIN worker'[s0] = {"at", "got", "rows", "meta", "torn", "again"}
          /\ worker'[s0].at = "pages" /\ worker'[s0].got = <<>> /\ worker'[s0].rows = 0
          /\ worker'[s0].meta \in BOOLEAN /\ worker'[s0].torn \in BOOLEAN /\ worker'[s0].again \in BOOLEAN
      BY <1>2, <2>1, <2>2
    <3>2. DOMAIN <<>> = {} /\ IsFiniteSet({}) /\ Cardinality({}) = 0
      BY FS_EmptySet
    <3>3. PICK p : p = Head(todo) /\ p \in Matched
      BY <1>2, <2>1, HeadSelected
    <3>4. Reached(s0, p, <<>>)'
      <4>1. InSight(s0, p) \subseteq Nat \ {Project}
        BY <1>2, <3>3, VisibleFacts
      <4>2. InSight(s0, p)' = InSight(s0, p)
        BY <1>1 DEF InSight, Home
      <4>3. Max({0}) = 0
        <5>1. IsFiniteSet({0})
          BY FS_Singleton
        <5>2. Max({0}) \in {0}
          BY <5>1, MaxOfFinite
        <5>3. QED
          BY <5>2
      <4>4. DOMAIN <<>> \cup {0} = {0}
        BY <3>2
      <4>5. \A n \in InSight(s0, p) : ~(n <= Max(DOMAIN <<>> \cup {0}))
        BY <4>1, <4>3, <4>4 DEF Project
      <4>6. QED
        BY <4>2, <4>5 DEF Reached
    <3>5. Head(todo)' = p
      BY <2>1, <3>3
    <3>6. QED
      BY <3>1, <3>2, <3>4, <3>5 DEF WorkOf, Truthful, Reached
  <2>6. QED
    BY <2>3, <2>4, <2>5 DEF WorkInv
<1>7. ASSUME NEW s0 \in Sides, ReadPage(s0) PROVE WorkInv'
  <2>1. worker[s0].at = "pages" /\ UNCHANGED <<files, todo>>
    BY <1>7 DEF ReadPage, Works, UnchangedWork
  <2>2. DOMAIN worker' = Sides /\ \A t \in Sides \ {s0} : worker'[t] = worker[t]
    BY <1>2, <1>7, ReadPageSteps
  <2>3. \A t \in Sides \ {s0} : WorkOf(t)'
    BY <1>1, <1>2, <2>1, <2>2, OtherWork
  <2>4. WorkOf(s0)'
    <3>1. Head(todo) \in Matched
      BY <1>2, <2>1, HeadSelected
    <3>2. QED
      BY <1>2, <1>7, <3>1, ReadPageWork
  <2>5. QED
    BY <2>2, <2>3, <2>4 DEF WorkInv
<1>8. ASSUME NEW s0 \in Sides, Commit(s0) PROVE WorkInv'
  <2>1. worker[s0].at = "count" /\ UNCHANGED todo
    BY <1>8 DEF Commit, Works, UnchangedWork
  <2>2. PICK p : p = Head(todo) /\ p \in Matched
    BY <1>2, <2>1, HeadSelected
  <2>3. \/ UNCHANGED files /\ worker' = [worker EXCEPT ![s0] = [at |-> "short"]]
        \/ \E X : /\ files' = [files EXCEPT ![s0][p] = X] /\ Sound(s0, p, X)
                  /\ worker' = [worker EXCEPT ![s0] = [at |-> "ok"]]
    BY <1>2, <1>8, <2>2, CommitExtract
  <2>4. /\ DOMAIN worker' = Sides
        /\ \A t \in Sides \ {s0} : worker'[t] = worker[t] /\ files'[t][p] = files[t][p]
    BY <1>2, <2>3 DEF AuditInv, FileInv
  <2>5. \A t \in Sides \ {s0} : WorkOf(t)'
    BY <1>1, <1>2, <2>1, <2>2, <2>4, OtherWork
  <2>6. WorkOf(s0)'
    <3>1. CASE worker' = [worker EXCEPT ![s0] = [at |-> "short"]]
      <4>1. worker'[s0].at = "short"
        BY <1>2, <3>1
      <4>2. QED
        BY <4>1 DEF WorkOf
    <3>2. ASSUME NEW X, files' = [files EXCEPT ![s0][p] = X], Sound(s0, p, X),
                 worker' = [worker EXCEPT ![s0] = [at |-> "ok"]]
          PROVE  WorkOf(s0)'
      <4>1. worker'[s0].at = "ok" /\ Head(todo)' = p
        BY <1>2, <2>1, <2>2, <3>2
      <4>2. files'[s0][p] = X
        BY <2>2, <3>2 DEF AuditInv, FileInv, FileOf
      <4>3. Sound(s0, p, X)'
        BY <1>1, <3>2, KeptSound
      <4>4. Ready(s0, p)'
        BY <4>2, <4>3 DEF Ready, Sound
      <4>5. QED
        BY <4>1, <4>4 DEF WorkOf, Ready
    <3>3. QED
      BY <2>3, <3>1, <3>2
  <2>7. QED
    BY <2>4, <2>5, <2>6 DEF WorkInv
<1>9. QED
  BY <1>3, <1>4, <1>5, <1>6, <1>7, <1>8 DEF Next, vars, Start, Scope, Permissions, CloseProject,
     CompareAll, Configure, Finalize, Fails, Edit

LEMMA StageNext == AuditInv /\ [Next]_vars => StageInv'
<1> SUFFICES ASSUME AuditInv, [Next]_vars PROVE StageInv'
  OBVIOUS
<1>1. site' = site /\ Selected' = Selected /\ touched \subseteq touched'
  BY Lasting
<1>2. site \in Sites /\ LiveInv /\ StageInv /\ FileInv /\ TypeOK /\ IsFiniteSet(Selected)
      /\ Selected \subseteq Matched
  BY SiteFacts DEF AuditInv, TypeOK
<1>3. ASSUME UNCHANGED files PROVE \A s \in Sides, p \in Selected : Ready(s, p) => Ready(s, p)'
  BY <1>1, <1>3, KeptReady
<1>4. CASE UNCHANGED <<files, todo, pc, results, verdict, blind, config>>
  BY <1>1, <1>2, <1>3, <1>4 DEF StageInv, Judged
<1>5. CASE \E again \in BOOLEAN : Start(again)
  <2>1. todo' = <<>> /\ pc' = "scope"
    BY <1>5 DEF Start, Stops
  <2>2. QED
    BY <1>1, <2>1, EmptySeq DEF StageInv, Judged
<1>6. CASE Scope
  <2>1. todo' = SetToSeq(Selected) /\ pc' = "permissions"
    BY <1>6 DEF Scope, Stops
  <2>2. QED
    BY <1>1, <1>2, <2>1, ListOfSet DEF StageInv, Judged
<1>7. CASE Permissions
  <2>1. pc = "permissions" /\ pc' = "extract" /\ todo' = todo
    BY <1>7 DEF Permissions, Stops
  <2>2. QED
    BY <1>1, <1>2, <2>1 DEF StageInv, Judged
<1>8. CASE CloseProject
  <2>1. /\ pc = "extract" /\ UNCHANGED files
        /\ \/ pc' = "extract" /\ todo' = Tail(todo) /\ \A s \in Sides : worker[s].at = "ok"
           \/ pc' = "failed" /\ todo' = todo
    BY <1>8 DEF CloseProject, Stops
  <2>2. todo # <<>>
    BY <1>2, <1>8 DEF CloseProject, TypeOK, Sides
  <2>3. /\ Head(todo) \in Selected /\ Tail(todo) \in Seq(Selected)
        /\ ToSet(todo) = {Head(todo)} \cup ToSet(Tail(todo))
    BY <1>2, <2>2, HeadSelected
  <2>4. CASE pc' = "failed" /\ todo' = todo
    BY <1>1, <1>2, <2>4 DEF StageInv, Judged
  <2>5. CASE pc' = "extract" /\ todo' = Tail(todo) /\ \A s \in Sides : worker[s].at = "ok"
    <3>1. \A s \in Sides : Ready(s, Head(todo))
      BY <2>5 DEF AuditInv, WorkInv, WorkOf
    <3>2. ToSet(Tail(todo))' = ToSet(Tail(todo))' /\ ToSet(todo)' = ToSet(Tail(todo))
      BY <2>5 DEF ToSet
    <3>3. \A p \in Selected \ ToSet(todo)' : \A s \in Sides : Ready(s, p)
      BY <1>2, <2>1, <2>3, <3>1, <3>2 DEF StageInv
    <3>4. QED
      BY <1>1, <1>3, <2>1, <2>3, <2>5, <3>3 DEF StageInv, Judged
  <2>6. QED
    BY <2>1, <2>4, <2>5
<1>9. ASSUME NEW s0 \in Sides, Commit(s0) PROVE StageInv'
  <2>1. /\ pc = "extract" /\ UNCHANGED <<pc, todo>> /\ todo # <<>> /\ WorkOf(s0)
    BY <1>2, <1>9 DEF Commit, Works, UnchangedWork, TypeOK, AuditInv, WorkInv
  <2>2. Head(todo) \in ToSet(todo) /\ Head(todo) \in Matched
    BY <1>2, <2>1, HeadSelected
  <2>3. \A s \in Sides, p \in Selected \ ToSet(todo) : files'[s][p] = files[s][p]
    <3>1. PICK q : q = Head(todo)
      OBVIOUS
    <3>2. UNCHANGED files \/ \E X : files' = [files EXCEPT ![s0][q] = X]
      BY <1>2, <1>9, <2>1, <2>2, <3>1, CommitExtract
    <3>3. ASSUME NEW s \in Sides, NEW p \in Selected \ ToSet(todo) PROVE files'[s][p] = files[s][p]
      <4>1. CASE UNCHANGED files
        BY <4>1
      <4>2. ASSUME NEW X, files' = [files EXCEPT ![s0][q] = X] PROVE files'[s][p] = files[s][p]
        <5>1. p # q
          BY <2>2, <3>1
        <5>2. DOMAIN files = Sides
          BY <1>2 DEF FileInv
        <5>3. files'[s] = IF s = s0 THEN [files[s] EXCEPT ![q] = X] ELSE files[s]
          BY <4>2, <5>2
        <5>4. QED
          BY <5>1, <5>3
      <4>3. QED
        BY <3>2, <4>1, <4>2
    <3>4. QED
      BY <3>3
  <2>4. \A s \in Sides, p \in Selected \ ToSet(todo) : Ready(s, p)'
    BY <1>1, <1>2, <2>1, <2>3, KeptReady DEF StageInv
  <2>5. todo' = todo /\ pc' = "extract" /\ ToSet(todo)' = ToSet(todo)
    BY <2>1
  <2>6. QED
    BY <1>1, <1>2, <2>4, <2>5 DEF StageInv, Judged
<1>10. CASE CompareAll
  <2>1. /\ pc = "extract" /\ todo = <<>> /\ pc' = "config" /\ UNCHANGED <<files, todo>>
        /\ results' = [p \in Selected |-> Result(files["src"][p], files["tgt"][p])]
    BY <1>10 DEF CompareAll, Stops
  <2>2. ToSet(todo) = {}
    BY <2>1 DEF ToSet
  <2>3. \A s \in Sides, p \in Selected : Ready(s, p)
    BY <1>2, <2>1, <2>2 DEF StageInv
  <2>4. \A s \in Sides, p \in Selected : Ready(s, p)'
    BY <1>3, <2>1, <2>3
  <2>5. QED
    BY <1>1, <1>2, <2>1, <2>4 DEF StageInv, Judged
<1>11. CASE Configure \/ Finalize \/ Fails
  <2>1. /\ UNCHANGED <<files, todo, results, blind>>
        /\ pc' \in Judged => pc \in Judged
        /\ pc' \notin {"permissions", "extract"}
        /\ pc' = "done" => verdict' = Verdict(results, blind # {}, config) /\ UNCHANGED config
    BY <1>11 DEF Configure, Finalize, Fails, Stops, Judged
  <2>2. QED
    BY <1>1, <1>2, <1>3, <2>1 DEF StageInv
<1>12. QED
  BY <1>4, <1>5, <1>6, <1>7, <1>8, <1>9, <1>10, <1>11
     DEF Next, vars, OpenProject, ReadMeta, ReadPage, Edit, UnchangedWork

LEMMA BlindNext == AuditInv /\ [Next]_vars => BlindInv'
<1> SUFFICES ASSUME AuditInv, [Next]_vars PROVE BlindInv'
  OBVIOUS
<1>1. site' = site /\ Selected' = Selected /\ touched \subseteq touched'
  BY Lasting
<1>2. site \in Sites /\ LiveInv /\ Selected \subseteq Matched /\ BlindInv
  BY SiteFacts DEF AuditInv, TypeOK
<1>3. \A s, p : /\ EditsIn(s, p) => EditsIn(s, p)'
                /\ InSight(s, p)' = InSight(s, p) /\ Home(s, p)' = Home(s, p) /\ Cloud(s)' = Cloud(s)
  BY <1>1 DEF EditsIn, InSight, Home, Cloud
<1>4. CASE Permissions
  <2>1. /\ touched' = touched
        /\ LET probes == {s \in Sides : Cloud(s)} \X Selected
           IN  blind' = {x \in probes \ unprobed' : IsBlind(x[1], x[2])}
    BY <1>4 DEF Permissions, UnchangedSites
  <2>2. ASSUME NEW s \in Sides, NEW p \in Selected, Cloud(s), <<s, p>> \notin unprobed', ~EditsIn(s, p)
        PROVE  <<s, p>> \in blind' <=> 2 * Cardinality(InSight(s, p)) < Cardinality(DOMAIN Home(s, p))
    <3>1. Visible(s, p) = InSight(s, p) /\ DOMAIN live[s][p] = DOMAIN Home(s, p)
      BY <1>2, <2>2, VisibleFacts
    <3>2. <<s, p>> \in blind' <=> IsBlind(s, p)
      BY <2>1, <2>2
    <3>3. QED
      BY <3>1, <3>2 DEF IsBlind
  <2>3. \A s, p : EditsIn(s, p)' <=> EditsIn(s, p)
    BY <2>1 DEF EditsIn
  <2>4. QED
    BY <1>1, <1>3, <2>2, <2>3 DEF BlindInv
<1>5. CASE UNCHANGED <<blind, unprobed>> /\ (pc' \in Judged \cup {"extract"} => pc \in Judged \cup {"extract"})
  <2>1. SUFFICES ASSUME pc' \in Judged \cup {"extract"}, NEW s \in Sides, NEW p \in Selected,
                        Cloud(s)', <<s, p>> \notin unprobed', ~EditsIn(s, p)'
                 PROVE  <<s, p>> \in blind' <=>
                          2 * Cardinality(InSight(s, p))' < Cardinality(DOMAIN Home(s, p))'
    BY <1>1 DEF BlindInv, Judged
  <2>2. Cloud(s) /\ <<s, p>> \notin unprobed /\ ~EditsIn(s, p) /\ pc \in Judged \cup {"extract"}
    BY <1>3, <1>5, <2>1
  <2>3. <<s, p>> \in blind <=> 2 * Cardinality(InSight(s, p)) < Cardinality(DOMAIN Home(s, p))
    BY <1>2, <2>2 DEF BlindInv
  <2>4. QED
    BY <1>3, <1>5, <2>3
<1>6. CASE pc' \notin Judged \cup {"extract"}
  BY <1>6 DEF BlindInv, Judged
<1>7. QED
  BY <1>4, <1>5, <1>6 DEF Next, vars, Start, Scope, OpenProject, CloseProject, ReadMeta, ReadPage,
     Commit, CompareAll, Configure, Finalize, Fails, Edit, Stops, UnchangedWork, Judged, Works

LEMMA TypeNext ==
  ASSUME AuditInv, [Next]_vars, LiveInv', FileInv', StageInv'
  PROVE  TypeOK'
<1>1. site' = site /\ Matched' = Matched /\ Selected' = Selected
  BY Lasting
<1> USE DEF AuditInv
<1>2. \A s \in Sides : \A p \in Matched :
        /\ \A n \in DOMAIN live'[s][p] : n \in Nat \ {Project}
        /\ files'[s][p] # NoFile => DOMAIN files'[s][p].issues \subseteq Nat \ {Project}
  BY <1>1 DEF LiveInv, LiveOf, FileInv, FileOf
<1>3. ToSet(todo)' \subseteq Selected
  <2>1. todo' \in Seq(Selected)
    BY <1>1 DEF StageInv
  <2>2. PICK q \in Seq(Selected) : q = todo'
    BY <2>1
  <2>3. ToSet(q) \subseteq Selected
    BY ElementOfSeq, LenProperties DEF ToSet
  <2>4. QED
    BY <2>2, <2>3 DEF ToSet
<1>4. pc' \in {"config", "finalize", "done"} => DOMAIN results' = Selected
  BY <1>1 DEF StageInv, Judged
<1>5. pc' = "done" => verdict' \in {"CRITICAL", "GAPS_FOUND", "CLEAN_WITH_TAILS", "CLEAN"}
  BY DEF StageInv, Verdict
<1>6. touched' \subseteq Sides \X Matched \X Nat
  <2>1. CASE \E s \in Sides, p \in Matched : Edit(s, p)
    <3>1. PICK s \in Sides, p \in Matched : Edit(s, p)
      BY <2>1
    <3>2. \E n \in Nat : touched' = touched \cup {<<s, p, n>>}
      BY <3>1, EditEffect
    <3>3. QED
      BY <3>2 DEF TypeOK
  <2>2. CASE UNCHANGED touched
    BY <2>2 DEF TypeOK
  <2>3. QED
    BY <2>1, <2>2 DEF Next, vars, Start, Scope, Permissions, OpenProject, CloseProject, ReadMeta, ReadPage,
       Commit, CompareAll, Configure, Finalize, Fails, UnchangedSites, UnchangedWork
<1>7. blind' \cup unprobed' \subseteq Sides \X Selected /\ blind' \cap unprobed' = {}
  <2>1. CASE UNCHANGED <<blind, unprobed>>
    BY <2>1 DEF TypeOK
  <2>2. CASE blind' = {} /\ unprobed' = {}
    BY <2>2
  <2>3. CASE Permissions
    <3> DEFINE probes == {s \in Sides : Cloud(s)} \X Selected
    <3>1. probes \subseteq Sides \X Selected
      OBVIOUS
    <3>2. /\ \/ unprobed' = {}
             \/ unprobed' \in {{x} : x \in probes} \cup {{x \in probes : x[1] = s} : s \in Sides}
          /\ blind' = {x \in probes \ unprobed' : IsBlind(x[1], x[2])}
      BY <2>3 DEF Permissions
    <3> HIDE DEF probes
    <3>3. unprobed' \subseteq probes
      BY <3>2
    <3>4. QED
      BY <3>1, <3>2, <3>3
  <2>4. QED
    BY <2>1, <2>2, <2>3 DEF Next, vars, Start, Scope, OpenProject, CloseProject, ReadMeta, ReadPage,
       Commit, CompareAll, Configure, Finalize, Fails, Edit, UnchangedWork
<1>8. runs' \in 0..MaxRuns /\ faults' \in 0..MaxFaults
  <2>1. runs' = runs \/ (runs < MaxRuns /\ runs' = runs + 1)
    BY DEF Next, vars, Start, Scope, Permissions, OpenProject, CloseProject, ReadMeta, ReadPage,
       Commit, CompareAll, Configure, Finalize, Fails, Edit, UnchangedRun, UnchangedWork
  <2>2. faults' = faults \/ (faults < MaxFaults /\ faults' = faults + 1)
    BY DEF Next, vars, Start, Scope, Permissions, OpenProject, CloseProject, ReadMeta, ReadPage,
       Commit, CompareAll, Configure, Finalize, Fails, Edit, Fault
  <2>3. QED
    BY <2>1, <2>2, BoundsAssumption DEF TypeOK
<1>9. \A s \in Sides : /\ worker'[s].at \in {"idle", "meta", "pages", "count", "ok", "short", "raised"}
                       /\ worker'[s].at # "idle" => pc' = "extract" /\ todo' # <<>>
  <2>1. DOMAIN worker = Sides /\ \A s \in Sides : WorkOf(s)
    BY DEF WorkInv
  <2>2. \A s \in Sides : /\ worker[s].at \in {"idle", "meta", "pages", "count", "ok", "short", "raised"}
                         /\ worker[s].at # "idle" => pc = "extract" /\ todo # <<>>
    BY DEF TypeOK
  <2>3. CASE \E next : Stops(next)
    <3>1. worker' = [s \in Sides |-> [at |-> "idle"]]
      BY <2>3 DEF Stops
    <3>2. QED
      BY <3>1
  <2>4. CASE UNCHANGED worker /\ UNCHANGED <<pc, todo>>
    BY <2>2, <2>4
  <2>5. CASE OpenProject
    <3>1. \A s \in Sides : worker'[s] = [at |-> "ok"]
                           \/ worker'[s] = [at |-> "meta", got |-> <<>>, rows |-> 0, meta |-> FALSE, torn |-> FALSE, again |-> FALSE]
      BY <2>5 DEF OpenProject
    <3>2. \A s \in Sides : worker'[s].at \in {"ok", "meta"}
      BY <3>1
    <3>3. QED
      BY <2>5, <3>2 DEF OpenProject
  <2>6. ASSUME NEW s0 \in Sides, ReadMeta(s0) \/ ReadPage(s0) \/ Commit(s0)
        PROVE  \A s \in Sides : /\ worker'[s].at \in {"idle", "meta", "pages", "count", "ok", "short", "raised"}
                                /\ worker'[s].at # "idle" => pc' = "extract" /\ todo' # <<>>
    <3>1. UNCHANGED <<pc, todo>> /\ pc = "extract" /\ todo # <<>>
      BY <2>2, <2>6 DEF ReadMeta, ReadPage, Commit, Works, UnchangedWork
    <3>2. worker[s0].at \in {"meta", "pages", "count"} => "at" \in DOMAIN worker[s0]
      BY <2>1 DEF WorkOf
    <3>3. CASE ReadMeta(s0)
      BY <2>1, <2>2, <3>1, <3>2, <3>3 DEF ReadMeta, Works
    <3>4. CASE ReadPage(s0)
      <4>1. worker'[s0].at \in {"raised", "count", "pages"} /\ \A s \in Sides \ {s0} : worker'[s] = worker[s]
        BY <2>1, <3>4, ReadPageSteps
      <4>2. QED
        BY <2>2, <3>1, <4>1
    <3>5. CASE Commit(s0)
      BY <2>1, <2>2, <3>1, <3>5 DEF Commit
    <3>6. QED
      BY <2>6, <3>3, <3>4, <3>5
  <2>7. QED
    BY <2>3, <2>4, <2>5, <2>6 DEF Next, vars, Start, Scope, Permissions, CloseProject,
       CompareAll, Configure, Finalize, Fails, Edit
<1>10. site' \in Sites
  BY <1>1 DEF TypeOK
<1>11. QED
  BY <1>1, <1>2, <1>3, <1>4, <1>5, <1>6, <1>7, <1>8, <1>9, <1>10 DEF TypeOK

LEMMA AuditNext == AuditInv /\ [Next]_vars => AuditInv'
<1> SUFFICES ASSUME AuditInv, [Next]_vars PROVE AuditInv'
  OBVIOUS
<1>1. LiveInv'
  BY LiveNext DEF AuditInv
<1>2. FileInv' /\ WorkInv' /\ StageInv' /\ BlindInv'
  BY FileNext, WorkNext, StageNext, BlindNext
<1>3. TypeOK'
  BY <1>1, <1>2, TypeNext
<1>4. QED
  BY <1>1, <1>2, <1>3 DEF AuditInv

\* The stages keep to their order and bounds, and what they read and store has its place.
THEOREM TypeCorrect == Spec => []TypeOK
<1>1. AuditInv => TypeOK
  BY DEF AuditInv
<1>2. QED
  BY InitHolds, AuditNext, <1>1, PTL DEF Spec
-----------------------------------------------------------------------------
(* What the findings of a comparison say, and what it means that some are not  *)
(* there.                                                                      *)

LEMMA FindingIs ==
  \A f, kind, key, field, note :
    f = Finding(kind, key, field, note) =>
      f.kind = kind /\ f.key = key /\ f.field = field /\ f.note = note
BY DEF Finding

\* A finding of an issue's loss comes from the comparison of that issue.
LEMMA DentsOfIssues ==
  ASSUME NEW S, NEW T, NEW f \in Compare(S, T), f.kind \in Dents
  PROVE  \E n \in Common(S, T) : f \in IssueFindings(n, S.issues[n], T.issues[n])
<1> DEFINE common == UNION {IssueFindings(n, S.issues[n], T.issues[n]) : n \in Common(S, T)}
           absent == {Finding("cf_field_not_in_target", Project, g.field, Blank)
                        : g \in {g \in OfKind(common, {"cf_value_mismatch"}) : g.field \notin T.names}}
           told == {Finding("cf_value_not_compared", Project, x, Blank)
                      : x \in S.ambiguous \cup T.ambiguous \cup Divergent(S, T)}
<1>1. f \in PresenceFindings(S, T) \cup common \cup absent \cup told
  BY  DEF Compare
<1>2. f \notin PresenceFindings(S, T)
  BY FindingIs DEF PresenceFindings, Dents
<1>3. f \notin absent /\ f \notin told
  <2> HIDE DEF common
  <2>1. QED
    BY FindingIs DEF Dents
<1>4. f \in common
  BY <1>1, <1>2, <1>3
<1>5. QED
  BY <1>4

\* A number reported missing is one that only the source has.
LEMMA MissingOnes ==
  ASSUME NEW S, NEW T, NEW f \in Compare(S, T), f.kind = "missing_in_tgt"
  PROVE  f.key \in Missing(S, T)
<1> DEFINE common == UNION {IssueFindings(n, S.issues[n], T.issues[n]) : n \in Common(S, T)}
           absent == {Finding("cf_field_not_in_target", Project, g.field, Blank)
                        : g \in {g \in OfKind(common, {"cf_value_mismatch"}) : g.field \notin T.names}}
           told == {Finding("cf_value_not_compared", Project, x, Blank)
                      : x \in S.ambiguous \cup T.ambiguous \cup Divergent(S, T)}
<1>1. f \in PresenceFindings(S, T) \cup common \cup absent \cup told
  BY  DEF Compare
<1>2. f \notin common
  <2>1. \A n, s, t : f \notin CommentFindings(n, s, t)
    BY FindingIs DEF CommentFindings
  <2>2. \A n, s, t : f \notin IssueFindings(n, s, t)
    BY <2>1, FindingIs DEF IssueFindings
  <2>3. QED
    BY <2>2
<1>3. f \notin absent /\ f \notin told
  <2> HIDE DEF common
  <2>1. QED
    BY FindingIs
<1>4. f \in PresenceFindings(S, T)
  BY <1>1, <1>2, <1>3
<1>5. QED
  BY <1>4, FindingIs DEF PresenceFindings

\* A finding about an issue has its number, and what it names does differ.
LEMMA IssueFindingSays ==
  ASSUME NEW n, NEW s, NEW t, NEW f \in IssueFindings(n, s, t), f.kind \in Dents
  PROVE  /\ f.key = n
         /\ f.kind \in FieldLike => f.field \in DOMAIN s.fields /\ s.fields[f.field] # t.fields[f.field]
         /\ f.kind = "key_collision" => s.fields["created"] # t.fields["created"]
         /\ f.kind = "content_mismatch" => s.body # t.body
         /\ f.kind = "comment_mismatch" =>
              \/ s.comments.total # t.comments.total
              \/ /\ Complete(s.comments) /\ Complete(t.comments)
                 /\ BagOf(s.comments.items) # BagOf(t.comments.items)
         /\ f.kind = "attachment_mismatch" => s.files # t.files
         /\ f.kind = "cf_value_mismatch" => f.field \in CustomLost(s, t)
<1>1. CASE f = Finding("key_collision", n, Blank, Blank) /\ Collides(s, t)
  BY <1>1, FindingIs DEF Collides, Differs, FieldLike
<1>2. CASE \E x \in DOMAIN s.fields, k \in FieldLike : \E v :
             Differs(s, t, x) /\ f = Finding(k, n, x, v)
  BY <1>2, FindingIs DEF Differs, FieldLike
<1>3. CASE f = Finding("content_mismatch", n, "description", Blank) /\ s.body # t.body
  BY <1>3, FindingIs DEF FieldLike
<1>4. CASE f \in CommentFindings(n, s.comments, t.comments)
  <2>1. CASE s.comments.total # t.comments.total
    BY <1>4, <2>1, FindingIs DEF CommentFindings, FieldLike
  <2>2. CASE s.comments.total = t.comments.total /\ Complete(s.comments) /\ Complete(t.comments)
    BY <1>4, <2>2, FindingIs DEF CommentFindings, FieldLike
  <2>3. CASE s.comments.total = t.comments.total /\ ~(Complete(s.comments) /\ Complete(t.comments))
    <3>1. f = Finding("comment_uncheckable", n, "comment", Blank)
      BY <1>4, <2>3 DEF CommentFindings
    <3>2. QED
      BY <3>1, FindingIs DEF Dents
  <2>4. QED
    BY <2>1, <2>2, <2>3
<1>5. CASE f = Finding("attachment_mismatch", n, "attachment", Blank) /\ s.files # t.files
  BY <1>5, FindingIs DEF FieldLike
<1>6. CASE \E x \in CustomLost(s, t) : f = Finding("cf_value_mismatch", n, x, Blank)
  BY <1>6, FindingIs DEF FieldLike
<1>7. QED
  <2>1. CASE Collides(s, t)
    BY <1>1, <2>1 DEF IssueFindings
  <2>2. CASE ~Collides(s, t)
    <3> DEFINE fields == {Finding(IF x = "issuelinks" THEN "link_mismatch" ELSE "field_mismatch", n, x,
                                  IF t.fields[x] = NoValue THEN "empty" ELSE "value")
                            : x \in {x \in DOMAIN s.fields : Differs(s, t, x)}}
               body == {Finding("content_mismatch", n, "description", Blank)
                          : b \in {s.body, t.body} \ {s.body}}
               attached == {Finding("attachment_mismatch", n, "attachment", Blank)
                              : a \in {s.files, t.files} \ {s.files}}
               custom == {Finding("cf_value_mismatch", n, x, Blank) : x \in CustomLost(s, t)}
    <3>1. f \in fields \cup body \cup CommentFindings(n, s.comments, t.comments) \cup attached \cup custom
      BY <2>2 DEF IssueFindings
    <3>2. f \in fields => \E x \in DOMAIN s.fields, k \in FieldLike : \E v :
                            Differs(s, t, x) /\ f = Finding(k, n, x, v)
      BY  DEF FieldLike
    <3>3. f \in body => f = Finding("content_mismatch", n, "description", Blank) /\ s.body # t.body
      OBVIOUS
    <3>4. f \in attached => f = Finding("attachment_mismatch", n, "attachment", Blank) /\ s.files # t.files
      OBVIOUS
    <3>5. f \in custom => \E x \in CustomLost(s, t) : f = Finding("cf_value_mismatch", n, x, Blank)
      OBVIOUS
    <3> HIDE DEF fields, body, attached, custom
    <3>6. QED
      BY <1>2, <1>3, <1>4, <1>5, <1>6, <3>1, <3>2, <3>3, <3>4, <3>5
  <2>3. QED
    BY <2>1, <2>2

\* What a run has judged when it is done: two ready extracts per project.
LEMMA JudgedProjects ==
  ASSUME AuditInv, pc = "done", NEW p \in Selected
  PROVE  /\ site \in Sites /\ p \in Matched
         /\ \A s \in Sides : Ready(s, p)
         /\ p \in DOMAIN results /\ results[p].findings = Compare(files["src"][p], files["tgt"][p])
         /\ verdict = Verdict(results, blind # {}, config)
<1>1. site \in Sites /\ Selected \subseteq Matched
  <2>1. site \in Sites
    BY DEF AuditInv, TypeOK
  <2>2. QED
    BY <2>1, SiteFacts
<1>2. /\ \A s \in Sides : Ready(s, p)
      /\ results = [q \in Selected |-> Result(files["src"][q], files["tgt"][q])]
      /\ verdict = Verdict(results, blind # {}, config)
  BY DEF AuditInv, StageInv, Judged
<1>3. results[p] = Result(files["src"][p], files["tgt"][p])
  BY <1>2
<1>4. results[p].findings = Compare(files["src"][p], files["tgt"][p])
  BY <1>3 DEF Result
<1>5. QED
  BY <1>1, <1>2, <1>4

\* An untouched issue of a ready extract with the list of fields is the site's, as far as an
\* extract keeps it.
LEMMA ReadyIssue ==
  ASSUME AuditInv, NEW s \in Sides, NEW p \in Matched, Ready(s, p), files[s][p].meta,
         NEW n \in DOMAIN files[s][p].issues, Quiet(s, p, n)
  PROVE  /\ n \in DOMAIN live[s][p]
         /\ KeptAs(files[s][p].issues[n], live[s][p][n], site.names[s], site.ambiguous[s])
<1>1. site \in Sites /\ LiveInv
  BY DEF AuditInv, TypeOK
<1>2. Truthful(s, p, files[s][p].issues, TRUE)
  BY DEF Ready, Sound
<1>3. n \in Nat /\ n \in InSight(s, p) /\ files[s][p].issues[n] = Slim(s, Home(s, p)[n], TRUE)
  BY <1>2 DEF Truthful
<1>4. n \in DOMAIN Home(s, p)
  BY <1>3 DEF InSight
<1>5. n \in DOMAIN live[s][p] /\ live[s][p][n] = Home(s, p)[n]
  BY <1>1, <1>3, <1>4, VisibleFacts
<1>6. WellFormed(Home(s, p)[n], site.names[s] \cup site.ambiguous[s])
  BY <1>1, <1>4, SiteFacts
<1>7. KeptAs(Slim(s, Home(s, p)[n], TRUE), Home(s, p)[n], site.names[s], site.ambiguous[s])
  BY <1>6, SlimKeeps
<1>8. QED
  BY <1>3, <1>5, <1>7

\* In a whole extract of a project that hides nothing, every untouched issue is there.
LEMMA ReadyHas ==
  ASSUME AuditInv, NEW s \in Sides, NEW p \in Matched, site.hidden[s][p] = {},
         Full(s, p, files[s][p].issues), NEW n \in Nat, Quiet(s, p, n), n \in DOMAIN live[s][p]
  PROVE  n \in DOMAIN files[s][p].issues
<1>1. site \in Sites /\ LiveInv
  BY DEF AuditInv, TypeOK
<1>2. n \in DOMAIN Home(s, p)
  BY <1>1, VisibleFacts
<1>3. n \in InSight(s, p)
  BY <1>2 DEF InSight
<1>4. QED
  BY <1>3 DEF Full

\* No loss is made up, from any pages, failures, reused extracts and edits meanwhile.
THEOREM NoFalseAlarmHolds == Spec => []NoFalseAlarm
<1>1. AuditInv => NoFalseAlarm
  <2>1. SUFFICES ASSUME AuditInv, pc = "done", NEW p \in Selected, NEW f \in results[p].findings,
                        f.kind \in Dents \cup {"missing_in_tgt"}, Untouched(p, f.key),
                        \A s \in Sides : ~files[s][p].torn /\ site.hidden[s][p] = {} /\ files[s][p].meta
                 PROVE  IF f.kind = "missing_in_tgt" THEN f.key \notin DOMAIN live["tgt"][p]
                        ELSE LET i == live["src"][p][f.key]
                                 j == live["tgt"][p][f.key]
                             IN  CASE f.kind \in FieldLike -> i.fields[f.field] # j.fields[f.field]
                                   [] f.kind = "key_collision" -> i.fields["created"] # j.fields["created"]
                                   [] f.kind = "content_mismatch" -> i.body # j.body
                                   [] f.kind = "comment_mismatch" -> BagOf(i.comments) # BagOf(j.comments)
                                   [] f.kind = "attachment_mismatch" -> i.files # j.files
                                   [] f.kind = "cf_value_mismatch" ->
                                        /\ f.field \in DOMAIN i.custom
                                        /\ f.field \in DOMAIN j.custom =>
                                             f.field \in site.ambiguous["tgt"] \/ j.custom[f.field] # i.custom[f.field]
    BY DEF NoFalseAlarm
  <2> DEFINE S == files["src"][p]
             T == files["tgt"][p]
             n == f.key
             i == live["src"][p][n]
             j == live["tgt"][p][n]
  <2>2. /\ p \in Matched /\ f \in Compare(S, T)
        /\ \A s \in Sides : Ready(s, p) /\ Full(s, p, files[s][p].issues)
    <3>1. /\ p \in Matched /\ f \in Compare(S, T) /\ \A s \in Sides : Ready(s, p)
      BY <2>1, JudgedProjects
    <3>2. QED
      BY <2>1, <3>1 DEF Ready, Sound
  <2>3. "src" \in Sides /\ "tgt" \in Sides /\ \A s \in Sides : Quiet(s, p, n)
    BY <2>1 DEF Sides, Quiet, Untouched
  <2>4. DOMAIN S.issues \subseteq Nat
    BY <2>2, <2>3 DEF Ready, Sound, Truthful
  <2>5. CASE f.kind = "missing_in_tgt"
    <3>1. n \in DOMAIN S.issues /\ n \notin DOMAIN T.issues
      BY <2>2, <2>5, MissingOnes DEF Missing
    <3>2. n \notin DOMAIN live["tgt"][p]
      BY <2>1, <2>2, <2>3, <2>4, <3>1, ReadyHas
    <3>3. QED
      BY <2>5, <3>2
  <2>6. CASE f.kind # "missing_in_tgt"
    <3>1. f.kind \in Dents
      BY <2>1, <2>6
    <3>2. PICK k \in Common(S, T) : f \in IssueFindings(k, S.issues[k], T.issues[k])
      BY <2>2, <3>1, DentsOfIssues
    <3>3. k = n
      BY <3>1, <3>2, IssueFindingSays
    <3>4. n \in DOMAIN S.issues /\ n \in DOMAIN T.issues
      BY <3>2, <3>3 DEF Common
    <3> DEFINE e == S.issues[n]
               g == T.issues[n]
    <3>5. f \in IssueFindings(n, e, g)
      BY <3>2, <3>3
    <3>6. KeptAs(e, i, site.names["src"], site.ambiguous["src"])
      BY <2>1, <2>2, <2>3, <3>4, ReadyIssue
    <3>7. KeptAs(g, j, site.names["tgt"], site.ambiguous["tgt"])
      BY <2>1, <2>2, <2>3, <3>4, ReadyIssue
    <3> HIDE DEF S, T, n, i, j, e, g
    <3>8. /\ e.fields = i.fields /\ e.body = i.body /\ e.files = i.files
          /\ e.comments.total = Len(i.comments)
          /\ Complete(e.comments) => e.comments.items = i.comments
          /\ DOMAIN e.custom = site.names["src"] \cap DOMAIN i.custom
          /\ \A x \in DOMAIN e.custom : e.custom[x] = i.custom[x]
      BY <3>6 DEF KeptAs
    <3>9. /\ g.fields = j.fields /\ g.body = j.body /\ g.files = j.files
          /\ g.comments.total = Len(j.comments)
          /\ Complete(g.comments) => g.comments.items = j.comments
          /\ DOMAIN g.custom = site.names["tgt"] \cap DOMAIN j.custom
          /\ \A x \in DOMAIN g.custom : g.custom[x] = j.custom[x]
      BY <3>7 DEF KeptAs
    <3>10. /\ f.kind \in FieldLike => i.fields[f.field] # j.fields[f.field]
           /\ f.kind = "key_collision" => i.fields["created"] # j.fields["created"]
           /\ f.kind = "content_mismatch" => i.body # j.body
           /\ f.kind = "attachment_mismatch" => i.files # j.files
      BY <3>1, <3>5, <3>8, <3>9, IssueFindingSays
    <3>11. ASSUME f.kind = "comment_mismatch" PROVE BagOf(i.comments) # BagOf(j.comments)
      <4>1. CASE e.comments.total # g.comments.total
        <5>1. i.comments \in Seq(ToSet(i.comments)) /\ j.comments \in Seq(ToSet(j.comments))
          BY <3>6, <3>7 DEF KeptAs, WellFormed
        <5>2. Len(i.comments) # Len(j.comments)
          BY <3>8, <3>9, <4>1
        <5> DEFINE U == ToSet(i.comments) \cup ToSet(j.comments)
        <5>3. i.comments \in Seq(U) /\ j.comments \in Seq(U)
          BY <5>1
        <5> HIDE DEF U
        <5>4. QED
          BY <5>2, <5>3, SameBagSameLength
      <4>2. CASE /\ Complete(e.comments) /\ Complete(g.comments)
                 /\ BagOf(e.comments.items) # BagOf(g.comments.items)
        BY <3>8, <3>9, <4>2
      <4>3. QED
        BY <3>1, <3>5, <3>11, <4>1, <4>2, IssueFindingSays
    <3>12. ASSUME f.kind = "cf_value_mismatch"
           PROVE  /\ f.field \in DOMAIN i.custom
                  /\ f.field \in DOMAIN j.custom =>
                       f.field \in site.ambiguous["tgt"] \/ j.custom[f.field] # i.custom[f.field]
      <4> DEFINE x == f.field
      <4>1. x \in CustomLost(e, g)
        BY <3>1, <3>5, <3>12, IssueFindingSays
      <4>2. x \in DOMAIN e.custom /\ (x \in DOMAIN g.custom => e.custom[x].fp # g.custom[x].fp)
        BY <4>1 DEF CustomLost
      <4>3. x \in DOMAIN i.custom /\ e.custom[x] = i.custom[x]
        BY <3>8, <4>2
      <4>4. ASSUME x \in DOMAIN j.custom, x \notin site.ambiguous["tgt"]
            PROVE  j.custom[x] # i.custom[x]
        <5>1. x \in site.names["tgt"]
          BY <3>7, <4>4 DEF KeptAs, WellFormed
        <5>2. x \in DOMAIN g.custom /\ g.custom[x] = j.custom[x]
          BY <3>9, <4>4, <5>1
        <5>3. QED
          BY <4>2, <4>3, <5>2
      <4>5. QED
        BY <4>3, <4>4
    <3>13. QED
      BY <2>6, <3>1, <3>10, <3>11, <3>12 DEF Dents, i, j, n, FieldLike
  <2>7. QED
    BY <2>5, <2>6
<1>2. QED
  BY InitHolds, AuditNext, <1>1, PTL DEF Spec

\* A clean verdict: no finding of a loss anywhere, and no blind spot.
LEMMA CleanMeans ==
  ASSUME AuditInv, pc = "done", verdict \in {"CLEAN", "CLEAN_WITH_TAILS"}
  PROVE  /\ blind = {}
         /\ \A p \in Selected : \A f \in Compare(files["src"][p], files["tgt"][p]) :
              f.kind \notin Dents \cup {"missing_in_tgt", "rekey_suspected"}
<1> DEFINE fs == UNION {results[p].findings : p \in DOMAIN results}
           some(kinds) == OfKind(fs, kinds) # {}
           bad == some({"missing_in_tgt", "key_collision"}) \/ blind # {}
           gaps == some(Dents \cup {"rekey_suspected"}) \/ config
<1>1. verdict = Verdict(results, blind # {}, config)
  BY DEF AuditInv, StageInv, Judged
<1>2. Verdict(results, blind # {}, config) =
        CASE bad -> "CRITICAL"
          [] ~bad /\ gaps -> "GAPS_FOUND"
          [] ~bad /\ ~gaps /\ some({"tail_post_cutover"}) -> "CLEAN_WITH_TAILS"
          [] OTHER -> "CLEAN"
  BY DEF Verdict
<1>3. ~bad /\ ~gaps
  <2> HIDE DEF bad, gaps, some
  <2>1. QED
    BY <1>1, <1>2
<1>4. blind = {} /\ OfKind(fs, {"missing_in_tgt", "key_collision"}) = {}
      /\ OfKind(fs, Dents \cup {"rekey_suspected"}) = {}
  <2> HIDE DEF fs
  <2>1. QED
    BY <1>3
<1>5. \A f \in fs : f.kind \notin Dents \cup {"missing_in_tgt", "rekey_suspected"}
  <2> HIDE DEF fs
  <2>1. QED
    BY <1>4 DEF OfKind
<1>6. \A p \in Selected : \A f \in Compare(files["src"][p], files["tgt"][p]) : f \in fs
  <2>1. TAKE p \in Selected
  <2>2. p \in DOMAIN results /\ results[p].findings = Compare(files["src"][p], files["tgt"][p])
    BY JudgedProjects
  <2>3. QED
    BY <2>2
<1>7. QED
  BY <1>4, <1>5, <1>6

\* An issue that only the source has is found missing or a tail, unless some key was renamed.
LEMMA MissingIsFound ==
  ASSUME NEW S, NEW T, NEW n \in Missing(S, T),
         \A f \in Compare(S, T) : f.kind # "rekey_suspected"
  PROVE  \/ Finding("missing_in_tgt", n, Blank, Blank) \in Compare(S, T)
         \/ Finding("tail_post_cutover", n, Blank, "source") \in Compare(S, T)
<1> DEFINE pairs == RekeyPairs(S, T)
           lost  == Missing(S, T) \ {q[1] : q \in pairs}
           found(k) == IF AfterCutover(S, T, k) THEN Finding("tail_post_cutover", k, Blank, "source")
                       ELSE Finding("missing_in_tgt", k, Blank, Blank)
<1>1. PresenceFindings(S, T) \subseteq Compare(S, T)
  BY DEF Compare
<1>2. pairs = {}
  <2>1. SUFFICES ASSUME NEW q \in pairs PROVE FALSE
    OBVIOUS
  <2>2. Finding("rekey_suspected", Project, Blank, Blank) \in PresenceFindings(S, T)
    BY <2>1 DEF PresenceFindings
  <2>3. QED
    BY <1>1, <2>2, FindingIs
<1>3. n \in lost
  BY <1>2
<1>4. found(n) \in PresenceFindings(S, T)
  <2>1. {found(k) : k \in lost} \subseteq PresenceFindings(S, T)
    BY DEF PresenceFindings
  <2>2. QED
    BY <1>3, <2>1
<1>5. QED
  BY <1>1, <1>4

\* Without a finding of a loss, what the extracts have of an issue is the same, but for what
\* the findings say of its comments and of its custom fields.
NotCompared(x) == Finding("cf_value_not_compared", Project, x, Blank)
NotChecked(n) == Finding("comment_uncheckable", n, "comment", Blank)
LEMMA NothingLost ==
  ASSUME NEW S, NEW T, NEW n \in Common(S, T), NEW s, s = S.issues[n], NEW t, t = T.issues[n],
         \A f \in Compare(S, T) : f.kind \notin Dents
  PROVE  /\ \A x \in DOMAIN s.fields : s.fields[x] = t.fields[x]
         /\ s.body = t.body /\ s.files = t.files
         /\ \/ NotChecked(n) \in Compare(S, T)
            \/ /\ Complete(s.comments) /\ Complete(t.comments)
               /\ BagOf(s.comments.items) = BagOf(t.comments.items)
         /\ \A x \in S.ambiguous \cup T.ambiguous : NotCompared(x) \in Compare(S, T)
         /\ \A x \in DOMAIN s.custom :
              /\ x \in DOMAIN t.custom
              /\ s.custom[x].kind = t.custom[x].kind => s.custom[x].fp = t.custom[x].fp
              /\ x \in S.names \cap T.names /\ s.custom[x].kind # t.custom[x].kind =>
                   NotCompared(x) \in Compare(S, T)
<1> DEFINE told == S.ambiguous \cup T.ambiguous \cup Divergent(S, T)
<1>1. IssueFindings(n, s, t) \subseteq Compare(S, T)
  <2> DEFINE common == UNION {IssueFindings(k, S.issues[k], T.issues[k]) : k \in Common(S, T)}
  <2>1. common \subseteq Compare(S, T)
    BY DEF Compare
  <2>2. IssueFindings(n, s, t) \subseteq common
    OBVIOUS
  <2> HIDE DEF common
  <2>3. QED
    BY <2>1, <2>2
<1>2. \A f \in IssueFindings(n, s, t) : f.kind \notin Dents
  BY <1>1
<1>3. \A x \in told : NotCompared(x) \in Compare(S, T)
  <2>1. {NotCompared(x) : x \in told} \subseteq Compare(S, T)
    BY DEF Compare, NotCompared
  <2> HIDE DEF told
  <2>2. QED
    BY <2>1
<1>4. ~Collides(s, t)
  <2>1. SUFFICES ASSUME Collides(s, t) PROVE FALSE
    OBVIOUS
  <2>2. Finding("key_collision", n, Blank, Blank) \in IssueFindings(n, s, t)
    BY <2>1 DEF IssueFindings
  <2>3. QED
    BY <1>2, <2>2, FindingIs DEF Dents
<1>5. ASSUME NEW x \in DOMAIN s.fields PROVE s.fields[x] = t.fields[x]
  <2>1. SUFFICES ASSUME Differs(s, t, x) PROVE FALSE
    BY DEF Differs
  <2>2. \E k \in FieldLike : \E v : Finding(k, n, x, v) \in IssueFindings(n, s, t)
    <3>1. Finding(IF x = "issuelinks" THEN "link_mismatch" ELSE "field_mismatch", n, x,
                  IF t.fields[x] = NoValue THEN "empty" ELSE "value") \in IssueFindings(n, s, t)
      BY <1>4, <1>5, <2>1 DEF IssueFindings
    <3>2. QED
      BY <3>1 DEF FieldLike
  <2>3. QED
    BY <1>2, <2>2, FindingIs DEF Dents, FieldLike
<1>6. s.body = t.body
  <2>1. s.body # t.body => Finding("content_mismatch", n, "description", Blank) \in IssueFindings(n, s, t)
    BY <1>4 DEF IssueFindings
  <2>2. QED
    BY <1>2, <2>1, FindingIs DEF Dents
<1>7. s.files = t.files
  <2>1. s.files # t.files => Finding("attachment_mismatch", n, "attachment", Blank) \in IssueFindings(n, s, t)
    BY <1>4 DEF IssueFindings
  <2>2. QED
    BY <1>2, <2>1, FindingIs DEF Dents
<1>8. CommentFindings(n, s.comments, t.comments) \subseteq IssueFindings(n, s, t)
  BY <1>4 DEF IssueFindings
<1>9. s.comments.total = t.comments.total
  <2>1. s.comments.total # t.comments.total =>
          Finding("comment_mismatch", n, "comment", "total") \in CommentFindings(n, s.comments, t.comments)
    BY DEF CommentFindings
  <2>2. QED
    BY <1>2, <1>8, <2>1, FindingIs DEF Dents
<1>10. ~(Complete(s.comments) /\ Complete(t.comments)) => NotChecked(n) \in Compare(S, T)
  <2>1. ~(Complete(s.comments) /\ Complete(t.comments)) =>
          NotChecked(n) \in CommentFindings(n, s.comments, t.comments)
    BY <1>9 DEF CommentFindings, NotChecked
  <2>2. QED
    BY <1>1, <1>8, <2>1
<1>11. Complete(s.comments) /\ Complete(t.comments) =>
         BagOf(s.comments.items) = BagOf(t.comments.items)
  <2>1. Complete(s.comments) /\ Complete(t.comments)
        /\ BagOf(s.comments.items) # BagOf(t.comments.items) =>
          Finding("comment_mismatch", n, "comment", "content") \in CommentFindings(n, s.comments, t.comments)
    BY <1>9 DEF CommentFindings
  <2>2. QED
    BY <1>2, <1>8, <2>1, FindingIs DEF Dents
<1>12. CustomLost(s, t) = {}
  <2>1. \A x \in CustomLost(s, t) : Finding("cf_value_mismatch", n, x, Blank) \in IssueFindings(n, s, t)
    BY <1>4 DEF IssueFindings
  <2>2. QED
    BY <1>2, <2>1, FindingIs DEF Dents
<1>13. \A x \in DOMAIN s.custom : x \in DOMAIN t.custom
         /\ (s.custom[x].kind = t.custom[x].kind => s.custom[x].fp = t.custom[x].fp)
  BY <1>12 DEF CustomLost
<1>14. \A x \in DOMAIN s.custom :
         x \in S.names \cap T.names /\ s.custom[x].kind # t.custom[x].kind => x \in Divergent(S, T)
  BY <1>4, <1>13 DEF Divergent
<1>15. \A x \in S.ambiguous \cup T.ambiguous \cup Divergent(S, T) : NotCompared(x) \in Compare(S, T)
  BY <1>3
<1>16. QED
  BY <1>5, <1>6, <1>7, <1>10, <1>11, <1>13, <1>14, <1>15

\* What a run that ended clean has compared was whole: the account sees all of the project,
\* and each extract has every untouched issue.
LEMMA CleanIsWhole ==
  ASSUME AuditInv, pc = "done", blind = {}, NEW p \in Selected, NEW s \in Sides,
         ~Unnoticed(s, p), ~Concealed(s, p)
  PROVE  site.hidden[s][p] = {} /\ Full(s, p, files[s][p].issues)
<1>1. site \in Sites /\ LiveInv /\ p \in Matched /\ Ready(s, p)
  BY JudgedProjects DEF AuditInv
<1>2. Full(s, p, files[s][p].issues)
  BY <1>1 DEF Unnoticed, Ready, Sound
<1>3. ASSUME site.hidden[s][p] # {} PROVE FALSE
  <2>1. Cloud(s) /\ <<s, p>> \notin unprobed /\ IsBlind(s, p) /\ ~EditsIn(s, p)
    BY <1>3 DEF Concealed
  <2>2. Visible(s, p) = InSight(s, p) /\ DOMAIN live[s][p] = DOMAIN Home(s, p)
    BY <1>1, <2>1, VisibleFacts
  <2>3. 2 * Cardinality(InSight(s, p)) < Cardinality(DOMAIN Home(s, p))
    BY <2>1, <2>2 DEF IsBlind
  <2>4. <<s, p>> \in blind
    BY <2>1, <2>3 DEF AuditInv, BlindInv, Judged
  <2>5. QED
    BY <2>4
<1>4. QED
  BY <1>2, <1>3

\* Extracts that agree on an issue but for what the findings say, of sites that have it as the
\* extracts keep it: the target has all of it, but for what the report says.
LEMMA AgreeingIsCarried ==
  ASSUME NEW p, NEW n, NEW i, NEW j, NEW e, NEW g, NEW fs, fs = results[p].findings,
         KeptAs(e, i, site.names["src"], site.ambiguous["src"]),
         KeptAs(g, j, site.names["tgt"], site.ambiguous["tgt"]),
         \A x \in DOMAIN e.fields : e.fields[x] = g.fields[x],
         e.body = g.body, e.files = g.files,
         \/ NotChecked(n) \in fs
         \/ /\ Complete(e.comments) /\ Complete(g.comments)
            /\ BagOf(e.comments.items) = BagOf(g.comments.items),
         \A x \in site.ambiguous["src"] \cup site.ambiguous["tgt"] : NotCompared(x) \in fs,
         \A x \in DOMAIN e.custom :
           /\ x \in DOMAIN g.custom
           /\ e.custom[x].kind = g.custom[x].kind => e.custom[x].fp = g.custom[x].fp
           /\ x \in site.names["src"] \cap site.names["tgt"] /\ e.custom[x].kind # g.custom[x].kind =>
                NotCompared(x) \in fs
  PROVE  Carried(p, n, i, j)
<1>1. i.body = j.body /\ i.files = j.files
  BY DEF KeptAs
<1>2. \/ BagOf(i.comments) = BagOf(j.comments)
      \/ Finding("comment_uncheckable", n, "comment", Blank) \in results[p].findings
  BY DEF KeptAs, NotChecked
<1>3. i.fields = j.fields
  <2>1. /\ i.fields = [f \in DOMAIN NewIssue.fields |-> i.fields[f]]
        /\ j.fields = [f \in DOMAIN NewIssue.fields |-> j.fields[f]]
    BY DEF KeptAs, WellFormed
  <2>2. \A f \in DOMAIN NewIssue.fields : i.fields[f] = j.fields[f]
    <3>1. e.fields = i.fields /\ g.fields = j.fields /\ DOMAIN i.fields = DOMAIN NewIssue.fields
      BY <2>1 DEF KeptAs
    <3>2. QED
      BY <3>1
  <2>3. QED
    BY <2>1, <2>2
<1>4. ASSUME NEW x \in DOMAIN i.custom
      PROVE  (x \in DOMAIN j.custom /\ i.custom[x] = j.custom[x]) \/ FieldTold(p, x, i, j)
  <2>1. x \in site.names["src"] \cup site.ambiguous["src"]
    BY <1>4 DEF KeptAs, WellFormed
  <2>2. CASE x \in site.ambiguous["src"]
    BY <2>2 DEF FieldTold, NotCompared
  <2>3. CASE x \in site.names["src"]
    <3>1. x \in DOMAIN e.custom /\ e.custom[x] = i.custom[x]
      BY <1>4, <2>3 DEF KeptAs
    <3>2. /\ x \in DOMAIN g.custom /\ x \in site.names["tgt"] /\ x \in DOMAIN j.custom
          /\ g.custom[x] = j.custom[x]
      BY <3>1 DEF KeptAs
    <3>3. CASE i.custom[x].kind = j.custom[x].kind
      <4>1. i.custom[x].fp = j.custom[x].fp
        BY <3>1, <3>2, <3>3
      <4>2. /\ i.custom[x] = [kind |-> i.custom[x].kind, fp |-> i.custom[x].fp]
            /\ j.custom[x] = [kind |-> j.custom[x].kind, fp |-> j.custom[x].fp]
        BY <1>4, <3>2 DEF KeptAs, WellFormed
      <4>3. QED
        BY <3>2, <3>3, <4>1, <4>2
    <3>4. CASE i.custom[x].kind # j.custom[x].kind
      <4>1. NotCompared(x) \in fs
        BY <2>3, <3>1, <3>2, <3>4
      <4>2. QED
        BY <3>2, <3>4, <4>1 DEF FieldTold, NotCompared
    <3>5. QED
      BY <3>3, <3>4
  <2>4. QED
    BY <2>1, <2>2, <2>3
<1>5. QED
  BY <1>1, <1>2, <1>3, <1>4 DEF Carried

\* A clean verdict is a true one, over failed and repeated runs, reused extracts, pages that
\* lacked or repeated issues, counts that were off or unread, and edits meanwhile.
THEOREM NoFalseCleanHolds == Spec => []NoFalseClean
<1>1. AuditInv => NoFalseClean
  <2>1. SUFFICES ASSUME AuditInv, pc = "done", verdict \in {"CLEAN", "CLEAN_WITH_TAILS"},
                        NEW p \in Selected,
                        \A s \in Sides : ~Unnoticed(s, p) /\ ~Concealed(s, p) /\ files[s][p].meta,
                        NEW n \in DOMAIN live["src"][p], Untouched(p, n)
                 PROVE  IF n \in DOMAIN live["tgt"][p]
                        THEN Carried(p, n, live["src"][p][n], live["tgt"][p][n])
                        ELSE Told(p, n)
    BY DEF NoFalseClean
  <2> DEFINE S == files["src"][p]
             T == files["tgt"][p]
  <2>2. /\ blind = {}
        /\ \A f \in Compare(S, T) : f.kind \notin Dents \cup {"missing_in_tgt", "rekey_suspected"}
    BY <2>1, CleanMeans
  <2>3. /\ site \in Sites /\ p \in Matched /\ \A s \in Sides : Ready(s, p)
        /\ results[p].findings = Compare(S, T)
    BY <2>1, JudgedProjects
  <2>4. "src" \in Sides /\ "tgt" \in Sides /\ \A s \in Sides : Quiet(s, p, n)
    BY <2>1 DEF Sides, Quiet, Untouched
  <2>5. LiveInv /\ n \in Nat
    BY <2>1, <2>3, <2>4, VisibleFacts DEF AuditInv
  <2>6. n \in DOMAIN S.issues
    <3>1. site.hidden["src"][p] = {} /\ Full("src", p, S.issues)
      BY <2>1, <2>2, <2>4, CleanIsWhole
    <3>2. QED
      BY <2>1, <2>3, <2>4, <2>5, <3>1, ReadyHas
  <2>7. CASE n \notin DOMAIN live["tgt"][p]
    <3>1. n \notin DOMAIN T.issues
      BY <2>1, <2>3, <2>4, <2>7, ReadyIssue
    <3>2. n \in Missing(S, T)
      BY <2>6, <3>1 DEF Missing
    <3>3. \/ Finding("missing_in_tgt", n, Blank, Blank) \in Compare(S, T)
          \/ Finding("tail_post_cutover", n, Blank, "source") \in Compare(S, T)
      BY <2>2, <3>2, MissingIsFound
    <3>4. Finding("missing_in_tgt", n, Blank, Blank) \notin Compare(S, T)
      BY <2>2, FindingIs
    <3>5. QED
      BY <2>3, <2>7, <3>3, <3>4 DEF Told
  <2>8. CASE n \in DOMAIN live["tgt"][p]
    <3> DEFINE e == S.issues[n]
               g == T.issues[n]
               i == live["src"][p][n]
               j == live["tgt"][p][n]
    <3>1. n \in DOMAIN T.issues
      <4>1. site.hidden["tgt"][p] = {} /\ Full("tgt", p, T.issues)
        BY <2>1, <2>2, <2>4, CleanIsWhole
      <4>2. QED
        BY <2>1, <2>3, <2>4, <2>5, <2>8, <4>1, ReadyHas
    <3>2. KeptAs(e, i, site.names["src"], site.ambiguous["src"])
      BY <2>1, <2>3, <2>4, <2>6, ReadyIssue
    <3>3. KeptAs(g, j, site.names["tgt"], site.ambiguous["tgt"])
      BY <2>1, <2>3, <2>4, <3>1, ReadyIssue
    <3>4. /\ S.names = site.names["src"] /\ S.ambiguous = site.ambiguous["src"]
          /\ T.names = site.names["tgt"] /\ T.ambiguous = site.ambiguous["tgt"]
      BY <2>1, <2>3, <2>4 DEF Ready, Sound
    <3>5. n \in Common(S, T)
      BY <2>6, <3>1 DEF Common
    <3> HIDE DEF S, T, e, g, i, j
    <3>6. /\ \A x \in DOMAIN e.fields : e.fields[x] = g.fields[x]
          /\ e.body = g.body /\ e.files = g.files
          /\ \/ NotChecked(n) \in Compare(S, T)
             \/ /\ Complete(e.comments) /\ Complete(g.comments)
                /\ BagOf(e.comments.items) = BagOf(g.comments.items)
          /\ \A x \in S.ambiguous \cup T.ambiguous : NotCompared(x) \in Compare(S, T)
          /\ \A x \in DOMAIN e.custom :
               /\ x \in DOMAIN g.custom
               /\ e.custom[x].kind = g.custom[x].kind => e.custom[x].fp = g.custom[x].fp
               /\ x \in S.names \cap T.names /\ e.custom[x].kind # g.custom[x].kind =>
                    NotCompared(x) \in Compare(S, T)
      BY <2>2, <3>5, NothingLost DEF e, g
    <3>7. Carried(p, n, i, j)
      BY <2>3, <3>2, <3>3, <3>4, <3>6, AgreeingIsCarried
    <3>8. QED
      BY <2>8, <3>7 DEF i, j
  <2>9. QED
    BY <2>7, <2>8
<1>2. QED
  BY InitHolds, AuditNext, <1>1, PTL DEF Spec
=============================================================================
