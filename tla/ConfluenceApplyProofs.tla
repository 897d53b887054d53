------------------------ MODULE ConfluenceApplyProofs ------------------------
(***************************************************************************)
(* Proofs about ConfluenceApply for every list, page size, selection, pool *)
(* size, threshold and number of faults: type correctness with the tallies *)
(* of the driver, the bound of the breaker, that objects in use are spared *)
(* and that only a torn list makes a closure false.                        *)
(***************************************************************************)
EXTENDS ConfluenceApply, FiniteSetTheorems, SequenceTheorems, WellFoundedInduction, TLAPS

Points == {"queued", "pages", "gate", "write", "record", "done"} \cup Listing
Verdicts == {"none", "closed", "would_close", "still_open", "crashed"}
Lives == {"current", "archived", "gone"}
Row == [name : Name, status : Lives]

-----------------------------------------------------------------------------
(* The offsets of a list.  List shows at offset p the p-th place of Order  *)
(* whose object is shown: that there is one place for every offset, and    *)
(* that a growing list only moves a place up, are facts about finite sets  *)
(* of naturals, proved by the least element of a set.                      *)

\* A set of naturals with an element has a least one.
LEMMA LeastElement ==
  ASSUME NEW T \in SUBSET Nat, T # {}
  PROVE  \E x \in T : \A y \in T : x <= y
<1> DEFINE R == OpToRel(<, Nat)
<1>1. IsWellFoundedOn(R, Nat)
  BY NatLessThanWellFounded
<1>2. \A x, y \in Nat : y < x => <<y, x>> \in R
  BY DEF OpToRel
<1> HIDE DEF R
<1>3. PICK x \in T : \A y \in T : ~ (<<y, x>> \in R)
  BY <1>1, WFMin
<1>4. ASSUME NEW y \in T PROVE x <= y
  <2>1. ~(y < x)
    BY <1>2, <1>3
  <2>2. QED
    BY <2>1
<1>5. QED
  BY <1>4

\* The places shown are a finite set of places of Order.
LEMMA ShownFinite ==
  ASSUME NEW n
  PROVE  /\ Shown(n) \subseteq 1..Len(Order) /\ Len(Order) \in Nat
         /\ IsFiniteSet(Shown(n)) /\ Cardinality(Shown(n)) \in Nat
<1>1. DOMAIN Order = 1..Len(Order) /\ Len(Order) \in Nat
  BY OrderAssumption
<1>2. Shown(n) \subseteq 1..Len(Order)
  BY <1>1 DEF Shown
<1>3. IsFiniteSet(1..Len(Order))
  BY <1>1, FS_Interval
<1>4. QED
  BY <1>1, <1>2, <1>3, FS_Subset, FS_CardinalityType

\* An offset is a natural number that grows with the place.
LEMMA OffsetGrows ==
  ASSUME NEW places, \A k \in places : k \in Nat, IsFiniteSet(places), NEW i \in Nat
  PROVE  /\ IsFiniteSet({k \in places : k <= i})
         /\ Offset(places, i) \in 0..Cardinality(places)
         /\ i \in places => Offset(places, i) >= 1
         /\ \A j \in places : i < j => Offset(places, i) < Offset(places, j)
<1> DEFINE Below(j) == {k \in places : k <= j}
<1>1. \A j : IsFiniteSet(Below(j)) /\ Cardinality(Below(j)) \in Nat
             /\ Cardinality(Below(j)) <= Cardinality(places) /\ Cardinality(places) \in Nat
  <2>1. \A j : Below(j) \in SUBSET places
    OBVIOUS
  <2>2. QED
    BY <2>1, FS_Subset, FS_CardinalityType
<1>2. i \in places => Cardinality(Below(i)) >= 1
  <2>1. Below(i) = {} <=> Cardinality(Below(i)) = 0
    BY <1>1, FS_EmptySet
  <2>2. QED
    BY <1>1, <2>1
<1>3. ASSUME NEW j \in places, i < j
      PROVE  Cardinality(Below(i)) < Cardinality(Below(j))
  <2>1. Below(i) \subseteq Below(j) /\ Below(i) # Below(j)
    <3>1. Below(i) \subseteq Below(j)
      BY <1>3
    <3>2. j \in Below(j) /\ j \notin Below(i)
      BY <1>3
    <3>3. QED
      BY <3>1, <3>2
  <2>2. QED
    BY <1>1, <2>1, FS_Subset, FS_CardinalityType
<1>4. QED
  BY <1>1, <1>2, <1>3 DEF Offset

\* Every offset up to the length of the list has its place.
LEMMA OffsetTaken ==
  ASSUME NEW places, NEW top \in Nat, \A k \in places : k \in 1..top, IsFiniteSet(places),
         NEW p \in 1..Cardinality(places)
  PROVE  \E i \in places : Offset(places, i) = p
<1> DEFINE Below(j) == {k \in places : k <= j}
           Enough == {i \in Nat : Cardinality(Below(i)) >= p}
<1>a. \A k \in places : k \in Nat /\ 1 <= k /\ k <= top
  OBVIOUS
<1>b. Cardinality(places) \in Nat /\ p \in Nat /\ 1 <= p /\ p <= Cardinality(places)
  BY FS_CardinalityType
<1>0. \A j : IsFiniteSet(Below(j)) /\ Cardinality(Below(j)) \in Nat
  <2>1. \A j : Below(j) \in SUBSET places
    OBVIOUS
  <2>2. QED
    BY <2>1, FS_Subset, FS_CardinalityType
<1>1. top \in Enough
  <2>1. Below(top) = places
    BY <1>a
  <2>2. QED
    BY <2>1, <1>b
<1>2. PICK i \in Nat : /\ Cardinality(Below(i)) >= p
                      /\ \A j \in Nat : Cardinality(Below(j)) >= p => i <= j
  <2>1. PICK i \in Enough : \A j \in Enough : i <= j
    BY <1>1, LeastElement
  <2>2. QED
    BY <2>1
<1>3. i # 0
  <2>1. Below(0) = {}
    BY <1>a
  <2>2. QED
    BY <2>1, <1>2, <1>b, FS_EmptySet
<1>4. PICK h \in Nat : i = h + 1 /\ Cardinality(Below(h)) < p
  <2>1. PICK h \in Nat : i = h + 1
    BY <1>2, <1>3
  <2>2. ~ (Cardinality(Below(h)) >= p)
    <3>1. ~ (i <= h)
      BY <2>1
    <3>2. QED
      BY <1>2, <3>1
  <2>3. Cardinality(Below(h)) < p
    <3>1. Cardinality(Below(h)) \in Nat
      BY <1>0
    <3>2. QED
      BY <3>1, <1>b, <2>2
  <2>4. QED
    BY <2>1, <2>3
<1>5. i \in places /\ Cardinality(Below(i)) <= Cardinality(Below(h)) + 1
  <2>1. CASE i \notin places
    <3>1. Below(i) = Below(h)
      BY <2>1, <1>4, <1>a
    <3>2. QED
      BY <3>1, <1>0, <1>4, <1>b, <1>2
  <2>2. CASE i \in places
    <3>1. ASSUME NEW k \in places PROVE k <= i <=> k <= h \/ k = i
      BY <1>4, <1>a
    <3>2. Below(i) = Below(h) \cup {i}
      <4>1. i <= i
        OBVIOUS
      <4>2. QED
        BY <2>2, <3>1, <4>1, Zenon
    <3>3. i \notin Below(h)
      BY <1>4
    <3>4. Cardinality(Below(i)) = Cardinality(Below(h)) + 1
      <4> HIDE DEF Below
      <4>1. Cardinality(Below(h) \cup {i}) = Cardinality(Below(h)) + 1
        BY <3>3, <1>0, FS_AddElement
      <4>2. QED
        BY <3>2, <4>1
    <3>5. QED
      BY <2>2, <3>4, <1>0
  <2>3. QED
    BY <2>1, <2>2
<1>6. Cardinality(Below(i)) = p
  <2>1. Cardinality(Below(i)) \in Nat /\ Cardinality(Below(h)) \in Nat
    BY <1>0
  <2>2. QED
    BY <2>1, <1>2, <1>4, <1>5, <1>b
<1>7. QED
  BY <1>5, <1>6 DEF Offset

\* More places before it only move a place to a later offset.
LEMMA OffsetMonotone ==
  ASSUME NEW more, NEW places, IsFiniteSet(more), places \subseteq more, NEW i
  PROVE  Offset(places, i) <= Offset(more, i) /\ Offset(places, i) \in Nat /\ Offset(more, i) \in Nat
<1>1. {k \in places : k <= i} \subseteq {k \in more : k <= i} /\ {k \in more : k <= i} \subseteq more
  OBVIOUS
<1>2. IsFiniteSet({k \in more : k <= i})
  BY <1>1, FS_Subset
<1>3. QED
  BY <1>1, <1>2, FS_Subset, FS_CardinalityType DEF Offset

\* What List shows: names of Name, and every place that is shown at its own offset.
LEMMA ListProperties ==
  ASSUME NEW n
  PROVE  /\ List(n) \in Seq(Name) /\ Len(List(n)) = Cardinality(Shown(n))
         /\ \A k \in Shown(n) : /\ Offset(Shown(n), k) \in 1..Len(List(n))
                                /\ List(n)[Offset(Shown(n), k)] = Order[k]
<1> DEFINE shown == Shown(n)
           place(p) == CHOOSE i \in shown : Offset(shown, i) = p
<1>1. /\ \A k \in shown : k \in Nat /\ k \in 1..Len(Order)
      /\ IsFiniteSet(shown) /\ Cardinality(shown) \in Nat /\ Len(Order) \in Nat
  BY ShownFinite
<1>2. \A p \in 1..Cardinality(shown) : place(p) \in shown /\ Offset(shown, place(p)) = p
  BY <1>1, OffsetTaken
<1>3. \A i \in shown : Order[i] \in Name
  <2>1. \A i \in 1..Len(Order) : Order[i] \in Name
    BY OrderAssumption
  <2>2. QED
    BY <1>1, <2>1
<1>4. List(n) = [p \in 1..Cardinality(shown) |-> Order[place(p)]]
  BY DEF List
<1>5. List(n) \in Seq(Name) /\ Len(List(n)) = Cardinality(shown)
  BY <1>1, <1>2, <1>3, <1>4
<1>6. ASSUME NEW k \in shown
      PROVE  Offset(shown, k) \in 1..Cardinality(shown) /\ place(Offset(shown, k)) = k
  <2>1. Offset(shown, k) \in 1..Cardinality(shown)
    <3>1. Offset(shown, k) \in 0..Cardinality(shown) /\ Offset(shown, k) >= 1
      BY <1>1, OffsetGrows
    <3>2. QED
      BY <1>1, <3>1
  <2>2. PICK i \in shown : i = place(Offset(shown, k)) /\ Offset(shown, i) = Offset(shown, k)
    BY <2>1, <1>2
  <2>3. ~(i < k) /\ ~(k < i)
    <3>1. i \in Nat /\ k \in Nat
      BY <1>1
    <3>2. i < k => Offset(shown, i) < Offset(shown, k)
      BY <1>1, <3>1, OffsetGrows
    <3>3. k < i => Offset(shown, k) < Offset(shown, i)
      BY <1>1, <3>1, OffsetGrows
    <3>4. QED
      BY <2>1, <2>2, <3>2, <3>3
  <2>4. QED
    BY <1>1, <2>1, <2>2, <2>3
<1>7. ASSUME NEW k \in shown
      PROVE  /\ Offset(shown, k) \in 1..Len(List(n))
             /\ List(n)[Offset(shown, k)] = Order[k]
  <2>1. Offset(shown, k) \in 1..Cardinality(shown)
    BY <1>6
  <2>2. List(n)[Offset(shown, k)] = Order[place(Offset(shown, k))]
    BY <2>1, <1>4
  <2>3. QED
    BY <2>1, <2>2, <1>5, <1>6
<1>8. QED
  BY <1>5, <1>7
-----------------------------------------------------------------------------
(* The inductive invariant: TypeOK and the four parts below.              *)

\* The tasks of the batch are taken in order, and a task has a verdict when it is done.
Schedule ==
  /\ batch \in Seq(Name) /\ Len(batch) <= MaxTasks
  /\ next \in 1..Len(batch) + 1 /\ (phase = "idle" => next = 1)
  /\ seen \in [Task -> Seq(Row)]
  /\ \A t \in Task : /\ pc[t] = "queued" <=> next <= t
                     /\ pc[t] = "done" <=> verdict[t] # "none"
                     /\ pc[t] \notin Listing => seen[t] = <<>>

\* An object held by a task is inhabited, and no task past the emptiness check is held.
Spared ==
  /\ \A t \in held : t \in Task /\ pc[t] # "queued" /\ batch[t] \in inhabited
  /\ \A t \in Task : pc[t] \in {"gate", "write"} => t \notin held
  /\ SparesInhabited

InFlight == {t \in Running : pc[t] \in {"write", "record"}}
BreakerInv ==
  /\ Cardinality(Running) <= Workers
  /\ Threshold > 0 => /\ ~tripped => failures <= Threshold - 1
                      /\ failures + Cardinality(InFlight) <= Threshold + Workers - 1

\* A row of the object that task t is about, read or still to be read.
Read(t) == \E i \in DOMAIN seen[t] : seen[t][i].name = batch[t]
Ahead(t) ==
  \E k \in Shown(batch[t]) : Order[k] = batch[t] /\ Offset(Shown(batch[t]), k) > Len(seen[t])

\* What a running task whose object stood all the time, and whose list is not torn, has read.
HonestTask(t) ==
  /\ t \notin settled => Current(life, t)
  /\ pc[t] \in Listing /\ t \notin settled \cup torn =>
       /\ \A i \in DOMAIN seen[t] : seen[t][i].name = batch[t] => seen[t][i].status = "current"
       /\ Read(t) \/ Ahead(t)
Honest == (\A t \in Running : HonestTask(t)) /\ FalselyClosedIfTorn
-----------------------------------------------------------------------------
(* Pages.                                                                  *)

\* The rows of the whole list of a task.
LEMMA RowsProperties ==
  ASSUME NEW t, batch[t] \in Name, life \in [Name -> Lives]
  PROVE  /\ Rows(t) \in Seq(Row) /\ Len(Rows(t)) = Len(List(batch[t]))
         /\ \A i \in 1..Len(Rows(t)) : /\ Rows(t)[i].name = List(batch[t])[i]
                                      /\ Rows(t)[i].status = life[List(batch[t])[i]]
<1> DEFINE list == List(batch[t])
<1>1. list \in Seq(Name) /\ Len(list) \in Nat /\ DOMAIN list = 1..Len(list)
      /\ \A i \in 1..Len(list) : list[i] \in Name
  BY ListProperties
<1>2. Rows(t) = [i \in 1..Len(list) |-> [name |-> list[i], status |-> life[list[i]]]]
  BY <1>1 DEF Rows
<1> HIDE DEF list
<1>3. \A i \in 1..Len(list) : [name |-> list[i], status |-> life[list[i]]] \in Row
  BY <1>1 DEF Row
<1>4. Rows(t) \in Seq(Row) /\ Len(Rows(t)) = Len(list)
  BY <1>1, <1>2, <1>3
<1>5. QED
  BY <1>2, <1>4 DEF list

\* A page holds rows of the list, and all those at the offsets it covers.
LEMMA PageProperties ==
  ASSUME NEW t, batch[t] \in Name, life \in [Name -> Lives], seen[t] \in Seq(Row)
  PROVE  /\ Page(t) \in Seq(Row)
         /\ \A i \in 1..Len(Page(t)) : \E j \in 1..Len(Rows(t)) : Page(t)[i] = Rows(t)[j]
         /\ \A j \in 1..Len(Rows(t)) : j > Len(seen[t]) =>
              \/ \E i \in 1..Len(Page(t)) : Page(t)[i] = Rows(t)[j]
              \/ More(t) /\ j > Len(seen[t]) + Len(Page(t))
<1> DEFINE rows == Rows(t)
           from == Len(seen[t])
           to == IF from + PageSize < Len(rows) THEN from + PageSize ELSE Len(rows)
<1>1. rows \in Seq(Row) /\ from \in Nat /\ Len(rows) \in Nat /\ PageSize \in Nat
  BY RowsProperties, PageSizeAssumption
<1>2. to \in Nat /\ to <= Len(rows) /\ (to = Len(rows) \/ (from + PageSize < Len(rows) /\ to = from + PageSize))
  BY <1>1
<1>3. Page(t) = SubSeq(rows, from + 1, to)
  BY DEF Page
<1>4. More(t) <=> from + PageSize < Len(rows)
  BY DEF More
<1> HIDE DEF rows, from, to
<1>5. \A i \in from + 1..to : rows[i] \in Row
  BY <1>1, <1>2
<1>6. /\ Page(t) \in Seq(Row) /\ Len(Page(t)) = (IF from + 1 <= to THEN to - (from + 1) + 1 ELSE 0)
      /\ \A i \in 1..to - (from + 1) + 1 : Page(t)[i] = rows[from + 1 + i - 1]
  BY <1>1, <1>2, <1>3, <1>5, SubSeqProperties
<1>7. ASSUME NEW i \in 1..Len(Page(t))
      PROVE  \E j \in 1..Len(rows) : Page(t)[i] = rows[j]
  <2>1. i \in 1..to - (from + 1) + 1 /\ from + 1 + i - 1 \in 1..Len(rows)
    BY <1>1, <1>2, <1>6
  <2>2. QED
    BY <2>1, <1>6
<1>8. ASSUME NEW j \in 1..Len(rows), j > from, ~(More(t) /\ j > from + Len(Page(t)))
      PROVE  \E i \in 1..Len(Page(t)) : Page(t)[i] = rows[j]
  <2>1. j <= to
    BY <1>1, <1>2, <1>4, <1>6, <1>8
  <2>2. j - from \in 1..to - (from + 1) + 1 /\ j - from \in 1..Len(Page(t)) /\ from + 1 + (j - from) - 1 = j
    BY <1>1, <1>2, <1>6, <1>8, <2>1
  <2>3. Page(t)[j - from] = rows[j]
    BY <2>2, <1>6
  <2>4. QED
    BY <2>2, <2>3
<1>9. QED
  BY <1>6, <1>7, <1>8 DEF rows, from

\* A page more keeps what the rows of a task whose object stands say of it.
LEMMA HonestPage ==
  ASSUME NEW t, batch[t] \in Name, life \in [Name -> Lives], seen[t] \in Seq(Row), Current(life, t),
         \A i \in DOMAIN seen[t] : seen[t][i].name = batch[t] => seen[t][i].status = "current",
         Read(t) \/ Ahead(t)
  PROVE  LET rows == seen[t] \o Page(t) IN
         /\ rows \in Seq(Row)
         /\ \A i \in DOMAIN rows : rows[i].name = batch[t] => rows[i].status = "current"
         /\ \/ \E i \in DOMAIN rows : rows[i].name = batch[t]
            \/ More(t) /\ \E k \in Shown(batch[t]) : /\ Order[k] = batch[t]
                                                    /\ Offset(Shown(batch[t]), k) > Len(rows)
<1> DEFINE rows == seen[t] \o Page(t)
<1>1. /\ rows \in Seq(Row) /\ Len(rows) = Len(seen[t]) + Len(Page(t))
      /\ \A i \in 1..Len(rows) :
           rows[i] = IF i <= Len(seen[t]) THEN seen[t][i] ELSE Page(t)[i - Len(seen[t])]
  BY PageProperties, ConcatProperties
<1>2. DOMAIN rows = 1..Len(rows) /\ DOMAIN seen[t] = 1..Len(seen[t])
      /\ Len(seen[t]) \in Nat /\ Len(Page(t)) \in Nat /\ Len(rows) \in Nat
  BY <1>1, PageProperties
<1> HIDE DEF rows
<1>3. ASSUME NEW i \in 1..Len(rows), rows[i].name = batch[t]
      PROVE  rows[i].status = "current"
  <2>1. CASE i <= Len(seen[t])
    BY <2>1, <1>1, <1>2, <1>3
  <2>2. CASE ~(i <= Len(seen[t]))
    <3>1. i - Len(seen[t]) \in 1..Len(Page(t)) /\ rows[i] = Page(t)[i - Len(seen[t])]
      <4>1. i - Len(seen[t]) \in 1..Len(Page(t))
        BY <2>2, <1>1, <1>2
      <4>2. QED
        BY <4>1, <2>2, <1>1
    <3>2. PICK j \in 1..Len(Rows(t)) : rows[i] = Rows(t)[j]
      BY <3>1, PageProperties
    <3>3. Rows(t)[j].status = life[Rows(t)[j].name]
      BY RowsProperties
    <3>4. QED
      BY <3>2, <3>3, <1>3 DEF Current
  <2>3. QED
    BY <2>1, <2>2
<1>4. ASSUME NEW i \in 1..Len(seen[t]), seen[t][i].name = batch[t]
      PROVE  \E j \in 1..Len(rows) : rows[j].name = batch[t]
  <2>1. i \in 1..Len(rows) /\ rows[i] = seen[t][i]
    BY <1>1, <1>2
  <2>2. QED
    BY <2>1, <1>4
<1>5. ASSUME Ahead(t)
      PROVE  \/ \E i \in 1..Len(rows) : rows[i].name = batch[t]
             \/ More(t) /\ \E k \in Shown(batch[t]) : /\ Order[k] = batch[t]
                                                     /\ Offset(Shown(batch[t]), k) > Len(rows)
  <2>1. PICK k \in Shown(batch[t]) : Order[k] = batch[t] /\ Offset(Shown(batch[t]), k) > Len(seen[t])
    BY <1>5 DEF Ahead
  <2> DEFINE p == Offset(Shown(batch[t]), k)
  <2>2. p \in 1..Len(Rows(t)) /\ List(batch[t])[p] = batch[t]
    BY <2>1, ListProperties, RowsProperties
  <2> HIDE DEF p
  <2>3. Rows(t)[p].name = batch[t]
    BY <2>2, RowsProperties
  <2>4. CASE \E i \in 1..Len(Page(t)) : Page(t)[i] = Rows(t)[p]
    <3>1. PICK i \in 1..Len(Page(t)) : Page(t)[i] = Rows(t)[p]
      BY <2>4
    <3>2. i + Len(seen[t]) \in 1..Len(rows) /\ rows[i + Len(seen[t])] = Page(t)[i]
      <4>1. i + Len(seen[t]) \in 1..Len(rows) /\ ~(i + Len(seen[t]) <= Len(seen[t]))
            /\ i + Len(seen[t]) - Len(seen[t]) = i
        BY <1>1, <1>2
      <4>2. QED
        BY <4>1, <1>1
    <3>3. QED
      BY <3>1, <3>2, <2>3
  <2>5. CASE More(t) /\ p > Len(seen[t]) + Len(Page(t))
    BY <2>5, <2>1, <1>1 DEF p
  <2>6. QED
    <3>1. p > Len(seen[t])
      BY <2>1 DEF p
    <3>2. QED
      BY <2>2, <2>4, <2>5, <3>1, PageProperties
<1>6. QED
  BY <1>1, <1>2, <1>3, <1>4, <1>5 DEF Read, rows
-----------------------------------------------------------------------------
(* The steps of a task.                                                    *)

\* The names of the running tasks are those of the batch.
LEMMA RunningInBatch ==
  ASSUME TypeOK, Schedule, NEW t \in Running
  PROVE  t \in Task /\ t \in DOMAIN batch /\ batch[t] \in Name
<1>1. t \in Task /\ t \in Nat /\ t >= 1 /\ pc[t] # "queued"
  BY DEF Running, Task
<1>2. t < next
  BY <1>1 DEF Schedule, Task
<1>3. t \in 1..Len(batch)
  BY <1>1, <1>2 DEF Schedule
<1>4. QED
  BY <1>1, <1>3 DEF Schedule

\* A task that has read the whole list calls its object closed only if no row names it, or one
\* that does is archived; it goes on to the gate only if its object is uninhabited.
LEMMA ListReadOutcome ==
  ASSUME NEW t, NEW rows \in Seq(Row), pc[t] \in Listing, ListRead(t, rows)
  PROVE  \/ \E v \in {"still_open", "crashed"} : Return(t, v)
         \/ /\ Return(t, "closed")
            /\ (\E i \in DOMAIN rows : rows[i].name = batch[t])
                 => \E i \in DOMAIN rows : rows[i].name = batch[t] /\ rows[i].status = "archived"
         \/ pc[t] = "resolve" /\ (GoTo(t, "pages") \/ GoTo(t, "members"))
         \/ GoTo(t, "gate") /\ batch[t] \notin inhabited
<1> DEFINE found == Matches(t, rows)
<1>0. DOMAIN rows \subseteq Nat /\ found = {i \in DOMAIN rows : rows[i].name = batch[t]}
  BY DEF Matches
<1>1. CASE pc[t] = "resolve" /\ Resolve(t, rows)
  <2>1. CASE found = {} /\ Emit(t, "closed")
    BY <2>1, <1>0 DEF Emit
  <2>2. CASE Cardinality(found) > 1 /\ Emit(t, "still_open")
    BY <2>2 DEF Emit
  <2>3. CASE (\E i \in found : rows[i].status = "archived") /\ Emit(t, "closed")
    BY <2>3, <1>0 DEF Emit
  <2>4. CASE GoTo(t, IF batch[t] \in Space THEN "pages" ELSE "members")
    BY <1>1, <2>4
  <2>5. QED
    BY <1>1, <2>1, <2>2, <2>3, <2>4 DEF Resolve
<1>2. CASE Members(t, rows)
  BY <1>2 DEF Members, Emit
<1>3. CASE Confirm(t, rows)
  <2>1. CASE Emit(t, "still_open")
    BY <2>1 DEF Emit
  <2>2. ASSUME Return(t, "closed"), found # {},
               \A i \in found : (\A j \in found : i <= j) => rows[i].status = "archived"
        PROVE  \E i \in found : rows[i].status = "archived"
    <3>1. PICK i \in found : \A j \in found : i <= j
      BY <1>0, <2>2, LeastElement
    <3>2. QED
      BY <2>2, <3>1
  <2>3. QED
    BY <1>0, <1>3, <2>1, <2>2 DEF Confirm
<1>4. QED
  BY <1>1, <1>2, <1>3 DEF ListRead, Listing

\* What one step of a task does to the task: it returns, goes on, reads a page or writes.
LEMMA TaskStepMoves ==
  ASSUME NEW t \in Task, TaskStep(t), TypeOK, Schedule
  PROVE  /\ t \in Running /\ phase = "running" /\ UNCHANGED driver
         /\ \/ \E v \in Verdicts \ {"none"} : Return(t, v)
            \/ \E point \in Points \ {"queued", "done"} : GoTo(t, point)
            \/ /\ pc[t] \in Listing /\ UNCHANGED <<pc, verdict>>
               /\ seen' = [seen EXCEPT ![t] = @ \o Page(t)]
            \/ /\ pc[t] = "write" /\ pc' = [pc EXCEPT ![t] = "record"]
               /\ UNCHANGED <<seen, verdict>>
<1> DEFINE Outcome ==
       \/ \E v \in Verdicts \ {"none"} : Return(t, v)
       \/ \E point \in Points \ {"queued", "done"} : GoTo(t, point)
<1>1. CASE ReadPage(t)
  <2>1. t \in Running /\ phase = "running" /\ UNCHANGED driver /\ pc[t] \in Listing
    BY <1>1 DEF ReadPage, Running, Listing
  <2>2. seen[t] \o Page(t) \in Seq(Row)
    <3>1. Page(t) \in Seq(Row) /\ seen[t] \in Seq(Row)
      BY <2>1, RunningInBatch, PageProperties DEF TypeOK, Schedule, Lives
    <3>2. QED
      BY <3>1, ConcatProperties
  <2>3. CASE ListRead(t, seen[t] \o Page(t))
    <3>1. Outcome
      BY <2>1, <2>2, <2>3, ListReadOutcome DEF Verdicts, Points, Listing
    <3>2. QED
      BY <2>1, <3>1
  <2>4. QED
    BY <1>1, <2>1, <2>3 DEF ReadPage
<1>2. CASE ReadFails(t)
  <2>1. t \in Running /\ phase = "running" /\ UNCHANGED driver /\ pc[t] \in Listing
    BY <1>2 DEF ReadFails, Running, Listing
  <2>2. CASE ListRead(t, seen[t])
    <3>1. seen[t] \in Seq(Row)
      BY DEF Schedule
    <3>2. Outcome
      BY <2>1, <2>2, <3>1, ListReadOutcome DEF Verdicts, Points, Listing
    <3>3. QED
      BY <2>1, <3>2
  <2>3. QED
    BY <1>2, <2>1, <2>2 DEF ReadFails, Verdicts
<1>3. CASE CountPages(t)
  BY <1>3 DEF CountPages, At, Emit, Verdicts, Points, Running
<1>4. CASE Gate(t)
  BY <1>4 DEF Gate, At, Emit, Verdicts, Points, Running
<1>5. CASE Write(t)
  BY <1>5 DEF Write, At, Running, driver
<1>6. CASE Record(t)
  <2>1. GoTo(t, "confirm") \/ Return(t, "crashed") \/ Return(t, "still_open")
    BY <1>6 DEF Record, Emit
  <2>2. t \in Running /\ phase = "running" /\ UNCHANGED driver
    BY <1>6 DEF Record, At, Running
  <2>3. QED
    BY <2>1, <2>2 DEF Verdicts, Points, Listing
<1>7. CASE Raise(t)
  BY <1>7 DEF Raise, Verdicts
<1>8. QED
  BY <1>1, <1>2, <1>3, <1>4, <1>5, <1>6, <1>7 DEF TaskStep

\* A step of a task leaves the other tasks where they are, and its own no longer queued.
LEMMA TaskStepFrame ==
  ASSUME NEW t \in Task, TaskStep(t), TypeOK, Schedule
  PROVE  /\ pc[t] \notin {"queued", "done"} /\ pc'[t] \in Points \ {"queued"}
         /\ pc' \in [Task -> Points] /\ verdict' \in [Task -> Verdicts]
         /\ (pc'[t] = "done" <=> verdict'[t] # "none")
         /\ seen' \in [Task -> Seq(Row)] /\ (pc'[t] \notin Listing => seen'[t] = <<>>)
         /\ \A u \in Task \ {t} : pc'[u] = pc[u] /\ seen'[u] = seen[u] /\ verdict'[u] = verdict[u]
<1>1. /\ pc \in [Task -> Points] /\ verdict \in [Task -> Verdicts] /\ seen \in [Task -> Seq(Row)]
      /\ pc[t] \notin {"queued", "done"} /\ verdict[t] = "none"
      /\ (pc[t] \notin Listing => seen[t] = <<>>)
  BY TaskStepMoves DEF TypeOK, Schedule, Points, Verdicts, Running
<1>2. CASE \E v \in Verdicts \ {"none"} : Return(t, v)
  BY <1>1, <1>2 DEF Return, Points
<1>3. CASE \E point \in Points \ {"queued", "done"} : GoTo(t, point)
  BY <1>1, <1>3 DEF GoTo
<1>4. CASE /\ pc[t] \in Listing /\ UNCHANGED <<pc, verdict>>
           /\ seen' = [seen EXCEPT ![t] = @ \o Page(t)]
  <2>1. seen[t] \o Page(t) \in Seq(Row)
    <3>1. Page(t) \in Seq(Row) /\ seen[t] \in Seq(Row)
      BY TaskStepMoves, RunningInBatch, PageProperties DEF TypeOK, Schedule, Lives
    <3>2. QED
      BY <3>1, ConcatProperties
  <2>2. QED
    BY <1>1, <1>4, <2>1
<1>5. CASE /\ pc[t] = "write" /\ pc' = [pc EXCEPT ![t] = "record"]
           /\ UNCHANGED <<seen, verdict>>
  BY <1>1, <1>5 DEF Points, Listing
<1>6. QED
  BY <1>2, <1>3, <1>4, <1>5, TaskStepMoves
-----------------------------------------------------------------------------
(* Type correctness, and the tallies of a batch that returned.             *)

LEMMA TypeInit == Init => TypeOK /\ Schedule
<1> SUFFICES ASSUME Init PROVE TypeOK /\ Schedule
  OBVIOUS
<1>1. life \in [Name -> Lives] /\ inhabited \subseteq Name
  BY DEF Init, Lives
<1>2. /\ pc \in [Task -> Points] /\ verdict \in [Task -> Verdicts]
      /\ status \in [Task -> {"none", "2xx", "4xx", "5xx"}]
      /\ taken \in [Task -> {"none", "free", "held"}]
  BY DEF Init, Points, Verdicts
<1>3. seen \in [Task -> Seq(Row)]
  <2>1. <<>> \in Seq(Row)
    OBVIOUS
  <2>2. QED
    BY <2>1 DEF Init
<1>4. TypeOK
  BY <1>1, <1>2 DEF Init, TypeOK, Lives, Points, Verdicts
<1>5. \A t \in Task : next <= t /\ pc[t] = "queued" /\ verdict[t] = "none" /\ seen[t] = <<>>
  BY DEF Init, Task
<1>6. QED
  BY <1>3, <1>4, <1>5, MaxTasksAssumption DEF Schedule, Init

LEMMA TypeTaskStep ==
  ASSUME TypeOK, Schedule, NEW t \in Task, TaskStep(t)
  PROVE  TypeOK' /\ Schedule'
<1>1. phase = "running" /\ UNCHANGED driver
  BY TaskStepMoves
<1>2. status' \in [Task -> {"none", "2xx", "4xx", "5xx"}]
  <2>1. CASE UNCHANGED status
    BY <2>1 DEF TypeOK
  <2>2. CASE \E st \in {"none", "2xx", "4xx", "5xx"} : status' = [status EXCEPT ![t] = st]
    BY <2>2 DEF TypeOK
  <2>3. QED
    BY <2>1, <2>2 DEF TaskStep, ReadPage, ReadFails, CountPages, Gate, Write, Record, Raise
<1>3. failures' \in Nat /\ tripped' \in BOOLEAN
  <2>1. CASE UNCHANGED breaker
    BY <2>1 DEF TypeOK, breaker
  <2>2. CASE CountFailure(status[t])
    <3>1. CASE Threshold > 0 /\ status[t] = "5xx"
      <4>1. tripped' = (tripped \/ failures + 1 >= Threshold)
        BY <2>2, <3>1 DEF CountFailure
      <4>2. tripped' \in BOOLEAN
        BY <4>1, Zenon
      <4>3. QED
        BY <2>2, <3>1, <4>2 DEF CountFailure, TypeOK
    <3>2. QED
      BY <2>1, <2>2, <3>1 DEF CountFailure
  <2>3. QED
    BY <2>1, <2>2 DEF TaskStep, ReadPage, ReadFails, CountPages, Gate, Write, Record, Raise
<1>4. /\ life' \in [Name -> {"current", "archived", "gone"}] /\ inhabited' \subseteq Name
      /\ taken' \in [Task -> {"none", "free", "held"}]
  <2>1. CASE UNCHANGED <<wiki, taken>>
    BY <2>1 DEF TypeOK, wiki
  <2>2. CASE Write(t)
    BY <2>2 DEF Write, Settle, TypeOK, wiki, history
  <2>3. QED
    BY <2>1, <2>2 DEF TaskStep, ReadPage, ReadFails, CountPages, Gate, Record, Raise, history
<1>5. TypeOK'
  BY <1>1, <1>2, <1>3, <1>4, TaskStepFrame DEF TypeOK, driver, Points, Verdicts
<1>6. ASSUME NEW u \in Task
      PROVE  /\ pc'[u] = "queued" <=> next' <= u
             /\ pc'[u] = "done" <=> verdict'[u] # "none"
             /\ pc'[u] \notin Listing => seen'[u] = <<>>
  <2>1. CASE u = t
    BY <2>1, <1>1, TaskStepFrame DEF Schedule, driver
  <2>2. CASE u # t
    BY <2>2, <1>1, TaskStepFrame DEF Schedule, driver
  <2>3. QED
    BY <2>1, <2>2
<1>7. QED
  BY <1>1, <1>5, <1>6, TaskStepFrame DEF Schedule, driver

\* When no task is left, the two tallies add up to the batch.
LEMMA TallyTotal ==
  ASSUME TypeOK, Schedule, next > Len(batch), Running = {}
  PROVE  Tally({"closed", "would_close"}) + Tally({"still_open", "crashed"}) = Len(batch)
<1> DEFINE good == {t \in DOMAIN batch : verdict[t] \in {"closed", "would_close"}}
           bad == {t \in DOMAIN batch : verdict[t] \in {"still_open", "crashed"}}
<1>1. Len(batch) \in Nat /\ DOMAIN batch = 1..Len(batch) /\ DOMAIN batch \subseteq Task
  BY MaxTasksAssumption DEF Schedule, Task
<1>2. \A t \in DOMAIN batch : verdict[t] \in Verdicts \ {"none"}
  <2> SUFFICES ASSUME NEW t \in DOMAIN batch PROVE verdict[t] \in Verdicts \ {"none"}
    OBVIOUS
  <2>1. t \in Task /\ t < next
    BY <1>1 DEF Schedule
  <2>2. pc[t] # "queued"
    BY <2>1, <1>1 DEF Schedule, Task
  <2>3. pc[t] = "done"
    BY <2>1, <2>2 DEF Running
  <2>4. QED
    BY <2>1, <2>3 DEF Schedule, TypeOK, Verdicts
<1>3. good \cup bad = DOMAIN batch /\ good \cap bad = {}
  BY <1>2 DEF Verdicts
<1>4. IsFiniteSet(DOMAIN batch) /\ Cardinality(DOMAIN batch) = Len(batch)
  BY <1>1, FS_Interval
<1>5. IsFiniteSet(good) /\ IsFiniteSet(bad)
  BY <1>4, FS_Subset
<1>6. Cardinality(good) \in Nat /\ Cardinality(bad) \in Nat
  BY <1>5, FS_CardinalityType
<1> HIDE DEF good, bad
<1>7. Cardinality(good \cup bad) = Cardinality(good) + Cardinality(bad) - Cardinality(good \cap bad)
  BY <1>5, FS_Union
<1>8. Cardinality(good \cap bad) = 0
  BY <1>3, FS_EmptySet
<1>9. Cardinality(good) + Cardinality(bad) = Len(batch)
  BY <1>3, <1>4, <1>6, <1>7, <1>8
<1>10. QED
  BY <1>9 DEF Tally, good, bad

LEMMA TypeNext == TypeOK /\ Schedule /\ [Next]_vars => TypeOK' /\ Schedule'
<1> SUFFICES ASSUME TypeOK, Schedule, [Next]_vars PROVE TypeOK' /\ Schedule'
  OBVIOUS
<1> USE DEF driver, breaker, wiki, history
<1>1. CASE Begin
  <2>1. batch' \in Seq(Name) /\ Len(batch') <= MaxTasks /\ Len(batch') \in Nat
    BY <1>1, BatchesAssumption DEF Begin
  <2>2. phase' \in {"refused", "running"}
    BY <1>1 DEF Begin
  <2>3. next' \in 1..Len(batch') + 1
    BY <1>1, <2>1 DEF Begin, Schedule
  <2>4. QED
    BY <1>1, <2>1, <2>2, <2>3 DEF Begin, TypeOK, Schedule
<1>2. ASSUME NEW t \in Task, Start(t) PROVE TypeOK' /\ Schedule'
  <2>1. TypeOK'
    BY <1>2 DEF Start, TypeOK, Listing
  <2>2. next' \in 1..Len(batch) + 1
    BY <1>2 DEF Start, Schedule
  <2>3. ASSUME NEW u \in Task
        PROVE  /\ pc'[u] = "queued" <=> next' <= u
               /\ pc'[u] = "done" <=> verdict'[u] # "none"
               /\ pc'[u] \notin Listing => seen'[u] = <<>>
    <3>1. CASE u = t
      BY <3>1, <1>2 DEF Start, TypeOK, Schedule, Task, Listing
    <3>2. CASE u # t
      BY <3>2, <1>2 DEF Start, TypeOK, Schedule, Task
    <3>3. QED
      BY <3>1, <3>2
  <2>4. QED
    BY <1>2, <2>1, <2>2, <2>3 DEF Start, Schedule
<1>3. ASSUME NEW t \in Task, TaskStep(t) PROVE TypeOK' /\ Schedule'
  BY <1>3, TypeTaskStep
<1>4. CASE Merge
  <2>1. Schedule'
    BY <1>4 DEF Merge, Schedule
  <2>2. TypeOK'
    BY <1>4, TallyTotal DEF Merge, TypeOK
  <2>3. QED
    BY <2>1, <2>2
<1>5. CASE OthersAct
  <2>1. life' \in [Name -> {"current", "archived", "gone"}] /\ inhabited' \subseteq Name
    <3>1. PICK n \in ToSet(Order) :
            \/ UNCHANGED life /\ inhabited' \in {inhabited \ {n}, inhabited \cup {n}}
            \/ life' = [life EXCEPT ![n] = "gone"] /\ inhabited' = inhabited \ {n}
            \/ life' = [life EXCEPT ![n] = "current"] /\ UNCHANGED inhabited
      BY <1>5 DEF OthersAct
    <3>2. n \in Name
      BY <3>1, OrderAssumption
    <3>3. QED
      BY <3>1, <3>2 DEF TypeOK
  <2>2. QED
    BY <1>5, <2>1 DEF OthersAct, TypeOK, Schedule
<1>6. CASE UNCHANGED vars
  BY <1>6 DEF vars, TypeOK, Schedule
<1>7. QED
  BY <1>1, <1>2, <1>3, <1>4, <1>5, <1>6 DEF Next

\* Every reachable state of every instance is well typed, and a batch that returned counted
\* each of its findings once.
THEOREM TypeCorrect == Spec => []TypeOK
<1>1. Spec => [](TypeOK /\ Schedule)
  BY TypeInit, TypeNext, PTL DEF Spec
<1>2. QED
  BY <1>1, PTL
-----------------------------------------------------------------------------
(* Objects in use are spared.  SparesInhabited is not inductive: whether   *)
(* the write of a task takes effect on an object in use is decided by what *)
(* the task read before, so the invariant says that no task held to an     *)
(* object in use has passed the emptiness check.                           *)

\* A task that comes to the gate found its object uninhabited.
LEMMA GateOutcome ==
  ASSUME TypeOK, Schedule, NEW t \in Task, TaskStep(t), pc'[t] = "gate", pc[t] # "gate"
  PROVE  batch[t] \notin inhabited
<1> USE DEF Return, GoTo, TypeOK
<1>1. pc \in [Task -> Points]
  BY DEF Points
<1>2. ASSUME NEW rows \in Seq(Row), pc[t] \in Listing, ListRead(t, rows)
      PROVE  batch[t] \notin inhabited
  BY <1>1, <1>2, ListReadOutcome
<1>3. CASE ReadPage(t)
  <2>1. seen[t] \o Page(t) \in Seq(Row)
    <3>1. Page(t) \in Seq(Row) /\ seen[t] \in Seq(Row)
      BY <1>3, TaskStepMoves, RunningInBatch, PageProperties DEF Schedule, Lives
    <3>2. QED
      BY <3>1, ConcatProperties
  <2>2. QED
    BY <1>2, <1>3, <2>1 DEF ReadPage
<1>4. CASE ReadFails(t)
  BY <1>1, <1>2, <1>4 DEF ReadFails, Schedule
<1>5. CASE CountPages(t)
  BY <1>1, <1>5 DEF CountPages, Emit
<1>6. CASE Gate(t)
  BY <1>6 DEF Gate, At
<1>7. CASE Write(t)
  BY <1>1, <1>7 DEF Write
<1>8. CASE Record(t)
  BY <1>1, <1>8 DEF Record, Emit
<1>9. CASE Raise(t)
  BY <1>1, <1>9 DEF Raise
<1>10. QED
  BY <1>3, <1>4, <1>5, <1>6, <1>7, <1>8, <1>9 DEF TaskStep

\* Only the gate of an untripped breaker leads to the write, and only the write to its report.
LEMMA WriteFromGate ==
  ASSUME TypeOK, Schedule, NEW t \in Task, TaskStep(t)
  PROVE  /\ pc'[t] = "write" => pc[t] = "gate" /\ ~tripped
         /\ pc'[t] = "record" => pc[t] = "write"
<1> USE DEF Return, GoTo, TypeOK
<1>1. pc \in [Task -> Points]
  BY DEF Points
<1>2. ASSUME NEW rows \in Seq(Row), pc[t] \in Listing, ListRead(t, rows)
      PROVE  pc'[t] \notin {"write", "record"}
  BY <1>1, <1>2, ListReadOutcome
<1>3. CASE ReadPage(t)
  <2>1. seen[t] \o Page(t) \in Seq(Row)
    <3>1. Page(t) \in Seq(Row) /\ seen[t] \in Seq(Row)
      BY <1>3, TaskStepMoves, RunningInBatch, PageProperties DEF Schedule, Lives
    <3>2. QED
      BY <3>1, ConcatProperties
  <2>2. QED
    BY <1>2, <1>3, <2>1 DEF ReadPage, Listing
<1>4. CASE ReadFails(t)
  BY <1>1, <1>2, <1>4 DEF ReadFails, Schedule
<1>5. CASE CountPages(t)
  BY <1>1, <1>5 DEF CountPages, Emit
<1>6. CASE Gate(t)
  BY <1>1, <1>6 DEF Gate, At, Emit
<1>7. CASE Write(t)
  BY <1>1, <1>7 DEF Write, At
<1>8. CASE Record(t)
  BY <1>1, <1>8 DEF Record, Emit
<1>9. CASE Raise(t)
  BY <1>1, <1>9 DEF Raise
<1>10. QED
  BY <1>3, <1>4, <1>5, <1>6, <1>7, <1>8, <1>9 DEF TaskStep

\* A step of a task starts no hold, keeps to an end every hold it breaks, and only its write
\* takes effect.
LEMMA TaskStepSpares ==
  ASSUME NEW t \in Task, TaskStep(t)
  PROVE  /\ \/ UNCHANGED <<inhabited, held>>
            \/ held' = {u \in held : batch[u] \in inhabited'}
         /\ \/ UNCHANGED taken
            \/ /\ pc[t] = "write"
               /\ taken' = [taken EXCEPT ![t] = IF t \in held THEN "held" ELSE "free"]
<1> USE DEF wiki, history
<1>1. CASE Write(t)
  BY <1>1 DEF Write, Observe, At
<1>2. CASE ~Write(t)
  BY <1>2 DEF TaskStep, ReadPage, ReadFails, CountPages, Gate, Record, Raise
<1>3. QED
  BY <1>1, <1>2

LEMMA SparedNext == TypeOK /\ Schedule /\ Spared /\ [Next]_vars => Spared'
<1> SUFFICES ASSUME TypeOK, Schedule, Spared, [Next]_vars PROVE Spared'
  OBVIOUS
<1> USE DEF driver, breaker, wiki, history
<1>1. CASE Begin
  <2>1. held = {}
    <3>1. \A t \in held : t \in Task /\ pc[t] # "queued"
      BY DEF Spared
    <3>2. QED
      BY <3>1, <1>1 DEF Begin, Schedule, Task
  <2>2. QED
    BY <1>1, <2>1 DEF Begin, Spared, SparesInhabited
<1>2. ASSUME NEW t \in Task, Start(t) PROVE Spared'
  <2>1. pc' = [pc EXCEPT ![t] = "resolve"] /\ UNCHANGED <<batch, inhabited, taken>>
        /\ held' \in {held, held \cup {t}} /\ (t \in held' \ held => batch[t] \in inhabited)
    BY <1>2 DEF Start
  <2>2. \A u \in Task : pc'[u] \in {"gate", "write"} => u # t /\ pc'[u] = pc[u]
    BY <2>1 DEF TypeOK
  <2>3. \A u \in held' : batch'[u] \in inhabited'
    BY <2>1 DEF Spared
  <2>4. \A u \in held' : u \in Task /\ pc'[u] # "queued"
    BY <2>1 DEF Spared, TypeOK
  <2>5. QED
    BY <2>1, <2>2, <2>3, <2>4 DEF Spared, SparesInhabited
<1>3. ASSUME NEW t \in Task, TaskStep(t) PROVE Spared'
  <2>1. UNCHANGED batch /\ pc[t] \in Points /\ held' \subseteq held
    BY <1>3, TaskStepMoves, TaskStepSpares, TaskStepFrame DEF TypeOK, Points
  <2>2. \A u \in held' : batch'[u] \in inhabited' /\ u \in Task /\ pc'[u] # "queued"
    BY <1>3, <2>1, TaskStepSpares, TaskStepFrame DEF Spared
  <2>3. ASSUME NEW u \in Task, pc'[u] \in {"gate", "write"} PROVE u \notin held'
    <3>1. CASE u # t
      BY <1>3, <2>1, <2>3, <3>1, TaskStepFrame DEF Spared
    <3>2. CASE u = t /\ pc[t] # "gate" /\ pc'[t] = "gate"
      BY <1>3, <2>1, <3>2, GateOutcome DEF Spared
    <3>3. CASE u = t /\ pc[t] \in {"gate", "write"}
      BY <2>1, <3>3 DEF Spared
    <3>4. CASE u = t /\ pc[t] \notin {"gate", "write"} /\ pc'[t] = "write"
      BY <1>3, <3>4, WriteFromGate
    <3>5. QED
      BY <2>3, <3>1, <3>2, <3>3, <3>4
  <2>4. SparesInhabited'
    BY <1>3, TaskStepSpares DEF Spared, SparesInhabited, TypeOK
  <2>5. QED
    BY <2>2, <2>3, <2>4 DEF Spared
<1>4. CASE Merge
  BY <1>4 DEF Merge, Spared, SparesInhabited
<1>5. CASE OthersAct
  BY <1>5 DEF OthersAct, Observe, Spared, SparesInhabited
<1>6. CASE UNCHANGED vars
  BY <1>6 DEF vars, Spared, SparesInhabited
<1>7. QED
  BY <1>1, <1>2, <1>3, <1>4, <1>5, <1>6 DEF Next

\* An object that was in use all the time since its task began is neither archived nor deleted.
THEOREM SparesInhabitedHolds == Spec => []SparesInhabited
<1>1. Init => Spared
  BY DEF Init, Spared, SparesInhabited
<1>2. Spec => [](TypeOK /\ Schedule /\ Spared)
  BY <1>1, TypeInit, TypeNext, SparedNext, PTL DEF Spec
<1>3. Spared => SparesInhabited
  BY DEF Spared
<1>4. QED
  BY <1>2, <1>3, PTL
-----------------------------------------------------------------------------
(* The breaker, as in EnvApply: the invariant counts the writes that have  *)
(* passed the gate and not yet reported.                                   *)

LEMMA CountsAreNat ==
  /\ IsFiniteSet(Running) /\ Cardinality(Running) \in Nat
  /\ IsFiniteSet(InFlight) /\ Cardinality(InFlight) \in Nat
  /\ Cardinality(InFlight) <= Cardinality(Running)
<1>1. Running \in SUBSET Task /\ InFlight \in SUBSET Running /\ IsFiniteSet(Task)
  BY FS_Interval, MaxTasksAssumption DEF Running, InFlight, Task
<1>2. QED
  BY <1>1, FS_Subset, FS_CardinalityType

\* Only the report of a write moves the breaker.
LEMMA TaskStepBreaker ==
  ASSUME NEW t \in Task, TaskStep(t)
  PROVE  UNCHANGED breaker \/ (pc[t] = "record" /\ CountFailure(status[t]))
  BY DEF TaskStep, ReadPage, ReadFails, CountPages, Gate, Write, Record, Raise, At

LEMMA BreakerTaskStep ==
  ASSUME TypeOK, Schedule, BreakerInv, NEW t \in Task, TaskStep(t)
  PROVE  BreakerInv'
<1>1. /\ t \in Running /\ Running' = IF pc'[t] = "done" THEN Running \ {t} ELSE Running
      /\ InFlight' = IF pc'[t] \in {"write", "record"} THEN InFlight \cup {t} ELSE InFlight \ {t}
  <2>1. t \in Running /\ pc'[t] # "queued" /\ \A u \in Task \ {t} : pc'[u] = pc[u]
    BY TaskStepMoves, TaskStepFrame
  <2>2. QED
    BY <2>1 DEF Running, InFlight
<1>2. Cardinality(Running') \in Nat /\ Cardinality(Running') <= Workers
  <2>1. Running' \in SUBSET Running
    BY <1>1
  <2>2. Cardinality(Running') <= Cardinality(Running) /\ Cardinality(Running') \in Nat
    BY <2>1, CountsAreNat, FS_Subset, FS_CardinalityType
  <2>3. QED
    BY <2>2, CountsAreNat, PoolAssumption DEF BreakerInv
<1>3. CASE pc'[t] = "write"
  <2>1. UNCHANGED breaker /\ ~tripped
    BY <1>3, WriteFromGate, TaskStepBreaker
  <2>2. Cardinality(InFlight') <= Cardinality(Running') /\ Cardinality(InFlight') \in Nat
    <3>1. IsFiniteSet(Running') /\ InFlight' \in SUBSET Running'
      BY <1>1, CountsAreNat, FS_Subset DEF InFlight
    <3>2. QED
      BY <3>1, FS_Subset, FS_CardinalityType
  <2>3. QED
    BY <1>2, <2>1, <2>2, PoolAssumption DEF BreakerInv, TypeOK, breaker
<1>4. CASE pc'[t] = "record"
  <2>1. t \in InFlight /\ pc[t] = "write"
    BY <1>1, <1>4, WriteFromGate DEF InFlight
  <2>2. InFlight' = InFlight /\ UNCHANGED breaker
    BY <1>1, <1>4, <2>1, TaskStepBreaker
  <2>3. QED
    BY <1>2, <2>2 DEF BreakerInv, breaker
<1>5. CASE pc'[t] \notin {"write", "record"}
  <2>1. /\ Cardinality(InFlight') \in Nat
        /\ Cardinality(InFlight') = IF t \in InFlight THEN Cardinality(InFlight) - 1
                                                      ELSE Cardinality(InFlight)
    <3>1. InFlight' = InFlight \ {t}
      BY <1>1, <1>5
    <3>2. QED
      BY <3>1, CountsAreNat, FS_RemoveElement, FS_CardinalityType
  <2>2. CASE UNCHANGED breaker
    BY <1>2, <2>1, <2>2, CountsAreNat, PoolAssumption DEF BreakerInv, TypeOK, breaker
  <2>3. CASE t \in InFlight /\ Threshold > 0 /\ failures' = failures + 1
             /\ (~tripped' => ~(failures + 1 >= Threshold))
    BY <1>2, <2>1, <2>3, CountsAreNat, PoolAssumption DEF BreakerInv, TypeOK
  <2>4. CASE pc[t] = "record" /\ CountFailure(status[t])
    <3>1. t \in InFlight
      BY <1>1, <2>4 DEF InFlight
    <3>2. CASE Threshold > 0 /\ status[t] = "5xx"
      <4>1. failures' = failures + 1
        BY <2>4, <3>2 DEF CountFailure
      <4>2. ~tripped' => ~(failures + 1 >= Threshold)
        BY <2>4, <3>2, Zenon DEF CountFailure
      <4>3. QED
        BY <2>3, <3>1, <3>2, <4>1, <4>2
    <3>3. CASE ~(Threshold > 0 /\ status[t] = "5xx")
      BY <2>2, <2>4, <3>3 DEF CountFailure
    <3>4. QED
      BY <3>2, <3>3
  <2>5. QED
    BY <2>2, <2>4, TaskStepBreaker
<1>6. QED
  BY <1>3, <1>4, <1>5

LEMMA BreakerNext ==
  TypeOK /\ Schedule /\ BreakerInv /\ [Next]_vars => BreakerInv'
<1> SUFFICES ASSUME TypeOK, Schedule, BreakerInv, [Next]_vars PROVE BreakerInv'
  OBVIOUS
<1>1. ASSUME NEW t \in Task, Start(t) PROVE BreakerInv'
  <2>1. Running' = Running \cup {t} /\ InFlight' = InFlight
    <3>1. pc[t] = "queued"
      BY <1>1 DEF Start, Schedule, Task
    <3>2. QED
      BY <1>1, <3>1 DEF Start, Running, InFlight, TypeOK
  <2>2. Cardinality(Running \cup {t}) <= Workers
    <3>1. Cardinality(Running \cup {t}) \in {Cardinality(Running), Cardinality(Running) + 1}
      BY CountsAreNat, FS_AddElement
    <3>2. Cardinality(Running) < Workers
      BY <1>1 DEF Start
    <3>3. QED
      BY <3>1, <3>2, CountsAreNat, PoolAssumption
  <2>3. UNCHANGED breaker
    BY <1>1 DEF Start
  <2>4. QED
    BY <2>1, <2>2, <2>3 DEF BreakerInv, breaker
<1>2. ASSUME NEW t \in Task, TaskStep(t) PROVE BreakerInv'
  BY <1>2, BreakerTaskStep
<1>3. CASE Begin \/ Merge \/ OthersAct \/ UNCHANGED vars
  <2>1. UNCHANGED pc /\ UNCHANGED breaker
    BY <1>3 DEF Begin, Merge, OthersAct, vars, breaker
  <2>2. QED
    BY <2>1 DEF BreakerInv, Running, InFlight, breaker
<1>4. QED
  BY <1>1, <1>2, <1>3 DEF Next

\* At most Threshold + Workers - 1 writes of a batch end in a server-side failure.
THEOREM BreakerBoundHolds == Spec => []BreakerBound
<1>1. Init => BreakerInv
  <2>1. Init => Running = {} /\ InFlight = {} /\ failures = 0 /\ Cardinality({}) = 0
    BY FS_EmptySet DEF Init, Running, InFlight
  <2>2. QED
    BY <2>1, PoolAssumption DEF BreakerInv
<1>2. Spec => [](TypeOK /\ Schedule /\ BreakerInv)
  BY <1>1, TypeInit, TypeNext, BreakerNext, PTL DEF Spec
<1>3. TypeOK /\ BreakerInv => BreakerBound
  BY CountsAreNat, PoolAssumption DEF TypeOK, BreakerInv, BreakerBound
<1>4. QED
  BY <1>2, <1>3, PTL
-----------------------------------------------------------------------------
(* Closures.  FalselyClosedIfTorn is not inductive: what a task concludes  *)
(* from a list depends on every page of it, read in different states.  The *)
(* invariant says of a task whose object stood since it began, and whose   *)
(* list is not torn, that every row of its object it has read says so, and *)
(* that it has read one or still has it ahead.                             *)

ShownIn(lf, n) == {i \in DOMAIN Order : SameList(n, Order[i]) /\ lf[Order[i]] # "gone"}

\* An object that stands is at some offset of its list.
LEMMA StandingIsShown ==
  ASSUME NEW n \in Name, NEW lf, lf[n] = "current"
  PROVE  \E k \in ShownIn(lf, n) : Order[k] = n /\ Offset(ShownIn(lf, n), k) > 0
<1>1. DOMAIN Order = 1..Len(Order) /\ Len(Order) \in Nat
  BY OrderAssumption
<1>2. PICK k \in DOMAIN Order : Order[k] = n
  BY OrderAssumption DEF ToSet
<1>3. k \in ShownIn(lf, n) /\ k \in Nat
  BY <1>1, <1>2 DEF ShownIn, SameList
<1>4. IsFiniteSet(ShownIn(lf, n)) /\ \A i \in ShownIn(lf, n) : i \in Nat
  <2>1. ShownIn(lf, n) \subseteq 1..Len(Order)
    BY <1>1 DEF ShownIn
  <2>2. IsFiniteSet(1..Len(Order))
    BY <1>1, FS_Interval
  <2>3. QED
    BY <1>1, <2>1, <2>2, FS_Subset
<1>5. Offset(ShownIn(lf, n), k) \in Nat /\ Offset(ShownIn(lf, n), k) >= 1
  <2>1. Cardinality(ShownIn(lf, n)) \in Nat
    BY <1>4, FS_CardinalityType
  <2>2. Offset(ShownIn(lf, n), k) \in 0..Cardinality(ShownIn(lf, n)) /\ Offset(ShownIn(lf, n), k) >= 1
    BY <1>3, <1>4, OffsetGrows
  <2>3. QED
    BY <2>1, <2>2
<1>6. QED
  BY <1>2, <1>3, <1>5

\* A list that loses no row does not move its rows to an earlier offset.
LEMMA GrowingList ==
  ASSUME NEW n \in Name, NEW lf, NEW lf2, NEW k \in ShownIn(lf, n),
         \A m \in Name : SameList(m, n) /\ lf[m] # "gone" => lf2[m] # "gone"
  PROVE  /\ k \in ShownIn(lf2, n)
         /\ Offset(ShownIn(lf, n), k) <= Offset(ShownIn(lf2, n), k)
         /\ Offset(ShownIn(lf, n), k) \in Nat /\ Offset(ShownIn(lf2, n), k) \in Nat
<1>1. DOMAIN Order = 1..Len(Order) /\ Len(Order) \in Nat /\ \A i \in DOMAIN Order : Order[i] \in Name
  BY OrderAssumption
<1>2. ShownIn(lf, n) \subseteq ShownIn(lf2, n)
  BY <1>1 DEF ShownIn, SameList
<1>3. IsFiniteSet(ShownIn(lf2, n))
  <2>1. ShownIn(lf2, n) \subseteq 1..Len(Order)
    BY <1>1 DEF ShownIn
  <2>2. IsFiniteSet(1..Len(Order))
    BY <1>1, FS_Interval
  <2>3. QED
    BY <1>1, <2>1, <2>2, FS_Subset
<1>4. QED
  BY <1>2, <1>3, OffsetMonotone

\* What others, or another task, change leaves a listing task honest.
LEMMA HonestWorld ==
  ASSUME TypeOK, Schedule, NEW u \in Running, HonestTask(u), UNCHANGED batch, Observe,
         seen'[u] = seen[u], pc'[u] = pc[u]
  PROVE  HonestTask(u)'
<1> USE DEF Observe
<1>1. u \in Task /\ batch[u] \in Name /\ seen[u] \in Seq(Row)
  BY RunningInBatch DEF Schedule
<1>2. u \notin settled' => u \notin settled /\ life'[batch[u]] = "current"
  BY DEF Current
<1>3. ASSUME pc[u] \in Listing, u \notin settled' \cup torn'
      PROVE  /\ \A i \in DOMAIN seen[u] : seen[u][i].name = batch[u] => seen[u][i].status = "current"
             /\ Read(u)' \/ Ahead(u)'
  <2>1. /\ \A i \in DOMAIN seen[u] : seen[u][i].name = batch[u] => seen[u][i].status = "current"
        /\ Read(u) \/ Ahead(u)
    BY <1>2, <1>3 DEF HonestTask
  <2>2. CASE Read(u)
    BY <2>1, <2>2 DEF Read
  <2>3. CASE seen[u] = <<>>
    <3>1. \E k \in ShownIn(life', batch[u]) : Order[k] = batch[u] /\ Offset(ShownIn(life', batch[u]), k) > 0
      BY <1>1, <1>2, <1>3, StandingIsShown
    <3>2. Len(seen'[u]) = 0
      BY <2>3
    <3>3. Ahead(u)'
      BY <3>1, <3>2 DEF Ahead, Shown, ShownIn
    <3>4. QED
      BY <2>1, <3>3
  <2>4. CASE Ahead(u) /\ seen[u] # <<>>
    <3>1. \A m \in Name : SameList(m, batch[u]) /\ life[m] # "gone" => life'[m] # "gone"
      BY <1>3, <2>4
    <3>2. PICK k \in ShownIn(life, batch[u]) :
            Order[k] = batch[u] /\ Offset(ShownIn(life, batch[u]), k) > Len(seen[u])
      BY <2>4 DEF Ahead, Shown, ShownIn
    <3>3. /\ k \in ShownIn(life', batch[u])
          /\ Offset(ShownIn(life', batch[u]), k) >= Offset(ShownIn(life, batch[u]), k)
          /\ Offset(ShownIn(life, batch[u]), k) \in Nat /\ Offset(ShownIn(life', batch[u]), k) \in Nat
      BY <1>1, <3>1, <3>2, GrowingList
    <3>4. Offset(ShownIn(life', batch[u]), k) > Len(seen[u])
      BY <1>1, <3>2, <3>3
    <3>5. Ahead(u)'
      BY <3>2, <3>3, <3>4 DEF Ahead, Shown, ShownIn
    <3>6. QED
      BY <2>1, <3>5
  <2>5. QED
    BY <2>1, <2>2, <2>3, <2>4
<1>4. QED
  BY <1>2, <1>3 DEF HonestTask, Current

\* A task that turns to another list has it all ahead.
LEMMA HonestStart ==
  ASSUME NEW u, batch'[u] \in Name, seen'[u] = <<>>, u \notin settled' => Current(life, u)'
  PROVE  HonestTask(u)'
<1>1. ASSUME u \notin settled' PROVE Ahead(u)'
  <2>1. \E k \in ShownIn(life', batch'[u]) :
          Order[k] = batch'[u] /\ Offset(ShownIn(life', batch'[u]), k) > 0
    BY <1>1, StandingIsShown DEF Current
  <2>2. Len(seen'[u]) = 0
    OBVIOUS
  <2>3. QED
    BY <2>1, <2>2 DEF Ahead, Shown, ShownIn
<1>2. QED
  BY <1>1 DEF HonestTask

\* The next page of a list that is not the last leaves the task honest.
LEMMA HonestMore ==
  ASSUME TypeOK, Schedule, NEW t \in Running, HonestTask(t), pc[t] \in Listing, More(t),
         UNCHANGED <<batch, pc, wiki, history>>, seen' = [seen EXCEPT ![t] = @ \o Page(t)]
  PROVE  HonestTask(t)'
<1> DEFINE rows == seen[t] \o Page(t)
<1>1. t \in Task /\ batch[t] \in Name /\ seen[t] \in Seq(Row) /\ life \in [Name -> Lives]
  BY RunningInBatch DEF TypeOK, Schedule, Lives
<1>2. seen'[t] = rows
  BY <1>1 DEF Schedule
<1>3. ASSUME t \notin settled \cup torn
      PROVE  /\ \A i \in DOMAIN rows : rows[i].name = batch[t] => rows[i].status = "current"
             /\ Read(t)' \/ Ahead(t)'
  <2>1. /\ Current(life, t) /\ (Read(t) \/ Ahead(t))
        /\ \A i \in DOMAIN seen[t] : seen[t][i].name = batch[t] => seen[t][i].status = "current"
    BY <1>3 DEF HonestTask
  <2>2. /\ \A i \in DOMAIN rows : rows[i].name = batch[t] => rows[i].status = "current"
        /\ \/ \E i \in DOMAIN rows : rows[i].name = batch[t]
           \/ \E k \in Shown(batch[t]) : Order[k] = batch[t] /\ Offset(Shown(batch[t]), k) > Len(rows)
    BY <1>1, <2>1, HonestPage
  <2> HIDE DEF rows
  <2>3. QED
    BY <1>2, <2>2 DEF Read, Ahead, Shown, wiki
<1> HIDE DEF rows
<1>4. QED
  BY <1>2, <1>3 DEF HonestTask, Current, wiki, history

\* A task that has read the whole list leaves it.
LEMMA MovesOn ==
  ASSUME NEW t \in Task, NEW rows \in Seq(Row), pc \in [Task -> Points], pc[t] \in Listing,
         ListRead(t, rows)
  PROVE  pc'[t] # pc[t]
  BY ListReadOutcome DEF Return, GoTo, Listing

\* An honest task does not call an object closed that stood: what it read says otherwise.
LEMMA HonestClosure ==
  ASSUME NEW t, pc[t] \in Listing, NEW rows \in Seq(Row), ListRead(t, rows), pc \in [Task -> Points], t \in Task,
         \A i \in DOMAIN rows : rows[i].name = batch[t] => rows[i].status = "current",
         \E i \in DOMAIN rows : rows[i].name = batch[t],
         verdict \in [Task -> Verdicts], verdict[t] # "closed"
  PROVE  verdict'[t] # "closed"
<1>1. CASE \E v \in {"still_open", "crashed"} : Return(t, v)
  BY <1>1 DEF Return
<1>2. CASE \E point \in {"pages", "members", "gate"} : GoTo(t, point)
  BY <1>2 DEF GoTo
<1>3. QED
  BY <1>1, <1>2, ListReadOutcome

\* A step of a task closes it only if its object was settled or its list torn.
LEMMA HonestVerdict ==
  ASSUME TypeOK, Schedule, NEW t \in Task, TaskStep(t), HonestTask(t), verdict'[t] = "closed"
  PROVE  t \in settled' \cup torn'
<1>1. /\ t \in Running /\ batch[t] \in Name /\ seen[t] \in Seq(Row) /\ life \in [Name -> Lives]
      /\ pc \in [Task -> Points] /\ verdict \in [Task -> Verdicts] /\ verdict[t] # "closed"
  <2>1. t \in Running /\ verdict[t] = "none"
    BY TaskStepMoves DEF Schedule, Running
  <2>2. QED
    BY <2>1, RunningInBatch DEF TypeOK, Schedule, Lives, Points, Verdicts
<1> USE DEF Return, GoTo, history
<1>2. CASE ReadPage(t)
  <2>1. CASE More(t) /\ UNCHANGED verdict
    BY <1>1, <2>1
  <2>2. CASE ~More(t) /\ ListRead(t, seen[t] \o Page(t)) /\ t \notin settled \cup torn
    <3> DEFINE rows == seen[t] \o Page(t)
    <3>1. /\ pc[t] \in Listing /\ Current(life, t) /\ (Read(t) \/ Ahead(t))
          /\ \A i \in DOMAIN seen[t] : seen[t][i].name = batch[t] => seen[t][i].status = "current"
      BY <1>2, <2>2 DEF HonestTask, ReadPage
    <3>2. /\ rows \in Seq(Row)
          /\ \A i \in DOMAIN rows : rows[i].name = batch[t] => rows[i].status = "current"
          /\ \E i \in DOMAIN rows : rows[i].name = batch[t]
      BY <1>1, <2>2, <3>1, HonestPage
    <3> HIDE DEF rows
    <3>3. ListRead(t, rows)
      BY <2>2 DEF rows
    <3>4. verdict'[t] # "closed"
      BY <1>1, <3>1, <3>2, <3>3, HonestClosure
    <3>5. QED
      BY <3>4
  <2>3. QED
    BY <1>2, <2>1, <2>2 DEF ReadPage
<1>3. CASE ReadFails(t)
  BY <1>1, <1>3 DEF ReadFails
<1>4. CASE CountPages(t)
  BY <1>1, <1>4 DEF CountPages, Emit
<1>5. CASE Gate(t)
  BY <1>1, <1>5 DEF Gate, Emit
<1>6. CASE Write(t)
  BY <1>1, <1>6 DEF Write
<1>7. CASE Record(t)
  BY <1>1, <1>7 DEF Record, Emit
<1>8. CASE Raise(t)
  BY <1>1, <1>8 DEF Raise
<1>9. QED
  BY <1>2, <1>3, <1>4, <1>5, <1>6, <1>7, <1>8 DEF TaskStep

\* What a step of a task means for the history of all.
LEMMA TaskStepHistory ==
  ASSUME NEW t \in Task, TaskStep(t)
  PROVE  /\ settled \subseteq settled' /\ torn \subseteq torn' /\ UNCHANGED batch
         /\ \/ Observe /\ Write(t)
            \/ UNCHANGED <<life, settled>>
<1> USE DEF driver, wiki, history
<1>1. CASE Write(t)
  <2>1. CASE Observe
    BY <1>1, <2>1 DEF Observe, Write
  <2>2. CASE UNCHANGED <<wiki, history>>
    BY <1>1, <2>2 DEF Write
  <2>3. QED
    BY <1>1, <2>1, <2>2 DEF Write
<1>2. CASE ~Write(t)
  BY <1>2 DEF TaskStep, ReadPage, ReadFails, CountPages, Gate, Record, Raise
<1>3. QED
  BY <1>1, <1>2

\* A running task is honest after a step of its own or of another task.
LEMMA HonestOwnStep ==
  ASSUME TypeOK, Schedule, NEW t \in Task, TaskStep(t), HonestTask(t), t \in Running'
  PROVE  HonestTask(t)'
<1>1. t \in Running /\ UNCHANGED batch /\ batch[t] \in Name /\ seen \in [Task -> Seq(Row)]
      /\ settled \subseteq settled' /\ pc \in [Task -> Points]
  BY TaskStepMoves, TaskStepHistory, RunningInBatch DEF driver, Schedule, TypeOK, Points
<1>2. t \notin settled' => life'[batch'[t]] = "current"
  <2>1. CASE Observe
    BY <1>1, <2>1 DEF Observe, Current
  <2>2. CASE UNCHANGED <<life, settled>>
    BY <1>1, <2>2 DEF HonestTask, Current
  <2>3. QED
    BY <2>1, <2>2, TaskStepHistory
<1>3. CASE \E v \in Verdicts \ {"none"} : Return(t, v)
  BY <1>1, <1>3 DEF Return, Running
<1>4. CASE \E point \in Points \ {"queued", "done"} : GoTo(t, point)
  <2>1. seen'[t] = <<>>
    BY <1>1, <1>4 DEF GoTo
  <2>2. QED
    BY <1>1, <1>2, <2>1, HonestStart DEF Current
<1>5. CASE /\ pc[t] \in Listing /\ UNCHANGED <<pc, verdict>>
           /\ seen' = [seen EXCEPT ![t] = @ \o Page(t)]
  <2>1. CASE More(t) /\ UNCHANGED <<wiki, history>>
    BY <1>1, <1>5, <2>1, HonestMore
  <2>2. CASE ReadPage(t) /\ ~(More(t) /\ UNCHANGED <<wiki, history>>)
    <3>1. ListRead(t, seen[t] \o Page(t)) /\ seen[t] \o Page(t) \in Seq(Row)
      <4>1. Page(t) \in Seq(Row) /\ seen[t] \in Seq(Row)
        BY <1>1, PageProperties DEF TypeOK, Schedule, Lives
      <4>2. QED
        BY <2>2, <4>1, ConcatProperties DEF ReadPage
    <3>2. pc'[t] # pc[t]
      BY <1>1, <1>5, <3>1, MovesOn
    <3>3. QED
      BY <1>5, <3>2
  <2>3. CASE ReadFails(t)
    <3>1. CASE Return(t, "still_open")
      BY <1>1, <3>1 DEF Return, Running
    <3>2. CASE ListRead(t, seen[t])
      <4>1. seen[t] \in Seq(Row)
        BY <1>1
      <4>2. pc'[t] # pc[t]
        BY <1>1, <1>5, <3>2, <4>1, MovesOn
      <4>3. QED
        BY <1>5, <4>2
    <3>3. QED
      BY <2>3, <3>1, <3>2 DEF ReadFails
  <2>4. QED
    <3>1. pc[t] \notin {"pages", "gate", "write", "record"} /\ pc'[t] = pc[t] /\ pc[t] # "done"
      BY <1>5 DEF Listing
    <3>2. ReadPage(t) \/ ReadFails(t)
      BY <1>1, <3>1 DEF TaskStep, CountPages, Gate, Write, Record, Raise, At, Return
    <3>3. QED
      BY <2>1, <2>2, <2>3, <3>2
<1>6. CASE /\ pc[t] = "write" /\ pc' = [pc EXCEPT ![t] = "record"]
           /\ UNCHANGED <<seen, verdict>>
  <2>1. pc'[t] = "record"
    BY <1>1, <1>6
  <2>2. QED
    BY <1>2, <2>1 DEF HonestTask, Current, Listing
<1>7. QED
  BY <1>3, <1>4, <1>5, <1>6, TaskStepMoves

LEMMA HonestNext == TypeOK /\ Schedule /\ Honest /\ [Next]_vars => Honest'
<1> SUFFICES ASSUME TypeOK, Schedule, Honest, [Next]_vars PROVE Honest'
  OBVIOUS
<1> USE DEF driver, breaker, wiki, history
<1>1. CASE Begin
  <2>1. Running' = {}
    BY <1>1 DEF Begin, Running, Schedule, Task
  <2>2. QED
    BY <1>1, <2>1 DEF Begin, Honest, FalselyClosedIfTorn
<1>2. ASSUME NEW t \in Task, Start(t) PROVE Honest'
  <2>1. /\ pc' = [pc EXCEPT ![t] = "resolve"] /\ UNCHANGED <<batch, seen, verdict, life, torn>>
        /\ settled' = (IF Current(life, t) THEN settled ELSE settled \cup {t})
    BY <1>2 DEF Start
  <2>2. HonestTask(t)'
    <3>1. batch[t] \in Name /\ seen[t] = <<>>
      BY <1>2 DEF Start, Schedule, Task, Listing
    <3>2. t \notin settled' => Current(life, t)'
      BY <2>1 DEF Current
    <3>3. QED
      BY <2>1, <3>1, <3>2, HonestStart
  <2>3. ASSUME NEW u \in Running', u # t PROVE HonestTask(u)'
    <3>1. u \in Running /\ pc'[u] = pc[u]
      BY <2>1, <2>3 DEF Running, TypeOK
    <3>2. u \in settled <=> u \in settled'
      BY <2>1, <2>3
    <3>3. HonestTask(u)
      BY <3>1 DEF Honest
    <3>4. QED
      BY <2>1, <3>1, <3>2, <3>3 DEF HonestTask, Current, Read, Ahead, Shown
  <2>4. FalselyClosedIfTorn'
    BY <2>1 DEF Honest, FalselyClosedIfTorn
  <2>5. QED
    BY <2>2, <2>3, <2>4 DEF Honest
<1>3. ASSUME NEW t \in Task, TaskStep(t) PROVE Honest'
  <2>1. t \in Running /\ UNCHANGED batch /\ settled \subseteq settled' /\ torn \subseteq torn' /\ HonestTask(t)
    BY <1>3, TaskStepMoves, TaskStepHistory DEF Honest
  <2>2. ASSUME NEW u \in Running', u # t PROVE HonestTask(u)'
    <3>1. pc'[u] = pc[u] /\ seen'[u] = seen[u] /\ u \in Running /\ HonestTask(u)
      BY <1>3, <2>2, TaskStepFrame DEF Running, Honest
    <3>2. CASE Observe
      BY <2>1, <3>1, <3>2, HonestWorld
    <3>3. CASE UNCHANGED <<life, settled>>
      BY <2>1, <3>1, <3>3 DEF HonestTask, Current, Read, Ahead, Shown
    <3>4. QED
      BY <1>3, <3>2, <3>3, TaskStepHistory
  <2>3. t \in Running' => HonestTask(t)'
    BY <1>3, <2>1, HonestOwnStep
  <2>4. FalselyClosedIfTorn'
    <3> SUFFICES ASSUME NEW u \in Task, verdict'[u] = "closed" PROVE u \in settled' \cup torn'
      BY DEF FalselyClosedIfTorn
    <3>1. CASE u = t
      BY <1>3, <2>1, <3>1, HonestVerdict
    <3>2. CASE u # t
      <4>1. verdict'[u] = verdict[u]
        BY <1>3, <3>2, TaskStepFrame
      <4>2. QED
        BY <2>1, <4>1 DEF Honest, FalselyClosedIfTorn
    <3>3. QED
      BY <3>1, <3>2
  <2>5. QED
    BY <2>2, <2>3, <2>4 DEF Honest
<1>4. CASE Merge
  BY <1>4 DEF Merge, Honest, HonestTask, FalselyClosedIfTorn, Running, Current, Read, Ahead, Shown
<1>5. CASE OthersAct
  <2>1. UNCHANGED <<batch, pc, seen, verdict>> /\ Observe
    BY <1>5 DEF OthersAct
  <2>2. Running' = Running
    BY <2>1 DEF Running
  <2>3. \A u \in Running : HonestTask(u)'
    BY <2>1, HonestWorld DEF Honest
  <2>4. FalselyClosedIfTorn'
    BY <2>1 DEF Observe, Honest, FalselyClosedIfTorn
  <2>5. QED
    BY <2>2, <2>3, <2>4 DEF Honest
<1>6. CASE UNCHANGED vars
  BY <1>6 DEF vars, Honest, HonestTask, FalselyClosedIfTorn, Running, Current, Read, Ahead, Shown
<1>7. QED
  BY <1>1, <1>2, <1>3, <1>4, <1>5, <1>6 DEF Next

\* A finding reported closed was settled at some time while its task ran, unless the task read
\* a list that failed half-way or lost rows between two pages.
THEOREM FalselyClosedIfTornHolds == Spec => []FalselyClosedIfTorn
<1>1. Init => Honest
  BY DEF Init, Honest, FalselyClosedIfTorn, Running
<1>2. Spec => [](TypeOK /\ Schedule /\ Honest)
  BY <1>1, TypeInit, TypeNext, HonestNext, PTL DEF Spec
<1>3. Honest => FalselyClosedIfTorn
  BY DEF Honest
<1>4. QED
  BY <1>2, <1>3, PTL
=============================================================================
