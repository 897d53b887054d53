--------------------------- MODULE EnvApplyProofs ---------------------------
(***************************************************************************)
(* Proofs about EnvApply for every number of tasks, threads, objects and   *)
(* every breaker threshold and cap: type correctness, the bound the        *)
(* breaker's comment states, the blast radius, the write-through, what is  *)
(* deleted, and what the verdicts and the tallies of a batch mean.         *)
(***************************************************************************)
EXTENDS EnvApply, FiniteSetTheorems, SequenceTheorems, TLAPS

(* The constants and the parts of the model the proofs look inside.        *)
LEMMA TaskFinite == IsFiniteSet(Task)
  BY FS_Interval, MaxTasksAssumption DEF Task

\* Whatever step a task takes, it moves only its own program counter.
LEMMA TaskStepMoves ==
  ASSUME NEW t, TaskStep(t), TypeOK
  PROVE  /\ t \in Task /\ phase = "running"
         /\ \E point \in Points \ {"queued"} : pc' = [pc EXCEPT ![t] = point]
         /\ UNCHANGED <<engine, before, batches>>
<1> USE DEF At, Return, RecordAndReturn, GoTo, Points, engine
<1>1. CASE Resolve(t)
  BY <1>1 DEF Resolve
<1>2. CASE Check(t)
  BY <1>2 DEF Check
<1>3. CASE Gate(t)
  BY <1>3 DEF Gate
<1>4. CASE Delete(t)
  BY <1>4 DEF Delete
<1>5. CASE RecordStatus(t)
  BY <1>5 DEF RecordStatus
<1>6. CASE LogDelete(t)
  BY <1>6 DEF LogDelete
<1>7. CASE Confirm(t)
  BY <1>7 DEF Confirm
<1>8. CASE ReadFails(t)
  BY <1>8 DEF ReadFails
<1>9. CASE TaskRaises(t)
  BY <1>9 DEF TaskRaises
<1>10. CASE ReadPage(t)
  BY <1>10 DEF ReadPage, TypeOK
<1>11. QED
  BY <1>1, <1>2, <1>3, <1>4, <1>5, <1>6, <1>7, <1>8, <1>9, <1>10 DEF TaskStep

\* What a read looks for, and what a row carries, are facts of the instance.
LEMMA SoughtType ==
  ASSUME TypeOK, NEW t \in Task, NEW rows
  PROVE  Sought(t) \subseteq Fact /\ Carried(t, rows) \subseteq Fact
  BY DEF TypeOK, Sought, Carried, Matching, Live, Fact

\* Of the rows that a removal moves, some are lost and nothing comes back.
LEMMA ShiftMoves ==
  ASSUME TypeOK, NEW list, Shift(list)
  PROVE  /\ ahead' \in [Task -> SUBSET Fact] /\ missed' \in [Task -> SUBSET Fact]
         /\ \A u \in Task : /\ ahead'[u] \subseteq ahead[u] /\ missed[u] \subseteq missed'[u]
                           /\ ahead[u] \cap Standing(life', used') \subseteq ahead'[u] \cup missed'[u]
<1>1. PICK lost : 
        /\ ahead' = [t \in Task |-> {f \in ahead[t] : <<t, f>> \notin lost /\ f \in Standing(life', used')}]
        /\ missed' = [t \in Task |-> missed[t] \cup {f \in ahead[t] : <<t, f>> \in lost}]
  BY DEF Shift
<1> QED BY <1>1 DEF TypeOK

\* The rows ahead of a task that reads no page, and the facts it missed, change only so.
Drifts(u) ==
  /\ ahead'[u] \subseteq ahead[u] /\ missed[u] \subseteq missed'[u]
  /\ ahead[u] \cap Standing(life', used') \subseteq ahead'[u] \cup missed'[u]

LEMMA PagesMove ==
  ASSUME TypeOK, \/ \E t \in Task : Delete(t)
                 \/ AdminActs \/ AsyncDeleteEnds
  PROVE  /\ ahead' \in [Task -> SUBSET Fact] /\ missed' \in [Task -> SUBSET Fact]
         /\ \A u \in Task : Drifts(u)
         /\ UNCHANGED <<paging, seen>>
<1>1. (\E list : Shift(list)) \/ UNCHANGED <<ahead, missed>>
  BY DEF Delete, AdminActs, AsyncDeleteEnds
<1>2. UNCHANGED <<paging, seen>>
  BY DEF Delete, AdminActs, AsyncDeleteEnds
<1>3. CASE \E list : Shift(list)
  BY <1>2, <1>3, ShiftMoves DEF Drifts
<1>4. CASE UNCHANGED <<ahead, missed>>
  BY <1>2, <1>4 DEF Drifts, TypeOK
<1> QED BY <1>1, <1>3, <1>4
-----------------------------------------------------------------------------
(* Type correctness.                                                       *)

LEMMA ReturnType ==
  ASSUME TypeOK, NEW t \in Task, NEW v \in Verdicts, Return(t, v)
  PROVE  /\ pc' \in [Task -> Points]
         /\ target' \in [Task -> Object \cup {NoObject}]
         /\ read' \in [Task -> Nat]
         /\ status' \in [Task -> Statuses]
         /\ verdict' \in [Task -> Verdicts]
  BY DEF TypeOK, Return, Points, Statuses

LEMMA RecordAndReturnType ==
  ASSUME TypeOK, NEW t \in Task, NEW v \in Verdicts, NEW row \in Rows,
         RecordAndReturn(t, v, row)
  PROVE  /\ pc' \in [Task -> Points]
         /\ target' \in [Task -> Object \cup {NoObject}]
         /\ read' \in [Task -> Nat]
         /\ status' \in [Task -> Statuses]
         /\ verdict' \in [Task -> Verdicts]
         /\ durable' \in [Task -> SUBSET Rows]
         /\ quiet' \in BOOLEAN
<1>1. CASE Return(t, v) /\ durable' = [durable EXCEPT ![t] = @ \cup {row}] /\ UNCHANGED quiet
  BY <1>1, ReturnType DEF TypeOK
<1>2. CASE Return(t, "crashed") /\ quiet' = FALSE /\ UNCHANGED durable
  BY <1>2, ReturnType DEF TypeOK, Verdicts
<1>3. QED
  BY <1>1, <1>2 DEF RecordAndReturn

LEMMA TypeInit == Init => TypeOK
<1> SUFFICES ASSUME Init PROVE TypeOK
  OBVIOUS
<1>1. life \in [Object -> {"unborn", "live", "dying", "dead"}]
  BY DEF Init
<1>2. Len(batch) \in 0..MaxTasks /\ next \in 1..MaxTasks + 1 /\ merged \in 0..MaxTasks
  BY MaxTasksAssumption DEF Init
<1>3. /\ pc \in [Task -> Points] /\ status \in [Task -> Statuses]
      /\ verdict \in [Task -> Verdicts] /\ durable \in [Task -> SUBSET Rows]
      /\ target \in [Task -> Object \cup {NoObject}] /\ killed \in [Task -> Object \cup {NoObject}]
  BY DEF Init, Points, Statuses, Verdicts
<1>4. read \in [Task -> Nat]
  BY DEF Init
<1>5. /\ paging \in SUBSET Task /\ used \in SUBSET Use
      /\ seen \in [Task -> SUBSET Fact] /\ ahead \in [Task -> SUBSET Fact]
      /\ missed \in [Task -> SUBSET Fact]
  BY UsedAtFirstAssumption DEF Init
<1>6. QED
  BY <1>1, <1>2, <1>3, <1>4, <1>5 DEF Init, TypeOK

LEMMA ReadEndsType ==
  ASSUME TypeOK, NEW t \in Task, ReadEnds(t) \/ UNCHANGED pages
  PROVE  /\ paging' \in SUBSET Task
         /\ seen' \in [Task -> SUBSET Fact] /\ ahead' \in [Task -> SUBSET Fact]
         /\ missed' \in [Task -> SUBSET Fact]
  BY DEF TypeOK, ReadEnds, pages

LEMMA TypeTaskStep ==
  ASSUME TypeOK, NEW t, TaskStep(t)
  PROVE  TypeOK'
<1>0. t \in Task
  BY TaskStepMoves
<1>01. /\ paging' \in SUBSET Task
       /\ seen' \in [Task -> SUBSET Fact] /\ ahead' \in [Task -> SUBSET Fact]
       /\ missed' \in [Task -> SUBSET Fact]
  <2>1. CASE Resolve(t) \/ Check(t) \/ Confirm(t) \/ ReadFails(t) \/ TaskRaises(t)
    BY <1>0, <2>1, ReadEndsType DEF Resolve, Check, Confirm, ReadFails, TaskRaises
  <2>2. CASE Gate(t) \/ RecordStatus(t) \/ LogDelete(t)
    BY <1>0, <2>2, ReadEndsType DEF Gate, RecordStatus, LogDelete
  <2>3. CASE Delete(t)
    BY <1>0, <2>3, PagesMove DEF TypeOK
  <2>4. CASE ReadPage(t)
    <3>1. PICK shown \in SUBSET (Sought(t) \ seen[t]) :
            /\ seen' = [seen EXCEPT ![t] = @ \cup shown \cup Carried(t, shown)]
            /\ ahead' = [ahead EXCEPT ![t] = (IF t \in paging THEN @ ELSE Sought(t)) \ shown]
      BY <2>4 DEF ReadPage
    <3>2. shown \subseteq Fact /\ Carried(t, shown) \subseteq Fact /\ Sought(t) \subseteq Fact
      BY <1>0, SoughtType
    <3>3. paging' \in SUBSET Task /\ missed' \in [Task -> SUBSET Fact]
      BY <1>0, <2>4 DEF ReadPage, TypeOK
    <3> QED BY <1>0, <3>1, <3>2, <3>3 DEF TypeOK
  <2> QED BY <2>1, <2>2, <2>3, <2>4 DEF TaskStep
<1>02. used' \in SUBSET Use
  BY DEF TaskStep, ReadPage, Resolve, Check, Gate, Delete, RecordStatus, LogDelete, Confirm,
         ReadFails, TaskRaises, jira, TypeOK
<1> USE <1>0, <1>01, <1>02 DEF Verdicts
<1>1. CASE Resolve(t)
  <2>1. CASE \E v \in {"closed", "still_open"}, row \in {"GET", "SKIP"} : RecordAndReturn(t, v, row)
    BY <2>1, <1>1, RecordAndReturnType DEF Resolve, Rows, TypeOK, engine, breaker, jira
  <2>2. CASE \E o \in Object, point \in {"gate", "check"} :
               /\ GoTo(t, point) /\ target' = [target EXCEPT ![t] = o]
               /\ UNCHANGED <<read, status, held>>
    BY <2>2, <1>1 DEF Resolve, GoTo, Points, TypeOK, engine, breaker, jira
  <2>3. QED
    BY <2>1, <2>2, <1>1 DEF Resolve
<1>2. CASE Check(t)
  <2>1. CASE RecordAndReturn(t, "still_open", "GET")
    BY <2>1, <1>2, RecordAndReturnType DEF Check, Rows, TypeOK, engine, breaker, jira
  <2>2. CASE \E point \in {"gate", "check"} :
               /\ GoTo(t, point) /\ read' = [read EXCEPT ![t] = @ + 1]
               /\ UNCHANGED <<target, status, held>>
    BY <2>2, <1>2 DEF Check, GoTo, Points, TypeOK, engine, breaker, jira
  <2>3. QED
    BY <2>1, <2>2, <1>2 DEF Check
<1>3. CASE Gate(t)
  <2>1. CASE \E v \in {"still_open", "would_close"}, row \in {"SKIP", "WOULD-DELETE"} : RecordAndReturn(t, v, row)
    BY <2>1, <1>3, RecordAndReturnType DEF Gate, Rows, TypeOK, engine, breaker, jira
  <2>2. CASE GoTo(t, "send") /\ UNCHANGED locals
    BY <2>2, <1>3 DEF Gate, GoTo, Points, TypeOK, engine, breaker, jira, locals
  <2>3. QED
    BY <2>1, <2>2, <1>3 DEF Gate
<1>4. CASE Delete(t)
  <2>1. Victims(t) \subseteq Object
    BY DEF Victims, Live
  <2>2. status' \in [Task -> Statuses] /\ quiet' \in BOOLEAN
    BY <1>4 DEF Delete, TypeOK, Statuses
  <2>3. /\ life' \in [Object -> {"unborn", "live", "dying", "dead"}]
        /\ killed' \in [Task -> Object \cup {NoObject}]
    <3>1. CASE UNCHANGED <<life, killed>>
      BY <3>1 DEF TypeOK
    <3>2. ASSUME NEW o \in Victims(t), NEW stage \in {"dying", "dead"},
                 life' = [life EXCEPT ![o] = stage], killed' = [killed EXCEPT ![t] = o]
          PROVE  /\ life' \in [Object -> {"unborn", "live", "dying", "dead"}]
                 /\ killed' \in [Task -> Object \cup {NoObject}]
      BY <3>2, <2>1 DEF TypeOK
    <3>3. QED
      BY <1>4, <3>1, <3>2 DEF Delete
  <2>4. QED
    BY <1>4, <2>2, <2>3 DEF Delete, TypeOK, Points, engine, breaker
<1>5. CASE RecordStatus(t)
  <2>1. failures' \in Nat
    BY <1>5 DEF RecordStatus, TypeOK, breaker
  <2>2. tripped' \in BOOLEAN
    <3>1. CASE Threshold > 0 /\ status[t] = "5xx"
      BY <1>5, <3>1, Zenon DEF RecordStatus
    <3>2. CASE ~(Threshold > 0 /\ status[t] = "5xx")
      BY <1>5, <3>2 DEF RecordStatus, TypeOK, breaker
    <3>3. QED
      BY <3>1, <3>2
  <2>3. QED
    BY <1>5, <2>1, <2>2 DEF RecordStatus, GoTo, Points, TypeOK, engine, jira, locals
<1>6. CASE LogDelete(t)
  <2>1. CASE RecordAndReturn(t, "still_open", "DELETE")
    BY <2>1, <1>6, RecordAndReturnType DEF LogDelete, Rows, TypeOK, engine, breaker, jira
  <2>2. CASE Return(t, "crashed") /\ quiet' = FALSE /\ UNCHANGED durable
    BY <2>2, <1>6, ReturnType DEF LogDelete, TypeOK, engine, breaker, jira
  <2>3. CASE /\ pc' = [pc EXCEPT ![t] = "confirm"]
             /\ durable' = [durable EXCEPT ![t] = @ \cup {"DELETE"}]
             /\ UNCHANGED <<verdict, quiet, locals>>
    BY <2>3, <1>6 DEF LogDelete, Points, Rows, TypeOK, engine, breaker, jira, locals
  <2>4. QED
    BY <2>1, <2>2, <2>3, <1>6 DEF LogDelete
<1>7. CASE Confirm(t)
  <2>1. CASE RecordAndReturn(t, "still_open", "GET")
    BY <2>1, <1>7, RecordAndReturnType DEF Confirm, Rows, TypeOK, engine, breaker, jira
  <2>2. CASE Return(t, "closed") /\ UNCHANGED <<durable, quiet>>
    BY <2>2, <1>7, ReturnType DEF Confirm, TypeOK, engine, breaker, jira
  <2>3. QED
    BY <2>1, <2>2, <1>7 DEF Confirm
<1>8. CASE ReadFails(t)
  BY <1>8, ReturnType DEF ReadFails, Rows, TypeOK, engine, breaker, jira
<1>9. CASE TaskRaises(t)
  BY <1>9, ReturnType DEF TaskRaises, TypeOK, engine, breaker, jira
<1>10. CASE ReadPage(t)
  BY <1>10 DEF ReadPage, TypeOK, engine, breaker, jira, locals
<1>11. QED
  BY <1>1, <1>2, <1>3, <1>4, <1>5, <1>6, <1>7, <1>8, <1>9, <1>10 DEF TaskStep

LEMMA TypeNext == TypeOK /\ [Next]_vars => TypeOK'
<1> SUFFICES ASSUME TypeOK, [Next]_vars PROVE TypeOK'
  OBVIOUS
<1>1. ASSUME NEW refs \in Selections, NEW preview \in BOOLEAN, Begin(refs, preview) PROVE TypeOK'
  <2>1. Len(batch') \in 0..MaxTasks
    BY <1>1, SelectionsAssumption DEF Begin
  <2>2. QED
    <3>1. next' \in 1..MaxTasks + 1 /\ merged' \in 0..MaxTasks
      BY <1>1, MaxTasksAssumption DEF Begin
    <3>2. /\ pc' \in [Task -> Points] /\ status' \in [Task -> Statuses]
          /\ verdict' \in [Task -> Verdicts] /\ durable' \in [Task -> SUBSET Rows]
          /\ target' \in [Task -> Object \cup {NoObject}]
          /\ killed' \in [Task -> Object \cup {NoObject}]
      BY <1>1 DEF Begin, Points, Statuses, Verdicts
    <3>3. read' \in [Task -> Nat] /\ life' = life /\ phase' \in {"failed", "running"}
      BY <1>1 DEF Begin
    <3>4. /\ paging' \in SUBSET Task /\ used' \in SUBSET Use
          /\ seen' \in [Task -> SUBSET Fact] /\ ahead' \in [Task -> SUBSET Fact]
          /\ missed' \in [Task -> SUBSET Fact]
      BY <1>1 DEF Begin, TypeOK
    <3>5. QED
      BY <1>1, <2>1, <3>1, <3>2, <3>3, <3>4 DEF Begin, TypeOK
<1>2. ASSUME NEW t \in Task, Start(t) PROVE TypeOK'
  BY <1>2, MaxTasksAssumption
     DEF Start, TypeOK, Task, Batch, Points, breaker, jira, pages
<1>3. ASSUME NEW t \in Task, TaskStep(t) PROVE TypeOK'
  BY <1>3, TypeTaskStep
<1>4. CASE Merge
  <2>1. merged' \in 0..MaxTasks /\ closed' \in Nat /\ stillOpen' \in Nat /\ quiet' \in BOOLEAN
    <3>1. /\ merged' \in {merged, merged + 1} /\ merged < Len(batch)
          /\ closed' \in {closed, closed + 1} /\ stillOpen' \in {stillOpen, stillOpen + 1}
          /\ quiet' \in {quiet, FALSE}
      BY <1>4 DEF Merge
    <3>2. QED
      <4>1. merged + 1 \in 0..MaxTasks
        BY <3>1, MaxTasksAssumption DEF TypeOK
      <4>2. closed + 1 \in Nat /\ stillOpen + 1 \in Nat
        BY DEF TypeOK
      <4>3. quiet' \in BOOLEAN
        BY <3>1, Zenon DEF TypeOK
      <4>4. QED
        BY <3>1, <4>1, <4>2, <4>3 DEF TypeOK
  <2>2. phase' \in {"idle", "running", "done", "failed", "crashed"}
    BY <1>4 DEF Merge, TypeOK
  <2>3. durable' \in [Task -> SUBSET Rows]
    BY <1>4 DEF Merge, TypeOK, Rows
  <2>4. QED
    BY <1>4, <2>1, <2>2, <2>3 DEF Merge, TypeOK, breaker, jira, locals, pages
<1>5. CASE Finish
  BY <1>5 DEF Finish, TypeOK, breaker, jira, locals, pages
<1>6. CASE Crash
  <2>1. \A t \in Task : Victims(t) \subseteq Object
    BY DEF Victims, Live
  <2>2. killed' \in [Task -> Object \cup {NoObject}]
    BY <1>6, <2>1 DEF Crash, TypeOK
  <2>3. life' \in [Object -> {"unborn", "live", "dying", "dead"}]
    BY <1>6 DEF Crash, TypeOK
  <2>4. /\ paging' \in SUBSET Task /\ used' \in SUBSET Use
        /\ seen' \in [Task -> SUBSET Fact] /\ ahead' \in [Task -> SUBSET Fact]
        /\ missed' \in [Task -> SUBSET Fact]
    BY <1>6 DEF Crash, TypeOK
  <2>5. QED
    BY <1>6, <2>2, <2>3, <2>4 DEF Crash, TypeOK, breaker
<1>7. CASE AdminActs
  <2>1. life' \in [Object -> {"unborn", "live", "dying", "dead"}]
    BY <1>7 DEF AdminActs, TypeOK
  <2>2. used' \in SUBSET Use
    <3>1. CASE UNCHANGED used
      BY <3>1 DEF TypeOK
    <3>2. CASE ~UNCHANGED used
      <4>1. PICK o \in Object, f \in AppFindings : \E aspect \in Checked(f.kind) :
              used' = used \ {<<o, aspect>>} \/ used' = used \cup {<<o, aspect>>}
        BY <1>7, <3>2 DEF AdminActs
      <4>2. PICK aspect \in Checked(f.kind) :
              used' = used \ {<<o, aspect>>} \/ used' = used \cup {<<o, aspect>>}
        BY <4>1
      <4>3. <<o, aspect>> \in Use
        BY DEF Use, AppFindings
      <4> QED BY <4>2, <4>3 DEF TypeOK
    <3> QED BY <3>1, <3>2
  <2>3. QED
    BY <1>7, <2>1, <2>2, PagesMove DEF AdminActs, TypeOK, engine, breaker
<1>8. CASE AsyncDeleteEnds
  <2>1. life' \in [Object -> {"unborn", "live", "dying", "dead"}]
    BY <1>8 DEF AsyncDeleteEnds, TypeOK
  <2>2. QED
    BY <1>8, <2>1, PagesMove DEF AsyncDeleteEnds, TypeOK, engine, breaker
<1>9. CASE UNCHANGED vars
  BY <1>9 DEF vars, TypeOK
<1>10. QED
  BY <1>1, <1>2, <1>3, <1>4, <1>5, <1>6, <1>7, <1>8, <1>9 DEF Next

\* Every reachable state of every instance is well typed.
THEOREM TypeCorrect == Spec => []TypeOK
<1>1. QED
  BY TypeInit, TypeNext, PTL DEF Spec
-----------------------------------------------------------------------------
(* The breaker.  BreakerBound is not inductive: it says nothing of the     *)
(* DELETEs that have passed the gate and not yet reported.  The invariant  *)
(* counts them too, and the pool bounds how many there are when the        *)
(* breaker trips.                                                          *)

BreakerInv ==
  /\ Cardinality(Running) <= Workers
  /\ Threshold > 0 => /\ ~tripped => failures <= Threshold - 1
                      /\ failures + Cardinality(InFlight) <= Threshold + Workers - 1

\* The running tasks and the tasks in flight are finite sets of tasks.
LEMMA CountsAreNat ==
  /\ IsFiniteSet(Running) /\ Cardinality(Running) \in Nat
  /\ IsFiniteSet(InFlight) /\ Cardinality(InFlight) \in Nat
  /\ Cardinality(InFlight) <= Cardinality(Running)
<1>1. Running \in SUBSET Task /\ InFlight \in SUBSET Running
  BY DEF Running, InFlight
<1>2. IsFiniteSet(Running)
  BY <1>1, TaskFinite, FS_Subset
<1>3. QED
  BY <1>1, <1>2, FS_Subset, FS_CardinalityType

\* A task that leaves the request/report window, or never was in it, frees its slot.
LEMMA LeavesFlight ==
  ASSUME TypeOK, BreakerInv, NEW t \in Task, t \in Running,
         NEW point \in Points \ {"queued", "send", "record"},
         pc' = [pc EXCEPT ![t] = point]
  PROVE  /\ InFlight' = InFlight \ {t}
         /\ Cardinality(InFlight') \in Nat
         /\ t \in InFlight => Cardinality(InFlight') = Cardinality(InFlight) - 1
         /\ t \notin InFlight => Cardinality(InFlight') = Cardinality(InFlight)
         /\ Cardinality(Running') <= Workers
<1>1. InFlight' = InFlight \ {t}
  BY DEF InFlight, TypeOK
<1>2. Running' = IF point = "done" THEN Running \ {t} ELSE Running
  BY DEF Running, TypeOK, Points
<1>3. Cardinality(Running') <= Cardinality(Running) /\ Cardinality(Running') \in Nat
  <2>1. Running' \in SUBSET Running
    BY <1>2
  <2>2. QED
    BY <2>1, CountsAreNat, FS_Subset, FS_CardinalityType
<1>4. Cardinality(InFlight') = IF t \in InFlight THEN Cardinality(InFlight) - 1
                                                 ELSE Cardinality(InFlight)
  BY <1>1, CountsAreNat, FS_RemoveElement
<1>5. Cardinality(InFlight') \in Nat
  BY <1>1, CountsAreNat, FS_RemoveElement, FS_CardinalityType
<1>6. QED
  BY <1>1, <1>3, <1>4, <1>5, CountsAreNat, WorkersAssumption DEF BreakerInv

\* A task that leaves the window without touching the breaker keeps the invariant.
LEMMA LeavesQuietly ==
  ASSUME TypeOK, BreakerInv, NEW t \in Task, t \in Running,
         NEW point \in Points \ {"queued", "send", "record"},
         pc' = [pc EXCEPT ![t] = point], UNCHANGED breaker
  PROVE  BreakerInv'
<1>1. /\ Cardinality(InFlight') \in Nat
      /\ t \in InFlight => Cardinality(InFlight') = Cardinality(InFlight) - 1
      /\ t \notin InFlight => Cardinality(InFlight') = Cardinality(InFlight)
      /\ Cardinality(Running') <= Workers
  BY LeavesFlight
<1>2. QED
  BY <1>1, CountsAreNat, ThresholdAssumption, WorkersAssumption DEF BreakerInv, TypeOK, breaker

LEMMA BreakerTaskStep ==
  ASSUME TypeOK, BreakerInv, NEW t, TaskStep(t)
  PROVE  BreakerInv'
<1>0. t \in Task
  BY TaskStepMoves
<1>01. t \in Running
  BY <1>0 DEF TaskStep, ReadPage, Resolve, Check, Gate, Delete, RecordStatus, LogDelete, Confirm,
              ReadFails, TaskRaises, At, Running
<1>1. CASE Resolve(t) \/ Check(t) \/ LogDelete(t) \/ Confirm(t) \/ ReadFails(t) \/ TaskRaises(t)
  <2>1. \E point \in {"check", "gate", "confirm", "done"} : pc' = [pc EXCEPT ![t] = point]
    BY <1>1 DEF Resolve, Check, LogDelete, Confirm, ReadFails, TaskRaises, Return,
                RecordAndReturn, GoTo
  <2>2. UNCHANGED breaker
    BY <1>1 DEF Resolve, Check, LogDelete, Confirm, ReadFails, TaskRaises
  <2>3. QED
    BY <1>0, <1>01, <2>1, <2>2, LeavesQuietly DEF Points
<1>2. CASE Gate(t) /\ ~(pc' = [pc EXCEPT ![t] = "send"] /\ ~tripped)
  <2>1. pc' = [pc EXCEPT ![t] = "done"] /\ UNCHANGED breaker
    BY <1>2 DEF Gate, RecordAndReturn, Return, GoTo
  <2>2. QED
    BY <1>0, <1>01, <2>1, LeavesQuietly DEF Points
<1>3. CASE Gate(t) /\ pc' = [pc EXCEPT ![t] = "send"] /\ ~tripped
  <2>1. Running' = Running
    BY <1>0, <1>01, <1>3 DEF Running, TypeOK
  <2>2. Cardinality(InFlight)' <= Cardinality(Running)' /\ Cardinality(InFlight)' \in Nat
    <3>1. Running' \in SUBSET Task /\ InFlight' \in SUBSET Running'
      BY DEF Running, InFlight
    <3>2. QED
      BY <2>1, <3>1, CountsAreNat, FS_Subset, FS_CardinalityType
  <2>3. UNCHANGED breaker
    BY <1>3 DEF Gate
  <2>4. QED
    BY <1>3, <2>1, <2>2, <2>3, CountsAreNat, ThresholdAssumption, WorkersAssumption
       DEF BreakerInv, TypeOK, breaker
<1>4. CASE Delete(t)
  <2>1. Running' = Running /\ InFlight' = InFlight
    BY <1>0, <1>4 DEF Delete, At, Running, InFlight, TypeOK
  <2>2. QED
    BY <1>4, <2>1 DEF Delete, BreakerInv, breaker
<1>5. CASE RecordStatus(t)
  <2>1. pc' = [pc EXCEPT ![t] = "log"] /\ t \in InFlight
    BY <1>0, <1>5 DEF RecordStatus, At, GoTo, InFlight
  <2>2. /\ Cardinality(InFlight') = Cardinality(InFlight) - 1
        /\ Cardinality(Running') <= Workers
    BY <1>0, <1>01, <2>1, LeavesFlight DEF Points
  <2>3. CASE Threshold > 0 /\ status[t] = "5xx"
    <3>1. failures' = failures + 1
      BY <1>5, <2>3 DEF RecordStatus
    <3>2. ~tripped' => ~(failures + 1 >= Threshold)
      BY <1>5, <2>3, Zenon DEF RecordStatus
    <3>3. QED
      BY <2>2, <3>1, <3>2, CountsAreNat, ThresholdAssumption, WorkersAssumption
         DEF BreakerInv, TypeOK
  <2>4. CASE ~(Threshold > 0 /\ status[t] = "5xx")
    <3>1. UNCHANGED breaker
      BY <1>5, <2>4 DEF RecordStatus
    <3>2. QED
      BY <2>2, <3>1, CountsAreNat, ThresholdAssumption, WorkersAssumption
         DEF BreakerInv, TypeOK, breaker
  <2>5. QED
    BY <2>3, <2>4
<1>6. CASE ReadPage(t)
  BY <1>6 DEF ReadPage, BreakerInv, Running, InFlight, breaker
<1>7. QED
  BY <1>1, <1>2, <1>3, <1>4, <1>5, <1>6 DEF TaskStep

LEMMA BreakerNext ==
  TypeOK /\ BreakerInv /\ [Next]_vars => BreakerInv'
<1> SUFFICES ASSUME TypeOK, BreakerInv, [Next]_vars PROVE BreakerInv'
  OBVIOUS
<1>1. ASSUME NEW refs \in Selections, NEW preview \in BOOLEAN, Begin(refs, preview)
      PROVE BreakerInv'
  <2>1. Running' = {} /\ InFlight' = {} /\ failures' = 0
    BY <1>1 DEF Begin, Running, InFlight
  <2>2. QED
    BY <2>1, FS_EmptySet, ThresholdAssumption, WorkersAssumption DEF BreakerInv
<1>2. ASSUME NEW t \in Task, Start(t) PROVE BreakerInv'
  <2>1. Running' \subseteq Running \cup {t} /\ InFlight' \subseteq InFlight
    BY <1>2 DEF Start, Running, InFlight, TypeOK
  <2>2. Cardinality(Running') <= Workers
    <3>1. /\ IsFiniteSet(Running \cup {t}) /\ Cardinality(Running \cup {t}) <= Workers
          /\ Cardinality(Running \cup {t}) \in Nat
      <4>1. IsFiniteSet(Running \cup {t}) /\ Cardinality(Running \cup {t}) \in Nat
        BY CountsAreNat, FS_AddElement, FS_CardinalityType
      <4>2. Cardinality(Running \cup {t}) = IF t \in Running THEN Cardinality(Running)
                                                             ELSE Cardinality(Running) + 1
        BY CountsAreNat, FS_AddElement
      <4>3. Cardinality(Running) < Workers
        BY <1>2 DEF Start
      <4>4. QED
        BY <4>1, <4>2, <4>3, CountsAreNat, WorkersAssumption
    <3>2. Cardinality(Running') <= Cardinality(Running \cup {t}) /\ Cardinality(Running') \in Nat
      BY <2>1, <3>1, FS_Subset, FS_CardinalityType
    <3>3. QED
      BY <3>1, <3>2, WorkersAssumption
  <2>3. Cardinality(InFlight') <= Cardinality(InFlight) /\ Cardinality(InFlight') \in Nat
    BY <2>1, CountsAreNat, FS_Subset, FS_CardinalityType
  <2>4. UNCHANGED breaker
    BY <1>2 DEF Start
  <2>5. QED
    BY <2>2, <2>3, <2>4, CountsAreNat, ThresholdAssumption, WorkersAssumption
       DEF BreakerInv, TypeOK, breaker
<1>3. ASSUME NEW t \in Task, TaskStep(t) PROVE BreakerInv'
  BY <1>3, BreakerTaskStep
<1>4. CASE Merge \/ Finish \/ Crash \/ AdminActs \/ AsyncDeleteEnds \/ UNCHANGED vars
  <2>1. UNCHANGED pc /\ UNCHANGED breaker
    BY <1>4 DEF Merge, Finish, Crash, AdminActs, AsyncDeleteEnds, vars, breaker
  <2>2. QED
    BY <2>1 DEF BreakerInv, Running, InFlight, breaker
<1>5. QED
  BY <1>1, <1>2, <1>3, <1>4 DEF Next

\* At most Threshold + Workers - 1 DELETEs of a batch end in a server-side failure.
THEOREM BreakerBoundHolds == Spec => []BreakerBound
<1>1. Init => BreakerInv
  <2>1. Init => Running = {} /\ InFlight = {} /\ failures = 0
    BY DEF Init, Running, InFlight
  <2>2. QED
    BY <2>1, FS_EmptySet, ThresholdAssumption, WorkersAssumption DEF BreakerInv
<1>2. TypeOK /\ BreakerInv => BreakerBound
  BY CountsAreNat, ThresholdAssumption, WorkersAssumption DEF BreakerInv, BreakerBound, TypeOK
<1>3. QED
  BY <1>1, <1>2, TypeCorrect, BreakerNext, PTL DEF Spec
-----------------------------------------------------------------------------
(* The blast radius and the write-through.  TaskInv follows one task from  *)
(* its DELETE to its durable row, BatchInv says that nothing is merged     *)
(* while a task still runs.                                                *)

TaskInv(t) ==
  /\ pc[t] # "queued" => t \in Batch /\ t < next /\ Len(batch) <= Cap
  /\ pc[t] \in {"send", "record", "log", "confirm"} => ~dryRun
  /\ pc[t] = "confirm" => "DELETE" \in durable[t]
  /\ killed[t] # NoObject =>
       /\ ~dryRun
       /\ \/ pc[t] \in {"record", "log", "confirm", "done"}
          \/ pc[t] = "send" /\ phase = "crashed"
       /\ pc[t] = "done" => "DELETE" \in durable[t] \/ verdict[t] = "crashed"
  /\ t <= merged /\ verdict[t] = "crashed" => "ERROR" \in durable[t]

BatchInv ==
  /\ phase = "running" => Len(batch) <= Cap
  /\ merged > 0 => PoolDrained
  /\ phase = "done" => PoolDrained /\ merged = Len(batch)

WriteInv == BatchInv /\ \A t \in Task : TaskInv(t)

\* A task's step leaves the other tasks alone.
LEMMA TaskStepFrame ==
  ASSUME TypeOK, NEW t, TaskStep(t), NEW u \in Task, u # t
  PROVE  pc'[u] = pc[u] /\ killed'[u] = killed[u] /\ durable'[u] = durable[u]
         /\ verdict'[u] = verdict[u]
<1>1. CASE Resolve(t)
  <2>1. /\ killed' = killed
        /\ \/ RecordAndReturn(t, "closed", "GET") \/ RecordAndReturn(t, "still_open", "GET")
           \/ RecordAndReturn(t, "still_open", "SKIP")
           \/ GoTo(t, "gate") \/ GoTo(t, "check")
    BY <1>1 DEF Resolve
  <2>2. QED
    BY <2>1 DEF TypeOK, Return, RecordAndReturn, GoTo
<1> USE DEF TypeOK, Return, RecordAndReturn, GoTo
<1>2. CASE Check(t)
  BY <1>2 DEF Check
<1>3. CASE Gate(t)
  BY <1>3 DEF Gate
<1>4. CASE Delete(t)
  BY <1>4 DEF Delete
<1>5. CASE RecordStatus(t)
  BY <1>5 DEF RecordStatus
<1>6. CASE LogDelete(t)
  BY <1>6 DEF LogDelete
<1>7. CASE Confirm(t)
  BY <1>7 DEF Confirm
<1>8. CASE ReadFails(t)
  BY <1>8 DEF ReadFails
<1>9. CASE TaskRaises(t)
  BY <1>9 DEF TaskRaises
<1>10. CASE ReadPage(t)
  BY <1>10 DEF ReadPage
<1>11. QED
  BY <1>1, <1>2, <1>3, <1>4, <1>5, <1>6, <1>7, <1>8, <1>9, <1>10 DEF TaskStep

\* What a step of task t does to the invariant's part about t.
LEMMA TaskStepOwn ==
  ASSUME TypeOK, WriteInv, NEW t, TaskStep(t)
  PROVE  TaskInv(t)'
<1>0. t \in Task /\ phase = "running" /\ UNCHANGED <<phase, batch, dryRun, next, merged>>
  BY TaskStepMoves DEF engine
<1>1. t \in Batch /\ t < next /\ Len(batch) <= Cap /\ merged = 0
  <2>1. t \in Running
    BY <1>0 DEF TaskStep, ReadPage, Resolve, Check, Gate, Delete, RecordStatus, LogDelete, Confirm,
                ReadFails, TaskRaises, At, Running
  <2>2. QED
    BY <1>0, <2>1 DEF WriteInv, BatchInv, TaskInv, PoolDrained, Running, TypeOK
<1>2. ~(t <= merged')
  BY <1>0, <1>1 DEF Task
<1>3. t \in Batch' /\ t < next' /\ Len(batch') <= Cap
  BY <1>0, <1>1 DEF Batch
<1>4. TaskInv(t)
  BY <1>0 DEF WriteInv
<1> USE <1>0, <1>2, <1>3, <1>4 DEF TaskInv, TypeOK, At, Return, RecordAndReturn, GoTo
<1>5. CASE Resolve(t)
  BY <1>5 DEF Resolve
<1>6. CASE Check(t)
  BY <1>6 DEF Check
<1>7. CASE Gate(t)
  BY <1>7 DEF Gate
<1>8. CASE Delete(t)
  BY <1>8 DEF Delete
<1>9. CASE RecordStatus(t)
  BY <1>9 DEF RecordStatus
<1>10. CASE LogDelete(t)
  BY <1>10 DEF LogDelete
<1>11. CASE Confirm(t)
  BY <1>11 DEF Confirm
<1>12. CASE ReadFails(t)
  BY <1>12 DEF ReadFails
<1>13. CASE TaskRaises(t)
  BY <1>13 DEF TaskRaises
<1>14. CASE ReadPage(t)
  BY <1>14 DEF ReadPage
<1>15. QED
  BY <1>5, <1>6, <1>7, <1>8, <1>9, <1>10, <1>11, <1>12, <1>13, <1>14 DEF TaskStep

LEMMA WriteTaskStep ==
  ASSUME TypeOK, WriteInv, NEW t, TaskStep(t)
  PROVE  WriteInv'
<1>0. t \in Task /\ phase = "running" /\ t \in Running
  BY TaskStepMoves DEF TaskStep, ReadPage, Resolve, Check, Gate, Delete, RecordStatus, LogDelete, Confirm,
                       ReadFails, TaskRaises, At, Running
<1>1. UNCHANGED <<phase, batch, dryRun, next, merged>>
  BY TaskStepMoves DEF engine
<1>2. BatchInv'
  <2>1. merged = 0
    BY <1>0 DEF WriteInv, BatchInv, PoolDrained, TypeOK
  <2>2. QED
    BY <1>0, <1>1, <2>1 DEF WriteInv, BatchInv
<1>3. ASSUME NEW u \in Task, u # t PROVE TaskInv(u)'
  BY <1>1, <1>3, TaskStepFrame DEF WriteInv, TaskInv, Batch
<1>4. QED
  BY <1>2, <1>3, TaskStepOwn DEF WriteInv

LEMMA WriteNext == TypeOK /\ WriteInv /\ [Next]_vars => WriteInv'
<1> SUFFICES ASSUME TypeOK, WriteInv, [Next]_vars PROVE WriteInv'
  OBVIOUS
<1>1. ASSUME NEW refs \in Selections, NEW preview \in BOOLEAN, Begin(refs, preview)
      PROVE WriteInv'
  <2>1. Len(batch') \in 0..MaxTasks /\ (phase' = "running" => Len(batch') <= Cap)
    BY <1>1, SelectionsAssumption, CapAssumption, MaxTasksAssumption DEF Begin
  <2>2. phase' # "done" /\ merged' = 0
    BY <1>1 DEF Begin
  <2>3. ASSUME NEW t \in Task PROVE TaskInv(t)'
    <3>1. pc'[t] = "queued" /\ killed'[t] = NoObject /\ verdict'[t] = "none"
      BY <1>1 DEF Begin
    <3>2. QED
      BY <3>1 DEF TaskInv
  <2>4. QED
    BY <2>1, <2>2, <2>3 DEF WriteInv, BatchInv
<1>2. ASSUME NEW t \in Task, Start(t) PROVE WriteInv'
  <2>1. t \in Batch /\ Len(batch) <= Cap /\ merged = 0
    BY <1>2 DEF Start, WriteInv, BatchInv, PoolDrained, Batch, TypeOK
  <2>2. BatchInv'
    BY <1>2, <2>1 DEF Start, WriteInv, BatchInv
  <2>3. ASSUME NEW u \in Task PROVE TaskInv(u)'
    <3>1. pc'[u] = IF u = t THEN "resolve" ELSE pc[u]
      BY <1>2 DEF Start, TypeOK
    <3>2. TaskInv(u) /\ phase = "running" /\ (u = t => pc[t] \in Points)
      BY <1>2 DEF WriteInv, Start, TypeOK
    <3>3. u = t => killed[u] = NoObject
      <4>1. CASE u = t
        <5>1. t = next /\ next \in Int
          BY <1>2 DEF Start, TypeOK
        <5>2. pc[t] = "queued"
          BY <3>2, <4>1, <5>1 DEF TaskInv
        <5>3. QED
          BY <4>1, <5>2, <3>2 DEF TaskInv
      <4>2. QED
        BY <4>1
    <3>4. next' = next + 1 /\ next \in Nat /\ t = next
      BY <1>2 DEF Start, TypeOK
    <3>5. QED
      BY <1>2, <2>1, <3>1, <3>2, <3>3, <3>4 DEF TaskInv, Start, Batch, Task
  <2>4. QED
    BY <2>2, <2>3 DEF WriteInv
<1>3. ASSUME NEW t \in Task, TaskStep(t) PROVE WriteInv'
  BY <1>3, WriteTaskStep
<1>4. CASE Merge
  <2>1. BatchInv'
    BY <1>4 DEF Merge, WriteInv, BatchInv, PoolDrained, Running, TypeOK
  <2>2. ASSUME NEW u \in Task PROVE TaskInv(u)'
    <3>1. /\ pc' = pc /\ killed' = killed /\ verdict' = verdict /\ batch' = batch
          /\ dryRun' = dryRun /\ phase = "running"
      BY <1>4 DEF Merge
    <3>2. durable[u] \subseteq durable'[u]
      BY <1>4 DEF Merge, TypeOK
    <3>3. u <= merged' /\ verdict[u] = "crashed" => "ERROR" \in durable'[u]
      <4>1. CASE merged' = merged
        BY <3>2, <4>1 DEF WriteInv, TaskInv
      <4>2. CASE merged' = merged + 1
        <5>1. merged \in Nat /\ merged + 1 # merged
          BY DEF TypeOK
        <5>2. verdict[merged + 1] = "crashed" =>
                durable' = [durable EXCEPT ![merged + 1] = @ \cup {"ERROR"}]
          BY <1>4, <4>2, <5>1 DEF Merge
        <5>3. u <= merged' => u <= merged \/ u = merged + 1
          BY <4>2, <5>1 DEF Task
        <5>4. QED
          BY <3>2, <5>2, <5>3 DEF WriteInv, TaskInv, TypeOK
      <4>3. QED
        BY <1>4, <4>1, <4>2 DEF Merge
    <3>4. next' = next /\ TaskInv(u) /\ phase' # "crashed"
      BY <1>4 DEF Merge, WriteInv
    <3>5. QED
      BY <3>1, <3>2, <3>3, <3>4 DEF TaskInv, Batch
  <2>3. QED
    BY <2>1, <2>2 DEF WriteInv
<1>5. CASE Finish
  <2>1. BatchInv'
    BY <1>5 DEF Finish, WriteInv, BatchInv, PoolDrained, Running
  <2>2. ASSUME NEW u \in Task PROVE TaskInv(u)'
    BY <1>5 DEF Finish, WriteInv, TaskInv, Batch
  <2>3. QED
    BY <2>1, <2>2 DEF WriteInv
<1>6. CASE Crash
  <2>1. BatchInv'
    BY <1>6 DEF Crash, WriteInv, BatchInv, PoolDrained, Running
  <2>2. ASSUME NEW u \in Task PROVE TaskInv(u)'
    <3>1. killed'[u] = killed[u] \/ pc[u] = "send"
      BY <1>6 DEF Crash
    <3>2. QED
      BY <1>6, <3>1 DEF Crash, WriteInv, TaskInv, Batch
  <2>3. QED
    BY <2>1, <2>2 DEF WriteInv
<1>7. CASE AdminActs \/ AsyncDeleteEnds \/ UNCHANGED vars
  <2>1. UNCHANGED <<phase, batch, dryRun, next, merged, pc, verdict, durable, killed>>
    BY <1>7 DEF AdminActs, AsyncDeleteEnds, vars, engine
  <2>2. BatchInv' /\ \A u \in Task : TaskInv(u)'
    BY <2>1 DEF WriteInv, BatchInv, TaskInv, PoolDrained, Running, Batch
  <2>3. QED
    BY <2>2 DEF WriteInv
<1>8. QED
  BY <1>1, <1>2, <1>3, <1>4, <1>5, <1>6, <1>7 DEF Next

LEMMA WriteInit == Init => WriteInv
<1> SUFFICES ASSUME Init PROVE WriteInv
  OBVIOUS
<1>1. BatchInv
  BY DEF Init, BatchInv
<1>2. ASSUME NEW t \in Task PROVE TaskInv(t)
  BY DEF Init, TaskInv
<1>3. QED
  BY <1>1, <1>2 DEF WriteInv

\* A batch removes at most Cap objects and a dry run none.
THEOREM BlastRadiusHolds == Spec => []BlastRadius
<1>1. TypeOK /\ WriteInv => BlastRadius
  <2> SUFFICES ASSUME TypeOK, WriteInv PROVE BlastRadius
    OBVIOUS
  <2> DEFINE Killers == {t \in Task : killed[t] # NoObject}
  <2>1. CASE Killers = {}
    BY <2>1, FS_EmptySet, CapAssumption DEF BlastRadius
  <2>2. CASE Killers # {}
    <3>1. Killers \subseteq 1..Len(batch) /\ Len(batch) <= Cap /\ ~dryRun
      BY <2>2 DEF WriteInv, TaskInv, Batch
    <3>2. Len(batch) \in Nat
      BY MaxTasksAssumption DEF TypeOK
    <3>3. IsFiniteSet(1..Len(batch)) /\ Cardinality(1..Len(batch)) = Len(batch)
      <4>1. IsFiniteSet(1..Len(batch))
            /\ Cardinality(1..Len(batch)) = IF 1 > Len(batch) THEN 0 ELSE Len(batch) - 1 + 1
        <5> DEFINE n == Len(batch)
        <5>1. n \in Int /\ 1 \in Int
          BY <3>2
        <5> HIDE DEF n
        <5>2. IsFiniteSet(1..n) /\ Cardinality(1..n) = IF 1 > n THEN 0 ELSE n - 1 + 1
          BY <5>1, FS_Interval
        <5>3. QED
          BY <5>2 DEF n
      <4>2. QED
        BY <3>2, <4>1
    <3>4. Cardinality(Killers) <= Len(batch) /\ Cardinality(Killers) \in Nat
      BY <3>1, <3>3, FS_Subset, FS_CardinalityType
    <3>5. QED
      BY <3>1, <3>2, <3>4, CapAssumption DEF BlastRadius
  <2>3. QED
    BY <2>1, <2>2
<1>2. QED
  BY <1>1, TypeCorrect, WriteInit, WriteNext, PTL DEF Spec

\* No object disappears without a durable row once its batch has returned.
THEOREM NoSilentDeleteHolds == Spec => []NoSilentDelete
<1>1. TypeOK /\ WriteInv => NoSilentDelete
  <2> SUFFICES ASSUME TypeOK, WriteInv, NEW t \in Task, killed[t] # NoObject
               PROVE  \/ pc[t] \in {"send", "record", "log"} /\ phase # "done"
                      \/ durable[t] \cap {"DELETE", "ERROR"} # {}
                      \/ verdict[t] = "crashed" /\ phase # "done"
    BY DEF NoSilentDelete
  <2>1. TaskInv(t) /\ BatchInv
    BY DEF WriteInv
  <2>2. CASE phase # "done"
    BY <2>1, <2>2 DEF TaskInv
  <2>3. CASE phase = "done"
    <3>1. pc[t] = "done" /\ t <= merged
      BY <2>1, <2>3 DEF TaskInv, BatchInv, PoolDrained, Running, Batch, TypeOK
    <3>2. QED
      BY <2>1, <3>1 DEF TaskInv
  <2>4. QED
    BY <2>2, <2>3
<1>2. QED
  BY <1>1, TypeCorrect, WriteInit, WriteNext, PTL DEF Spec

-----------------------------------------------------------------------------
(* The instance a task reads: who lives, what is in use, and what has      *)
(* stood since a task began.                                               *)

\* Nobody is born twice, and the dead stay dead.
LEMMA LifeMoves ==
  ASSUME TypeOK, [Next]_vars, NEW o \in Object
  PROVE  /\ life[o] # "unborn" => life'[o] # "unborn"
         /\ life[o] = "dead" => life'[o] = "dead"
<1>1. CASE UNCHANGED life
  BY <1>1
<1>2. ASSUME NEW t \in Task, Delete(t), ~UNCHANGED life
      PROVE  \E v \in Victims(t) : life' \in {[life EXCEPT ![v] = "dying"], [life EXCEPT ![v] = "dead"]}
  BY <1>2 DEF Delete
<1>3. ASSUME NEW t \in Task, Delete(t)
      PROVE  (life[o] # "unborn" => life'[o] # "unborn") /\ (life[o] = "dead" => life'[o] = "dead")
  <2>1. CASE UNCHANGED life
    BY <2>1
  <2>2. CASE ~UNCHANGED life
    <3>1. PICK v \in Victims(t) :
            life' \in {[life EXCEPT ![v] = "dying"], [life EXCEPT ![v] = "dead"]}
      BY <1>2, <1>3, <2>2
    <3>2. v \in Object /\ life[v] \in {"live", "dying"}
      BY DEF Victims, Live
    <3> QED BY <3>1, <3>2 DEF TypeOK
  <2> QED BY <2>1, <2>2
<1>4. CASE Crash
  BY <1>4 DEF Crash
<1>5. CASE AdminActs \/ AsyncDeleteEnds
  BY <1>5 DEF AdminActs, AsyncDeleteEnds, TypeOK
<1>6. ASSUME NEW t \in Task, TaskStep(t), ~Delete(t) PROVE UNCHANGED life
  BY <1>6 DEF TaskStep, ReadPage, Resolve, Check, Gate, RecordStatus, LogDelete, Confirm, ReadFails,
              TaskRaises, jira
<1>7. ASSUME \/ \E refs \in Selections, preview \in BOOLEAN : Begin(refs, preview)
             \/ \E t \in Task : Start(t)
             \/ Merge \/ Finish \/ UNCHANGED vars
      PROVE UNCHANGED life
  BY <1>7 DEF Begin, Start, Merge, Finish, vars, jira
<1> QED BY <1>1, <1>3, <1>4, <1>5, <1>6, <1>7 DEF Next

\* Only the beginning of a batch changes what the batch is about.
LEMMA BatchFrame ==
  ASSUME TypeOK, [Next]_vars,
         \A refs \in Selections, preview \in BOOLEAN : ~Begin(refs, preview)
  PROVE  UNCHANGED <<batch, dryRun, before>>
<1>1. ASSUME NEW t \in Task, TaskStep(t) PROVE UNCHANGED <<batch, dryRun, before>>
  BY <1>1, TaskStepMoves DEF engine
<1>2. ASSUME (\E t \in Task : Start(t)) \/ Merge \/ Finish \/ Crash \/ AdminActs
             \/ AsyncDeleteEnds \/ UNCHANGED vars
      PROVE  UNCHANGED <<batch, dryRun, before>>
  BY <1>2 DEF Start, Merge, Finish, Crash, AdminActs, AsyncDeleteEnds, vars, engine
<1> QED BY <1>1, <1>2 DEF Next

(* A closed finding is gone.                                               *)

\* What the batch found unborn was unborn; nothing returns to that state.
LifeInv == \A o \in Object : life[o] = "unborn" => before.life[o] = "unborn"

LEMMA LifeNext == TypeOK /\ LifeInv /\ [Next]_vars => LifeInv'
<1> SUFFICES ASSUME TypeOK, LifeInv, [Next]_vars PROVE LifeInv'
  OBVIOUS
<1>1. ASSUME NEW refs \in Selections, NEW preview \in BOOLEAN, Begin(refs, preview)
      PROVE LifeInv'
  BY <1>1 DEF Begin, LifeInv
<1>2. ASSUME \A refs \in Selections, preview \in BOOLEAN : ~Begin(refs, preview)
      PROVE  LifeInv'
  BY <1>2, LifeMoves, BatchFrame DEF LifeInv
<1> QED BY <1>1, <1>2

\* The kinds of a batch are registered ones.
KindInv == \A t \in Batch : Kind(t) \in Applyable

LEMMA KindNext == TypeOK /\ KindInv /\ [Next]_vars => KindInv'
<1> SUFFICES ASSUME TypeOK, KindInv, [Next]_vars PROVE KindInv'
  OBVIOUS
<1>1. ASSUME NEW refs \in Selections, NEW preview \in BOOLEAN, Begin(refs, preview)
      PROVE KindInv'
  <2>1. batch' \in Seq(AppFindings)
    BY <1>1, SelectionsAssumption DEF Begin
  <2>2. \A t \in 1..Len(batch') : batch'[t] \in AppFindings
    BY <2>1, ElementOfSeq
  <2> QED BY <2>2 DEF KindInv, Batch, Kind, AppFindings
<1>2. ASSUME \A refs \in Selections, preview \in BOOLEAN : ~Begin(refs, preview)
      PROVE  KindInv'
  BY <1>2, BatchFrame DEF KindInv, Batch, Kind
<1> QED BY <1>1, <1>2

\* The live reads of the kinds that are applied.
LEMMA ReadsValue ==
  ASSUME NEW k \in Applyable
  PROVE  LiveReads(k) \in {<<>>, <<"projects">>, <<"members", "grants">>, <<"fields">>,
                           <<"screenschemes">>, <<"workflowschemes">>,
                           <<"screens", "values", "filters">>, <<"issues">>,
                           <<"workflows", "issues">>}
  BY DEF LiveReads, Applyable, GenericKinds, ExpandedKinds

\* No usage a kind reads is called a row.
LEMMA ReadsType ==
  ASSUME NEW k \in Applyable
  PROVE  /\ Len(LiveReads(k)) \in Nat /\ (LiveReads(k) # <<>> => Len(LiveReads(k)) > 0)
         /\ LiveReads(k) = <<>> => Len(LiveReads(k)) = 0
         /\ "row" \notin Checked(k)
<1> DEFINE reads == LiveReads(k)
<1>1. reads \in {<<>>, <<"projects">>, <<"members", "grants">>, <<"fields">>,
                 <<"screenschemes">>, <<"workflowschemes">>, <<"screens", "values", "filters">>,
                 <<"issues">>, <<"workflows", "issues">>}
  BY ReadsValue
<1>2. "row" \notin InlineReads(k)
  BY DEF InlineReads
<1>3. "row" \notin {reads[i] : i \in 1..Len(reads)} \cup InlineReads(k) => "row" \notin Checked(k)
  BY DEF Checked
<1> HIDE DEF reads
<1>4. Len(reads) \in Nat /\ (reads # <<>> => Len(reads) > 0) /\ (reads = <<>> => Len(reads) = 0)
  BY <1>1
<1>5. \A i \in 1..Len(reads) : reads[i] # "row"
  BY <1>1
<1>6. "row" \notin Checked(k)
  BY <1>2, <1>3, <1>5
<1> QED BY <1>4, <1>6 DEF reads

\* Nothing that was never created is in use, and a use is no row.
UsedInv ==
  \A use \in used : use[1] \in Object /\ life[use[1]] # "unborn" /\ use[2] # "row"

LEMMA UsedInit == Init => UsedInv
<1> SUFFICES ASSUME Init, NEW use \in used
             PROVE  use[1] \in Object /\ life[use[1]] # "unborn" /\ use[2] # "row"
  BY DEF UsedInv
<1>1. use \in Use /\ life[use[1]] = "live"
  BY UsedAtFirstAssumption DEF Init
<1>2. PICK k \in Applyable : use[1] \in Object /\ use[2] \in Checked(k)
  BY <1>1 DEF Use
<1> QED BY <1>1, <1>2, ReadsType

LEMMA UsedNext == TypeOK /\ UsedInv /\ [Next]_vars => UsedInv'
<1> SUFFICES ASSUME TypeOK, UsedInv, [Next]_vars PROVE UsedInv'
  OBVIOUS
<1>1. CASE UNCHANGED used
  BY <1>1, LifeMoves DEF UsedInv
<1>2. CASE AdminActs
  <2>1. CASE UNCHANGED used
    BY <1>1, <2>1
  <2>2. CASE ~UNCHANGED used
    <3>0. PICK f \in AppFindings :
            \E o \in Object, aspect \in Checked(f.kind) :
              life[o] = "live" /\ used' \subseteq used \cup {<<o, aspect>>}
      BY <1>2, <2>2 DEF AdminActs
    <3>1. PICK o \in Object, aspect \in Checked(f.kind) :
            life[o] = "live" /\ used' \subseteq used \cup {<<o, aspect>>}
      BY <3>0
    <3>2. aspect # "row"
      BY <3>1, ReadsType DEF AppFindings
    <3> QED BY <3>1, <3>2, LifeMoves DEF UsedInv
  <2> QED BY <2>1, <2>2
<1>3. ASSUME NEW t \in Task, TaskStep(t) PROVE UNCHANGED used
  BY <1>3 DEF TaskStep, ReadPage, Resolve, Check, Gate, Delete, RecordStatus, LogDelete, Confirm, ReadFails,
              TaskRaises, jira
<1>4. ASSUME \/ \E refs \in Selections, preview \in BOOLEAN : Begin(refs, preview)
             \/ \E t \in Task : Start(t)
             \/ Merge \/ Finish \/ Crash \/ AsyncDeleteEnds \/ UNCHANGED vars
      PROVE UNCHANGED used
  BY <1>4 DEF Begin, Start, Merge, Finish, Crash, AsyncDeleteEnds, vars, jira
<1> QED BY <1>1, <1>2, <1>3, <1>4 DEF Next

HeldInv == DOMAIN held = Task /\ \A t \in Task : held[t] \subseteq Standing(life, used)

\* held[u] only shrinks, except when u starts, and follows every change of the instance.
LEMMA HeldMoves ==
  ASSUME TypeOK, HeldInv, [Next]_vars,
         \A refs \in Selections, preview \in BOOLEAN : ~Begin(refs, preview)
  PROVE  /\ DOMAIN held' = Task
         /\ \A u \in Task : held'[u] \subseteq held[u] \/ (Start(u) /\ held'[u] = Standing(life, used))
         /\ UNCHANGED <<life, used>> \/ \A u \in Task : held'[u] \subseteq Standing(life', used')
<1> USE DEF HeldInv, TrackHeld
<1>1. ASSUME NEW t \in Task, TaskStep(t), ~Delete(t)
      PROVE /\ UNCHANGED <<life, used>>
            /\ held' = held \/ held' = [held EXCEPT ![t] = {}]
  <2> USE DEF jira, locals, Return, RecordAndReturn
  <2>1. CASE ReadPage(t) \/ Resolve(t) \/ Check(t) \/ Gate(t)
    BY <2>1 DEF ReadPage, Resolve, Check, Gate
  <2>2. CASE RecordStatus(t) \/ LogDelete(t) \/ Confirm(t)
    BY <2>2 DEF RecordStatus, LogDelete, Confirm
  <2>3. CASE ReadFails(t) \/ TaskRaises(t)
    BY <2>3 DEF ReadFails, TaskRaises
  <2> QED BY <1>1, <2>1, <2>2, <2>3 DEF TaskStep
<1>2. ASSUME NEW t \in Task, TaskStep(t), ~Delete(t)
      PROVE /\ UNCHANGED <<life, used>> /\ DOMAIN held' = Task
            /\ \A u \in Task : held'[u] \subseteq held[u]
  BY <1>1, <1>2
<1>3. ASSUME NEW t \in Task, Start(t)
      PROVE /\ UNCHANGED <<life, used>> /\ DOMAIN held' = Task
            /\ \A u \in Task : held'[u] = IF u = t THEN Standing(life, used) ELSE held[u]
  BY <1>3 DEF Start, jira
<1>4. ASSUME (\E t \in Task : Delete(t)) \/ Crash \/ AdminActs \/ AsyncDeleteEnds
      PROVE held' = [t \in Task |-> held[t] \cap Standing(life', used')]
  BY <1>4 DEF Delete, Crash, AdminActs, AsyncDeleteEnds
<1>5. ASSUME Merge \/ Finish \/ UNCHANGED vars PROVE UNCHANGED <<life, used, held>>
  BY <1>5 DEF Merge, Finish, vars, jira, locals
<1> QED BY <1>2, <1>3, <1>4, <1>5 DEF Next

LEMMA HeldNext == TypeOK /\ HeldInv /\ [Next]_vars => HeldInv'
<1> SUFFICES ASSUME TypeOK, HeldInv, [Next]_vars PROVE HeldInv'
  OBVIOUS
<1>1. ASSUME NEW refs \in Selections, NEW preview \in BOOLEAN, Begin(refs, preview) PROVE HeldInv'
  BY <1>1 DEF Begin, HeldInv
<1>2. ASSUME \A refs \in Selections, preview \in BOOLEAN : ~Begin(refs, preview) PROVE HeldInv'
  <2>1. DOMAIN held' = Task
    BY <1>2, HeldMoves
  <2>2. ASSUME NEW u \in Task PROVE held'[u] \subseteq Standing(life', used')
    <3>1. held[u] \subseteq Standing(life, used)
      BY DEF HeldInv
    <3>2. held'[u] \subseteq held[u] \/ held'[u] = Standing(life, used)
      BY <1>2, HeldMoves
    <3>3. UNCHANGED <<life, used>> \/ held'[u] \subseteq Standing(life', used')
      BY <1>2, HeldMoves
    <3> QED BY <3>1, <3>2, <3>3
  <2> QED BY <2>1, <2>2 DEF HeldInv, Standing
<1> QED BY <1>1, <1>2

\* A task's step leaves the local variables of the other tasks alone.
LEMMA LocalsFrame ==
  ASSUME TypeOK, NEW t, TaskStep(t), NEW u \in Task, u # t
  PROVE  target'[u] = target[u] /\ read'[u] = read[u] /\ status'[u] = status[u]
<1> USE DEF TypeOK, Return, RecordAndReturn, locals
<1>1. CASE Resolve(t)
  <2>1. \/ RecordAndReturn(t, "closed", "GET") \/ RecordAndReturn(t, "still_open", "GET")
        \/ RecordAndReturn(t, "still_open", "SKIP")
        \/ \E o : target' = [target EXCEPT ![t] = o] /\ UNCHANGED <<read, status, held>>
    BY <1>1 DEF Resolve
  <2> QED BY <2>1
<1>2. CASE ReadPage(t) \/ Check(t) \/ Gate(t)
  BY <1>2 DEF ReadPage, Check, Gate
<1>3. CASE Delete(t) \/ RecordStatus(t)
  BY <1>3 DEF Delete, RecordStatus
<1>4. CASE LogDelete(t) \/ Confirm(t)
  BY <1>4 DEF LogDelete, Confirm
<1>5. CASE ReadFails(t) \/ TaskRaises(t)
  BY <1>5 DEF ReadFails, TaskRaises
<1> QED BY <1>1, <1>2, <1>3, <1>4, <1>5 DEF TaskStep

\* A task that takes no step keeps its place and its local variables.
LEMMA RestFrame ==
  ASSUME TypeOK, [Next]_vars,
         \A refs \in Selections, preview \in BOOLEAN : ~Begin(refs, preview),
         NEW u \in Task, ~TaskStep(u), ~Start(u)
  PROVE  pc'[u] = pc[u] /\ target'[u] = target[u] /\ read'[u] = read[u]
<1>1. ASSUME NEW t \in Task, TaskStep(t)
      PROVE  pc'[u] = pc[u] /\ target'[u] = target[u] /\ read'[u] = read[u]
  BY <1>1, TaskStepFrame, LocalsFrame
<1>2. ASSUME NEW t \in Task, Start(t)
      PROVE  pc'[u] = pc[u] /\ target'[u] = target[u] /\ read'[u] = read[u]
  BY <1>2 DEF Start, TypeOK
<1>3. ASSUME Merge \/ Finish \/ Crash \/ AdminActs \/ AsyncDeleteEnds \/ UNCHANGED vars
      PROVE  UNCHANGED <<pc, target, read>>
  BY <1>3 DEF Merge, Finish, Crash, AdminActs, AsyncDeleteEnds, vars, locals
<1> QED BY <1>1, <1>2, <1>3 DEF Next

\* What the readers rely on.
WorldInv == LifeInv /\ KindInv /\ UsedInv /\ HeldInv

LEMMA WorldNext == TypeOK /\ WorldInv /\ [Next]_vars => WorldInv'
  BY LifeNext, KindNext, UsedNext, HeldNext DEF WorldInv

LEMMA WorldInit == Init => WorldInv
  BY UsedInit DEF Init, WorldInv, LifeInv, KindInv, HeldInv, Batch

-----------------------------------------------------------------------------
(* What the pages of a list tell.  Between two pages every fact that has   *)
(* stood since the task began was told already, is still to be told, or    *)
(* fell out when a row before it was removed.                              *)

\* The objects of task t's list that bear its name, dead or alive.
Namesakes(t) == {o \in Object : ClassOf[o] = Endpoint(Kind(t)) /\ NameOf[o] = batch[t].name}

\* Told, ahead or lost: what has stood all along, and every bearer of the name.
Covered(t) == held[t] \cap Sought(t) \subseteq seen[t] \cup ahead[t] \cup missed[t]
Early(t) == {o \in Matching(t) : before.life[o] # "unborn"}
Listed(t) ==
  pc[t] # "check" => Early(t) \X {"row"} \subseteq seen[t] \cup ahead[t] \cup missed[t]

\* A row that was told told its usage with it.
Inlined(t) ==
  \A use \in held[t] : use[2] \in InlineReads(Kind(t)) /\ <<use[1], "row">> \in seen[t] =>
                         use \in seen[t]

\* A name is only resolved to objects that bear it.
Sound(t) ==
  pc[t] # "check" => \A o : <<o, "row">> \in seen[t] \cup ahead[t] => o \in Namesakes(t)

PagesInv(t) ==
  /\ t \notin paging => seen[t] = {}
  /\ t \in paging => /\ pc[t] \in {"resolve", "check", "confirm"}
                     /\ Covered(t) /\ Listed(t) /\ Inlined(t) /\ Sound(t)

\* What a task missed it has missed for the rest of the batch.
LEMMA MissedMoves ==
  ASSUME TypeOK, [Next]_vars,
         \A refs \in Selections, preview \in BOOLEAN : ~Begin(refs, preview), NEW u \in Task
  PROVE  missed[u] \subseteq missed'[u]
<1>1. ASSUME NEW t \in Task, TaskStep(t), ~Delete(t) PROVE UNCHANGED missed
  BY <1>1 DEF TaskStep, ReadPage, Resolve, Check, Gate, RecordStatus, LogDelete, Confirm,
              ReadFails, TaskRaises, ReadEnds, pages
<1>2. ASSUME (\E t \in Task : Start(t)) \/ Merge \/ Finish \/ Crash \/ UNCHANGED vars
      PROVE  UNCHANGED missed
  BY <1>2 DEF Start, Merge, Finish, Crash, vars, pages
<1>3. ASSUME (\E t \in Task : Delete(t)) \/ AdminActs \/ AsyncDeleteEnds
      PROVE  missed[u] \subseteq missed'[u]
  BY <1>3, PagesMove DEF Drifts
<1> QED BY <1>1, <1>2, <1>3 DEF Next

\* What a step of a task does to the pages of the others.
LEMMA PagesApart ==
  ASSUME TypeOK, NEW t \in Task, TaskStep(t), NEW u \in Task, u # t
  PROVE  (u \in paging' <=> u \in paging) /\ seen'[u] = seen[u] /\ Drifts(u)
<1>1. CASE ReadPage(t)
  <2>1. seen'[u] = seen[u] /\ ahead'[u] = ahead[u] /\ missed' = missed /\ paging' = paging \cup {t}
    BY <1>1 DEF ReadPage, TypeOK
  <2> QED BY <2>1 DEF Drifts
<1>2. CASE ReadEnds(t)
  <2>1. seen'[u] = seen[u] /\ ahead'[u] = ahead[u] /\ missed' = missed /\ paging' = paging \ {t}
    BY <1>2 DEF ReadEnds, TypeOK
  <2> QED BY <2>1 DEF Drifts
<1>3. CASE UNCHANGED pages
  BY <1>3 DEF pages, Drifts
<1>4. CASE Delete(t)
  BY <1>4, PagesMove
<1> QED BY <1>1, <1>2, <1>3, <1>4
        DEF TaskStep, Resolve, Check, Gate, RecordStatus, LogDelete, Confirm, ReadFails, TaskRaises

\* What happens to the pages of a task that takes no step.
LEMMA PagesRest ==
  ASSUME TypeOK, [Next]_vars, ~Crash,
         \A refs \in Selections, preview \in BOOLEAN : ~Begin(refs, preview),
         NEW u \in Task, ~TaskStep(u)
  PROVE  (u \in paging' <=> u \in paging) /\ seen'[u] = seen[u] /\ Drifts(u)
<1> DEFINE Rests == (u \in paging' <=> u \in paging) /\ seen'[u] = seen[u] /\ Drifts(u)
<1>1. ASSUME NEW t \in Task, TaskStep(t) PROVE Rests
  BY <1>1, PagesApart
<1>2. ASSUME (\E t \in Task : Start(t)) \/ Merge \/ Finish \/ UNCHANGED vars PROVE Rests
  BY <1>2 DEF Start, Merge, Finish, vars, pages, Drifts
<1>3. ASSUME AdminActs \/ AsyncDeleteEnds PROVE Rests
  BY <1>3, PagesMove
<1> QED BY <1>1, <1>2, <1>3 DEF Next

\* Whatever else happens between two pages, what they have told and will tell still covers
\* what has stood since the task began.
LEMMA PagesFrame ==
  ASSUME TypeOK, TypeOK', WorldInv, WorldInv', [Next]_vars, ~Crash,
         \A refs \in Selections, preview \in BOOLEAN : ~Begin(refs, preview),
         NEW u \in Task, ~TaskStep(u), ~Start(u), PagesInv(u)
  PROVE  PagesInv(u)'
<1>1. pc'[u] = pc[u] /\ target'[u] = target[u] /\ read'[u] = read[u] /\ UNCHANGED <<batch, before>>
  BY RestFrame, BatchFrame
<1>2. (u \in paging' <=> u \in paging) /\ seen'[u] = seen[u] /\ Drifts(u)
  BY PagesRest
<1>3. held'[u] \subseteq held[u] /\ held[u] \subseteq Standing(life, used)
      /\ held'[u] \subseteq Standing(life', used')
  BY HeldMoves DEF WorldInv, HeldInv
<1>4. Namesakes(u)' = Namesakes(u) /\ Kind(u)' = Kind(u)
  BY <1>1 DEF Namesakes, Kind
<1>5. ASSUME u \notin paging PROVE PagesInv(u)'
  BY <1>2, <1>5 DEF PagesInv
<1>6. ASSUME u \in paging PROVE PagesInv(u)'
  <2>1. Covered(u) /\ Listed(u) /\ Inlined(u) /\ Sound(u) /\ pc[u] \in {"resolve", "check", "confirm"}
    BY <1>6 DEF PagesInv
  <2>2. \A o \in Object : /\ life'[o] # "unborn" /\ life'[o] # "dead" /\ life[o] # "unborn" =>
                              life[o] \in {"live", "dying"}
    BY LifeMoves DEF TypeOK
  <2>3. \A o \in Matching(u)' : o \in Matching(u) \/ life[o] = "unborn"
    BY <1>1, <1>4, <2>2 DEF Matching, Live
  <2>4. Covered(u)'
    <3> SUFFICES ASSUME NEW f \in held'[u], f \in Sought(u)'
                 PROVE  f \in seen'[u] \cup ahead'[u] \cup missed'[u]
      BY DEF Covered
    <3>1. f \in Sought(u)
      <4>1. CASE pc[u] # "check"
        <5>1. PICK o \in Matching(u)' : f = <<o, "row">>
          BY <1>1, <4>1 DEF Sought
        <5>2. f \in Standing(life, used) /\ f \notin used
          BY <1>3, <5>1 DEF WorldInv, UsedInv
        <5>3. life[o] \in {"live", "dying"}
          BY <5>1, <5>2 DEF Standing
        <5> QED BY <2>3, <4>1, <5>1, <5>3 DEF Sought
      <4>2. CASE pc[u] = "check"
        <5>1. f \in used' /\ f[1] \in Subjects(u)' /\ f[2] = LiveReads(Kind(u))[read[u]]
          BY <1>1, <1>4, <4>2 DEF Sought
        <5>2. f[2] # "row"
          BY <5>1 DEF WorldInv, UsedInv
        <5>3. f \in used
          BY <1>3, <5>2 DEF Standing
        <5>4. f[1] \in Object /\ life[f[1]] # "unborn"
          BY <5>3 DEF WorldInv, UsedInv
        <5>5. f[1] \in Subjects(u)
          <6>1. CASE Kind(u) \in VerifiedByName
            BY <1>4, <2>3, <5>1, <5>4, <6>1 DEF Subjects
          <6>2. CASE Kind(u) \notin VerifiedByName
            BY <1>1, <1>4, <5>1, <6>2 DEF Subjects
          <6> QED BY <6>1, <6>2
        <5> QED BY <4>2, <5>1, <5>3, <5>5 DEF Sought
      <4> QED BY <4>1, <4>2
    <3>2. f \in seen[u] \cup ahead[u] \cup missed[u] /\ f \in Standing(life', used')
      BY <1>3, <2>1, <3>1 DEF Covered
    <3> QED BY <1>2, <3>2 DEF Drifts
  <2>5. Listed(u)'
    <3> SUFFICES ASSUME pc'[u] # "check", NEW o \in Early(u)'
                 PROVE  <<o, "row">> \in seen'[u] \cup ahead'[u] \cup missed'[u]
      BY DEF Listed
    <3>0. o \in Matching(u)' /\ before.life[o] # "unborn"
      BY <1>1 DEF Early
    <3>1. o \in Object /\ life'[o] \in {"live", "dying"}
      BY <3>0 DEF Matching, Live
    <3>2. o \in Early(u)
      BY <2>3, <3>0, <3>1 DEF WorldInv, LifeInv, Early
    <3>3. <<o, "row">> \in seen[u] \cup ahead[u] \cup missed[u]
      BY <1>1, <2>1, <3>2 DEF Listed
    <3>4. <<o, "row">> \in Standing(life', used')
      BY <3>1 DEF Standing
    <3> QED BY <1>2, <3>3, <3>4 DEF Drifts
  <2>6. Inlined(u)'
    BY <1>2, <1>3, <1>4, <2>1 DEF Inlined
  <2>7. Sound(u)'
    BY <1>1, <1>2, <1>4, <2>1 DEF Sound, Drifts
  <2> QED BY <1>1, <1>2, <2>1, <2>4, <2>5, <2>6, <2>7 DEF PagesInv
<1> QED BY <1>5, <1>6

\* One page more.
LEMMA PageTells ==
  ASSUME TypeOK, WorldInv, NEW t \in Task, PagesInv(t), ReadPage(t)
  PROVE  PagesInv(t)'
<1>1. PICK shown \in SUBSET (Sought(t) \ seen[t]) :
        /\ seen' = [seen EXCEPT ![t] = @ \cup shown \cup Carried(t, shown)]
        /\ ahead' = [ahead EXCEPT ![t] = (IF t \in paging THEN @ ELSE Sought(t)) \ shown]
  BY DEF ReadPage
<1>2. /\ UNCHANGED <<batch, before, life, used, held, pc, target, read, missed>>
      /\ paging' = paging \cup {t} /\ pc[t] \in {"resolve", "check", "confirm"}
  BY DEF ReadPage, engine, jira, locals, At
<1> DEFINE front == IF t \in paging THEN ahead[t] ELSE Sought(t)
<1>3. seen'[t] = seen[t] \cup shown \cup Carried(t, shown) /\ ahead'[t] = front \ shown
  BY <1>1 DEF TypeOK
<1>4. /\ Namesakes(t)' = Namesakes(t) /\ Kind(t)' = Kind(t) /\ Early(t)' = Early(t)
      /\ Sought(t)' = Sought(t)
  BY <1>2 DEF Namesakes, Kind, Matching, Live, Sought, Subjects, Early
<1>5. \A f \in Carried(t, shown) : f \in used /\ f[2] # "row"
  BY DEF Carried, WorldInv, UsedInv
<1>6. /\ held[t] \cap Sought(t) \subseteq seen[t] \cup front \cup missed[t]
      /\ Inlined(t)
  BY DEF PagesInv, Covered, Inlined
<1>7. pc[t] # "check" =>
        /\ Sought(t) = Matching(t) \X {"row"}
        /\ Early(t) \X {"row"} \subseteq seen[t] \cup front \cup missed[t]
        /\ \A o : <<o, "row">> \in seen[t] \cup front => o \in Namesakes(t)
  <2>1. Matching(t) \subseteq Namesakes(t)
    BY DEF Matching, Namesakes, Live
  <2>2. CASE t \in paging
    BY <2>2 DEF PagesInv, Listed, Sound, Sought
  <2>3. CASE t \notin paging
    BY <2>1, <2>3 DEF PagesInv, Sought, Early
  <2> QED BY <2>2, <2>3
<1>8. Covered(t)'
  BY <1>2, <1>3, <1>4, <1>6 DEF Covered
<1>9. Listed(t)'
  BY <1>2, <1>3, <1>4, <1>7 DEF Listed
<1>10. Inlined(t)'
  <2> SUFFICES ASSUME NEW use \in held[t], use[2] \in InlineReads(Kind(t)),
                      <<use[1], "row">> \in seen'[t]
               PROVE  use \in seen'[t]
    BY <1>2, <1>4 DEF Inlined
  <2>1. CASE <<use[1], "row">> \in seen[t]
    BY <1>3, <1>6, <2>1 DEF Inlined
  <2>2. CASE <<use[1], "row">> \in shown
    <3>1. use[2] # "row"
      BY DEF InlineReads
    <3>2. use \in used
      BY <3>1 DEF WorldInv, HeldInv, Standing
    <3> QED BY <1>3, <2>2, <3>2 DEF Carried
  <2> QED BY <1>3, <1>5, <2>1, <2>2
<1>11. Sound(t)'
  <2> SUFFICES ASSUME pc[t] # "check", NEW o, <<o, "row">> \in seen'[t] \cup ahead'[t]
               PROVE  o \in Namesakes(t)
    BY <1>2, <1>4 DEF Sound
  <2>1. <<o, "row">> \in seen[t] \cup front \/ <<o, "row">> \in Sought(t)
    BY <1>3, <1>5
  <2>2. Matching(t) \subseteq Namesakes(t)
    BY DEF Matching, Namesakes, Live
  <2> QED BY <1>7, <2>1, <2>2
<1> QED BY <1>2, <1>8, <1>9, <1>10, <1>11 DEF PagesInv

LEMMA PagesNext ==
  TypeOK /\ WriteInv /\ WorldInv /\ (\A t \in Task : PagesInv(t)) /\ [Next]_vars =>
    (\A t \in Task : PagesInv(t))'
<1> SUFFICES ASSUME TypeOK, WriteInv, WorldInv, \A t \in Task : PagesInv(t), [Next]_vars,
                    NEW u \in Task
             PROVE  PagesInv(u)'
  OBVIOUS
<1>0. TypeOK' /\ WorldInv'
  BY TypeNext, WorldNext
<1>1. ASSUME NEW refs \in Selections, NEW preview \in BOOLEAN, Begin(refs, preview)
      PROVE  PagesInv(u)'
  BY <1>1 DEF Begin, PagesInv
<1>2. CASE Crash
  BY <1>2 DEF Crash, PagesInv
<1>3. ASSUME Start(u) PROVE PagesInv(u)'
  <2>1. pc[u] = "queued"
    BY <1>3 DEF Start, WriteInv, TaskInv, TypeOK, Task
  <2>2. u \notin paging /\ seen[u] = {}
    BY <2>1 DEF PagesInv
  <2> QED BY <1>3, <2>2 DEF Start, pages, PagesInv
<1>4. ASSUME TaskStep(u) PROVE PagesInv(u)'
  <2>1. CASE ReadPage(u)
    BY <2>1, PageTells
  <2>2. CASE ReadEnds(u)
    <3>1. u \notin paging' /\ seen'[u] = {}
      BY <2>2 DEF ReadEnds, TypeOK
    <3> QED BY <3>1 DEF PagesInv
  <2>3. CASE pc[u] \in {"gate", "send", "record", "log"} /\ UNCHANGED <<paging, seen>>
    <3>1. u \notin paging /\ seen[u] = {}
      BY <2>3 DEF PagesInv
    <3> QED BY <2>3, <3>1 DEF PagesInv
  <2> QED BY <1>4, <2>1, <2>2, <2>3 DEF TaskStep, Resolve, Check, Gate, Delete, RecordStatus,
             LogDelete, Confirm, ReadFails, TaskRaises, At, pages
<1>5. ASSUME \A refs \in Selections, preview \in BOOLEAN : ~Begin(refs, preview),
             ~Crash, ~Start(u), ~TaskStep(u)
      PROVE  PagesInv(u)'
  BY <1>0, <1>5, PagesFrame
<1> QED BY <1>1, <1>2, <1>3, <1>4, <1>5

LEMMA PagesInit == Init => \A t \in Task : PagesInv(t)
  BY DEF Init, PagesInv

\* What any answer of a read is sure to tell.
LEMMA AnswersTell ==
  ASSUME TypeOK, WorldInv, NEW t \in Task, PagesInv(t), NEW found \in Answers(t)
  PROVE  /\ held[t] \cap Sought(t) \subseteq found \cup missed[t]
         /\ \A use \in held[t] : use[2] \in InlineReads(Kind(t)) /\ <<use[1], "row">> \in found =>
                                   use \in found
         /\ pc[t] # "check" =>
              /\ Early(t) \X {"row"} \subseteq found \cup missed[t]
              /\ Rowed(found) \subseteq Namesakes(t)
<1>1. PICK told \in SUBSET Fact, new \in SUBSET Fact :
        /\ found = told \cup new \cup Carried(t, new)
        /\ held[t] \cap Sought(t) \subseteq told \cup new \cup missed[t]
        /\ \A use \in held[t] : use[2] \in InlineReads(Kind(t)) /\ <<use[1], "row">> \in told =>
                                  use \in told
        /\ pc[t] # "check" =>
              /\ Early(t) \X {"row"} \subseteq told \cup new \cup missed[t]
              /\ \A o : <<o, "row">> \in told \cup new => o \in Namesakes(t)
  <2>0. Sought(t) \subseteq Fact /\ Matching(t) \subseteq Namesakes(t)
        /\ (pc[t] # "check" => Sought(t) = Matching(t) \X {"row"})
    BY SoughtType DEF Matching, Namesakes, Live, Sought
  <2>1. CASE t \in paging
    <3>1. PICK more \in SUBSET (Sought(t) \ seen[t]) :
            found = seen[t] \cup ahead[t] \cup more \cup Carried(t, ahead[t] \cup more)
      BY <2>1 DEF Answers
    <3>2. Covered(t) /\ Listed(t) /\ Inlined(t) /\ Sound(t)
      BY <2>1 DEF PagesInv
    <3> DEFINE new == ahead[t] \cup more
    <3>3. seen[t] \in SUBSET Fact /\ new \in SUBSET Fact
      BY <2>0 DEF TypeOK
    <3>4. found = seen[t] \cup new \cup Carried(t, new)
      BY <3>1
    <3>5. held[t] \cap Sought(t) \subseteq seen[t] \cup new \cup missed[t]
      BY <3>2 DEF Covered
    <3>6. pc[t] # "check" =>
              /\ Early(t) \X {"row"} \subseteq seen[t] \cup new \cup missed[t]
              /\ \A o : <<o, "row">> \in seen[t] \cup new => o \in Namesakes(t)
      BY <2>0, <3>2 DEF Listed, Sound
    <3> HIDE DEF new
    <3> QED BY <3>2, <3>3, <3>4, <3>5, <3>6 DEF Inlined
  <2>2. CASE t \notin paging
    <3>1. found = {} \cup Sought(t) \cup Carried(t, Sought(t))
      BY <2>2 DEF Answers
    <3> DEFINE new == Sought(t)
    <3>2. found = {} \cup new \cup Carried(t, new) /\ new \in SUBSET Fact
      BY <2>0, <3>1
    <3>3. held[t] \cap Sought(t) \subseteq {} \cup new \cup missed[t]
      OBVIOUS
    <3>4. pc[t] # "check" =>
              /\ Early(t) \X {"row"} \subseteq {} \cup new \cup missed[t]
              /\ \A o : <<o, "row">> \in {} \cup new => o \in Namesakes(t)
      BY <2>0 DEF Early
    <3> HIDE DEF new
    <3> QED BY <3>2, <3>3, <3>4
  <2> QED BY <2>1, <2>2
<1>2. \A f \in Carried(t, new) : f \in used /\ f[2] # "row"
  BY DEF Carried, WorldInv, UsedInv
<1>3. ASSUME NEW use \in held[t], use[2] \in InlineReads(Kind(t)), <<use[1], "row">> \in found
      PROVE  use \in found
  <2>1. use[2] # "row"
    BY <1>3 DEF InlineReads
  <2>2. use \in used
    BY <2>1 DEF WorldInv, HeldInv, Standing
  <2>3. CASE <<use[1], "row">> \in new
    BY <1>1, <1>3, <2>2, <2>3 DEF Carried
  <2> QED BY <1>1, <1>2, <1>3, <2>3
<1>4. ASSUME pc[t] # "check" PROVE Rowed(found) \subseteq Namesakes(t)
  BY <1>1, <1>2, <1>4 DEF Rowed
<1> QED BY <1>1, <1>3, <1>4

-----------------------------------------------------------------------------
(* A closed finding is gone.                                               *)

\* A task reports a finding as closed only after a list without a row of that name.
LEMMA ClosedByNobody ==
  ASSUME TypeOK, [Next]_vars, NEW u \in Task, verdict'[u] = "closed", verdict[u] # "closed"
  PROVE  /\ \E found \in Answers(u) : Rowed(found) = {}
         /\ pc[u] # "check" /\ UNCHANGED <<life, missed>>
<1> DEFINE Nobody(t) == \E found \in Answers(t) : Rowed(found) = {}
<1> USE DEF TypeOK, Return, RecordAndReturn, GoTo
<1>1. ASSUME NEW t \in Task, TaskStep(t)
      PROVE  t = u /\ Nobody(t) /\ pc[t] # "check" /\ UNCHANGED <<life, missed>>
  <2>1. t = u
    BY <1>1, TaskStepFrame
  <2>2. CASE Resolve(t)
    <3>1. \/ Nobody(t)
          \/ RecordAndReturn(t, "still_open", "GET") \/ RecordAndReturn(t, "still_open", "SKIP")
          \/ UNCHANGED verdict
      BY <2>2 DEF Resolve
    <3>2. pc[t] = "resolve" /\ UNCHANGED <<life, missed>>
      BY <2>2 DEF Resolve, jira, At, ReadEnds
    <3> QED BY <2>1, <3>1, <3>2
  <2>3. CASE Confirm(t)
    <3>1. Nobody(t) \/ RecordAndReturn(t, "still_open", "GET")
      BY <2>3 DEF Confirm
    <3>2. pc[t] = "confirm" /\ UNCHANGED <<life, missed>>
      BY <2>3 DEF Confirm, jira, At, ReadEnds
    <3> QED BY <2>1, <3>1, <3>2
  <2>4. CASE Check(t)
    BY <2>1, <2>4 DEF Check
  <2>5. CASE Gate(t)
    BY <2>1, <2>5 DEF Gate
  <2>6. CASE Delete(t) \/ RecordStatus(t) \/ ReadPage(t)
    BY <2>6 DEF Delete, RecordStatus, ReadPage
  <2>7. CASE LogDelete(t)
    BY <2>1, <2>7 DEF LogDelete
  <2>8. CASE ReadFails(t) \/ TaskRaises(t)
    BY <2>1, <2>8 DEF ReadFails, TaskRaises
  <2> HIDE DEF Nobody
  <2> QED BY <1>1, <2>1, <2>2, <2>3, <2>4, <2>5, <2>6, <2>7, <2>8 DEF TaskStep
<1>2. ASSUME NEW refs \in Selections, NEW preview \in BOOLEAN, Begin(refs, preview) PROVE FALSE
  BY <1>2 DEF Begin
<1>3. ASSUME (\E t \in Task : Start(t)) \/ Merge \/ Finish \/ Crash \/ AdminActs
             \/ AsyncDeleteEnds \/ UNCHANGED vars
      PROVE  FALSE
  BY <1>3 DEF Start, Merge, Finish, Crash, AdminActs, AsyncDeleteEnds, vars, engine
<1> QED BY <1>1, <1>2, <1>3 DEF Next

LEMMA GoneNext ==
  TypeOK /\ WorldInv /\ (\A t \in Task : PagesInv(t)) /\ ClosedMeansGone /\ [Next]_vars =>
    ClosedMeansGone'
<1> SUFFICES ASSUME TypeOK, WorldInv, \A t \in Task : PagesInv(t), ClosedMeansGone, [Next]_vars
             PROVE  ClosedMeansGone'
  OBVIOUS
<1>1. ASSUME NEW refs \in Selections, NEW preview \in BOOLEAN, Begin(refs, preview)
      PROVE ClosedMeansGone'
  <2>1. Len(batch') <= MaxTasks /\ Len(batch') \in Nat
    BY <1>1, SelectionsAssumption DEF Begin
  <2>2. \A t \in Task : verdict'[t] = "none"
    BY <1>1 DEF Begin
  <2>3. \A t \in Batch' : verdict'[t] # "closed"
    BY <2>1, <2>2, MaxTasksAssumption DEF Batch, Task
  <2> QED BY <2>3, Zenon DEF ClosedMeansGone
<1>2. ASSUME \A refs \in Selections, preview \in BOOLEAN : ~Begin(refs, preview)
      PROVE  ClosedMeansGone'
  <2>1. UNCHANGED <<batch, before>>
    BY <1>2, BatchFrame
  <2>2. ASSUME NEW t \in Batch', verdict'[t] = "closed", NEW o \in Matching(t)'
        PROVE  before'.life[o] = "unborn" \/ <<o, "row">> \in missed'[t]
    <3>1. t \in Batch /\ t \in Task
      BY <2>1, MaxTasksAssumption DEF Batch, Task, TypeOK
    <3>2. /\ o \in Object /\ life'[o] \in {"live", "dying"}
          /\ ClassOf[o] = Endpoint(Kind(t)) /\ NameOf[o] = batch[t].name
      BY <2>1, <2>2 DEF Matching, Live, Kind
    <3>3. CASE life[o] = "unborn"
      BY <2>1, <3>2, <3>3 DEF WorldInv, LifeInv
    <3>4. CASE life[o] # "unborn"
      <4>1. o \in Matching(t)
        BY <3>2, <3>4, LifeMoves DEF Matching, Live, TypeOK
      <4>2. CASE verdict[t] = "closed"
        BY <1>2, <2>1, <3>1, <4>1, <4>2, MissedMoves DEF ClosedMeansGone
      <4>3. CASE verdict[t] # "closed"
        <5>1. PICK found \in Answers(t) : Rowed(found) = {}
          BY <2>2, <3>1, <4>3, ClosedByNobody
        <5>2. pc[t] # "check" /\ missed' = missed
          BY <2>2, <3>1, <4>3, ClosedByNobody
        <5>3. Early(t) \X {"row"} \subseteq found \cup missed[t]
          BY <3>1, <5>1, <5>2, AnswersTell
        <5>4. <<o, "row">> \notin found
          BY <3>2, <5>1 DEF Rowed
        <5> QED BY <2>1, <4>1, <5>2, <5>3, <5>4 DEF Early
      <4> QED BY <4>2, <4>3
    <3> QED BY <3>3, <3>4
  <2> QED BY <2>2 DEF ClosedMeansGone
<1> QED BY <1>1, <1>2

\* A finding reported closed is gone, for every batch, every pool, every paging of the lists
\* and every interference: what bears its name afterwards was created after the batch began,
\* or its row fell out between two pages of a list the task read.
THEOREM ClosedMeansGoneHolds == Spec => []ClosedMeansGone
<1>1. Init => ClosedMeansGone
  BY DEF Init, ClosedMeansGone, Batch
<1> QED BY <1>1, TypeCorrect, WriteInit, WriteNext, WorldInit, WorldNext, PagesInit, PagesNext,
           GoneNext, PTL DEF Spec
-----------------------------------------------------------------------------
(* What a task has seen unused stays so: NeverDeletesHeldObject is about   *)
(* one step, and needs that a task at its DELETE has seen absent every     *)
(* usage of its kind it could rely on to see, of every object the DELETE   *)
(* may still hit, and that none of these has a namesake it could rely on   *)
(* to see.                                                                 *)

\* The objects a DELETE of task t may hit, now or later.
Candidates(t) == IF Kind(t) \in VerifiedByName THEN Namesakes(t) ELSE {target[t]}

\* The usages task t has seen absent.
Passed(t) ==
  IF pc[t] = "check"
  THEN {LiveReads(Kind(t))[i] : i \in 1..read[t] - 1} \cup InlineReads(Kind(t))
  ELSE Checked(Kind(t))

Unused(t, o) == \A aspect \in Passed(t) \ {"row"} : <<o, aspect>> \notin Reliable(t)
Alone(t, o) == \A twin \in Namesakes(t) \ {o} : ~({<<o, "row">>, <<twin, "row">>} \subseteq Reliable(t))

SparedAt(t) ==
  /\ pc[t] \in {"queued", "resolve"} => read[t] = 1
  /\ pc[t] \in {"check", "gate", "send"} =>
       /\ target[t] \in Namesakes(t)
       /\ \A o \in Candidates(t) : life[o] # "dead" => Unused(t, o) /\ Alone(t, o)

SparedInv == \A t \in Task : SparedAt(t)

GuardInv == WorldInv /\ (\A t \in Task : PagesInv(t)) /\ SparedInv

\* A task that does not move keeps what it has seen: what it relied on only shrinks, and the
\* dead stay dead.
LEMMA SparedFrame ==
  ASSUME TypeOK, WorldInv, SparedInv, [Next]_vars,
         \A refs \in Selections, preview \in BOOLEAN : ~Begin(refs, preview),
         NEW u \in Task, ~Start(u),
         pc'[u] = pc[u], target'[u] = target[u], read'[u] = read[u]
  PROVE  SparedAt(u)'
<1>1. batch' = batch /\ Reliable(u)' \subseteq Reliable(u)
  BY HeldMoves, BatchFrame, MissedMoves DEF WorldInv, Reliable
<1>2. \A o \in Object : life'[o] # "dead" => life[o] # "dead"
  BY LifeMoves
<1>3. Namesakes(u)' = Namesakes(u) /\ Candidates(u)' = Candidates(u) /\ Passed(u)' = Passed(u)
  BY <1>1 DEF Namesakes, Candidates, Passed, Kind
<1>4. target[u] \in Namesakes(u) => Candidates(u) \subseteq Object
  BY DEF Candidates, Namesakes
<1>5. SparedAt(u)
  BY DEF SparedInv
<1>6. \A o : (Unused(u, o) => Unused(u, o)') /\ (Alone(u, o) => Alone(u, o)')
  BY <1>1, <1>3 DEF Unused, Alone
<1> HIDE DEF Namesakes, Candidates, Passed, Unused, Alone
<1> QED BY <1>1, <1>2, <1>3, <1>4, <1>5, <1>6 DEF SparedAt

\* Of the objects a DELETE may still hit, a read is about every one that is in use.
LEMMA ReadSeesAll ==
  ASSUME TypeOK, UsedInv, NEW t \in Task, target[t] \in Namesakes(t),
         NEW o \in Candidates(t), life[o] # "dead", NEW aspect, <<o, aspect>> \in used
  PROVE  o \in Subjects(t)
<1>1. o \in Namesakes(t) /\ (Kind(t) \notin VerifiedByName => o = target[t])
  BY DEF Candidates
<1>2. life[o] \in {"live", "dying"} /\ o \in Object
  BY DEF UsedInv, TypeOK
<1> QED BY <1>1, <1>2 DEF Subjects, Matching, Live, Namesakes

\* A resolution that goes on has found one object, which shows no usage in the list itself.
LEMMA ResolvePasses ==
  ASSUME TypeOK, SparedInv, NEW t \in Task, Resolve(t), pc'[t] # "done"
  PROVE  /\ UNCHANGED <<held, missed, batch, life, used>> /\ pc'[t] \in {"gate", "check"}
         /\ pc[t] = "resolve" /\ Passed(t)' = InlineReads(Kind(t))
         /\ \E o \in Object, found \in Answers(t) :
              /\ Rowed(found) = {o} /\ target'[t] = o
              /\ ~(Kind(t) \in ExpandedKinds /\ o \in Builtin)
              /\ \A aspect \in InlineReads(Kind(t)) : <<o, aspect>> \notin found
<1>1. PICK o \in Object, found \in Answers(t) :
        /\ Rowed(found) = {o} /\ At(t, "resolve")
        /\ ~(Kind(t) \in ExpandedKinds /\ o \in Builtin)
        /\ ~(\E aspect \in InlineReads(Kind(t)) : <<o, aspect>> \in found)
        /\ GoTo(t, IF LiveReads(Kind(t)) = <<>> THEN "gate" ELSE "check")
        /\ target' = [target EXCEPT ![t] = o]
        /\ UNCHANGED <<read, held>>
  BY DEF Resolve, RecordAndReturn, Return, TypeOK
<1>2. UNCHANGED <<batch, life, used, missed>>
  BY DEF Resolve, engine, jira, ReadEnds
<1>3. read[t] = 1
  BY <1>1 DEF SparedInv, SparedAt, At
<1>4. pc'[t] \in {"gate", "check"} /\ Passed(t)' = InlineReads(Kind(t))
  <2>1. CASE LiveReads(Kind(t)) = <<>>
    <3>1. pc'[t] = "gate"
      BY <1>1, <2>1 DEF GoTo, TypeOK
    <3> QED BY <1>2, <2>1, <3>1 DEF Passed, Checked, Kind
  <2>2. CASE LiveReads(Kind(t)) # <<>>
    <3>1. pc'[t] = "check" /\ read'[t] = 1
      BY <1>1, <1>3, <2>2 DEF GoTo, TypeOK
    <3> QED BY <1>2, <3>1 DEF Passed, Kind
  <2> QED BY <2>1, <2>2
<1>5. target'[t] = o /\ pc[t] = "resolve"
  BY <1>1 DEF TypeOK, At
<1> QED BY <1>1, <1>2, <1>4, <1>5

\* A live read that goes on has shown one more usage absent.
LEMMA CheckPasses ==
  ASSUME TypeOK, NEW t \in Task, Check(t), pc'[t] # "done"
  PROVE  /\ UNCHANGED <<target, held, missed, batch, life, used>> /\ pc'[t] \in {"gate", "check"}
         /\ pc[t] = "check" /\ {} \in Answers(t)
         /\ Passed(t)' \subseteq Passed(t) \cup {LiveReads(Kind(t))[read[t]]}
<1> DEFINE reads == LiveReads(Kind(t))
<1>1. /\ pc[t] = "check" /\ {} \in Answers(t)
      /\ pc' = [pc EXCEPT ![t] = IF read[t] = Len(reads) THEN "gate" ELSE "check"]
      /\ read' = [read EXCEPT ![t] = @ + 1]
      /\ UNCHANGED <<target, held, missed, batch, life, used>>
  <2>1. pc[t] = "check" /\ UNCHANGED <<missed, batch, life, used>>
    BY DEF Check, At, ReadEnds, engine, jira
  <2>2. PICK found \in Answers(t) :
          IF found # {}
          THEN RecordAndReturn(t, "still_open", "GET")
          ELSE /\ GoTo(t, IF read[t] = Len(reads) THEN "gate" ELSE "check")
               /\ read' = [read EXCEPT ![t] = @ + 1]
               /\ UNCHANGED <<target, status, held>>
    BY DEF Check
  <2>3. ~RecordAndReturn(t, "still_open", "GET")
    BY DEF RecordAndReturn, Return, TypeOK
  <2>4. found = {}
    BY <2>2, <2>3
  <2> HIDE DEF reads
  <2> QED BY <2>1, <2>2, <2>4 DEF GoTo
<1>2. read[t] \in Nat /\ read'[t] = read[t] + 1 /\ pc'[t] \in {"gate", "check"}
      /\ (pc'[t] = "gate" => read[t] = Len(reads))
  BY <1>1 DEF TypeOK
<1>3. reads' = reads /\ InlineReads(Kind(t))' = InlineReads(Kind(t))
  BY <1>1 DEF Kind
<1>4. Passed(t) = {reads[i] : i \in 1..read[t] - 1} \cup InlineReads(Kind(t))
  BY <1>1 DEF Passed
<1>5. Passed(t)' = {reads[i] : i \in 1..read[t]} \cup InlineReads(Kind(t))
  <2>1. CASE pc'[t] = "gate"
    BY <1>2, <1>3, <2>1 DEF Passed, Checked
  <2>2. CASE pc'[t] = "check"
    <3>1. read'[t] - 1 = read[t]
      BY <1>2
    <3> QED BY <1>2, <1>3, <2>2, <3>1 DEF Passed
  <2> QED BY <1>2, <2>1, <2>2
<1>6. Passed(t)' \subseteq Passed(t) \cup {reads[read[t]]}
  <2>1. \A i \in 1..read[t] : i \in 1..read[t] - 1 \/ i = read[t]
    BY <1>2
  <2> HIDE DEF reads
  <2> QED BY <1>4, <1>5, <2>1
<1> QED BY <1>1, <1>2, <1>6

\* What the resolution of a name to one unused object has seen.
LEMMA SparedResolve ==
  ASSUME TypeOK, WorldInv, SparedInv, NEW t \in Task, PagesInv(t), Resolve(t)
  PROVE  SparedAt(t)'
<1>1. CASE pc'[t] = "done"
  BY <1>1 DEF SparedAt
<1>2. CASE pc'[t] # "done"
  <2>1. PICK o \in Object, found \in Answers(t) :
          /\ Rowed(found) = {o} /\ target'[t] = o
          /\ \A aspect \in InlineReads(Kind(t)) : <<o, aspect>> \notin found
    BY <1>2, ResolvePasses
  <2>2. /\ UNCHANGED <<held, missed, batch, life, used>> /\ pc'[t] \in {"gate", "check"}
        /\ pc[t] = "resolve" /\ Passed(t)' = InlineReads(Kind(t))
    BY <1>2, ResolvePasses
  <2>3. /\ held[t] \cap Sought(t) \subseteq found \cup missed[t]
        /\ \A use \in held[t] : use[2] \in InlineReads(Kind(t)) /\ <<use[1], "row">> \in found =>
                                  use \in found
        /\ o \in Namesakes(t)
    BY <2>1, <2>2, AnswersTell
  <2>4. Candidates(t)' \subseteq Namesakes(t) /\ Namesakes(t)' = Namesakes(t) /\ Kind(t)' = Kind(t)
        /\ Reliable(t)' = Reliable(t)
    BY <2>1, <2>2, <2>3 DEF Candidates, Namesakes, Kind, Reliable
  <2>5. ASSUME NEW p \in Candidates(t)' PROVE Unused(t, p)'
    <3> SUFFICES ASSUME NEW aspect \in InlineReads(Kind(t)), <<p, aspect>> \in Reliable(t)
                 PROVE  FALSE
      BY <2>2, <2>4 DEF Unused
    <3>1. p = o
      BY <2>1, <2>4, <2>5 DEF Candidates, InlineReads, VerifiedByName
    <3>2. <<o, "row">> \in found
      BY <2>1 DEF Rowed
    <3> QED BY <2>1, <2>3, <3>1, <3>2 DEF Reliable
  <2>6. ASSUME NEW p \in Namesakes(t), <<p, "row">> \in Reliable(t) PROVE p = o
    <3>1. life[p] \in {"live", "dying"}
      BY <2>6 DEF Reliable, WorldInv, HeldInv, UsedInv, Standing
    <3>2. <<p, "row">> \in Sought(t)
      BY <2>2, <3>1 DEF Sought, Matching, Live, Namesakes
    <3>3. <<p, "row">> \in found
      BY <2>3, <2>6, <3>2 DEF Reliable
    <3> QED BY <2>1, <3>3 DEF Rowed, Namesakes
  <2>7. ASSUME NEW p \in Candidates(t)' PROVE Alone(t, p)'
    <3> HIDE DEF Namesakes, Candidates, Reliable
    <3> QED BY <2>4, <2>6, <2>7 DEF Alone
  <2>8. target'[t] \in Namesakes(t)'
    BY <2>1, <2>3, <2>4
  <2> QED BY <2>2, <2>5, <2>7, <2>8 DEF SparedAt
<1> QED BY <1>1, <1>2

\* What one more live read has seen.
LEMMA SparedCheck ==
  ASSUME TypeOK, WorldInv, SparedInv, NEW t \in Task, PagesInv(t), Check(t)
  PROVE  SparedAt(t)'
<1> DEFINE aspect == LiveReads(Kind(t))[read[t]]
<1>1. CASE pc'[t] = "done"
  BY <1>1 DEF SparedAt
<1>2. CASE pc'[t] # "done"
  <2>1. /\ UNCHANGED <<target, held, missed, batch, life, used>> /\ pc'[t] \in {"gate", "check"}
        /\ pc[t] = "check" /\ {} \in Answers(t) /\ Passed(t)' \subseteq Passed(t) \cup {aspect}
    BY <1>2, CheckPasses
  <2>2. Namesakes(t)' = Namesakes(t) /\ Candidates(t)' = Candidates(t) /\ Reliable(t)' = Reliable(t)
    BY <2>1 DEF Namesakes, Candidates, Kind, Reliable
  <2>3. target[t] \in Namesakes(t)
        /\ \A o \in Candidates(t) : life[o] # "dead" => Unused(t, o) /\ Alone(t, o)
    BY <2>1 DEF SparedInv, SparedAt
  <2>4. held[t] \cap Sought(t) \subseteq missed[t]
    BY <2>1, AnswersTell
  <2>5. ASSUME NEW o \in Candidates(t), life[o] # "dead", aspect # "row"
        PROVE  <<o, aspect>> \notin Reliable(t)
    <3> SUFFICES ASSUME <<o, aspect>> \in held[t] PROVE <<o, aspect>> \in missed[t]
      BY DEF Reliable
    <3>1. <<o, aspect>> \in used
      BY <2>5 DEF WorldInv, HeldInv, Standing
    <3>2. o \in Subjects(t)
      BY <2>3, <2>5, <3>1, ReadSeesAll DEF WorldInv
    <3>3. <<o, aspect>> \in Sought(t)
      BY <2>1, <3>1, <3>2 DEF Sought
    <3> QED BY <2>4, <3>3
  <2>6. ASSUME NEW o \in Candidates(t), life[o] # "dead" PROVE Unused(t, o)' /\ Alone(t, o)'
    <3>1. Unused(t, o) /\ Alone(t, o)
      BY <2>3, <2>6
    <3>2. Alone(t, o)'
      BY <2>2, <3>1 DEF Alone
    <3>3. Unused(t, o)'
      <4> HIDE DEF aspect, Passed, Reliable
      <4> QED BY <2>1, <2>2, <2>5, <2>6, <3>1 DEF Unused
    <3> QED BY <3>2, <3>3
  <2> QED
    <3> HIDE DEF Namesakes, Candidates, Passed, aspect, Unused, Alone
    <3> QED BY <2>1, <2>2, <2>3, <2>6 DEF SparedAt
<1> QED BY <1>1, <1>2

LEMMA SparedNext == TypeOK /\ WriteInv /\ GuardInv /\ [Next]_vars => SparedInv'
<1> SUFFICES ASSUME TypeOK, WriteInv, GuardInv, [Next]_vars PROVE SparedInv'
  OBVIOUS
<1>0. WorldInv /\ SparedInv /\ \A t \in Task : PagesInv(t)
  BY DEF GuardInv
<1>1. ASSUME NEW refs \in Selections, NEW preview \in BOOLEAN, Begin(refs, preview)
      PROVE SparedInv'
  BY <1>1 DEF Begin, SparedInv, SparedAt
<1>2. ASSUME \A refs \in Selections, preview \in BOOLEAN : ~Begin(refs, preview),
             NEW u \in Task
      PROVE  SparedAt(u)'
  <2>1. CASE Start(u)
    <3>1. pc[u] = "queued"
      BY <2>1 DEF Start, WriteInv, TaskInv, TypeOK, Task
    <3> QED BY <1>0, <2>1, <3>1 DEF Start, SparedInv, SparedAt, TypeOK
  <2>2. CASE TaskStep(u) /\ ~Start(u)
    <3>1. CASE Resolve(u)
      BY <1>0, <3>1, SparedResolve
    <3>2. CASE Check(u)
      BY <1>0, <3>2, SparedCheck
    <3>3. CASE Gate(u)
      <4>1. CASE pc'[u] = "done"
        BY <4>1 DEF SparedAt
      <4>2. CASE pc'[u] # "done"
        <5>1. /\ pc[u] = "gate" /\ pc'[u] = "send"
              /\ UNCHANGED <<batch, life, target, read, held, missed>>
          BY <3>3, <4>2 DEF Gate, RecordAndReturn, Return, GoTo, At, TypeOK, engine, jira, locals,
                            pages
        <5>2. /\ Namesakes(u)' = Namesakes(u) /\ Candidates(u)' = Candidates(u)
              /\ Passed(u)' = Passed(u) /\ Reliable(u)' = Reliable(u)
          BY <5>1 DEF Namesakes, Candidates, Passed, Kind, Reliable
        <5>3. \A o : (Unused(u, o) => Unused(u, o)') /\ (Alone(u, o) => Alone(u, o)')
          BY <5>2 DEF Unused, Alone
        <5> HIDE DEF Namesakes, Candidates, Unused, Alone
        <5> QED BY <1>0, <5>1, <5>2, <5>3 DEF SparedInv, SparedAt
      <4> QED BY <4>1, <4>2
    <3>4. CASE ReadPage(u)
      <4>1. UNCHANGED <<pc, target, read>>
        BY <3>4 DEF ReadPage, locals
      <4> QED BY <1>0, <1>2, <2>2, <4>1, SparedFrame
    <3>5. CASE TaskStep(u) /\ ~ReadPage(u) /\ ~Resolve(u) /\ ~Check(u) /\ ~Gate(u)
      <4>1. pc'[u] \in {"record", "log", "confirm", "done"}
        BY <3>5 DEF TaskStep, Delete, RecordStatus, LogDelete, Confirm, ReadFails, TaskRaises,
                    RecordAndReturn, Return, GoTo, TypeOK
      <4> QED BY <4>1 DEF SparedAt
    <3> QED BY <2>2, <3>1, <3>2, <3>3, <3>4, <3>5
  <2>3. CASE ~TaskStep(u) /\ ~Start(u)
    BY <1>0, <1>2, <2>3, RestFrame, SparedFrame
  <2> QED BY <2>1, <2>2, <2>3
<1> QED BY <1>1, <1>2 DEF SparedInv

LEMMA GuardNext == TypeOK /\ WriteInv /\ GuardInv /\ [Next]_vars => GuardInv'
  BY WorldNext, PagesNext, SparedNext DEF GuardInv

LEMMA GuardInit == Init => GuardInv
  BY WorldInit, PagesInit DEF Init, GuardInv, SparedInv, SparedAt

\* What the DELETE of a task may remove is among the objects the task has checked.
LEMMA VictimsAreChecked ==
  ASSUME TypeOK, WriteInv, GuardInv, NEW t \in Task, pc[t] = "send", NEW o \in Victims(t)
  PROVE  /\ \A aspect \in Checked(Kind(t)) : <<o, aspect>> \notin Reliable(t)
         /\ \A twin \in Object \ {o} : ClassOf[twin] = ClassOf[o] /\ NameOf[twin] = NameOf[o] =>
              ~({<<o, "row">>, <<twin, "row">>} \subseteq Reliable(t))
<1>1. o \in Object /\ life[o] # "dead"
  BY DEF Victims, Live
<1>2. target[t] \in Namesakes(t) /\ o \in Candidates(t) /\ o \in Namesakes(t)
  <2>1. target[t] \in Namesakes(t)
    BY DEF GuardInv, SparedInv, SparedAt
  <2> QED BY <2>1 DEF Victims, Matching, Candidates, Namesakes, VerifiedByName, Live
<1>3. Unused(t, o) /\ Alone(t, o)
  BY <1>1, <1>2 DEF GuardInv, SparedInv, SparedAt
<1>4. "row" \notin Checked(Kind(t))
  BY ReadsType DEF WriteInv, TaskInv, GuardInv, WorldInv, KindInv
<1>5. \A twin \in Object : ClassOf[twin] = ClassOf[o] /\ NameOf[twin] = NameOf[o] =>
        twin \in Namesakes(t)
  BY <1>2 DEF Namesakes
<1> QED BY <1>3, <1>4, <1>5 DEF Unused, Alone, Passed

\* No DELETE removes an object that was in use, or stood beside one and the same namesake,
\* all the time since its task began, for every batch, every pool, every paging of the lists
\* and every interference, but for what fell out between two pages of a list of the task.
THEOREM NeverDeletesHeldObjectHolds == Spec => NeverDeletesHeldObject
<1> DEFINE Spares == \A t \in Task : killed'[t] \notin {killed[t], NoObject} =>
       /\ \A aspect \in Checked(Kind(t)) : <<killed'[t], aspect>> \notin Reliable(t)
       /\ \A twin \in Object \ {killed'[t]} :
            ClassOf[twin] = ClassOf[killed'[t]] /\ NameOf[twin] = NameOf[killed'[t]] =>
              ~({<<killed'[t], "row">>, <<twin, "row">>} \subseteq Reliable(t))
<1>1. TypeOK /\ WriteInv /\ GuardInv /\ [Next]_vars => [Spares]_killed
  <2> SUFFICES ASSUME TypeOK, WriteInv, GuardInv, [Next]_vars PROVE Spares
    OBVIOUS
  <2>1. ASSUME NEW t \in Task, killed'[t] # killed[t], killed'[t] # NoObject
        PROVE  pc[t] = "send" /\ killed'[t] \in Victims(t)
    <3>1. ASSUME NEW u \in Task, TaskStep(u) PROVE pc[t] = "send" /\ killed'[t] \in Victims(t)
      <4>1. Delete(u)
        BY <2>1, <3>1 DEF TaskStep, ReadPage, Resolve, Check, Gate, RecordStatus, LogDelete, Confirm,
                          ReadFails, TaskRaises
      <4>2. \E o \in Victims(u) : killed' = [killed EXCEPT ![u] = o]
        BY <2>1, <4>1 DEF Delete
      <4>3. t = u
        BY <2>1, <4>2 DEF TypeOK
      <4> QED BY <4>1, <4>2, <4>3 DEF Delete, At, TypeOK
    <3>2. ASSUME NEW refs \in Selections, NEW preview \in BOOLEAN, Begin(refs, preview)
          PROVE  FALSE
      BY <2>1, <3>2 DEF Begin
    <3>3. CASE Crash
      <4>1. killed'[t] = CHOOSE o \in Victims(t) : TRUE
        BY <2>1, <3>3 DEF Crash
      <4>2. pc[t] = "send" /\ Victims(t) # {}
        BY <2>1, <3>3 DEF Crash
      <4> QED BY <4>1, <4>2
    <3>4. ASSUME (\E u \in Task : Start(u)) \/ Merge \/ Finish \/ AdminActs \/ AsyncDeleteEnds
                 \/ UNCHANGED vars
          PROVE  FALSE
      BY <2>1, <3>4 DEF Start, Merge, Finish, AdminActs, AsyncDeleteEnds, vars
    <3> QED BY <3>1, <3>2, <3>3, <3>4 DEF Next
  <2>2. ASSUME NEW t \in Task, killed'[t] # killed[t], killed'[t] # NoObject
        PROVE  /\ \A aspect \in Checked(Kind(t)) : <<killed'[t], aspect>> \notin Reliable(t)
               /\ \A twin \in Object \ {killed'[t]} :
                    ClassOf[twin] = ClassOf[killed'[t]] /\ NameOf[twin] = NameOf[killed'[t]] =>
                      ~({<<killed'[t], "row">>, <<twin, "row">>} \subseteq Reliable(t))
    <3>1. pc[t] = "send" /\ killed'[t] \in Victims(t)
      BY <2>1, <2>2
    <3> QED BY <3>1, VictimsAreChecked
  <2> QED BY <2>2
<1>2. Spec => [][Spares]_killed
  BY <1>1, TypeCorrect, WriteInit, WriteNext, GuardInit, GuardNext, PTL DEF Spec
<1> QED BY <1>2 DEF NeverDeletesHeldObject
-----------------------------------------------------------------------------
(* The pool decides as one thread would.  The invariant follows a batch    *)
(* that nothing disturbs: a task finds the instance as the batch found it, *)
(* because only a task about the same name could change what it looks at;  *)
(* its own DELETE removes the one object its name stood for.               *)

ReadInv == \A t \in Task : pc[t] = "check" => read[t] \in 1..Len(LiveReads(Kind(t)))

\* The pool hands out the tasks in order.
StartedInv == \A t \in Task : t < next => pc[t] # "queued"

\* The tallies count the verdicts that are merged.
Favourable(n) == {t \in 1..n : verdict[t] \in {"closed", "would_close"}}
TallyInv ==
  /\ closed = Cardinality(Favourable(merged)) /\ stillOpen = merged - closed
  /\ merged <= Len(batch)

Untouched(t) == \A o \in Namesakes(t) : life[o] = before.life[o]
Removed(t) == \E o \in Object : /\ InitialMatches(t) = {o} /\ life[o] = "dead"
                                /\ \A p \in Namesakes(t) \ {o} : life[p] = before.life[p]

\* Task t is on the way to the verdict a sequential run would give.
OnTheWay(t) ==
  /\ pc[t] \in {"queued", "resolve"} => Untouched(t)
  /\ pc[t] \in {"check", "gate", "send"} =>
       /\ Untouched(t) /\ InitialMatches(t) = {target[t]}
       /\ ~(Kind(t) \in ExpandedKinds /\ target[t] \in Builtin)
       /\ \A aspect \in Passed(t) : <<target[t], aspect>> \notin used
  /\ pc[t] \in {"record", "log", "confirm"} => Removed(t) /\ SequentialVerdict(t) = "closed"
  /\ pc[t] \in {"record", "log"} => status[t] = "2xx"
  /\ pc[t] = "done" => verdict[t] = SequentialVerdict(t)

\* Nothing fell out between two pages: they tell what one look at the list would.
Whole(t) ==
  t \in paging =>
    /\ ahead[t] \subseteq Sought(t) /\ Sought(t) \subseteq seen[t] \cup ahead[t]
    /\ seen[t] \subseteq Sought(t) \cup Carried(t, Sought(t))
    /\ Carried(t, seen[t]) \subseteq seen[t]

NoneMissed == \A t \in Task : missed[t] = {}

QuietInv ==
  quiet /\ Apart /\ NoneMissed =>
    ~tripped /\ used = before.used /\ \A t \in Batch : OnTheWay(t) /\ Whole(t)

SequenceInv == ReadInv /\ StartedInv /\ TallyInv /\ QuietInv

\* A task that checks has a live read to make.
LEMMA ReadNext == TypeOK /\ WriteInv /\ GuardInv /\ ReadInv /\ [Next]_vars => ReadInv'
<1> SUFFICES ASSUME TypeOK, WriteInv, GuardInv, ReadInv, [Next]_vars PROVE ReadInv'
  OBVIOUS
<1>1. ASSUME NEW refs \in Selections, NEW preview \in BOOLEAN, Begin(refs, preview)
      PROVE ReadInv'
  BY <1>1 DEF Begin, ReadInv
<1>2. ASSUME \A refs \in Selections, preview \in BOOLEAN : ~Begin(refs, preview)
      PROVE  ReadInv'
  <2>1. UNCHANGED batch
    BY <1>2, BatchFrame
  <2>2. ASSUME NEW u \in Task, pc'[u] = "check"
        PROVE  read'[u] \in 1..Len(LiveReads(Kind(u)))
    <3>1. CASE Start(u)
      BY <2>2, <3>1 DEF Start, TypeOK
    <3>2. CASE Resolve(u)
      <4>1. pc[u] = "resolve" /\ LiveReads(Kind(u)) # <<>> /\ read' = read
        BY <2>2, <3>2 DEF Resolve, At, RecordAndReturn, Return, GoTo, TypeOK
      <4>2. read[u] = 1
        BY <4>1 DEF GuardInv, SparedInv, SparedAt
      <4>3. Kind(u) \in Applyable
        BY <4>1 DEF WriteInv, TaskInv, GuardInv, WorldInv, KindInv
      <4>4. Len(LiveReads(Kind(u))) \in Nat /\ Len(LiveReads(Kind(u))) > 0
        BY <4>1, <4>3, ReadsType
      <4> QED BY <4>1, <4>2, <4>4
    <3>3. CASE Check(u)
      <4>1. /\ pc[u] = "check" /\ read[u] # Len(LiveReads(Kind(u)))
            /\ read' = [read EXCEPT ![u] = @ + 1]
        BY <2>2, <3>3 DEF Check, At, RecordAndReturn, Return, GoTo, TypeOK
      <4>2. read[u] \in 1..Len(LiveReads(Kind(u))) /\ Kind(u) \in Applyable
        BY <4>1 DEF WriteInv, TaskInv, ReadInv, GuardInv, WorldInv, KindInv
      <4>3. Len(LiveReads(Kind(u))) \in Nat
        BY <4>2, ReadsType
      <4>4. read'[u] = read[u] + 1
        BY <4>1 DEF TypeOK
      <4> QED BY <4>1, <4>2, <4>3, <4>4
    <3>4. CASE ReadPage(u)
      <4>1. UNCHANGED <<pc, read>>
        BY <3>4 DEF ReadPage, locals
      <4> QED BY <2>2, <4>1 DEF ReadInv
    <3>5. CASE TaskStep(u) /\ ~ReadPage(u) /\ ~Resolve(u) /\ ~Check(u)
      BY <2>2, <3>5 DEF TaskStep, Gate, Delete, RecordStatus, LogDelete, Confirm, ReadFails,
                        TaskRaises, RecordAndReturn, Return, GoTo, TypeOK
    <3>6. CASE ~Start(u) /\ ~TaskStep(u)
      <4>1. pc'[u] = pc[u] /\ read'[u] = read[u]
        BY <1>2, <3>6, RestFrame
      <4> QED BY <2>2, <4>1 DEF ReadInv
    <3> QED BY <3>1, <3>2, <3>3, <3>4, <3>5, <3>6
  <2> QED BY <2>1, <2>2 DEF ReadInv, Kind
<1> QED BY <1>1, <1>2

LEMMA StartedNext == TypeOK /\ StartedInv /\ [Next]_vars => StartedInv'
<1> SUFFICES ASSUME TypeOK, StartedInv, [Next]_vars, NEW u \in Task, u < next'
             PROVE  pc'[u] # "queued"
  BY DEF StartedInv
<1>1. ASSUME NEW refs \in Selections, NEW preview \in BOOLEAN, Begin(refs, preview) PROVE FALSE
  BY <1>1 DEF Begin, Task
<1>2. ASSUME NEW t \in Task, Start(t) PROVE pc'[u] # "queued"
  BY <1>2 DEF Start, StartedInv, TypeOK, Task
<1>3. ASSUME NEW t \in Task, TaskStep(t) PROVE pc'[u] # "queued"
  BY <1>3, TaskStepMoves DEF StartedInv, TypeOK, engine
<1>4. ASSUME Merge \/ Finish \/ Crash \/ AdminActs \/ AsyncDeleteEnds \/ UNCHANGED vars
      PROVE  UNCHANGED <<pc, next>>
  BY <1>4 DEF Merge, Finish, Crash, AdminActs, AsyncDeleteEnds, vars, engine
<1> QED BY <1>1, <1>2, <1>3, <1>4 DEF Next, StartedInv

LEMMA TallyNext == TypeOK /\ WriteInv /\ TallyInv /\ [Next]_vars => TallyInv'
<1> SUFFICES ASSUME TypeOK, WriteInv, TallyInv, [Next]_vars PROVE TallyInv'
  OBVIOUS
<1>1. ASSUME NEW refs \in Selections, NEW preview \in BOOLEAN, Begin(refs, preview)
      PROVE TallyInv'
  <2>1. closed' = 0 /\ stillOpen' = 0 /\ merged' = 0 /\ Len(batch') \in Nat
    BY <1>1, SelectionsAssumption DEF Begin
  <2>2. Favourable(merged)' = {}
    BY <2>1 DEF Favourable
  <2>3. Cardinality(Favourable(merged)') = 0
    BY <2>2, FS_EmptySet
  <2>4. stillOpen' = merged' - closed' /\ merged' <= Len(batch')
    BY <2>1
  <2> QED BY <2>1, <2>3, <2>4 DEF TallyInv
<1>2. ASSUME NEW t \in Task, TaskStep(t) PROVE TallyInv'
  <2>1. t \in Running /\ UNCHANGED <<merged, closed, stillOpen, batch>>
    BY <1>2, TaskStepMoves DEF engine, TaskStep, ReadPage, Resolve, Check, Gate, Delete, RecordStatus,
       LogDelete, Confirm, ReadFails, TaskRaises, At, Running
  <2>2. merged = 0
    BY <2>1 DEF WriteInv, BatchInv, PoolDrained, TypeOK
  <2>3. Favourable(merged) = {} /\ Favourable(merged)' = {}
    BY <2>1, <2>2 DEF Favourable
  <2> QED BY <2>1, <2>3 DEF TallyInv
<1>3. CASE Merge
  <2> DEFINE t == merged + 1
  <2>1. merged \in Nat /\ merged < Len(batch) /\ UNCHANGED <<verdict, batch>> /\ Len(batch) \in Nat
    BY <1>3, MaxTasksAssumption DEF Merge, TypeOK
  <2>2. IsFiniteSet(Favourable(merged))
    <3>1. IsFiniteSet(1..merged) /\ Favourable(merged) \subseteq 1..merged
      BY <2>1, FS_Interval DEF Favourable
    <3> QED BY <3>1, FS_Subset
  <2>3. t \notin Favourable(merged) /\ \A n \in Int : n \in 1..t <=> n \in 1..merged \/ n = t
    BY <2>1 DEF Favourable
  <2>4. Cardinality(Favourable(merged)) \in Nat
    BY <2>2, FS_CardinalityType
  <2>5. CASE verdict[t] \in {"closed", "would_close"} /\ merged' = t
    <3>1. Favourable(merged)' = Favourable(merged) \cup {t}
      BY <2>1, <2>3, <2>5 DEF Favourable
    <3>2. Cardinality(Favourable(merged)') = Cardinality(Favourable(merged)) + 1
      BY <2>2, <2>3, <3>1, FS_AddElement
    <3>3. closed' = closed + 1 /\ stillOpen' = stillOpen
      BY <1>3, <2>5 DEF Merge
    <3>4. closed \in Nat /\ closed = Cardinality(Favourable(merged)) /\ stillOpen = merged - closed
      BY <2>4 DEF TallyInv
    <3>5. closed' = Cardinality(Favourable(merged)')
      BY <3>2, <3>3, <3>4
    <3>6. stillOpen' = merged' - closed' /\ merged' <= Len(batch')
      BY <2>1, <2>5, <3>3, <3>4
    <3> QED BY <3>5, <3>6 DEF TallyInv
  <2>6. CASE verdict[t] \in {"still_open", "crashed"} /\ merged' = t
    <3>1. Favourable(merged)' = Favourable(merged)
      BY <2>1, <2>3, <2>6 DEF Favourable
    <3>2. closed' = closed /\ stillOpen' = stillOpen + 1
      BY <1>3, <2>1, <2>6 DEF Merge
    <3> QED BY <2>1, <2>4, <2>6, <3>1, <3>2 DEF TallyInv
  <2>7. CASE UNCHANGED <<merged, closed, stillOpen>>
    BY <2>1, <2>7 DEF TallyInv, Favourable
  <2> QED BY <1>3, <2>5, <2>6, <2>7 DEF Merge
<1>4. ASSUME (\E t \in Task : Start(t)) \/ Finish \/ Crash \/ AdminActs \/ AsyncDeleteEnds
             \/ UNCHANGED vars
      PROVE  TallyInv'
  <2>1. UNCHANGED <<merged, closed, stillOpen, batch, verdict>>
    BY <1>4 DEF Start, Finish, Crash, AdminActs, AsyncDeleteEnds, vars, engine
  <2> QED BY <2>1 DEF TallyInv, Favourable
<1> QED BY <1>1, <1>2, <1>3, <1>4 DEF Next

\* A failure or a foreign change is not forgotten within a batch.
LEMMA QuietFalls ==
  ASSUME TypeOK, [Next]_vars, quiet',
         \A refs \in Selections, preview \in BOOLEAN : ~Begin(refs, preview)
  PROVE  quiet /\ used' = used
<1>1. ASSUME NEW t \in Task, TaskStep(t) PROVE quiet /\ used' = used
  <2> USE DEF jira, GoTo, Return, RecordAndReturn
  <2>1. CASE ReadPage(t) \/ Resolve(t) \/ Check(t) \/ Gate(t)
    BY <2>1 DEF ReadPage, Resolve, Check, Gate
  <2>2. CASE RecordStatus(t) \/ LogDelete(t) \/ Confirm(t)
    BY <2>2 DEF RecordStatus, LogDelete, Confirm
  <2>3. CASE ReadFails(t) \/ TaskRaises(t)
    BY <2>3 DEF ReadFails, TaskRaises
  <2>4. CASE Delete(t)
    BY <2>4 DEF Delete
  <2> QED BY <1>1, <2>1, <2>2, <2>3, <2>4 DEF TaskStep
<1>2. ASSUME (\E t \in Task : Start(t)) \/ Merge \/ Finish \/ UNCHANGED vars
      PROVE  quiet /\ used' = used
  BY <1>2 DEF Start, Merge, Finish, vars, jira
<1>3. ASSUME Crash \/ AdminActs \/ AsyncDeleteEnds PROVE FALSE
  BY <1>3 DEF Crash, AdminActs, AsyncDeleteEnds
<1> QED BY <1>1, <1>2, <1>3 DEF Next

\* A task that does not move stays on its way while nothing of its name changes.
LEMMA OnTheWayFrame ==
  ASSUME NEW u \in Task, OnTheWay(u),
         UNCHANGED <<batch, before, dryRun, used>>,
         pc'[u] = pc[u], target'[u] = target[u], read'[u] = read[u],
         status'[u] = status[u], verdict'[u] = verdict[u],
         \A o \in Namesakes(u) : life'[o] = life[o]
  PROVE  OnTheWay(u)'
<1>1. /\ Namesakes(u)' = Namesakes(u) /\ InitialMatches(u)' = InitialMatches(u)
      /\ Passed(u)' = Passed(u) /\ Kind(u)' = Kind(u)
  BY DEF Namesakes, InitialMatches, Passed, Kind
<1>2. SequentialVerdict(u)' = SequentialVerdict(u)
  BY <1>1 DEF SequentialVerdict, SparedFromStart
<1>3. Untouched(u) => Untouched(u)'
  BY <1>1 DEF Untouched
<1>4. Removed(u) => Removed(u)'
  BY <1>1 DEF Removed, InitialMatches, Namesakes
<1> HIDE DEF Namesakes, InitialMatches, SequentialVerdict, Untouched, Removed, Passed
<1> QED BY <1>1, <1>2, <1>3, <1>4 DEF OnTheWay

\* Nor do its pages change: what is still ahead of them stands on.
LEMMA WholeFrame ==
  ASSUME TypeOK, WorldInv, NEW u \in Task, Whole(u),
         UNCHANGED <<batch, used>>,
         pc'[u] = pc[u], target'[u] = target[u], read'[u] = read[u],
         u \in paging' <=> u \in paging, seen'[u] = seen[u], Drifts(u), missed'[u] = {},
         \A o \in Namesakes(u) : life'[o] = life[o]
  PROVE  Whole(u)'
<1>1. Kind(u)' = Kind(u) /\ Namesakes(u)' = Namesakes(u) /\ Matching(u)' = Matching(u)
  BY DEF Kind, Namesakes, Matching, Live
<1>2. Sought(u)' = Sought(u)
  BY <1>1 DEF Sought, Subjects
<1>3. Carried(u, Sought(u))' = Carried(u, Sought(u)) /\ Carried(u, seen[u])' = Carried(u, seen[u])
  BY <1>1, <1>2 DEF Carried
<1>4. ASSUME u \in paging PROVE ahead'[u] = ahead[u]
  <2>1. ahead[u] \subseteq Sought(u) /\ ahead'[u] \subseteq ahead[u]
    BY <1>4 DEF Whole, Drifts
  <2>2. Sought(u) \subseteq Standing(life', used')
    <3>1. CASE pc[u] = "check"
      BY <3>1 DEF Sought, Standing
    <3>2. CASE pc[u] # "check"
      BY <1>1, <3>2 DEF Sought, Matching, Live, Standing
    <3> QED BY <3>1, <3>2
  <2> QED BY <2>1, <2>2 DEF Drifts
<1> QED BY <1>2, <1>3, <1>4 DEF Whole

\* One page more of a list that lost nothing.
LEMMA WholePage ==
  ASSUME TypeOK, WorldInv, NEW t \in Task, PagesInv(t), Whole(t), ReadPage(t)
  PROVE  Whole(t)'
<1>1. PICK shown \in SUBSET (Sought(t) \ seen[t]) :
        /\ seen' = [seen EXCEPT ![t] = @ \cup shown \cup Carried(t, shown)]
        /\ ahead' = [ahead EXCEPT ![t] = (IF t \in paging THEN @ ELSE Sought(t)) \ shown]
  BY DEF ReadPage
<1>2. UNCHANGED <<batch, life, used, pc, target, read>>
  BY DEF ReadPage, engine, jira, locals
<1>3. Sought(t)' = Sought(t) /\ Kind(t)' = Kind(t)
  BY <1>2 DEF Kind, Matching, Live, Sought, Subjects
<1>4. Carried(t, Sought(t))' = Carried(t, Sought(t))
  BY <1>2, <1>3 DEF Carried
<1> DEFINE front == IF t \in paging THEN ahead[t] ELSE Sought(t)
<1>5. seen'[t] = seen[t] \cup shown \cup Carried(t, shown) /\ ahead'[t] = front \ shown
  BY <1>1 DEF TypeOK
<1>6. /\ front \subseteq Sought(t) /\ Sought(t) \subseteq seen[t] \cup front
      /\ seen[t] \subseteq Sought(t) \cup Carried(t, Sought(t))
      /\ Carried(t, seen[t]) \subseteq seen[t]
  BY DEF Whole, PagesInv, Carried
<1>7. \A f \in Carried(t, shown) : f \in used /\ f[2] # "row"
  BY DEF Carried, WorldInv, UsedInv
<1>8. Carried(t, shown) \subseteq Carried(t, Sought(t))
  BY DEF Carried
<1>9. Carried(t, seen[t])' \subseteq seen'[t]
  <2> SUFFICES ASSUME NEW use \in used, use[2] \in InlineReads(Kind(t)), <<use[1], "row">> \in seen'[t]
               PROVE  use \in seen'[t]
    BY <1>2, <1>3 DEF Carried
  <2>1. <<use[1], "row">> \in seen[t] \/ <<use[1], "row">> \in shown
    BY <1>5, <1>7
  <2> QED BY <1>5, <1>6, <2>1 DEF Carried
<1>10. /\ ahead'[t] \subseteq Sought(t) /\ Sought(t) \subseteq seen'[t] \cup ahead'[t]
       /\ seen'[t] \subseteq Sought(t) \cup Carried(t, Sought(t))
  BY <1>5, <1>6, <1>8
<1> QED BY <1>3, <1>4, <1>9, <1>10 DEF Whole

\* The answer of a list that lost nothing is that of one look at it.
LEMMA WholeAnswers ==
  ASSUME TypeOK, WorldInv, NEW t \in Task, Whole(t), NEW found \in Answers(t)
  PROVE  /\ pc[t] # "check" =>
              /\ Rowed(found) = Matching(t)
              /\ \A o \in Matching(t), aspect \in InlineReads(Kind(t)) :
                   <<o, aspect>> \in found <=> <<o, aspect>> \in used
         /\ pc[t] = "check" => (found = {} <=> Sought(t) = {})
<1>1. found = Sought(t) \cup Carried(t, Sought(t))
  <2>1. CASE t \notin paging
    BY <2>1 DEF Answers
  <2>2. CASE t \in paging
    <3>1. PICK more \in SUBSET (Sought(t) \ seen[t]) :
            found = seen[t] \cup ahead[t] \cup more \cup Carried(t, ahead[t] \cup more)
      BY <2>2 DEF Answers
    <3>2. /\ ahead[t] \subseteq Sought(t) /\ Sought(t) \subseteq seen[t] \cup ahead[t]
          /\ seen[t] \subseteq Sought(t) \cup Carried(t, Sought(t))
          /\ Carried(t, seen[t]) \subseteq seen[t]
      BY <2>2 DEF Whole
    <3>3. Carried(t, ahead[t] \cup more) \subseteq Carried(t, Sought(t))
      BY <3>2 DEF Carried
    <3>4. Carried(t, Sought(t)) \subseteq Carried(t, seen[t]) \cup Carried(t, ahead[t] \cup more)
      BY <3>2 DEF Carried
    <3> QED BY <3>1, <3>2, <3>3, <3>4
  <2> QED BY <2>1, <2>2
<1>2. \A f \in Carried(t, Sought(t)) : f \in used /\ f[2] # "row"
  BY DEF Carried, WorldInv, UsedInv
<1>3. ASSUME pc[t] # "check" PROVE Rowed(found) = Matching(t)
  <2>1. Sought(t) = Matching(t) \X {"row"} /\ Matching(t) \subseteq Object
    BY <1>3 DEF Sought, Matching, Live
  <2> QED BY <1>1, <1>2, <2>1 DEF Rowed
<1>4. ASSUME pc[t] # "check", NEW o \in Matching(t), NEW aspect \in InlineReads(Kind(t))
      PROVE  <<o, aspect>> \in found <=> <<o, aspect>> \in used
  <2>1. aspect # "row" /\ <<o, "row">> \in Sought(t) /\ <<o, aspect>> \notin Sought(t)
    BY <1>4 DEF InlineReads, Sought
  <2> QED BY <1>1, <2>1 DEF Carried
<1>5. Sought(t) = {} => Carried(t, Sought(t)) = {}
  BY DEF Carried
<1> QED BY <1>1, <1>3, <1>4, <1>5

\* The tasks that check and delete only see what the batch found.
LEMMA MatchesInitially ==
  ASSUME NEW t, Untouched(t)
  PROVE  Matching(t) = InitialMatches(t)
  BY DEF Untouched, Matching, InitialMatches, Namesakes, Live

\* A task that has seen every usage absent would delete in a sequential run too.
LEMMA WouldDelete ==
  ASSUME NEW t, NEW o, InitialMatches(t) = {o}, used = before.used,
         ~(Kind(t) \in ExpandedKinds /\ o \in Builtin),
         \A aspect \in Checked(Kind(t)) : <<o, aspect>> \notin used
  PROVE  SequentialVerdict(t) = IF dryRun THEN "would_close" ELSE "closed"
<1>1. Cardinality(InitialMatches(t)) = 1
  BY FS_Singleton
<1>2. ~SparedFromStart(t)
  <2>1. \A a \in Checked(Kind(t)) : <<o, a>> \notin before.used
    OBVIOUS
  <2>2. ~(Cardinality(InitialMatches(t)) > 1)
    BY <1>1
  <2> QED BY <2>1, <2>2, Zenon DEF SparedFromStart
<1>3. InitialMatches(t) # {}
  OBVIOUS
<1> QED BY <1>2, <1>3 DEF SequentialVerdict

\* A step of a task of an undisturbed batch.
LEMMA OnTheWayOwn ==
  ASSUME TypeOK, WriteInv, WorldInv, SparedInv, ReadInv, NEW t \in Batch, t \in Task,
         TaskStep(t), quiet', OnTheWay(t), Whole(t), ~tripped, used = before.used
  PROVE  OnTheWay(t)' /\ ~tripped'
<1> DEFINE verdictNow == SequentialVerdict(t)
<1>1. /\ UNCHANGED <<batch, before, dryRun, used>>
      /\ \A refs \in Selections, preview \in BOOLEAN : ~Begin(refs, preview)
  <2>1. UNCHANGED used
    BY DEF TaskStep, ReadPage, Resolve, Check, Gate, Delete, RecordStatus, LogDelete, Confirm, ReadFails,
           TaskRaises, jira
  <2> QED BY <2>1, TaskStepMoves DEF engine, Begin
<1>2. /\ Namesakes(t)' = Namesakes(t) /\ InitialMatches(t)' = InitialMatches(t)
      /\ Kind(t)' = Kind(t)
  BY <1>1 DEF Namesakes, InitialMatches, Kind
<1>3. verdictNow' = verdictNow
  BY <1>1, <1>2 DEF SequentialVerdict, SparedFromStart
<1>4. life' = life => (Untouched(t) => Untouched(t)') /\ (Removed(t) => Removed(t)')
  BY <1>1, <1>2 DEF Untouched, Removed
<1>5. ASSUME pc'[t] = "done", verdict'[t] = verdictNow PROVE OnTheWay(t)'
  BY <1>3, <1>5 DEF OnTheWay
<1>6. CASE Resolve(t)
  <2>1. pc[t] = "resolve" /\ Matching(t) = InitialMatches(t) /\ Untouched(t)
    BY <1>6, MatchesInitially DEF Resolve, At, OnTheWay
  <2>2. UNCHANGED <<life, tripped>>
    BY <1>6 DEF Resolve, jira, breaker
  <2>3. CASE pc'[t] = "done"
    <3>1. verdict'[t] = verdictNow
      <4>0. PICK found \in Answers(t) :
              \/ Rowed(found) = {} /\ RecordAndReturn(t, "closed", "GET")
              \/ Cardinality(Rowed(found)) > 1 /\ RecordAndReturn(t, "still_open", "GET")
              \/ \E o \in Object :
                   /\ Rowed(found) = {o}
                   /\ \/ Kind(t) \in ExpandedKinds /\ o \in Builtin
                      \/ \E aspect \in InlineReads(Kind(t)) : <<o, aspect>> \in found
                   /\ RecordAndReturn(t, "still_open", "GET") \/ RecordAndReturn(t, "still_open", "SKIP")
        BY <1>6, <2>3 DEF Resolve, GoTo, TypeOK
      <4>01. /\ Rowed(found) = Matching(t)
             /\ \A o \in Matching(t), aspect \in InlineReads(Kind(t)) :
                  <<o, aspect>> \in found <=> <<o, aspect>> \in used
        BY <2>1, WholeAnswers
      <4>1. CASE Matching(t) = {} /\ RecordAndReturn(t, "closed", "GET")
        BY <2>1, <4>1 DEF RecordAndReturn, Return, SequentialVerdict, TypeOK
      <4>2. CASE Cardinality(Matching(t)) > 1 /\ RecordAndReturn(t, "still_open", "GET")
        <5>1. Matching(t) # {}
          BY <4>2, FS_EmptySet
        <5> QED BY <2>1, <4>2, <5>1
                DEF RecordAndReturn, Return, SequentialVerdict, SparedFromStart, TypeOK
      <4>3. ASSUME NEW o \in Matching(t),
                   \/ Kind(t) \in ExpandedKinds /\ o \in Builtin
                   \/ \E aspect \in InlineReads(Kind(t)) : <<o, aspect>> \in used,
                   RecordAndReturn(t, "still_open", "GET") \/ RecordAndReturn(t, "still_open", "SKIP")
            PROVE  verdict'[t] = verdictNow
        <5>1. SparedFromStart(t) /\ InitialMatches(t) # {}
          BY <2>1, <4>3 DEF SparedFromStart, Checked
        <5> QED BY <4>3, <5>1 DEF RecordAndReturn, Return, SequentialVerdict, TypeOK
      <4> QED BY <4>0, <4>01, <4>1, <4>2, <4>3
    <3> QED BY <1>5, <2>2, <2>3, <3>1
  <2>4. CASE pc'[t] # "done"
    <3>1. /\ pc'[t] \in {"gate", "check"} /\ Passed(t)' = InlineReads(Kind(t))
      BY <1>6, <2>4, ResolvePasses
    <3>2. \E o \in Matching(t) : /\ Matching(t) = {o} /\ target'[t] = o
                                 /\ ~(Kind(t) \in ExpandedKinds /\ o \in Builtin)
                                 /\ \A aspect \in InlineReads(Kind(t)) : <<o, aspect>> \notin used
      <4>1. PICK o \in Object, found \in Answers(t) :
              /\ Rowed(found) = {o} /\ target'[t] = o
              /\ ~(Kind(t) \in ExpandedKinds /\ o \in Builtin)
              /\ \A aspect \in InlineReads(Kind(t)) : <<o, aspect>> \notin found
        BY <1>6, <2>4, ResolvePasses
      <4>2. /\ Rowed(found) = Matching(t)
            /\ \A p \in Matching(t), aspect \in InlineReads(Kind(t)) :
                 <<p, aspect>> \in found <=> <<p, aspect>> \in used
        BY <2>1, WholeAnswers
      <4> QED BY <4>1, <4>2
    <3>3. /\ InitialMatches(t)' = {target'[t]}
          /\ ~(Kind(t)' \in ExpandedKinds /\ target'[t] \in Builtin)
          /\ \A aspect \in Passed(t)' : <<target'[t], aspect>> \notin used'
      BY <1>1, <1>2, <2>1, <3>1, <3>2
    <3> HIDE DEF Untouched, Passed
    <3> QED BY <1>4, <2>1, <2>2, <3>1, <3>3 DEF OnTheWay
  <2> QED BY <2>3, <2>4
<1>7. CASE Check(t)
  <2> DEFINE aspect == LiveReads(Kind(t))[read[t]]
  <2>1. /\ pc[t] = "check" /\ Untouched(t) /\ InitialMatches(t) = {target[t]}
        /\ ~(Kind(t) \in ExpandedKinds /\ target[t] \in Builtin)
        /\ \A a \in Passed(t) : <<target[t], a>> \notin used
    BY <1>7 DEF Check, At, OnTheWay
  <2>2. UNCHANGED <<life, tripped>>
    BY <1>7 DEF Check, jira, breaker
  <2>3. Subjects(t) = {target[t]}
    BY <2>1, MatchesInitially DEF Subjects
  <2>4. CASE pc'[t] = "done"
    <3>0. PICK found \in Answers(t) : found # {} /\ RecordAndReturn(t, "still_open", "GET")
      BY <1>7, <2>4 DEF Check, GoTo, TypeOK
    <3>1. <<target[t], aspect>> \in used /\ RecordAndReturn(t, "still_open", "GET")
      <4>1. Sought(t) # {}
        BY <2>1, <3>0, WholeAnswers
      <4>2. PICK use \in used : use[1] \in Subjects(t) /\ use[2] = aspect
        BY <2>1, <4>1 DEF Sought
      <4>3. use \in Use
        BY DEF TypeOK
      <4>4. use = <<target[t], aspect>>
        BY <2>3, <4>2, <4>3 DEF Use
      <4> QED BY <3>0, <4>4
    <3>2. aspect \in Checked(Kind(t))
      BY <2>1 DEF ReadInv, Checked
    <3>3. SparedFromStart(t) /\ InitialMatches(t) # {}
      BY <2>1, <3>1, <3>2 DEF SparedFromStart
    <3>4. verdict'[t] = "still_open"
      BY <3>1 DEF RecordAndReturn, Return, TypeOK
    <3>5. verdict'[t] = verdictNow
      BY <3>3, <3>4 DEF SequentialVerdict
    <3> QED BY <1>5, <2>2, <2>4, <3>5
  <2>5. CASE pc'[t] # "done"
    <3>1. /\ UNCHANGED target /\ pc'[t] \in {"gate", "check"} /\ {} \in Answers(t)
          /\ Passed(t)' \subseteq Passed(t) \cup {aspect}
      BY <1>7, <2>5, CheckPasses
    <3>2. <<target[t], aspect>> \notin used
      <4>1. Sought(t) = {}
        BY <2>1, <3>1, WholeAnswers
      <4> QED BY <2>1, <2>3, <4>1 DEF Sought
    <3>3. \A a \in Passed(t)' : <<target'[t], a>> \notin used'
      BY <1>1, <2>1, <3>1, <3>2
    <3> HIDE DEF Untouched, Passed, aspect
    <3> QED BY <1>2, <1>4, <2>1, <2>2, <3>1, <3>3 DEF OnTheWay
  <2> QED BY <2>4, <2>5
<1>8. CASE Gate(t)
  <2>1. /\ pc[t] = "gate" /\ Untouched(t) /\ InitialMatches(t) = {target[t]}
        /\ ~(Kind(t) \in ExpandedKinds /\ target[t] \in Builtin)
        /\ \A a \in Passed(t) : <<target[t], a>> \notin used
    BY <1>8 DEF Gate, At, OnTheWay
  <2>2. UNCHANGED <<life, tripped>>
    BY <1>8 DEF Gate, jira, breaker
  <2>3. CASE pc'[t] = "done"
    <3>1. dryRun /\ RecordAndReturn(t, "would_close", "WOULD-DELETE")
      BY <1>8, <2>3 DEF Gate, GoTo, TypeOK
    <3>2. verdictNow = "would_close"
      BY <2>1, <3>1, WouldDelete DEF Passed
    <3>3. verdict'[t] = "would_close"
      BY <3>1 DEF RecordAndReturn, Return, TypeOK
    <3> QED BY <1>5, <2>2, <2>3, <3>2, <3>3
  <2>4. CASE pc'[t] # "done"
    <3>1. pc'[t] = "send" /\ UNCHANGED target
      BY <1>8, <2>4 DEF Gate, RecordAndReturn, Return, GoTo, locals, TypeOK
    <3>2. Passed(t)' = Passed(t)
      BY <1>2, <2>1, <3>1 DEF Passed
    <3> HIDE DEF Untouched, Passed
    <3> QED BY <1>1, <1>2, <1>4, <2>1, <2>2, <3>1, <3>2 DEF OnTheWay
  <2> QED BY <2>3, <2>4
<1>9. CASE Delete(t)
  <2>1. /\ pc[t] = "send" /\ Untouched(t) /\ InitialMatches(t) = {target[t]}
        /\ ~(Kind(t) \in ExpandedKinds /\ target[t] \in Builtin)
        /\ \A a \in Passed(t) : <<target[t], a>> \notin used
    BY <1>9 DEF Delete, At, OnTheWay
  <2>2. verdictNow = "closed"
    <3>1. ~dryRun
      BY <2>1 DEF WriteInv, TaskInv
    <3> QED BY <2>1, <3>1, WouldDelete DEF Passed
  <2>3. Victims(t) = {target[t]} /\ target[t] \in Object
    <3>1. Matching(t) = {target[t]}
      BY <2>1, MatchesInitially
    <3> QED BY <3>1 DEF Victims, Matching, Live
  <2>4. PICK st \in Statuses \ {"none"} :
          /\ status' = [status EXCEPT ![t] = st]
          /\ quiet' = (quiet /\ (st = "2xx" \/ (st = "4xx" /\ Victims(t) = {})))
          /\ \/ \E o \in Victims(t) :
                  life' = [life EXCEPT ![o] = IF st = "3xx" THEN "dying" ELSE "dead"]
             \/ st \in {"4xx", "5xx"}
    BY <1>9 DEF Delete
  <2>5. st = "2xx"
    BY <2>3, <2>4, Zenon
  <2>6. life' = [life EXCEPT ![target[t]] = "dead"] /\ status'[t] = "2xx"
    BY <2>3, <2>4, <2>5 DEF TypeOK
  <2>7. Removed(t)'
    <3>1. life'[target[t]] = "dead" /\ \A p \in Object \ {target[t]} : life'[p] = life[p]
      BY <2>3, <2>6 DEF TypeOK
    <3>2. InitialMatches(t)' = {target[t]} /\ UNCHANGED before
      BY <1>1, <1>2, <2>1
    <3>3. \A p \in Namesakes(t) \ {target[t]} : life'[p] = before.life[p]
      BY <2>1, <3>1 DEF Untouched, Namesakes
    <3> QED BY <1>2, <2>3, <3>1, <3>2, <3>3 DEF Removed
  <2>8. pc'[t] = "record" /\ UNCHANGED tripped
    BY <1>9 DEF Delete, breaker, TypeOK
  <2> HIDE DEF Removed
  <2> QED BY <1>3, <2>2, <2>6, <2>7, <2>8 DEF OnTheWay
<1>10. CASE RecordStatus(t)
  <2>1. pc[t] = "record" /\ Removed(t) /\ verdictNow = "closed" /\ status[t] = "2xx"
    BY <1>10 DEF RecordStatus, At, OnTheWay
  <2>2. pc'[t] = "log" /\ UNCHANGED <<life, status, tripped>>
    BY <1>10, <2>1 DEF RecordStatus, GoTo, jira, locals, breaker, TypeOK
  <2> HIDE DEF Removed
  <2> QED BY <1>3, <1>4, <2>1, <2>2 DEF OnTheWay
<1>11. CASE LogDelete(t)
  <2>1. pc[t] = "log" /\ Removed(t) /\ verdictNow = "closed" /\ status[t] = "2xx"
    BY <1>11 DEF LogDelete, At, OnTheWay
  <2>2. pc'[t] = "confirm" /\ UNCHANGED <<life, tripped>>
    BY <1>11, <2>1 DEF LogDelete, Succeeded, jira, breaker, TypeOK
  <2> HIDE DEF Removed
  <2> QED BY <1>3, <1>4, <2>1, <2>2 DEF OnTheWay
<1>12. CASE Confirm(t)
  <2>1. pc[t] = "confirm" /\ Removed(t) /\ verdictNow = "closed"
    BY <1>12 DEF Confirm, At, OnTheWay
  <2>2. Matching(t) = {}
    BY <2>1 DEF Removed, Matching, Live, InitialMatches, Namesakes
  <2>3. pc'[t] = "done" /\ verdict'[t] = "closed" /\ UNCHANGED tripped
    <3>1. \A found \in Answers(t) : Rowed(found) = {}
      BY <2>1, <2>2, WholeAnswers
    <3> QED BY <1>12, <3>1 DEF Confirm, Return, breaker, TypeOK
  <2> QED BY <1>5, <2>1, <2>3
<1>13. CASE ReadFails(t) \/ TaskRaises(t)
  BY <1>13 DEF ReadFails, TaskRaises
<1>14. CASE ReadPage(t)
  <2>1. UNCHANGED <<life, pc, target, read, status, verdict, tripped>>
    BY <1>14 DEF ReadPage, jira, locals, breaker
  <2> QED BY <1>1, <2>1, OnTheWayFrame
<1> QED BY <1>6, <1>7, <1>8, <1>9, <1>10, <1>11, <1>12, <1>13, <1>14 DEF TaskStep

\* A step of a task keeps its own pages whole.
LEMMA WholeOwn ==
  ASSUME TypeOK, WorldInv, NEW t \in Task, PagesInv(t), TaskStep(t), Whole(t)
  PROVE  Whole(t)'
<1>1. CASE ReadPage(t)
  BY <1>1, WholePage
<1>2. CASE ReadEnds(t)
  BY <1>2 DEF ReadEnds, Whole, TypeOK
<1>3. CASE pc[t] \in {"gate", "send", "record", "log"} /\ UNCHANGED paging
  BY <1>3 DEF PagesInv, Whole
<1> QED BY <1>1, <1>2, <1>3 DEF TaskStep, Resolve, Check, Gate, Delete, RecordStatus, LogDelete,
           Confirm, ReadFails, TaskRaises, At, pages

LEMMA QuietNext ==
  TypeOK /\ WriteInv /\ GuardInv /\ ReadInv /\ QuietInv /\ [Next]_vars => QuietInv'
<1> SUFFICES ASSUME TypeOK, WriteInv, GuardInv, ReadInv, QuietInv, [Next]_vars, quiet', Apart',
                    NoneMissed'
             PROVE  /\ ~tripped' /\ used' = before'.used
                    /\ \A t \in Batch' : OnTheWay(t)' /\ Whole(t)'
  BY DEF QuietInv
<1>1. ASSUME NEW refs \in Selections, NEW preview \in BOOLEAN, Begin(refs, preview)
      PROVE  /\ ~tripped' /\ used' = before'.used
             /\ \A t \in Batch' : OnTheWay(t)' /\ Whole(t)'
  <2>1. \A t \in Batch' : t \in Task
    BY <1>1, SelectionsAssumption, MaxTasksAssumption DEF Begin, Batch, Task
  <2>2. ASSUME NEW t \in Batch' PROVE pc'[t] = "queued" /\ Untouched(t)'
    BY <1>1, <2>1 DEF Begin, Untouched
  <2>3. ~tripped' /\ used' = before'.used
    BY <1>1 DEF Begin
  <2>4. paging' = {}
    BY <1>1 DEF Begin
  <2> QED BY <2>2, <2>3, <2>4 DEF OnTheWay, Whole
<1>2. ASSUME \A refs \in Selections, preview \in BOOLEAN : ~Begin(refs, preview)
      PROVE  /\ ~tripped' /\ used' = before'.used
             /\ \A t \in Batch' : OnTheWay(t)' /\ Whole(t)'
  <2>1. UNCHANGED <<batch, dryRun, before>> /\ quiet /\ UNCHANGED used
    BY <1>2, BatchFrame, QuietFalls
  <2>2. Apart /\ \A t \in Batch : t \in Task
    BY <2>1, MaxTasksAssumption DEF Apart, Batch, Kind, Task, TypeOK
  <2>03. NoneMissed /\ WorldInv /\ SparedInv /\ \A t \in Task : PagesInv(t)
    BY <1>2, MissedMoves DEF NoneMissed, GuardInv
  <2>3. ~tripped /\ used = before.used /\ \A t \in Batch : OnTheWay(t) /\ Whole(t)
    BY <2>1, <2>2, <2>03 DEF QuietInv
  <2>4. ASSUME NEW t \in Task, TaskStep(t)
        PROVE  ~tripped' /\ \A u \in Batch : OnTheWay(u)' /\ Whole(u)'
    <3>1. t \in Batch
      BY <2>4 DEF WriteInv, TaskInv, TaskStep, ReadPage, Resolve, Check, Gate, Delete, RecordStatus,
                  LogDelete, Confirm, ReadFails, TaskRaises, At
    <3>2. OnTheWay(t)' /\ Whole(t)' /\ ~tripped'
      BY <2>03, <2>3, <2>4, <3>1, OnTheWayOwn, WholeOwn
    <3>3. ASSUME NEW u \in Batch, u # t PROVE OnTheWay(u)' /\ Whole(u)'
      <4>1. \A o \in Namesakes(u) : o \notin Namesakes(t)
        BY <2>2, <3>1, <3>3 DEF Apart, Namesakes
      <4>2. \A o \in Namesakes(u) : life'[o] = life[o]
        <5>1. CASE Delete(t)
          <6>1. Victims(t) \subseteq Namesakes(t)
            BY <2>03, <5>1 DEF Delete, At, SparedInv, SparedAt, Victims, Matching, Namesakes, Live
          <6>2. life' = life \/ \E o \in Victims(t), stage \in {"dying", "dead"} :
                                  life' = [life EXCEPT ![o] = stage]
            BY <5>1 DEF Delete
          <6>3. \A o \in Namesakes(u) : o \in Object
            BY DEF Namesakes
          <6> QED BY <4>1, <6>1, <6>2, <6>3 DEF TypeOK
        <5>2. CASE ~Delete(t)
          BY <2>4, <5>2 DEF TaskStep, ReadPage, Resolve, Check, Gate, RecordStatus, LogDelete, Confirm,
                            ReadFails, TaskRaises, jira
        <5> QED BY <5>1, <5>2
      <4>3. /\ pc'[u] = pc[u] /\ target'[u] = target[u] /\ read'[u] = read[u]
            /\ status'[u] = status[u] /\ verdict'[u] = verdict[u] /\ u \in Task
        BY <2>2, <2>4, <3>3, TaskStepFrame, LocalsFrame
      <4>4. (u \in paging' <=> u \in paging) /\ seen'[u] = seen[u] /\ Drifts(u) /\ missed'[u] = {}
        BY <2>4, <3>3, <4>3, PagesApart DEF NoneMissed
      <4> QED BY <2>1, <2>03, <2>3, <4>2, <4>3, <4>4, OnTheWayFrame, WholeFrame
    <3> QED BY <3>2, <3>3
  <2>5. ASSUME NEW t \in Task, Start(t) 
        PROVE  ~tripped' /\ \A u \in Batch : OnTheWay(u)' /\ Whole(u)'
    <3>1. UNCHANGED <<tripped, life, target, read, status, verdict>>
      BY <2>5 DEF Start, breaker, jira
    <3>01. ASSUME NEW u \in Batch PROVE Drifts(u) /\ UNCHANGED <<paging, seen>> /\ missed'[u] = {}
      BY <2>2, <2>5 DEF Start, pages, Drifts, NoneMissed
    <3>2. ASSUME NEW u \in Batch, u # t PROVE OnTheWay(u)' /\ Whole(u)'
      <4>1. pc'[u] = pc[u]
        BY <2>2, <2>5, <3>2 DEF Start, TypeOK
      <4> QED BY <2>1, <2>2, <2>03, <2>3, <3>1, <3>01, <4>1, OnTheWayFrame, WholeFrame
    <3>3. OnTheWay(t)' /\ Whole(t)'
      <4>1. pc[t] = "queued" /\ pc'[t] = "resolve" /\ t \in Batch
        BY <2>5 DEF Start, WriteInv, TaskInv, TypeOK, Task
      <4>2. Untouched(t)
        BY <2>3, <4>1 DEF OnTheWay
      <4>3. Untouched(t)'
        BY <2>1, <3>1, <4>2 DEF Untouched, Namesakes, Kind
      <4>4. t \notin paging'
        BY <2>03, <2>5, <4>1 DEF PagesInv, Start, pages
      <4> QED BY <4>1, <4>3, <4>4 DEF OnTheWay, Whole
    <3> QED BY <2>3, <3>1, <3>2, <3>3
  <2>6. ASSUME Merge \/ Finish \/ UNCHANGED vars
        PROVE  ~tripped' /\ \A u \in Batch : OnTheWay(u)' /\ Whole(u)'
    <3>1. UNCHANGED <<tripped, life, target, read, status, verdict, pc>>
      BY <2>6 DEF Merge, Finish, vars, breaker, jira, locals
    <3>2. ASSUME NEW u \in Batch PROVE Drifts(u) /\ UNCHANGED <<paging, seen>> /\ missed'[u] = {}
      BY <2>2, <2>6 DEF Merge, Finish, vars, pages, Drifts, NoneMissed
    <3> QED BY <2>1, <2>2, <2>03, <2>3, <3>1, <3>2, OnTheWayFrame, WholeFrame
  <2>7. ASSUME Crash \/ AdminActs \/ AsyncDeleteEnds PROVE FALSE
    BY <2>7 DEF Crash, AdminActs, AsyncDeleteEnds
  <2>8. ~tripped' /\ \A u \in Batch : OnTheWay(u)' /\ Whole(u)'
    BY <1>2, <2>4, <2>5, <2>6, <2>7 DEF Next
  <2> QED BY <2>1, <2>3, <2>8 DEF Batch
<1> QED BY <1>1, <1>2

LEMMA SequenceInit == Init => SequenceInv
<1> SUFFICES ASSUME Init PROVE SequenceInv
  OBVIOUS
<1>1. Favourable(merged) = {} /\ Batch = {}
  BY DEF Init, Favourable, Batch
<1>2. Cardinality(Favourable(merged)) = 0
  BY <1>1, FS_EmptySet
<1>3. TallyInv
  BY <1>2 DEF Init, TallyInv
<1> QED BY <1>1, <1>3 DEF Init, SequenceInv, ReadInv, StartedInv, QuietInv, Task

\* An undisturbed batch of findings about different objects, whose lists lost no row between
\* two pages, ends with the verdicts and the tallies of a sequential run, for every pool,
\* every paging of the lists and every order of completion; a dry run with the preview of
\* what a real apply would do.
THEOREM SameAsSequentialHolds == Spec => []SameAsSequential
<1>1. TypeOK /\ WriteInv /\ SequenceInv => SameAsSequential
  <2> SUFFICES ASSUME TypeOK, WriteInv, SequenceInv, phase = "done", quiet, Apart, NoneMissed
               PROVE  /\ \A t \in Batch : verdict[t] = SequentialVerdict(t)
                      /\ closed = Cardinality({t \in Batch : SequentialVerdict(t) # "still_open"})
                      /\ stillOpen = Len(batch) - closed
    BY DEF SameAsSequential, NoneMissed
  <2>1. merged = Len(batch) /\ next > Len(batch) /\ Running = {}
    BY DEF WriteInv, BatchInv, PoolDrained
  <2>2. ASSUME NEW t \in Batch PROVE verdict[t] = SequentialVerdict(t)
    <3>1. t \in Task /\ t < next
      BY <2>1, MaxTasksAssumption DEF Batch, Task, TypeOK
    <3>2. pc[t] = "done"
      BY <2>1, <3>1 DEF Running, SequenceInv, StartedInv
    <3> QED BY <3>2 DEF SequenceInv, QuietInv, OnTheWay
  <2>3. \A t \in Batch : verdict[t] \in {"closed", "would_close"} <=>
                         SequentialVerdict(t) # "still_open"
    BY <2>2 DEF SequentialVerdict
  <2>4. Favourable(merged) = {t \in Batch : SequentialVerdict(t) # "still_open"}
    BY <2>1, <2>3 DEF Favourable, Batch
  <2> QED BY <2>1, <2>2, <2>4 DEF SequenceInv, TallyInv
<1>2. TypeOK /\ WriteInv /\ GuardInv /\ SequenceInv /\ [Next]_vars => SequenceInv'
  BY ReadNext, StartedNext, TallyNext, QuietNext DEF SequenceInv
<1> QED BY <1>1, <1>2, TypeCorrect, WriteInit, WriteNext, GuardInit, GuardNext, SequenceInit,
           PTL DEF Spec
=============================================================================
