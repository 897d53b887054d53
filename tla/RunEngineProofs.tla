-------------------------- MODULE RunEngineProofs ---------------------------
(* Theorems about RunEngine for any number of migrations, handlers, runs,   *)
(* write faults and crashes: its invariants, and that it implements         *)
(* RunLifecycle.                                                            *)
EXTENDS RunEngine, TLAPS

\* Every list of phases ends with finalize.
LEMMA PhasesEnd ==
  ASSUME NEW k \in Kinds \cup {"audit"}
  PROVE  Len(Phases(k)) \in Nat \ {0} /\ Phases(k)[Len(Phases(k))] = "finalize"
<1>1. CASE k = "audit"
  BY <1>1 DEF Phases
<1>2. CASE k \in {"fix", "env_fix"}
  BY <1>2 DEF Phases
<1>3. CASE k = "env_audit"
  BY <1>3 DEF Phases
<1>4. QED
  BY <1>1, <1>2, <1>3, KindsAssumption
-----------------------------------------------------------------------------
(* The invariant.                                                          *)

\* A thread at a stage has phases left.
StageInv == \A r \in Run : pc[r] = "stage" => pos[r] < Len(Phases(kind[r]))

\* Nothing of the process survives its end.
ProcessInv ==
  server # "up" => /\ \A r \in Run : pc[r] = "none"
                   /\ \A q \in Request : step[q] = "idle"

\* The handler that passed the guard of start() holds the lock, and the guard still holds.
CreateInv ==
  \A q \in Request :
    /\ step[q] \in {"create", "erase"} => wants[q].mig \in Migration
    /\ step[q] = "create" =>
         /\ lock = q /\ lastId < MaxRuns
         /\ \A r \in Run : owner[r] = wants[q].mig => status[r] # "running"

\* A run that is created and not launched has no thread, and one handler.
LaunchInv ==
  /\ \A r \in Run : r > lastId => pc[r] = "none"
  /\ \A q \in Request : step[q] = "launch" =>
       made[q] \in Run /\ made[q] <= lastId /\ pc[made[q]] = "none"
  /\ \A q1, q2 \in Request :
       step[q1] = "launch" /\ step[q2] = "launch" /\ made[q1] = made[q2] => q1 = q2

\* A run is engaged from its creation until its thread ends the run.
Engaged(r) ==
  pc[r] \in Working \/ \E q \in Request : step[q] = "launch" /\ made[q] = r

EngagedInv ==
  \A r \in Run : Engaged(r) =>
    status[r] = "running" \/ (status[r] = "deleted" /\ owner[r] \in erased)

OneEngaged ==
  \A r1, r2 \in Run : Engaged(r1) /\ Engaged(r2) /\ owner[r1] = owner[r2] => r1 = r2

EngineInv == StageInv /\ ProcessInv /\ CreateInv /\ LaunchInv /\ EngagedInv /\ OneEngaged
-----------------------------------------------------------------------------
(* Type correctness; StageInv keeps the phase index within the list.       *)

LEMMA TypeInit == Init => TypeOK /\ StageInv
<1> SUFFICES ASSUME Init PROVE TypeOK /\ StageInv
  OBVIOUS
<1>1. \A r \in Run : pos[r] <= Len(Phases(kind[r]))
  BY PhasesEnd DEF Init
<1>2. QED
  BY <1>1, MaxRunsAssumption DEF Init, TypeOK, StageInv, Points, Nothing, Run

LEMMA SetStatusType ==
  ASSUME TypeOK, NEW r \in Run, NEW new \in {"done", "failed", "cancelled"}, SetStatus(r, new)
  PROVE  /\ UNCHANGED <<owner, kind, lastId>>
         /\ faults' \in Nat
         /\ status' \in [Run -> {"absent", "running", "done", "failed", "cancelled", "deleted"}]
  BY DEF TypeOK, SetStatus

LEMMA TypeThreadStep ==
  ASSUME TypeOK, StageInv, NEW r \in Run, ThreadStep(r)
  PROVE  TypeOK' /\ StageInv'
<1>1. /\ UNCHANGED <<server, erased, owner, kind, lastId, web, cancelled, asked, early, crashes>>
      /\ faults' \in Nat
      /\ status' \in [Run -> {"absent", "running", "done", "failed", "cancelled", "deleted"}]
  <2> USE DEF TypeOK, InsertOK, InsertRaises, Fault, rows
  <2>1. CASE LoopCheck(r)
    BY <2>1 DEF LoopCheck
  <2>2. CASE EnterPhase(r)
    BY <2>2 DEF EnterPhase
  <2>3. CASE Stage(r)
    BY <2>3 DEF Stage
  <2>4. CASE Finalize(r)
    BY <2>4 DEF Finalize
  <2>5. CASE Hook(r)
    BY <2>5 DEF Hook
  <2>6. CASE Complete(r)
    BY <2>6, SetStatusType DEF Complete
  <2>7. CASE Announce(r)
    BY <2>7 DEF Announce
  <2>8. CASE MarkCancelled(r)
    BY <2>8, SetStatusType DEF MarkCancelled
  <2>9. CASE Failing(r)
    BY <2>9 DEF Failing
  <2>10. CASE MarkFailed(r)
    BY <2>10, SetStatusType DEF MarkFailed
  <2>11. CASE Cleanup(r)
    BY <2>11 DEF Cleanup
  <2>12. QED
    BY <2>1, <2>2, <2>3, <2>4, <2>5, <2>6, <2>7, <2>8, <2>9, <2>10, <2>11 DEF ThreadStep
<1>2. pc[r] # "stage" => \E point \in Points :
        /\ pc' = [pc EXCEPT ![r] = point] /\ UNCHANGED pos
        /\ point = "stage" => Phases(kind[r])[pos[r]] # "finalize"
  BY DEF ThreadStep, LoopCheck, EnterPhase, Stage, Finalize, Hook, Complete, Announce,
         MarkCancelled, Failing, MarkFailed, Cleanup, At, GoTo, Points
<1>3. pc[r] = "stage" => \/ pc' = [pc EXCEPT ![r] = "loop"] /\ pos' = [pos EXCEPT ![r] = @ + 1]
                         \/ pc' = [pc EXCEPT ![r] = "failing"] /\ UNCHANGED pos
  BY DEF ThreadStep, LoopCheck, EnterPhase, Stage, Finalize, Hook, Complete, Announce,
         MarkCancelled, Failing, MarkFailed, Cleanup, At, GoTo
<1>4. kind[r] \in Kinds \cup {"audit"} /\ pos[r] \in Nat /\ pos[r] <= Len(Phases(kind[r]))
  BY DEF TypeOK
<1>5. pc' \in [Run -> Points] /\ pos' \in [Run -> Nat]
  <2>1. CASE pc[r] # "stage"
    BY <1>2, <2>1 DEF TypeOK
  <2>2. CASE pc[r] = "stage"
    <3>1. "loop" \in Points /\ "failing" \in Points
      BY DEF Points
    <3>2. pc' \in [Run -> Points]
      BY <1>3, <2>2, <3>1 DEF TypeOK
    <3>3. pos' \in [Run -> Nat]
      BY <1>3, <1>4, <2>2 DEF TypeOK
    <3>4. QED
      BY <3>2, <3>3
  <2>3. QED
    BY <2>1, <2>2
<1>6. \A u \in Run : /\ pos'[u] <= Len(Phases(kind[u]))
                     /\ pc'[u] = "stage" => pos'[u] < Len(Phases(kind[u]))
  <2> SUFFICES ASSUME NEW u \in Run
               PROVE  /\ pos'[u] <= Len(Phases(kind[u]))
                      /\ pc'[u] = "stage" => pos'[u] < Len(Phases(kind[u]))
    OBVIOUS
  <2>1. CASE u # r
    BY <1>2, <1>3, <2>1 DEF TypeOK, StageInv
  <2>2. CASE u = r /\ pc[r] # "stage"
    <3>1. UNCHANGED pos /\ (pc'[r] = "stage" => Phases(kind[r])[pos[r]] # "finalize")
      BY <1>2, <2>2 DEF TypeOK
    <3>2. pc'[r] = "stage" => pos[r] # Len(Phases(kind[r]))
      BY <1>4, <3>1, PhasesEnd
    <3>3. QED
      BY <1>4, <2>2, <3>1, <3>2, PhasesEnd
  <2>3. CASE u = r /\ pc[r] = "stage"
    <3>1. pos[r] < Len(Phases(kind[r])) /\ Len(Phases(kind[r])) \in Nat
      BY <1>4, <2>3, PhasesEnd DEF StageInv
    <3>2. QED
      BY <1>3, <1>4, <2>3, <3>1 DEF TypeOK
  <2>4. QED
    BY <2>1, <2>2, <2>3
<1>7. QED
  BY <1>1, <1>5, <1>6 DEF TypeOK, StageInv, web

LEMMA TypeNext ==
  TypeOK /\ StageInv /\ CreateInv /\ LaunchInv /\ [Next]_vars => TypeOK' /\ StageInv'
<1> SUFFICES ASSUME TypeOK, StageInv, CreateInv, LaunchInv, [Next]_vars
             PROVE  TypeOK' /\ StageInv'
  OBVIOUS
<1> USE DEF TypeOK, StageInv, rows, thread, web, Nothing
<1>1. ASSUME NEW q \in Request, NEW m \in Migration, NEW k \in Kinds, StartCheck(q, m, k)
      PROVE TypeOK' /\ StageInv'
  BY <1>1 DEF StartCheck
<1>2. ASSUME NEW q \in Request, NEW m \in Migration, DeleteMigrationCheck(q, m)
      PROVE TypeOK' /\ StageInv'
  BY <1>2 DEF DeleteMigrationCheck
<1>3. ASSUME NEW q \in Request, StartCreate(q) PROVE TypeOK' /\ StageInv'
  <2>1. wants' \in [Request -> [mig : Migration \cup {NoMigration}, kind : Kinds \cup {"audit"}]]
        /\ step' \in [Request -> {"idle", "create", "launch", "erase"}]
    BY <1>3 DEF StartCreate
  <2>2. CASE step'[q] = "launch" /\ UNCHANGED faults
    <3> DEFINE n == lastId + 1
    <3>1. n \in Run /\ n \in 0..MaxRuns /\ n > lastId /\ pc[n] = "none"
      BY <1>3, MaxRunsAssumption DEF StartCreate, CreateInv, LaunchInv, Run
    <3>2. wants[q].mig \in Migration /\ wants[q].kind \in Kinds \cup {"audit"}
      BY <1>3 DEF StartCreate, CreateInv
    <3>3. /\ status' = [status EXCEPT ![n] = "running"]
          /\ owner' = [owner EXCEPT ![n] = wants[q].mig]
          /\ kind' = [kind EXCEPT ![n] = wants[q].kind]
          /\ pos' = [pos EXCEPT ![n] = 1]
          /\ lastId' = n /\ made' = [made EXCEPT ![q] = n] /\ asked' = asked \ {n}
      BY <1>3, <2>2 DEF StartCreate, NextId
    <3>4. UNCHANGED <<server, erased, pc, cancelled, early, crashes>> /\ lock' = NoRequest
      BY <1>3 DEF StartCreate
    <3> HIDE DEF n
    <3>5. \A r \in Run : /\ pos'[r] <= Len(Phases(kind'[r]))
                         /\ pc[r] = "stage" => pos'[r] < Len(Phases(kind'[r]))
      BY <3>1, <3>2, <3>3, PhasesEnd
    <3>6. /\ status' \in [Run -> {"absent", "running", "done", "failed", "cancelled", "deleted"}]
          /\ owner' \in [Run -> Migration \cup {NoMigration}]
          /\ kind' \in [Run -> Kinds \cup {"audit"}]
          /\ pos' \in [Run -> Nat]
          /\ made' \in [Request -> 0..MaxRuns]
      BY <3>1, <3>2, <3>3
    <3>7. QED
      BY <2>1, <2>2, <3>1, <3>3, <3>4, <3>5, <3>6
  <2>3. CASE UNCHANGED <<rows, pos, made, asked>>
    <3>1. faults' \in Nat /\ UNCHANGED <<server, erased, pc, cancelled, early, crashes>>
          /\ lock' = NoRequest
      BY <1>3 DEF StartCreate
    <3>2. QED
      BY <2>1, <2>3, <3>1
  <2>4. QED
    <3>1. \/ step' = [step EXCEPT ![q] = "launch"] /\ UNCHANGED faults
          \/ UNCHANGED <<rows, pos, made, asked>>
      BY <1>3, Zenon DEF StartCreate
    <3>2. QED
      BY <2>2, <2>3, <3>1
<1>4. ASSUME NEW q \in Request, Launch(q) PROVE TypeOK' /\ StageInv'
  <2>1. "loop" \in Points
    BY DEF Points
  <2>2. pc' \in [Run -> Points] /\ (\A r \in Run : pc'[r] = "stage" => pc[r] = "stage")
    BY <1>4, <2>1 DEF Launch
  <2>3. /\ step' \in [Request -> {"idle", "create", "launch", "erase"}]
        /\ made' \in [Request -> 0..MaxRuns] /\ faults' \in Nat
    BY <1>4, MaxRunsAssumption DEF Launch
  <2>4. UNCHANGED <<server, erased, rows, pos, wants, lock, cancelled, asked, early, crashes>>
    BY <1>4 DEF Launch
  <2>5. QED
    BY <2>2, <2>3, <2>4
<1>5. ASSUME NEW q \in Request, DeleteMigration(q) PROVE TypeOK' /\ StageInv'
  <2>1. status' \in [Run -> {"absent", "running", "done", "failed", "cancelled", "deleted"}]
    BY <1>5 DEF DeleteMigration
  <2>2. erased' \subseteq Migration /\ faults' \in Nat
    BY <1>5 DEF DeleteMigration, CreateInv
  <2>3. /\ step' \in [Request -> {"idle", "create", "launch", "erase"}]
        /\ wants' \in [Request -> [mig : Migration \cup {NoMigration}, kind : Kinds \cup {"audit"}]]
    BY <1>5 DEF DeleteMigration
  <2>4. UNCHANGED <<server, owner, kind, lastId, thread, made, lock, cancelled, asked, early, crashes>>
    BY <1>5 DEF DeleteMigration
  <2>5. QED
    BY <2>1, <2>2, <2>3, <2>4
<1>6. ASSUME NEW r \in Run, Cancel(r) PROVE TypeOK' /\ StageInv'
  BY <1>6 DEF Cancel, Note
<1>7. ASSUME NEW r \in Run, DeleteRun(r) PROVE TypeOK' /\ StageInv'
  BY <1>7 DEF DeleteRun
<1>8. ASSUME NEW r \in Run, ThreadStep(r) PROVE TypeOK' /\ StageInv'
  BY <1>8, TypeThreadStep
<1>9. ASSUME NEW r \in Run, SweepStale(r) PROVE TypeOK' /\ StageInv'
  <2>1. /\ UNCHANGED <<erased, thread, web, cancelled, asked, early, crashes, owner, kind, lastId>>
        /\ server' \in {"booting", "down"} /\ faults' \in Nat
    BY <1>9 DEF SweepStale, SetStatus, Fault
  <2>2. status' \in [Run -> {"absent", "running", "done", "failed", "cancelled", "deleted"}]
    BY <1>9 DEF SweepStale, SetStatus
  <2>3. QED
    BY <2>1, <2>2
<1>10. CASE Crash
  <2>1. /\ pc' = [r \in Run |-> "none"] /\ step' = [q \in Request |-> "idle"]
        /\ made' = [q \in Request |-> 0] /\ wants' = [q \in Request |-> Nothing]
        /\ server' = "down" /\ lock' = NoRequest /\ cancelled' = {} /\ crashes' = crashes + 1
        /\ UNCHANGED <<erased, status, owner, kind, lastId, pos, asked, faults>>
        /\ early' \subseteq early
    BY <1>10 DEF Crash
  <2>2. "none" \in Points /\ 0 \in 0..MaxRuns
    BY MaxRunsAssumption DEF Points
  <2>3. QED
    BY <2>1, <2>2
<1>11. CASE Boot \/ Serve \/ UNCHANGED vars
  BY <1>11 DEF Boot, Serve, vars
<1>12. QED
  BY <1>1, <1>2, <1>3, <1>4, <1>5, <1>6, <1>7, <1>8, <1>9, <1>10, <1>11 DEF Next, RequestStep
-----------------------------------------------------------------------------
(* The invariant is inductive.                                             *)

LEMMA EngineInit == Init => EngineInv
<1> SUFFICES ASSUME Init PROVE EngineInv
  OBVIOUS
<1>1. \A r \in Run : pc[r] = "none"
  BY DEF Init
<1>2. \A q \in Request : step[q] = "idle"
  BY DEF Init
<1>3. \A r \in Run : ~Engaged(r)
  BY <1>1, <1>2 DEF Engaged, Working
<1>4. QED
  BY <1>1, <1>2, <1>3 DEF Init, EngineInv, StageInv, ProcessInv, CreateInv, LaunchInv,
                          EngagedInv, OneEngaged

\* A step of a thread never engages a run, and changes a status only to end it.
LEMMA ThreadStepFrame ==
  ASSUME TypeOK, NEW r \in Run, ThreadStep(r)
  PROVE  /\ server = "up" /\ pc[r] # "none"
         /\ UNCHANGED <<server, erased, owner, lastId, step, wants, made, lock>>
         /\ \A u \in Run : u # r => pc'[u] = pc[u] /\ status'[u] = status[u]
         /\ status'[r] # "running" \/ status'[r] = status[r]
         /\ pc'[r] \in Working => pc[r] \in Working /\ status'[r] = status[r]
<1> USE DEF TypeOK, At, GoTo, Working, InsertOK, InsertRaises, Fault, SetStatus, rows, web
<1>1. CASE LoopCheck(r)
  BY <1>1 DEF LoopCheck
<1>2. CASE EnterPhase(r)
  BY <1>2 DEF EnterPhase
<1>3. CASE Stage(r)
  BY <1>3 DEF Stage
<1>4. CASE Finalize(r)
  BY <1>4 DEF Finalize
<1>5. CASE Hook(r)
  BY <1>5 DEF Hook
<1>6. CASE Complete(r)
  BY <1>6 DEF Complete
<1>7. CASE Announce(r)
  BY <1>7 DEF Announce
<1>8. CASE MarkCancelled(r)
  BY <1>8 DEF MarkCancelled
<1>9. CASE Failing(r)
  BY <1>9 DEF Failing
<1>10. CASE MarkFailed(r)
  BY <1>10 DEF MarkFailed
<1>11. CASE Cleanup(r)
  BY <1>11 DEF Cleanup
<1>12. QED
  BY <1>1, <1>2, <1>3, <1>4, <1>5, <1>6, <1>7, <1>8, <1>9, <1>10, <1>11 DEF ThreadStep

LEMMA EngineThreadStep ==
  ASSUME TypeOK, EngineInv, NEW r \in Run, ThreadStep(r)
  PROVE  ProcessInv' /\ CreateInv' /\ LaunchInv' /\ EngagedInv' /\ OneEngaged'
<1>1. ProcessInv'
  BY ThreadStepFrame DEF ProcessInv
<1>2. CreateInv'
  BY ThreadStepFrame DEF EngineInv, CreateInv
<1>3. LaunchInv'
  <2>1. r <= lastId /\ \A q \in Request : step[q] = "launch" => made[q] # r
    BY ThreadStepFrame DEF EngineInv, LaunchInv, TypeOK, Run
  <2>2. QED
    BY <2>1, ThreadStepFrame DEF EngineInv, LaunchInv
<1>4. \A u \in Run : Engaged(u)' => Engaged(u) /\ (u = r => pc'[u] \in Working)
  BY ThreadStepFrame DEF Engaged, EngineInv, LaunchInv
<1>5. EngagedInv'
  BY <1>4, ThreadStepFrame DEF EngineInv, EngagedInv
<1>6. OneEngaged'
  BY <1>4, ThreadStepFrame DEF EngineInv, OneEngaged
<1>7. QED
  BY <1>1, <1>2, <1>3, <1>5, <1>6

LEMMA EngineNext == TypeOK /\ EngineInv /\ [Next]_vars => EngineInv'
<1> SUFFICES ASSUME TypeOK, EngineInv, [Next]_vars PROVE EngineInv'
  OBVIOUS
<1>0. StageInv'
  BY TypeNext DEF EngineInv
<1> DEFINE Rest == ProcessInv /\ CreateInv /\ LaunchInv /\ EngagedInv /\ OneEngaged
<1>1. ASSUME NEW q \in Request, NEW m \in Migration, NEW k \in Kinds, StartCheck(q, m, k)
      PROVE Rest'
  <2>1. /\ step' = [step EXCEPT ![q] = "create"] /\ lock' = q /\ lock = NoRequest
        /\ wants' = [wants EXCEPT ![q] = [mig |-> m, kind |-> k]]
        /\ step[q] = "idle" /\ server = "up" /\ lastId < MaxRuns
        /\ \A r \in Run : owner[r] = m => status[r] # "running"
        /\ UNCHANGED <<server, erased, status, owner, lastId, pc, made>>
    BY <1>1 DEF StartCheck, Idle, Active, rows, thread
  <2>2. ProcessInv' /\ LaunchInv'
    BY <2>1 DEF EngineInv, ProcessInv, LaunchInv, TypeOK
  <2>3. CreateInv'
    BY <2>1, RequestAssumption DEF EngineInv, CreateInv, TypeOK, NoRequest
  <2>4. \A r \in Run : Engaged(r)' => Engaged(r)
    BY <2>1 DEF Engaged, TypeOK
  <2>5. EngagedInv' /\ OneEngaged'
    BY <2>1, <2>4 DEF EngineInv, EngagedInv, OneEngaged
  <2>6. QED
    BY <2>2, <2>3, <2>5
<1>2. ASSUME NEW q \in Request, NEW m \in Migration, DeleteMigrationCheck(q, m) PROVE Rest'
  <2>1. /\ step' = [step EXCEPT ![q] = "erase"] /\ step[q] = "idle" /\ server = "up"
        /\ wants' = [wants EXCEPT ![q] = [Nothing EXCEPT !.mig = m]]
        /\ UNCHANGED <<server, erased, status, owner, lastId, pc, made, lock>>
    BY <1>2 DEF DeleteMigrationCheck, Idle, rows, thread
  <2>2. ProcessInv' /\ LaunchInv' /\ CreateInv'
    BY <2>1 DEF EngineInv, ProcessInv, LaunchInv, CreateInv, TypeOK, Nothing
  <2>3. \A r \in Run : Engaged(r)' => Engaged(r)
    BY <2>1 DEF Engaged, TypeOK
  <2>4. EngagedInv' /\ OneEngaged'
    BY <2>1, <2>3 DEF EngineInv, EngagedInv, OneEngaged
  <2>5. QED
    BY <2>2, <2>4
<1>3. ASSUME NEW q \in Request, StartCreate(q) PROVE Rest'
  <2>1. /\ step[q] = "create" /\ lock = q /\ lock' = NoRequest
        /\ wants' = [wants EXCEPT ![q] = Nothing]
        /\ UNCHANGED <<server, erased, pc>>
    BY <1>3 DEF StartCreate
  <2>2. \A u \in Request : u # q => step[u] # "create"
    BY <2>1 DEF EngineInv, CreateInv
  <2>3. CASE /\ step' = [step EXCEPT ![q] = "idle"]
             /\ UNCHANGED <<rows, pos, made, asked>>
    <3>1. ProcessInv' /\ LaunchInv' /\ CreateInv'
      BY <2>1, <2>2, <2>3 DEF EngineInv, ProcessInv, LaunchInv, CreateInv, TypeOK, rows, Nothing
    <3>2. \A r \in Run : Engaged(r)' => Engaged(r)
      BY <2>1, <2>3 DEF Engaged, TypeOK
    <3>3. EngagedInv' /\ OneEngaged'
      BY <2>1, <2>3, <3>2 DEF EngineInv, EngagedInv, OneEngaged, rows
    <3>4. QED
      BY <3>1, <3>3
  <2>4. CASE /\ step' = [step EXCEPT ![q] = "launch"] /\ wants[q].mig \notin erased
             /\ status' = [status EXCEPT ![lastId + 1] = "running"]
             /\ owner' = [owner EXCEPT ![lastId + 1] = wants[q].mig]
             /\ lastId' = lastId + 1
             /\ made' = [made EXCEPT ![q] = lastId + 1]
    <3> DEFINE n == lastId + 1
    <3>1. n \in Run /\ n > lastId /\ pc[n] = "none" /\ lastId \in Nat
      BY <2>1, MaxRunsAssumption DEF EngineInv, CreateInv, LaunchInv, Run, TypeOK
    <3>2. \A u \in Request : step[u] = "launch" => made[u] # n
      BY <3>1 DEF EngineInv, LaunchInv
    <3>3. ProcessInv'
      BY <2>1, <2>4 DEF EngineInv, ProcessInv, TypeOK
    <3>4. CreateInv'
      BY <2>1, <2>2, <2>4 DEF EngineInv, CreateInv, TypeOK
    <3>5. LaunchInv'
      <4>1. \A r \in Run : r > lastId' => pc'[r] = "none"
        BY <2>1, <2>4, <3>1 DEF EngineInv, LaunchInv, Run
      <4>2. \A u \in Request : step'[u] = "launch" =>
              made'[u] \in Run /\ made'[u] <= lastId' /\ pc'[made'[u]] = "none"
        BY <2>1, <2>4, <3>1 DEF EngineInv, LaunchInv, TypeOK, Run
      <4>3. \A u, v \in Request :
              step'[u] = "launch" /\ step'[v] = "launch" /\ made'[u] = made'[v] => u = v
        BY <2>1, <2>4, <3>1, <3>2 DEF EngineInv, LaunchInv, TypeOK
      <4>4. QED
        BY <4>1, <4>2, <4>3 DEF LaunchInv
    <3>6. \A r \in Run : Engaged(r)' => Engaged(r) \/ r = n
      BY <2>1, <2>4 DEF Engaged, TypeOK
    <3>7. /\ status'[n] = "running" /\ owner'[n] = wants[q].mig
          /\ \A r \in Run : r # n => status'[r] = status[r] /\ owner'[r] = owner[r]
      BY <2>4, <3>1 DEF TypeOK
    <3>8. \A r \in Run : owner[r] = wants[q].mig => ~Engaged(r)
      BY <2>1, <2>4 DEF EngineInv, CreateInv, EngagedInv
    <3> HIDE DEF n
    <3>9. EngagedInv' /\ OneEngaged'
      BY <2>1, <3>6, <3>7, <3>8 DEF EngineInv, EngagedInv, OneEngaged
    <3>10. QED
      BY <3>3, <3>4, <3>5, <3>9
  <2>5. QED
    BY <1>3, <2>3, <2>4 DEF StartCreate, NextId
<1>4. ASSUME NEW q \in Request, Launch(q) PROVE Rest'
  <2>1. /\ step[q] = "launch" /\ step' = [step EXCEPT ![q] = "idle"]
        /\ made' = [made EXCEPT ![q] = 0]
        /\ pc' = pc \/ pc' = [pc EXCEPT ![made[q]] = "loop"]
        /\ UNCHANGED <<server, erased, status, owner, lastId, wants, lock>>
    BY <1>4 DEF Launch, rows
  <2>2. made[q] \in Run /\ made[q] <= lastId /\ Engaged(made[q])
    BY <2>1 DEF EngineInv, LaunchInv, Engaged
  <2>3. \A u \in Request : u # q /\ step[u] = "launch" => made[u] # made[q]
    BY <2>1 DEF EngineInv, LaunchInv
  <2>4. ProcessInv' /\ CreateInv'
    BY <2>1 DEF EngineInv, ProcessInv, CreateInv, TypeOK
  <2>5. \A r \in Run : r # made[q] => pc'[r] = pc[r]
    BY <2>1, <2>2 DEF TypeOK
  <2>6. LaunchInv'
    BY <2>1, <2>2, <2>3, <2>5 DEF EngineInv, LaunchInv, TypeOK, Run
  <2>7. \A r \in Run : Engaged(r)' => Engaged(r)
    BY <2>1, <2>2, <2>5 DEF Engaged, TypeOK
  <2>8. EngagedInv' /\ OneEngaged'
    BY <2>1, <2>7 DEF EngineInv, EngagedInv, OneEngaged
  <2>9. QED
    BY <2>4, <2>6, <2>8
<1>5. ASSUME NEW q \in Request, DeleteMigration(q) PROVE Rest'
  <2>1. /\ step[q] = "erase" /\ step' = [step EXCEPT ![q] = "idle"]
        /\ wants' = [wants EXCEPT ![q] = Nothing]
        /\ UNCHANGED <<server, owner, lastId, pc, made, lock>>
    BY <1>5 DEF DeleteMigration, thread
  <2>2. /\ \A r \in Run : status'[r] = status[r] \/ (status'[r] = "deleted" /\ owner[r] \in erased')
        /\ erased \subseteq erased'
    BY <1>5 DEF DeleteMigration
  <2>3. ProcessInv' /\ LaunchInv' /\ CreateInv'
    BY <2>1, <2>2 DEF EngineInv, ProcessInv, LaunchInv, CreateInv, TypeOK
  <2>4. \A r \in Run : Engaged(r)' => Engaged(r)
    BY <2>1 DEF Engaged, TypeOK
  <2>5. EngagedInv' /\ OneEngaged'
    BY <2>1, <2>2, <2>4 DEF EngineInv, EngagedInv, OneEngaged
  <2>6. QED
    BY <2>3, <2>5
<1>6. ASSUME NEW r \in Run, Cancel(r) PROVE Rest'
  <2>1. UNCHANGED <<server, erased, status, owner, lastId, pc, step, wants, made, lock>>
    BY <1>6 DEF Cancel, rows, thread, web
  <2>2. QED
    BY <2>1 DEF EngineInv, ProcessInv, CreateInv, LaunchInv, EngagedInv, OneEngaged, Engaged
<1>7. ASSUME NEW r \in Run, DeleteRun(r) PROVE Rest'
  <2>1. /\ UNCHANGED <<server, erased, owner, lastId, pc, step, wants, made, lock>>
        /\ status[r] \in {"done", "failed", "cancelled"}
        /\ status' = [status EXCEPT ![r] = "deleted"]
    BY <1>7 DEF DeleteRun, thread, web
  <2>2. ProcessInv' /\ CreateInv' /\ LaunchInv' /\ OneEngaged'
    BY <2>1 DEF EngineInv, ProcessInv, CreateInv, LaunchInv, OneEngaged, Engaged, TypeOK
  <2>3. ~Engaged(r)
    BY <2>1 DEF EngineInv, EngagedInv
  <2>4. EngagedInv'
    BY <2>1, <2>3 DEF EngineInv, EngagedInv, Engaged, TypeOK
  <2>5. QED
    BY <2>2, <2>4
<1>8. ASSUME NEW r \in Run, ThreadStep(r) PROVE Rest'
  BY <1>8, EngineThreadStep
<1>9. ASSUME NEW r \in Run, SweepStale(r) PROVE Rest'
  <2>1. /\ server = "booting" /\ server' \in {"booting", "down"}
        /\ UNCHANGED <<pc, step, wants, made, lock, lastId>>
    BY <1>9 DEF SweepStale, SetStatus, Fault, rows, thread, web
  <2>2. /\ \A u \in Run : pc'[u] = "none"
        /\ \A q \in Request : step'[q] = "idle"
    BY <2>1 DEF EngineInv, ProcessInv
  <2>3. \A u \in Run : ~Engaged(u)'
    BY <2>2 DEF Engaged, Working
  <2>4. QED
    BY <2>1, <2>2, <2>3 DEF ProcessInv, CreateInv, LaunchInv, EngagedInv, OneEngaged
<1>10. ASSUME Crash PROVE Rest'
  <2>1. /\ \A u \in Run : pc'[u] = "none"
        /\ \A q \in Request : step'[q] = "idle"
    BY <1>10 DEF Crash
  <2>2. \A u \in Run : ~Engaged(u)'
    BY <2>1 DEF Engaged, Working
  <2>3. QED
    BY <2>1, <2>2 DEF ProcessInv, CreateInv, LaunchInv, EngagedInv, OneEngaged
<1>11. ASSUME Boot \/ Serve \/ UNCHANGED vars PROVE Rest'
  <2>1. /\ UNCHANGED <<erased, status, owner, lastId, pc, step, wants, made, lock>>
        /\ server' = server \/ server # "up"
    BY <1>11 DEF Boot, Serve, vars, rows, thread, web
  <2>2. QED
    BY <2>1 DEF EngineInv, ProcessInv, CreateInv, LaunchInv, EngagedInv, OneEngaged, Engaged
<1>12. Rest'
  BY <1>1, <1>2, <1>3, <1>4, <1>5, <1>6, <1>7, <1>8, <1>9, <1>10, <1>11 DEF Next, RequestStep
<1>13. QED
  BY <1>0, <1>12 DEF EngineInv

\* The invariant holds in every reachable state.
THEOREM EngineCorrect == Spec => [](TypeOK /\ EngineInv)
<1>1. Init => TypeOK /\ EngineInv
  BY TypeInit, EngineInit
<1>2. TypeOK /\ EngineInv /\ [Next]_vars => TypeOK' /\ EngineInv'
  BY TypeNext, EngineNext DEF EngineInv
<1>3. QED
  BY <1>1, <1>2, PTL DEF Spec

\* Every variable keeps its type, and no thread runs past its list of phases.
THEOREM TypeCorrect == Spec => []TypeOK
  BY EngineCorrect, PTL

\* Two threads never work on one migration at the same time.
THEOREM NoParallelStagesHolds == Spec => []NoParallelStages
<1>1. EngineInv => NoParallelStages
  BY DEF EngineInv, OneEngaged, Engaged, NoParallelStages
<1>2. QED
  BY <1>1, EngineCorrect, PTL
-----------------------------------------------------------------------------
(* RunEngine implements RunLifecycle, and the hook of a run that did not fail is alone. *)

\* Rows exist exactly up to the last id; a run without a row belongs to nobody.
RowInv ==
  \A r \in Run : /\ status[r] = "absent" <=> r > lastId
                 /\ status[r] = "absent" => owner[r] = NoMigration

\* While a run is engaged no other run of its migration is active, with or without a thread.
AloneInv ==
  \A r, q \in Run : Engaged(r) /\ owner[q] = owner[r] /\ status[q] = "running" => r = q

LifeInv == RowInv /\ AloneInv

LEMMA LifeInit == Init => LifeInv
<1> SUFFICES ASSUME Init PROVE LifeInv
  OBVIOUS
<1>1. RowInv
  BY DEF Init, RowInv, Run
<1>2. AloneInv
  BY DEF Init, AloneInv
<1>3. QED
  BY <1>1, <1>2 DEF LifeInv
-----------------------------------------------------------------------------
(* What each kind of step does to the rows: the action of RunLifecycle it is. *)

\* A thread that is not at the end of its run has a row that is running or gone, so that the
\* status it writes ends the run; on the failure path it may downgrade a run that has ended.
LEMMA ThreadStepLife ==
  ASSUME TypeOK, EngineInv, LifeInv, NEW r \in Run, ThreadStep(r)
  PROVE  /\ UNCHANGED <<owner, lastId>>
         /\ \/ UNCHANGED status
            \/ status[r] = "running" /\ \E out \in {"done", "failed", "cancelled"} :
                                           status' = [status EXCEPT ![r] = out]
            \/ status[r] \in {"done", "cancelled"} /\ status' = [status EXCEPT ![r] = "failed"]
<1>1. UNCHANGED <<owner, lastId>> /\ pc[r] # "none"
  BY ThreadStepFrame
<1>2. status[r] # "absent"
  BY <1>1 DEF LifeInv, RowInv, EngineInv, LaunchInv
<1>3. pc[r] \in Working => status[r] \in {"running", "deleted"}
  BY DEF EngineInv, EngagedInv, Engaged
<1>4. \/ UNCHANGED status
      \/ pc[r] \in {"complete", "cancelling"} /\ status[r] # "deleted"
           /\ \E out \in {"done", "cancelled"} : status' = [status EXCEPT ![r] = out]
      \/ status[r] # "deleted" /\ status' = [status EXCEPT ![r] = "failed"]
  <2> USE DEF At, rows, SetStatus
  <2>1. CASE LoopCheck(r) \/ EnterPhase(r) \/ Stage(r) \/ Finalize(r) \/ Hook(r)
    BY <2>1 DEF LoopCheck, EnterPhase, Stage, Finalize, Hook
  <2>2. CASE Complete(r)
    BY <2>2 DEF Complete
  <2>3. CASE MarkCancelled(r)
    BY <2>3 DEF MarkCancelled
  <2>4. CASE MarkFailed(r)
    BY <2>4 DEF MarkFailed
  <2>5. CASE Announce(r) \/ Failing(r) \/ Cleanup(r)
    BY <2>5 DEF Announce, Failing, Cleanup
  <2>6. QED
    BY <2>1, <2>2, <2>3, <2>4, <2>5 DEF ThreadStep
<1>5. CASE pc[r] \in {"complete", "cancelling"} /\ status[r] # "deleted"
             /\ \E out \in {"done", "cancelled"} : status' = [status EXCEPT ![r] = out]
  BY <1>1, <1>3, <1>5 DEF Working
<1>6. CASE status[r] # "deleted" /\ status' = [status EXCEPT ![r] = "failed"]
  <2>1. status \in [Run -> {"absent", "running", "done", "failed", "cancelled", "deleted"}]
    BY DEF TypeOK
  <2>2. status[r] \in {"running", "done", "failed", "cancelled"}
    BY <1>2, <1>6, <2>1
  <2>3. status[r] = "failed" => status' = status
    BY <1>6, <2>1
  <2>4. QED
    BY <1>1, <1>6, <2>2, <2>3
<1>7. QED
  BY <1>1, <1>4, <1>5, <1>6

\* create_run gives the next id to a migration that has no active run.
LEMMA StartCreateLife ==
  ASSUME TypeOK, EngineInv, LifeInv, NEW q \in Request, StartCreate(q)
  PROVE  \/ UNCHANGED rows /\ (\A r \in Run : Engaged(r)' => Engaged(r))
         \/ /\ wants[q].mig \in Migration /\ wants[q].mig \notin erased
            /\ lastId + 1 \in Run /\ status[lastId + 1] = "absent"
            /\ \A r \in Run : owner[r] = wants[q].mig => status[r] # "running"
            /\ status' = [status EXCEPT ![lastId + 1] = "running"]
            /\ owner' = [owner EXCEPT ![lastId + 1] = wants[q].mig]
            /\ lastId' = lastId + 1
            /\ \A r \in Run : Engaged(r)' => Engaged(r) \/ r = lastId + 1
<1>1. step[q] = "create" /\ UNCHANGED pc
  BY DEF StartCreate
<1>2. /\ wants[q].mig \in Migration /\ lastId < MaxRuns
      /\ \A r \in Run : owner[r] = wants[q].mig => status[r] # "running"
  BY <1>1 DEF EngineInv, CreateInv
<1>3. lastId + 1 \in Run /\ status[lastId + 1] = "absent"
  BY <1>2, MaxRunsAssumption DEF TypeOK, Run, LifeInv, RowInv
<1>4. CASE UNCHANGED <<rows, pos, made, asked>> /\ step' = [step EXCEPT ![q] = "idle"]
  BY <1>1, <1>4 DEF Engaged, TypeOK
<1>5. CASE /\ step' = [step EXCEPT ![q] = "launch"] /\ wants[q].mig \notin erased
           /\ status' = [status EXCEPT ![lastId + 1] = "running"]
           /\ owner' = [owner EXCEPT ![lastId + 1] = wants[q].mig]
           /\ lastId' = lastId + 1
           /\ made' = [made EXCEPT ![q] = lastId + 1]
  <2>1. \A r \in Run : Engaged(r)' => Engaged(r) \/ r = lastId + 1
    BY <1>1, <1>5 DEF Engaged, TypeOK
  <2>2. QED
    BY <1>2, <1>3, <1>5, <2>1
<1>6. QED
  BY <1>4, <1>5 DEF StartCreate, NextId

\* The cascade takes the rows of one migration and no others.
LEMMA DeleteMigrationLife ==
  ASSUME TypeOK, EngineInv, NEW q \in Request, DeleteMigration(q)
  PROVE  /\ UNCHANGED <<owner, lastId, pc>>
         /\ wants[q].mig \in Migration
         /\ \/ UNCHANGED status
            \/ status' = [r \in Run |-> IF owner[r] = wants[q].mig THEN "deleted" ELSE status[r]]
         /\ \A r \in Run : Engaged(r)' => Engaged(r)
<1>1. /\ step[q] = "erase" /\ step' = [step EXCEPT ![q] = "idle"]
      /\ UNCHANGED <<owner, lastId, pc, made>>
  BY DEF DeleteMigration, thread
<1>2. wants[q].mig \in Migration
  BY <1>1 DEF EngineInv, CreateInv
<1>3. \A r \in Run : Engaged(r)' => Engaged(r)
  BY <1>1 DEF Engaged, TypeOK
<1>4. QED
  BY <1>1, <1>2, <1>3 DEF DeleteMigration

\* The sweep fails a running row or nothing.
LEMMA SweepLife ==
  ASSUME NEW r \in Run, SweepStale(r)
  PROVE  /\ UNCHANGED <<owner, lastId, pc, step, made>> /\ server = "booting"
         /\ \/ UNCHANGED status
            \/ status[r] = "running" /\ status' = [status EXCEPT ![r] = "failed"]
  BY DEF SweepStale, SetStatus, Fault, thread, web

\* All other steps leave the rows alone, and engage nobody.
Quiet ==
  \/ \E q \in Request : \/ \E m \in Migration : \/ \E k \in Kinds : StartCheck(q, m, k)
                                                \/ DeleteMigrationCheck(q, m)
                        \/ Launch(q)
  \/ \E r \in Run : Cancel(r)
  \/ Crash \/ Boot \/ Serve \/ UNCHANGED vars
LEMMA QuietLife ==
  ASSUME TypeOK, EngineInv, Quiet
  PROVE  UNCHANGED <<status, owner, lastId>> /\ (\A r \in Run : Engaged(r)' => Engaged(r))
<1> USE DEF rows, thread, web, vars
<1>1. ASSUME NEW q \in Request, NEW m \in Migration, NEW k \in Kinds, StartCheck(q, m, k)
      PROVE UNCHANGED <<status, owner, lastId>> /\ (\A r \in Run : Engaged(r)' => Engaged(r))
  BY <1>1 DEF StartCheck, Engaged, TypeOK
<1>2. ASSUME NEW q \in Request, NEW m \in Migration, DeleteMigrationCheck(q, m)
      PROVE UNCHANGED <<status, owner, lastId>> /\ (\A r \in Run : Engaged(r)' => Engaged(r))
  BY <1>2 DEF DeleteMigrationCheck, Engaged, TypeOK
<1>3. ASSUME NEW q \in Request, Launch(q)
      PROVE UNCHANGED <<status, owner, lastId>> /\ (\A r \in Run : Engaged(r)' => Engaged(r))
  <2>1. /\ step[q] = "launch" /\ step' = [step EXCEPT ![q] = "idle"]
        /\ made' = [made EXCEPT ![q] = 0]
        /\ pc' = pc \/ pc' = [pc EXCEPT ![made[q]] = "loop"]
        /\ UNCHANGED <<status, owner, lastId>>
    BY <1>3 DEF Launch
  <2>2. made[q] \in Run /\ Engaged(made[q])
    BY <2>1 DEF EngineInv, LaunchInv, Engaged
  <2>3. \A r \in Run : r # made[q] => pc'[r] = pc[r]
    BY <2>1, <2>2 DEF TypeOK
  <2>4. QED
    BY <2>1, <2>2, <2>3 DEF Engaged, TypeOK
<1>4. ASSUME NEW r \in Run, Cancel(r)
      PROVE UNCHANGED <<status, owner, lastId>> /\ (\A u \in Run : Engaged(u)' => Engaged(u))
  BY <1>4 DEF Cancel, Engaged
<1>5. CASE Crash
  BY <1>5 DEF Crash, Engaged, Working
<1>6. CASE Boot \/ Serve \/ UNCHANGED vars
  BY <1>6 DEF Boot, Serve, Engaged
<1>7. QED
  BY <1>1, <1>2, <1>3, <1>4, <1>5, <1>6 DEF Quiet

LEMMA StepKinds ==
  [Next]_vars => \/ Quiet
                 \/ \E q \in Request : StartCreate(q) \/ DeleteMigration(q)
                 \/ \E r \in Run : DeleteRun(r) \/ ThreadStep(r) \/ SweepStale(r)
  BY DEF Next, RequestStep, Quiet
-----------------------------------------------------------------------------
(* The invariant is inductive. *)

LEMMA LifeNext == TypeOK /\ EngineInv /\ LifeInv /\ [Next]_vars => LifeInv'
<1> SUFFICES ASSUME TypeOK, EngineInv, LifeInv, [Next]_vars PROVE LifeInv'
  OBVIOUS
<1>1. CASE Quiet
  BY <1>1, QuietLife DEF LifeInv, RowInv, AloneInv
<1>2. ASSUME NEW q \in Request, StartCreate(q) PROVE LifeInv'
  <2>1. CASE UNCHANGED rows /\ (\A r \in Run : Engaged(r)' => Engaged(r))
    BY <2>1 DEF LifeInv, RowInv, AloneInv, rows
  <2>2. CASE /\ wants[q].mig \in Migration /\ wants[q].mig \notin erased
             /\ lastId + 1 \in Run /\ status[lastId + 1] = "absent"
             /\ \A r \in Run : owner[r] = wants[q].mig => status[r] # "running"
             /\ status' = [status EXCEPT ![lastId + 1] = "running"]
             /\ owner' = [owner EXCEPT ![lastId + 1] = wants[q].mig]
             /\ lastId' = lastId + 1
             /\ \A r \in Run : Engaged(r)' => Engaged(r) \/ r = lastId + 1
    <3> DEFINE n == lastId + 1
    <3>1. /\ status'[n] = "running" /\ owner'[n] = wants[q].mig
          /\ \A r \in Run : r # n => status'[r] = status[r] /\ owner'[r] = owner[r]
      BY <2>2 DEF TypeOK
    <3>2. RowInv'
      BY <2>2, <3>1 DEF LifeInv, RowInv, TypeOK, Run
    <3>3. \A r \in Run : owner[r] = wants[q].mig => ~Engaged(r)
      BY <2>2 DEF EngineInv, EngagedInv
    <3>4. n \in Run /\ \A r \in Run : Engaged(r)' => Engaged(r) \/ r = n
      BY <2>2
    <3>5. \A r \in Run : r # n /\ owner[r] = wants[q].mig => status[r] # "running"
      BY <2>2
    <3> HIDE DEF n
    <3>6. AloneInv'
      BY <3>1, <3>3, <3>4, <3>5 DEF LifeInv, AloneInv
    <3>7. QED
      BY <3>2, <3>6 DEF LifeInv
  <2>3. QED
    BY <1>2, <2>1, <2>2, StartCreateLife
<1>3. ASSUME NEW q \in Request, DeleteMigration(q) PROVE LifeInv'
  <2>1. wants[q].mig # NoMigration
    BY <1>3, DeleteMigrationLife, NoMigrationAssumption
  <2>2. \A r \in Run : \/ status'[r] = status[r]
                       \/ status'[r] = "deleted" /\ owner[r] # NoMigration
    BY <1>3, <2>1, DeleteMigrationLife
  <2>3. UNCHANGED <<owner, lastId>> /\ \A r \in Run : Engaged(r)' => Engaged(r)
    BY <1>3, DeleteMigrationLife
  <2>4. QED
    BY <2>2, <2>3 DEF LifeInv, RowInv, AloneInv
<1>4. ASSUME NEW r \in Run, DeleteRun(r) PROVE LifeInv'
  <2>1. /\ UNCHANGED <<owner, lastId, pc, step, made>>
        /\ status[r] \in {"done", "failed", "cancelled"}
        /\ status' = [status EXCEPT ![r] = "deleted"]
    BY <1>4 DEF DeleteRun, thread, web
  <2>2. QED
    BY <2>1 DEF LifeInv, RowInv, AloneInv, Engaged, TypeOK
<1>5. ASSUME NEW r \in Run, ThreadStep(r) PROVE LifeInv'
  <2>1. UNCHANGED <<owner, lastId, step, made>>
        /\ \A u \in Run : Engaged(u)' => Engaged(u)
    BY <1>5, ThreadStepFrame DEF Engaged
  <2>2. \A u \in Run : \/ status'[u] = status[u]
                       \/ status[u] # "absent" /\ status'[u] \notin {"absent", "running"}
    BY <1>5, ThreadStepLife DEF TypeOK
  <2>3. QED
    BY <2>1, <2>2 DEF LifeInv, RowInv, AloneInv
<1>6. ASSUME NEW r \in Run, SweepStale(r) PROVE LifeInv'
  <2>1. UNCHANGED <<owner, lastId>> /\ \A u \in Run : Engaged(u)' => Engaged(u)
    BY <1>6, SweepLife DEF Engaged
  <2>2. \A u \in Run : \/ status'[u] = status[u]
                       \/ status[u] # "absent" /\ status'[u] \notin {"absent", "running"}
    BY <1>6, SweepLife DEF TypeOK
  <2>3. QED
    BY <2>1, <2>2 DEF LifeInv, RowInv, AloneInv
<1>7. QED
  BY <1>1, <1>2, <1>3, <1>4, <1>5, <1>6, StepKinds
-----------------------------------------------------------------------------
(* Every step is a step of RunLifecycle, or leaves the rows alone. *)

LEMMA LifecycleNext ==
  TypeOK /\ EngineInv /\ LifeInv /\ [Next]_vars => [Lifecycle!Next]_(Lifecycle!vars)
<1> SUFFICES ASSUME TypeOK, EngineInv, LifeInv, [Next]_vars
             PROVE  Lifecycle!Next \/ UNCHANGED <<status, owner>>
  BY DEF Lifecycle!vars
<1>1. CASE Quiet
  BY <1>1, QuietLife
<1>2. ASSUME NEW q \in Request, StartCreate(q)
      PROVE  Lifecycle!Next \/ UNCHANGED <<status, owner>>
  <2>1. CASE UNCHANGED rows
    BY <2>1 DEF rows
  <2>2. CASE \E r \in Run, m \in Migration : Lifecycle!Create(r, m)
    BY <2>2 DEF Lifecycle!Next
  <2>3. QED
    BY <1>2, <2>1, <2>2, StartCreateLife DEF Lifecycle!Create
<1>3. ASSUME NEW q \in Request, DeleteMigration(q)
      PROVE  Lifecycle!Next \/ UNCHANGED <<status, owner>>
  BY <1>3, DeleteMigrationLife DEF Lifecycle!Next, Lifecycle!DeleteMigration
<1>4. ASSUME NEW r \in Run, DeleteRun(r)
      PROVE  Lifecycle!Next \/ UNCHANGED <<status, owner>>
  BY <1>4 DEF DeleteRun, Lifecycle!Next, Lifecycle!DeleteRun, Lifecycle!Terminal
<1>5. ASSUME NEW r \in Run, ThreadStep(r)
      PROVE  Lifecycle!Next \/ UNCHANGED <<status, owner>>
  BY <1>5, ThreadStepLife
     DEF Lifecycle!Next, Lifecycle!End, Lifecycle!Downgrade, Lifecycle!Terminal
<1>6. ASSUME NEW r \in Run, SweepStale(r)
      PROVE  Lifecycle!Next \/ UNCHANGED <<status, owner>>
  BY <1>6, SweepLife DEF Lifecycle!Next, Lifecycle!End, Lifecycle!Terminal
<1>7. QED
  BY <1>1, <1>2, <1>3, <1>4, <1>5, <1>6, StepKinds

\* The invariant holds in every reachable state.
THEOREM LifeCorrect == Spec => []LifeInv
<1>1. Init => LifeInv
  BY LifeInit
<1>2. TypeOK /\ EngineInv /\ LifeInv /\ [Next]_vars => LifeInv'
  BY LifeNext
<1>3. QED
  BY <1>1, <1>2, EngineCorrect, PTL DEF Spec

\* The engine implements the life cycle of the rows: a run is created under a fresh id while
\* its migration has no active run, ends once, is at most downgraded to failed afterwards,
\* and never runs again.
THEOREM LifecycleHolds == Spec => LifecycleSpec
<1>1. Init => Lifecycle!Init
  BY DEF Init, Lifecycle!Init
<1>2. TypeOK /\ EngineInv /\ LifeInv /\ [Next]_vars => [Lifecycle!Next]_(Lifecycle!vars)
  BY LifecycleNext
<1>3. QED
  BY <1>1, <1>2, EngineCorrect, LifeCorrect, PTL DEF Spec, LifecycleSpec, Lifecycle!Spec

\* While the hook of a run that did not fail undoes the elevations of its migration, no other
\* run of the migration is active.
THEOREM UndoIsAloneHolds == Spec => []UndoIsAlone
<1>1. LifeInv => UndoIsAlone
  BY DEF LifeInv, AloneInv, UndoIsAlone, Engaged, Working
<1>2. QED
  BY <1>1, LifeCorrect, PTL
-----------------------------------------------------------------------------
(* Cancellation.  The flag of a run outlives the run and says nothing of   *)
(* who raised it: CancelledOnlyIfAsked needs that the flag of an id still  *)
(* to come was raised early, which RowInv tells from one whose row is      *)
(* gone, and that between the read of the flag and the write of the status *)
(* a row cannot have become somebody else's.                               *)

CancelInv ==
  /\ \A r \in cancelled : /\ status[r] = "running" => r \in asked \cup early
                          /\ status[r] = "absent" => r \in early
  /\ \A r \in Run : pc[r] = "cancelling" /\ status[r] = "running" => r \in asked \cup early
  /\ CancelledOnlyIfAsked

\* A thread that reads the flag goes to cancel the run, and only there is it cancelled.
LEMMA CancelThreadFrame ==
  ASSUME TypeOK, NEW r \in Run, ThreadStep(r)
  PROVE  /\ UNCHANGED <<cancelled, asked, early>>
         /\ pc'[r] = "cancelling" => pc[r] = "cancelling" \/ r \in cancelled
         /\ status'[r] = "cancelled" =>
              status[r] = "cancelled" \/ (pc[r] = "cancelling" /\ status[r] # "deleted")
<1> USE DEF TypeOK, At, GoTo, InsertOK, InsertRaises, Fault, SetStatus, rows
<1>1. CASE LoopCheck(r)
  BY <1>1 DEF LoopCheck
<1>2. CASE EnterPhase(r)
  BY <1>2 DEF EnterPhase
<1>3. CASE Stage(r)
  BY <1>3 DEF Stage
<1>4. CASE Finalize(r)
  BY <1>4 DEF Finalize
<1>5. CASE Hook(r)
  BY <1>5 DEF Hook
<1>6. CASE Complete(r)
  BY <1>6 DEF Complete
<1>7. CASE Announce(r)
  BY <1>7 DEF Announce
<1>8. CASE MarkCancelled(r)
  BY <1>8 DEF MarkCancelled
<1>9. CASE Failing(r)
  BY <1>9 DEF Failing
<1>10. CASE MarkFailed(r)
  BY <1>10 DEF MarkFailed
<1>11. CASE Cleanup(r)
  BY <1>11 DEF Cleanup
<1>12. QED
  BY <1>1, <1>2, <1>3, <1>4, <1>5, <1>6, <1>7, <1>8, <1>9, <1>10, <1>11 DEF ThreadStep

\* A step that raises no flag, starts no run and cancels none keeps the invariant.
LEMMA CancelFrame ==
  ASSUME CancelInv, cancelled' \subseteq cancelled, UNCHANGED <<asked, early>>,
         \A r \in Run : /\ pc'[r] = "cancelling" => pc[r] = "cancelling"
                        /\ status'[r] = "running" => status[r] = "running"
                        /\ status'[r] = "cancelled" => status[r] = "cancelled"
                        /\ status'[r] = "absent" => status[r] = "absent",
         cancelled \subseteq Run
  PROVE  CancelInv'
BY DEF CancelInv, CancelledOnlyIfAsked

\* A run that has a row keeps having had one.
LEMMA AbsentBefore ==
  ASSUME TypeOK, EngineInv, LifeInv, [Next]_vars, NEW r \in Run, status'[r] = "absent"
  PROVE  status[r] = "absent"
<1>1. RowInv' /\ TypeOK'
  BY LifeNext, TypeNext DEF LifeInv, EngineInv
<1>2. lastId <= lastId'
  <2>1. CASE Quiet
    BY <2>1, QuietLife DEF TypeOK
  <2>2. ASSUME NEW q \in Request, StartCreate(q) PROVE lastId <= lastId'
    <3>1. lastId' = lastId + 1 \/ lastId' = lastId
      BY <2>2 DEF StartCreate, NextId, rows
    <3>2. QED
      BY <3>1 DEF TypeOK
  <2>3. ASSUME NEW q \in Request, DeleteMigration(q) PROVE lastId <= lastId'
    BY <2>3, DeleteMigrationLife DEF TypeOK
  <2>4. ASSUME NEW u \in Run, DeleteRun(u) PROVE lastId <= lastId'
    BY <2>4 DEF DeleteRun, TypeOK
  <2>5. ASSUME NEW u \in Run, ThreadStep(u) PROVE lastId <= lastId'
    BY <2>5, ThreadStepFrame DEF TypeOK
  <2>6. ASSUME NEW u \in Run, SweepStale(u) PROVE lastId <= lastId'
    BY <2>6, SweepLife DEF TypeOK
  <2>7. QED
    BY <2>1, <2>2, <2>3, <2>4, <2>5, <2>6, StepKinds
<1>3. QED
  BY <1>1, <1>2 DEF LifeInv, RowInv, TypeOK, Run

LEMMA CancelNext ==
  TypeOK /\ EngineInv /\ LifeInv /\ CancelInv /\ [Next]_vars => CancelInv'
<1> SUFFICES ASSUME TypeOK, EngineInv, LifeInv, CancelInv, [Next]_vars PROVE CancelInv'
  OBVIOUS
<1>. \A r \in Run : status'[r] = "absent" => status[r] = "absent"
  BY AbsentBefore
<1>0. cancelled \subseteq Run
  BY DEF TypeOK
<1>1. ASSUME NEW q \in Request, NEW m \in Migration,
             (\E k \in Kinds : StartCheck(q, m, k)) \/ DeleteMigrationCheck(q, m)
      PROVE CancelInv'
  BY <1>0, <1>1, CancelFrame DEF StartCheck, DeleteMigrationCheck, rows, thread
<1>2. ASSUME NEW q \in Request, StartCreate(q) PROVE CancelInv'
  <2>1. UNCHANGED <<pc, cancelled>> /\ step[q] = "create"
    BY <1>2 DEF StartCreate
  <2>2. CASE UNCHANGED <<rows, asked>>
    BY <1>0, <1>2, <2>1, <2>2, CancelFrame DEF rows, StartCreate
  <2>3. CASE /\ status' = [status EXCEPT ![lastId + 1] = "running"]
             /\ lastId' = lastId + 1 /\ asked' = asked \ {lastId + 1}
    <3>1. /\ lastId + 1 \in Run /\ pc[lastId + 1] = "none" /\ status[lastId + 1] = "absent"
          /\ UNCHANGED early
      BY <1>2, <2>1, MaxRunsAssumption
         DEF EngineInv, CreateInv, LaunchInv, TypeOK, Run, StartCreate, LifeInv, RowInv
    <3>2. \A r \in Run : r # lastId + 1 => status'[r] = status[r]
      BY <2>3 DEF TypeOK
    <3>3. status'[lastId + 1] = "running"
      BY <2>3, <3>1 DEF TypeOK
    <3>4. QED
      BY <1>0, <2>1, <2>3, <3>1, <3>2, <3>3 DEF CancelInv, CancelledOnlyIfAsked
  <2>4. QED
    BY <1>2, <2>2, <2>3 DEF StartCreate, NextId
<1>3. ASSUME NEW q \in Request, Launch(q) PROVE CancelInv'
  <2>1. pc' = pc \/ pc' = [pc EXCEPT ![made[q]] = "loop"]
    BY <1>3 DEF Launch
  <2>2. \A r \in Run : pc'[r] = "cancelling" => pc[r] = "cancelling"
    BY <2>1 DEF TypeOK
  <2>3. QED
    BY <1>0, <1>3, <2>2, CancelFrame DEF Launch, rows
<1>4. ASSUME NEW q \in Request, DeleteMigration(q) PROVE CancelInv'
  <2>1. \A r \in Run : status'[r] \in {status[r], "deleted"}
    BY <1>4 DEF DeleteMigration
  <2>2. QED
    BY <1>0, <1>4, <2>1, CancelFrame DEF DeleteMigration, thread
<1>5. ASSUME NEW r \in Run, Cancel(r) PROVE CancelInv'
  <2>1. /\ cancelled' = cancelled \cup {r} /\ UNCHANGED <<status, pc>>
        /\ asked' = IF status[r] = "running" THEN asked \cup {r} ELSE asked
        /\ early' = IF status[r] = "absent" THEN early \cup {r} ELSE early
    BY <1>5 DEF Cancel, Note, rows, thread
  <2>2. QED
    BY <2>1 DEF CancelInv, CancelledOnlyIfAsked
<1>6. ASSUME NEW r \in Run, DeleteRun(r) PROVE CancelInv'
  <2>1. \A u \in Run : status'[u] \in {status[u], "deleted"}
    BY <1>6 DEF DeleteRun, TypeOK
  <2>2. QED
    BY <1>0, <1>6, <2>1, CancelFrame DEF DeleteRun, thread
<1>7. ASSUME NEW r \in Run, ThreadStep(r) PROVE CancelInv'
  <2>1. pc[r] = "cancelling" => status[r] \in {"running", "deleted"}
    BY DEF EngineInv, EngagedInv, Engaged, Working
  <2>2. /\ \A u \in Run : u # r => pc'[u] = pc[u] /\ status'[u] = status[u]
        /\ status'[r] = "running" => status[r] = "running"
    BY <1>7, ThreadStepFrame
  <2>3. QED
    BY <1>0, <1>7, <2>1, <2>2, CancelThreadFrame DEF CancelInv, CancelledOnlyIfAsked
<1>8. ASSUME NEW r \in Run, SweepStale(r) PROVE CancelInv'
  <2>1. \A u \in Run : status'[u] \in {status[u], "failed"}
    BY <1>8 DEF SweepStale, SetStatus, TypeOK
  <2>2. UNCHANGED <<cancelled, asked, early, pc>>
    BY <1>8 DEF SweepStale, SetStatus, thread
  <2>3. QED
    BY <1>0, <2>1, <2>2, CancelFrame
<1>9. ASSUME Crash PROVE CancelInv'
  BY <1>9 DEF Crash, rows, CancelInv, CancelledOnlyIfAsked
<1>10. ASSUME Boot \/ Serve \/ UNCHANGED vars PROVE CancelInv'
  BY <1>0, <1>10, CancelFrame DEF Boot, Serve, vars, rows, thread
<1>11. QED
  BY <1>1, <1>2, <1>3, <1>4, <1>5, <1>6, <1>7, <1>8, <1>9, <1>10 DEF Next, RequestStep

\* A run is only cancelled when somebody asked for it while it was running, or asked for its
\* id before any run had it: flags of runs that ended or whose row is gone hit nobody else.
THEOREM CancelledOnlyIfAskedHolds == Spec => []CancelledOnlyIfAsked
<1>1. Init => CancelInv
  BY DEF Init, CancelInv, CancelledOnlyIfAsked
<1>2. CancelInv => CancelledOnlyIfAsked
  BY DEF CancelInv
<1>3. QED
  BY <1>1, <1>2, CancelNext, EngineCorrect, LifeCorrect, PTL DEF Spec
=============================================================================
