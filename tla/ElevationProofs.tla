-------------------------- MODULE ElevationProofs ---------------------------
(* Proofs about Elevation: its types, and that no interleaving of           *)
(* elevations, undos, failures and restarts removes a membership that       *)
(* others gave.                                                             *)
EXTENDS Elevation, TLAPS

\* A handler that is in the middle of a request knows its run and side.
KeyInv == \A h \in Elevator : op[h] # "idle" => key[h] \in Run \X Side

\* What the tool believes to be its own was never given by others; what others gave is there.
StandingInv ==
  /\ standing \subseteq member
  /\ \A p \in Project : Mentioned(p) => p \notin standing

-----------------------------------------------------------------------------
LEMMA TypeInit == Init => TypeOK /\ KeyInv
BY DEF Init, TypeOK, KeyInv, NoKey

\* A request to remove a membership keeps the types of the site.
LEMMA RemoveType ==
  ASSUME TypeOK, NEW p \in Project, RemoveOK(p) \/ RemoveFails(p)
  PROVE  member' \subseteq Project /\ ours' \subseteq member' /\ standing' \subseteq Project
BY DEF TypeOK, RemoveOK, RemoveFails, site

LEMMA ListedType == ASSUME NEW k PROVE Listed(k) \subseteq Project
BY DEF Listed

LEMMA TypeEngineStep ==
  ASSUME TypeOK, KeyInv, NEW r \in Run, EngineStep(r)
  PROVE  TypeOK' /\ KeyInv'
<1> USE DEF TypeOK, KeyInv, site, books, handlers, hooks, bounds
<1>1. ASSUME NEW m \in Migration, NEW k \in Kinds, Start(r, m, k)
      PROVE  TypeOK' /\ KeyInv'
  BY <1>1 DEF Start, Become, Move
<1>2. ASSUME Advance(r) PROVE TypeOK' /\ KeyInv'
  BY <1>2 DEF Advance
<1>3. ASSUME Finalize(r) PROVE TypeOK' /\ KeyInv'
  BY <1>3 DEF Finalize, Move
<1>4. ASSUME Cancel(r) PROVE TypeOK' /\ KeyInv'
  BY <1>4 DEF Cancel, Become, Move
<1>5. ASSUME Fail(r) PROVE TypeOK' /\ KeyInv'
  BY <1>5 DEF Fail, Become, Move
<1>6. ASSUME Complete(r) PROVE TypeOK' /\ KeyInv'
  BY <1>6 DEF Complete, Become, Move
<1>7. ASSUME DeleteRun(r) PROVE TypeOK' /\ KeyInv'
  BY <1>7 DEF DeleteRun, Become
<1> QED BY <1>1, <1>2, <1>3, <1>4, <1>5, <1>6, <1>7 DEF EngineStep

LEMMA TypeHandlerStep ==
  ASSUME TypeOK, KeyInv, NEW h \in Elevator, HandlerStep(h)
  PROVE  TypeOK' /\ KeyInv'
<1> USE DEF TypeOK, KeyInv, engine, site, books, hooks, bounds
<1>1. ASSUME NEW r \in Run, NEW s \in Side, Elevate(h, r, s) PROVE TypeOK' /\ KeyInv'
  BY <1>1 DEF Elevate, Receive, GoOn
<1>2. ASSUME NEW r \in Run, NEW s \in Side, Undo(h, r, s) PROVE TypeOK' /\ KeyInv'
  BY <1>2, ListedType DEF Undo, Receive, GoOn
<1>3. ASSUME NEW p \in Project, Precheck(h, p) PROVE TypeOK' /\ KeyInv'
  BY <1>3 DEF Precheck, GoOn, Drop
<1>4. ASSUME NEW p \in Project, Post(h, p) PROVE TypeOK' /\ KeyInv'
  BY <1>4 DEF Post, GoOn, Drop
<1>5. ASSUME NEW p \in Project, Remove(h, p) PROVE TypeOK' /\ KeyInv'
  BY <1>5, RemoveType DEF Remove, Drop
<1>6. ASSUME Save(h) PROVE TypeOK' /\ KeyInv'
  BY <1>6 DEF Save, GoOn, Rows, NoKey
<1>7. ASSUME Forget(h) PROVE TypeOK' /\ KeyInv'
  BY <1>7 DEF Forget, GoOn, DropRow, NoKey
<1> QED BY <1>1, <1>2, <1>3, <1>4, <1>5, <1>6, <1>7 DEF HandlerStep

LEMMA TypeHookStep ==
  ASSUME TypeOK, KeyInv, NEW r \in Run, HookStep(r)
  PROVE  TypeOK' /\ KeyInv'
<1> USE DEF TypeOK, KeyInv, engine, site, books, handlers, bounds
<1>1. ASSUME UndoBegin(r) PROVE TypeOK' /\ KeyInv'
  <2>1. Recorded(r) \subseteq Project /\ Siblings(r) \subseteq Run
    BY <1>1 DEF Recorded, Siblings
  <2> QED BY <1>1, <2>1 DEF UndoBegin, TrackDue
<1>2. ASSUME UndoSkip(r) PROVE TypeOK' /\ KeyInv'
  BY <1>2 DEF UndoSkip, DropKey, Disturbed
<1>3. ASSUME UndoRead(r) PROVE TypeOK' /\ KeyInv'
  BY <1>3, ListedType DEF UndoRead
<1>4. ASSUME NEW p \in Project, UndoRemove(r, p) PROVE TypeOK' /\ KeyInv'
  <2>1. member' \subseteq Project /\ ours' \subseteq member' /\ standing' \subseteq Project
    <3>1. RemoveOK(p) \/ RemoveFails(p)
      BY <1>4 DEF UndoRemove
    <3> QED BY <3>1, RemoveType
  <2>2. uok' \in [Run -> BOOLEAN] /\ due' \in [Run -> SUBSET Project]
    <3>1. uok' = uok \/ uok' = [uok EXCEPT ![r] = FALSE]
      BY <1>4, Zenon DEF UndoRemove
    <3>2. due' = due \/ due' = [due EXCEPT ![r] = {}]
      BY <1>4, Zenon DEF UndoRemove, Disturbed
    <3>3. uok' \in [Run -> BOOLEAN]
      BY <3>1
    <3>4. due' \in [Run -> SUBSET Project]
      BY <3>2
    <3> QED BY <3>3, <3>4
  <2>3. uleft' \in [Run -> SUBSET Project]
    BY <1>4 DEF UndoRemove
  <2>4. UNCHANGED <<engine, books, handlers, undo, todo>>
    BY <1>4 DEF UndoRemove
  <2> QED BY <2>1, <2>2, <2>3, <2>4
<1>5. ASSUME UndoKeep(r) PROVE TypeOK' /\ KeyInv'
  BY <1>5 DEF UndoKeep, DropKey
<1>6. ASSUME UndoDrop(r) PROVE TypeOK' /\ KeyInv'
  BY <1>6 DEF UndoDrop, DropKey, DropRow, Disturbed
<1>7. ASSUME UndoEnd(r) PROVE TypeOK' /\ KeyInv'
  BY <1>7 DEF UndoEnd, Move
<1> QED BY <1>1, <1>2, <1>3, <1>4, <1>5, <1>6, <1>7 DEF HookStep

LEMMA TypeNext == TypeOK /\ KeyInv /\ [Next]_vars => TypeOK' /\ KeyInv'
<1> SUFFICES ASSUME TypeOK, KeyInv, [Next]_vars PROVE TypeOK' /\ KeyInv'
  OBVIOUS
<1>1. ASSUME NEW r \in Run, EngineStep(r) \/ HookStep(r) PROVE TypeOK' /\ KeyInv'
  BY <1>1, TypeEngineStep, TypeHookStep
<1>2. ASSUME NEW h \in Elevator, HandlerStep(h) PROVE TypeOK' /\ KeyInv'
  BY <1>2, TypeHandlerStep
<1>3. ASSUME NEW p \in Project, AdminActs(p) PROVE TypeOK' /\ KeyInv'
  BY <1>3 DEF TypeOK, KeyInv, AdminActs, engine, books, handlers, hooks
<1>4. ASSUME Crash PROVE TypeOK' /\ KeyInv'
  BY <1>4 DEF TypeOK, KeyInv, Crash, site, books
<1>5. ASSUME UNCHANGED vars PROVE TypeOK' /\ KeyInv'
  BY <1>5 DEF TypeOK, KeyInv, vars, engine, site, books, handlers, hooks, bounds
<1> QED BY <1>1, <1>2, <1>3, <1>4, <1>5 DEF Next

\* The types of the state, for any number of runs, handlers and projects.
THEOREM TypeCorrect == Spec => []TypeOK
<1>1. Init => TypeOK /\ KeyInv
  BY TypeInit
<1>2. TypeOK /\ KeyInv /\ [Next]_vars => TypeOK' /\ KeyInv'
  BY TypeNext
<1> QED BY <1>1, <1>2, PTL DEF Spec

-----------------------------------------------------------------------------
LEMMA StandingInit == Init => StandingInv
BY DEF Init, StandingInv, Mentioned

\* Nothing changes for StandingInv when nobody new is mentioned and the site is untouched.
LEMMA Frame ==
  ASSUME StandingInv, UNCHANGED site, \A p \in Project : Mentioned(p)' => Mentioned(p)
  PROVE  StandingInv'
BY DEF StandingInv, site

\* A membership the tool mentions may go: others did not give it.
LEMMA RemoveKeeps ==
  ASSUME StandingInv, NEW p \in Project, Mentioned(p), RemoveOK(p) \/ RemoveFails(p),
         \A q \in Project : Mentioned(q)' => Mentioned(q)
  PROVE  StandingInv'
<1>1. standing' = standing /\ member \ {p} \subseteq member'
  BY DEF RemoveOK, RemoveFails, site
<1> QED BY <1>1 DEF StandingInv

LEMMA StandingHandlerStep ==
  ASSUME TypeOK, KeyInv, StandingInv, NEW h \in Elevator, HandlerStep(h)
  PROVE  StandingInv'
<1> USE DEF TypeOK
<1>1. ASSUME NEW r \in Run, NEW s \in Side, Elevate(h, r, s) PROVE StandingInv'
  <2>1. \A p \in Project : Mentioned(p)' => Mentioned(p)
    BY <1>1 DEF Elevate, Receive, GoOn, Mentioned, books
  <2> QED BY <1>1, <2>1, Frame DEF Elevate, Receive
<1>2. ASSUME NEW r \in Run, NEW s \in Side, Undo(h, r, s) PROVE StandingInv'
  <2>1. \A p \in Project : p \in Listed(<<r, s>>) => <<r, p>> \in book
    BY DEF Listed
  <2>2. /\ UNCHANGED <<site, book, added, uleft>>
        /\ op' = [op EXCEPT ![h] = "remove"]
        /\ left' = [left EXCEPT ![h] = Listed(<<r, s>>)]
    BY <1>2 DEF Undo, Receive, GoOn, books
  <2>3. \A p \in Project, g \in Elevator :
          op'[g] = "remove" /\ p \in left'[g] =>
            (op[g] = "remove" /\ p \in left[g]) \/ <<r, p>> \in book
    BY <2>1, <2>2
  <2>4. \A p \in Project : Mentioned(p)' => Mentioned(p)
    BY <2>2, <2>3, Zenon DEF Mentioned
  <2> QED BY <2>2, <2>4, Frame
<1>3. ASSUME NEW p \in Project, Precheck(h, p) PROVE StandingInv'
  <2>1. \A q \in Project : Mentioned(q)' => Mentioned(q)
    BY <1>3 DEF Precheck, GoOn, Drop, Mentioned, books, hooks
  <2> QED BY <1>3, <2>1, Frame DEF Precheck
<1>4. ASSUME NEW p \in Project, Post(h, p) PROVE StandingInv'
  <2>1. standing' = standing /\ member \subseteq member'
    BY <1>4 DEF Post, site
  <2>2. /\ UNCHANGED <<book, uleft>>
        /\ op' = [op EXCEPT ![h] = "precheck"]
        /\ left' = [left EXCEPT ![h] = @ \ {p}]
    BY <1>4 DEF Post, GoOn, Drop, books, hooks
  <2>3. added' = added \/ (added' = [added EXCEPT ![h] = @ \cup {p}] /\ p \notin member)
    BY <1>4, Zenon DEF Post
  <2>4. \A q \in Project, g \in Elevator :
          q \in added'[g] => q \in added[g] \/ (q = p /\ p \notin member)
    BY <2>3
  <2>5. \A q \in Project, g \in Elevator :
          op'[g] = "remove" /\ q \in left'[g] => op[g] = "remove" /\ q \in left[g]
    BY <2>2
  <2>6. \A q \in Project : Mentioned(q)' => Mentioned(q) \/ (q = p /\ p \notin member)
    BY <2>2, <2>4, <2>5, Zenon DEF Mentioned
  <2> QED BY <2>1, <2>6 DEF StandingInv
<1>5. ASSUME NEW p \in Project, Remove(h, p) PROVE StandingInv'
  <2>1. \A q \in Project : Mentioned(q)' => Mentioned(q)
    BY <1>5 DEF Remove, Drop, Mentioned, books, hooks
  <2>2. Mentioned(p)
    BY <1>5 DEF Remove, Mentioned
  <2>3. RemoveOK(p) \/ RemoveFails(p)
    BY <1>5 DEF Remove
  <2> QED BY <2>1, <2>2, <2>3, RemoveKeeps
<1>6. ASSUME Save(h) PROVE StandingInv'
  <2>1. \A r \in Run, p \in Project : <<r, p>> \in book' => <<r, p>> \in book \/ p \in added[h]
    BY <1>6 DEF Save, Rows, books
  <2>2. \A q \in Project : Mentioned(q)' => Mentioned(q)
    BY <1>6, <2>1 DEF Save, GoOn, Mentioned, hooks
  <2> QED BY <1>6, <2>2, Frame DEF Save
<1>7. ASSUME Forget(h) PROVE StandingInv'
  <2>1. book' \subseteq book
    BY <1>7 DEF Forget, DropRow, books
  <2>2. \A q \in Project : Mentioned(q)' => Mentioned(q)
    BY <1>7, <2>1 DEF Forget, GoOn, Mentioned, hooks
  <2> QED BY <1>7, <2>2, Frame DEF Forget
<1> QED BY <1>1, <1>2, <1>3, <1>4, <1>5, <1>6, <1>7 DEF HandlerStep

LEMMA StandingHookStep ==
  ASSUME TypeOK, KeyInv, StandingInv, NEW r \in Run, HookStep(r)
  PROVE  StandingInv'
<1> USE DEF TypeOK
<1>1. ASSUME UndoBegin(r) \/ UndoSkip(r) \/ UndoKeep(r) \/ UndoEnd(r) PROVE StandingInv'
  <2>1. UNCHANGED <<site, books, handlers, uleft>>
    BY <1>1 DEF UndoBegin, UndoSkip, UndoKeep, UndoEnd, site, books, handlers
  <2>2. \A q \in Project : Mentioned(q)' => Mentioned(q)
    BY <2>1 DEF Mentioned, books, handlers
  <2> QED BY <2>1, <2>2, Frame
<1>2. ASSUME UndoRead(r) PROVE StandingInv'
  <2> DEFINE k == Current(r)
  <2>1. k \in Run \X Side /\ uleft' = [uleft EXCEPT ![r] = Listed(k)]
    BY <1>2 DEF UndoRead
  <2>2. k[1] \in Run /\ \A q \in Listed(k) : <<k[1], q>> \in book
    BY <2>1 DEF Listed
  <2> HIDE DEF k
  <2>3. \A q \in Project, g \in Run :
          q \in uleft'[g] => q \in uleft[g] \/ <<k[1], q>> \in book
    BY <2>1, <2>2
  <2>4. UNCHANGED <<site, book, op, left, added>>
    BY <1>2 DEF UndoRead, books, handlers
  <2>5. \A q \in Project : Mentioned(q)' => Mentioned(q)
    BY <2>2, <2>3, <2>4, Zenon DEF Mentioned
  <2> QED BY <2>4, <2>5, Frame
<1>3. ASSUME NEW p \in Project, UndoRemove(r, p) PROVE StandingInv'
  <2>1. \A q \in Project : Mentioned(q)' => Mentioned(q)
    BY <1>3 DEF UndoRemove, Mentioned, books, handlers
  <2>2. Mentioned(p)
    BY <1>3 DEF UndoRemove, Mentioned
  <2>3. RemoveOK(p) \/ RemoveFails(p)
    BY <1>3 DEF UndoRemove
  <2> QED BY <2>1, <2>2, <2>3, RemoveKeeps
<1>4. ASSUME UndoDrop(r) PROVE StandingInv'
  <2>1. book' \subseteq book /\ UNCHANGED <<site, handlers, uleft>>
    BY <1>4 DEF UndoDrop, DropRow, books
  <2>2. \A q \in Project : Mentioned(q)' => Mentioned(q)
    BY <2>1 DEF Mentioned, handlers
  <2> QED BY <2>1, <2>2, Frame
<1> QED BY <1>1, <1>2, <1>3, <1>4 DEF HookStep

LEMMA StandingNext == TypeOK /\ KeyInv /\ StandingInv /\ [Next]_vars => StandingInv'
<1> SUFFICES ASSUME TypeOK, KeyInv, StandingInv, [Next]_vars PROVE StandingInv'
  OBVIOUS
<1>1. ASSUME NEW r \in Run, EngineStep(r) PROVE StandingInv'
  <2>1. UNCHANGED <<site, books, handlers, hooks>>
    BY <1>1 DEF EngineStep, Start, Advance, Finalize, Cancel, Fail, Complete, DeleteRun
  <2>2. \A p \in Project : Mentioned(p)' => Mentioned(p)
    BY <2>1 DEF Mentioned, books, handlers, hooks
  <2> QED BY <2>1, <2>2, Frame
<1>2. ASSUME NEW r \in Run, HookStep(r) PROVE StandingInv'
  BY <1>2, StandingHookStep
<1>3. ASSUME NEW h \in Elevator, HandlerStep(h) PROVE StandingInv'
  BY <1>3, StandingHandlerStep
<1>4. ASSUME NEW p \in Project, AdminActs(p) PROVE StandingInv'
  <2>1. \A q \in Project : Mentioned(q)' <=> Mentioned(q)
    BY <1>4 DEF AdminActs, Mentioned, books, handlers, hooks
  <2>2. CASE p \notin member
    BY <1>4, <2>1, <2>2 DEF AdminActs, StandingInv
  <2>3. CASE p \in member
    BY <1>4, <2>1, <2>3 DEF AdminActs, StandingInv
  <2> QED BY <2>2, <2>3
<1>5. ASSUME Crash PROVE StandingInv'
  <2>1. \A p \in Project : Mentioned(p)' => Mentioned(p)
    BY <1>5 DEF Crash, Mentioned, books
  <2> QED BY <1>5, <2>1, Frame DEF Crash
<1>6. ASSUME UNCHANGED vars PROVE StandingInv'
  <2>1. \A p \in Project : Mentioned(p)' => Mentioned(p)
    BY <1>6 DEF vars, Mentioned, books, handlers, hooks
  <2> QED BY <1>6, <2>1, Frame DEF vars
<1> QED BY <1>1, <1>2, <1>3, <1>4, <1>5, <1>6 DEF Next

\* "pre-existing memberships are pre-checked and never deleted": for any number of runs,
\* handlers, projects, failures, foreign changes and restarts, what others gave is only
\* taken away by others.
THEOREM StandingKeptHolds == Spec => []StandingKept
<1>1. Init => TypeOK /\ KeyInv /\ StandingInv
  BY TypeInit, StandingInit
<1>2. TypeOK /\ KeyInv /\ StandingInv /\ [Next]_vars => TypeOK' /\ KeyInv' /\ StandingInv'
  BY TypeNext, StandingNext
<1>3. StandingInv => StandingKept
  BY DEF StandingInv, StandingKept
<1> QED BY <1>1, <1>2, <1>3, PTL DEF Spec
-----------------------------------------------------------------------------
(* The privilege window.  WindowClosed needs the place of every grant that *)
(* is due: while the hook runs undisturbed, it is in a row whose key the   *)
(* hook has still to look at, or among the grants it is about to remove.   *)

\* A handler that elevates works on the projects of one side.
AddedInv ==
  \A h \in Elevator :
    /\ op[h] \in {"idle", "remove"} => added[h] = {}
    /\ op[h] \in {"precheck", "post"} =>
         \A p \in added[h] \cup left[h] : SideOf[p] = key[h][2]

\* Every listed grant has the key of its run and side.
BookInv == \A r \in Run, p \in Project : <<r, p>> \in book => <<r, SideOf[p]>> \in keys

\* The hook runs at its place in the thread, and never in a run that is done.
ThreadInv ==
  \A r \in Run :
    /\ thread[r] # "none" => status[r] \notin {"absent", "done"}
    /\ undo[r] # "none" => Hooked(r)
    /\ undo[r] = "remove" => Current(r) \in Run \X Side

\* The hook of run r will still come to the grant of p.
Pending(r, p) ==
  \E k \in todo[r] :
    /\ k[2] = SideOf[p] /\ <<k[1], p>> \in book
    /\ undo[r] = "remove" /\ k = Current(r) => p \in uleft[r]

\* What is due to the hook of run r: nobody else works on grants, and all of it is pending.
DueOf(r) ==
  /\ due[r] # {} => \A h \in Elevator : op[h] = "idle"
  /\ due[r] # {} /\ undo[r] # "none" =>
       undo[r] # "raised" /\ \A q \in Run \ {r} : undo[q] = "none"
  /\ \A p \in due[r] \cap ours : undo[r] # "none" /\ Pending(r, p)

DueInv == \A r \in Run : DueOf(r)

WindowInv == AddedInv /\ BookInv /\ ThreadInv /\ DueInv
-----------------------------------------------------------------------------
(* The handlers' part.                                                     *)

LEMMA AddedNext == TypeOK /\ AddedInv /\ [Next]_vars => AddedInv'
<1> SUFFICES ASSUME TypeOK, AddedInv, [Next]_vars PROVE AddedInv'
  OBVIOUS
<1> USE DEF TypeOK, AddedInv
<1>1. ASSUME UNCHANGED handlers PROVE AddedInv'
  BY <1>1 DEF handlers
<1>2. ASSUME NEW h \in Elevator, NEW r \in Run, NEW s \in Side, Elevate(h, r, s) \/ Undo(h, r, s)
      PROVE AddedInv'
  <2>1. /\ op[h] = "idle" /\ key' = [key EXCEPT ![h] = <<r, s>>] /\ UNCHANGED added
        /\ \/ /\ op' = [op EXCEPT ![h] = "precheck"]
              /\ left' = [left EXCEPT ![h] = {p \in Project : SideOf[p] = s}]
           \/ /\ op' = [op EXCEPT ![h] = "remove"]
              /\ left' = [left EXCEPT ![h] = Listed(<<r, s>>)]
    BY <1>2 DEF Elevate, Undo, Receive, GoOn
  <2> QED BY <2>1
<1>3. ASSUME NEW h \in Elevator, NEW p \in Project, Precheck(h, p) PROVE AddedInv'
  BY <1>3 DEF Precheck, GoOn, Drop
<1>4. ASSUME NEW h \in Elevator, NEW p \in Project, Post(h, p) PROVE AddedInv'
  BY <1>4 DEF Post, GoOn, Drop
<1>5. ASSUME NEW h \in Elevator, NEW p \in Project, Remove(h, p) PROVE AddedInv'
  BY <1>5 DEF Remove, Drop
<1>6. ASSUME NEW h \in Elevator, Save(h) \/ Forget(h) PROVE AddedInv'
  <2>1. /\ op' = [op EXCEPT ![h] = "idle"] /\ key' = [key EXCEPT ![h] = NoKey]
        /\ UNCHANGED left
        /\ \/ added' = [added EXCEPT ![h] = {}]
           \/ UNCHANGED added /\ op[h] = "remove"
    BY <1>6 DEF Save, Forget, GoOn
  <2> QED BY <2>1
<1>7. ASSUME NEW h \in Elevator, HandlerStep(h) PROVE AddedInv'
  BY <1>2, <1>3, <1>4, <1>5, <1>6, <1>7 DEF HandlerStep
<1>8. ASSUME NEW r \in Run, EngineStep(r) \/ HookStep(r) PROVE UNCHANGED handlers
  BY <1>8 DEF EngineStep, Start, Advance, Finalize, Cancel, Fail, Complete, DeleteRun,
              HookStep, UndoBegin, UndoSkip, UndoRead, UndoKeep, UndoDrop, UndoEnd, UndoRemove
<1>9. ASSUME NEW p \in Project, AdminActs(p) PROVE UNCHANGED handlers
  BY <1>9 DEF AdminActs
<1>10. ASSUME Crash PROVE AddedInv'
  BY <1>10 DEF Crash
<1>11. ASSUME UNCHANGED vars PROVE UNCHANGED handlers
  BY <1>11 DEF vars
<1> QED BY <1>1, <1>7, <1>8, <1>9, <1>10, <1>11 DEF Next

\* A row that goes takes its key and exactly the grants of its run and side with it.
LEMMA DropRowKeeps ==
  ASSUME BookInv, NEW k, DropRow(k)
  PROVE  BookInv'
<1> SUFFICES ASSUME NEW r \in Run, NEW p \in Project, <<r, p>> \in book'
             PROVE  <<r, SideOf[p]>> \in keys'
  BY DEF BookInv
<1>1. <<r, p>> \in book /\ <<r, p>> \notin Grants(k) /\ keys' = keys \ {k}
  BY DEF DropRow
<1>2. k # <<r, SideOf[p]>>
  BY <1>1 DEF Grants, Rows, Listed
<1> QED BY <1>1, <1>2 DEF BookInv

LEMMA BookNext == TypeOK /\ KeyInv /\ AddedInv /\ BookInv /\ [Next]_vars => BookInv'
<1> SUFFICES ASSUME TypeOK, KeyInv, AddedInv, BookInv, [Next]_vars PROVE BookInv'
  OBVIOUS
<1>1. ASSUME UNCHANGED books PROVE BookInv'
  BY <1>1 DEF BookInv, books
<1>2. ASSUME NEW h \in Elevator, Save(h) PROVE BookInv'
  <2>1. op[h] = "precheck"
    BY <1>2 DEF Save
  <2>2. \A p \in added[h] : SideOf[p] = key[h][2]
    BY <2>1 DEF AddedInv
  <2>3. key[h] = <<key[h][1], key[h][2]>>
    BY <2>1 DEF KeyInv
  <2>4. CASE /\ keys' = keys \cup {key[h]}
             /\ book' = (book \ Grants(key[h])) \cup Rows(key[h][1], added[h])
    <3> SUFFICES ASSUME NEW r \in Run, NEW p \in Project, <<r, p>> \in book'
                 PROVE  <<r, SideOf[p]>> \in keys'
      BY DEF BookInv
    <3>1. <<r, p>> \in book \/ (r = key[h][1] /\ p \in added[h])
      BY <2>4 DEF Rows
    <3> QED BY <2>2, <2>3, <2>4, <3>1 DEF BookInv
  <2>5. CASE UNCHANGED books
    BY <2>5, <1>1
  <2> QED BY <1>2, <2>4, <2>5 DEF Save
<1>3. ASSUME NEW h \in Elevator, Forget(h) PROVE BookInv'
  BY <1>1, <1>3, DropRowKeeps DEF Forget
<1>4. ASSUME NEW r \in Run, UndoDrop(r) PROVE BookInv'
  BY <1>1, <1>4, DropRowKeeps DEF UndoDrop
<1>5. ASSUME NEW h \in Elevator, HandlerStep(h), ~Save(h), ~Forget(h) PROVE UNCHANGED books
  BY <1>5 DEF HandlerStep, Elevate, Undo, Receive, Precheck, Post, Remove
<1>6. ASSUME NEW r \in Run, EngineStep(r) \/ (HookStep(r) /\ ~UndoDrop(r)) PROVE UNCHANGED books
  BY <1>6 DEF EngineStep, Start, Advance, Finalize, Cancel, Fail, Complete, DeleteRun,
              HookStep, UndoBegin, UndoSkip, UndoRead, UndoKeep, UndoEnd, UndoRemove
<1>7. ASSUME (\E p \in Project : AdminActs(p)) \/ Crash \/ UNCHANGED vars PROVE UNCHANGED books
  BY <1>7 DEF AdminActs, Crash, vars
<1> QED BY <1>1, <1>2, <1>3, <1>4, <1>5, <1>6, <1>7 DEF Next

-----------------------------------------------------------------------------
(* The hook's place in its thread.                                         *)

\* The key the hook works on depends on the keys it has left only.
LEMMA CurrentFrame ==
  ASSUME NEW r \in Run, todo'[r] = todo[r]
  PROVE  Current(r)' = Current(r)
BY DEF Current

LEMMA ThreadNext == TypeOK /\ ThreadInv /\ [Next]_vars => ThreadInv'
<1> SUFFICES ASSUME TypeOK, ThreadInv, [Next]_vars PROVE ThreadInv'
  OBVIOUS
<1>0. ASSUME NEW r \in Run,
             \A q \in Run \ {r} : thread'[q] = thread[q] /\ status'[q] = status[q]
                                  /\ undo'[q] = undo[q] /\ todo'[q] = todo[q],
             thread'[r] # "none" => status'[r] \notin {"absent", "done"},
             undo'[r] # "none" => thread'[r] \in {"hook", "cleanup"},
             undo'[r] = "remove" => Current(r)' \in Run \X Side
      PROVE ThreadInv'
  <2> SUFFICES ASSUME NEW q \in Run
               PROVE  /\ thread'[q] # "none" => status'[q] \notin {"absent", "done"}
                      /\ undo'[q] # "none" => thread'[q] \in {"hook", "cleanup"}
                      /\ undo'[q] = "remove" => Current(q)' \in Run \X Side
    BY DEF ThreadInv, Hooked
  <2>1. CASE q = r
    BY <1>0, <2>1
  <2>2. CASE q # r
    BY <1>0, <2>2, CurrentFrame DEF ThreadInv, Hooked
  <2> QED BY <2>1, <2>2
<1>1. ASSUME UNCHANGED <<thread, status, undo, todo>> PROVE ThreadInv'
  BY <1>1, CurrentFrame DEF ThreadInv, Hooked
<1>2. ASSUME NEW r \in Run, EngineStep(r) PROVE ThreadInv'
  <2>1. UNCHANGED <<undo, todo>> /\ Current(r)' = Current(r)
    <3>1. UNCHANGED <<undo, todo>>
      BY <1>2 DEF EngineStep, Start, Advance, Finalize, Cancel, Fail, Complete, DeleteRun, hooks
    <3> QED BY <3>1, CurrentFrame
  <2>2. \A q \in Run \ {r} : thread'[q] = thread[q] /\ status'[q] = status[q]
    BY <1>2 DEF EngineStep, Start, Advance, Finalize, Cancel, Fail, Complete, DeleteRun,
                Become, Move, TypeOK
  <2>3. /\ thread'[r] # "none" => status'[r] \notin {"absent", "done"}
        /\ undo[r] # "none" => thread'[r] \in {"hook", "cleanup"}
    BY <1>2 DEF EngineStep, Start, Advance, Finalize, Cancel, Fail, Complete, DeleteRun,
                Become, Move, TypeOK, ThreadInv, Hooked
  <2>4. undo[r] = "remove" => Current(r) \in Run \X Side
    BY DEF ThreadInv
  <2> QED BY <1>0, <2>1, <2>2, <2>3, <2>4
<1>3. ASSUME NEW r \in Run, HookStep(r) PROVE ThreadInv'
  <2>1. /\ UNCHANGED status
        /\ \A q \in Run \ {r} : thread'[q] = thread[q] /\ undo'[q] = undo[q] /\ todo'[q] = todo[q]
    BY <1>3 DEF HookStep, UndoBegin, UndoSkip, UndoRead, UndoRemove, UndoKeep, UndoDrop, UndoEnd,
                DropKey, Move, TypeOK, engine
  <2>2. /\ thread'[r] # "none" => thread[r] # "none"
        /\ undo'[r] # "none" => thread'[r] \in {"hook", "cleanup"}
    BY <1>3 DEF HookStep, UndoBegin, UndoSkip, UndoRead, UndoRemove, UndoKeep, UndoDrop, UndoEnd,
                Move, TypeOK, engine, ThreadInv, Hooked
  <2>3. undo'[r] = "remove" => todo'[r] = todo[r] /\ (undo[r] = "remove" \/ Current(r) \in keys)
    BY <1>3 DEF HookStep, UndoBegin, UndoSkip, UndoRead, UndoRemove, UndoKeep, UndoDrop, UndoEnd,
                TypeOK
  <2>4. undo'[r] = "remove" => Current(r)' \in Run \X Side
    BY <2>3, CurrentFrame DEF ThreadInv, TypeOK
  <2>5. thread[r] # "none" => status[r] \notin {"absent", "done"}
    BY DEF ThreadInv
  <2> QED BY <1>0, <2>1, <2>2, <2>4, <2>5
<1>4. ASSUME NEW h \in Elevator, HandlerStep(h) PROVE ThreadInv'
  <2>1. UNCHANGED <<thread, status, undo, todo>>
    BY <1>4 DEF HandlerStep, Elevate, Undo, Receive, Precheck, Post, Remove, Save, Forget,
                engine, hooks
  <2> QED BY <1>1, <2>1
<1>5. ASSUME NEW p \in Project, AdminActs(p) PROVE ThreadInv'
  BY <1>1, <1>5 DEF AdminActs, engine, hooks
<1>6. ASSUME Crash PROVE ThreadInv'
  BY <1>6 DEF Crash, ThreadInv
<1>7. ASSUME UNCHANGED vars PROVE ThreadInv'
  BY <1>1, <1>7 DEF vars, engine, hooks
<1> QED BY <1>2, <1>3, <1>4, <1>5, <1>6, <1>7 DEF Next
-----------------------------------------------------------------------------
(* The grants that are due.                                                *)

\* Nothing of the hooks moves, and no grant of the tool is added.
LEMMA DueFrame ==
  ASSUME DueInv, UNCHANGED <<op, undo, due, todo, uleft, book>>, ours' \subseteq ours
  PROVE  DueInv'
<1> SUFFICES ASSUME NEW r \in Run PROVE DueOf(r)'
  BY DEF DueInv
<1>1. DueOf(r)
  BY DEF DueInv
<1>2. Current(r)' = Current(r)
  BY CurrentFrame
<1>3. \A p : Pending(r, p) => Pending(r, p)'
  BY <1>2 DEF Pending
<1> QED BY <1>1, <1>3 DEF DueOf

LEMMA DueHandlerStep ==
  ASSUME TypeOK, DueInv, NEW h \in Elevator, HandlerStep(h)
  PROVE  DueInv'
<1>1. CASE op[h] = "idle"
  <2>1. due' = [q \in Run |-> {}]
    BY <1>1 DEF HandlerStep, Elevate, Undo, Receive, Precheck, Post, Remove, Save, Forget
  <2> QED BY <2>1 DEF DueInv, DueOf
<1>2. CASE op[h] # "idle"
  <2>1. UNCHANGED due
    BY <1>2 DEF HandlerStep, Elevate, Undo, Receive, Precheck, Post, Remove, Save, Forget, hooks
  <2>2. \A r \in Run : due[r] = {}
    BY <1>2 DEF DueInv, DueOf
  <2> QED BY <2>1, <2>2 DEF DueInv, DueOf
<1> QED BY <1>1, <1>2

\* While a hook works, no other hook has anything due.
LEMMA DueOthers ==
  ASSUME TypeOK, DueInv, NEW r \in Run, undo[r] # "none", NEW q \in Run \ {r},
         due'[q] = due[q], undo'[q] = undo[q], UNCHANGED op, ours' \subseteq ours
  PROVE  DueOf(q)'
<1>1. DueOf(q)
  BY DEF DueInv
<1>2. due[q] # {} => undo[q] = "none"
  BY <1>1 DEF DueOf
<1> QED BY <1>1, <1>2 DEF DueOf

LEMMA DueBegin ==
  ASSUME TypeOK, BookInv, DueInv, NEW r \in Run, UndoBegin(r)
  PROVE  DueInv'
<1>1. /\ UNCHANGED <<ours, op, book>> /\ undo[r] = "none"
      /\ undo' = [undo EXCEPT ![r] = "next"]
      /\ todo' = [todo EXCEPT ![r] = Siblings(r) \X Side]
  BY DEF UndoBegin, site, books, handlers
<1>2. ASSUME NEW q \in Run, q # r PROVE DueOf(q)'
  <2>1. undo'[q] = undo[q] /\ (due'[q] = {} \/ (due'[q] = due[q] /\ undo[q] = "none"))
    BY <1>1, <1>2 DEF UndoBegin, TrackDue, TypeOK
  <2>2. DueOf(q)
    BY DEF DueInv
  <2> QED BY <1>1, <2>1, <2>2 DEF DueOf
<1>3. DueOf(r)'
  <2>1. CASE due'[r] = {}
    BY <2>1 DEF DueOf
  <2>2. CASE /\ \A q \in Run : undo[q] = "none"
             /\ \A h \in Elevator : op[h] = "idle"
             /\ due'[r] = Recorded(r)
    <3>1. undo'[r] = "next" /\ \A q \in Run \ {r} : undo'[q] = "none"
      BY <1>1, <2>2 DEF TypeOK
    <3>2. ASSUME NEW p \in Recorded(r) PROVE Pending(r, p)'
      <4>1. PICK q \in Siblings(r) : <<q, p>> \in book /\ p \in Project
        BY DEF Recorded
      <4>2. SideOf[p] \in Side
        BY <4>1, SideAssumption
      <4>3. <<q, SideOf[p]>> \in todo'[r]
        BY <1>1, <4>1, <4>2 DEF TypeOK
      <4> QED BY <1>1, <3>1, <4>1, <4>3 DEF Pending
    <3> QED BY <1>1, <2>2, <3>1, <3>2 DEF DueOf
  <2>3. due'[r] = {} \/ (/\ \A q \in Run : undo[q] = "none"
                         /\ \A h \in Elevator : op[h] = "idle"
                         /\ due'[r] = Recorded(r))
    BY DEF UndoBegin, TrackDue
  <2> QED BY <2>1, <2>2, <2>3
<1> QED BY <1>2, <1>3 DEF DueInv

\* What a step of the hook, after its begin, does to the grants due to it.
LEMMA DueOwn ==
  ASSUME TypeOK, BookInv, ThreadInv, DueInv, NEW r \in Run, HookStep(r), ~UndoBegin(r)
  PROVE  DueOf(r)'
<1>0. DueOf(r)
  BY DEF DueInv
<1>1. UNCHANGED op /\ ours' \subseteq ours /\ \A q \in Run \ {r} : undo'[q] = undo[q]
  BY DEF HookStep, UndoSkip, UndoRead, UndoRemove, UndoKeep, UndoDrop, UndoEnd,
         RemoveOK, RemoveFails, TypeOK, handlers, site
<1>2. CASE due'[r] = {}
  BY <1>2 DEF DueOf
<1>3. ASSUME due'[r] # {}
      PROVE  due'[r] = due[r] /\ due[r] # {}
  BY <1>3 DEF HookStep, UndoSkip, UndoRead, UndoRemove, UndoKeep, UndoDrop, UndoEnd, Disturbed,
              TypeOK
\* It suffices that a grant that is due and still ours is pending again.
<1>4. ASSUME due'[r] # {}, undo'[r] \in {"next", "remove"},
             \A p \in due[r] \cap ours' : Pending(r, p) => Pending(r, p)'
      PROVE  DueOf(r)'
  <2>1. due'[r] = due[r] /\ due[r] # {} /\ undo[r] # "none"
    BY <1>3, <1>4 DEF HookStep, UndoSkip, UndoRead, UndoRemove, UndoKeep, UndoDrop, UndoEnd
  <2> QED BY <1>0, <1>1, <1>4, <2>1 DEF DueOf
<1>5. ASSUME UndoSkip(r), due'[r] # {} PROVE DueOf(r)'
  <2>1. /\ undo' = undo /\ undo[r] = "next" /\ UNCHANGED book
        /\ todo'[r] = todo[r] \ {Current(r)} /\ Current(r) \notin keys
    BY <1>5 DEF UndoSkip, DropKey, Disturbed, TypeOK, books
  <2>2. ASSUME NEW p \in due[r] \cap ours', Pending(r, p) PROVE Pending(r, p)'
    <3>1. PICK k \in todo[r] : k[2] = SideOf[p] /\ <<k[1], p>> \in book
      BY <2>2 DEF Pending
    <3>2. k = <<k[1], k[2]>> /\ k[1] \in Run /\ p \in Project
      BY <3>1 DEF TypeOK
    <3>3. k \in keys
      BY <3>1, <3>2 DEF BookInv
    <3> QED BY <2>1, <3>1, <3>3 DEF Pending
  <2> QED BY <1>4, <1>5, <2>1, <2>2
<1>6. ASSUME UndoRead(r), due'[r] # {} PROVE DueOf(r)'
  <2>1. /\ undo'[r] = "remove" /\ UNCHANGED <<book, todo>>
        /\ uleft'[r] = Listed(Current(r)) /\ Current(r)' = Current(r)
    BY <1>6, CurrentFrame DEF UndoRead, TypeOK, books
  <2>2. ASSUME NEW p \in due[r] \cap ours', Pending(r, p) PROVE Pending(r, p)'
    <3>1. PICK k \in todo[r] : k[2] = SideOf[p] /\ <<k[1], p>> \in book
      BY <2>2 DEF Pending
    <3>2. k = Current(r) => p \in Listed(Current(r))
      BY <3>1 DEF Listed, TypeOK
    <3> QED BY <2>1, <3>1, <3>2 DEF Pending
  <2> QED BY <1>4, <1>6, <2>1, <2>2
<1>7. ASSUME NEW p \in Project, UndoRemove(r, p), due'[r] # {} PROVE DueOf(r)'
  <2>1. /\ undo' = undo /\ undo[r] = "remove" /\ UNCHANGED <<book, todo>>
        /\ uleft'[r] = uleft[r] \ {p} /\ Current(r)' = Current(r)
    BY <1>7, CurrentFrame DEF UndoRemove, TypeOK, books
  <2>2. p \notin ours'
    <3>1. CASE RemoveOK(p)
      BY <3>1 DEF RemoveOK
    <3>2. CASE p \notin member
      BY <1>1, <3>2 DEF TypeOK
    <3>3. RemoveOK(p) \/ p \notin member
      BY <1>7 DEF UndoRemove, Disturbed, TypeOK
    <3> QED BY <3>1, <3>2, <3>3
  <2>3. ASSUME NEW g \in due[r] \cap ours', Pending(r, g) PROVE Pending(r, g)'
    BY <2>1, <2>2, <2>3 DEF Pending
  <2> QED BY <1>4, <1>7, <2>1, <2>3
<1>8. ASSUME UndoKeep(r), due'[r] # {} PROVE DueOf(r)'
  <2>1. /\ undo[r] = "remove" /\ undo'[r] = "next" /\ UNCHANGED book /\ uleft[r] = {}
        /\ todo'[r] = todo[r] \ {Current(r)}
    BY <1>8 DEF UndoKeep, DropKey, TypeOK, books
  <2>2. ASSUME NEW g \in due[r] \cap ours', Pending(r, g) PROVE Pending(r, g)'
    BY <2>1, <2>2 DEF Pending
  <2> QED BY <1>4, <1>8, <2>1, <2>2
<1>9. ASSUME UndoDrop(r), due'[r] # {} PROVE DueOf(r)'
  <2>1. /\ undo[r] = "remove" /\ undo'[r] = "next" /\ uleft[r] = {}
        /\ todo'[r] = todo[r] \ {Current(r)}
        /\ book' = book \ Grants(Current(r))
    BY <1>9 DEF UndoDrop, DropRow, DropKey, Disturbed, TypeOK
  <2>2. ASSUME NEW g \in due[r] \cap ours', Pending(r, g) PROVE Pending(r, g)'
    <3>1. PICK k \in todo[r] : /\ k[2] = SideOf[g] /\ <<k[1], g>> \in book
                               /\ k # Current(r)
      BY <2>1, <2>2 DEF Pending
    <3>2. PICK c \in Run \X Side : c = Current(r)
      BY <2>1 DEF ThreadInv
    <3>3. k \in Run \X Side
      BY <3>1 DEF TypeOK
    <3>4. <<k[1], g>> \notin Grants(c)
      <4>1. <<k[1], g>> \in Grants(c) => k[1] = c[1] /\ SideOf[g] = c[2]
        BY DEF Grants, Rows, Listed
      <4>2. k = <<k[1], k[2]>> /\ c = <<c[1], c[2]>>
        BY <3>2, <3>3
      <4> QED BY <3>1, <3>2, <4>1, <4>2
    <3> QED BY <2>1, <3>1, <3>2, <3>4 DEF Pending
  <2> QED BY <1>4, <1>9, <2>1, <2>2
<1>10. ASSUME UndoEnd(r), due'[r] # {} PROVE DueOf(r)'
  <2>1. undo'[r] = "none" /\ (undo[r] = "raised" \/ todo[r] = {}) /\ undo[r] # "none"
    BY <1>10 DEF UndoEnd, TypeOK
  <2>2. due'[r] = due[r] /\ due[r] # {}
    BY <1>3, <1>10
  <2>3. due[r] \cap ours = {}
    BY <1>0, <2>1, <2>2 DEF DueOf, Pending
  <2> QED BY <1>0, <1>1, <2>1, <2>2, <2>3 DEF DueOf
<1> QED BY <1>2, <1>5, <1>6, <1>7, <1>8, <1>9, <1>10 DEF HookStep

LEMMA DueNext ==
  TypeOK /\ BookInv /\ ThreadInv /\ DueInv /\ [Next]_vars => DueInv'
<1> SUFFICES ASSUME TypeOK, BookInv, ThreadInv, DueInv, [Next]_vars PROVE DueInv'
  OBVIOUS
<1>1. ASSUME NEW r \in Run, EngineStep(r) PROVE DueInv'
  <2>1. UNCHANGED <<site, books, handlers, hooks>>
    BY <1>1 DEF EngineStep, Start, Advance, Finalize, Cancel, Fail, Complete, DeleteRun
  <2> QED BY <2>1, DueFrame DEF site, books, handlers, hooks
<1>2. ASSUME NEW r \in Run, HookStep(r), ~UndoBegin(r) PROVE DueInv'
  <2>1. /\ undo[r] # "none" /\ UNCHANGED op /\ ours' \subseteq ours
        /\ \A q \in Run \ {r} : due'[q] = due[q] /\ undo'[q] = undo[q]
    BY <1>2 DEF HookStep, UndoSkip, UndoRead, UndoRemove, UndoKeep, UndoDrop, UndoEnd, Disturbed,
                RemoveOK, RemoveFails, TypeOK, handlers, site
  <2> QED BY <1>2, <2>1, DueOwn, DueOthers DEF DueInv
<1>3. ASSUME NEW p \in Project, AdminActs(p) PROVE DueInv'
  <2>1. UNCHANGED <<books, handlers, hooks>> /\ ours' \subseteq ours
    BY <1>3 DEF AdminActs
  <2> QED BY <2>1, DueFrame DEF books, handlers, hooks
<1>4. ASSUME Crash PROVE DueInv'
  BY <1>4 DEF Crash, DueInv, DueOf
<1>5. ASSUME UNCHANGED vars PROVE DueInv'
  BY <1>5, DueFrame DEF vars, site, books, handlers, hooks
<1> QED BY <1>1, <1>2, <1>3, <1>4, <1>5, DueBegin, DueHandlerStep DEF Next

\* "the privilege window is then closed by the time the run reports complete", for any
\* number of runs, handlers, projects, failures, foreign changes and restarts: unless
\* something disturbed the hook, no grant recorded when it began is left when it ends.
THEOREM WindowClosedHolds == Spec => []WindowClosed
<1>1. Init => TypeOK /\ KeyInv /\ WindowInv
  BY TypeInit DEF Init, WindowInv, AddedInv, BookInv, ThreadInv, DueInv, DueOf
<1>2. TypeOK /\ KeyInv /\ WindowInv /\ [Next]_vars => TypeOK' /\ KeyInv' /\ WindowInv'
  BY TypeNext, AddedNext, BookNext, ThreadNext, DueNext DEF WindowInv
<1>3. WindowInv => WindowClosed
  BY DEF WindowInv, ThreadInv, Hooked, DueInv, DueOf, WindowClosed
<1> QED BY <1>1, <1>2, <1>3, PTL DEF Spec
=============================================================================
