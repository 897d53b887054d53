---------------------------- MODULE FixRunProofs ----------------------------
(***************************************************************************)
(* Proofs about FixRun for every list of findings, every capture, every    *)
(* selection of fixes and any number of runs and mishaps: type correctness *)
(* and the five safety invariants of the fix run.                          *)
(***************************************************************************)
EXTENDS FixRun, FiniteSetTheorems, SequenceTheorems, TLAPS

\* Where an action of the plan is under way.
Acting == {"post", "context", "options", "delta", "extend", "put"}
\* What can go wrong in a run.
Spoils == {"cancel", "crash", "foreign", "deleted", "read", "refused", "error", "lost"}
Done == run > 0 /\ status[run] = "done"

\* The first action of the plan.
First(a) == a \in todo /\ \A b \in todo \ {a} : Earlier(a, b)

\* Where the run is, and which action it is at.
Progress ==
  /\ pc # "idle" => run > 0 /\ status[run] = "running"
  /\ source = "audit" => pc = "idle" /\ run = 0 /\ sent = {} /\ todo = {} /\ found = {}
  /\ todo \subseteq BuildPlan(found)
  /\ pc \in {"verify", "load", "read"} => sent = {} /\ log = {} /\ found = {} /\ judged = {}
  /\ pc \in {"reaudit", "persist", "conclude"} \/ Done => todo = {}
  /\ pc \in Acting => First(Current)
  /\ pc = "post" => Tier(Current) = "create" /\ FixId(Current) # "field.options"
  /\ pc \in {"context", "options"} => FixId(Current) = "field.create"
  /\ pc \in {"delta", "extend"} => FixId(Current) = "field.options"
  /\ pc = "put" => Tier(Current) = "populate"

\* An object about to be created was absent, or the list could not be read.
Blind == NeverTwice /\ (pc = "post" => copies[Obj(Current.f)] = 0 \/ Obj(Current.f) \in blind)

\* In a run without mishaps the fields that were to be created are there, or were taken to be.
Ordered ==
  /\ spoilt = {} =>
       /\ \A a \in BuildPlan(found) \ todo : FixId(a) = "field.create" => Sees(Obj(a.f))
       /\ pc \in {"context", "options"} => copies[Obj(Current.f)] > 0
  /\ OrderHolds

\* A request is on record, or is a write of the populate action under way.
OnRecord(s, L) ==
  \E n \in L :
    /\ n.act = s.act /\ n.call = s.call
    /\ n.ok => s.answer \in IF s.call = "populate" THEN {"ok"} ELSE {"ok", "lost"}
Pending(s) ==
  pc = "put" /\ s.act = Current /\ s.call = "populate" /\ (CleanTally(tally) => s.answer = "ok")
Recorded ==
  /\ pc \notin {"idle", "conclude"} => \A s \in sent : OnRecord(s, log) \/ Pending(s)
  /\ pc = "conclude" \/ Done => \A s \in sent : OnRecord(s, rows[run])

\* A values file over the cap is not opened.
Bounded ==
  /\ pc = "put" => ~ExceedsCap(captured)
  /\ PopulateBound

\* What the run created belongs to an action of the plan that it is at or past.
Maker(o) ==
  \E a \in BuildPlan(found) :
    /\ Tier(a) = "create" /\ FixId(a) # "field.options" /\ Obj(a.f) = o
    /\ a \notin todo \/ (pc \in {"context", "options"} /\ a = Current)
MadeBy ==
  /\ pc \in {"verify", "load", "read"} => made = {}
  /\ pc # "idle" => \A o \in made : Maker(o)

\* A payload is one its finding can have.
Fitting == \A f \in Finding : payload[f] \in PayloadsOf(f)

\* Nothing but failed requests and failed reads spoilt the run.
Undisturbed == spoilt \cap {"foreign", "deleted", "lost"} = {}
\* What the action under way has done of its work.
InHand ==
  /\ pc \in {"context", "options"} => copies[Obj(Current.f)] > 0
  /\ pc = "context" => payload[Current.f] \in {"context", "options"}
  /\ pc = "options" => /\ payload[Current.f] = "options"
                       /\ Obj(Current.f) \in made => Obj(Current.f) \in withContext
  /\ pc = "put" /\ CleanTally(tally) =>
       \A i \in captured \ line : <<Obj(Current.f), i>> \in filled
\* An action has landed, or was to create a field that a system field stands in for.
Served(a) == Landed(a) \/ (FixId(a) = "field.create" /\ Confused(a.f))
\* What an undisturbed run without failures has done so far.
Effective ==
  Undisturbed /\ Failed = {} =>
    /\ \A a \in BuildPlan(found) \ todo : Served(a)
    /\ InHand

\* What an undisturbed re-audit that found nothing open has seen.
Closed ==
  /\ judged \subseteq found
  /\ pc \in {"act"} \cup Acting => judged = {}
  /\ pc \in {"persist", "conclude"} \/ Done => judged = found
  /\ "deleted" \notin spoilt =>
       /\ pc \notin {"idle", "verify", "load", "read"} \/ Done => found = Finding
       /\ pc \in {"verify", "load", "read"} => source = "stored"
  /\ Undisturbed /\ open = 0 =>
       \A f \in judged : Area(f) \in Touched /\ Verifiable(f) => ClosedNow(f)
  /\ Done /\ verdict[run] = "FIXED_CLEAN" => open = 0 /\ Failed = {}
-----------------------------------------------------------------------------
(* The registry of fixes, and the order of the plan.                       *)

\* What the proofs use of the registry: the tiers, that a create fix is about missing objects,
\* one per area, and that the options fix is the only one of its kind of finding.
LEMMA FixTable ==
  /\ DOMAIN Fixes = 1..9
  /\ \A x \in 1..9 : Fixes[x].tier \in {"create", "wire", "populate"}
  /\ \A x \in 1..9 : Fixes[x].id = "field.create" <=> x = 1
  /\ \A x \in 1..9 : Fixes[x].id = "field.options" <=> x = 4
  /\ Fixes[1].tier = "create" /\ Fixes[1].kind = "missing_in_tgt" /\ Fixes[1].area = "custom_fields"
  /\ Fixes[4].tier = "create" /\ Fixes[4].kind = "option_mismatch"
  /\ \A x \in 1..9 : Fixes[x].kind = "option_mismatch" => x = 4
  /\ \A x \in 1..9 : Fixes[x].tier = "create" /\ x # 4 => Fixes[x].kind = "missing_in_tgt"
  /\ \A x, y \in 1..9 : Fixes[x].tier = "create" /\ Fixes[y].tier = "create" /\ x # 4 /\ y # 4
                          /\ Fixes[x].area = Fixes[y].area => x = y
<1>1. DOMAIN Fixes = 1..9
  BY DEF Fixes
<1>2. \A x \in 1..9 : x = 1 \/ x = 2 \/ x = 3 \/ x = 4 \/ x = 5 \/ x = 6 \/ x = 7 \/ x = 8 \/ x = 9
  OBVIOUS
<1>3. /\ Fixes[1] = [id |-> "field.create", area |-> "custom_fields", kind |-> "missing_in_tgt", tier |-> "create"]
      /\ Fixes[2] = [id |-> "field.wire", area |-> "custom_fields", kind |-> "missing_in_tgt", tier |-> "wire"]
      /\ Fixes[3] = [id |-> "field.populate", area |-> "custom_fields", kind |-> "missing_in_tgt", tier |-> "populate"]
      /\ Fixes[4] = [id |-> "field.options", area |-> "custom_fields", kind |-> "option_mismatch", tier |-> "create"]
      /\ Fixes[5] = [id |-> "status.create", area |-> "statuses", kind |-> "missing_in_tgt", tier |-> "create"]
      /\ Fixes[6] = [id |-> "priority.create", area |-> "priorities", kind |-> "missing_in_tgt", tier |-> "create"]
      /\ Fixes[7] = [id |-> "resolution.create", area |-> "resolutions", kind |-> "missing_in_tgt", tier |-> "create"]
      /\ Fixes[8] = [id |-> "issue_type.create", area |-> "issue_types", kind |-> "missing_in_tgt", tier |-> "create"]
      /\ Fixes[9] = [id |-> "link_type.create", area |-> "link_types", kind |-> "missing_in_tgt", tier |-> "create"]
  BY DEF Fixes
<1>4. /\ \A x \in 1..9 : Fixes[x].tier \in {"create", "wire", "populate"}
      /\ \A x \in 1..9 : Fixes[x].id = "field.create" <=> x = 1
      /\ \A x \in 1..9 : Fixes[x].id = "field.options" <=> x = 4
  BY <1>2, <1>3
<1>5. /\ \A x \in 1..9 : Fixes[x].kind = "option_mismatch" => x = 4
      /\ \A x \in 1..9 : Fixes[x].tier = "create" /\ x # 4 => Fixes[x].kind = "missing_in_tgt"
  BY <1>2, <1>3
<1>6. \A x, y \in 1..9 : Fixes[x].tier = "create" /\ Fixes[y].tier = "create" /\ x # 4 /\ y # 4
                          /\ Fixes[x].area = Fixes[y].area => x = y
  BY <1>2, <1>3
<1>7. QED
  BY <1>1, <1>3, <1>4, <1>5, <1>6

LEMMA ActionParts ==
  ASSUME NEW a \in Action
  PROVE  /\ a.f \in Finding /\ a.f \in Nat /\ a.x \in 1..9 /\ a.x \in Nat
         /\ Name(a.f) \in Nat /\ Rank(Tier(a)) \in Nat /\ a = [f |-> a.f, x |-> a.x]
         /\ Obj(a.f) \in Object
<1>1. a.f \in Finding /\ a.x \in 1..9 /\ a = [f |-> a.f, x |-> a.x]
  BY FixTable DEF Action
<1>2. Finding \subseteq Nat /\ \A f \in Finding : Name(f) \in Nat
  <2>1. FindingAt \in Seq([area : STRING, kind : STRING, name : Nat])
    BY FindingAssumption
  <2>2. Len(FindingAt) \in Nat /\ DOMAIN FindingAt = 1..Len(FindingAt)
    BY <2>1
  <2>3. \A f \in 1..Len(FindingAt) : FindingAt[f] \in [area : STRING, kind : STRING, name : Nat]
    BY <2>1, ElementOfSeq
  <2>4. QED
    BY <2>2, <2>3 DEF Finding, Name
<1>3. Rank(Tier(a)) \in Nat
  BY <1>1, FixTable DEF Rank, Tier
<1>4. Obj(a.f) \in Object
  BY <1>1 DEF Object
<1>5. QED
  BY <1>1, <1>2, <1>3, <1>4

\* The order of the plan compares the names, then the tiers, the findings and the fixes.
LEMMA EarlierMeans ==
  ASSUME NEW a \in Action, NEW b \in Action
  PROVE  Earlier(a, b) <=>
           \/ Name(a.f) < Name(b.f)
           \/ /\ Name(a.f) = Name(b.f)
              /\ \/ Rank(Tier(a)) < Rank(Tier(b))
                 \/ /\ Rank(Tier(a)) = Rank(Tier(b))
                    /\ a.f < b.f \/ (a.f = b.f /\ a.x < b.x)
<1>1. /\ Key(a)[1] = Name(a.f) /\ Key(a)[2] = Rank(Tier(a)) /\ Key(a)[3] = a.f /\ Key(a)[4] = a.x
      /\ Key(b)[1] = Name(b.f) /\ Key(b)[2] = Rank(Tier(b)) /\ Key(b)[3] = b.f /\ Key(b)[4] = b.x
  BY DEF Key
<1> DEFINE less(i) == Key(a)[i] < Key(b)[i]
           same(i) == Key(a)[i] = Key(b)[i]
<1>2. Earlier(a, b) <=> \E i \in 1..4 : less(i) /\ \A j \in 1..i - 1 : same(j)
  BY DEF Earlier
<1> HIDE DEF less, same
<1>3. (\E i \in 1..4 : less(i) /\ \A j \in 1..i - 1 : same(j)) <=>
        less(1) \/ (less(2) /\ same(1)) \/ (less(3) /\ same(1) /\ same(2))
          \/ (less(4) /\ same(1) /\ same(2) /\ same(3))
  <2>1. /\ (\A j \in 1..1 - 1 : same(j)) <=> TRUE
        /\ (\A j \in 1..2 - 1 : same(j)) <=> same(1)
        /\ (\A j \in 1..3 - 1 : same(j)) <=> same(1) /\ same(2)
        /\ (\A j \in 1..4 - 1 : same(j)) <=> same(1) /\ same(2) /\ same(3)
    <3>1. 1..1 - 1 = {} /\ 1..2 - 1 = {1} /\ 1..3 - 1 = {1, 2} /\ 1..4 - 1 = {1, 2, 3}
      OBVIOUS
    <3>2. QED
      BY <3>1
  <2>2. \A i \in 1..4 : i = 1 \/ i = 2 \/ i = 3 \/ i = 4
    OBVIOUS
  <2>3. 1 \in 1..4 /\ 2 \in 1..4 /\ 3 \in 1..4 /\ 4 \in 1..4
    OBVIOUS
  <2>4. QED
    BY <2>1, <2>2, <2>3
<1>4. QED
  BY <1>1, <1>2, <1>3 DEF less, same

LEMMA EarlierOneWay ==
  ASSUME NEW a \in Action, NEW b \in Action, Earlier(a, b)
  PROVE  ~Earlier(b, a)
  BY EarlierMeans, ActionParts

\* There is at most one first action, and Current is it.
LEMMA FirstIsCurrent ==
  ASSUME todo \subseteq Action, NEW a, First(a)
  PROVE  Current = a
<1>1. Current \in todo /\ \A b \in todo \ {Current} : Earlier(Current, b)
  BY DEF First, Current
<1>2. CASE Current # a
  <2>1. Earlier(Current, a) /\ Earlier(a, Current)
    BY <1>1, <1>2 DEF First
  <2>2. QED
    BY <1>1, <2>1, EarlierOneWay DEF First
<1>3. QED
  BY <1>2

-----------------------------------------------------------------------------
(* Type correctness, with where the run is.                                *)

Typed == TypeOK /\ Progress

\* Nothing but the plan decides which action is current.
LEMMA CurrentStays ==
  ASSUME todo' = todo
  PROVE  Current' = Current /\ (First(Current)' <=> First(Current))
  BY DEF Current, First

LEMMA PlanStays ==
  ASSUME payload' = payload, picked' = picked, found' = found
  PROVE  BuildPlan(found)' = BuildPlan(found)
  BY DEF BuildPlan, Applicable

LEMMA PlanIsActions ==
  ASSUME TypeOK
  PROVE  /\ BuildPlan(found) \subseteq Action /\ BuildPlan(Finding) \subseteq Action
         /\ todo \subseteq Action
  BY DEF TypeOK, BuildPlan, Action

LEMMA TypedInit == Init => Typed
<1> SUFFICES ASSUME Init PROVE Typed
  OBVIOUS
<1>1. TypeOK
  <2>1. run \in 0..MaxRuns /\ mishaps \in 0..MaxMishaps
    BY BoundAssumption DEF Init
  <2>2. tally \in [bad : Nat, skipped : Nat, server : Nat]
    BY DEF Init, NoTally
  <2>3. copies \in [Object -> Nat] /\ withContext \subseteq Object
    BY DEF Init
  <2>4. payload \in [Finding -> Payload]
    BY DEF Init, Payload
  <2>5. /\ status \in [Run -> {"absent", "running", "done", "failed", "cancelled"}]
        /\ verdict \in [Run -> Verdict] /\ rows \in [Run -> SUBSET Record]
    BY DEF Init, Verdict
  <2>6. QED
    BY <2>1, <2>2, <2>3, <2>4, <2>5 DEF Init, TypeOK
<1>2. Progress
  BY DEF Init, Progress, Acting, Done
<1>3. QED
  BY <1>1, <1>2 DEF Typed

\* The action under way, as Progress has it.
LEMMA CurrentIsAction ==
  ASSUME Typed, pc \in Acting
  PROVE  Current \in todo /\ Current \in Action /\ Current \in BuildPlan(found)
  BY DEF Typed, TypeOK, Progress, First

LEMMA DueIsCurrent ==
  ASSUME Typed, NEW a, Due(a)
  PROVE  Current = a /\ First(a) /\ a \in todo /\ a \in Action /\ a \in BuildPlan(found)
<1>1. First(a) /\ todo \subseteq Action
  BY DEF Due, First, Typed, TypeOK
<1>2. Current = a
  BY <1>1, FirstIsCurrent
<1>3. QED
  BY <1>1, <1>2 DEF First, Typed, Progress

\* The requests, the log and the bounds have the types their operators give them.
LEMMA NoteTyped ==
  ASSUME NEW a \in Action, NEW call \in Call, NEW ok \in BOOLEAN, NEW why \in {"", "not found"}
  PROVE  Note(a, call, ok, why) \in Record
  BY Zenon DEF Note, Record

LEMMA MishapTyped ==
  ASSUME TypeOK, NEW kind \in Spoils, Calm \/ Mishap(kind)
  PROVE  spoilt' \subseteq Spoils /\ mishaps' \in 0..MaxMishaps
<1>1. spoilt \subseteq Spoils /\ mishaps \in 0..MaxMishaps
  BY DEF TypeOK, Spoils
<1>2. CASE Calm
  BY <1>1, <1>2 DEF Calm
<1>3. CASE Mishap(kind)
  <2>1. spoilt' \subseteq Spoils
    BY <1>1, <1>3, Zenon DEF Mishap
  <2>2. mishaps < MaxMishaps /\ mishaps' = mishaps + 1
    BY <1>3 DEF Mishap
  <2>3. mishaps' \in 0..MaxMishaps
    BY <1>1, <2>2, BoundAssumption
  <2>4. QED
    BY <2>1, <2>3
<1>4. QED
  BY <1>2, <1>3

LEMMA PostTyped ==
  ASSUME TypeOK, NEW a \in Action, NEW call \in Call, NEW answer \in Answer, NEW landed,
         Post(a, call, answer, landed)
  PROVE  /\ sent' \subseteq Sent
         /\ spoilt' \subseteq Spoils /\ mishaps' \in 0..MaxMishaps
         /\ Note(a, call, Logged(answer), "") \in Record
<1>1. [act |-> a, call |-> call, answer |-> answer] \in Sent
  BY DEF Sent, Answer
<1>2. sent' \subseteq Sent
  BY <1>1, Zenon DEF Post, TypeOK
<1>3. spoilt' \subseteq Spoils /\ mishaps' \in 0..MaxMishaps
  <2>1. answer \in Spoils \/ answer = "ok"
    BY DEF Answer, Spoils
  <2>2. CASE answer = "ok"
    <3>1. "read" \in Spoils
      BY DEF Spoils
    <3>2. Calm
      BY <2>2 DEF Post
    <3>3. QED
      BY <3>1, <3>2, MishapTyped
  <2>3. CASE answer # "ok"
    <3>1. Mishap(answer)
      BY <2>3 DEF Post
    <3>2. QED
      BY <2>1, <2>3, <3>1, MishapTyped
  <2>4. QED
    BY <2>2, <2>3
<1>4. Logged(answer) \in BOOLEAN
  BY DEF Logged
<1>5. QED
  BY <1>2, <1>3, <1>4, NoteTyped, Zenon

LEMMA EndRunTyped ==
  ASSUME TypeOK, NEW s \in {"done", "failed", "cancelled"}, EndRun(s)
  PROVE  /\ status' \in [Run -> {"absent", "running", "done", "failed", "cancelled"}]
         /\ pc' = "idle" /\ run' = run /\ verdict' = verdict /\ rows' = rows
  BY DEF TypeOK, EndRun

\* The list of findings is finite.
LEMMA FindingFinite == IsFiniteSet(Finding)
<1>1. FindingAt \in Seq([area : STRING, kind : STRING, name : Nat])
  BY FindingAssumption
<1>2. Len(FindingAt) \in Nat /\ Finding = 1..Len(FindingAt)
  BY <1>1 DEF Finding
<1>3. QED
  BY <1>2, FS_Interval

LEMMA ApplyTyped ==
  ASSUME Typed, Apply
  PROVE  TypeOK'
<1> USE DEF capture, site, runs, plan, work, closure, hist
<1>1. TypeOK
  BY DEF Typed
<1>2. "read" \in Spoils
  BY DEF Spoils
<1>3. TRUE \in BOOLEAN /\ FALSE \in BOOLEAN
  OBVIOUS
<1>4. ASSUME NEW a \in Action, Precheck(a) PROVE TypeOK'
  <2>1. spoilt' \subseteq Spoils /\ mishaps' \in 0..MaxMishaps
    BY <1>1, <1>2, <1>4, MishapTyped DEF Precheck, ReadWorks, ReadFails
  <2>2. Note(a, "precheck", TRUE, "") \in Record
    BY NoteTyped DEF Call
  <2>3. log' \subseteq Record /\ todo' \subseteq Action /\ pc' \in {"act", "post"}
    BY <1>1, <1>4, <2>2 DEF Precheck, Finish, TypeOK
  <2>4. blind' \subseteq Object
    <3>1. Obj(a.f) \in Object
      BY ActionParts
    <3>2. blind' = blind \/ blind' = blind \cup {Obj(a.f)}
      BY <1>4 DEF Precheck
    <3>3. QED
      BY <1>1, <3>1, <3>2 DEF TypeOK
  <2>5. QED
    BY <1>1, <1>4, <2>1, <2>3, <2>4 DEF Precheck, TypeOK, Spoils
<1>5. ASSUME NEW a \in Action, AddOptionsResolve(a) \/ Wire(a) PROVE TypeOK'
  <2>1. spoilt' \subseteq Spoils /\ mishaps' \in 0..MaxMishaps
    BY <1>1, <1>2, <1>5, MishapTyped
    DEF AddOptionsResolve, Wire, Resolves, Unresolved, ReadWorks, ReadFails
  <2>2. /\ Note(a, "options", FALSE, "not found") \in Record
        /\ Note(a, "wire", FALSE, "not found") \in Record /\ Note(a, "wire", FALSE, "") \in Record
    BY NoteTyped DEF Call
  <2>3. log' \subseteq Record /\ todo' \subseteq Action /\ pc' \in {"act", "delta"}
    BY <1>1, <1>5, <2>2 DEF AddOptionsResolve, Wire, GiveUp, Finish, TypeOK
  <2>4. QED
    BY <1>1, <1>5, <2>1, <2>3 DEF AddOptionsResolve, Wire, TypeOK, Spoils
<1>6. ASSUME NEW a \in Action, PopulateBegin(a) PROVE TypeOK'
  <2>1. spoilt' \subseteq Spoils /\ mishaps' \in 0..MaxMishaps
    BY <1>1, <1>2, <1>6, MishapTyped DEF PopulateBegin, Resolves, Unresolved, ReadWorks, ReadFails
  <2>2. /\ Note(a, "populate", FALSE, "not found") \in Record
        /\ Note(a, "populate", FALSE, "") \in Record
    BY NoteTyped DEF Call
  <2>3. log' \subseteq Record /\ todo' \subseteq Action /\ pc' \in {"act", "put"}
        /\ line' \subseteq Issue
    BY <1>1, <1>6, <2>2 DEF PopulateBegin, GiveUp, Finish, TypeOK
  <2>4. tally' \in [bad : Nat, skipped : Nat, server : Nat]
    BY <1>6 DEF PopulateBegin, NoTally
  <2>5. QED
    BY <1>1, <1>6, <2>1, <2>3, <2>4 DEF PopulateBegin, TypeOK, Spoils
<1>7. ASSUME ReadContexts PROVE TypeOK'
  <2>1. spoilt' \subseteq Spoils /\ mishaps' \in 0..MaxMishaps
    BY <1>1, <1>2, <1>7, MishapTyped DEF ReadContexts, ReadWorks, ReadFails
  <2>2. Note(Current, "options", FALSE, "") \in Record
    BY <1>7, CurrentIsAction, NoteTyped DEF ReadContexts, Acting, Call
  <2>3. log' \subseteq Record /\ todo' \subseteq Action /\ pc' \in {"act", "extend"}
    BY <1>1, <1>7, <2>2 DEF ReadContexts, GiveUp, Finish, TypeOK
  <2>4. QED
    BY <1>1, <1>7, <2>1, <2>3 DEF ReadContexts, TypeOK, Spoils
<1>8. ASSUME PopulateEnd PROVE TypeOK'
  <2>1. CleanTally(tally) \in BOOLEAN
    BY DEF CleanTally
  <2>2. Note(Current, "populate", CleanTally(tally), "") \in Record
    BY <1>8, <2>1, CurrentIsAction, NoteTyped DEF PopulateEnd, Acting, Call
  <2>3. log' \subseteq Record /\ todo' \subseteq Action /\ pc' = "act"
    BY <1>1, <1>8, <2>2, Zenon DEF PopulateEnd, Finish, TypeOK
  <2>4. QED
    BY <1>1, <1>8, <2>3 DEF PopulateEnd, TypeOK
<1>9. ASSUME ApplyEnd PROVE TypeOK'
  BY <1>1, <1>9 DEF ApplyEnd, TypeOK
<1>10. ASSUME NEW answer \in Answer, NEW landed \in BOOLEAN,
              \/ CreateObject(answer, landed) \/ CreateField(answer, landed)
       PROVE TypeOK'
  <2>1. Current \in Action /\ Post(Current, "create", answer, landed)
    BY <1>10, CurrentIsAction DEF CreateObject, CreateField, Acting
  <2>2. /\ sent' \subseteq Sent
        /\ spoilt' \subseteq Spoils /\ mishaps' \in 0..MaxMishaps
        /\ Note(Current, "create", Logged(answer), "") \in Record
    BY <1>1, <2>1, PostTyped DEF Call
  <2>3. log' \subseteq Record
    BY <1>1, <1>10, <2>2, Zenon DEF CreateObject, CreateField, TypeOK
  <2>4. copies' \in [Object -> Nat] /\ made' \subseteq Object
    <3>1. Obj(Current.f) \in Object
      BY <2>1, ActionParts
    <3>2. /\ copies' = copies \/ copies' = [copies EXCEPT ![Obj(Current.f)] = @ + 1]
          /\ made' \subseteq made \cup {Obj(Current.f)}
      BY <1>10 DEF CreateObject, CreateField, Add
    <3>3. QED
      BY <1>1, <3>1, <3>2 DEF TypeOK
  <2>5. todo' \subseteq Action /\ pc' \in {"act", "idle", "context"} /\ run' = run
        /\ verdict' = verdict /\ rows' = rows
    BY <1>1, <1>10 DEF CreateObject, CreateField, Finish, Fail, EndRun, TypeOK
  <2>6. status' \in [Run -> {"absent", "running", "done", "failed", "cancelled"}]
    <3>1. status' = status \/ EndRun("failed")
      BY <1>10 DEF CreateObject, CreateField, Fail
    <3>2. QED
      BY <1>1, <3>1, EndRunTyped DEF TypeOK
  <2>7. QED
    BY <1>1, <1>10, <2>2, <2>3, <2>4, <2>5, <2>6 DEF CreateObject, CreateField, TypeOK, Spoils
<1>11. ASSUME NEW answer \in Answer, NEW landed \in BOOLEAN,
              \/ CreateContext(answer, landed) \/ CreateOptions(answer, landed)
              \/ AddOptions(answer, landed)
       PROVE TypeOK'
  <2>1. PICK call \in {"context", "options"} :
          Post(Current, call, answer, landed) /\ log' = log \cup NoteAny(Current, call, answer)
    BY <1>11 DEF CreateContext, CreateOptions, AddOptions
  <2>2. Current \in Action
    BY <1>11, CurrentIsAction DEF CreateContext, CreateOptions, AddOptions, Acting
  <2>3. call \in Call
    BY DEF Call
  <2>4. /\ sent' \subseteq Sent
        /\ spoilt' \subseteq Spoils /\ mishaps' \in 0..MaxMishaps
        /\ Note(Current, call, Logged(answer), "") \in Record
    BY <1>1, <2>1, <2>2, <2>3, PostTyped
  <2>5. log' \subseteq Record
    BY <1>1, <2>1, <2>4, Zenon DEF NoteAny, TypeOK
  <2>6. withContext' \subseteq Object /\ withOptions' \subseteq Object
    <3>1. Obj(Current.f) \in Object
      BY <2>2, ActionParts
    <3>2. /\ withContext' \subseteq withContext \cup {Obj(Current.f)}
          /\ withOptions' \subseteq withOptions \cup {Obj(Current.f)}
      BY <1>11 DEF CreateContext, CreateOptions, AddOptions
    <3>3. QED
      BY <1>1, <3>1, <3>2 DEF TypeOK
  <2>7. todo' \subseteq Action /\ pc' \in {"act", "idle", "options"} /\ run' = run
        /\ verdict' = verdict /\ rows' = rows
    BY <1>1, <1>11 DEF CreateContext, CreateOptions, AddOptions, Finish, Fail, EndRun, TypeOK
  <2>8. status' \in [Run -> {"absent", "running", "done", "failed", "cancelled"}]
    <3>1. status' = status \/ EndRun("failed")
      BY <1>11 DEF CreateContext, CreateOptions, AddOptions, Fail
    <3>2. QED
      BY <1>1, <3>1, EndRunTyped DEF TypeOK
  <2>9. QED
    BY <1>1, <1>11, <2>4, <2>5, <2>6, <2>7, <2>8
    DEF CreateContext, CreateOptions, AddOptions, TypeOK, Spoils
<1>12. ASSUME NEW answer \in Answer, NEW landed \in BOOLEAN, NEW i \in Issue,
              PutValue(i, answer, landed)
       PROVE TypeOK'
  <2>1. Current \in Action /\ Post(Current, "populate", answer, landed)
    BY <1>12, CurrentIsAction DEF PutValue, Acting
  <2>2. sent' \subseteq Sent /\ spoilt' \subseteq Spoils /\ mishaps' \in 0..MaxMishaps
    BY <1>1, <2>1, PostTyped DEF Call
  <2>3. filled' \subseteq Object \X Issue
    BY <1>1, <1>12, <2>1, ActionParts DEF PutValue, TypeOK
  <2>4. tally' \in [bad : Nat, skipped : Nat, server : Nat]
    <3>1. tally \in [bad : Nat, skipped : Nat, server : Nat]
      BY <1>1 DEF TypeOK
    <3>2. \/ tally' = tally
          \/ tally' = [tally EXCEPT !.bad = @ + 1]
          \/ tally' = [tally EXCEPT !.bad = @ + 1, !.server = IF Threshold > 0 THEN @ + 1 ELSE @]
      BY <1>12 DEF PutValue
    <3>3. tally.bad + 1 \in Nat /\ tally.server + 1 \in Nat
      BY <3>1
    <3>4. \A b, n \in Nat : [[tally EXCEPT !.bad = b] EXCEPT !.server = n]
                              \in [bad : Nat, skipped : Nat, server : Nat]
      BY <3>1
    <3>5. CASE tally' = [tally EXCEPT !.bad = @ + 1, !.server = IF Threshold > 0 THEN @ + 1 ELSE @]
      <4> DEFINE n == IF Threshold > 0 THEN tally.server + 1 ELSE tally.server
      <4>1. n \in Nat
        BY <3>1, <3>3
      <4>2. tally' = [[tally EXCEPT !.bad = tally.bad + 1] EXCEPT !.server = n]
        BY <3>1, <3>5
      <4> HIDE DEF n
      <4>3. QED
        BY <3>3, <3>4, <4>1, <4>2
    <3>6. QED
      BY <3>1, <3>2, <3>3, <3>5
  <2>5. QED
    BY <1>1, <1>12, <2>2, <2>3, <2>4 DEF PutValue, TypeOK, Spoils
<1>13. ASSUME NEW i \in Issue, SkipValue(i) PROVE TypeOK'
  <2>1. tally' \in [bad : Nat, skipped : Nat, server : Nat]
    BY <1>1, <1>13 DEF SkipValue, TypeOK
  <2>2. QED
    BY <1>1, <1>13, <2>1 DEF SkipValue, TypeOK
<1>14. QED
  BY <1>4, <1>5, <1>6, <1>7, <1>8, <1>9, <1>10, <1>11, <1>12, <1>13 DEF Apply

LEMMA TypeStep ==
  ASSUME Typed, Next
  PROVE  TypeOK'
<1> USE DEF capture, site, runs, plan, work, closure, hist
<1>1. TypeOK
  BY DEF Typed
<1>2. "read" \in Spoils /\ "cancel" \in Spoils /\ "crash" \in Spoils /\ "foreign" \in Spoils
      /\ "deleted" \in Spoils
  BY DEF Spoils
<1>3. ASSUME CaptureSource PROVE TypeOK'
  <2>1. PICK p \in Samples, c \in Captures, d \in BOOLEAN :
          payload' = p /\ captured' = c /\ sameDir' = d
    BY <1>3 DEF CaptureSource
  <2>2. payload' \in [Finding -> Payload] /\ captured' \subseteq Issue /\ sameDir' \in BOOLEAN
    BY <2>1, SampleAssumption, CaptureAssumption
  <2>3. QED
    BY <1>1, <1>3, <2>2, Zenon DEF CaptureSource, TypeOK
<1>4. ASSUME NEW p \in Picks, Start(p) PROVE TypeOK'
  <2>1. run + 1 \in Run /\ run' \in 0..MaxRuns
    BY <1>1, <1>4, BoundAssumption DEF Start, TypeOK, Run
  <2>2. status' \in [Run -> {"absent", "running", "done", "failed", "cancelled"}]
    BY <1>1, <1>4, <2>1 DEF Start, TypeOK
  <2>3. picked' \subseteq FixIds
    BY <1>4, PickAssumption DEF Start
  <2>4. tally' \in [bad : Nat, skipped : Nat, server : Nat]
    BY <1>4 DEF Start, NoTally
  <2>5. QED
    BY <1>1, <1>4, <2>1, <2>2, <2>3, <2>4 DEF Start, TypeOK
<1>5. ASSUME Verify PROVE TypeOK'
  <2>1. /\ spoilt' \subseteq Spoils /\ mishaps' \in 0..MaxMishaps
    BY <1>1, <1>2, <1>5, MishapTyped DEF Verify
  <2>2. status' \in [Run -> {"absent", "running", "done", "failed", "cancelled"}]
        /\ pc' \in {"idle", "load"} /\ run' = run /\ verdict' = verdict /\ rows' = rows
    BY <1>1, <1>5, EndRunTyped DEF Verify, Fail, TypeOK
  <2>3. QED
    BY <1>1, <1>5, <2>1, <2>2 DEF Verify, TypeOK, Spoils
<1>6. ASSUME LoadSourceId PROVE TypeOK'
  <2>1. status' \in [Run -> {"absent", "running", "done", "failed", "cancelled"}]
        /\ pc' \in {"idle", "read"} /\ run' = run /\ verdict' = verdict /\ rows' = rows
    BY <1>1, <1>6, EndRunTyped DEF LoadSourceId, Fail, TypeOK
  <2>2. QED
    BY <1>1, <1>6, <2>1 DEF LoadSourceId, TypeOK
<1>7. ASSUME ReadFindings PROVE TypeOK'
  <2>1. found' \subseteq Finding /\ todo' \subseteq Action /\ skips' = SkippedBy(found') /\ pc' = "act"
    BY <1>7 DEF ReadFindings, BuildPlan, Action
  <2>2. SkippedBy(found') \in Nat
    BY <2>1, FindingFinite, FS_Subset, FS_CardinalityType DEF SkippedBy
  <2>3. QED
    BY <1>1, <1>7, <2>1, <2>2 DEF ReadFindings, TypeOK
<1>8. ASSUME Apply PROVE TypeOK'
  BY <1>8, ApplyTyped
<1>9. ASSUME NEW f \in Finding, Recheck(f) PROVE TypeOK'
  <2>1. spoilt' \subseteq Spoils /\ mishaps' \in 0..MaxMishaps
    BY <1>1, <1>2, <1>9, MishapTyped DEF Recheck, ReadWorks, ReadFails
  <2>2. closed' \in Nat /\ open' \in Nat /\ judged' \subseteq Finding
    BY <1>1, <1>9 DEF Recheck, TypeOK
  <2>3. QED
    BY <1>1, <1>9, <2>1, <2>2 DEF Recheck, TypeOK, Spoils
<1>10. ASSUME RecheckEnd PROVE TypeOK'
  BY <1>1, <1>10 DEF RecheckEnd, TypeOK
<1>11. ASSUME Persist PROVE TypeOK'
  <2>1. rows' \in [Run -> SUBSET Record]
    BY <1>1, <1>11 DEF Persist, TypeOK
  <2>2. QED
    BY <1>1, <1>11, <2>1 DEF Persist, TypeOK
<1>12. ASSUME Conclude PROVE TypeOK'
  <2>1. Ladder \in Verdict
    BY DEF Ladder, Verdict
  <2>2. verdict' \in [Run -> Verdict]
    BY <1>1, <1>12, <2>1 DEF Conclude, TypeOK
  <2>3. status' \in [Run -> {"absent", "running", "done", "failed", "cancelled"}]
    BY <1>1, <1>12 DEF Conclude, TypeOK
  <2>4. QED
    BY <1>1, <1>12, <2>2, <2>3 DEF Conclude, TypeOK
<1>13. ASSUME Cancel \/ Crash PROVE TypeOK'
  <2>1. spoilt' \subseteq Spoils /\ mishaps' \in 0..MaxMishaps
    BY <1>1, <1>2, <1>13, MishapTyped DEF Cancel, Crash
  <2>2. status' \in [Run -> {"absent", "running", "done", "failed", "cancelled"}]
        /\ pc' = "idle" /\ run' = run /\ verdict' = verdict /\ rows' = rows
    BY <1>1, <1>13, EndRunTyped DEF Cancel, Crash, Fail
  <2>3. QED
    BY <1>1, <1>13, <2>1, <2>2 DEF Cancel, Crash, TypeOK, Spoils
<1>14. ASSUME AdminActs PROVE TypeOK'
  <2>1. spoilt' \subseteq Spoils /\ mishaps' \in 0..MaxMishaps
    BY <1>1, <1>2, <1>14, MishapTyped DEF AdminActs
  <2>2. PICK o \in Object :
         /\ copies' = [copies EXCEPT ![o] = IF @ = 0 THEN 1 ELSE @ - 1]
         /\ withContext' = withContext \ {o} /\ withOptions' = withOptions \ {o}
         /\ blind' = blind \cup {o}
    BY <1>14 DEF AdminActs
  <2>3. copies' \in [Object -> Nat] /\ withContext' \subseteq Object
        /\ withOptions' \subseteq Object /\ blind' \subseteq Object
    BY <1>1, <2>2 DEF TypeOK
  <2>4. QED
    BY <1>1, <1>14, <2>1, <2>3 DEF AdminActs, TypeOK, Spoils
<1>15. ASSUME DeleteSource PROVE TypeOK'
  <2>1. spoilt' \subseteq Spoils /\ mishaps' \in 0..MaxMishaps
    BY <1>1, <1>2, <1>15, MishapTyped DEF DeleteSource
  <2>2. QED
    BY <1>1, <1>15, <2>1 DEF DeleteSource, TypeOK, Spoils
<1>16. QED
  BY <1>3, <1>4, <1>5, <1>6, <1>7, <1>8, <1>9, <1>10, <1>11, <1>12, <1>13, <1>14, <1>15 DEF Next

\* The end of a run that is under way.
LEMMA RunEnds ==
  ASSUME Typed, pc # "idle", NEW s \in {"failed", "cancelled"}, EndRun(s)
  PROVE  pc' = "idle" /\ ~Done' /\ source # "audit" /\ run' = run
<1>1. run > 0 /\ run \in Run /\ source # "audit"
  BY DEF Typed, TypeOK, Progress, Run
<1>2. status'[run'] = s
  BY <1>1 DEF EndRun, Typed, TypeOK
<1>3. QED
  BY <1>1, <1>2 DEF EndRun, Done

\* The action that ends a step of the plan leaves the rest of the plan.
LEMMA FinishProgress ==
  ASSUME Typed, pc \in {"act"} \cup Acting, NEW a, Finish(a),
         UNCHANGED <<capture, source, runs, picked, found>>
  PROVE  Progress'
<1>1. BuildPlan(found)' = BuildPlan(found)
  BY PlanStays DEF capture
<1>2. todo' \subseteq BuildPlan(found)' /\ pc' = "act"
  BY <1>1 DEF Finish, Typed, Progress
<1>3. ~Done /\ ~Done' /\ source' # "audit" /\ run' > 0 /\ status'[run'] = "running"
  BY DEF runs, Done, Typed, Progress, Acting
<1>4. QED
  BY <1>2, <1>3 DEF Progress, Acting

\* A step within an action, and a step after the plan, leave the plan alone.
LEMMA StayProgress ==
  ASSUME Typed, pc # "idle", pc' \notin {"idle", "verify", "load", "read"}, UNCHANGED <<capture, source, runs, picked, found, todo>>,
         pc' \in {"reaudit", "persist", "conclude"} => todo = {},
         pc' \in Acting => First(Current),
         pc' = "post" => Tier(Current) = "create" /\ FixId(Current) # "field.options",
         pc' \in {"context", "options"} => FixId(Current) = "field.create",
         pc' \in {"delta", "extend"} => FixId(Current) = "field.options",
         pc' = "put" => Tier(Current) = "populate"
  PROVE  Progress'
<1>1. BuildPlan(found)' = BuildPlan(found) /\ Current' = Current /\ (First(Current)' <=> First(Current))
  BY PlanStays, CurrentStays DEF capture
<1>2. /\ ~Done' /\ source' # "audit" /\ run' > 0 /\ status'[run'] = "running"
      /\ todo' \subseteq BuildPlan(found)'
  BY <1>1 DEF runs, Done, Typed, Progress
<1>3. /\ Tier(Current)' = Tier(Current) /\ FixId(Current)' = FixId(Current)
  BY <1>1 DEF Tier, FixId
<1>4. QED
  BY <1>1, <1>2, <1>3 DEF Progress

\* Outside a run, and when a run ends, only the end of the plan matters.
LEMMA IdleProgress ==
  ASSUME Typed, pc' = "idle", todo' = todo, payload' = payload, picked' = picked, found' = found,
         Done' => todo = {},
         source' = "audit" => run' = 0 /\ sent' = {} /\ todo = {} /\ found = {}
  PROVE  Progress'
  BY PlanStays DEF Progress, Acting, Typed

LEMMA ApplyProgress ==
  ASSUME Typed, Apply
  PROVE  Progress'
<1> USE DEF capture, site, runs, plan, work, closure, hist
<1>1. TypeOK
  BY DEF Typed
<1>2. ASSUME NEW a \in Action, Precheck(a) PROVE Progress'
  <2>1. Current = a /\ First(Current) /\ Due(a)
    BY <1>2, DueIsCurrent DEF Precheck
  <2>2. CASE Finish(a)
    BY <1>2, <2>1, <2>2, FinishProgress DEF Precheck, Due
  <2>3. CASE pc' = "post" /\ todo' = todo
    BY <1>2, <2>1, <2>3, StayProgress DEF Precheck, Due, Acting
  <2>4. QED
    BY <1>2, <2>2, <2>3 DEF Precheck
<1>3. ASSUME NEW a \in Action, AddOptionsResolve(a) PROVE Progress'
  <2>1. Current = a /\ First(Current) /\ Due(a)
    BY <1>3, DueIsCurrent DEF AddOptionsResolve
  <2>2. CASE Finish(a)
    BY <1>3, <2>1, <2>2, FinishProgress DEF AddOptionsResolve, Due
  <2>3. CASE pc' = "delta" /\ todo' = todo
    BY <1>3, <2>1, <2>3, StayProgress DEF AddOptionsResolve, Due, Acting
  <2>4. QED
    BY <1>3, <2>2, <2>3 DEF AddOptionsResolve, GiveUp
<1>4. ASSUME NEW a \in Action, Wire(a) PROVE Progress'
  BY <1>4, FinishProgress DEF Wire, Due, GiveUp
<1>5. ASSUME NEW a \in Action, PopulateBegin(a) PROVE Progress'
  <2>1. Current = a /\ First(Current) /\ Due(a)
    BY <1>5, DueIsCurrent DEF PopulateBegin
  <2>2. CASE Finish(a)
    BY <1>5, <2>1, <2>2, FinishProgress DEF PopulateBegin, Due
  <2>3. CASE pc' = "put" /\ todo' = todo
    BY <1>5, <2>1, <2>3, StayProgress DEF PopulateBegin, Due, Acting
  <2>4. QED
    BY <1>5, <2>2, <2>3 DEF PopulateBegin, GiveUp
<1>6. ASSUME ReadContexts PROVE Progress'
  <2>1. CASE Finish(Current)
    BY <1>6, <2>1, FinishProgress DEF ReadContexts, Acting
  <2>2. CASE pc' = "extend" /\ todo' = todo
    BY <1>6, <2>2, StayProgress DEF ReadContexts, Acting, Typed, Progress
  <2>3. QED
    BY <1>6, <2>1, <2>2 DEF ReadContexts, GiveUp
<1>7. ASSUME PopulateEnd PROVE Progress'
  BY <1>7, FinishProgress DEF PopulateEnd, Acting
<1>8. ASSUME ApplyEnd PROVE Progress'
  BY <1>8, StayProgress DEF ApplyEnd, Acting
<1>9. ASSUME NEW answer \in Answer, NEW landed \in BOOLEAN, CreateObject(answer, landed)
      PROVE Progress'
  BY <1>9, FinishProgress DEF CreateObject, Acting
<1>10. ASSUME NEW answer \in Answer, NEW landed \in BOOLEAN, CreateField(answer, landed)
       PROVE Progress'
  <2>1. CASE Finish(Current) /\ UNCHANGED runs
    BY <1>10, <2>1, FinishProgress DEF CreateField, Acting
  <2>2. CASE pc' = "context" /\ UNCHANGED <<todo, runs>>
    <3>1. Current \in Action /\ Current \in BuildPlan(found)
      BY <1>10, CurrentIsAction DEF CreateField, Acting
    <3>2. Tier(Current) = "create" /\ FixId(Current) # "field.options" /\ First(Current)
      BY <1>10 DEF CreateField, Acting, Typed, Progress
    <3>3. Fixes[Current.x].area = "custom_fields" /\ Current.x \in 1..9
      BY <1>10, <3>1, FixTable DEF CreateField, BuildPlan, Applicable
    <3>4. Current.x = 1
      BY <3>2, <3>3, FixTable DEF Tier, FixId
    <3>5. FixId(Current) = "field.create"
      BY <3>3, <3>4, FixTable DEF FixId
    <3>6. QED
      BY <1>10, <2>2, <3>2, <3>5, StayProgress DEF CreateField, Acting
  <2>3. CASE Fail /\ UNCHANGED todo
    BY <1>10, <2>3, RunEnds, IdleProgress DEF Fail, CreateField
  <2>4. QED
    BY <1>10, <2>1, <2>2, <2>3 DEF CreateField
<1>11. ASSUME NEW answer \in Answer, NEW landed \in BOOLEAN, CreateContext(answer, landed)
       PROVE Progress'
  <2>1. CASE Finish(Current) /\ UNCHANGED runs
    BY <1>11, <2>1, FinishProgress DEF CreateContext, Acting
  <2>2. CASE pc' = "options" /\ UNCHANGED <<todo, runs>>
    BY <1>11, <2>2, StayProgress DEF CreateContext, Acting, Typed, Progress
  <2>3. CASE Fail /\ UNCHANGED todo
    BY <1>11, <2>3, RunEnds, IdleProgress DEF Fail, CreateContext
  <2>4. QED
    BY <1>11, <2>1, <2>2, <2>3 DEF CreateContext
<1>12. ASSUME NEW answer \in Answer, NEW landed \in BOOLEAN,
              CreateOptions(answer, landed) \/ AddOptions(answer, landed)
       PROVE Progress'
  BY <1>12, FinishProgress DEF CreateOptions, AddOptions, Acting
<1>13. ASSUME NEW answer \in Answer, NEW landed \in BOOLEAN, NEW i \in Issue,
              PutValue(i, answer, landed)
       PROVE Progress'
  <2>1. First(Current) /\ Tier(Current) = "populate"
    BY <1>13 DEF Typed, Progress, Acting, PutValue
  <2>2. QED
    BY <1>13, <2>1, StayProgress DEF PutValue
<1>14. ASSUME NEW i \in Issue, SkipValue(i) PROVE Progress'
  <2>1. First(Current) /\ Tier(Current) = "populate"
    BY <1>14 DEF Typed, Progress, Acting, SkipValue
  <2>2. QED
    BY <1>14, <2>1, StayProgress DEF SkipValue
<1>15. QED
  BY <1>2, <1>3, <1>4, <1>5, <1>6, <1>7, <1>8, <1>9, <1>10, <1>11, <1>12, <1>13, <1>14 DEF Apply

LEMMA ProgressStep ==
  ASSUME Typed, Next
  PROVE  Progress'
<1> USE DEF capture, site, runs, plan, work, closure, hist
<1>1. TypeOK /\ Progress
  BY DEF Typed
<1>2. ASSUME CaptureSource PROVE Progress'
  <2>1. /\ pc' = "idle" /\ source' = "stored" /\ todo' = {}
        /\ UNCHANGED <<runs, plan, sent>>
    BY <1>1, <1>2 DEF CaptureSource, Progress
  <2>2. QED
    BY <1>1, <2>1 DEF Progress, Acting, Done
<1>3. ASSUME NEW p \in Picks, Start(p) PROVE Progress'
  <2>1. run' > 0 /\ status'[run'] = "running" /\ source' # "audit"
    BY <1>1, <1>3, BoundAssumption DEF Start, TypeOK, Run
  <2>2. QED
    BY <1>3, <2>1 DEF Start, Progress, Acting, Done
<1>4. ASSUME Verify PROVE Progress'
  <2>1. CASE Fail
    BY <1>4, <2>1, RunEnds, IdleProgress DEF Fail, Verify
  <2>2. CASE pc' = "load" /\ UNCHANGED runs
    <3>1. BuildPlan(found)' = BuildPlan(found)
      BY <1>4, PlanStays DEF Verify
    <3>2. QED
      BY <1>1, <1>4, <2>2, <3>1 DEF Verify, Progress, Acting, Done
  <2>3. QED
    BY <1>4, <2>1, <2>2 DEF Verify
<1>5. ASSUME LoadSourceId PROVE Progress'
  <2>1. CASE Fail
    BY <1>5, <2>1, RunEnds, IdleProgress DEF Fail, LoadSourceId
  <2>2. CASE pc' = "read" /\ UNCHANGED runs
    <3>1. BuildPlan(found)' = BuildPlan(found)
      BY <1>5, PlanStays DEF LoadSourceId
    <3>2. QED
      BY <1>1, <1>5, <2>2, <3>1 DEF LoadSourceId, Progress, Acting, Done
  <2>3. QED
    BY <1>5, <2>1, <2>2 DEF LoadSourceId
<1>6. ASSUME ReadFindings PROVE Progress'
  <2>1. todo' = BuildPlan(found)'
    BY <1>6 DEF ReadFindings, BuildPlan, Applicable
  <2>2. QED
    BY <1>1, <1>6, <2>1 DEF ReadFindings, Progress, Acting, Done
<1>7. ASSUME Apply PROVE Progress'
  BY <1>7, ApplyProgress
<1>8. ASSUME (\E f \in Finding : Recheck(f)) \/ RecheckEnd \/ Persist PROVE Progress'
  <2>1. /\ pc # "idle" /\ pc' \in {"reaudit", "persist", "conclude"} /\ todo = {}
        /\ UNCHANGED <<capture, source, run, status, verdict, picked, found, todo>>
    BY <1>1, <1>8 DEF Recheck, RecheckEnd, Persist, Progress
  <2>2. BuildPlan(found)' = BuildPlan(found)
    BY <2>1, PlanStays
  <2>3. QED
    BY <1>1, <2>1, <2>2 DEF Progress, Acting, Done
<1>9. ASSUME Conclude PROVE Progress'
  <2>1. pc = "conclude" /\ pc' = "idle" /\ todo = {} /\ source # "audit"
    BY <1>1, <1>9 DEF Conclude, Progress
  <2>2. QED
    BY <1>9, <2>1, IdleProgress DEF Conclude
<1>10. ASSUME Cancel \/ Crash PROVE Progress'
  BY <1>10, RunEnds, IdleProgress DEF Cancel, Crash, Fail
<1>11. ASSUME AdminActs \/ DeleteSource PROVE Progress'
  <2>1. /\ UNCHANGED <<capture, runs, pc, plan, log, closure, sent>>
        /\ source' = source \/ (source = "stored" /\ source' = "gone")
    BY <1>11 DEF AdminActs, DeleteSource
  <2>2. /\ BuildPlan(found)' = BuildPlan(found) /\ Current' = Current
        /\ (First(Current)' <=> First(Current)) /\ (Done' <=> Done)
    BY <2>1, PlanStays, CurrentStays DEF Done
  <2>3. Tier(Current)' = Tier(Current) /\ FixId(Current)' = FixId(Current)
    BY <2>2 DEF Tier, FixId
  <2>4. QED
    BY <1>1, <2>1, <2>2, <2>3 DEF Progress
<1>12. QED
  BY <1>2, <1>3, <1>4, <1>5, <1>6, <1>7, <1>8, <1>9, <1>10, <1>11 DEF Next

LEMMA TypedStep ==
  ASSUME Typed, [Next]_vars
  PROVE  Typed'
<1>1. CASE Next
  BY <1>1, TypeStep, ProgressStep DEF Typed
<1>2. CASE UNCHANGED vars
  <2> USE DEF vars, capture, site, runs, plan, work, closure, hist
  <2>1. TypeOK'
    BY <1>2 DEF Typed, TypeOK
  <2>2. /\ BuildPlan(found)' = BuildPlan(found) /\ Current' = Current
        /\ (First(Current)' <=> First(Current)) /\ (Done' <=> Done)
    BY <1>2, PlanStays, CurrentStays DEF Done
  <2>3. Tier(Current)' = Tier(Current) /\ FixId(Current)' = FixId(Current)
    BY <2>2 DEF Tier, FixId
  <2>4. Progress'
    BY <1>2, <2>2, <2>3 DEF Typed, Progress
  <2>5. QED
    BY <2>1, <2>4 DEF Typed
<1>3. QED
  BY <1>1, <1>2

\* Every variable keeps its type, in every run of every plan.
THEOREM TypeCorrect == Spec => []TypeOK
<1>1. Typed => TypeOK
  BY DEF Typed
<1>2. QED
  BY <1>1, TypedInit, TypedStep, PTL DEF Spec

-----------------------------------------------------------------------------
(* Never a second object.                                                  *)

LEMMA BlindFrame ==
  ASSUME Blind, copies' = copies, blind' = blind, pc' # "post"
  PROVE  Blind'
  BY DEF Blind, NeverTwice

\* The pre-check: either the list was read and has no such object, or it is on record that
\* it was not read.
LEMMA BlindPrecheck ==
  ASSUME Typed, Blind, NEW a \in Action, Precheck(a)
  PROVE  Blind'
<1> USE DEF capture, site, runs, plan, work, closure, hist
<1>1. Current = a /\ copies' = copies /\ copies[Obj(a.f)] \in Nat
  BY DueIsCurrent, ActionParts DEF Precheck, Typed, TypeOK
<1>2. NeverTwice'
  BY <1>1 DEF Precheck, Blind, NeverTwice
<1>3. CASE pc' = "post" /\ todo' = todo
  <2>1. Current' = a
    BY <1>1, <1>3, CurrentStays
  <2>2. copies[Obj(a.f)] = 0 \/ Obj(a.f) \in blind'
    BY <1>1, <1>3 DEF Precheck, Sees, Finish
  <2>3. QED
    BY <1>1, <1>2, <2>1, <2>2 DEF Blind
<1>4. CASE pc' = "act"
  BY <1>2, <1>4 DEF Blind
<1>5. QED
  BY <1>3, <1>4 DEF Precheck, Finish

\* The request that may add an object.
LEMMA BlindCreate ==
  ASSUME Typed, Blind, NEW answer \in Answer, NEW landed \in BOOLEAN,
         CreateObject(answer, landed) \/ CreateField(answer, landed)
  PROVE  Blind'
<1> DEFINE o == Obj(Current.f)
<1>1. Current \in Action /\ pc = "post" /\ pc' # "post" /\ blind' = blind
  BY CurrentIsAction DEF CreateObject, CreateField, Acting, Finish, Fail, EndRun
<1>2. o \in Object /\ copies \in [Object -> Nat]
  BY <1>1, ActionParts DEF Typed, TypeOK
<1>3. copies' = copies \/ copies' = [copies EXCEPT ![o] = @ + 1]
  BY DEF CreateObject, CreateField, Add
<1>4. copies[o] = 0 \/ o \in blind
  BY <1>1 DEF Blind
<1> HIDE DEF o
<1>5. \A q \in Object : copies'[q] > 1 => q \in blind
  BY <1>2, <1>3, <1>4 DEF Blind, NeverTwice
<1>6. QED
  BY <1>1, <1>5 DEF Blind, NeverTwice

LEMMA BlindStep ==
  ASSUME Typed, Blind, Next
  PROVE  Blind'
<1> USE DEF capture, site, runs, plan, work, closure, hist
<1>1. ASSUME \/ CaptureSource \/ (\E p \in Picks : Start(p))
             \/ Verify \/ LoadSourceId \/ ReadFindings
             \/ (\E f \in Finding : Recheck(f)) \/ RecheckEnd \/ Persist \/ Conclude
             \/ Cancel \/ Crash
      PROVE  copies' = copies /\ blind' = blind /\ pc' # "post"
  BY <1>1 DEF CaptureSource, Start, Verify, LoadSourceId, ReadFindings, Recheck, RecheckEnd,
       Persist, Conclude, Cancel, Crash, Fail, EndRun, Typed, Progress
<1>2. ASSUME DeleteSource PROVE Blind'
  <2>1. UNCHANGED <<pc, copies, blind, Current>>
    BY <1>2, CurrentStays DEF DeleteSource
  <2>2. QED
    BY <2>1 DEF Blind, NeverTwice
<1>3. ASSUME AdminActs PROVE Blind'
  <2>1. PICK o \in Object : /\ copies' = [copies EXCEPT ![o] = IF @ = 0 THEN 1 ELSE @ - 1]
                            /\ blind' = blind \cup {o}
    BY <1>3 DEF AdminActs
  <2>2. copies \in [Object -> Nat] /\ pc' = pc /\ Current' = Current
    BY <1>3, CurrentStays DEF AdminActs, Typed, TypeOK
  <2>3. NeverTwice'
    BY <2>1, <2>2 DEF Blind, NeverTwice
  <2>4. pc = "post" => Obj(Current.f) \in Object
    BY CurrentIsAction, ActionParts DEF Acting
  <2>5. pc = "post" => copies'[Obj(Current.f)] = 0 \/ Obj(Current.f) \in blind'
    BY <2>1, <2>2, <2>4 DEF Blind
  <2>6. QED
    BY <2>2, <2>3, <2>5 DEF Blind
<1>4. ASSUME NEW a \in Action, AddOptionsResolve(a) \/ Wire(a) \/ PopulateBegin(a)
      PROVE  copies' = copies /\ blind' = blind /\ pc' # "post"
  BY <1>4 DEF AddOptionsResolve, Wire, PopulateBegin, GiveUp, Finish
<1>5. ASSUME ReadContexts \/ PopulateEnd \/ ApplyEnd
      PROVE  copies' = copies /\ blind' = blind /\ pc' # "post"
  BY <1>5 DEF ReadContexts, PopulateEnd, ApplyEnd, GiveUp, Finish
<1>6. ASSUME NEW answer \in Answer, NEW landed \in BOOLEAN,
             \/ CreateContext(answer, landed) \/ CreateOptions(answer, landed)
             \/ AddOptions(answer, landed)
      PROVE  copies' = copies /\ blind' = blind /\ pc' # "post"
  BY <1>6 DEF CreateContext, CreateOptions, AddOptions, Finish, Fail, EndRun
<1>7. ASSUME NEW answer \in Answer, NEW landed \in BOOLEAN, NEW i \in Issue,
             PutValue(i, answer, landed)
      PROVE  copies' = copies /\ blind' = blind /\ pc' # "post"
  BY <1>7 DEF PutValue
<1>8. ASSUME NEW i \in Issue, SkipValue(i)
      PROVE  copies' = copies /\ blind' = blind /\ pc' # "post"
  BY <1>8 DEF SkipValue
<1>9. ASSUME Apply PROVE Blind'
  BY <1>4, <1>5, <1>6, <1>7, <1>8, <1>9, BlindFrame, BlindPrecheck, BlindCreate DEF Apply
<1>10. QED
  BY <1>1, <1>2, <1>3, <1>9, BlindFrame DEF Next

\* Never a double create: an area has two objects of one name only if the tool could not
\* read the list before it created one, or somebody else created or deleted one.
THEOREM NeverTwiceHolds == Spec => []NeverTwice
<1>1. Init => Blind
  BY DEF Init, Blind, NeverTwice
<1>2. Typed /\ Blind /\ [Next]_vars => Blind'
  <2>1. CASE UNCHANGED vars
    <3>1. Current' = Current
      BY <2>1, CurrentStays DEF vars, plan
    <3>2. QED
      BY <2>1, <3>1 DEF vars, site, hist, Blind, NeverTwice
  <2>2. QED
    BY <2>1, BlindStep
<1>3. Blind => NeverTwice
  BY DEF Blind
<1>4. QED
  BY <1>1, <1>2, <1>3, TypedInit, TypedStep, PTL DEF Spec

-----------------------------------------------------------------------------
(* The bounds of the populate tier.                                        *)

LEMMA BoundedFrame ==
  ASSUME Bounded, captured' = captured, sent' = sent, tally' = tally, pc' = "put" => pc = "put"
  PROVE  Bounded'
  BY DEF Bounded, PopulateBound, ExceedsCap

\* A request of another tier.
LEMMA BoundedPost ==
  ASSUME Bounded, captured' = captured, tally' = tally, pc' # "put",
         NEW a, NEW answer, NEW call \in {"create", "context", "options"}, NEW landed,
         Post(a, call, answer, landed)
  PROVE  Bounded'
<1>1. \A s \in sent' : s \in sent \/ s.call # "populate"
  BY DEF Post
<1>2. QED
  BY <1>1 DEF Bounded, PopulateBound

LEMMA BoundedApply ==
  ASSUME Typed, Bounded, Apply
  PROVE  Bounded'
<1> USE DEF capture, site, runs, plan, work, closure, hist
<1>1. ASSUME NEW a \in Action, Precheck(a) \/ AddOptionsResolve(a) \/ Wire(a) PROVE Bounded'
  BY <1>1, BoundedFrame DEF Precheck, AddOptionsResolve, Wire, GiveUp, Finish
<1>2. ASSUME NEW a \in Action, PopulateBegin(a) PROVE Bounded'
  <2>1. /\ captured' = captured /\ sent' = sent /\ tally' = NoTally
        /\ pc' = "put" => ~ExceedsCap(captured)
    BY <1>2 DEF PopulateBegin, GiveUp, Finish
  <2>2. Threshold > 0 => tally'.server <= Threshold
    BY <2>1, BoundAssumption DEF NoTally
  <2>3. ExceedsCap(captured)' <=> ExceedsCap(captured)
    BY <2>1 DEF ExceedsCap
  <2>4. QED
    BY <2>1, <2>2, <2>3 DEF Bounded, PopulateBound
<1>3. ASSUME ReadContexts \/ PopulateEnd \/ ApplyEnd PROVE Bounded'
  BY <1>3, BoundedFrame DEF ReadContexts, PopulateEnd, ApplyEnd, GiveUp, Finish
<1>4. ASSUME NEW answer \in Answer, NEW landed \in BOOLEAN,
             \/ CreateObject(answer, landed) \/ CreateField(answer, landed)
             \/ CreateContext(answer, landed) \/ CreateOptions(answer, landed)
             \/ AddOptions(answer, landed)
      PROVE Bounded'
  <2>1. captured' = captured /\ tally' = tally /\ pc' # "put"
    BY <1>4 DEF CreateObject, CreateField, CreateContext, CreateOptions, AddOptions, Finish,
         Fail, EndRun
  <2>2. \E call \in {"create", "context", "options"} : Post(Current, call, answer, landed)
    BY <1>4 DEF CreateObject, CreateField, CreateContext, CreateOptions, AddOptions
  <2>3. QED
    BY <2>1, <2>2, BoundedPost
<1>5. ASSUME NEW answer \in Answer, NEW landed \in BOOLEAN, NEW i \in Issue,
             PutValue(i, answer, landed)
      PROVE Bounded'
  <2>1. ~ExceedsCap(captured) /\ captured' = captured
    BY <1>5 DEF PutValue, Bounded
  <2>2. Cardinality(captured) \in Nat
    BY CaptureAssumption, FS_Subset, FS_CardinalityType DEF Typed, TypeOK
  <2>3. Cardinality(captured)' <= Cap /\ ~ExceedsCap(captured)'
    BY <2>1, <2>2, BoundAssumption DEF ExceedsCap
  <2>4. tally \in [bad : Nat, skipped : Nat, server : Nat]
    BY DEF Typed, TypeOK
  <2>5. Threshold > 0 => tally'.server <= Threshold
    <3>1. SUFFICES ASSUME Threshold > 0 PROVE tally'.server <= Threshold
      OBVIOUS
    <3>2. tally.server < Threshold
      BY <1>5, <2>4, <3>1, BoundAssumption DEF PutValue, Tripped
    <3>3. tally'.server = tally.server \/ tally'.server = tally.server + 1
      BY <1>5, <2>4, <3>1 DEF PutValue
    <3>4. QED
      BY <2>4, <3>2, <3>3, BoundAssumption
  <2>6. QED
    BY <2>3, <2>5 DEF Bounded, PopulateBound
<1>6. ASSUME NEW i \in Issue, SkipValue(i) PROVE Bounded'
  <2>1. tally \in [bad : Nat, skipped : Nat, server : Nat]
    BY DEF Typed, TypeOK
  <2>2. UNCHANGED <<captured, sent, pc>> /\ tally'.server = tally.server
    BY <1>6, <2>1 DEF SkipValue
  <2>3. QED
    BY <2>2 DEF Bounded, PopulateBound, ExceedsCap
<1>7. QED
  BY <1>1, <1>2, <1>3, <1>4, <1>5, <1>6 DEF Apply

LEMMA BoundedStep ==
  ASSUME Typed, Bounded, Next
  PROVE  Bounded'
<1> USE DEF capture, site, runs, plan, work, closure, hist
<1>1. ASSUME CaptureSource PROVE Bounded'
  <2>1. sent' = {} /\ tally' = tally /\ pc' # "put"
    BY <1>1 DEF CaptureSource, Typed, Progress
  <2>2. QED
    BY <2>1 DEF Bounded, PopulateBound
<1>2. ASSUME NEW p \in Picks, Start(p) PROVE Bounded'
  <2>1. sent' = {} /\ tally' = NoTally /\ pc' # "put"
    BY <1>2 DEF Start
  <2>2. QED
    BY <2>1, BoundAssumption DEF Bounded, PopulateBound, NoTally
<1>3. ASSUME \/ Verify \/ LoadSourceId \/ ReadFindings
             \/ (\E f \in Finding : Recheck(f)) \/ RecheckEnd \/ Persist \/ Conclude
             \/ Cancel \/ Crash \/ AdminActs \/ DeleteSource
      PROVE  captured' = captured /\ sent' = sent /\ tally' = tally /\ (pc' = "put" => pc = "put")
  BY <1>3 DEF Verify, LoadSourceId, ReadFindings, Recheck, RecheckEnd, Persist, Conclude, Cancel,
       Crash, AdminActs, DeleteSource, Fail, EndRun
<1>4. QED
  BY <1>1, <1>2, <1>3, BoundedFrame, BoundedApply DEF Next

\* No value is written from a file over the cap, and no populate action runs into more
\* server failures than the threshold of the breaker.
THEOREM PopulateBoundHolds == Spec => []PopulateBound
<1>1. Init => Bounded
  BY BoundAssumption DEF Init, Bounded, PopulateBound, NoTally
<1>2. Typed /\ Bounded /\ [Next]_vars => Bounded'
  BY BoundedStep, BoundedFrame DEF vars, capture, work, hist
<1>3. Bounded => PopulateBound
  BY DEF Bounded
<1>4. QED
  BY <1>1, <1>2, <1>3, TypedInit, TypedStep, PTL DEF Spec

-----------------------------------------------------------------------------
(* Every write request is on record.                                       *)

LEMMA OnRecordGrows ==
  ASSUME NEW s, NEW L, NEW M, L \subseteq M, OnRecord(s, L)
  PROVE  OnRecord(s, M)
  BY DEF OnRecord

\* Outside the loop of populate the log has all requests.
LEMMA RecordedFrame ==
  ASSUME Recorded, sent' = sent, log \subseteq log', rows' = rows, run' = run,
         pc \notin {"idle", "conclude", "put"}, pc' # "conclude", ~Done'
  PROVE  Recorded'
<1>1. \A s \in sent : OnRecord(s, log)
  BY DEF Recorded, Pending
<1>2. \A s \in sent' : OnRecord(s, log')
  BY <1>1, OnRecordGrows
<1>3. QED
  BY <1>2 DEF Recorded

\* A request of the create tier goes into the log with its answer.
LEMMA RecordedPost ==
  ASSUME Recorded, rows' = rows, run' = run,
         pc \notin {"idle", "conclude", "put"}, pc' # "conclude", ~Done',
         NEW a, NEW answer \in Answer, NEW call \in {"create", "context", "options"}, NEW landed,
         Post(a, call, answer, landed), log' = log \cup {Note(a, call, Logged(answer), "")}
  PROVE  Recorded'
<1>1. \A s \in sent : OnRecord(s, log)
  BY DEF Recorded, Pending
<1>2. \A s \in sent : OnRecord(s, log')
  <2>1. log \subseteq log'
    BY Zenon
  <2>2. QED
    BY <1>1, <2>1, OnRecordGrows
<1> DEFINE r == [act |-> a, call |-> call, answer |-> answer]
<1>3. OnRecord(r, log')
  <2>1. Note(a, call, Logged(answer), "") \in log'
    OBVIOUS
  <2>2. r.act = a /\ r.call = call /\ r.answer = answer /\ call # "populate"
    OBVIOUS
  <2> HIDE DEF r
  <2> DEFINE n == Note(a, call, Logged(answer), "")
  <2>3. n.act = a /\ n.call = call /\ n.ok = Logged(answer)
    BY DEF Note
  <2>4. Logged(answer) => answer \in {"ok", "lost"}
    BY DEF Logged
  <2> HIDE DEF n
  <2>5. n \in log'
    BY <2>1 DEF n
  <2>6. QED
    BY <2>2, <2>3, <2>4, <2>5, Zenon DEF OnRecord
<1>4. sent' = sent \cup {r}
  BY DEF Post
<1> HIDE DEF r
<1>5. \A s \in sent' : OnRecord(s, log')
  BY <1>2, <1>3, <1>4
<1>6. QED
  BY <1>5 DEF Recorded

\* The writes of populate are pending until its end.
LEMMA RecordedPut ==
  ASSUME Typed, Recorded, NEW i,
         SkipValue(i) \/ \E answer \in Answer, landed \in BOOLEAN : PutValue(i, answer, landed)
  PROVE  Recorded'
<1> USE DEF capture, site, runs, plan, work, closure, hist
<1>1. /\ pc = "put" /\ pc' = "put" /\ log' = log /\ Current' = Current
      /\ UNCHANGED runs
  BY CurrentStays DEF PutValue, SkipValue
<1>2. tally \in [bad : Nat, skipped : Nat, server : Nat] /\ ~Done'
  BY <1>1 DEF Typed, TypeOK, Progress, Done
<1>3. \A s \in sent : OnRecord(s, log) \/ Pending(s)
  BY <1>1 DEF Recorded
<1>4. CleanTally(tally)' => CleanTally(tally)
  <2>1. \/ tally' = tally
        \/ tally'.bad = tally.bad + 1
        \/ tally'.skipped = tally.skipped + 1
    BY <1>2 DEF PutValue, SkipValue
  <2>2. tally.bad \in Nat /\ tally.skipped \in Nat
    BY <1>2
  <2>3. QED
    BY <2>1, <2>2 DEF CleanTally
<1>5. \A s \in sent : OnRecord(s, log') \/ Pending(s)'
  BY <1>1, <1>3, <1>4 DEF Pending
<1>6. \A s \in sent' \ sent : Pending(s)'
  <2>1. CASE SkipValue(i)
    BY <2>1 DEF SkipValue
  <2>2. ASSUME NEW answer, NEW landed, PutValue(i, answer, landed)
        PROVE  \A s \in sent' \ sent : Pending(s)'
    <3>1. \A s \in sent' \ sent : s.act = Current /\ s.call = "populate" /\ s.answer = answer
      BY <2>2 DEF PutValue, Post
    <3>2. CleanTally(tally)' => answer = "ok"
      BY <1>2, <2>2 DEF PutValue, CleanTally
    <3>3. QED
      BY <1>1, <3>1, <3>2 DEF Pending
  <2>3. QED
    BY <2>1, <2>2
<1>7. QED
  BY <1>1, <1>2, <1>5, <1>6 DEF Recorded

LEMMA RecordedPutEnd ==
  ASSUME Typed, Recorded, PopulateEnd
  PROVE  Recorded'
<1> USE DEF capture, site, runs, plan, work, closure, hist
<1> DEFINE n == Note(Current, "populate", CleanTally(tally), "")
<1>1. /\ pc = "put" /\ pc' = "act" /\ log' = log \cup {n} /\ sent' = sent /\ UNCHANGED runs
  BY DEF PopulateEnd, Finish
<1>2. ~Done'
  BY <1>1 DEF Typed, Progress, Done
<1>3. n.act = Current /\ n.call = "populate" /\ n.ok = CleanTally(tally)
  BY DEF Note
<1> HIDE DEF n
<1>4. \A s \in sent : OnRecord(s, log) \/ Pending(s)
  BY <1>1 DEF Recorded
<1>5. log \subseteq log' /\ n \in log'
  BY <1>1, Zenon
<1>6. ASSUME NEW s \in sent, Pending(s) PROVE OnRecord(s, log')
  BY <1>3, <1>5, <1>6, Zenon DEF Pending, OnRecord
<1>7. \A s \in sent' : OnRecord(s, log')
  BY <1>1, <1>4, <1>5, <1>6, OnRecordGrows
<1>8. QED
  BY <1>1, <1>2, <1>7 DEF Recorded

LEMMA RecordedApply ==
  ASSUME Typed, Recorded, Apply
  PROVE  Recorded'
<1> USE DEF capture, site, runs, plan, work, closure, hist
<1>1. ASSUME pc \in {"act"} \cup Acting, run' = run, status' = status PROVE ~Done'
  BY <1>1 DEF Typed, Progress, Done, Acting
<1>2. ASSUME NEW a \in Action,
             Precheck(a) \/ AddOptionsResolve(a) \/ Wire(a) \/ PopulateBegin(a)
      PROVE  Recorded'
  <2>1. /\ sent' = sent /\ log \subseteq log' /\ UNCHANGED runs /\ pc = "act" /\ pc' # "conclude"
    BY <1>2 DEF Precheck, AddOptionsResolve, Wire, PopulateBegin, Due, GiveUp, Finish
  <2>2. QED
    BY <1>1, <2>1, RecordedFrame
<1>3. ASSUME ReadContexts \/ ApplyEnd PROVE Recorded'
  <2>1. /\ sent' = sent /\ log \subseteq log' /\ UNCHANGED runs /\ pc \in {"act", "delta"}
        /\ pc' # "conclude"
    BY <1>3 DEF ReadContexts, ApplyEnd, GiveUp, Finish
  <2>2. QED
    BY <1>1, <2>1, RecordedFrame DEF Acting
<1>4. ASSUME PopulateEnd PROVE Recorded'
  BY <1>4, RecordedPutEnd
<1>5. ASSUME NEW answer \in Answer, NEW landed \in BOOLEAN,
             \/ CreateObject(answer, landed) \/ CreateField(answer, landed)
             \/ CreateContext(answer, landed) \/ CreateOptions(answer, landed)
             \/ AddOptions(answer, landed)
      PROVE Recorded'
  <2>1. /\ pc \in {"post", "context", "options", "extend"} /\ pc' # "conclude"
        /\ run' = run /\ rows' = rows
        /\ status' = status \/ Fail
    BY <1>5 DEF CreateObject, CreateField, CreateContext, CreateOptions, AddOptions, Finish,
         Fail, EndRun
  <2>2. ~Done'
    BY <1>1, <2>1, RunEnds DEF Fail, Acting
  <2>3. PICK call \in {"create", "context", "options"} :
          /\ Post(Current, call, answer, landed)
          /\ log' = log \cup {Note(Current, call, Logged(answer), "")}
    BY <1>5 DEF CreateObject, CreateField, CreateContext, CreateOptions, AddOptions, NoteAny
  <2>4. QED
    BY <2>1, <2>2, <2>3, RecordedPost
<1>6. ASSUME NEW answer \in Answer, NEW landed \in BOOLEAN, NEW i \in Issue,
             PutValue(i, answer, landed)
      PROVE Recorded'
  BY <1>6, RecordedPut
<1>7. ASSUME NEW i \in Issue, SkipValue(i) PROVE Recorded'
  BY <1>7, RecordedPut
<1>8. QED
  BY <1>2, <1>3, <1>4, <1>5, <1>6, <1>7 DEF Apply

LEMMA RecordedStep ==
  ASSUME Typed, Recorded, Next
  PROVE  Recorded'
<1> USE DEF capture, site, runs, plan, work, closure, hist
<1>1. ASSUME CaptureSource \/ (\E p \in Picks : Start(p)) PROVE Recorded'
  <2>1. sent' = {}
    BY <1>1 DEF CaptureSource, Start, Typed, Progress
  <2>2. QED
    BY <2>1 DEF Recorded
<1>2. ASSUME Verify \/ LoadSourceId \/ ReadFindings PROVE Recorded'
  <2>1. sent' = {}
    BY <1>2 DEF Verify, LoadSourceId, ReadFindings, Typed, Progress
  <2>2. QED
    BY <2>1 DEF Recorded
<1>3. ASSUME Apply PROVE Recorded'
  BY <1>3, RecordedApply
<1>4. ASSUME (\E f \in Finding : Recheck(f)) \/ RecheckEnd PROVE Recorded'
  <2>1. /\ sent' = sent /\ log' = log /\ UNCHANGED runs /\ pc = "reaudit" /\ pc' # "conclude"
    BY <1>4 DEF Recheck, RecheckEnd
  <2>2. ~Done'
    BY <2>1 DEF Typed, Progress, Done
  <2>3. QED
    BY <2>1, <2>2, RecordedFrame
<1>5. ASSUME Persist PROVE Recorded'
  <2>1. run \in Run
    BY <1>5 DEF Persist, Typed, TypeOK, Progress, Run
  <2>2. rows'[run'] = log /\ pc = "persist" /\ sent' = sent /\ pc' = "conclude"
    BY <1>5, <2>1 DEF Persist, Typed, TypeOK
  <2>3. \A s \in sent : OnRecord(s, log)
    BY <2>2 DEF Recorded, Pending
  <2>4. QED
    BY <2>2, <2>3 DEF Recorded
<1>6. ASSUME Conclude PROVE Recorded'
  <2>1. /\ pc = "conclude" /\ pc' = "idle" /\ UNCHANGED <<sent, rows, run>>
    BY <1>6 DEF Conclude
  <2>2. QED
    BY <2>1 DEF Recorded
<1>7. ASSUME Cancel \/ Crash PROVE Recorded'
  <2>1. ~Done' /\ pc' = "idle"
    BY <1>7, RunEnds DEF Cancel, Crash, Fail
  <2>2. QED
    BY <2>1 DEF Recorded
<1>8. ASSUME AdminActs \/ DeleteSource PROVE Recorded'
  <2>1. UNCHANGED <<sent, log, rows, run, status, pc, tally, todo>>
    BY <1>8 DEF AdminActs, DeleteSource
  <2>2. Current' = Current
    BY <2>1, CurrentStays
  <2>3. QED
    BY <2>1, <2>2 DEF Recorded, Pending, CleanTally, Done
<1>9. QED
  BY <1>1, <1>2, <1>3, <1>4, <1>5, <1>6, <1>7, <1>8 DEF Next

\* Every write request of a run that is done has a row, and a row that says failed if it was
\* answered with a failure: the rows hide no write.
THEOREM DoneIsRecordedHolds == Spec => []DoneIsRecorded
<1>1. Init => Recorded
  BY DEF Init, Recorded
<1>2. Typed /\ Recorded /\ [Next]_vars => Recorded'
  <2>1. CASE UNCHANGED vars
    <3>1. Current' = Current
      BY <2>1, CurrentStays DEF vars, plan
    <3>2. QED
      BY <2>1, <3>1 DEF vars, runs, plan, work, hist, Recorded, Pending, CleanTally, Done
  <2>2. QED
    BY <2>1, RecordedStep
<1>3. Recorded => DoneIsRecorded
  BY DEF Recorded, DoneIsRecorded, OnRecord, Done
<1>4. QED
  BY <1>1, <1>2, <1>3, TypedInit, TypedStep, PTL DEF Spec

-----------------------------------------------------------------------------
(* The order of the plan.                                                  *)

\* The fields that were to be created and are not still to do are there, or taken to be.
Created == \A a \in BuildPlan(found) \ todo : FixId(a) = "field.create" => Sees(Obj(a.f))

\* Of the fixes of one finding the field is created first.
LEMMA CreateFieldComesFirst ==
  ASSUME Typed, NEW a, First(a), Tier(a) \in {"wire", "populate"},
         NEW c \in BuildPlan(found), FixId(c) = "field.create", c.f = a.f
  PROVE  c \notin todo
<1>1. a \in Action /\ c \in Action
  BY PlanIsActions DEF First, Typed
<1>2. c.x = 1 /\ Tier(c) = "create"
  BY <1>1, FixTable, ActionParts DEF FixId, Tier
<1>3. Rank(Tier(c)) = 0 /\ Rank(Tier(a)) > 0 /\ c # a
  BY <1>2 DEF Rank
<1>4. Earlier(c, a)
  <2>1. Rank(Tier(c)) < Rank(Tier(a)) /\ Name(c.f) = Name(a.f)
    BY <1>1, <1>3, ActionParts
  <2>2. QED
    BY <1>1, <2>1, EarlierMeans
<1>5. ~Earlier(a, c)
  BY <1>1, <1>4, EarlierOneWay
<1>6. QED
  BY <1>3, <1>5 DEF First

\* A field that is created is not among those whose options are missing.
LEMMA CreatesMissing ==
  ASSUME Typed, NEW c \in BuildPlan(found), FixId(c) = "field.create"
  PROVE  Kind(c.f) = "missing_in_tgt" /\ Area(c.f) = "custom_fields"
<1>1. c \in Action /\ Fixes[c.x].area = Area(c.f) /\ Fixes[c.x].kind = Kind(c.f)
  BY PlanIsActions DEF BuildPlan, Applicable, Typed
<1>2. c.x = 1
  BY <1>1, FixTable, ActionParts DEF FixId
<1>3. QED
  BY <1>1, <1>2, FixTable

\* In a run without mishaps a due action finds its field, or nothing was to create it.
LEMMA UnresolvedIsPlanned ==
  ASSUME Typed, Created, NEW a, First(a), copies[Obj(a.f)] = 0, Obj(a.f) \notin namesakes,
         FixId(a) = "field.options" \/ Tier(a) \in {"wire", "populate"},
         NEW c \in BuildPlan(found), c.f = a.f
  PROVE  FixId(c) # "field.create"
<1>1. SUFFICES ASSUME FixId(c) = "field.create" PROVE FALSE
  OBVIOUS
<1>2. Kind(a.f) = "missing_in_tgt"
  BY <1>1, CreatesMissing
<1>3. a \in BuildPlan(found) /\ a \in Action
  BY PlanIsActions DEF First, Typed, Progress
<1>4. FixId(a) # "field.options"
  <2>1. Fixes[a.x].kind = "missing_in_tgt"
    BY <1>2, <1>3 DEF BuildPlan, Applicable
  <2>2. QED
    BY <1>3, <2>1, FixTable, ActionParts DEF FixId
<1>5. c \notin todo
  BY <1>1, <1>4, CreateFieldComesFirst
<1>6. QED
  BY <1>1, <1>5 DEF Created, Sees

\* OrderHolds for one more line of the log, or none.
LEMMA OrderFrame ==
  ASSUME OrderHolds, UNCHANGED <<payload, namesakes, picked, found>>,
         spoilt' = {} => spoilt = {},
         spoilt' = {} => \A n \in log' \ log : n.why = "not found" /\ Obj(n.act.f) \notin namesakes =>
           \A c \in BuildPlan(found) : c.f = n.act.f => FixId(c) # "field.create"
  PROVE  OrderHolds'
<1>1. BuildPlan(found)' = BuildPlan(found) /\ \A c : FixId(c)' = FixId(c)
  BY PlanStays DEF FixId
<1>2. \A f : Obj(f)' = Obj(f)
  BY DEF Obj
<1>3. QED
  BY <1>1, <1>2 DEF OrderHolds

LEMMA OrderedFrame ==
  ASSUME Ordered, UNCHANGED <<payload, namesakes, picked, found, todo, log, copies>>,
         spoilt' = {} => spoilt = {}, pc' \notin {"context", "options"}
  PROVE  Ordered'
<1>1. BuildPlan(found)' = BuildPlan(found)
  BY PlanStays
<1>2. OrderHolds'
  BY OrderFrame DEF Ordered
<1>3. QED
  BY <1>1, <1>2 DEF Ordered, Sees

\* An action gives up: at most its own line is new in the log.
LEMMA OrderedGivesUp ==
  ASSUME Typed, Ordered, NEW a, First(a), UNCHANGED <<payload, namesakes, picked, found, copies>>,
         FixId(a) # "field.create", pc' = "act",
         NEW call, NEW why, GiveUp(a, call, why),
         FixId(a) = "field.options" \/ Tier(a) \in {"wire", "populate"},
         spoilt' = {} => spoilt = {},
         spoilt' = {} /\ why = "not found" => copies[Obj(a.f)] = 0
  PROVE  Ordered'
<1>1. BuildPlan(found)' = BuildPlan(found)
  BY PlanStays
<1>2. todo' = todo \ {a} /\ log' = log \cup {Note(a, call, FALSE, why)}
  BY DEF GiveUp, Finish
<1>3. ASSUME spoilt' = {}, NEW n \in log' \ log, n.why = "not found",
             Obj(n.act.f) \notin namesakes, NEW c \in BuildPlan(found), c.f = n.act.f
      PROVE  FixId(c) # "field.create"
  <2>1. n = Note(a, call, FALSE, why)
    BY <1>2, <1>3
  <2>2. n.why = why /\ n.act = a
    BY <2>1 DEF Note
  <2>3. Created
    BY <1>3 DEF Ordered, Created
  <2>4. QED
    BY <1>3, <2>2, <2>3, UnresolvedIsPlanned
<1>4. OrderHolds'
  BY <1>3, OrderFrame DEF Ordered
<1>5. QED
  BY <1>1, <1>2, <1>4 DEF Ordered, FixId, Sees

\* A step of an action that logs something else.
LEMMA OrderedGoesOn ==
  ASSUME Typed, Ordered, Current \in todo, UNCHANGED <<payload, namesakes, picked, found>>,
         NEW n, log' = log \cup {n}, n.why # "not found",
         \A o \in Object : copies[o] > 0 => copies'[o] > 0,
         todo' = todo \/ todo' = todo \ {Current},
         spoilt' = {} => spoilt = {},
         pc' \in {"context", "options"} => todo' = todo /\ FixId(Current) = "field.create",
         spoilt' = {} /\ FixId(Current) = "field.create"
           /\ (todo' = todo \ {Current} \/ pc' \in {"context", "options"})
           => copies'[Obj(Current.f)] > 0 \/ Obj(Current.f) \in namesakes,
         spoilt' = {} /\ pc' \in {"context", "options"} => copies'[Obj(Current.f)] > 0
  PROVE  Ordered'
<1>1. BuildPlan(found)' = BuildPlan(found) /\ (todo' = todo => Current' = Current)
  BY PlanStays, CurrentStays
<1>2. OrderHolds'
  BY OrderFrame DEF Ordered
<1>3. ASSUME spoilt' = {}, NEW a \in BuildPlan(found) \ todo', FixId(a) = "field.create"
      PROVE  Sees(Obj(a.f))'
  <2>1. CASE a = Current
    BY <1>3, <2>1 DEF Sees
  <2>2. CASE a # Current
    <3>1. a \notin todo /\ a \in Action
      BY <1>3, <2>2, PlanIsActions DEF Typed
    <3>2. Sees(Obj(a.f)) /\ Obj(a.f) \in Object
      BY <1>3, <3>1, ActionParts DEF Ordered
    <3>3. QED
      BY <3>2 DEF Sees
  <2>3. QED
    BY <2>1, <2>2
<1>4. spoilt' = {} /\ pc' \in {"context", "options"} => copies'[Obj(Current'.f)] > 0
  BY <1>1
<1>5. QED
  BY <1>1, <1>2, <1>3, <1>4 DEF Ordered, FixId

\* A request that went wrong spoils the run; one that landed left what it was to create.
LEMMA PostSpoils ==
  ASSUME NEW a, NEW call, NEW answer, NEW landed, Post(a, call, answer, landed)
  PROVE  /\ spoilt' = {} => spoilt = {} /\ answer = "ok" /\ landed
         /\ spoilt \subseteq spoilt'
         /\ answer # "ok" => answer \in spoilt'
  BY DEF Post, Calm, Mishap

\* A request that creates an object leaves the others.
LEMMA AddGrows ==
  ASSUME Typed, NEW o \in Object, NEW landed \in BOOLEAN,
         IF landed THEN Add(o) ELSE UNCHANGED <<copies, made>>
  PROVE  /\ copies' \in [Object -> Nat]
         /\ \A q \in Object : copies[q] > 0 => copies'[q] > 0
         /\ landed => copies'[o] > 0
<1>1. copies \in [Object -> Nat]
  BY DEF Typed, TypeOK
<1>2. CASE landed
  <2>1. copies' = [copies EXCEPT ![o] = @ + 1]
    BY <1>2 DEF Add
  <2>2. QED
    BY <1>1, <2>1
<1>3. CASE ~landed
  BY <1>1, <1>3
<1>4. QED
  BY <1>2, <1>3

LEMMA OrderedCreates ==
  ASSUME Typed, Ordered, NEW answer \in Answer, NEW landed \in BOOLEAN,
         \/ CreateObject(answer, landed) \/ CreateField(answer, landed)
         \/ CreateContext(answer, landed) \/ CreateOptions(answer, landed)
         \/ AddOptions(answer, landed)
  PROVE  Ordered'
<1> USE DEF capture, site, runs, plan, work, closure, hist
<1>1. pc \in Acting /\ Current \in todo /\ Current \in Action /\ Current \in BuildPlan(found)
      /\ Obj(Current.f) \in Object
  BY CurrentIsAction, ActionParts
  DEF CreateObject, CreateField, CreateContext, CreateOptions, AddOptions, Acting
<1>2. PICK call \in Call :
        /\ Post(Current, call, answer, landed)
        /\ log' = log \cup {Note(Current, call, Logged(answer), "")}
  BY DEF CreateObject, CreateField, CreateContext, CreateOptions, AddOptions, NoteAny, Call
<1>3. /\ spoilt' = {} => spoilt = {} /\ answer = "ok" /\ landed
  BY <1>2, PostSpoils
<1>4. Note(Current, call, Logged(answer), "").why # "not found"
  BY DEF Note
<1>5. \A o \in Object : copies[o] > 0 => copies'[o] > 0
  <2>1. CASE copies' = copies
    BY <2>1
  <2>2. CASE CreateObject(answer, landed) \/ CreateField(answer, landed)
    BY <1>1, <2>2, AddGrows DEF CreateObject, CreateField
  <2>3. QED
    BY <2>1, <2>2 DEF CreateContext, CreateOptions, AddOptions
<1>6. /\ todo' = todo \/ todo' = todo \ {Current}
      /\ UNCHANGED <<payload, namesakes, picked, found>>
  BY DEF CreateObject, CreateField, CreateContext, CreateOptions, AddOptions, Finish
<1>7. pc' \in {"context", "options"} => todo' = todo /\ FixId(Current) = "field.create"
  <2>1. SUFFICES ASSUME pc' \in {"context", "options"}
                 PROVE  todo' = todo /\ FixId(Current) = "field.create"
    OBVIOUS
  <2>2. CreateField(answer, landed) \/ CreateContext(answer, landed)
    BY <2>1 DEF CreateObject, CreateOptions, AddOptions, Finish
  <2>3. todo' = todo
    BY <2>1, <2>2 DEF CreateField, CreateContext, Finish, Fail, EndRun
  <2>4. Current' = Current /\ Apply
    BY <2>2, <2>3, CurrentStays DEF Apply
  <2>5. Progress'
    BY <2>4, ApplyProgress
  <2>6. FixId(Current)' = "field.create"
    BY <2>1, <2>5 DEF Progress
  <2>7. QED
    BY <2>3, <2>4, <2>6 DEF FixId
<1>8. ASSUME spoilt' = {}, FixId(Current) = "field.create"
      PROVE  copies'[Obj(Current.f)] > 0
  <2>1. Area(Current.f) = "custom_fields"
    BY <1>1, <1>8, CreatesMissing
  <2>2. CASE CreateField(answer, landed)
    BY <1>1, <1>3, <1>8, <2>2, AddGrows DEF CreateField
  <2>3. CASE CreateContext(answer, landed) \/ CreateOptions(answer, landed)
    BY <1>3, <1>8, <2>3 DEF CreateContext, CreateOptions, Ordered
  <2>4. CASE CreateObject(answer, landed)
    BY <2>1, <2>4 DEF CreateObject
  <2>5. CASE AddOptions(answer, landed)
    BY <1>8, <2>5 DEF AddOptions, Typed, Progress
  <2>6. QED
    BY <2>2, <2>3, <2>4, <2>5
<1> DEFINE n == Note(Current, call, Logged(answer), "")
<1>9. log' = log \cup {n} /\ n.why # "not found"
  BY <1>2, <1>4
<1> HIDE DEF n
<1>10. QED
  BY <1>1, <1>3, <1>5, <1>6, <1>7, <1>8, <1>9, OrderedGoesOn

LEMMA OrderedPrecheck ==
  ASSUME Typed, Ordered, NEW a \in Action, Precheck(a)
  PROVE  Ordered'
<1> USE DEF capture, site, runs, plan, work, closure, hist
<1>2. CASE pc' = "post" /\ UNCHANGED <<todo, log>>
  BY <1>2, OrderedFrame DEF Precheck, ReadWorks, ReadFails, Calm, Mishap
<1>3. CASE Sees(Obj(a.f)) /\ log' = log \cup {Note(a, "precheck", TRUE, "")} /\ Finish(a) /\ Calm
  <2> DEFINE n == Note(a, "precheck", TRUE, "")
  <2>1. n.why # "not found"
    BY DEF Note
  <2>2. log' = log \cup {n} /\ copies' = copies /\ Sees(Obj(a.f)) /\ spoilt' = spoilt
        /\ UNCHANGED <<payload, namesakes, picked, found>> /\ pc' = "act" /\ todo' = todo \ {a}
    BY <1>3 DEF Sees, Precheck, Finish, Calm
  <2>3. Current = a /\ a \in todo
    BY DueIsCurrent DEF Precheck
  <2> HIDE DEF n
  <2>4. copies'[Obj(a.f)] > 0 \/ Obj(a.f) \in namesakes
    BY <2>2 DEF Sees
  <2>5. QED
    BY <2>1, <2>2, <2>3, <2>4, OrderedGoesOn
<1>4. QED
  BY <1>2, <1>3 DEF Precheck, ReadWorks

LEMMA OrderedApply ==
  ASSUME Typed, Ordered, Apply
  PROVE  Ordered'
<1> USE DEF capture, site, runs, plan, work, closure, hist
<1>1. ASSUME NEW a \in Action, AddOptionsResolve(a) PROVE Ordered'
  <2>1. First(a) /\ FixId(a) = "field.options" /\ FixId(a) # "field.create"
    BY <1>1, DueIsCurrent DEF AddOptionsResolve
  <2>2. CASE pc' = "delta" /\ UNCHANGED <<todo, log>> /\ Resolves(a)
    BY <1>1, <2>2, OrderedFrame DEF AddOptionsResolve, Resolves, ReadWorks, Calm
  <2>3. CASE GiveUp(a, "options", "not found") /\ Unresolved(a)
    <3>1. UNCHANGED <<payload, namesakes, picked, found, copies>> /\ pc' = "act"
      BY <1>1, <2>3 DEF AddOptionsResolve, GiveUp, Finish
    <3>2. spoilt' = {} => spoilt = {} /\ copies[Obj(a.f)] = 0
      BY <2>3 DEF Unresolved, ReadWorks, ReadFails, Calm, Mishap
    <3>3. QED
      BY <2>1, <2>3, <3>1, <3>2, OrderedGivesUp
  <2>4. QED
    BY <1>1, <2>2, <2>3 DEF AddOptionsResolve
<1>2. ASSUME NEW a \in Action, Wire(a) PROVE Ordered'
  <2>1. First(a) /\ a \in Action /\ Tier(a) = "wire" /\ FixId(a) # "field.create"
    BY <1>2, DueIsCurrent, FixTable, ActionParts DEF Wire, Tier, FixId
  <2>2. PICK why \in {"", "not found"} : GiveUp(a, "wire", why) /\ (why = "not found" => Unresolved(a))
    BY <1>2 DEF Wire
  <2>3. UNCHANGED <<payload, namesakes, picked, found, copies>> /\ pc' = "act"
    BY <1>2, <2>2 DEF Wire, GiveUp, Finish
  <2>4. spoilt' = {} => spoilt = {}
    BY <1>2 DEF Wire, Resolves, Unresolved, ReadWorks, ReadFails, Calm, Mishap
  <2>5. spoilt' = {} /\ why = "not found" => copies[Obj(a.f)] = 0
    BY <2>2 DEF Unresolved, ReadWorks, ReadFails, Calm, Mishap
  <2>6. QED
    BY <2>1, <2>2, <2>3, <2>4, <2>5, OrderedGivesUp
<1>3. ASSUME NEW a \in Action, PopulateBegin(a) PROVE Ordered'
  <2>1. First(a) /\ a \in Action /\ Tier(a) = "populate" /\ FixId(a) # "field.create"
    BY <1>3, DueIsCurrent, FixTable, ActionParts DEF PopulateBegin, Tier, FixId
  <2>2. CASE pc' = "put" /\ UNCHANGED <<todo, log>> /\ Resolves(a)
    BY <1>3, <2>2, OrderedFrame DEF PopulateBegin, Resolves, ReadWorks, Calm
  <2>3. ASSUME NEW why \in {"", "not found"}, GiveUp(a, "populate", why),
               Calm \/ Unresolved(a), why = "not found" => Unresolved(a)
        PROVE  Ordered'
    <3>1. UNCHANGED <<payload, namesakes, picked, found, copies>> /\ pc' = "act"
      BY <1>3, <2>3 DEF PopulateBegin, GiveUp, Finish
    <3>2. spoilt' = {} => spoilt = {}
      BY <2>3 DEF Unresolved, ReadWorks, ReadFails, Calm, Mishap
    <3>3. spoilt' = {} /\ why = "not found" => copies[Obj(a.f)] = 0
      BY <2>3 DEF Unresolved, ReadWorks, ReadFails, Calm, Mishap
    <3>4. QED
      BY <2>1, <2>3, <3>1, <3>2, <3>3, OrderedGivesUp
  <2>4. QED
    BY <1>3, <2>2, <2>3 DEF PopulateBegin
<1>4. ASSUME ReadContexts PROVE Ordered'
  <2>1. First(Current) /\ FixId(Current) = "field.options" /\ FixId(Current) # "field.create"
    BY <1>4 DEF ReadContexts, Typed, Progress, Acting
  <2>2. spoilt' = {} => spoilt = {}
    BY <1>4 DEF ReadContexts, ReadWorks, ReadFails, Calm, Mishap
  <2>3. CASE pc' = "extend" /\ UNCHANGED <<todo, log>>
    BY <1>4, <2>2, <2>3, OrderedFrame DEF ReadContexts
  <2>4. CASE GiveUp(Current, "options", "")
    <3>1. UNCHANGED <<payload, namesakes, picked, found, copies>> /\ pc' = "act"
      BY <1>4, <2>4 DEF ReadContexts, GiveUp, Finish
    <3>2. QED
      BY <2>1, <2>2, <2>4, <3>1, OrderedGivesUp
  <2>5. QED
    BY <1>4, <2>3, <2>4 DEF ReadContexts
<1>5. ASSUME PopulateEnd PROVE Ordered'
  <2>1. Current \in todo /\ Current \in Action /\ Tier(Current) = "populate"
    BY <1>5, CurrentIsAction DEF PopulateEnd, Acting, Typed, Progress
  <2>2. FixId(Current) # "field.create"
    BY <2>1, FixTable, ActionParts DEF Tier, FixId
  <2> DEFINE n == Note(Current, "populate", CleanTally(tally), "")
  <2>3. n.why # "not found"
    BY DEF Note
  <2>4. log' = log \cup {n} /\ UNCHANGED <<payload, namesakes, picked, found, copies, spoilt>>
        /\ todo' = todo \ {Current} /\ pc' = "act"
    BY <1>5 DEF PopulateEnd, Finish
  <2> HIDE DEF n
  <2>5. QED
    BY <2>1, <2>2, <2>3, <2>4, OrderedGoesOn
<1>6. ASSUME ApplyEnd PROVE Ordered'
  BY <1>6, OrderedFrame DEF ApplyEnd
<1>7. ASSUME NEW answer \in Answer, NEW landed \in BOOLEAN, NEW i \in Issue,
             PutValue(i, answer, landed)
      PROVE Ordered'
  BY <1>7, OrderedFrame, PostSpoils DEF PutValue
<1>8. ASSUME NEW i \in Issue, SkipValue(i) PROVE Ordered'
  BY <1>8, OrderedFrame DEF SkipValue
<1>9. QED
  BY <1>1, <1>2, <1>3, <1>4, <1>5, <1>6, <1>7, <1>8, OrderedPrecheck, OrderedCreates DEF Apply

LEMMA OrderedStep ==
  ASSUME Typed, Ordered, Next
  PROVE  Ordered'
<1> USE DEF capture, site, runs, plan, work, closure, hist
<1>1. ASSUME CaptureSource \/ ReadFindings \/ \E p \in Picks : Start(p) PROVE Ordered'
  <2>1. /\ BuildPlan(found)' \subseteq todo' /\ pc' \notin {"context", "options"}
    BY <1>1 DEF CaptureSource, ReadFindings, Start, Typed, Progress, BuildPlan, Applicable
  <2>2. OrderHolds'
    <3>1. CASE log' = {}
      BY <3>1 DEF OrderHolds
    <3>2. CASE found' = {}
      BY <3>2 DEF OrderHolds, BuildPlan
    <3>3. QED
      BY <1>1, <3>1, <3>2 DEF CaptureSource, ReadFindings, Start, Typed, Progress
  <2>3. QED
    BY <2>1, <2>2 DEF Ordered
<1>2. ASSUME \/ Verify \/ LoadSourceId
             \/ (\E f \in Finding : Recheck(f)) \/ RecheckEnd \/ Persist \/ Conclude
             \/ Cancel \/ Crash
      PROVE  /\ UNCHANGED <<payload, namesakes, picked, found, todo, log, copies>>
             /\ spoilt' = {} => spoilt = {}
             /\ pc' \notin {"context", "options"}
  BY <1>2 DEF Verify, LoadSourceId, Recheck, RecheckEnd, Persist, Conclude, Cancel, Crash,
       Fail, EndRun, ReadWorks, ReadFails, Calm, Mishap
<1>3. ASSUME AdminActs \/ DeleteSource PROVE spoilt' # {}
  BY <1>3 DEF AdminActs, DeleteSource, Mishap
<1>4. QED
  BY <1>1, <1>2, <1>3, OrderedFrame, OrderedApply DEF Next, Ordered, OrderHolds

\* The order of the plan respects what the actions need: in a run without mishaps none
\* misses a field that another action of the plan creates, unless a system field of the target
\* has the name of that field and it is therefore not created.
THEOREM OrderHoldsAlways == Spec => []OrderHolds
<1>1. Init => Ordered
  BY DEF Init, Ordered, OrderHolds, BuildPlan
<1>2. Typed /\ Ordered /\ [Next]_vars => Ordered'
  <2>1. CASE UNCHANGED vars
    <3>1. BuildPlan(found)' = BuildPlan(found) /\ Current' = Current
      BY <2>1, PlanStays, CurrentStays DEF vars, capture, plan
    <3>2. QED
      BY <2>1, <3>1 DEF vars, capture, site, plan, work, hist, Ordered, OrderHolds, Sees
  <2>2. QED
    BY <2>1, OrderedStep
<1>3. Ordered => OrderHolds
  BY DEF Ordered
<1>4. QED
  BY <1>1, <1>2, <1>3, TypedInit, TypedStep, PTL DEF Spec

-----------------------------------------------------------------------------
(* What a clean verdict means: who made what.                              *)

\* What no step of the plan changes.
LEMMA ApplyFrame ==
  ASSUME Typed, Apply
  PROVE  /\ pc \in {"act"} \cup Acting /\ pc' \in {"idle", "act", "reaudit"} \cup Acting
         /\ UNCHANGED <<payload, namesakes, captured, source, picked, found, closure>>
         /\ spoilt \subseteq spoilt' /\ ~Done'
<1> USE DEF capture, site, runs, plan, work, closure, hist
<1> DEFINE Frame == /\ pc \in {"act"} \cup Acting /\ pc' \in {"idle", "act", "reaudit"} \cup Acting
                    /\ UNCHANGED <<payload, namesakes, captured, source, picked, found, closure>>
                    /\ spoilt \subseteq spoilt' /\ (UNCHANGED runs \/ EndRun("failed"))
<1>1. ASSUME NEW a \in Action, Precheck(a) \/ AddOptionsResolve(a) \/ Wire(a) \/ PopulateBegin(a)
      PROVE  Frame
  BY <1>1 DEF Precheck, AddOptionsResolve, Wire, PopulateBegin, Due, GiveUp, Finish, Resolves,
       Unresolved, ReadWorks, ReadFails, Calm, Mishap, Acting
<1>2. ASSUME ReadContexts \/ PopulateEnd \/ ApplyEnd PROVE Frame
  BY <1>2 DEF ReadContexts, PopulateEnd, ApplyEnd, GiveUp, Finish, ReadWorks, ReadFails, Calm,
       Mishap, Acting
<1>3. ASSUME NEW answer \in Answer, NEW landed \in BOOLEAN,
             \/ CreateObject(answer, landed) \/ CreateField(answer, landed)
             \/ CreateContext(answer, landed) \/ CreateOptions(answer, landed)
             \/ AddOptions(answer, landed)
      PROVE  Frame
  <2>1. spoilt \subseteq spoilt'
    BY <1>3, PostSpoils DEF CreateObject, CreateField, CreateContext, CreateOptions, AddOptions
  <2>2. QED
    BY <1>3, <2>1 DEF CreateObject, CreateField, CreateContext, CreateOptions, AddOptions, Fail,
         EndRun, Finish, Acting
<1>4. ASSUME NEW answer \in Answer, NEW landed \in BOOLEAN, NEW i \in Issue,
             PutValue(i, answer, landed)
      PROVE  Frame
  BY <1>4, PostSpoils DEF PutValue, Acting
<1>5. ASSUME NEW i \in Issue, SkipValue(i) PROVE Frame
  BY <1>5 DEF SkipValue, Acting
<1> HIDE DEF Frame
<1>6. Frame
  BY <1>1, <1>2, <1>3, <1>4, <1>5 DEF Apply
<1>7. pc # "idle" /\ ~Done
  BY <1>6 DEF Frame, Acting, Typed, Progress, Done
<1>8. ~Done'
  <2>1. CASE UNCHANGED runs
    BY <1>7, <2>1 DEF Done
  <2>2. CASE EndRun("failed")
    BY <1>7, <2>2, RunEnds
  <2>3. QED
    BY <1>6, <2>1, <2>2 DEF Frame
<1>9. QED
  BY <1>6, <1>8 DEF Frame

LEMMA FittingStep ==
  ASSUME Typed, Fitting, [Next]_vars
  PROVE  Fitting'
<1> USE DEF capture, site, runs, plan, work, closure, hist
<1>1. CASE CaptureSource
  BY <1>1 DEF CaptureSource, Fitting
<1>2. CASE payload' = payload
  BY <1>2 DEF Fitting
<1>3. ASSUME Apply PROVE payload' = payload
  BY <1>3, ApplyFrame
<1>4. QED
  BY <1>1, <1>2, <1>3 DEF Next, vars, Start, Verify, LoadSourceId, ReadFindings, Recheck, RecheckEnd,
       Persist, Conclude, Cancel, Crash, AdminActs, DeleteSource

\* No capture gives anything but a field a context.
LEMMA ContextsAreOfFields ==
  ASSUME Fitting, NEW f \in Finding, payload[f] \in {"context", "options"}
  PROVE  Area(f) = "custom_fields"
<1>1. payload[f] \in PayloadsOf(f)
  BY DEF Fitting
<1>2. QED
  BY <1>1, Zenon DEF PayloadsOf

\* A step of the plan leaves the makers behind it, or with the one under way.
LEMMA MadeByFrame ==
  ASSUME Typed, MadeBy, pc \in {"act"} \cup Acting, pc' \notin {"verify", "load", "read"},
         UNCHANGED <<payload, namesakes, picked, found>>,
         made' = made \/ (pc = "post" /\ made' \subseteq made \cup {Obj(Current.f)}),
         todo' = todo \/ todo' = todo \ {Current},
         pc \in {"post", "context", "options"} =>
           \/ pc' = "idle"
           \/ todo' = todo \ {Current}
           \/ pc' \in {"context", "options"} /\ todo' = todo
  PROVE  MadeBy'
<1>1. BuildPlan(found)' = BuildPlan(found) /\ (todo' = todo => Current' = Current)
  BY PlanStays, CurrentStays
<1>2. ASSUME pc' # "idle", NEW o \in made' PROVE Maker(o)'
  <2>1. CASE o \in made
    <3>1. PICK a \in BuildPlan(found) :
            /\ Tier(a) = "create" /\ FixId(a) # "field.options" /\ Obj(a.f) = o
            /\ a \notin todo \/ (pc \in {"context", "options"} /\ a = Current)
      BY <2>1 DEF MadeBy, Maker, Acting
    <3>2. a \notin todo' \/ (pc' \in {"context", "options"} /\ a = Current')
      BY <1>1, <1>2, <3>1
    <3>3. QED
      BY <1>1, <3>1, <3>2 DEF Maker, Tier, FixId
  <2>2. CASE o \notin made
    <3>1. pc = "post" /\ o = Obj(Current.f)
      BY <1>2, <2>2
    <3>2. /\ Current \in BuildPlan(found) /\ Tier(Current) = "create"
          /\ FixId(Current) # "field.options"
      BY <3>1, CurrentIsAction DEF Acting, Typed, Progress
    <3>3. Current \notin todo' \/ (pc' \in {"context", "options"} /\ Current = Current')
      BY <1>1, <1>2, <3>1
    <3>4. QED
      BY <1>1, <3>1, <3>2, <3>3 DEF Maker, Tier, FixId
  <2>3. QED
    BY <2>1, <2>2
<1>3. QED
  BY <1>2 DEF MadeBy

LEMMA MadeByApply ==
  ASSUME Typed, MadeBy, Apply
  PROVE  MadeBy'
<1> USE DEF capture, site, runs, plan, work, closure, hist
<1>1. /\ pc \in {"act"} \cup Acting /\ pc' \notin {"verify", "load", "read"}
      /\ UNCHANGED <<payload, namesakes, picked, found>>
  BY ApplyFrame DEF Acting
<1>2. ASSUME NEW a \in Action, Precheck(a) \/ AddOptionsResolve(a) \/ Wire(a) \/ PopulateBegin(a)
      PROVE  MadeBy'
  <2>1. Current = a /\ pc = "act"
    BY <1>2, DueIsCurrent DEF Precheck, AddOptionsResolve, Wire, PopulateBegin, Due
  <2>2. made' = made /\ (todo' = todo \/ todo' = todo \ {Current})
    BY <1>2, <2>1 DEF Precheck, AddOptionsResolve, Wire, PopulateBegin, GiveUp, Finish
  <2>3. QED
    BY <1>1, <2>1, <2>2, MadeByFrame
<1>3. ASSUME ReadContexts \/ PopulateEnd \/ ApplyEnd PROVE MadeBy'
  <2>1. /\ made' = made /\ (todo' = todo \/ todo' = todo \ {Current})
        /\ pc \notin {"post", "context", "options"}
    BY <1>3 DEF ReadContexts, PopulateEnd, ApplyEnd, GiveUp, Finish
  <2>2. QED
    BY <1>1, <2>1, MadeByFrame
<1>4. ASSUME NEW answer \in Answer, NEW landed \in BOOLEAN,
             CreateObject(answer, landed) \/ CreateField(answer, landed)
      PROVE  MadeBy'
  <2>1. pc = "post" /\ made' \subseteq made \cup {Obj(Current.f)}
    BY <1>4 DEF CreateObject, CreateField, Add
  <2>2. \/ pc' = "idle" /\ todo' = todo
        \/ todo' = todo \ {Current}
        \/ pc' = "context" /\ todo' = todo
    BY <1>4 DEF CreateObject, CreateField, Finish, Fail, EndRun
  <2>3. QED
    BY <1>1, <2>1, <2>2, MadeByFrame
<1>5. ASSUME NEW answer \in Answer, NEW landed \in BOOLEAN,
             \/ CreateContext(answer, landed) \/ CreateOptions(answer, landed)
             \/ AddOptions(answer, landed)
      PROVE  MadeBy'
  <2>1. made' = made
    BY <1>5 DEF CreateContext, CreateOptions, AddOptions
  <2>2. \/ pc' = "idle" /\ todo' = todo
        \/ todo' = todo \ {Current}
        \/ pc' = "options" /\ todo' = todo
    BY <1>5 DEF CreateContext, CreateOptions, AddOptions, Finish, Fail, EndRun
  <2>3. QED
    BY <1>1, <2>1, <2>2, MadeByFrame
<1>6. ASSUME NEW answer \in Answer, NEW landed \in BOOLEAN, NEW i \in Issue,
             PutValue(i, answer, landed)
      PROVE  MadeBy'
  <2>1. made' = made /\ todo' = todo /\ pc = "put"
    BY <1>6 DEF PutValue
  <2>2. QED
    BY <1>1, <2>1, MadeByFrame
<1>7. ASSUME NEW i \in Issue, SkipValue(i) PROVE MadeBy'
  <2>1. made' = made /\ todo' = todo /\ pc = "put"
    BY <1>7 DEF SkipValue
  <2>2. QED
    BY <1>1, <2>1, MadeByFrame
<1>8. QED
  BY <1>2, <1>3, <1>4, <1>5, <1>6, <1>7 DEF Apply

LEMMA MadeByStep ==
  ASSUME Typed, MadeBy, [Next]_vars
  PROVE  MadeBy'
<1> USE DEF capture, site, runs, plan, work, closure, hist
<1>1. ASSUME CaptureSource \/ Conclude \/ Cancel \/ Crash PROVE pc' = "idle"
  BY <1>1 DEF CaptureSource, Conclude, Cancel, Crash, Fail, EndRun, Typed, Progress
<1>2. ASSUME pc' = "idle" PROVE MadeBy'
  BY <1>2 DEF MadeBy
<1>3. ASSUME (\E p \in Picks : Start(p)) \/ Verify \/ LoadSourceId \/ ReadFindings PROVE MadeBy'
  <2>1. made' = {}
    BY <1>3 DEF Start, Verify, LoadSourceId, ReadFindings, MadeBy
  <2>2. QED
    BY <2>1 DEF MadeBy
<1>4. ASSUME Apply PROVE MadeBy'
  BY <1>4, MadeByApply
<1>5. ASSUME (\E f \in Finding : Recheck(f)) \/ RecheckEnd \/ Persist PROVE MadeBy'
  <2>1. /\ UNCHANGED <<payload, namesakes, picked, found, todo, made>> /\ pc \in {"reaudit", "persist"}
        /\ pc' \in {"reaudit", "persist", "conclude"}
    BY <1>5 DEF Recheck, RecheckEnd, Persist
  <2>2. BuildPlan(found)' = BuildPlan(found)
    BY <2>1, PlanStays
  <2>3. QED
    BY <2>1, <2>2 DEF MadeBy, Maker
<1>6. ASSUME AdminActs \/ DeleteSource \/ UNCHANGED vars PROVE MadeBy'
  <2>1. UNCHANGED <<payload, namesakes, picked, found, todo, made, pc>>
    BY <1>6 DEF AdminActs, DeleteSource, vars
  <2>2. BuildPlan(found)' = BuildPlan(found) /\ Current' = Current
    BY <2>1, PlanStays, CurrentStays
  <2>3. QED
    BY <2>1, <2>2 DEF MadeBy, Maker
<1>7. QED
  BY <1>1, <1>2, <1>3, <1>4, <1>5, <1>6 DEF Next

-----------------------------------------------------------------------------
(* What a clean verdict means: the re-audit.                               *)

LEMMA TouchedStays ==
  ASSUME UNCHANGED <<payload, namesakes, picked, found>>
  PROVE  Touched' = Touched
  BY PlanStays DEF Touched

\* A finding is rechecked: unless it is left open it is closed now.
LEMMA ClosedRecheck ==
  ASSUME Typed, Closed, NEW f \in Finding, Recheck(f)
  PROVE  Closed'
<1> USE DEF capture, site, runs, plan, work, closure, hist
<1>1. /\ pc = "reaudit" /\ f \in found /\ judged' = judged \cup {f} /\ open \in Nat
      /\ UNCHANGED <<payload, namesakes, captured, source, picked, found, copies, withOptions, pc, runs>>
      /\ spoilt \subseteq spoilt'
  BY DEF Recheck, Typed, TypeOK, ReadWorks, ReadFails, Calm, Mishap
<1>2. ~Done' /\ Touched' = Touched
  BY <1>1, TouchedStays DEF Typed, Progress, Done
<1>3. open' = 0 => open = 0 /\ (Area(f) \in Touched /\ Verifiable(f) => ClosedNow(f))
  BY <1>1 DEF Recheck
<1>4. \A g \in Finding : ClosedNow(g)' <=> ClosedNow(g)
  BY <1>1 DEF ClosedNow, Sees
<1>5. Undisturbed' => Undisturbed
  BY <1>1 DEF Undisturbed
<1>6. judged' \subseteq Finding /\ judged' \subseteq found'
  BY <1>1 DEF Closed, Typed, TypeOK
<1>7. ASSUME Undisturbed', open' = 0, NEW g \in judged', Area(g) \in Touched', Verifiable(g)
      PROVE  ClosedNow(g)'
  <2>1. ClosedNow(g)
    BY <1>1, <1>2, <1>3, <1>5, <1>7 DEF Closed
  <2>2. QED
    BY <1>4, <1>6, <1>7, <2>1
<1>8. "deleted" \notin spoilt' => found' = Finding
  BY <1>1 DEF Closed
<1>9. QED
  BY <1>1, <1>2, <1>6, <1>7, <1>8 DEF Closed, Acting, Verifiable

LEMMA ClosedStep ==
  ASSUME Typed, Closed, Next
  PROVE  Closed'
<1> USE DEF capture, site, runs, plan, work, closure, hist
<1>1. ASSUME CaptureSource PROVE Closed'
  <2>1. judged = {} /\ UNCHANGED <<judged, found, runs, pc, spoilt>> /\ pc = "idle" /\ ~Done
    BY <1>1 DEF CaptureSource, Closed, Typed, Progress, Done
  <2>2. ~Done'
    BY <2>1 DEF Done
  <2>3. QED
    BY <2>1, <2>2 DEF Closed, Acting
<1>2. ASSUME NEW p \in Picks, Start(p) PROVE Closed'
  <2>1. judged' = {} /\ found' = {} /\ pc' = "verify" /\ source' = "stored"
    BY <1>2 DEF Start
  <2>2. ~Done'
    BY <1>2, TypedStep, <2>1 DEF Next, Typed, Progress, Done
  <2>3. QED
    BY <2>1, <2>2 DEF Closed, Acting
<1>3. ASSUME Verify \/ LoadSourceId PROVE Closed'
  <2>1. /\ pc \in {"verify", "load"} /\ pc' \in {"idle", "load", "read"} /\ judged' = {} /\ found' = {}
        /\ source' = source /\ spoilt \subseteq spoilt'
    BY <1>3 DEF Verify, LoadSourceId, Fail, EndRun, Typed, Progress, Calm, Mishap
  <2>2. ~Done'
    <3>1. CASE EndRun("failed")
      BY <2>1, <3>1, RunEnds
    <3>2. CASE UNCHANGED runs
      BY <2>1, <3>2 DEF Typed, Progress, Done
    <3>3. QED
      BY <1>3, <3>1, <3>2 DEF Verify, LoadSourceId, Fail
  <2>3. QED
    BY <2>1, <2>2 DEF Closed, Acting
<1>4. ASSUME ReadFindings PROVE Closed'
  <2>1. /\ pc = "read" /\ pc' = "act" /\ judged' = {} /\ spoilt' = spoilt /\ source' = source
        /\ found' = IF source = "gone" THEN {} ELSE Finding
        /\ UNCHANGED runs
    BY <1>4 DEF ReadFindings, Typed, Progress
  <2>2. ~Done'
    BY <2>1 DEF Typed, Progress, Done
  <2>3. "deleted" \notin spoilt' => found' = Finding
    BY <2>1 DEF Closed
  <2>4. QED
    BY <2>1, <2>2, <2>3 DEF Closed, Acting
<1>5. ASSUME Apply PROVE Closed'
  <2>1. /\ pc \in {"act"} \cup Acting /\ pc' \in {"idle", "act", "reaudit"} \cup Acting
        /\ UNCHANGED <<judged, found>> /\ spoilt \subseteq spoilt' /\ ~Done'
    BY <1>5, ApplyFrame
  <2>2. judged' = {}
    BY <2>1 DEF Closed
  <2>3. "deleted" \notin spoilt' => found' = Finding
    BY <2>1 DEF Closed, Acting
  <2>4. QED
    BY <2>1, <2>2, <2>3 DEF Closed, Acting
<1>6. ASSUME NEW f \in Finding, Recheck(f) PROVE Closed'
  BY <1>6, ClosedRecheck
<1>7. ASSUME RecheckEnd \/ Persist PROVE Closed'
  <2>1. /\ pc \in {"reaudit", "persist"} /\ pc' \in {"persist", "conclude"} /\ judged = found
        /\ UNCHANGED <<payload, namesakes, picked, found, judged, open, spoilt, copies, withOptions, source,
                       run, status>>
    BY <1>7 DEF RecheckEnd, Persist, Closed
  <2>2. ~Done' /\ Touched' = Touched
    BY <2>1, TouchedStays DEF Typed, Progress, Done
  <2>3. \A f \in Finding : ClosedNow(f)' <=> ClosedNow(f)
    BY <2>1 DEF ClosedNow, Sees
  <2>4. judged \subseteq Finding
    BY DEF Typed, TypeOK
  <2>5. Undisturbed' /\ open' = 0 =>
          \A f \in judged' : Area(f) \in Touched' /\ Verifiable(f) => ClosedNow(f)'
    BY <2>1, <2>2, <2>3, <2>4 DEF Closed, Undisturbed
  <2>6. QED
    BY <2>1, <2>2, <2>5 DEF Closed, Acting, Verifiable
<1>8. ASSUME Conclude PROVE Closed'
  <2>1. /\ pc = "conclude" /\ pc' = "idle" /\ judged = found
        /\ UNCHANGED <<payload, namesakes, picked, found, judged, open, spoilt, copies, withOptions, source, log, run>>
    BY <1>8 DEF Conclude, Closed
  <2>2. Touched' = Touched
    BY <2>1, TouchedStays
  <2>3. \A f \in Finding : ClosedNow(f)' <=> ClosedNow(f)
    BY <2>1 DEF ClosedNow, Sees
  <2>4. judged \subseteq Finding /\ run \in Run
    BY <2>1 DEF Typed, TypeOK, Progress, Run
  <2>5. Undisturbed' /\ open' = 0 =>
          \A f \in judged' : Area(f) \in Touched' /\ Verifiable(f) => ClosedNow(f)'
    BY <2>1, <2>2, <2>3, <2>4 DEF Closed, Undisturbed
  <2>6. verdict'[run'] = Ladder
    BY <1>8, <2>1, <2>4 DEF Conclude, Typed, TypeOK
  <2>7. Ladder = "FIXED_CLEAN" => open = 0 /\ Failed = {}
    BY DEF Ladder
  <2>8. Failed' = Failed
    BY <2>1 DEF Failed
  <2>9. "deleted" \notin spoilt' => found' = Finding
    BY <2>1 DEF Closed
  <2>10. QED
    BY <2>1, <2>5, <2>6, <2>7, <2>8, <2>9 DEF Closed, Acting, Verifiable
<1>9. ASSUME Cancel \/ Crash PROVE Closed'
  <2>1. /\ pc' = "idle" /\ ~Done'
        /\ UNCHANGED <<payload, namesakes, picked, found, judged, open, copies, withOptions>>
        /\ spoilt \subseteq spoilt'
    BY <1>9, RunEnds DEF Cancel, Crash, Fail, Mishap
  <2>2. Touched' = Touched
    BY <2>1, TouchedStays
  <2>3. \A f \in Finding : ClosedNow(f)' <=> ClosedNow(f)
    BY <2>1 DEF ClosedNow, Sees
  <2>4. judged \subseteq Finding
    BY DEF Typed, TypeOK
  <2>5. Undisturbed' /\ open' = 0 =>
          \A f \in judged' : Area(f) \in Touched' /\ Verifiable(f) => ClosedNow(f)'
    BY <2>1, <2>2, <2>3, <2>4 DEF Closed, Undisturbed
  <2>6. QED
    BY <2>1, <2>5 DEF Closed, Acting, Verifiable
<1>10. ASSUME AdminActs \/ DeleteSource PROVE Closed'
  <2>1. /\ ~Undisturbed' /\ spoilt \subseteq spoilt'
        /\ UNCHANGED <<judged, found, open, runs, pc, log>>
    BY <1>10 DEF AdminActs, DeleteSource, Mishap, Undisturbed
  <2>2. (Done' <=> Done) /\ (Failed' = Failed)
    BY <2>1 DEF Done, Failed
  <2>3. "deleted" \notin spoilt' => source' = source
    BY <1>10 DEF AdminActs, DeleteSource, Mishap
  <2>4. QED
    BY <2>1, <2>2, <2>3 DEF Closed
<1>11. QED
  BY <1>1, <1>2, <1>3, <1>4, <1>5, <1>6, <1>7, <1>8, <1>9, <1>10 DEF Next

-----------------------------------------------------------------------------
(* What a clean verdict means: the actions of the plan.                    *)

\* What landed stays: nothing on the target is taken away, and an object that the run makes
\* was not there before.
LEMMA LandedStays ==
  ASSUME Typed, NEW a \in Action, Landed(a), UNCHANGED <<payload, namesakes, captured>>,
         withContext \subseteq withContext', withOptions \subseteq withOptions',
         filled \subseteq filled',
         \A o \in Object : copies[o] > 0 => copies'[o] > 0,
         \A o \in made' \ made : copies[o] = 0
  PROVE  Landed(a)'
<1>1. /\ Obj(a.f) \in Object /\ copies[Obj(a.f)] \in Nat
  BY ActionParts DEF Typed, TypeOK
<1>2. CASE FixId(a) = "field.options"
  <2>1. Tier(a) = "create"
    BY <1>2, FixTable, ActionParts DEF FixId, Tier
  <2>2. Obj(a.f) \in withOptions
    BY <1>2, <2>1 DEF Landed
  <2>3. Obj(a.f) \in withOptions'
    BY <2>2
  <2>4. QED
    BY <1>2, <2>1, <2>3 DEF Landed, FixId, Tier
<1>3. CASE FixId(a) # "field.options" /\ Tier(a) = "create"
  <2>1. /\ copies[Obj(a.f)] > 0
        /\ Obj(a.f) \in made =>
             /\ payload[a.f] \in {"context", "options"} => Obj(a.f) \in withContext
             /\ payload[a.f] = "options" => Obj(a.f) \in withOptions
    BY <1>3 DEF Landed
  <2>2. Obj(a.f) \in made' => Obj(a.f) \in made
    BY <1>1, <2>1
  <2>3. /\ copies'[Obj(a.f)] > 0
        /\ Obj(a.f) \in made' =>
             /\ payload'[a.f] \in {"context", "options"} => Obj(a.f) \in withContext'
             /\ payload'[a.f] = "options" => Obj(a.f) \in withOptions'
    BY <1>1, <2>1, <2>2
  <2>4. QED
    BY <1>3, <2>3 DEF Landed, FixId, Tier
<1>4. CASE FixId(a) # "field.options" /\ Tier(a) # "create"
  <2>1. Tier(a) = "populate" /\ \A i \in captured : <<Obj(a.f), i>> \in filled
    BY <1>4 DEF Landed, FixId, Tier
  <2>2. \A i \in captured' : <<Obj(a.f), i>> \in filled'
    BY <2>1
  <2>3. QED
    BY <1>4, <2>1, <2>2 DEF Landed, FixId, Tier
<1>5. QED
  BY <1>2, <1>3, <1>4

LEMMA ServedBy ==
  ASSUME NEW a, Landed(a)'
  PROVE  Served(a)'
  BY DEF Served

LEMMA ServedStays ==
  ASSUME Typed, NEW a \in Action, Served(a), UNCHANGED <<payload, namesakes, captured>>,
         withContext \subseteq withContext', withOptions \subseteq withOptions',
         filled \subseteq filled',
         \A o \in Object : copies[o] > 0 => copies'[o] > 0,
         \A o \in made' \ made : copies[o] = 0
  PROVE  Served(a)'
<1>1. CASE Landed(a)
  BY <1>1, LandedStays DEF Served
<1>2. CASE FixId(a) = "field.create" /\ Confused(a.f)
  BY <1>2 DEF Served, Confused, FixId
<1>3. QED
  BY <1>1, <1>2 DEF Served

\* A step of the plan: its target only grows, an action it finishes has landed, and one it
\* goes on with has done its part.
LEMMA EffectiveGoesOn ==
  ASSUME Typed, Effective, UNCHANGED <<payload, namesakes, captured, picked, found>>,
         withContext \subseteq withContext', withOptions \subseteq withOptions',
         filled \subseteq filled',
         \A o \in Object : copies[o] > 0 => copies'[o] > 0,
         \A o \in made' \ made : copies[o] = 0,
         spoilt \subseteq spoilt', log \subseteq log', NEW c,
         todo' = todo \/ todo' = todo \ {c},
         Undisturbed' /\ Failed' = {} => todo' = todo \/ Served(c)',
         Undisturbed' /\ Failed' = {} => InHand'
  PROVE  Effective'
<1>1. SUFFICES ASSUME Undisturbed', Failed' = {}
               PROVE  \A a \in BuildPlan(found)' \ todo' : Served(a)'
  BY DEF Effective
<1>2. Undisturbed /\ Failed = {}
  BY <1>1 DEF Undisturbed, Failed
<1>3. BuildPlan(found)' = BuildPlan(found) /\ BuildPlan(found) \subseteq Action
  BY PlanStays, PlanIsActions DEF Typed
<1>4. TAKE a \in BuildPlan(found)' \ todo'
<1>5. CASE a \notin todo
  <2>1. Served(a) /\ a \in Action
    BY <1>2, <1>3, <1>4, <1>5 DEF Effective
  <2>2. QED
    BY <2>1, ServedStays
<1>6. CASE a \in todo
  BY <1>1, <1>4, <1>6
<1>7. QED
  BY <1>5, <1>6

\* Nothing of the target changes and no action is finished.
LEMMA EffectiveFrame ==
  ASSUME Typed, Effective,
         UNCHANGED <<payload, namesakes, captured, picked, found, todo, site, made>>,
         spoilt \subseteq spoilt', log \subseteq log', Undisturbed' /\ Failed' = {} => InHand'
  PROVE  Effective'
<1>1. \A o \in made' \ made : copies[o] = 0
  OBVIOUS
<1>2. QED
  BY <1>1, EffectiveGoesOn DEF site

\* A failure on record is no clean run.
LEMMA NotClean ==
  ASSUME NEW n, n \in log', ~n.ok
  PROVE  Failed' # {}
  BY DEF Failed

LEMMA EffectiveGivesUp ==
  ASSUME NEW a, NEW call, NEW why, GiveUp(a, call, why)
  PROVE  Effective'
<1> DEFINE n == Note(a, call, FALSE, why)
<1>1. ~n.ok
  BY DEF Note
<1>2. n \in log'
  BY DEF GiveUp
<1> HIDE DEF n
<1>3. QED
  BY <1>1, <1>2, NotClean DEF Effective

\* In an undisturbed run without failures every answer was a good one.
LEMMA CleanPost ==
  ASSUME NEW a, NEW call, NEW answer \in Answer, NEW landed, Post(a, call, answer, landed),
         log' = log \cup {Note(a, call, Logged(answer), "")}, Undisturbed', Failed' = {}
  PROVE  answer = "ok" /\ landed
<1> DEFINE n == Note(a, call, Logged(answer), "")
<1>1. n \in log' /\ n.ok = Logged(answer)
  BY DEF Note
<1>2. Logged(answer)
  <2> HIDE DEF n
  <2>1. QED
    BY <1>1, NotClean
<1>3. answer # "lost"
  BY PostSpoils DEF Undisturbed
<1>4. QED
  BY <1>2, <1>3, PostSpoils DEF Logged, Post

\* Two create actions of a plan about one object are the same action.
LEMMA MakerIsUnique ==
  ASSUME Typed, NEW a \in BuildPlan(found), NEW b \in BuildPlan(found),
         Tier(a) = "create", FixId(a) # "field.options",
         Tier(b) = "create", FixId(b) # "field.options", Obj(a.f) = Obj(b.f)
  PROVE  a = b
<1>1. /\ a \in Action /\ b \in Action
      /\ Fixes[a.x].area = Area(a.f) /\ Fixes[a.x].kind = Kind(a.f)
      /\ Fixes[b.x].area = Area(b.f) /\ Fixes[b.x].kind = Kind(b.f)
  BY PlanIsActions DEF BuildPlan, Applicable, Typed
<1>2. a.x \in 1..9 /\ b.x \in 1..9 /\ a.x # 4 /\ b.x # 4
  BY <1>1, FixTable, ActionParts DEF FixId
<1>3. Kind(a.f) = "missing_in_tgt" /\ Kind(b.f) = "missing_in_tgt"
  BY <1>1, <1>2, FixTable DEF Tier
<1>4. a.f = b.f
  BY <1>1, <1>3, FindingAssumption, ActionParts
<1>5. a.x = b.x
  BY <1>1, <1>2, <1>4, FixTable DEF Tier
<1>6. QED
  BY <1>1, <1>4, <1>5, ActionParts

\* Of an object with a namesake the plan has only the creation of a field.
LEMMA NamesakeIsField ==
  ASSUME Typed, NEW a \in BuildPlan(found), Tier(a) = "create", FixId(a) # "field.options",
         Obj(a.f) \in namesakes
  PROVE  FixId(a) = "field.create" /\ Kind(a.f) = "missing_in_tgt"
<1>1. a \in Action /\ Fixes[a.x].area = Area(a.f) /\ Fixes[a.x].kind = Kind(a.f)
  BY PlanIsActions DEF BuildPlan, Applicable, Typed
<1>2. Area(a.f) = "custom_fields"
  BY NamesakeAssumption DEF Typed, TypeOK, Obj
<1>3. a.x \in 1..9
  BY <1>1, FixTable, ActionParts
<1>4. QED
  BY <1>1, <1>2, <1>3 DEF Fixes, Tier, FixId

\* An action that finds its object there and of somebody else has nothing to do.
LEMMA EffectivePrecheck ==
  ASSUME Typed, MadeBy, Effective, NEW a \in Action, Precheck(a)
  PROVE  Effective'
<1> USE DEF capture, site, runs, plan, work, closure, hist
<1>1. /\ Current = a /\ a \in todo /\ a \in BuildPlan(found) /\ pc = "act"
      /\ Tier(a) = "create" /\ FixId(a) # "field.options"
  BY DueIsCurrent DEF Precheck, Due
<1>2. /\ UNCHANGED <<payload, namesakes, captured, picked, found, site, made>> /\ spoilt \subseteq spoilt'
      /\ log \subseteq log' /\ pc' \in {"act", "post"}
  BY DEF Precheck, Finish, ReadWorks, ReadFails, Calm, Mishap
<1>3. InHand'
  BY <1>2 DEF InHand
<1>4. CASE todo' = todo
  BY <1>2, <1>3, <1>4, EffectiveFrame
<1>5. CASE Sees(Obj(a.f)) /\ Finish(a)
  <2>1. Obj(a.f) \notin made
    <3>1. SUFFICES ASSUME Obj(a.f) \in made PROVE FALSE
      OBVIOUS
    <3>2. PICK b \in BuildPlan(found) :
            Tier(b) = "create" /\ FixId(b) # "field.options" /\ Obj(b.f) = Obj(a.f) /\ b \notin todo
      BY <1>1, <3>1 DEF MadeBy, Maker
    <3>3. a = b
      BY <1>1, <3>2, MakerIsUnique
    <3>4. QED
      BY <1>1, <3>2, <3>3
  <2>2. Served(a)
    <3>1. CASE copies[Obj(a.f)] > 0
      BY <1>1, <2>1, <3>1 DEF Served, Landed
    <3>2. CASE Obj(a.f) \in namesakes
      BY <1>1, <3>2, NamesakeIsField DEF Served, Confused
    <3>3. QED
      BY <1>5, <3>1, <3>2 DEF Sees
  <2>3. Served(a)'
    BY <1>2, <2>2, ServedStays
  <2>4. todo' = todo \ {a}
    BY <1>5 DEF Finish
  <2>5. \A o \in made' \ made : copies[o] = 0
    BY <1>2
  <2>6. QED
    BY <1>2, <1>3, <2>3, <2>4, <2>5, EffectiveGoesOn
<1>6. QED
  BY <1>4, <1>5 DEF Precheck

\* The request that creates an object or a field.
LEMMA EffectiveCreates ==
  ASSUME Typed, Fitting, Effective, NEW answer \in Answer, NEW landed \in BOOLEAN,
         CreateObject(answer, landed) \/ CreateField(answer, landed)
  PROVE  Effective'
<1> USE DEF capture, site, runs, plan, work, closure, hist
<1>0. PICK c : c = Current
  OBVIOUS
<1> DEFINE o == Obj(c.f)
<1>1. /\ pc = "post" /\ c \in todo /\ c \in Action /\ c.f \in Finding /\ o \in Object
      /\ Tier(c) = "create" /\ FixId(c) # "field.options"
  BY <1>0, CurrentIsAction, ActionParts DEF CreateObject, CreateField, Acting, Typed, Progress
<1>2. /\ UNCHANGED <<payload, namesakes, captured, picked, found, withContext, withOptions, filled>>
      /\ Post(c, "create", answer, landed)
      /\ log' = log \cup {Note(c, "create", Logged(answer), "")}
      /\ IF landed THEN Add(o) ELSE UNCHANGED <<copies, made>>
  BY <1>0 DEF CreateObject, CreateField
<1>3. /\ copies' \in [Object -> Nat]
      /\ \A q \in Object : copies[q] > 0 => copies'[q] > 0
      /\ landed => copies'[o] > 0
  BY <1>1, <1>2, AddGrows
<1>4. \A q \in made' \ made : copies[q] = 0
  BY <1>2 DEF Add
<1>5. spoilt \subseteq spoilt' /\ log \subseteq log'
  BY <1>2, PostSpoils
<1>6. \/ todo' = todo \ {c} /\ pc' = "act" /\ payload[c.f] \notin {"context", "options"}
      \/ todo' = todo \ {c} /\ pc' = "act" /\ answer # "ok"
      \/ todo' = todo /\ pc' = "context" /\ payload[c.f] \in {"context", "options"}
      \/ todo' = todo /\ pc' = "idle"
  <2>1. CASE CreateObject(answer, landed)
    <3>1. payload[c.f] \notin {"context", "options"}
      BY <1>0, <1>1, <2>1, ContextsAreOfFields DEF CreateObject
    <3>2. QED
      BY <1>0, <2>1, <3>1 DEF CreateObject, Finish
  <2>2. CASE CreateField(answer, landed)
    BY <1>0, <2>2 DEF CreateField, Finish, Fail, EndRun
  <2>3. QED
    BY <2>1, <2>2
<1>7. Undisturbed' /\ Failed' = {} => answer = "ok" /\ landed
  BY <1>2, CleanPost
<1>8. ASSUME Undisturbed', Failed' = {}, todo' # todo PROVE Landed(c)'
  <2>1. payload[c.f] \notin {"context", "options"} /\ copies'[o] > 0
    BY <1>3, <1>6, <1>7, <1>8
  <2>2. QED
    BY <1>1, <1>2, <2>1 DEF Landed, Tier, FixId
<1>9. ASSUME Undisturbed', Failed' = {} PROVE InHand'
  <2>1. CASE pc' \in {"act", "idle"}
    BY <2>1 DEF InHand
  <2>2. CASE pc' = "context" /\ todo' = todo /\ payload[c.f] \in {"context", "options"}
    <3>1. Current' = c
      BY <1>0, <2>2, CurrentStays
    <3>2. copies'[Obj(Current'.f)] > 0 /\ payload'[Current'.f] \in {"context", "options"}
      BY <1>2, <1>3, <1>7, <1>9, <2>2, <3>1
    <3>3. QED
      BY <2>2, <3>2 DEF InHand
  <2>3. QED
    BY <1>6, <2>1, <2>2
<1> HIDE DEF o
<1>10. QED
  BY <1>2, <1>3, <1>4, <1>5, <1>6, <1>8, <1>9, ServedBy, EffectiveGoesOn

\* The context of a field, which only its maker gives it.
LEMMA EffectiveContext ==
  ASSUME Typed, Effective, NEW answer \in Answer, NEW landed \in BOOLEAN,
         CreateContext(answer, landed)
  PROVE  Effective'
<1> USE DEF capture, site, runs, plan, work, closure, hist
<1>0. PICK c : c = Current
  OBVIOUS
<1> DEFINE o == Obj(c.f)
<1>1. /\ pc = "context" /\ c \in todo /\ c \in Action /\ o \in Object
      /\ FixId(c) = "field.create"
  BY <1>0, CurrentIsAction, ActionParts DEF CreateContext, Acting, Typed, Progress
<1>2. Tier(c) = "create" /\ FixId(c) # "field.options"
  BY <1>1, FixTable, ActionParts DEF FixId, Tier
<1>3. /\ UNCHANGED <<payload, namesakes, captured, picked, found, copies, withOptions, filled, made>>
      /\ Post(c, "context", answer, landed)
      /\ log' = log \cup {Note(c, "context", Logged(answer), "")}
      /\ withContext' = IF landed /\ o \in made THEN withContext \cup {o} ELSE withContext
  BY <1>0 DEF CreateContext, NoteAny
<1>4. spoilt \subseteq spoilt' /\ log \subseteq log' /\ withContext \subseteq withContext'
  BY <1>3, PostSpoils
<1>5. Undisturbed' /\ Failed' = {} => answer = "ok" /\ landed
  BY <1>3, CleanPost
<1>6. \/ todo' = todo \ {c} /\ pc' = "act" /\ (answer = "ok" => payload[c.f] # "options")
      \/ todo' = todo /\ pc' = "options" /\ payload[c.f] = "options"
      \/ todo' = todo /\ pc' = "idle"
  BY <1>0 DEF CreateContext, Finish, Fail, EndRun
<1>7. ASSUME Undisturbed', Failed' = {}
      PROVE  copies[o] > 0 /\ (o \in made => o \in withContext')
  <2>1. Undisturbed /\ Failed = {}
    BY <1>4, <1>7 DEF Undisturbed, Failed
  <2>2. copies[o] > 0
    BY <1>0, <1>1, <2>1 DEF Effective, InHand
  <2>3. QED
    BY <1>3, <1>5, <1>7, <2>2
<1>8. ASSUME Undisturbed', Failed' = {}, todo' # todo PROVE Landed(c)'
  <2>1. payload[c.f] # "options"
    BY <1>5, <1>6, <1>8
  <2>2. /\ copies'[o] > 0
        /\ o \in made' => /\ payload'[c.f] \in {"context", "options"} => o \in withContext'
                          /\ payload'[c.f] = "options" => o \in withOptions'
    BY <1>3, <1>7, <1>8, <2>1
  <2>3. QED
    BY <1>2, <2>2 DEF Landed, Tier, FixId
<1>9. ASSUME Undisturbed', Failed' = {} PROVE InHand'
  <2>1. CASE pc' \in {"act", "idle"}
    BY <2>1 DEF InHand
  <2>2. CASE pc' = "options" /\ todo' = todo /\ payload[c.f] = "options"
    <3>1. Current' = c
      BY <1>0, <2>2, CurrentStays
    <3>2. /\ copies'[Obj(Current'.f)] > 0 /\ payload'[Current'.f] = "options"
          /\ Obj(Current'.f) \in made' => Obj(Current'.f) \in withContext'
      BY <1>3, <1>7, <1>9, <2>2, <3>1
    <3>3. QED
      BY <2>2, <3>2 DEF InHand
  <2>3. QED
    BY <1>6, <2>1, <2>2
<1>10. (\A q \in Object : copies[q] > 0 => copies'[q] > 0) /\ (\A q \in made' \ made : copies[q] = 0)
  BY <1>3
<1> HIDE DEF o
<1>11. QED
  BY <1>3, <1>4, <1>6, <1>8, <1>9, <1>10, ServedBy, EffectiveGoesOn

\* The options of a field, on creation or later.
LEMMA EffectiveOptions ==
  ASSUME Typed, Effective, NEW answer \in Answer, NEW landed \in BOOLEAN,
         CreateOptions(answer, landed) \/ AddOptions(answer, landed)
  PROVE  Effective'
<1> USE DEF capture, site, runs, plan, work, closure, hist
<1>0. PICK c : c = Current
  OBVIOUS
<1> DEFINE o == Obj(c.f)
<1>1. c \in todo /\ c \in Action /\ o \in Object
  BY <1>0, CurrentIsAction, ActionParts DEF CreateOptions, AddOptions, Acting
<1>2. /\ UNCHANGED <<payload, namesakes, captured, picked, found, copies, withContext, filled, made>>
      /\ Post(c, "options", answer, landed)
      /\ log' = log \cup {Note(c, "options", Logged(answer), "")}
      /\ withOptions \subseteq withOptions' /\ todo' = todo \ {c} /\ pc' = "act"
  BY <1>0 DEF CreateOptions, AddOptions, NoteAny, Finish
<1>3. spoilt \subseteq spoilt' /\ log \subseteq log'
  BY <1>2, PostSpoils
<1>4. Undisturbed' /\ Failed' = {} => answer = "ok" /\ landed
  BY <1>2, CleanPost
<1>5. ASSUME Undisturbed', Failed' = {} PROVE Landed(c)'
  <2>1. Undisturbed /\ Failed = {}
    BY <1>3, <1>5 DEF Undisturbed, Failed
  <2>2. CASE CreateOptions(answer, landed)
    <3>1. pc = "options" /\ FixId(c) = "field.create"
      BY <1>0, <2>2 DEF CreateOptions, Typed, Progress
    <3>2. Tier(c) = "create" /\ FixId(c) # "field.options"
      BY <1>1, <3>1, FixTable, ActionParts DEF FixId, Tier
    <3>3. copies[o] > 0 /\ (o \in made => o \in withContext)
      BY <1>0, <2>1, <3>1 DEF Effective, InHand
    <3>4. o \in made => o \in withOptions'
      BY <1>0, <1>4, <1>5, <2>2 DEF CreateOptions
    <3>5. /\ copies'[o] > 0
          /\ o \in made' => o \in withContext' /\ o \in withOptions'
      BY <1>2, <3>3, <3>4
    <3>6. QED
      BY <3>2, <3>5 DEF Landed, Tier, FixId
  <2>3. CASE AddOptions(answer, landed)
    <3>1. FixId(c) = "field.options"
      BY <1>0, <2>3 DEF AddOptions, Typed, Progress
    <3>2. Tier(c) = "create"
      BY <1>1, <3>1, FixTable, ActionParts DEF FixId, Tier
    <3>3. o \in withOptions'
      BY <1>0, <1>4, <1>5, <2>3 DEF AddOptions
    <3>4. QED
      BY <3>1, <3>2, <3>3 DEF Landed, Tier, FixId
  <2>4. QED
    BY <2>2, <2>3
<1>6. InHand'
  BY <1>2 DEF InHand
<1>7. (\A q \in Object : copies[q] > 0 => copies'[q] > 0) /\ (\A q \in made' \ made : copies[q] = 0)
  BY <1>2
<1> HIDE DEF o
<1>8. QED
  BY <1>2, <1>3, <1>5, <1>6, <1>7, ServedBy, EffectiveGoesOn

\* The loop of populate: in a run without failures every line it took has landed.
LEMMA EffectivePut ==
  ASSUME Typed, Effective, NEW i, NEW answer \in Answer, NEW landed \in BOOLEAN,
         PutValue(i, answer, landed)
  PROVE  Effective'
<1> USE DEF capture, site, runs, plan, work, closure, hist
<1>0. PICK c : c = Current
  OBVIOUS
<1> DEFINE o == Obj(c.f)
<1>1. /\ UNCHANGED <<payload, namesakes, captured, picked, found, copies, withContext, withOptions, made, todo,
                     log, pc>>
      /\ Post(c, "populate", answer, landed) /\ pc = "put" /\ line' = line \ {i}
      /\ filled' = IF landed THEN filled \cup {<<o, i>>} ELSE filled
  BY <1>0 DEF PutValue
<1>2. spoilt \subseteq spoilt' /\ log \subseteq log' /\ filled \subseteq filled'
  BY <1>1, PostSpoils
<1>3. Current' = c
  BY <1>0, <1>1, CurrentStays
<1>4. tally \in [bad : Nat, skipped : Nat, server : Nat]
  BY DEF Typed, TypeOK
<1>5. CleanTally(tally)' => CleanTally(tally) /\ answer = "ok"
  <2>1. \/ answer = "ok" /\ tally' = tally
        \/ tally'.bad = tally.bad + 1
    BY <1>4 DEF PutValue
  <2>2. QED
    BY <1>4, <2>1 DEF CleanTally
<1>6. ASSUME Undisturbed', Failed' = {} PROVE InHand'
  <2>1. Undisturbed /\ Failed = {}
    BY <1>2, <1>6 DEF Undisturbed, Failed
  <2>2. CleanTally(tally) => \A j \in captured \ line : <<o, j>> \in filled
    BY <1>0, <1>1, <2>1 DEF Effective, InHand
  <2>3. CleanTally(tally)' => \A j \in captured' \ line' : <<o, j>> \in filled'
    <3>1. SUFFICES ASSUME CleanTally(tally)', NEW j \in captured \ line'
                   PROVE  <<o, j>> \in filled'
      BY <1>1
    <3>2. CASE j = i
      BY <1>1, <1>5, <3>1, <3>2 DEF Post
    <3>3. CASE j # i
      BY <1>1, <1>2, <1>5, <2>2, <3>1, <3>3
    <3>4. QED
      BY <3>2, <3>3
  <2> HIDE DEF o
  <2>4. QED
    BY <1>1, <1>3, <2>3 DEF InHand, o
<1>7. (\A q \in Object : copies[q] > 0 => copies'[q] > 0) /\ (\A q \in made' \ made : copies[q] = 0)
  BY <1>1
<1> HIDE DEF o
<1>8. QED
  BY <1>1, <1>2, <1>6, <1>7, EffectiveGoesOn

LEMMA EffectivePutEnd ==
  ASSUME Typed, Effective, PopulateEnd
  PROVE  Effective'
<1> USE DEF capture, site, runs, plan, work, closure, hist
<1>0. PICK c : c = Current
  OBVIOUS
<1>1. /\ UNCHANGED <<payload, namesakes, captured, picked, found, site, made, spoilt>>
      /\ pc = "put" /\ line = {} /\ todo' = todo \ {c} /\ pc' = "act"
      /\ log' = log \cup {Note(c, "populate", CleanTally(tally), "")}
  BY <1>0 DEF PopulateEnd, Finish
<1>2. c \in Action /\ Tier(c) = "populate"
  BY <1>0, <1>1, CurrentIsAction DEF Acting, Typed, Progress
<1>3. FixId(c) # "field.options"
  BY <1>2, FixTable, ActionParts DEF Tier, FixId
<1>4. log \subseteq log' /\ InHand'
  BY <1>1 DEF InHand
<1>5. ASSUME Undisturbed', Failed' = {} PROVE Landed(c)'
  <2>1. Undisturbed /\ Failed = {}
    BY <1>1, <1>4, <1>5 DEF Undisturbed, Failed
  <2>2. CleanTally(tally)
    <3> DEFINE n == Note(c, "populate", CleanTally(tally), "")
    <3>1. n \in log'
      BY <1>1, Zenon
    <3>2. n.ok = CleanTally(tally)
      BY DEF Note
    <3> HIDE DEF n
    <3>3. QED
      BY <1>5, <3>1, <3>2, NotClean
  <2>3. \A i \in captured : <<Obj(c.f), i>> \in filled
    BY <1>0, <1>1, <2>1, <2>2 DEF Effective, InHand
  <2>4. \A i \in captured' : <<Obj(c.f), i>> \in filled'
    BY <1>1, <2>3
  <2>5. QED
    BY <1>2, <1>3, <2>4 DEF Landed, Tier, FixId
<1>6. (\A q \in Object : copies[q] > 0 => copies'[q] > 0) /\ (\A q \in made' \ made : copies[q] = 0)
  BY <1>1
<1>7. QED
  BY <1>1, <1>4, <1>5, <1>6, ServedBy, EffectiveGoesOn

LEMMA EffectiveApply ==
  ASSUME Typed, Fitting, MadeBy, Effective, Apply
  PROVE  Effective'
<1> USE DEF capture, site, runs, plan, work, closure, hist
<1>1. UNCHANGED <<payload, namesakes, captured, picked, found>> /\ spoilt \subseteq spoilt'
  BY ApplyFrame
<1>2. ASSUME NEW a \in Action, AddOptionsResolve(a) \/ Wire(a) \/ PopulateBegin(a)
      PROVE  Effective'
  <2>1. CASE \E call, why : GiveUp(a, call, why)
    BY <2>1, EffectiveGivesUp
  <2>2. CASE UNCHANGED <<todo, log>> /\ pc' = "delta"
    <3>1. UNCHANGED <<site, made>> /\ InHand'
      BY <1>2, <2>2 DEF AddOptionsResolve, Wire, PopulateBegin, InHand
    <3>2. QED
      BY <1>1, <2>2, <3>1, EffectiveFrame
  <2>3. CASE UNCHANGED <<todo, log>> /\ pc' = "put" /\ line' = captured
    <3>1. UNCHANGED <<site, made>>
      BY <1>2, <2>3 DEF AddOptionsResolve, Wire, PopulateBegin
    <3>2. captured' \ line' = {}
      BY <1>1, <2>3
    <3>3. InHand'
      BY <2>3, <3>2 DEF InHand
    <3>4. QED
      BY <1>1, <2>3, <3>1, <3>3, EffectiveFrame
  <2>4. QED
    BY <1>2, <2>1, <2>2, <2>3 DEF AddOptionsResolve, Wire, PopulateBegin
<1>3. ASSUME ReadContexts \/ ApplyEnd PROVE Effective'
  <2>1. CASE GiveUp(Current, "options", "")
    BY <2>1, EffectiveGivesUp
  <2>2. CASE UNCHANGED <<todo, log>> /\ pc' \in {"extend", "reaudit"}
    <3>1. UNCHANGED <<site, made>> /\ InHand'
      BY <1>3, <2>2 DEF ReadContexts, ApplyEnd, InHand
    <3>2. QED
      BY <1>1, <2>2, <3>1, EffectiveFrame
  <2>3. QED
    BY <1>3, <2>1, <2>2 DEF ReadContexts, ApplyEnd
<1>4. ASSUME NEW i \in Issue, SkipValue(i) PROVE Effective'
  <2>1. UNCHANGED <<site, made, todo, log, pc>> /\ pc = "put"
    BY <1>4 DEF SkipValue
  <2>2. tally'.skipped = tally.skipped + 1 /\ tally.skipped \in Nat
    BY <1>4 DEF SkipValue, Typed, TypeOK
  <2>3. ~CleanTally(tally)'
    BY <2>2 DEF CleanTally
  <2>4. InHand'
    BY <2>1, <2>3 DEF InHand
  <2>5. QED
    BY <1>1, <2>1, <2>4, EffectiveFrame
<1>5. QED
  BY <1>2, <1>3, <1>4, EffectivePrecheck, EffectiveCreates, EffectiveContext, EffectiveOptions,
     EffectivePut, EffectivePutEnd DEF Apply

LEMMA EffectiveStep ==
  ASSUME Typed, Fitting, MadeBy, Effective, [Next]_vars
  PROVE  Effective'
<1> USE DEF capture, site, runs, plan, work, closure, hist
<1>1. ASSUME CaptureSource \/ ReadFindings \/ \E p \in Picks : Start(p) PROVE Effective'
  <2>1. BuildPlan(found)' \subseteq todo' /\ pc' \in {"idle", "act", "verify"}
    BY <1>1 DEF CaptureSource, ReadFindings, Start, Typed, Progress, BuildPlan, Applicable
  <2>2. QED
    BY <2>1 DEF Effective, InHand
<1>2. ASSUME \/ Verify \/ LoadSourceId
             \/ (\E f \in Finding : Recheck(f)) \/ RecheckEnd \/ Persist \/ Conclude
             \/ Cancel \/ Crash
      PROVE  /\ UNCHANGED <<payload, namesakes, captured, picked, found, todo, site, made, log>>
             /\ spoilt \subseteq spoilt' /\ pc' \notin {"context", "options", "put"}
  BY <1>2 DEF Verify, LoadSourceId, Recheck, RecheckEnd, Persist, Conclude, Cancel, Crash,
       Fail, EndRun, ReadWorks, ReadFails, Calm, Mishap
<1>3. ASSUME UNCHANGED <<payload, namesakes, captured, picked, found, todo, site, made, log>>,
             spoilt \subseteq spoilt', pc' \notin {"context", "options", "put"}
      PROVE  Effective'
  <2>1. InHand'
    BY <1>3 DEF InHand
  <2>2. QED
    BY <1>3, <2>1, EffectiveFrame
<1>4. ASSUME AdminActs \/ DeleteSource PROVE Effective'
  BY <1>4 DEF AdminActs, DeleteSource, Mishap, Effective, Undisturbed
<1>5. ASSUME UNCHANGED vars PROVE Effective'
  <2>1. Current' = Current
    BY <1>5, CurrentStays DEF vars
  <2>2. Failed' = Failed /\ (Undisturbed' <=> Undisturbed)
    BY <1>5 DEF vars, Failed, Undisturbed
  <2>3. InHand' <=> InHand
    BY <1>5, <2>1 DEF vars, InHand, CleanTally
  <2>4. QED
    BY <1>5, <2>2, <2>3, EffectiveFrame DEF vars, Effective
<1>6. QED
  BY <1>1, <1>2, <1>3, <1>4, <1>5, EffectiveApply DEF Next

\* What the clean verdict rests on, together.
Honest == Typed /\ Fitting /\ MadeBy /\ Closed /\ Effective

LEMMA CleanIsDone ==
  ASSUME Honest
  PROVE  CleanMeansDone
<1>1. SUFFICES ASSUME run > 0, status[run] = "done", verdict[run] = "FIXED_CLEAN",
                      spoilt \cap {"foreign", "deleted", "lost"} = {}
               PROVE  /\ \A a \in BuildPlan(Finding) : Served(a)
                      /\ \A f \in Finding :
                           Area(f) \in Touched /\ Verifiable(f) => There(f) \/ Confused(f)
  BY DEF CleanMeansDone, Served
<1>2. Done /\ Undisturbed /\ "deleted" \notin spoilt
  BY <1>1 DEF Done, Undisturbed
<1>3. /\ found = Finding /\ judged = found /\ open = 0 /\ Failed = {} /\ todo = {}
  BY <1>1, <1>2 DEF Honest, Closed, Typed, Progress
<1>4. \A a \in BuildPlan(Finding) : Served(a)
  BY <1>2, <1>3 DEF Honest, Effective
<1>5. \A f \in Finding : Area(f) \in Touched /\ Verifiable(f) => ClosedNow(f)
  BY <1>2, <1>3 DEF Honest, Closed
<1>6. \A f \in Finding : Verifiable(f) /\ ClosedNow(f) => There(f) \/ Confused(f)
  BY DEF Verifiable, ClosedNow, Sees, There, Confused
<1>7. QED
  BY <1>4, <1>5, <1>6

\* A clean verdict is true: unless somebody interfered or an answer was lost, everything that
\* was planned is on the target and every verifiable finding of the areas touched is closed,
\* except where a system field of the target stood in for a missing field of its name.
THEOREM CleanMeansDoneHolds == Spec => []CleanMeansDone
<1>1. Init => Honest
  <2> SUFFICES ASSUME Init PROVE Honest
    OBVIOUS
  <2>1. Fitting
    BY DEF Init, Fitting, PayloadsOf
  <2>2. found = {} /\ judged = {} /\ pc = "idle" /\ ~Done /\ source = "audit"
    BY DEF Init, Done
  <2>3. MadeBy /\ Closed /\ Effective
    BY <2>2 DEF MadeBy, Closed, Effective, InHand, BuildPlan, Acting
  <2>4. QED
    BY <2>1, <2>3, TypedInit DEF Honest
<1>2. Honest /\ [Next]_vars => Honest'
  <2> SUFFICES ASSUME Honest, [Next]_vars PROVE Honest'
    OBVIOUS
  <2>1. Closed'
    <3>1. CASE UNCHANGED vars
      <4>1. /\ UNCHANGED <<payload, namesakes, picked, found, judged, open, spoilt, log, source, pc, run, status,
                           verdict, copies, withOptions>>
        BY <3>1 DEF vars, capture, site, runs, plan, work, closure, hist
      <4>2. /\ Touched' = Touched /\ Failed' = Failed /\ (Done' <=> Done)
            /\ (Undisturbed' <=> Undisturbed) /\ \A f : ClosedNow(f)' <=> ClosedNow(f)
        BY <4>1, TouchedStays DEF Failed, Done, Undisturbed, ClosedNow, Sees
      <4>3. QED
        BY <4>1, <4>2 DEF Honest, Closed, Verifiable
    <3>2. QED
      BY <3>1, ClosedStep DEF Honest
  <2>2. Typed' /\ Fitting' /\ MadeBy' /\ Effective'
    BY TypedStep, FittingStep, MadeByStep, EffectiveStep DEF Honest
  <2>3. QED
    BY <2>1, <2>2 DEF Honest
<1>3. Honest => CleanMeansDone
  BY CleanIsDone
<1>4. QED
  BY <1>1, <1>2, <1>3, PTL DEF Spec
=============================================================================
