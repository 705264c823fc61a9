----------------------------- MODULE RunProofs -----------------------------
(***************************************************************************)
(* Proofs about composite runs, for every list of steps, every bound and   *)
(* every choice of Possible: type correctness.  BoundProofs goes on.       *)
(***************************************************************************)
EXTENDS CompositeRun, SequenceTheorems, WellFoundedInduction, TLAPS

----------------------------------------------------------------------------
(* Facts about the data *)

(* A workflow's role is a role, and it writes code or does not. *)
LEMMA DefinitionTypes ==
  ASSUME NEW workflow \in DOMAIN Definition
  PROVE  Definition[workflow].role \in Role /\ Definition[workflow].mutates \in BOOLEAN
<1>1. Definition[workflow].role \in Role
  BY DEF Role
<1>2. Definition[workflow].mutates \in BOOLEAN
  <2>1. PlanFeature.mutates \in BOOLEAN
    BY DEF PlanFeature, Atomic
  <2>2. ImplementApprovedPlan.mutates \in BOOLEAN
    BY DEF ImplementApprovedPlan, Atomic
  <2>3. FullVerify.mutates \in BOOLEAN
    BY DEF FullVerify, Atomic
  <2>4. SmokeTest.mutates \in BOOLEAN
    BY DEF SmokeTest, Atomic
  <2>5. VerifyChecks.mutates \in BOOLEAN
    BY DEF VerifyChecks, Atomic
  <2>6. IndependentReview.mutates \in BOOLEAN
    BY DEF IndependentReview, Atomic
  <2>7. AddressReviewComments.mutates \in BOOLEAN
    BY DEF AddressReviewComments, Atomic
  <2>8. FinalizeChange.mutates \in BOOLEAN
    BY DEF FinalizeChange, Atomic
  <2>9. InvestigateIssue.mutates \in BOOLEAN
    BY DEF InvestigateIssue, Atomic
  <2>10. ImplementFix.mutates \in BOOLEAN
    BY DEF ImplementFix, Atomic
  <2>11. RebaseStack.mutates \in BOOLEAN
    BY DEF RebaseStack, Atomic
  <2> QED BY <2>1, <2>2, <2>3, <2>4, <2>5, <2>6, <2>7, <2>8, <2>9, <2>10, <2>11 DEF Definition
<1> QED BY <1>1, <1>2

LEMMA StepTypes ==
  /\ Len(Steps) \in Nat \ {0} /\ DOMAIN Steps = 1..Len(Steps)
  /\ \A i \in DOMAIN Steps : Steps[i] \in StepType
  /\ \A i \in DOMAIN Steps : Steps[i].workflow \in DOMAIN Definition /\ Steps[i].max \in Nat \ {0}
<1>1. Len(Steps) \in Nat /\ DOMAIN Steps = 1..Len(Steps)
  BY StepsAreWellFormed, LenProperties
<1>2. Len(Steps) # 0
  BY StepsAreWellFormed, EmptySeq
<1>3. \A i \in DOMAIN Steps : Steps[i] \in StepType
  BY <1>1, StepsAreWellFormed, ElementOfSeq
<1>4. \A step \in StepType : step.workflow \in DOMAIN Definition /\ step.max \in Nat \ {0}
  BY DEF StepType
<1> QED BY <1>1, <1>2, <1>3, <1>4

(* The worker table: adding a row, rewriting one, rewriting all. *)
LEMMA WorkerTable ==
  ASSUME workers \in Seq(Worker)
  PROVE  /\ Len(workers) \in Nat /\ DOMAIN workers = 1..Len(workers)
         /\ \A w \in DOMAIN workers : workers[w] \in Worker
         /\ 0 \notin DOMAIN workers
BY LenProperties, ElementOfSeq

LEMMA RowRewritten ==
  ASSUME workers \in Seq(Worker), NEW w \in DOMAIN workers, NEW row \in Worker, SetWorker(w, row)
  PROVE  workers' \in Seq(Worker) /\ DOMAIN workers' = DOMAIN workers
BY ExceptSeq DEF SetWorker

LEMMA RowsRewritten ==
  ASSUME workers \in Seq(Worker), NEW rows,
         rows = [w \in DOMAIN workers |-> rows[w]],
         \A w \in DOMAIN workers : rows[w] \in Worker
  PROVE  /\ rows \in Seq(Worker)
         /\ Len(rows) = Len(workers) /\ DOMAIN rows = DOMAIN workers
<1>1. Len(workers) \in Nat /\ DOMAIN workers = 1..Len(workers)
  BY WorkerTable
<1>2. rows \in [1..Len(workers) -> Worker]
  BY <1>1
<1> QED BY <1>1, <1>2, SeqDef, LenProperties

LEMMA RowAdded ==
  ASSUME NEW rows \in Seq(Worker), NEW row \in Worker
  PROVE  /\ Append(rows, row) \in Seq(Worker)
         /\ DOMAIN Append(rows, row) = 1..(Len(rows) + 1) /\ Len(rows) + 1 \in Nat \ {0}
         /\ DOMAIN rows = 1..Len(rows)
BY AppendProperties, LenProperties

(* A set of numbers up to n that is not empty has a largest. *)
LEMMA LargestExists ==
  ASSUME NEW n \in Nat, NEW S \in SUBSET (1..n), S # {}
  PROVE  \E w \in S : \A v \in S : v <= w
<1> DEFINE T == {n - w : w \in S}
           Less == OpToRel(<, Nat)
<1>1. T \subseteq Nat /\ T # {}
  <2>1. \A w \in S : n - w \in Nat
    OBVIOUS
  <2> QED BY <2>1
<1>2. IsWellFoundedOn(Less, Nat)
  BY NatLessThanWellFounded
<1>3. \A x, y \in Nat : <<x, y>> \in Less <=> x < y
  BY DEF OpToRel
<1> HIDE DEF T, Less
<1>4. PICK m \in T : \A x \in T : <<x, m>> \notin Less
  BY <1>1, <1>2, WFMin
<1>5. \A x \in T : ~(x < m)
  BY <1>1, <1>3, <1>4
<1>6. PICK w \in S : m = n - w
  BY DEF T
<1>7. \A v \in S : v <= w
  <2> SUFFICES ASSUME NEW v \in S
               PROVE  v <= w
    OBVIOUS
  <2>1. ~(n - v < n - w)
    BY <1>5, <1>6 DEF T
  <2> QED BY <2>1
<1> QED BY <1>7

(* The worker a step reuses is one that it may reuse: the newest exists.    *)
LEMMA WorkerReused ==
  ASSUME workers \in Seq(Worker), NEW step
  PROVE  WorkerForStep(step) = 0 \/ WorkerForStep(step) \in Reusable(step)
<1> DEFINE found == Reusable(step)
           newest == CHOOSE w \in found : \A v \in found : v <= w
<1>1. WorkerForStep(step) = 0 \/ (found # {} /\ WorkerForStep(step) = newest)
  BY Zenon DEF WorkerForStep
<1>2. Len(workers) \in Nat /\ found \in SUBSET (1..Len(workers))
  BY WorkerTable DEF Reusable
<1> HIDE DEF found
<1>3. ASSUME found # {} PROVE newest \in found
  <2>1. \E w \in found : \A v \in found : v <= w
    BY <1>2, <1>3, LargestExists
  <2> QED BY <2>1, Zenon
<1> QED BY <1>1, <1>3 DEF found

(* What the operators on one worker's row leave it. *)
LEMMA RowTypes ==
  ASSUME NEW row \in Worker
  PROVE  /\ Stopped(row) \in Worker /\ HandedBack(row) \in Worker
         /\ \A serves \in Nat : Prompted(row, serves) \in Worker
         /\ Adopted(row) \in Worker /\ Recreated(row) \in Worker /\ Disconnected(row) \in Worker
<1>1. <<>> \in Seq(Event)
  BY EmptySeq
<1>2. Stopped(row) \in Worker
  BY <1>1 DEF Worker, Stopped, WorkerStatus, Pane
<1>3. HandedBack(row) \in Worker
  BY DEF Worker, HandedBack, WorkerStatus, TurnState
<1>4. \A serves \in Nat : Prompted(row, serves) \in Worker
  BY DEF Worker, Prompted, WorkerStatus, TurnState
<1>5. Adopted(row) \in Worker
  BY DEF Worker, Adopted, WorkerStatus
<1>6. Recreated(row) \in Worker
  BY <1>1 DEF Worker, Recreated, WorkerStatus, TurnState, Pane
<1>7. Disconnected(row) \in Worker
  BY <1>1 DEF Worker, Disconnected, WorkerStatus
<1> QED BY <1>2, <1>3, <1>4, <1>5, <1>6, <1>7

LEMMA NewRowTypes ==
  ASSUME NEW workflow \in DOMAIN Definition, NEW launch \in {"run", "hand"}, NEW serves \in Nat
  PROVE  NewWorker(workflow, launch, serves) \in Worker
<1>1. <<>> \in Seq(Event)
  BY EmptySeq
<1> QED BY <1>1, DefinitionTypes DEF NewWorker, Worker, WorkerStatus, TurnState, Pane

LEMMA HeadTypes ==
  ASSUME head \in 0..MaxHead, NEW workflow
  PROVE  HeadWith(workflow) \in 0..MaxHead
BY RunBounds DEF HeadWith

LEMMA OneMore ==
  ASSUME NEW D, NEW f \in [D -> Nat], NEW i \in D
  PROVE  [f EXCEPT ![i] = @ + 1] \in [D -> Nat]
<1>1. f[i] + 1 \in Nat
  OBVIOUS
<1> QED BY <1>1

LEMMA OneLess ==
  ASSUME NEW D, NEW f \in [D -> Nat], NEW i
  PROVE  [f EXCEPT ![i] = IF @ = 0 THEN 0 ELSE @ - 1] \in [D -> Nat]
<1>1. CASE i \in D
  <2>1. f[i] \in Nat
    BY <1>1
  <2>2. (IF f[i] = 0 THEN 0 ELSE f[i] - 1) \in Nat
    BY <2>1
  <2> QED BY <1>1, <2>2
<1>2. CASE i \notin D
  BY <1>2, Zenon
<1> QED BY <1>1, <1>2

(* What the operators on the run row leave it. *)
LEMMA RunRowTypes ==
  ASSUME NEW r \in Run
  PROVE  /\ Unassigned(r) \in Run /\ Unassigned(r).current = 0
         /\ r.step \in DOMAIN Steps => \A w \in Nat : Reserved(r, w) \in Run /\ Reserved(r, w).current = w
         /\ \A w : Unpaused(r, w) \in Run /\ Unpaused(r, w).current = r.current
         /\ \A w : Completed(r, w) \in Run /\ Completed(r, w).current = r.current
         /\ \A w : \A status \in Paused : PausedIf(r, w, status) \in Run /\ PausedIf(r, w, status).current = r.current
         /\ \A status \in RunStatus : [r EXCEPT !.status = status] \in Run /\ [r EXCEPT !.status = status].current = r.current
<1>1. Unassigned(r) \in Run /\ Unassigned(r).current = 0
  BY DEF Run, Unassigned
<1>2. r.step \in DOMAIN Steps => \A w \in Nat : Reserved(r, w) \in Run /\ Reserved(r, w).current = w
  <2> SUFFICES ASSUME NEW w \in Nat, r.step \in DOMAIN Steps PROVE Reserved(r, w) \in Run /\ Reserved(r, w).current = w
    OBVIOUS
  <2> DEFINE u == Unassigned(r)
             taken == [u.iterations EXCEPT ![r.step] = @ + 1]
  <2>1. u.iterations \in [DOMAIN Steps -> Nat] /\ u \in Run
    BY <1>1 DEF Run
  <2>2. taken \in [DOMAIN Steps -> Nat]
    BY <2>1, OneMore
  <2>3. Reserved(r, w) = [u EXCEPT !.current = w, !.status = "running", !.iterations = taken]
    BY DEF Reserved
  <2> HIDE DEF u, taken
  <2> QED BY <2>1, <2>2, <2>3 DEF Run, RunStatus
<1>3. \A w : Unpaused(r, w) \in Run /\ Unpaused(r, w).current = r.current
  BY DEF Run, Unpaused, RunStatus
<1>4. \A w : Completed(r, w) \in Run /\ Completed(r, w).current = r.current
  BY DEF Run, Completed
<1>5. \A w : \A status \in Paused : PausedIf(r, w, status) \in Run /\ PausedIf(r, w, status).current = r.current
  BY DEF Run, PausedIf, RunStatus, Paused
<1>6. \A status \in RunStatus : [r EXCEPT !.status = status] \in Run /\ [r EXCEPT !.status = status].current = r.current
  BY DEF Run
<1> QED BY <1>1, <1>2, <1>3, <1>4, <1>5, <1>6

----------------------------------------------------------------------------
(* Type correctness *)

(* The part of the types an advance can disturb. *)
Rows == run \in Run /\ run.current \in {0} \union DOMAIN workers /\ workers \in Seq(Worker)
Counters == head \in 0..MaxHead /\ dispatch \in Nat
(* Workers are never taken out of the table. *)
Grows == DOMAIN workers \subseteq DOMAIN workers'

LEMMA StayTypes ==
  ASSUME Rows, Counters, NEW r \in Run, r.current \in {0} \union DOMAIN workers, Stay(r)
  PROVE  Rows' /\ Counters' /\ Grows
BY DEF Rows, Counters, Grows, Stay

LEMMA SendStepTypes ==
  ASSUME Rows, Counters, NEW r \in Run, r.current \in {0} \union DOMAIN workers,
         r.step \in DOMAIN Steps, NEW w \in DOMAIN workers, SendStep(r, w)
  PROVE  Rows' /\ Counters' /\ Grows
<1> DEFINE step == Steps[r.step]
           row == [workers[w] EXCEPT !.workflow = step.workflow]
           chosen == [workers EXCEPT ![w] = row]
<1>1. workers[w] \in Worker /\ w \in Nat
  BY WorkerTable DEF Rows
<1>2. row \in Worker
  BY <1>1, StepTypes DEF Worker
<1>3. chosen \in Seq(Worker) /\ DOMAIN chosen = DOMAIN workers /\ chosen[w] = row
  BY <1>2, ExceptSeq DEF Rows
<1>4. chosen = [workers EXCEPT ![w].workflow = step.workflow]
  OBVIOUS
<1>5. CASE LaneOpen(workers[w]) /\ workers[w].pane = "ready"
  <2>1. /\ run' = Reserved(r, w) /\ dispatch' = dispatch + 1 /\ head' = head
        /\ workers' = [chosen EXCEPT ![w] = Prompted(row, dispatch + 1)]
    BY <1>3, <1>4, <1>5 DEF SendStep
  <2>2. dispatch' \in Nat
    BY <2>1 DEF Counters
  <2>3. Prompted(row, dispatch + 1) \in Worker
    BY <1>2, <2>1, <2>2, RowTypes
  <2>4. workers' \in Seq(Worker) /\ DOMAIN workers' = DOMAIN workers
    BY <1>3, <2>1, <2>3, ExceptSeq
  <2>5. run' \in Run /\ run'.current = w
    BY <1>1, <2>1, RunRowTypes
  <2> QED BY <2>1, <2>2, <2>4, <2>5 DEF Rows, Counters, Grows
<1>6. CASE ~(LaneOpen(workers[w]) /\ workers[w].pane = "ready")
  <2>1. /\ run' = [r EXCEPT !.status = "blocked"] /\ dispatch' = dispatch /\ head' = head
        /\ \/ workers' = [chosen EXCEPT ![w] = [row EXCEPT !.status = "disconnected"]]
           \/ workers' = chosen
    BY <1>3, <1>4, <1>6 DEF SendStep
  <2>2. [row EXCEPT !.status = "disconnected"] \in Worker
    BY <1>2 DEF Worker, WorkerStatus
  <2>3. workers' \in Seq(Worker) /\ DOMAIN workers' = DOMAIN workers
    <3> DEFINE off == [row EXCEPT !.status = "disconnected"]
    <3>1. CASE workers' = [chosen EXCEPT ![w] = off]
      <4> HIDE DEF off, chosen
      <4> QED BY <1>3, <2>2, <3>1, ExceptSeq DEF off
    <3>2. CASE workers' = chosen
      BY <1>3, <3>2
    <3> QED BY <2>1, <3>1, <3>2
  <2>4. run' \in Run /\ run'.current = r.current
    BY <2>1, RunRowTypes DEF RunStatus
  <2> QED BY <2>1, <2>3, <2>4 DEF Rows, Counters, Grows
<1> QED BY <1>5, <1>6

LEMMA LaunchStepTypes ==
  ASSUME Rows, Counters, NEW r \in Run, r.current \in {0} \union DOMAIN workers,
         r.step \in DOMAIN Steps, LaunchStep(r)
  PROVE  Rows' /\ Counters' /\ Grows
<1> DEFINE workflow == Steps[r.step].workflow
           kept == Retiring(workflow)
           added == NewWorker(workflow, "run", dispatch + 1)
<1>1. workflow \in DOMAIN Definition
  BY StepTypes
<1>2. \A w \in DOMAIN workers : workers[w] \in Worker /\ kept[w] \in Worker
  BY WorkerTable, RowTypes DEF Retiring, Rows
<1>3. kept \in Seq(Worker) /\ DOMAIN kept = DOMAIN workers
  BY <1>2, RowsRewritten DEF Retiring, Rows
<1>4. CASE DuplicateWorker(kept, workflow)
  <2>1. run' = [r EXCEPT !.status = "blocked"] /\ workers' = kept /\ UNCHANGED <<head, dispatch>>
    BY <1>4 DEF LaunchStep
  <2>2. run' \in Run /\ run'.current = r.current
    BY <2>1, RunRowTypes DEF RunStatus
  <2> QED BY <1>3, <2>1, <2>2 DEF Rows, Counters, Grows
<1>5. CASE ~DuplicateWorker(kept, workflow)
  <2>1. /\ run' = Reserved(r, Len(kept) + 1) /\ workers' = Append(kept, added)
        /\ head' = HeadWith(workflow) /\ dispatch' = dispatch + 1
    BY <1>5 DEF LaunchStep
  <2>2. dispatch' \in Nat /\ head' \in 0..MaxHead
    BY <2>1, HeadTypes DEF Counters
  <2>3. added \in Worker
    BY <1>1, <2>1, <2>2, NewRowTypes
  <2>4. /\ workers' \in Seq(Worker) /\ DOMAIN workers \subseteq DOMAIN workers'
        /\ Len(kept) + 1 \in DOMAIN workers' /\ Len(kept) + 1 \in Nat
    BY <1>3, <2>1, <2>3, RowAdded
  <2>5. run' \in Run /\ run'.current = Len(kept) + 1
    BY <2>1, <2>4, RunRowTypes
  <2> QED BY <2>2, <2>4, <2>5 DEF Rows, Counters, Grows
<1> QED BY <1>4, <1>5

LEMMA DispatchTypes ==
  ASSUME Rows, Counters, NEW r \in Run, r.current \in {0} \union DOMAIN workers, NEW from,
         Dispatch(r, from)
  PROVE  Rows' /\ Counters' /\ Grows
<1>1. PICK next \in 1..Len(Steps) + 1 :
        LET at == [r EXCEPT !.step = next]
        IN IF next > Len(Steps) THEN Stay([at EXCEPT !.status = "completed"])
           ELSE LET reuse == WorkerForStep(Steps[next])
                IN IF ~Prerequisites(Steps[next].workflow)
                   THEN Stay([at EXCEPT !.status = "awaiting_approval"])
                   ELSE IF reuse # 0 THEN SendStep(at, reuse) ELSE LaunchStep(at)
  BY DEF Dispatch
<1> DEFINE at == [r EXCEPT !.step = next]
           reuse == WorkerForStep(Steps[next])
<1>2. at \in Run /\ at.current = r.current /\ at.step = next
  BY DEF Run
<1>3. \A status \in RunStatus :
        [at EXCEPT !.status = status] \in Run /\ [at EXCEPT !.status = status].current = r.current
  BY <1>2, RunRowTypes
<1> HIDE DEF at
<1>4. reuse = 0 \/ reuse \in DOMAIN workers
  BY WorkerReused DEF Reusable, Rows
<1>5. CASE Stay([at EXCEPT !.status = "completed"])
  BY <1>3, <1>5, StayTypes DEF RunStatus
<1>6. CASE Stay([at EXCEPT !.status = "awaiting_approval"])
  BY <1>3, <1>6, StayTypes DEF RunStatus
<1>7. CASE next \in DOMAIN Steps /\ reuse # 0 /\ SendStep(at, reuse)
  BY <1>2, <1>4, <1>7, SendStepTypes
<1>8. CASE next \in DOMAIN Steps /\ LaunchStep(at)
  BY <1>2, <1>8, LaunchStepTypes
<1>9. next > Len(Steps) \/ next \in DOMAIN Steps
  BY StepTypes
<1> QED BY <1>1, <1>5, <1>6, <1>7, <1>8, <1>9 DEF at

LEMMA AdvanceTypes ==
  ASSUME Rows, Counters, NEW r \in Run, r.current \in {0} \union DOMAIN workers, AdvanceFrom(r)
  PROVE  Rows' /\ Counters' /\ Grows
<1>1. Unassigned(r) \in Run /\ Unassigned(r).current \in {0} \union DOMAIN workers
  BY RunRowTypes
<1>2. /\ [r EXCEPT !.status = "awaiting_approval"] \in Run
      /\ [r EXCEPT !.status = "awaiting_approval"].current = r.current
  BY RunRowTypes DEF RunStatus
<1>3. \/ Stay(r) \/ Stay([r EXCEPT !.status = "awaiting_approval"])
      \/ Dispatch(r, r.step) \/ Dispatch(Unassigned(r), r.step + 1)
  BY DEF AdvanceFrom
<1> QED BY <1>1, <1>2, <1>3, StayTypes, DispatchTypes

(* The rest of the types. *)
Evidence == artifacts \in [ArtifactType -> [at : 0..MaxHead + 1, ok : BOOLEAN]] /\ plan \in Plan
Control ==
  wake \in BOOLEAN /\ phase \in {"up", "down", "recovering"} /\ recreated \subseteq DOMAIN workers
Uses == used \in [Allowance -> Nat]

LEMMA TypeParts == TypeOK <=> Rows /\ Counters /\ Evidence /\ Control /\ Uses
BY DEF TypeOK, Rows, Counters, Evidence, Control, Uses

LEMMA TypePartsNext == Rows' /\ Counters' /\ Evidence' /\ Control' /\ Uses' => TypeOK'
BY DEF TypeOK, Rows, Counters, Evidence, Control, Uses

LEMMA UseTypes ==
  ASSUME Uses, NEW name \in Allowance, Use(name)
  PROVE  Uses'
BY OneMore DEF Use, Uses

LEMMA FreshRunTypes ==
  ASSUME Counters
  PROVE  FreshRun \in Run /\ FreshRun.current = 0
<1>1. 1 \in 1..Len(Steps) + 1 /\ head \in Nat
  BY StepTypes, RunBounds DEF Counters
<1>2. [i \in DOMAIN Steps |-> 0] \in [DOMAIN Steps -> Nat]
  OBVIOUS
<1> QED BY <1>1, <1>2 DEF FreshRun, Run, RunStatus

LEMMA InitTypes == Init => TypeOK
<1> SUFFICES ASSUME Init PROVE TypeOK
  OBVIOUS
<1>1. workers \in Seq(Worker)
  BY EmptySeq DEF Init
<1>2. head \in 0..MaxHead /\ dispatch \in Nat
  BY RunBounds DEF Init
<1>3. run \in Run /\ run.current = 0
  BY <1>2, FreshRunTypes, RunRowTypes DEF Init, RunStatus, Counters
<1>4. Evidence
  BY RunBounds DEF Init, Evidence, Plan
<1>5. Control /\ Uses
  BY DEF Init, Control, Uses
<1> QED BY <1>1, <1>2, <1>3, <1>4, <1>5, TypeParts DEF Rows, Counters

(* The controller's steps that advance a run. *)
LEMMA RefundedTypes ==
  ASSUME Rows
  PROVE  /\ Refunded(run) \in Run
         /\ Refunded(run).current = run.current /\ Refunded(run).step = run.step
         /\ Refunded(run).iterations = [run.iterations EXCEPT ![run.step] = IF @ = 0 THEN 0 ELSE @ - 1]
<1> DEFINE given == [run.iterations EXCEPT ![run.step] = IF @ = 0 THEN 0 ELSE @ - 1]
<1>1. run.iterations \in [DOMAIN Steps -> Nat]
  BY DEF Rows, Run
<1>2. given \in [DOMAIN Steps -> Nat]
  BY <1>1, OneLess
<1>3. Refunded(run) = [run EXCEPT !.iterations = given]
  BY DEF Refunded
<1> HIDE DEF given
<1>4. /\ Refunded(run) \in Run /\ Refunded(run).current = run.current
      /\ Refunded(run).step = run.step /\ Refunded(run).iterations = given
  BY <1>2, <1>3 DEF Rows, Run
<1> QED BY <1>4 DEF given

LEMMA ResumedTypes ==
  ASSUME Rows
  PROVE  \E base \in Run :
           /\ base = IF Untrusted THEN Unassigned(Refunded(run)) ELSE run
           /\ base.current \in {0, run.current}
           /\ Resumed \in Run /\ Resumed.current = base.current
           /\ Resumed.step = base.step /\ Resumed.iterations = base.iterations
<1> DEFINE base == IF Untrusted THEN Unassigned(Refunded(run)) ELSE run
<1>1. base \in Run /\ base.current \in {0, run.current}
  BY RefundedTypes, RunRowTypes DEF Rows
<1> HIDE DEF base
<1>2. PICK granted \in BOOLEAN :
        Resumed = [base EXCEPT !.status = "running",
                               !.approved = IF granted THEN @ \union {run.step} ELSE @]
  BY DEF Resumed, base
<1>3. /\ Resumed \in Run /\ Resumed.current = base.current
      /\ Resumed.step = base.step /\ Resumed.iterations = base.iterations
  BY <1>1, <1>2 DEF Run, RunStatus, Rows
<1> QED BY <1>1, <1>3 DEF base

LEMMA AdvancesTypes ==
  ASSUME TypeOK, StartRun \/ Advance \/ ResumeRun \/ RecoverRun
  PROVE  TypeOK'
<1> USE TypeParts
<1>1. Evidence' /\ Uses'
  BY DEF StartRun, Advance, ResumeRun, RecoverRun, Evidence, Uses
<1>2. ASSUME Grows PROVE Control'
  BY <1>2 DEF StartRun, Advance, ResumeRun, RecoverRun, Control, controller, Grows
<1>3. Rows' /\ Counters' /\ Grows
  <2>1. CASE StartRun
    BY <2>1, AdvanceTypes, FreshRunTypes DEF StartRun
  <2>2. CASE Advance
    BY <2>2, AdvanceTypes DEF Advance, Rows
  <2>3. CASE ResumeRun
    <3>1. Resumed \in Run /\ Resumed.current \in {0, run.current}
      BY ResumedTypes
    <3> QED BY <2>3, <3>1, AdvanceTypes DEF ResumeRun, Rows
  <2>4. CASE RecoverRun
    <3>1. [run EXCEPT !.status = "blocked"] \in Run /\ [run EXCEPT !.status = "blocked"].current = run.current
      BY RunRowTypes DEF Rows, RunStatus
    <3> QED BY <2>4, <3>1, AdvanceTypes, StayTypes DEF RecoverRun, Rows
  <2> QED BY <2>1, <2>2, <2>3, <2>4
<1> QED BY <1>1, <1>2, <1>3, TypePartsNext

(* A step that rewrites one worker's row and leaves the run with a worker it has. *)
LEMMA RewriteTypes ==
  ASSUME Rows, Control, NEW w \in DOMAIN workers, NEW row \in Worker, SetWorker(w, row),
         run' \in Run, run'.current \in {run.current, w}
  PROVE  Rows' /\ (UNCHANGED controller /\ wake' \in BOOLEAN => Control')
<1>1. workers' \in Seq(Worker) /\ DOMAIN workers' = DOMAIN workers
  BY RowRewritten DEF Rows
<1> QED BY <1>1 DEF Rows, Control, controller

(* Launches, endings and what the user does to a session. *)
LEMMA WorkerStepTypes ==
  ASSUME TypeOK, NEW w \in DOMAIN workers,
         \/ LaunchAppears(w) \/ LaunchReady(w) \/ LaunchStalls(w)
         \/ ClaudeAccepts(w) \/ PaneDies(w) \/ StartupAnswered(w)
         \/ Attach(w) \/ Detach(w) \/ Send(w) \/ StopWorker(w)
  PROVE  TypeOK'
<1> USE TypeParts
<1>1. workers[w] \in Worker /\ run \in Run /\ w \in Nat
  BY WorkerTable DEF Rows
<1>2. Evidence' /\ Counters'
  BY DEF LaunchAppears, LaunchReady, LaunchStalls, ClaudeAccepts, PaneDies, StartupAnswered, Attach,
     Detach, Send, StopWorker, Evidence, Counters
<1>3. Uses'
  BY UseTypes DEF LaunchAppears, LaunchReady, LaunchStalls, ClaudeAccepts, PaneDies, StartupAnswered,
     Attach, Detach, Send, StopWorker, Uses, Allowance
<1>4. /\ \A pane \in Pane : [workers[w] EXCEPT !.pane = pane] \in Worker
      /\ \A turn \in TurnState : [workers[w] EXCEPT !.turn = turn] \in Worker
      /\ \A status \in WorkerStatus : [workers[w] EXCEPT !.status = status] \in Worker
      /\ \A pane \in Pane, status \in WorkerStatus :
           [workers[w] EXCEPT !.launch = "none", !.pane = pane, !.status = status] \in Worker
      /\ \A tainted \in BOOLEAN : [workers[w] EXCEPT !.owner = "human", !.tainted = tainted] \in Worker
  BY <1>1 DEF Worker
<1>5. \A row \in Worker :
        /\ [row EXCEPT !.launch = "none", !.pane = "ready", !.owes = FALSE] \in Worker
        /\ [row EXCEPT !.owes = FALSE] \in Worker
  BY DEF Worker, Pane
<1>6. wake' = wake /\ UNCHANGED controller
  BY DEF LaunchAppears, LaunchReady, LaunchStalls, ClaudeAccepts, PaneDies, StartupAnswered, Attach,
     Detach, Send, StopWorker
<1>7. ASSUME NEW row \in Worker, SetWorker(w, row), run' \in Run, run'.current \in {run.current, w}
      PROVE  TypeOK'
  BY <1>2, <1>3, <1>6, <1>7, RewriteTypes, TypePartsNext DEF Control
<1>8. CASE LaunchAppears(w)
  BY <1>1, <1>4, <1>7, <1>8 DEF LaunchAppears, Pane
<1>9. CASE LaunchReady(w)
  <2>1. workers[w].serves \in Nat
    BY <1>1 DEF Worker
  <2>2. Prompted(workers[w], workers[w].serves) \in Worker
    BY <1>1, <2>1, RowTypes
  <2>3. run' \in {run, Unpaused(run, w)}
    BY <1>9 DEF LaunchReady
  <2>4. run' \in Run /\ run'.current = run.current
    BY <1>1, <2>3, RunRowTypes
  <2> QED BY <1>5, <1>7, <1>9, <2>2, <2>4 DEF LaunchReady
<1>10. CASE LaunchStalls(w)
  <2>1. PICK pane \in {"none", "starting", "ready"} :
          SetWorker(w, [workers[w] EXCEPT !.launch = "none", !.pane = pane,
                           !.status = IF pane = "none" THEN "failed" ELSE "blocked"])
    BY <1>10 DEF LaunchStalls
  <2>2. run' = [Unassigned(run) EXCEPT !.current = w, !.status = "blocked"] \/ run' = run
    BY <1>10 DEF LaunchStalls
  <2>3. run' \in Run /\ run'.current \in {run.current, w}
    <3> DEFINE u == Unassigned(run)
    <3>1. u \in Run
      BY <1>1, RunRowTypes
    <3> HIDE DEF u
    <3>2. [u EXCEPT !.current = w, !.status = "blocked"] \in Run
      BY <1>1, <3>1 DEF Run, RunStatus
    <3>3. [u EXCEPT !.current = w, !.status = "blocked"].current = w
      BY <3>1 DEF Run
    <3> QED BY <1>1, <2>2, <3>2, <3>3 DEF u
  <2> QED BY <1>4, <1>7, <2>1, <2>3 DEF Pane, WorkerStatus
<1>11. CASE ClaudeAccepts(w)
  BY <1>1, <1>4, <1>7, <1>11 DEF ClaudeAccepts, TurnState
<1>12. CASE PaneDies(w)
  <2> DEFINE lost == Append(workers[w].events, [kind |-> "lost", serves |-> 0])
  <2>1. workers[w].events \in Seq(Event) /\ [kind |-> "lost", serves |-> 0] \in Event
    BY <1>1 DEF Worker, Event
  <2>2. lost \in Seq(Event)
    BY <2>1, AppendProperties
  <2>3. PICK events \in Seq(Event) :
          SetWorker(w, [workers[w] EXCEPT !.pane = "none", !.events = events])
    BY <1>12, <2>1, <2>2 DEF PaneDies
  <2>4. [workers[w] EXCEPT !.pane = "none", !.events = events] \in Worker
    BY <1>1 DEF Worker, Pane
  <2> QED BY <1>1, <1>7, <1>12, <2>3, <2>4 DEF PaneDies
<1>13. CASE StartupAnswered(w)
  BY <1>1, <1>4, <1>7, <1>13 DEF StartupAnswered, Pane
<1>14. CASE Attach(w)
  <2>1. PICK tainted \in BOOLEAN :
          SetWorker(w, [workers[w] EXCEPT !.owner = "human", !.tainted = tainted])
    BY <1>1, <1>14 DEF Attach, Worker
  <2>2. run' = [PausedIf(run, w, "blocked") EXCEPT !.intervened = TRUE] \/ run' = run
    BY <1>14 DEF Attach
  <2>3. PausedIf(run, w, "blocked") \in Run /\ PausedIf(run, w, "blocked").current = run.current
    BY <1>1, RunRowTypes DEF Paused
  <2>4. run' \in Run /\ run'.current = run.current
    BY <1>1, <2>2, <2>3 DEF Run
  <2> QED BY <1>4, <1>7, <2>1, <2>4
<1>15. CASE Detach(w)
  <2> DEFINE back == HandedBack(workers[w])
  <2>1. back \in Worker /\ back.serves \in Nat
    BY <1>1, RowTypes DEF Worker
  <2>2. Prompted(back, back.serves) \in Worker
    BY <2>1, RowTypes
  <2>3. Unpaused(run, w) \in Run /\ Unpaused(run, w).current = run.current
    BY <1>1, RunRowTypes
  <2>4. \/ SetWorker(w, [Prompted(back, back.serves) EXCEPT !.owes = FALSE]) /\ run' = Unpaused(run, w)
        \/ SetWorker(w, back) /\ run' = run
    BY <1>15 DEF Detach
  <2> HIDE DEF back
  <2> QED BY <1>1, <1>5, <1>7, <2>1, <2>2, <2>3, <2>4
<1>16. CASE Send(w)
  <2>1. \A serves \in Nat : Prompted(workers[w], serves) \in Worker
    BY <1>1, RowTypes
  <2>2. Unpaused(run, w) \in Run /\ Unpaused(run, w).current = run.current
    BY <1>1, RunRowTypes
  <2>3. \/ \E serves \in Nat : SetWorker(w, Prompted(workers[w], serves)) /\ run' = Unpaused(run, w)
        \/ SetWorker(w, [workers[w] EXCEPT !.status = "disconnected"]) /\ run' = run
    BY <1>16 DEF Send, Counters
  <2> QED BY <1>1, <1>4, <1>7, <2>1, <2>2, <2>3 DEF WorkerStatus
<1>17. CASE StopWorker(w)
  BY <1>1, <1>7, <1>17, RowTypes DEF StopWorker
<1> QED BY <1>8, <1>9, <1>10, <1>11, <1>12, <1>13, <1>14, <1>15, <1>16, <1>17

(* What Claude leaves at the end of a turn, and how an event is applied. *)
LEMMA HarvestTypes ==
  ASSUME TypeOK, NEW w \in DOMAIN workers, Harvest(w) \/ HarvestNothing
  PROVE  Evidence'
<1>1. \A ok \in BOOLEAN : Harvested(w, ok) \in [ArtifactType -> [at : 0..MaxHead + 1, ok : BOOLEAN]]
  <2>1. WorkerHead(w) \in 0..MaxHead + 1
    BY RunBounds DEF WorkerHead, TypeOK
  <2> QED BY <2>1 DEF Harvested, TypeOK
<1>2. PlanWritten(w) \subseteq Plan
  BY DEF PlanWritten, Plan, TypeOK
<1> QED BY <1>1, <1>2 DEF Harvest, HarvestNothing, Evidence, TypeOK

LEMMA ConsumedTypes ==
  ASSUME Rows, NEW w \in DOMAIN workers, workers[w].events # <<>>, NEW status \in WorkerStatus
  PROVE  Consumed(w, status) \in Worker /\ Consumed(w, workers[w].status) \in Worker
<1>1. workers[w] \in Worker /\ workers[w].events \in Seq(Event)
  BY WorkerTable DEF Rows, Worker
<1>2. Tail(workers[w].events) \in Seq(Event)
  BY <1>1, HeadTailProperties
<1> QED BY <1>1, <1>2 DEF Consumed, Worker

LEMMA EventTypes ==
  ASSUME TypeOK, NEW w \in DOMAIN workers, ApplyEvent(w) \/ ApplyFails(w)
  PROVE  TypeOK'
<1> USE TypeParts
<1>1. workers[w].events # <<>> /\ run \in Run
  BY DEF ApplyEvent, ApplyFails, Rows
<1>2. Counters' /\ Uses' /\ UNCHANGED controller
  BY DEF ApplyEvent, ApplyFails, Counters, Uses
<1> DEFINE kind == Head(workers[w].events).kind
<1>3. StatusAfter(kind) \in WorkerStatus
  BY DEF StatusAfter, WorkerStatus
<1>4. \E row \in Worker : SetWorker(w, row)
  BY <1>1, <1>3, ConsumedTypes DEF ApplyEvent, ApplyFails, ApplyTo
<1>5. Harvest(w) \/ HarvestNothing
  BY DEF ApplyEvent, ApplyFails, ApplyTo, HarvestNothing
<1>6. wake' \in BOOLEAN
  BY DEF ApplyEvent, ApplyFails, ApplyTo, Control
<1>7. run' \in Run /\ run'.current = run.current
  <2> DEFINE done == Completed(run, w)
  <2>1. done \in Run /\ done.current = run.current
    BY <1>1, RunRowTypes
  <2>2. \/ run' = run \/ run' = done \/ run' = PausedIf(done, w, "awaiting_approval")
        \/ run' = PausedIf(run, w, "awaiting_approval") \/ run' = PausedIf(run, w, "blocked")
    BY DEF ApplyEvent, ApplyFails, ApplyTo
  <2> HIDE DEF done
  <2> QED BY <1>1, <2>1, <2>2, RunRowTypes DEF Paused
<1> QED BY <1>2, <1>4, <1>5, <1>6, <1>7, HarvestTypes, RewriteTypes, TypePartsNext

LEMMA EndTypes ==
  ASSUME TypeOK, NEW w \in DOMAIN workers, ClaudeEnds(w)
  PROVE  TypeOK'
<1> USE TypeParts
<1>1. workers[w] \in Worker /\ workers[w].events \in Seq(Event) /\ workers[w].serves \in Nat
  BY WorkerTable DEF Rows, Worker
<1>2. PICK kind \in Endings :
        SetWorker(w, [workers[w] EXCEPT
          !.turn = "over",
          !.events = IF workers[w].tainted THEN @
                     ELSE Append(@, [kind |-> kind, serves |-> workers[w].serves])])
  BY DEF ClaudeEnds
<1> DEFINE event == [kind |-> kind, serves |-> workers[w].serves]
<1>3. event \in Event
  BY <1>1 DEF Event, Endings
<1>4. Append(workers[w].events, event) \in Seq(Event)
  BY <1>1, <1>3, AppendProperties
<1>5. \A events \in Seq(Event) : [workers[w] EXCEPT !.turn = "over", !.events = events] \in Worker
  BY <1>1 DEF Worker, TurnState
<1>6. \E row \in Worker : SetWorker(w, row)
  BY <1>1, <1>2, <1>4, <1>5
<1>7. Rows' /\ Control'
  BY <1>6, RewriteTypes DEF ClaudeEnds, Rows, Control
<1>8. Counters'
  BY RunBounds DEF ClaudeEnds, Edited, Counters
<1>9. Evidence' /\ Uses'
  BY DEF ClaudeEnds, Evidence, Uses
<1> QED BY <1>7, <1>8, <1>9, TypePartsNext

LEMMA DecisionTypes ==
  ASSUME TypeOK, ApprovePlan \/ RecordDecision \/ (\E w \in DOMAIN workers : HumanEdits(w))
  PROVE  TypeOK'
<1> USE TypeParts
<1>1. Evidence' /\ Rows' /\ Control' /\ Uses'
  BY DEF ApprovePlan, RecordDecision, HumanEdits, Evidence, Plan, Rows, Control, controller, Uses
<1>2. Counters'
  BY RunBounds DEF ApprovePlan, RecordDecision, HumanEdits, Counters
<1> QED BY <1>1, <1>2, TypePartsNext

LEMMA StartByHandTypes ==
  ASSUME TypeOK, NEW workflow \in DOMAIN Definition, StartByHand(workflow)
  PROVE  TypeOK'
<1> USE TypeParts
<1>1. /\ Evidence' /\ UNCHANGED <<wake, controller>>
      /\ Uses'
  BY UseTypes DEF StartByHand, Evidence, Allowance
<1>2. PICK serves \in Nat : workers' = Append(workers, NewWorker(workflow, "hand", serves))
  BY DEF StartByHand, Counters
<1>3. NewWorker(workflow, "hand", serves) \in Worker
  BY NewRowTypes
<1>4. /\ workers' \in Seq(Worker) /\ DOMAIN workers \subseteq DOMAIN workers'
      /\ Len(workers) + 1 \in DOMAIN workers' /\ Len(workers) + 1 \in Nat
  BY <1>2, <1>3, RowAdded DEF Rows
<1>5. run' \in Run /\ run'.current \in {run.current, Len(workers) + 1}
  <2>1. CASE Adopts(workflow)
    <3>1. run' = Reserved(run, Len(workers) + 1)
      BY <2>1 DEF StartByHand
    <3>2. run.step \in DOMAIN Steps
      BY <2>1, StepTypes DEF Adopts, Rows, Run
    <3> QED BY <1>4, <3>1, <3>2, RunRowTypes DEF Rows
  <2>2. CASE ~Adopts(workflow)
    BY <2>2 DEF StartByHand, Rows
  <2> QED BY <2>1, <2>2
<1>6. Rows' /\ Control'
  BY <1>1, <1>4, <1>5 DEF Rows, Control, controller
<1>7. Counters'
  BY HeadTypes DEF StartByHand, Counters
<1> QED BY <1>1, <1>6, <1>7, TypePartsNext

LEMMA CrashTypes ==
  ASSUME TypeOK, Crash \/ RecoverWorkers
  PROVE  TypeOK'
<1> USE TypeParts
<1>1. Evidence' /\ Counters' /\ run' = run /\ wake' \in BOOLEAN
  BY DEF Crash, RecoverWorkers, Evidence, Counters, Control
<1>2. Uses'
  BY UseTypes DEF Crash, RecoverWorkers, Uses, Allowance
<1>3. \A w \in DOMAIN workers : workers[w] \in Worker
  BY WorkerTable DEF Rows
<1>4. workers' \in Seq(Worker) /\ DOMAIN workers' = DOMAIN workers
  <2>1. CASE Crash
    <3>1. \A events \in Seq(Event) : Durable(events) \in Seq(Event)
      BY SubSeqProperties, LenProperties, ElementOfSeq DEF Durable
    <3>2. ASSUME NEW w \in DOMAIN workers
          PROVE  [workers[w] EXCEPT !.launch = "none", !.events = Durable(@)] \in Worker
      BY <1>3, <3>1 DEF Worker
    <3>3. workers' = [w \in DOMAIN workers |->
                        [workers[w] EXCEPT !.launch = "none", !.events = Durable(@)]]
      BY <2>1 DEF Crash
    <3> QED BY <3>2, <3>3, RowsRewritten DEF Rows
  <2>2. CASE RecoverWorkers
    <3>1. \A w \in DOMAIN workers :
            {workers[w], Recreated(workers[w]), Disconnected(workers[w]), Adopted(workers[w])} \subseteq Worker
      BY <1>3, RowTypes
    <3> DEFINE kept == {w \in DOMAIN workers : workers[w].status # "stopped"}
               gone == {w \in kept : workers[w].pane = "none"}
    <3>2. workers' = [w \in DOMAIN workers |->
               CASE w \notin kept -> workers[w]
                 [] w \in recreated' -> Recreated(workers[w])
                 [] w \in gone \ recreated' -> Disconnected(workers[w])
                 [] OTHER -> Adopted(workers[w])]
      BY <2>2 DEF RecoverWorkers
    <3>3. \A w \in DOMAIN workers : workers'[w] \in Worker
      BY <3>1, <3>2
    <3>4. workers' = [w \in DOMAIN workers |-> workers'[w]]
      BY <3>2
    <3> QED BY <3>3, <3>4, RowsRewritten DEF Rows
  <2> QED BY <2>1, <2>2
<1>5. phase' \in {"up", "down", "recovering"} /\ recreated' \subseteq DOMAIN workers
  BY DEF Crash, RecoverWorkers
<1> QED BY <1>1, <1>2, <1>4, <1>5, TypePartsNext DEF Rows, Control

LEMMA StepKeepsTypes ==
  ASSUME TypeOK, [Next]_vars
  PROVE  TypeOK'
<1>1. CASE ControllerStep
  BY <1>1, AdvancesTypes, CrashTypes DEF ControllerStep
<1>2. CASE Decision
  BY <1>2, AdvancesTypes, DecisionTypes DEF Decision
<1>3. CASE Crash
  BY <1>3, CrashTypes
<1>4. CASE \E workflow \in DOMAIN Definition : StartByHand(workflow)
  BY <1>4, StartByHandTypes
<1>5. ASSUME NEW w \in DOMAIN workers,
             WorkerStep(w) \/ Intervention(w) \/ StartupAnswered(w) \/ Misfortune(w)
      PROVE  TypeOK'
  BY <1>5, WorkerStepTypes, EventTypes, EndTypes, DecisionTypes DEF WorkerStep, Intervention, Misfortune
<1>6. CASE UNCHANGED vars
  BY <1>6 DEF TypeOK, vars
<1> QED BY <1>1, <1>2, <1>3, <1>4, <1>5, <1>6 DEF Next

(* Every row of the run, its workers and its evidence keeps to its type,    *)
(* and the run's current worker exists, for every composite workflow.       *)
THEOREM TypeCorrect == Spec => []TypeOK
<1>1. Init => TypeOK
  BY InitTypes
<1>2. TypeOK /\ [Next]_vars => TypeOK'
  BY StepKeepsTypes
<1> QED BY <1>1, <1>2, PTL DEF Spec
=============================================================================
