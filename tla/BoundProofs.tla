---------------------------- MODULE BoundProofs ----------------------------
(***************************************************************************)
(* What a composite run keeps, whatever is resumed, replayed, repeated,    *)
(* entered, started by hand or recovered, for every list of steps: no step *)
(* is dispatched more often than its definition allows, the run is not in  *)
(* flight while a human holds its session, no unconditional step is        *)
(* skipped, and contracted work begins with an approved plan; where nobody *)
(* interferes, one session at a time works for the run, only the turn sent *)
(* for a step completes it, and a workflow that ends like complete-ticket  *)
(* finalizes the head it has evidence of; and where nothing fails, code is *)
(* written in the lineage.                                                 *)
(*                                                                         *)
(* Each needs a strengthening of its own, stated before its proof.         *)
(* BoundedIterations is not inductive: a workflow started by hand takes    *)
(* the step the run stands at without looking at its bound.  It may, since *)
(* a run that stands at a step with no worker always has an iteration of   *)
(* it left (NotSpent): the advance that moved it there checked the bound,  *)
(* and the resume that took its worker away gave the iteration back.       *)
(***************************************************************************)
EXTENDS RunProofs

InFlight == Paused \union {"running"}
Within(r) == \A i \in DOMAIN Steps : r.iterations[i] <= Steps[i].max
NotSpent(r) ==
  r.current = 0 /\ r.status \in InFlight /\ r.step \in DOMAIN Steps
  => r.iterations[r.step] < Steps[r.step].max
Bounded(r) == Within(r) /\ NotSpent(r)

(* The changes of the run row that keep its place and take no worker away. *)
KeepsPlace(r, s) ==
  /\ s.iterations = r.iterations /\ s.step = r.step
  /\ s.current = 0 /\ s.status \in InFlight => r.current = 0 /\ r.status \in InFlight

LEMMA PlaceKept ==
  ASSUME NEW r, NEW s, Bounded(r), KeepsPlace(r, s)
  PROVE  Bounded(s)
BY DEF Bounded, Within, NotSpent, KeepsPlace

(* An iteration left, and one of them taken: by an advance or by hand. *)
LEMMA ReservedBounded ==
  ASSUME NEW r \in Run, Within(r), r.step \in DOMAIN Steps,
         r.iterations[r.step] < Steps[r.step].max, NEW w \in Nat \ {0}
  PROVE  Bounded(Reserved(r, w))
<1> DEFINE s == Reserved(r, w)
<1>1. s.iterations = [r.iterations EXCEPT ![r.step] = @ + 1] /\ s.current = w
  BY DEF Run, Reserved, Unassigned
<1>2. \A i \in DOMAIN Steps : r.iterations[i] \in Nat /\ Steps[i].max \in Nat
  BY StepTypes DEF Run
<1>3. r.iterations \in [DOMAIN Steps -> Nat]
  BY DEF Run
<1> HIDE DEF s
<1>4. Within(s)
  BY <1>1, <1>2, <1>3 DEF Within
<1>5. NotSpent(s)
  BY <1>1 DEF NotSpent
<1> QED BY <1>4, <1>5 DEF Bounded, s

LEMMA DispatchBounded ==
  ASSUME Rows, NEW r \in Run, Within(r), NEW from, Dispatch(r, from)
  PROVE  Bounded(run')
<1>1. PICK next \in 1..Len(Steps) + 1 :
        /\ NextStep(r, from, next)
        /\ LET at == [r EXCEPT !.step = next]
           IN IF next > Len(Steps) THEN Stay([at EXCEPT !.status = "completed"])
              ELSE LET reuse == WorkerForStep(Steps[next])
                   IN IF ~Prerequisites(Steps[next].workflow)
                      THEN Stay([at EXCEPT !.status = "awaiting_approval"])
                      ELSE IF reuse # 0 THEN SendStep(at, reuse) ELSE LaunchStep(at)
  BY DEF Dispatch
<1> DEFINE at == [r EXCEPT !.step = next]
           reuse == WorkerForStep(Steps[next])
<1>2. at \in Run /\ at.step = next /\ at.iterations = r.iterations
  BY DEF Run
<1>3. Within(at)
  BY <1>2 DEF Within
<1>4. \A status : /\ [at EXCEPT !.status = status].step = next
                  /\ [at EXCEPT !.status = status].iterations = r.iterations
                  /\ [at EXCEPT !.status = status].status = status
  BY <1>2 DEF Run
<1> HIDE DEF at
<1>5. CASE next > Len(Steps)
  <2>1. run' = [at EXCEPT !.status = "completed"]
    BY <1>1, <1>5 DEF at, Stay
  <2> QED BY <1>4, <2>1 DEF Bounded, Within, NotSpent, InFlight, Paused
<1>6. CASE ~(next > Len(Steps))
  <2>1. next \in DOMAIN Steps
    BY <1>6, StepTypes
  <2>2. at.iterations[next] < Steps[next].max
    BY <1>1, <1>2, <2>1, StepTypes DEF NextStep, Applies
  <2>3. ASSUME NEW status, run' = [at EXCEPT !.status = status] PROVE Bounded(run')
    BY <1>2, <1>3, <1>4, <2>1, <2>2, <2>3 DEF Bounded, Within, NotSpent
  <2>4. ASSUME NEW w \in Nat \ {0}, run' = Reserved(at, w) PROVE Bounded(run')
    BY <1>2, <1>3, <2>1, <2>2, <2>4, ReservedBounded
  <2>5. CASE Stay([at EXCEPT !.status = "awaiting_approval"])
    BY <2>3, <2>5 DEF Stay
  <2>6. CASE reuse # 0 /\ SendStep(at, reuse)
    <3>1. reuse = 0 \/ reuse \in DOMAIN workers
      BY WorkerReused DEF Reusable, Rows
    <3>2. reuse \in Nat \ {0}
      BY <2>6, <3>1, WorkerTable DEF Rows
    <3> HIDE DEF reuse
    <3> QED BY <2>3, <2>4, <2>6, <3>2 DEF SendStep
  <2>7. CASE LaunchStep(at)
    <3> DEFINE kept == Retiring(Steps[at.step].workflow)
    <3>1. DOMAIN kept = DOMAIN workers /\ Len(kept) = Len(workers)
      <4>1. \A w \in DOMAIN workers : kept[w] \in Worker
        BY WorkerTable, RowTypes DEF Retiring, Rows
      <4> QED BY <4>1, RowsRewritten DEF Retiring, Rows
    <3>2. Len(kept) + 1 \in Nat \ {0}
      BY <3>1, WorkerTable DEF Rows
    <3>3. run' = [at EXCEPT !.status = "blocked"] \/ run' = Reserved(at, Len(kept) + 1)
      BY <2>7 DEF LaunchStep
    <3> HIDE DEF kept
    <3> QED BY <2>3, <2>4, <3>2, <3>3
  <2> QED BY <1>1, <1>6, <2>5, <2>6, <2>7 DEF at
<1> QED BY <1>5, <1>6

LEMMA AdvanceBounded ==
  ASSUME Rows, NEW r \in Run, Bounded(r), AdvanceFrom(r)
  PROVE  Bounded(run')
<1>1. CASE Stay(r)
  BY <1>1 DEF Stay
<1>2. CASE Stay([r EXCEPT !.status = "awaiting_approval"]) /\ r.current # 0
  <2>1. KeepsPlace(r, [r EXCEPT !.status = "awaiting_approval"])
    BY <1>2 DEF KeepsPlace, Run
  <2> QED BY <1>2, <2>1, PlaceKept DEF Stay
<1>3. CASE Dispatch(r, r.step)
  BY <1>3, DispatchBounded DEF Bounded
<1>4. CASE Dispatch(Unassigned(r), r.step + 1)
  <2>1. Unassigned(r) \in Run /\ Unassigned(r).iterations = r.iterations
    BY RunRowTypes DEF Unassigned, Run
  <2> QED BY <1>4, <2>1, DispatchBounded DEF Bounded, Within
<1> QED BY <1>1, <1>2, <1>3, <1>4 DEF AdvanceFrom

(* resume_run gives back the iteration of the step whose worker it takes    *)
(* away, so that step has one left.                                         *)
LEMMA ResumedBounded ==
  ASSUME Rows, Bounded(run), run.status \in Paused
  PROVE  Bounded(Resumed)
<1>1. PICK base \in Run :
        /\ base = IF Untrusted THEN Unassigned(Refunded(run)) ELSE run
        /\ Resumed.current = base.current
        /\ Resumed.step = base.step /\ Resumed.iterations = base.iterations
  BY ResumedTypes
<1>2. \A i \in DOMAIN Steps : run.iterations[i] \in Nat /\ Steps[i].max \in Nat \ {0}
  BY StepTypes DEF Rows, Run
<1>3. run.iterations \in [DOMAIN Steps -> Nat]
  BY DEF Rows, Run
<1>4. CASE Untrusted
  <2> DEFINE given == [run.iterations EXCEPT ![run.step] = IF @ = 0 THEN 0 ELSE @ - 1]
  <2>1. Resumed.step = run.step /\ Resumed.iterations = given
    BY <1>1, <1>4, RefundedTypes DEF Unassigned, Run
  <2>2. \A i \in DOMAIN Steps : given[i] <= run.iterations[i]
    BY <1>2, <1>3
  <2>3. run.step \in DOMAIN Steps => given[run.step] < Steps[run.step].max
    BY <1>2, <1>3 DEF Bounded, Within
  <2>4. \A i \in DOMAIN Steps : given[i] \in Nat
    BY <1>3, OneLess
  <2> HIDE DEF given
  <2>5. Within(Resumed)
    BY <1>2, <2>1, <2>2, <2>4 DEF Bounded, Within
  <2>6. NotSpent(Resumed)
    BY <2>1, <2>3 DEF NotSpent
  <2> QED BY <2>5, <2>6 DEF Bounded
<1>5. CASE ~Untrusted
  <2>1. Resumed.step = run.step /\ Resumed.iterations = run.iterations /\ Resumed.current = run.current
    BY <1>1, <1>5
  <2> QED BY <2>1 DEF Bounded, Within, NotSpent, InFlight
<1> QED BY <1>4, <1>5

----------------------------------------------------------------------------
(* Every step keeps the bound *)

LEMMA AdvancesBounded ==
  ASSUME TypeOK, Bounded(run), StartRun \/ Advance \/ ResumeRun \/ RecoverRun
  PROVE  Bounded(run')
<1> USE TypeParts
<1>1. CASE StartRun
  <2>1. FreshRun \in Run
    BY FreshRunTypes
  <2>2. Bounded(FreshRun)
    BY StepTypes DEF Bounded, Within, NotSpent, FreshRun
  <2> QED BY <1>1, <2>1, <2>2, AdvanceBounded DEF StartRun
<1>2. CASE Advance
  BY <1>2, AdvanceBounded DEF Advance, Rows
<1>3. CASE ResumeRun
  <2>1. Resumed \in Run
    BY ResumedTypes
  <2> QED BY <1>3, <2>1, AdvanceBounded, ResumedBounded DEF ResumeRun
<1>4. CASE RecoverRun
  <2>1. CASE Stay(run)
    BY <2>1 DEF Stay
  <2>2. CASE run.status = "running" /\ Stay([run EXCEPT !.status = "blocked"])
    <3>1. KeepsPlace(run, [run EXCEPT !.status = "blocked"])
      BY <2>2 DEF KeepsPlace, Rows, Run, InFlight
    <3> QED BY <2>2, <3>1, PlaceKept DEF Stay
  <2>3. CASE AdvanceFrom(run)
    BY <2>3, AdvanceBounded DEF Rows
  <2> QED BY <1>4, <2>1, <2>2, <2>3 DEF RecoverRun
<1> QED BY <1>1, <1>2, <1>3, <1>4

LEMMA ByHandBounded ==
  ASSUME TypeOK, Bounded(run), NEW workflow \in DOMAIN Definition, StartByHand(workflow)
  PROVE  Bounded(run')
<1> USE TypeParts
<1>1. CASE Adopts(workflow)
  <2>1. run' = Reserved(run, Len(workers) + 1)
    BY <1>1 DEF StartByHand
  <2>2. run.step \in DOMAIN Steps
    BY <1>1, StepTypes DEF Adopts, Rows, Run
  <2>3. run.iterations[run.step] < Steps[run.step].max
    BY <1>1, <2>2 DEF Adopts, Bounded, NotSpent, InFlight
  <2>4. Len(workers) + 1 \in Nat \ {0}
    BY WorkerTable DEF Rows
  <2> QED BY <2>1, <2>2, <2>3, <2>4, ReservedBounded DEF Bounded, Rows
<1>2. CASE ~Adopts(workflow)
  BY <1>2 DEF StartByHand
<1> QED BY <1>1, <1>2

(* What a worker or a user does pauses the run or puts it back in flight:   *)
(* the place stays, and with it the worker or the iteration left.           *)
LEMMA WorkersKeepPlace ==
  ASSUME TypeOK, NEW w \in DOMAIN workers,
         WorkerStep(w) \/ Intervention(w) \/ StartupAnswered(w) \/ Misfortune(w)
  PROVE  KeepsPlace(run, run')
<1> USE TypeParts
<1>1. run \in Run /\ w # 0
  BY WorkerTable DEF Rows
<1>2. KeepsPlace(run, run)
  BY DEF KeepsPlace
<1>3. ASSUME NEW s \in Run, KeepsPlace(run, s)
      PROVE  /\ KeepsPlace(run, Unpaused(s, w))
             /\ \A status \in Paused : KeepsPlace(run, PausedIf(s, w, status))
             /\ KeepsPlace(run, Completed(s, w))
             /\ KeepsPlace(run, [s EXCEPT !.intervened = TRUE])
             /\ KeepsPlace(run, [Unassigned(s) EXCEPT !.current = w, !.status = "blocked"])
  <2>1. KeepsPlace(run, Unpaused(s, w))
    BY <1>1, <1>3 DEF KeepsPlace, Unpaused, Run, InFlight
  <2>2. \A status \in Paused : KeepsPlace(run, PausedIf(s, w, status))
    BY <1>1, <1>3 DEF KeepsPlace, PausedIf, Run, InFlight
  <2>3. KeepsPlace(run, Completed(s, w))
    BY <1>1, <1>3 DEF KeepsPlace, Completed, Run
  <2>4. KeepsPlace(run, [s EXCEPT !.intervened = TRUE])
    BY <1>1, <1>3 DEF KeepsPlace, Run
  <2>5. KeepsPlace(run, [Unassigned(s) EXCEPT !.current = w, !.status = "blocked"])
    BY <1>1, <1>3 DEF KeepsPlace, Unassigned, Run
  <2> QED BY <2>1, <2>2, <2>3, <2>4, <2>5
<1>4. CASE LaunchReady(w) \/ Detach(w) \/ Send(w)
  <2>1. run' = run \/ run' = Unpaused(run, w)
    BY <1>4 DEF LaunchReady, Detach, Send
  <2> QED BY <1>1, <1>2, <1>3, <2>1
<1>5. CASE LaunchStalls(w)
  <2>1. run' = run \/ run' = [Unassigned(run) EXCEPT !.current = w, !.status = "blocked"]
    BY <1>5 DEF LaunchStalls
  <2> QED BY <1>1, <1>2, <1>3, <2>1
<1>6. CASE Attach(w)
  <2> DEFINE paused == PausedIf(run, w, "blocked")
  <2>1. run' = run \/ run' = [paused EXCEPT !.intervened = TRUE]
    BY <1>6 DEF Attach
  <2>2. paused \in Run /\ KeepsPlace(run, paused)
    BY <1>1, <1>2, <1>3, RunRowTypes DEF Paused
  <2> HIDE DEF paused
  <2> QED BY <1>2, <1>3, <2>1, <2>2
<1>7. CASE ApplyEvent(w) \/ ApplyFails(w)
  <2> DEFINE done == Completed(run, w)
  <2>1. done \in Run /\ KeepsPlace(run, done)
    BY <1>1, <1>2, <1>3, RunRowTypes
  <2>2. \/ run' = run \/ run' = done \/ run' = PausedIf(done, w, "awaiting_approval")
        \/ run' = PausedIf(run, w, "awaiting_approval") \/ run' = PausedIf(run, w, "blocked")
    BY <1>7 DEF ApplyEvent, ApplyFails, ApplyTo
  <2> HIDE DEF done
  <2> QED BY <1>1, <1>2, <1>3, <2>1, <2>2 DEF Paused
<1>8. CASE UNCHANGED run
  BY <1>2, <1>8
<1>9. \/ LaunchAppears(w) \/ ClaudeAccepts(w) \/ ClaudeEnds(w) \/ HumanEdits(w) \/ StopWorker(w)
      \/ StartupAnswered(w) \/ PaneDies(w)
      => UNCHANGED run
  BY DEF LaunchAppears, ClaudeAccepts, ClaudeEnds, HumanEdits, StopWorker, StartupAnswered, PaneDies
<1> QED BY <1>4, <1>5, <1>6, <1>7, <1>8, <1>9 DEF WorkerStep, Intervention, Misfortune

LEMMA StepKeepsBound ==
  ASSUME TypeOK, Bounded(run), [Next]_vars
  PROVE  Bounded(run')
<1>1. CASE ControllerStep
  BY <1>1, AdvancesBounded DEF ControllerStep, RecoverWorkers
<1>2. CASE Decision
  BY <1>2, AdvancesBounded DEF Decision, ApprovePlan, RecordDecision
<1>3. CASE Crash \/ UNCHANGED vars
  BY <1>3 DEF Crash, vars
<1>4. CASE \E workflow \in DOMAIN Definition : StartByHand(workflow)
  BY <1>4, ByHandBounded
<1>5. ASSUME NEW w \in DOMAIN workers,
             WorkerStep(w) \/ Intervention(w) \/ StartupAnswered(w) \/ Misfortune(w)
      PROVE  Bounded(run')
  BY <1>5, WorkersKeepPlace, PlaceKept
<1> QED BY <1>1, <1>2, <1>3, <1>4, <1>5 DEF Next

(* max_iterations of every step is kept by every run of every composite     *)
(* workflow, whatever is resumed, replayed, started by hand or recovered.   *)
THEOREM IterationsBounded == Spec => []BoundedIterations
<1>1. Init => Bounded(run)
  BY StepTypes DEF Init, FreshRun, Bounded, Within, NotSpent
<1>2. TypeOK /\ Bounded(run) /\ [Next]_vars => Bounded(run)'
  BY StepKeepsBound
<1>3. Bounded(run) => BoundedIterations
  BY DEF Bounded, Within, BoundedIterations
<1> QED BY <1>1, <1>2, <1>3, TypeCorrect, PTL DEF Spec

----------------------------------------------------------------------------
(* What a step does to one worker's row, and an advance to the run's        *)

(* A session that is entered is the user's, and nothing else is: whoever    *)
(* prompts it or hands it back leaves it with the manager.                  *)
LEMMA RowsOwned ==
  ASSUME TypeOK, NEW w \in DOMAIN workers,
         WorkerStep(w) \/ Intervention(w) \/ StartupAnswered(w) \/ Misfortune(w)
  PROVE  /\ DOMAIN workers' = DOMAIN workers
         /\ \A v \in DOMAIN workers :
              /\ v # w => workers'[v] = workers[v]
              /\ workers'[v].launch \in {workers[v].launch, "none"}
              /\ workers'[v].owner = workers[v].owner \/ (v = w /\ (Attach(w) \/ workers'[v].owner = "manager"))
<1>1. workers[w] \in Worker /\ workers \in Seq(Worker) /\ DOMAIN workers = 1..Len(workers)
  BY WorkerTable DEF TypeOK
<1> DEFINE Fit(row) == /\ row.launch \in {workers[w].launch, "none"}
                       /\ row.owner = workers[w].owner \/ Attach(w) \/ row.owner = "manager"
<1>2. ASSUME NEW row, SetWorker(w, row), Fit(row) PROVE
        /\ DOMAIN workers' = DOMAIN workers
        /\ \A v \in DOMAIN workers :
             /\ v # w => workers'[v] = workers[v]
             /\ workers'[v].launch \in {workers[v].launch, "none"}
             /\ workers'[v].owner = workers[v].owner \/ (v = w /\ (Attach(w) \/ workers'[v].owner = "manager"))
  BY <1>1, <1>2 DEF SetWorker
<1>3. CASE HumanEdits(w)
  BY <1>3 DEF HumanEdits
<1>4. \A row \in Worker :
        /\ \A serves : Prompted(row, serves).launch = row.launch /\ Prompted(row, serves).owner = row.owner
        /\ HandedBack(row).launch = row.launch /\ HandedBack(row).owner = "manager"
        /\ Stopped(row).launch = "none" /\ Stopped(row).owner = row.owner
  BY DEF Worker, Prompted, HandedBack, Stopped
<1>5. CASE LaunchAppears(w) \/ ClaudeAccepts(w) \/ ClaudeEnds(w) \/ StartupAnswered(w) \/ PaneDies(w) \/ Attach(w)
  BY <1>1, <1>2, <1>5 DEF LaunchAppears, ClaudeAccepts, ClaudeEnds, StartupAnswered, PaneDies, Attach, Worker
<1>6. CASE ApplyEvent(w) \/ ApplyFails(w)
  <2>1. \A status : Fit(Consumed(w, status))
    BY <1>1 DEF Consumed, Worker
  <2>2. \E status : SetWorker(w, Consumed(w, status))
    BY <1>6 DEF ApplyEvent, ApplyFails, ApplyTo
  <2> QED BY <1>2, <2>1, <2>2
<1>7. CASE StopWorker(w)
  BY <1>1, <1>2, <1>4, <1>7 DEF StopWorker
<1>8. CASE LaunchReady(w)
  <2> DEFINE prompted == Prompted(workers[w], workers[w].serves)
             row == [prompted EXCEPT !.launch = "none", !.pane = "ready", !.owes = FALSE]
  <2>1. prompted \in Worker /\ prompted.owner = workers[w].owner
    <3>1. workers[w].serves \in Nat
      BY <1>1 DEF Worker
    <3> QED BY <1>1, <1>4, <3>1, RowTypes
  <2>2. SetWorker(w, row)
    BY <1>8 DEF LaunchReady
  <2> HIDE DEF prompted
  <2>3. Fit(row)
    BY <2>1 DEF Worker
  <2> HIDE DEF row
  <2> QED BY <1>2, <2>2, <2>3
<1>9. CASE LaunchStalls(w)
  <2>1. \E pane, status : SetWorker(w, [workers[w] EXCEPT !.launch = "none", !.pane = pane, !.status = status])
    BY <1>9 DEF LaunchStalls
  <2> QED BY <1>1, <1>2, <2>1 DEF Worker
<1>10. CASE Detach(w)
  <2> DEFINE back == HandedBack(workers[w])
             prompted == Prompted(back, back.serves)
             row == [prompted EXCEPT !.owes = FALSE]
  <2>1. back \in Worker /\ prompted \in Worker
    BY <1>1, RowTypes DEF Worker
  <2>2. back.launch = workers[w].launch /\ back.owner = "manager" /\ prompted.launch = back.launch /\ prompted.owner = "manager"
    BY <1>1, <1>4, <2>1
  <2>3. SetWorker(w, row) \/ SetWorker(w, back)
    BY <1>10 DEF Detach
  <2> HIDE DEF back, prompted
  <2>4. Fit(row) /\ Fit(back)
    BY <2>1, <2>2 DEF Worker
  <2> HIDE DEF row
  <2> QED BY <1>2, <2>3, <2>4
<1>11. CASE Send(w)
  <2>1. \/ \E serves : SetWorker(w, Prompted(workers[w], serves))
        \/ SetWorker(w, [workers[w] EXCEPT !.status = "disconnected"])
    BY <1>11 DEF Send
  <2>2. Fit([workers[w] EXCEPT !.status = "disconnected"]) /\ \A serves : Fit(Prompted(workers[w], serves))
    BY <1>1, <1>4 DEF Worker
  <2> QED BY <1>2, <2>1, <2>2
<1> QED BY <1>3, <1>5, <1>6, <1>7, <1>8, <1>9, <1>10, <1>11 DEF WorkerStep, Intervention, Misfortune

(* What an advance makes of a run row that has no worker: it stays without, *)
(* or gets one that exists or that it launches, and which is the manager's. *)
LEMMA DispatchRows ==
  ASSUME Rows, NEW r \in Run, r.current = 0, NEW from, Dispatch(r, from)
  PROVE  \E next \in 1..Len(Steps) + 1 :
           /\ NextStep(r, from, next)
           /\ \/ \E status : run' = [[r EXCEPT !.step = next] EXCEPT !.status = status]
              \/ next \in DOMAIN Steps /\ run' = Reserved([r EXCEPT !.step = next], run'.current)
           /\ run'.current # 0 => run'.current \in DOMAIN workers' /\ workers'[run'.current].owner = "manager"
           /\ DOMAIN workers \subseteq DOMAIN workers'
           /\ \A v \in DOMAIN workers' :
                IF v \in DOMAIN workers THEN workers'[v].launch \in {workers[v].launch, "none"}
                ELSE v = run'.current
<1>1. PICK next \in 1..Len(Steps) + 1 :
        /\ NextStep(r, from, next)
        /\ LET at == [r EXCEPT !.step = next]
           IN IF next > Len(Steps) THEN Stay([at EXCEPT !.status = "completed"])
              ELSE LET reuse == WorkerForStep(Steps[next])
                   IN IF ~Prerequisites(Steps[next].workflow)
                      THEN Stay([at EXCEPT !.status = "awaiting_approval"])
                      ELSE IF reuse # 0 THEN SendStep(at, reuse) ELSE LaunchStep(at)
  BY DEF Dispatch
<1> DEFINE at == [r EXCEPT !.step = next]
           reuse == WorkerForStep(Steps[next])
           Good ==
             /\ \/ \E status : run' = [at EXCEPT !.status = status]
                \/ next \in DOMAIN Steps /\ run' = Reserved(at, run'.current)
             /\ run'.current # 0 => run'.current \in DOMAIN workers' /\ workers'[run'.current].owner = "manager"
             /\ DOMAIN workers \subseteq DOMAIN workers'
             /\ \A v \in DOMAIN workers' :
                  IF v \in DOMAIN workers THEN workers'[v].launch \in {workers[v].launch, "none"}
                  ELSE v = run'.current
<1> SUFFICES Good
  BY <1>1
<1>2. at \in Run /\ at.current = 0 /\ at.step = next
  BY DEF Run
<1>3. \A status : [at EXCEPT !.status = status].current = 0
  BY <1>2 DEF Run
<1>4. \A w \in DOMAIN workers : workers[w] \in Worker /\ w # 0
  BY WorkerTable DEF Rows
<1>5. next > Len(Steps) \/ next \in DOMAIN Steps
  BY StepTypes
<1> HIDE DEF at
<1>6. CASE \E status : Stay([at EXCEPT !.status = status])
  <2>1. PICK status : Stay([at EXCEPT !.status = status])
    BY <1>6
  <2>2. run' = [at EXCEPT !.status = status] /\ workers' = workers
    BY <2>1 DEF Stay
  <2>3. run'.current = 0
    BY <1>3, <2>2
  <2> QED BY <2>2, <2>3
<1>7. CASE next \in DOMAIN Steps /\ reuse # 0 /\ SendStep(at, reuse)
  <2>1. reuse \in DOMAIN workers
    BY <1>7, WorkerReused DEF Reusable, Rows
  <2> HIDE DEF reuse
  <2> DEFINE row == [workers[reuse] EXCEPT !.workflow = Steps[at.step].workflow]
             chosen == [workers EXCEPT ![reuse] = row]
  <2>2. row \in Worker /\ row.owner = workers[reuse].owner /\ row.launch = workers[reuse].launch
    BY <1>2, <1>4, <1>7, <2>1, StepTypes DEF Worker
  <2>3. chosen = [workers EXCEPT ![reuse].workflow = Steps[at.step].workflow] /\ chosen[reuse] = row
        /\ DOMAIN chosen = DOMAIN workers
    BY <2>1
  <2>4. \A serves : Prompted(row, serves).owner = row.owner /\ Prompted(row, serves).launch = row.launch
    BY <2>2 DEF Prompted, Worker
  <2>5. [row EXCEPT !.status = "disconnected"].launch = row.launch
    BY <2>2 DEF Worker
  <2> HIDE DEF row
  <2>6. CASE LaneOpen(workers[reuse]) /\ workers[reuse].pane = "ready"
    <3>1. run' = Reserved(at, reuse) /\ workers' = [chosen EXCEPT ![reuse] = Prompted(row, dispatch + 1)]
      BY <2>3, <2>6, <1>7 DEF SendStep
    <3>2. run'.current = reuse
      BY <1>2, <1>7, <2>1, <3>1, RunRowTypes, WorkerTable DEF Rows
    <3>3. \A v \in DOMAIN workers : v # reuse => workers'[v] = workers[v]
      BY <3>1
    <3>4. workers'[reuse] = Prompted(row, dispatch + 1) /\ DOMAIN workers' = DOMAIN workers
      BY <2>1, <3>1
    <3>5. workers[reuse].owner = "manager"
      BY <2>6 DEF LaneOpen
    <3> QED BY <1>7, <2>1, <2>2, <2>4, <3>1, <3>2, <3>3, <3>4, <3>5
  <2>7. CASE ~(LaneOpen(workers[reuse]) /\ workers[reuse].pane = "ready")
    <3>1. /\ run' = [at EXCEPT !.status = "blocked"]
          /\ \/ workers' = [chosen EXCEPT ![reuse] = [row EXCEPT !.status = "disconnected"]]
             \/ workers' = chosen
      BY <2>3, <2>7, <1>7 DEF SendStep
    <3>2. run'.current = 0
      BY <1>3, <3>1
    <3>3. DOMAIN workers' = DOMAIN workers /\ \A v \in DOMAIN workers : workers'[v].launch = workers[v].launch
      BY <2>1, <2>2, <2>3, <2>5, <3>1
    <3> QED BY <3>1, <3>2, <3>3
  <2> QED BY <2>6, <2>7
<1>8. CASE next \in DOMAIN Steps /\ LaunchStep(at)
  <2> DEFINE workflow == Steps[at.step].workflow
             kept == Retiring(workflow)
             added == NewWorker(workflow, "run", dispatch + 1)
  <2>1. \A v \in DOMAIN workers : kept[v] \in Worker /\ kept[v].launch \in {workers[v].launch, "none"}
    <3>1. \A row \in Worker : Stopped(row) \in Worker /\ Stopped(row).launch = "none"
      BY RowTypes DEF Stopped, Worker
    <3> QED BY <1>4, <3>1 DEF Retiring
  <2>2. kept \in Seq(Worker) /\ DOMAIN kept = DOMAIN workers /\ DOMAIN kept = 1..Len(kept) /\ Len(kept) \in Nat
    BY <2>1, RowsRewritten, LenProperties DEF Retiring, Rows
  <2>3. added.owner = "manager"
    BY DEF NewWorker
  <2>4. CASE DuplicateWorker(kept, workflow)
    <3>1. run' = [at EXCEPT !.status = "blocked"] /\ workers' = kept
      BY <1>8, <2>4 DEF LaunchStep
    <3>2. run'.current = 0
      BY <1>3, <3>1
    <3> QED BY <2>1, <2>2, <3>1, <3>2
  <2>5. CASE ~DuplicateWorker(kept, workflow)
    <3>1. run' = Reserved(at, Len(kept) + 1) /\ workers' = Append(kept, added)
      BY <1>8, <2>5 DEF LaunchStep
    <3> HIDE DEF kept, added
    <3>2. run'.current = Len(kept) + 1
      BY <1>2, <1>8, <2>2, <3>1, RunRowTypes
    <3>3. /\ DOMAIN workers' = 1..(Len(kept) + 1) /\ workers'[Len(kept) + 1] = added
          /\ \A v \in 1..Len(kept) : workers'[v] = kept[v]
      BY <2>2, <3>1, AppendProperties
    <3> QED BY <1>8, <2>1, <2>2, <2>3, <3>1, <3>2, <3>3
  <2> QED BY <2>4, <2>5
<1> QED BY <1>1, <1>5, <1>6, <1>7, <1>8 DEF at

(* The run rows an advance begins with, and the worker it can end with.     *)
LEMMA AdvanceRows ==
  ASSUME Rows, NEW r \in Run, AdvanceFrom(r)
  PROVE  \/ Stay(r)
         \/ r.current # 0 /\ Stay([r EXCEPT !.status = "awaiting_approval"])
         \/ \E s \in Run : /\ s.current = 0 /\ s.iterations = r.iterations /\ s.step = r.step
                           /\ r.status = "running"
                           /\ Dispatch(s, IF r.current = 0 THEN r.step ELSE r.step + 1)
<1>1. Unassigned(r) \in Run /\ Unassigned(r).current = 0
      /\ Unassigned(r).iterations = r.iterations /\ Unassigned(r).step = r.step
  BY RunRowTypes DEF Unassigned, Run
<1> QED BY <1>1 DEF AdvanceFrom

----------------------------------------------------------------------------
(* The run waits while a human holds its session *)

(* HumanPausesRun is not inductive: resume_run puts a run in flight that    *)
(* has a completed step.  It may, since the step is then the session's last *)
(* word: who entered it afterwards would have tainted the run.              *)
Relies(r) == r.current # 0 /\ (r.status = "running" \/ (r.completed /\ ~r.intervened))
Waits(r) == Relies(r) => workers[r.current].owner = "manager"

LEMMA AdvanceWaits ==
  ASSUME Rows, NEW r \in Run, r.current \in {0} \union DOMAIN workers, Waits(r), AdvanceFrom(r)
  PROVE  Waits(run)'
<1>1. CASE Stay(r)
  BY <1>1 DEF Stay, Waits, Relies
<1>2. CASE Stay([r EXCEPT !.status = "awaiting_approval"])
  BY <1>2 DEF Stay, Waits, Relies, Run
<1>3. CASE \E s \in Run : s.current = 0 /\ \E from : Dispatch(s, from)
  <2>1. run'.current # 0 => workers'[run'.current].owner = "manager"
    BY <1>3, DispatchRows
  <2> QED BY <2>1 DEF Waits, Relies
<1> QED BY <1>1, <1>2, <1>3, AdvanceRows

LEMMA AdvancesWait ==
  ASSUME TypeOK, Waits(run), StartRun \/ Advance \/ ResumeRun \/ RecoverRun
  PROVE  Waits(run)'
<1> USE TypeParts
<1>1. CASE StartRun
  <2>1. FreshRun \in Run /\ FreshRun.current = 0
    BY FreshRunTypes
  <2> QED BY <1>1, <2>1, AdvanceWaits DEF StartRun, Waits, Relies
<1>2. CASE Advance
  BY <1>2, AdvanceWaits DEF Advance, Rows
<1>3. CASE ResumeRun
  <2>1. PICK base \in Run :
          /\ base = IF Untrusted THEN Unassigned(Refunded(run)) ELSE run
          /\ Resumed.current = base.current
    BY ResumedTypes
  <2>2. Resumed \in Run /\ Resumed.current \in {0, run.current}
    BY ResumedTypes
  <2>3. CASE Untrusted
    <3>1. Resumed.current = 0
      BY <2>1, <2>3, RefundedTypes, RunRowTypes
    <3> QED BY <1>3, <2>2, <3>1, AdvanceWaits DEF ResumeRun, Waits, Relies
  <2>4. CASE ~Untrusted
    <3>1. run.current # 0 => workers[run.current].owner = "manager"
      BY <2>4 DEF Untrusted, Waits, Relies, Rows, Run
    <3>2. Resumed.current = run.current
      BY <2>1, <2>4
    <3> QED BY <1>3, <2>2, <3>1, <3>2, AdvanceWaits DEF ResumeRun, Waits, Relies, Rows
  <2> QED BY <2>3, <2>4
<1>4. CASE RecoverRun
  <2>1. CASE Stay(run)
    BY <2>1 DEF Stay, Waits, Relies
  <2>2. CASE Stay([run EXCEPT !.status = "blocked"])
    BY <2>2 DEF Stay, Waits, Relies, Rows, Run
  <2>3. CASE AdvanceFrom(run)
    BY <2>3, AdvanceWaits DEF Rows
  <2> QED BY <1>4, <2>1, <2>2, <2>3 DEF RecoverRun
<1> QED BY <1>1, <1>2, <1>3, <1>4

LEMMA DetachOwned ==
  ASSUME TypeOK, NEW w \in DOMAIN workers, Detach(w)
  PROVE  workers'[w].owner = "manager"
<1> DEFINE back == HandedBack(workers[w])
           prompted == Prompted(back, back.serves)
           row == [prompted EXCEPT !.owes = FALSE]
<1>1. workers[w] \in Worker
  BY WorkerTable DEF TypeOK
<1>2. back \in Worker /\ prompted \in Worker
  BY <1>1, RowTypes DEF Worker
<1>3. back.owner = "manager" /\ prompted.owner = back.owner
  BY <1>1, <1>2 DEF HandedBack, Prompted, Worker
<1>4. SetWorker(w, row) \/ SetWorker(w, back)
  BY DEF Detach
<1> HIDE DEF back, prompted
<1>5. row.owner = "manager"
  BY <1>2, <1>3 DEF Worker
<1> HIDE DEF row
<1> QED BY <1>3, <1>4, <1>5 DEF SetWorker

LEMMA AttachStops ==
  ASSUME TypeOK, NEW w \in DOMAIN workers, Attach(w), run.current = w
  PROVE  ~Relies(run')
<1> DEFINE paused == PausedIf(run, w, "blocked")
<1>1. run \in Run
  BY DEF TypeOK
<1>2. paused \in Run /\ paused.status # "running"
  BY <1>1, RunRowTypes DEF PausedIf, Paused, Run
<1>3. run' = [paused EXCEPT !.intervened = TRUE]
  BY DEF Attach
<1> HIDE DEF paused
<1>4. run'.status # "running" /\ run'.intervened
  BY <1>2, <1>3 DEF Run
<1> QED BY <1>4 DEF Relies

(* The run of which a worker or a user changes nothing but what it waits for*)
(* relies on no session it did not rely on before, unless that is prompted. *)
LEMMA ReliesNoMore ==
  ASSUME TypeOK, NEW w \in DOMAIN workers,
         WorkerStep(w) \/ Intervention(w) \/ StartupAnswered(w) \/ Misfortune(w), Relies(run')
  PROVE  \/ Relies(run) /\ run'.current = run.current
         \/ run'.current = w /\ (Detach(w) \/ (LaneOpen(workers[w]) /\ (LaunchReady(w) \/ Send(w))))
<1> USE TypeParts
<1>1. run \in Run
  BY DEF Rows
<1>2. CASE run' = run
  BY <1>2
<1>3. CASE LaunchReady(w) \/ Detach(w) \/ Send(w)
  BY <1>1, <1>2, <1>3 DEF LaunchReady, Detach, Send, Unpaused, Relies, Run
<1>4. CASE LaunchStalls(w)
  <2>1. run' # [Unassigned(run) EXCEPT !.current = w, !.status = "blocked"]
    BY <1>1 DEF Relies, Unassigned, Run
  <2> QED BY <1>2, <1>4, <2>1 DEF LaunchStalls
<1>5. CASE Attach(w)
  <2>1. run.current # w
    BY <1>5, AttachStops
  <2> QED BY <1>2, <1>5, <2>1 DEF Attach
<1>6. CASE ApplyEvent(w) \/ ApplyFails(w)
  <2> DEFINE done == Completed(run, w)
  <2>1. \A s \in Run, status \in Paused : Relies(PausedIf(s, w, status)) => Relies(s) /\ PausedIf(s, w, status).current = s.current
    BY DEF Relies, PausedIf, Paused, Run
  <2>2. done \in Run /\ (Relies(done) => Relies(run) /\ done.current = run.current)
    BY <1>1, RunRowTypes DEF Relies, Completed, Run
  <2>3. \/ run' = run \/ run' = done \/ run' = PausedIf(done, w, "awaiting_approval")
        \/ run' = PausedIf(run, w, "awaiting_approval") \/ run' = PausedIf(run, w, "blocked")
    BY <1>6 DEF ApplyEvent, ApplyFails, ApplyTo
  <2> HIDE DEF done
  <2> QED BY <1>1, <2>1, <2>2, <2>3 DEF Paused
<1>7. \/ LaunchAppears(w) \/ ClaudeAccepts(w) \/ ClaudeEnds(w) \/ HumanEdits(w) \/ StopWorker(w)
      \/ StartupAnswered(w) \/ PaneDies(w)
      => UNCHANGED run
  BY DEF LaunchAppears, ClaudeAccepts, ClaudeEnds, HumanEdits, StopWorker, StartupAnswered, PaneDies
<1> QED BY <1>2, <1>3, <1>4, <1>5, <1>6, <1>7 DEF WorkerStep, Intervention, Misfortune

LEMMA PromptOwned ==
  ASSUME TypeOK, NEW w \in DOMAIN workers, LaunchReady(w) \/ Send(w)
  PROVE  workers'[w].owner = workers[w].owner
<1>1. workers[w] \in Worker
  BY WorkerTable DEF TypeOK
<1> DEFINE Prompt(serves) == Prompted(workers[w], serves)
<1>2. \A serves : /\ Prompt(serves).owner = workers[w].owner
                  /\ [Prompt(serves) EXCEPT !.launch = "none", !.pane = "ready", !.owes = FALSE].owner
                       = workers[w].owner
  BY <1>1 DEF Prompted, Worker
<1>3. [workers[w] EXCEPT !.status = "disconnected"].owner = workers[w].owner
  BY <1>1 DEF Worker
<1>4. CASE LaunchReady(w)
  <2>1. workers' = [workers EXCEPT ![w] =
          [Prompt(workers[w].serves) EXCEPT !.launch = "none", !.pane = "ready", !.owes = FALSE]]
    BY <1>4 DEF LaunchReady, SetWorker
  <2> HIDE DEF Prompt
  <2> QED BY <1>2, <2>1
<1>5. CASE Send(w)
  <2>1. \/ \E serves : workers' = [workers EXCEPT ![w] = Prompt(serves)]
        \/ workers' = [workers EXCEPT ![w] = [workers[w] EXCEPT !.status = "disconnected"]]
    BY <1>5 DEF Send, SetWorker
  <2> HIDE DEF Prompt
  <2> QED BY <1>2, <1>3, <2>1
<1> QED BY <1>4, <1>5

LEMMA WorkersWait ==
  ASSUME TypeOK, Waits(run), NEW w \in DOMAIN workers,
         WorkerStep(w) \/ Intervention(w) \/ StartupAnswered(w) \/ Misfortune(w)
  PROVE  Waits(run)'
<1> SUFFICES ASSUME Relies(run') PROVE workers'[run'.current].owner = "manager"
  BY DEF Waits, Relies
<1>1. run \in Run /\ run.current \in {0} \union DOMAIN workers
  BY DEF TypeOK
<1>2. \A v \in DOMAIN workers :
        workers'[v].owner = workers[v].owner \/ (v = w /\ (Attach(w) \/ workers'[v].owner = "manager"))
  BY RowsOwned
<1>3. CASE Detach(w) /\ run'.current = w
  BY <1>3, DetachOwned
<1>4. CASE LaneOpen(workers[w]) /\ (LaunchReady(w) \/ Send(w)) /\ run'.current = w
  BY <1>4, PromptOwned DEF LaneOpen
<1>5. CASE Relies(run) /\ run'.current = run.current
  <2>1. workers[run.current].owner = "manager" /\ run.current \in DOMAIN workers
    BY <1>1, <1>5 DEF Waits, Relies
  <2>2. ~(Attach(w) /\ run.current = w)
    BY AttachStops
  <2> QED BY <1>2, <1>5, <2>1, <2>2
<1> QED BY <1>3, <1>4, <1>5, ReliesNoMore

LEMMA ByHandWaits ==
  ASSUME TypeOK, Waits(run), NEW workflow \in DOMAIN Definition, StartByHand(workflow)
  PROVE  Waits(run)'
<1> DEFINE added(serves) == NewWorker(workflow, "hand", serves)
<1>1. run \in Run /\ run.current \in {0} \union DOMAIN workers /\ workers \in Seq(Worker)
  BY DEF TypeOK
<1>2. DOMAIN workers = 1..Len(workers) /\ Len(workers) \in Nat
  BY <1>1, WorkerTable
<1>3. PICK serves \in Nat : workers' = Append(workers, added(serves))
  <2>1. dispatch + 1 \in Nat
    BY DEF TypeOK
  <2> QED BY <2>1 DEF StartByHand
<1>4. added(serves) \in Worker /\ added(serves).owner = "manager"
  BY NewRowTypes DEF NewWorker
<1> HIDE DEF added
<1>5. /\ workers'[Len(workers) + 1].owner = "manager"
      /\ \A v \in DOMAIN workers : workers'[v] = workers[v]
  BY <1>1, <1>2, <1>3, <1>4, AppendProperties
<1>6. CASE Adopts(workflow)
  <2>1. run' = Reserved(run, Len(workers) + 1) /\ run.step \in DOMAIN Steps
    BY <1>1, <1>6, StepTypes DEF StartByHand, Adopts, Run
  <2>2. run'.current = Len(workers) + 1
    BY <1>1, <1>2, <2>1, RunRowTypes
  <2> QED BY <1>5, <2>2 DEF Waits
<1>7. CASE ~Adopts(workflow)
  <2>1. run' = run
    BY <1>7 DEF StartByHand
  <2> QED BY <1>1, <1>5, <2>1 DEF Waits, Relies
<1> QED BY <1>6, <1>7

(* A crash and recover()'s pass over the workers hand no session over.      *)
LEMMA RecoveryWaits ==
  ASSUME TypeOK, Waits(run), RecoverWorkers \/ Crash
  PROVE  Waits(run)'
<1>1. run' = run /\ run.current \in {0} \union DOMAIN workers
  BY DEF TypeOK, RecoverWorkers, Crash
<1>2. \A row \in Worker : /\ Recreated(row).owner = row.owner /\ Disconnected(row).owner = row.owner
                          /\ Adopted(row).owner = row.owner
                          /\ [row EXCEPT !.launch = "none", !.events = Durable(@)].owner = row.owner
  BY DEF Worker, Recreated, Disconnected, Adopted
<1>3. \A w \in DOMAIN workers : workers[w] \in Worker
  BY WorkerTable DEF TypeOK
<1>4. \A w \in DOMAIN workers : workers'[w].owner = workers[w].owner
  <2>1. CASE Crash
    BY <1>2, <1>3, <2>1 DEF Crash
  <2>2. CASE RecoverWorkers
    <3>1. \A w \in DOMAIN workers :
            workers'[w] \in {workers[w], Recreated(workers[w]), Disconnected(workers[w]), Adopted(workers[w])}
      BY <2>2 DEF RecoverWorkers
    <3> QED BY <1>2, <1>3, <3>1
  <2> QED BY <2>1, <2>2
<1> QED BY <1>1, <1>4 DEF Waits, Relies

LEMMA StepKeepsWaiting ==
  ASSUME TypeOK, Waits(run), [Next]_vars
  PROVE  Waits(run)'
<1>1. CASE ControllerStep
  BY <1>1, AdvancesWait, RecoveryWaits DEF ControllerStep
<1>2. CASE Decision
  <2>1. CASE ApprovePlan \/ RecordDecision
    BY <2>1 DEF ApprovePlan, RecordDecision, Waits, Relies
  <2> QED BY <1>2, <2>1, AdvancesWait DEF Decision
<1>3. CASE Crash
  BY <1>3, RecoveryWaits
<1>4. CASE \E workflow \in DOMAIN Definition : StartByHand(workflow)
  BY <1>4, ByHandWaits
<1>5. CASE \E w \in DOMAIN workers : WorkerStep(w) \/ Intervention(w) \/ StartupAnswered(w) \/ Misfortune(w)
  BY <1>5, WorkersWait
<1>6. CASE UNCHANGED vars
  BY <1>6 DEF vars, Waits, Relies
<1> QED BY <1>1, <1>2, <1>3, <1>4, <1>5, <1>6 DEF Next

(* However often a run is entered, handed back, resumed, messaged and       *)
(* recovered, it is not in flight while a human holds the session of its    *)
(* current step (attach, _resume_run, _complete_run_step, recover).         *)
THEOREM PausedWhileEntered == Spec => []HumanPausesRun
<1>1. Init => Waits(run)
  BY DEF Init, FreshRun, Waits, Relies
<1>2. TypeOK /\ Waits(run) /\ [Next]_vars => Waits(run)'
  BY StepKeepsWaiting
<1>3. Waits(run) => HumanPausesRun
  BY DEF Waits, Relies, HumanPausesRun
<1> QED BY <1>1, <1>2, <1>3, TypeCorrect, PTL DEF Spec

----------------------------------------------------------------------------
(* No unconditional step is skipped *)

(* NoStepSkipped is not inductive: an advance past the step in flight needs *)
(* that this step itself was dispatched, and a launch that stalls hands the *)
(* run back the worker it launches, which must be the one it has.           *)
Behind(r, place) ==
  \A i \in DOMAIN Steps : i < place /\ Steps[i].when = "always" => r.iterations[i] > 0
Placed(r) ==
  /\ Behind(r, r.step)
  /\ r.current # 0 => r.step \in DOMAIN Steps /\ r.iterations[r.step] > 0
  /\ r.status = "none" => r.current = 0
Launches == \A w \in DOMAIN workers : workers[w].launch = "run" => run.current = w

(* The loop of _advance_run passes by unconditional steps only if they have *)
(* been dispatched as often as they may be, which is at least once.         *)
LEMMA NextBehind ==
  ASSUME NEW r \in Run, NEW from \in Nat, Behind(r, from),
         NEW next \in 1..Len(Steps) + 1, NextStep(r, from, next)
  PROVE  Behind(r, next)
<1> SUFFICES ASSUME NEW i \in DOMAIN Steps, i < next, Steps[i].when = "always"
             PROVE  r.iterations[i] > 0
  BY DEF Behind
<1>1. i \in 1..Len(Steps) /\ Len(Steps) \in Nat /\ Steps[i].max \in Nat \ {0} /\ r.iterations[i] \in Nat
  BY StepTypes DEF Run
<1>2. Applies(r, i) <=> r.iterations[i] < Steps[i].max
  BY DEF Applies, Holds
<1>3. ~Applies(r, i) => r.iterations[i] > 0
  BY <1>1, <1>2
<1> DEFINE ahead == {j \in from..Len(Steps) : Applies(r, j)}
           repeats == {j \in DOMAIN Steps : Steps[j].max > 1 /\ Applies(r, j)}
<1>4. \/ next \in ahead /\ \A j \in ahead : next <= j
      \/ ahead = {}
  BY DEF NextStep
<1>5. next \in Nat
  BY <1>1
<1>6. i \notin ahead
  <2>1. CASE next \in ahead /\ \A j \in ahead : next <= j
    BY <1>1, <1>5, <2>1
  <2> QED BY <1>4, <2>1
<1>7. CASE i < from
  BY <1>7 DEF Behind
<1>8. CASE ~(i < from)
  <2>1. i \in from..Len(Steps)
    BY <1>1, <1>8
  <2>2. ~Applies(r, i)
    BY <1>6, <2>1
  <2> QED BY <1>3, <2>2
<1> QED BY <1>7, <1>8

LEMMA ReservedPlaced ==
  ASSUME NEW r \in Run, r.step \in DOMAIN Steps, Behind(r, r.step), NEW w
  PROVE  Placed(Reserved(r, w))
<1> DEFINE s == Reserved(r, w)
<1>1. s.step = r.step /\ s.status = "running" /\ s.iterations = [r.iterations EXCEPT ![r.step] = @ + 1]
  BY DEF Reserved, Unassigned, Run
<1>2. r.iterations \in [DOMAIN Steps -> Nat]
  BY DEF Run
<1> HIDE DEF s
<1>3. \A i \in DOMAIN Steps : r.iterations[i] > 0 => s.iterations[i] > 0
  BY <1>1, <1>2
<1>4. s.iterations[r.step] > 0
  BY <1>1, <1>2
<1>5. Placed(s)
  BY <1>1, <1>3, <1>4 DEF Placed, Behind
<1> QED BY <1>5 DEF s

LEMMA DispatchPlaced ==
  ASSUME Rows, LockFree, NEW r \in Run, r.current = 0, NEW from \in Nat, Behind(r, from),
         Dispatch(r, from)
  PROVE  Placed(run') /\ Launches'
<1>1. PICK next \in 1..Len(Steps) + 1 :
        /\ NextStep(r, from, next)
        /\ \/ \E status : run' = [[r EXCEPT !.step = next] EXCEPT !.status = status]
           \/ next \in DOMAIN Steps /\ run' = Reserved([r EXCEPT !.step = next], run'.current)
        /\ \A v \in DOMAIN workers' :
             IF v \in DOMAIN workers THEN workers'[v].launch \in {workers[v].launch, "none"}
             ELSE v = run'.current
  BY DispatchRows
<1> DEFINE at == [r EXCEPT !.step = next]
<1>2. at \in Run /\ at.current = 0 /\ at.step = next /\ at.iterations = r.iterations
  BY DEF Run
<1>3. Behind(r, next)
  BY <1>1, NextBehind
<1>4. Behind(at, at.step)
  BY <1>2, <1>3 DEF Behind
<1> HIDE DEF at
<1>5. Launches'
  BY <1>1 DEF Launches, LockFree
<1>6. CASE \E status : run' = [at EXCEPT !.status = status]
  <2>1. run'.current = 0 /\ run'.step = at.step /\ run'.iterations = at.iterations
    BY <1>2, <1>6 DEF Run
  <2> QED BY <1>4, <1>5, <2>1 DEF Placed, Behind
<1>7. CASE next \in DOMAIN Steps /\ run' = Reserved(at, run'.current)
  BY <1>2, <1>4, <1>5, <1>7, ReservedPlaced
<1> QED BY <1>1, <1>6, <1>7 DEF at

LEMMA AdvancePlaced ==
  ASSUME Rows, LockFree, NEW r \in Run, Placed(r), AdvanceFrom(r)
  PROVE  Placed(run') /\ Launches'
<1>1. CASE Stay(r)
  BY <1>1 DEF Stay, LockFree, Launches
<1>2. CASE Stay([r EXCEPT !.status = "awaiting_approval"])
  <2> DEFINE s == [r EXCEPT !.status = "awaiting_approval"]
  <2>1. s.current = r.current /\ s.step = r.step /\ s.iterations = r.iterations /\ s.status # "none"
    BY DEF Run
  <2> HIDE DEF s
  <2>2. Placed(s)
    BY <2>1 DEF Placed, Behind
  <2> QED BY <1>2, <2>2 DEF s, Stay, LockFree, Launches
<1>3. CASE \E s \in Run : /\ s.current = 0 /\ s.iterations = r.iterations /\ s.step = r.step
                          /\ Dispatch(s, IF r.current = 0 THEN r.step ELSE r.step + 1)
  <2> DEFINE from == IF r.current = 0 THEN r.step ELSE r.step + 1
  <2>1. PICK s \in Run : s.current = 0 /\ s.iterations = r.iterations /\ Dispatch(s, from)
    BY <1>3
  <2>2. from \in Nat /\ r.step \in Nat
    BY StepTypes DEF Run
  <2>3. Behind(s, from)
    <3>1. CASE r.current = 0
      BY <2>1, <3>1 DEF Placed, Behind
    <3>2. CASE r.current # 0
      <4> SUFFICES ASSUME NEW i \in DOMAIN Steps, i < r.step + 1, Steps[i].when = "always"
                   PROVE  s.iterations[i] > 0
        BY <3>2 DEF Behind
      <4>1. i < r.step \/ i = r.step
        BY <2>2, StepTypes
      <4> QED BY <2>1, <3>2, <4>1 DEF Placed, Behind
    <3> QED BY <3>1, <3>2
  <2> QED BY <2>1, <2>2, <2>3, DispatchPlaced
<1> QED BY <1>1, <1>2, <1>3, AdvanceRows

LEMMA AdvancesPlaced ==
  ASSUME TypeOK, Placed(run), Launches, StartRun \/ Advance \/ ResumeRun \/ RecoverRun
  PROVE  Placed(run') /\ Launches'
<1> USE TypeParts
<1>1. 0 \notin DOMAIN workers
  BY WorkerTable DEF Rows
<1>2. CASE StartRun
  <2>1. LockFree
    BY <1>1, <1>2 DEF StartRun, LockFree, Launches, Placed
  <2>2. FreshRun \in Run /\ Placed(FreshRun)
    BY FreshRunTypes, StepTypes DEF Placed, Behind, FreshRun
  <2> QED BY <1>2, <2>1, <2>2, AdvancePlaced DEF StartRun
<1>3. CASE Advance
  BY <1>3, AdvancePlaced DEF Advance, Rows
<1>4. CASE ResumeRun
  <2>1. PICK base \in Run :
          /\ base = IF Untrusted THEN Unassigned(Refunded(run)) ELSE run
          /\ Resumed \in Run /\ Resumed.current = base.current
          /\ Resumed.step = base.step /\ Resumed.iterations = base.iterations
    BY ResumedTypes
  <2>2. Resumed.status = "running"
    BY <2>1, RefundedTypes DEF Resumed, Run
  <2>3. CASE Untrusted
    <3> DEFINE back == Refunded(run)
    <3>1. /\ back \in Run /\ back.step = run.step
          /\ back.iterations = [run.iterations EXCEPT ![run.step] = IF @ = 0 THEN 0 ELSE @ - 1]
      BY RefundedTypes
    <3> HIDE DEF back
    <3>2. Unassigned(back).current = 0 /\ Unassigned(back).step = run.step
          /\ Unassigned(back).iterations = back.iterations
      BY <3>1 DEF Unassigned, Run
    <3>3. \A i \in DOMAIN Steps : i # run.step => back.iterations[i] = run.iterations[i]
      BY <3>1 DEF Rows, Run
    <3>4. \A i \in DOMAIN Steps : i < run.step => i # run.step
      BY StepTypes DEF Rows, Run
    <3>5. base = Unassigned(back)
      BY <2>1, <2>3 DEF back
    <3> QED BY <1>4, <2>1, <2>2, <3>2, <3>3, <3>4, <3>5, AdvancePlaced DEF ResumeRun, Placed, Behind
  <2>4. CASE ~Untrusted
    <3>1. Placed(Resumed)
      BY <2>1, <2>2, <2>4 DEF Placed, Behind
    <3> QED BY <1>4, <2>1, <3>1, AdvancePlaced DEF ResumeRun
  <2> QED BY <2>3, <2>4
<1>5. CASE RecoverRun
  <2>1. CASE Stay(run)
    BY <2>1 DEF Stay, Launches
  <2>2. CASE run.status = "running" /\ Stay([run EXCEPT !.status = "blocked"])
    <3> DEFINE s == [run EXCEPT !.status = "blocked"]
    <3>1. s.current = run.current /\ s.step = run.step /\ s.iterations = run.iterations /\ s.status # "none"
      BY DEF Rows, Run
    <3> HIDE DEF s
    <3>2. Placed(s)
      BY <3>1 DEF Placed, Behind
    <3> QED BY <2>2, <3>1, <3>2 DEF s, Stay, Launches
  <2>3. CASE LockFree /\ AdvanceFrom(run)
    BY <2>3, AdvancePlaced DEF Rows
  <2> QED BY <1>5, <2>1, <2>2, <2>3 DEF RecoverRun
<1> QED BY <1>2, <1>3, <1>4, <1>5

LEMMA ByHandPlaced ==
  ASSUME TypeOK, Placed(run), Launches, NEW workflow \in DOMAIN Definition, StartByHand(workflow)
  PROVE  Placed(run') /\ Launches'
<1> DEFINE added(serves) == NewWorker(workflow, "hand", serves)
<1>1. run \in Run /\ workers \in Seq(Worker)
  BY DEF TypeOK
<1>2. DOMAIN workers = 1..Len(workers) /\ Len(workers) \in Nat
  BY <1>1, WorkerTable
<1>3. PICK serves \in Nat : workers' = Append(workers, added(serves))
  <2>1. dispatch + 1 \in Nat
    BY DEF TypeOK
  <2> QED BY <2>1 DEF StartByHand
<1>4. added(serves) \in Worker /\ added(serves).launch = "hand"
  BY NewRowTypes DEF NewWorker
<1> HIDE DEF added
<1>5. \A v \in DOMAIN workers' :
        IF v \in DOMAIN workers THEN workers'[v] = workers[v] ELSE workers'[v].launch = "hand"
  BY <1>1, <1>2, <1>3, <1>4, AppendProperties
<1>6. CASE Adopts(workflow)
  <2>1. run' = Reserved(run, Len(workers) + 1) /\ run.step \in DOMAIN Steps /\ run.current = 0
    BY <1>1, <1>6, StepTypes DEF StartByHand, Adopts, Run
  <2>2. Launches'
    BY <1>2, <1>5, <2>1 DEF Launches
  <2>3. Placed(run')
    BY <1>1, <2>1, ReservedPlaced DEF Placed
  <2> QED BY <2>2, <2>3
<1>7. CASE ~Adopts(workflow)
  <2>1. run' = run
    BY <1>7 DEF StartByHand
  <2> QED BY <1>5, <2>1 DEF Launches
<1> QED BY <1>6, <1>7

(* A worker's step, a user's and a misfortune leave the run its worker.     *)
LEMMA WorkersKeepCurrent ==
  ASSUME TypeOK, Launches, NEW w \in DOMAIN workers,
         WorkerStep(w) \/ Intervention(w) \/ StartupAnswered(w) \/ Misfortune(w)
  PROVE  run'.current = run.current /\ (run'.status = "none" => run.status = "none")
<1> DEFINE Same(r) == r.current = run.current /\ (r.status = "none" => run.status = "none")
<1> SUFFICES Same(run')
  OBVIOUS
<1>1. run \in Run
  BY DEF TypeOK
<1>2. \A s \in Run : Same(s) =>
        /\ Same(Unpaused(s, w)) /\ Same(Completed(s, w)) /\ Same([s EXCEPT !.intervened = TRUE])
        /\ \A status \in Paused : Same(PausedIf(s, w, status))
  BY DEF Unpaused, Completed, PausedIf, Paused, Run
<1>3. Completed(run, w) \in Run /\ PausedIf(run, w, "blocked") \in Run
  BY <1>1, RunRowTypes DEF Paused
<1>4. CASE LaunchReady(w) \/ Detach(w) \/ Send(w)
  <2>1. run' = run \/ run' = Unpaused(run, w)
    BY <1>4 DEF LaunchReady, Detach, Send
  <2> QED BY <1>1, <1>2, <2>1
<1>5. CASE LaunchStalls(w)
  <2>1. run' = run \/ (workers[w].launch = "run" /\ run' = [Unassigned(run) EXCEPT !.current = w, !.status = "blocked"])
    BY <1>5 DEF LaunchStalls
  <2>2. [Unassigned(run) EXCEPT !.current = w, !.status = "blocked"].current = w
        /\ [Unassigned(run) EXCEPT !.current = w, !.status = "blocked"].status = "blocked"
    BY <1>1 DEF Unassigned, Run
  <2> QED BY <2>1, <2>2 DEF Launches
<1>6. CASE Attach(w)
  <2> DEFINE paused == PausedIf(run, w, "blocked")
  <2>1. run' = run \/ run' = [paused EXCEPT !.intervened = TRUE]
    BY <1>6 DEF Attach
  <2>2. paused \in Run /\ Same(paused)
    BY <1>1, <1>2, <1>3 DEF Paused
  <2> HIDE DEF paused
  <2> QED BY <1>2, <2>1, <2>2
<1>7. CASE ApplyEvent(w) \/ ApplyFails(w)
  <2> DEFINE done == Completed(run, w)
  <2>1. done \in Run /\ Same(done)
    BY <1>1, <1>2, <1>3
  <2>2. \/ run' = run \/ run' = done \/ run' = PausedIf(done, w, "awaiting_approval")
        \/ run' = PausedIf(run, w, "awaiting_approval") \/ run' = PausedIf(run, w, "blocked")
    BY <1>7 DEF ApplyEvent, ApplyFails, ApplyTo
  <2> HIDE DEF done
  <2> QED BY <1>1, <1>2, <2>1, <2>2 DEF Paused
<1>8. \/ LaunchAppears(w) \/ ClaudeAccepts(w) \/ ClaudeEnds(w) \/ HumanEdits(w) \/ StopWorker(w)
      \/ StartupAnswered(w) \/ PaneDies(w)
      => UNCHANGED run
  BY DEF LaunchAppears, ClaudeAccepts, ClaudeEnds, HumanEdits, StopWorker, StartupAnswered, PaneDies
<1> QED BY <1>4, <1>5, <1>6, <1>7, <1>8 DEF WorkerStep, Intervention, Misfortune

LEMMA WorkersPlaced ==
  ASSUME TypeOK, Placed(run), Launches, NEW w \in DOMAIN workers,
         WorkerStep(w) \/ Intervention(w) \/ StartupAnswered(w) \/ Misfortune(w)
  PROVE  Placed(run') /\ Launches'
<1>1. run'.current = run.current /\ (run'.status = "none" => run.status = "none")
  BY WorkersKeepCurrent
<1>2. run'.step = run.step /\ run'.iterations = run.iterations
  BY WorkersKeepPlace DEF KeepsPlace
<1>3. DOMAIN workers' = DOMAIN workers /\ \A v \in DOMAIN workers : workers'[v].launch \in {workers[v].launch, "none"}
  BY RowsOwned
<1> QED BY <1>1, <1>2, <1>3 DEF Placed, Behind, Launches

LEMMA RecoveryPlaced ==
  ASSUME TypeOK, Placed(run), Launches, RecoverWorkers \/ Crash
  PROVE  Placed(run') /\ Launches'
<1>1. run' = run
  BY DEF RecoverWorkers, Crash
<1>2. \A row \in Worker :
        /\ Recreated(row).launch = row.launch /\ Disconnected(row).launch = row.launch
        /\ Adopted(row).launch = row.launch
        /\ [row EXCEPT !.launch = "none", !.events = Durable(@)].launch = "none"
  BY DEF Worker, Recreated, Disconnected, Adopted
<1>3. \A w \in DOMAIN workers : workers[w] \in Worker
  BY WorkerTable DEF TypeOK
<1>4. DOMAIN workers' = DOMAIN workers /\ \A w \in DOMAIN workers : workers'[w].launch \in {workers[w].launch, "none"}
  <2>1. CASE Crash
    BY <1>2, <1>3, <2>1 DEF Crash
  <2>2. CASE RecoverWorkers
    <3>1. /\ DOMAIN workers' = DOMAIN workers
          /\ \A w \in DOMAIN workers :
               workers'[w] \in {workers[w], Recreated(workers[w]), Disconnected(workers[w]), Adopted(workers[w])}
      BY <2>2 DEF RecoverWorkers
    <3> QED BY <1>2, <1>3, <3>1
  <2> QED BY <2>1, <2>2
<1> QED BY <1>1, <1>4 DEF Launches

LEMMA StepKeepsPlaced ==
  ASSUME TypeOK, Placed(run), Launches, [Next]_vars
  PROVE  Placed(run') /\ Launches'
<1>1. CASE ControllerStep
  BY <1>1, AdvancesPlaced, RecoveryPlaced DEF ControllerStep
<1>2. CASE Decision
  <2>1. CASE ApprovePlan \/ RecordDecision
    BY <2>1 DEF ApprovePlan, RecordDecision, Launches
  <2> QED BY <1>2, <2>1, AdvancesPlaced DEF Decision
<1>3. CASE Crash
  BY <1>3, RecoveryPlaced
<1>4. CASE \E workflow \in DOMAIN Definition : StartByHand(workflow)
  BY <1>4, ByHandPlaced
<1>5. CASE \E w \in DOMAIN workers : WorkerStep(w) \/ Intervention(w) \/ StartupAnswered(w) \/ Misfortune(w)
  BY <1>5, WorkersPlaced
<1>6. CASE UNCHANGED vars
  BY <1>6 DEF vars, Launches
<1> QED BY <1>1, <1>2, <1>3, <1>4, <1>5, <1>6 DEF Next

(* Whatever is replayed, repeated, adopted from a workflow started by hand  *)
(* or recovered, the run stands past an unconditional step only once that   *)
(* step was dispatched and not given back (_advance_run, _resume_run).      *)
THEOREM NothingSkipped == Spec => []NoStepSkipped
<1>1. Init => Placed(run) /\ Launches
  BY StepTypes DEF Init, FreshRun, Placed, Behind, Launches
<1>2. TypeOK /\ (Placed(run) /\ Launches) /\ [Next]_vars => (Placed(run) /\ Launches)'
  BY StepKeepsPlaced
<1>3. Placed(run) /\ Launches => NoStepSkipped
  BY DEF Placed, Behind, NoStepSkipped
<1> QED BY <1>1, <1>2, <1>3, TypeCorrect, PTL DEF Spec

----------------------------------------------------------------------------
(* No contracted work without an approved plan *)

UnderContract(d) == "implementation_contract" \in d.requires

(* What needs the contract writes code, so _assert_prerequisites asks for   *)
(* the approval.                                                            *)
LEMMA ContractedWorkMutates ==
  ASSUME NEW workflow \in DOMAIN Definition, UnderContract(Definition[workflow])
  PROVE  Definition[workflow].mutates = TRUE
<1>1. UnderContract(PlanFeature) => PlanFeature.mutates = TRUE
  BY DEF UnderContract, PlanFeature, Atomic
<1>2. UnderContract(ImplementApprovedPlan) => ImplementApprovedPlan.mutates = TRUE
  BY DEF UnderContract, ImplementApprovedPlan, Atomic
<1>3. UnderContract(FullVerify) => FullVerify.mutates = TRUE
  BY DEF UnderContract, FullVerify, Atomic
<1>4. UnderContract(SmokeTest) => SmokeTest.mutates = TRUE
  BY DEF UnderContract, SmokeTest, Atomic
<1>5. UnderContract(VerifyChecks) => VerifyChecks.mutates = TRUE
  BY DEF UnderContract, VerifyChecks, Atomic
<1>6. UnderContract(IndependentReview) => IndependentReview.mutates = TRUE
  BY DEF UnderContract, IndependentReview, Atomic
<1>7. UnderContract(AddressReviewComments) => AddressReviewComments.mutates = TRUE
  BY DEF UnderContract, AddressReviewComments, Atomic
<1>8. UnderContract(FinalizeChange) => FinalizeChange.mutates = TRUE
  BY DEF UnderContract, FinalizeChange, Atomic
<1>9. UnderContract(InvestigateIssue) => InvestigateIssue.mutates = TRUE
  BY DEF UnderContract, InvestigateIssue, Atomic
<1>10. UnderContract(ImplementFix) => ImplementFix.mutates = TRUE
  BY DEF UnderContract, ImplementFix, Atomic
<1>11. UnderContract(RebaseStack) => RebaseStack.mutates = TRUE
  BY DEF UnderContract, RebaseStack, Atomic
<1>12. Definition[workflow] \in {PlanFeature, ImplementApprovedPlan, FullVerify, SmokeTest, VerifyChecks,
         IndependentReview, AddressReviewComments, FinalizeChange, InvestigateIssue, ImplementFix,
         RebaseStack}
  BY DEF Definition
<1> QED BY <1>1, <1>2, <1>3, <1>4, <1>5, <1>6, <1>7, <1>8, <1>9, <1>10, <1>11, <1>12

LEMMA PrerequisitesApprove ==
  ASSUME NEW workflow \in DOMAIN Definition, Prerequisites(workflow), UnderContract(Definition[workflow])
  PROVE  plan = "approved"
BY ContractedWorkMutates DEF Prerequisites, UnderContract

LEMMA NewcomersApproved ==
  ASSUME Rows, NEW r \in Run, NEW from, Dispatch(r, from),
         NEW w \in DOMAIN workers', w \notin DOMAIN workers
  PROVE  workers'[w].workflow \in DOMAIN Definition /\ Prerequisites(workers'[w].workflow)
<1>1. PICK next \in 1..Len(Steps) + 1 :
        LET at == [r EXCEPT !.step = next]
        IN IF next > Len(Steps) THEN Stay([at EXCEPT !.status = "completed"])
           ELSE LET reuse == WorkerForStep(Steps[next])
                IN IF ~Prerequisites(Steps[next].workflow)
                   THEN Stay([at EXCEPT !.status = "awaiting_approval"])
                   ELSE IF reuse # 0 THEN SendStep(at, reuse) ELSE LaunchStep(at)
  BY DEF Dispatch
<1> DEFINE at == [r EXCEPT !.step = next]
           reuse == WorkerForStep(Steps[next])
<1>2. at.step = next
  BY DEF Run
<1>3. \/ \E status : Stay([at EXCEPT !.status = status])
      \/ ~(next > Len(Steps)) /\ reuse # 0 /\ SendStep(at, reuse)
      \/ ~(next > Len(Steps)) /\ Prerequisites(Steps[next].workflow) /\ LaunchStep(at)
  BY <1>1
<1> HIDE DEF at
<1>4. (\A status : ~Stay([at EXCEPT !.status = status])) /\ ~SendStep(at, reuse)
  BY DEF Stay, SendStep
<1>5. next \in DOMAIN Steps /\ Prerequisites(Steps[next].workflow) /\ LaunchStep(at)
  <2>1. ~(next > Len(Steps)) /\ Prerequisites(Steps[next].workflow) /\ LaunchStep(at)
    BY <1>3, <1>4, Zenon
  <2>2. next \in DOMAIN Steps
    BY <2>1, StepTypes
  <2> QED BY <2>1, <2>2
<1> DEFINE workflow == Steps[next].workflow
           kept == Retiring(workflow)
           added == NewWorker(workflow, "run", dispatch + 1)
<1>6. \A v \in DOMAIN workers : kept[v] \in Worker
  BY WorkerTable, RowTypes DEF Retiring, Rows
<1>7. kept \in Seq(Worker) /\ DOMAIN kept = DOMAIN workers /\ DOMAIN kept = 1..Len(kept) /\ Len(kept) \in Nat
  BY <1>6, RowsRewritten, LenProperties DEF Retiring, Rows
<1>8. added.workflow = workflow /\ workflow \in DOMAIN Definition
  BY <1>5, StepTypes DEF NewWorker
<1>9. workers' = kept \/ workers' = Append(kept, added)
  BY <1>2, <1>5 DEF LaunchStep
<1> HIDE DEF kept, added
<1>10. workers' = Append(kept, added) /\ w = Len(kept) + 1
  BY <1>7, <1>9, AppendProperties
<1>11. workers'[w] = added
  BY <1>7, <1>10, AppendProperties
<1> QED BY <1>5, <1>8, <1>11

LEMMA AdvanceNewcomers ==
  ASSUME Rows, NEW r \in Run, AdvanceFrom(r),
         NEW w \in DOMAIN workers', w \notin DOMAIN workers
  PROVE  workers'[w].workflow \in DOMAIN Definition /\ Prerequisites(workers'[w].workflow)
<1>1. ~Stay(r) /\ ~Stay([r EXCEPT !.status = "awaiting_approval"])
  BY DEF Stay
<1>2. PICK s \in Run : \E from : Dispatch(s, from)
  BY <1>1, AdvanceRows
<1> QED BY <1>2, NewcomersApproved

LEMMA StepApproves ==
  ASSUME TypeOK, [Next]_vars, NEW w \in DOMAIN workers', w \notin DOMAIN workers,
         UnderContract(Definition[workers'[w].workflow])
  PROVE  plan = "approved"
<1> USE TypeParts
<1>1. CASE StartRun \/ Advance \/ ResumeRun \/ RecoverRun
  <2>1. PICK r \in Run : AdvanceFrom(r)
    BY <1>1, FreshRunTypes, ResumedTypes
      DEF StartRun, Advance, ResumeRun, RecoverRun, Stay, Rows
  <2> QED BY <2>1, AdvanceNewcomers, PrerequisitesApprove
<1>2. ASSUME NEW workflow \in DOMAIN Definition, StartByHand(workflow) PROVE plan = "approved"
  <2> DEFINE added(serves) == NewWorker(workflow, "hand", serves)
  <2>1. PICK serves \in Nat : workers' = Append(workers, added(serves))
    <3>1. dispatch + 1 \in Nat
      BY DEF Counters
    <3> QED BY <1>2, <3>1 DEF StartByHand
  <2>2. added(serves) \in Worker /\ added(serves).workflow = workflow
    BY NewRowTypes DEF NewWorker
  <2> HIDE DEF added
  <2>3. workers'[w].workflow = workflow
    BY <2>1, <2>2, WorkerTable, AppendProperties DEF Rows
  <2> QED BY <1>2, <2>3, PrerequisitesApprove DEF StartByHand
<1>3. ApprovePlan \/ RecordDecision \/ RecoverWorkers \/ Crash \/ UNCHANGED vars
      => DOMAIN workers' = DOMAIN workers
  BY DEF ApprovePlan, RecordDecision, RecoverWorkers, Crash, vars
<1>4. (\E v \in DOMAIN workers : WorkerStep(v) \/ Intervention(v) \/ StartupAnswered(v) \/ Misfortune(v))
      => DOMAIN workers' = DOMAIN workers
  BY RowsOwned
<1> QED BY <1>1, <1>2, <1>3, <1>4 DEF Next, ControllerStep, Decision

(* A session that works under the implementation contract exists only if    *)
(* the plan was approved when it was made: by an advance, a replay after a  *)
(* human entered, recover() or a start by hand (_assert_prerequisites).     *)
THEOREM ApprovalComesFirst == Spec => ApprovedPlanFirst
<1> DEFINE Asked == \A w \in DOMAIN workers' :
             /\ w \notin DOMAIN workers
             /\ "implementation_contract" \in Definition[workers'[w].workflow].requires
             => plan = "approved"
<1>1. TypeOK /\ [Next]_vars => [Asked]_vars
  BY StepApproves DEF UnderContract
<1> QED BY <1>1, TypeCorrect, PTL DEF Spec, ApprovedPlanFirst

----------------------------------------------------------------------------
(* One attempt at a time *)

(***************************************************************************)
(* Where nobody enters a session, sends a message or starts a workflow     *)
(* beside the run, whatever is launched, prompted or waits to be applied   *)
(* belongs to the run's current worker and to its last dispatch.  So the   *)
(* run dispatches again only once its step is completed, and nothing of    *)
(* the step is left by then: an attempt is a launch, then a turn, then one *)
(* event, never two of them.  A step that failed any other way keeps the   *)
(* worker it has, and resume_run refuses to replay it: nobody touched it.  *)
(***************************************************************************)
Undisturbed == MaxEntries = 0 /\ MaxSends = 0 /\ MaxByHand = 0

Told(row) == \E i \in DOMAIN row.events : row.events[i].kind # "lost"
AtWork(row) == row.launch # "none" \/ row.turn \in {"pending", "open"}
Busy(row) == AtWork(row) \/ Told(row)
Orderly(row, attempt) ==
  /\ row.owner = "manager" /\ row.tainted = FALSE
  /\ row.launch # "none" => row.turn = "none"
  /\ AtWork(row) => row.serves = attempt /\ ~Told(row)
  /\ \A i \in DOMAIN row.events :
       row.events[i].kind # "lost" => row.events[i].serves = attempt
  /\ \A i, j \in DOMAIN row.events :
       row.events[i].kind # "lost" /\ row.events[j].kind # "lost" => i = j

Attempted ==
  \A w \in DOMAIN workers :
    /\ Orderly(workers[w], dispatch)
    /\ Busy(workers[w]) => w = run.current /\ run.completed = FALSE
Unlaunched == phase = "down" => \A w \in DOMAIN workers : workers[w].launch = "none"
Unstarted == run.status = "none" => run.current = 0
AttemptInv == Attempted /\ Unlaunched /\ Unstarted /\ run.intervened = FALSE

(* What takes work from a row and gives it none. *)
Eases(row, was) ==
  /\ row.owner = "manager" /\ row.tainted = FALSE
  /\ row.launch # "none" => row.turn = "none"
  /\ AtWork(row) => AtWork(was) /\ row.serves = was.serves
  /\ \E k \in {0, 1} : \A i \in DOMAIN row.events :
       row.events[i].kind # "lost" =>
         i + k \in DOMAIN was.events /\ row.events[i] = was.events[i + k]

LEMMA Eased ==
  ASSUME NEW row \in Worker, NEW was \in Worker, NEW attempt,
         Orderly(was, attempt), Eases(row, was)
  PROVE  Orderly(row, attempt) /\ (Busy(row) => Busy(was))
<1>1. PICK k \in {0, 1} : \A i \in DOMAIN row.events :
        row.events[i].kind # "lost" =>
          i + k \in DOMAIN was.events /\ row.events[i] = was.events[i + k]
  BY DEF Eases
<1>2. \A i \in DOMAIN row.events : i \in Nat
  BY LenProperties DEF Worker
<1>3. Told(row) => Told(was)
  BY <1>1 DEF Told
<1>4. \A i \in DOMAIN row.events :
        row.events[i].kind # "lost" => row.events[i].serves = attempt
  BY <1>1 DEF Orderly
<1>5. ASSUME NEW i \in DOMAIN row.events, NEW j \in DOMAIN row.events,
             row.events[i].kind # "lost", row.events[j].kind # "lost"
      PROVE  i = j
  <2>1. i + k = j + k
    BY <1>1, <1>5 DEF Orderly
  <2> QED BY <1>2, <2>1
<1>6. AtWork(row) => row.serves = attempt /\ ~Told(row)
  BY <1>3 DEF Orderly, Eases
<1> QED BY <1>3, <1>4, <1>5, <1>6 DEF Orderly, Eases, Busy

(* A row with nothing to do is in order for whatever attempt is next. *)
LEMMA IdleIsOrderly ==
  ASSUME NEW row, NEW attempt, NEW next, Orderly(row, attempt), ~Busy(row)
  PROVE  Orderly(row, next)
BY DEF Orderly, Busy, Told

(* Which events are left of a queue that is read, reported to or kept. *)
LEMMA EventsKept ==
  ASSUME NEW events \in Seq(Event)
  PROVE  /\ events # <<>> => \A i \in DOMAIN Tail(events) :
              i + 1 \in DOMAIN events /\ Tail(events)[i] = events[i + 1]
         /\ \A e : \A i \in DOMAIN Append(events, e) :
              IF i \in DOMAIN events THEN Append(events, e)[i] = events[i]
              ELSE i = Len(events) + 1 /\ Append(events, e)[i] = e
         /\ \A i \in DOMAIN Durable(events) :
              i \in DOMAIN events /\ Durable(events)[i] = events[i]
<1>1. Len(events) \in Nat /\ DOMAIN events = 1..Len(events)
  BY LenProperties
<1>2. events # <<>> => \A i \in DOMAIN Tail(events) :
        i + 1 \in DOMAIN events /\ Tail(events)[i] = events[i + 1]
  <2> SUFFICES ASSUME events # <<>>, NEW i \in DOMAIN Tail(events)
               PROVE  i + 1 \in DOMAIN events /\ Tail(events)[i] = events[i + 1]
    OBVIOUS
  <2>1. /\ Tail(events) \in Seq(Event) /\ Len(Tail(events)) = Len(events) - 1
        /\ \A j \in 1..Len(Tail(events)) : Tail(events)[j] = events[j + 1]
    BY HeadTailProperties
  <2>2. DOMAIN Tail(events) = 1..Len(Tail(events))
    BY <2>1, LenProperties
  <2> QED BY <1>1, <2>1, <2>2
<1>3. ASSUME NEW e, NEW i \in DOMAIN Append(events, e)
      PROVE  IF i \in DOMAIN events THEN Append(events, e)[i] = events[i]
             ELSE i = Len(events) + 1 /\ Append(events, e)[i] = e
  BY <1>1, <1>3
<1>4. ASSUME NEW i \in DOMAIN Durable(events)
      PROVE  i \in DOMAIN events /\ Durable(events)[i] = events[i]
  <2>1. CASE Durable(events) = events
    BY <2>1
  <2>2. CASE Durable(events) = SubSeq(events, 1, Len(events) - 1)
    BY <1>1, <1>4, <2>2
  <2> QED BY <2>1, <2>2 DEF Durable
<1> QED BY <1>2, <1>3, <1>4

(* A worker's step that eases its row, beside a run row that keeps its      *)
(* worker and is completed only when nothing of the attempt is left.        *)
LEMMA RowStep ==
  ASSUME TypeOK, AttemptInv, NEW w \in DOMAIN workers, NEW row \in Worker, SetWorker(w, row),
         Orderly(row, dispatch), Busy(row) => Busy(workers[w]),
         row.launch \in {workers[w].launch, "none"},
         dispatch' = dispatch, phase' = phase,
         run'.current = run.current, run'.intervened = FALSE,
         run'.status = "none" => run.status = "none",
         run'.completed = run.completed \/ (run.current = w /\ ~Busy(row))
  PROVE  AttemptInv'
<1>1. workers \in Seq(Worker)
  BY DEF TypeOK
<1>2. DOMAIN workers' = DOMAIN workers /\ workers'[w] = row
      /\ \A v \in DOMAIN workers : v # w => workers'[v] = workers[v]
  BY DEF SetWorker
<1>3. Attempted'
  <2> SUFFICES ASSUME NEW v \in DOMAIN workers
               PROVE  /\ Orderly(workers'[v], dispatch)
                      /\ Busy(workers'[v]) => v = run'.current /\ run'.completed = FALSE
    BY <1>2 DEF Attempted
  <2>1. /\ Orderly(workers[v], dispatch)
        /\ Busy(workers[v]) => v = run.current /\ run.completed = FALSE
    BY DEF AttemptInv, Attempted
  <2>2. CASE v = w
    BY <1>2, <2>1, <2>2
  <2>3. CASE v # w
    BY <1>2, <2>1, <2>3
  <2> QED BY <2>2, <2>3
<1>4. Unlaunched'
  BY <1>2 DEF AttemptInv, Unlaunched
<1> QED BY <1>3, <1>4 DEF AttemptInv, Unstarted

(* The queues a step leaves: as it was, emptied, read, kept or reported to. *)
LEMMA EasesIf ==
  ASSUME NEW row, NEW was \in Worker, NEW attempt, Orderly(was, attempt),
         row.owner = "manager", row.tainted = FALSE,
         row.launch # "none" => row.turn = "none",
         AtWork(row) => AtWork(was) /\ row.serves = was.serves,
         \/ row.events \in {was.events, <<>>, Durable(was.events),
                            Append(was.events, [kind |-> "lost", serves |-> 0])}
         \/ was.events # <<>> /\ row.events = Tail(was.events)
  PROVE  Eases(row, was)
<1>1. was.events \in Seq(Event) /\ DOMAIN was.events \subseteq Nat
  BY LenProperties DEF Worker
<1>2. \A i \in DOMAIN was.events : i + 0 = i
  BY <1>1
<1>3. \E k \in {0, 1} : \A i \in DOMAIN row.events :
        row.events[i].kind # "lost" =>
          i + k \in DOMAIN was.events /\ row.events[i] = was.events[i + k]
  <2>1. CASE row.events = was.events
    BY <1>2, <2>1
  <2>2. CASE row.events = <<>>
    <3>1. DOMAIN row.events = {}
      BY <2>2
    <3> QED BY <3>1
  <2>3. CASE row.events = Durable(was.events)
    <3>1. \A i \in DOMAIN row.events :
            i + 0 \in DOMAIN was.events /\ row.events[i] = was.events[i + 0]
      BY <1>1, <1>2, <2>3, EventsKept
    <3> QED BY <3>1
  <2>4. CASE row.events = Append(was.events, [kind |-> "lost", serves |-> 0])
    <3>1. \A i \in DOMAIN row.events :
            IF i \in DOMAIN was.events THEN row.events[i] = was.events[i]
            ELSE row.events[i] = [kind |-> "lost", serves |-> 0]
      BY <1>1, <2>4, EventsKept
    <3>2. \A i \in DOMAIN row.events : row.events[i].kind # "lost" =>
            i + 0 \in DOMAIN was.events /\ row.events[i] = was.events[i + 0]
      BY <1>2, <3>1
    <3> QED BY <3>2
  <2>5. CASE was.events # <<>> /\ row.events = Tail(was.events)
    <3>1. \A i \in DOMAIN row.events :
            i + 1 \in DOMAIN was.events /\ row.events[i] = was.events[i + 1]
      BY <1>1, <2>5, EventsKept
    <3> QED BY <3>1
  <2> QED BY <2>1, <2>2, <2>3, <2>4, <2>5
<1> QED BY <1>3 DEF Eases

LEMMA EasedStep ==
  ASSUME TypeOK, TypeOK', AttemptInv, NEW w \in DOMAIN workers, NEW row, SetWorker(w, row),
         Eases(row, workers[w]), row.launch \in {workers[w].launch, "none"},
         dispatch' = dispatch, phase' = phase,
         run'.current = run.current, run'.intervened = FALSE,
         run'.status = "none" => run.status = "none",
         run'.completed = run.completed \/ (run.current = w /\ ~Busy(row))
  PROVE  AttemptInv'
<1>1. workers \in Seq(Worker) /\ workers' \in Seq(Worker) /\ workers[w] \in Worker
  BY WorkerTable DEF TypeOK
<1>2. workers'[w] = row /\ w \in DOMAIN workers'
  BY DEF SetWorker
<1>3. row \in Worker
  BY <1>1, <1>2, ElementOfSeq, LenProperties
<1>4. Orderly(workers[w], dispatch)
  BY DEF AttemptInv, Attempted
<1>5. Orderly(row, dispatch) /\ (Busy(row) => Busy(workers[w]))
  BY <1>1, <1>3, <1>4, Eased
<1> QED BY <1>3, <1>5, RowStep

(* What is closed where nothing disturbs the run. *)
LEMMA Undisturbing ==
  ASSUME Undisturbed, TypeOK, AttemptInv, NEW w \in DOMAIN workers
  PROVE  /\ ~Attach(w) /\ ~Send(w) /\ ~HumanEdits(w) /\ ~Detach(w)
         /\ \A workflow : ~StartByHand(workflow)
<1>1. used.entries \in Nat /\ used.sends \in Nat /\ used.byHand \in Nat
  BY DEF TypeOK, Allowance
<1>2. workers[w].owner = "manager"
  BY DEF AttemptInv, Attempted, Orderly
<1>3. ~Attach(w)
  BY <1>1 DEF Undisturbed, Attach
<1>4. ~Send(w)
  BY <1>1 DEF Undisturbed, Send
<1>5. \A workflow : ~StartByHand(workflow)
  BY <1>1 DEF Undisturbed, StartByHand
<1> QED BY <1>2, <1>3, <1>4, <1>5 DEF HumanEdits, Detach

(* The run row, where a worker's step only pauses it or puts it in flight. *)
LEMMA RunKept ==
  ASSUME TypeOK, NEW w
  PROVE  /\ Unpaused(run, w).completed = run.completed
         /\ Unpaused(run, w).intervened = run.intervened
         /\ Unpaused(run, w).status \in {run.status, "running"}
         /\ Completed(run, w).intervened = run.intervened
         /\ Completed(run, w).status = run.status
         /\ Completed(run, w).completed = run.completed
            \/ (run.current = w /\ Completed(run, w).completed = TRUE)
<1>1. run \in Run
  BY DEF TypeOK
<1>2. /\ Unpaused(run, w).completed = run.completed
      /\ Unpaused(run, w).intervened = run.intervened
      /\ Unpaused(run, w).status \in {run.status, "running"}
  BY <1>1 DEF Unpaused, Run
<1>3. /\ Completed(run, w).intervened = run.intervened
      /\ Completed(run, w).status = run.status
      /\ Completed(run, w).completed = run.completed
         \/ (run.current = w /\ Completed(run, w).completed = TRUE)
  BY <1>1 DEF Completed, Run
<1> QED BY <1>2, <1>3

LEMMA PausedKept ==
  ASSUME NEW r \in Run, NEW w, NEW status \in Paused
  PROVE  /\ PausedIf(r, w, status).completed = r.completed
         /\ PausedIf(r, w, status).intervened = r.intervened
         /\ PausedIf(r, w, status).status \in {r.status, status}
BY DEF PausedIf, Run

LEMMA LaunchesAttempt ==
  ASSUME TypeOK, TypeOK', AttemptInv, NEW w \in DOMAIN workers,
         LaunchAppears(w) \/ LaunchReady(w) \/ LaunchStalls(w)
  PROVE  AttemptInv'
<1> DEFINE was == workers[w]
<1>1. was \in Worker /\ run \in Run
  BY WorkerTable DEF TypeOK
<1>2. Orderly(was, dispatch) /\ run.intervened = FALSE
  BY DEF AttemptInv, Attempted
<1>3. phase' = phase /\ dispatch' = dispatch /\ was.launch # "none"
  BY DEF LaunchAppears, LaunchReady, LaunchStalls, Launching, controller
<1>4. w = run.current /\ run.completed = FALSE
  BY <1>3 DEF AttemptInv, Attempted, Busy, AtWork
<1>5. CASE LaunchAppears(w)
  <2> DEFINE row == [was EXCEPT !.pane = "starting"]
  <2>1. SetWorker(w, row) /\ run' = run
    BY <1>5 DEF LaunchAppears
  <2>2. /\ row.owner = was.owner /\ row.tainted = was.tainted /\ row.launch = was.launch
        /\ row.turn = was.turn /\ row.serves = was.serves /\ row.events = was.events
    BY <1>1 DEF Worker
  <2> HIDE DEF row
  <2>3. Eases(row, was)
    BY <1>1, <1>2, <2>2, EasesIf DEF Orderly, AtWork
  <2> QED BY <1>2, <1>3, <2>1, <2>2, <2>3, EasedStep
<1>6. CASE LaunchReady(w)
  <2> DEFINE prompted == Prompted(was, was.serves)
             row == [prompted EXCEPT !.launch = "none", !.pane = "ready", !.owes = FALSE]
  <2>1. SetWorker(w, row) /\ (run' = run \/ run' = Unpaused(run, w))
    BY <1>6 DEF LaunchReady
  <2>2. prompted \in Worker /\ prompted.owner = was.owner /\ prompted.tainted = FALSE
        /\ prompted.turn = "pending" /\ prompted.serves = was.serves
        /\ prompted.events = was.events
    <3>1. was.serves \in Nat
      BY <1>1 DEF Worker
    <3> QED BY <1>1, <3>1, RowTypes DEF Prompted, Worker
  <2> HIDE DEF prompted
  <2>3. /\ row.owner = was.owner /\ row.tainted = FALSE /\ row.launch = "none"
        /\ row.turn = "pending" /\ row.serves = was.serves /\ row.events = was.events
    BY <2>2 DEF Worker
  <2> HIDE DEF row
  <2>4. Eases(row, was)
    BY <1>1, <1>2, <1>3, <2>3, EasesIf DEF Orderly, AtWork
  <2>5. Unpaused(run, w).current = run.current
    BY <1>1, RunRowTypes
  <2>6. /\ run'.current = run.current /\ run'.intervened = FALSE
        /\ run'.status = "none" => run.status = "none"
        /\ run'.completed = run.completed
    <3>1. /\ Unpaused(run, w).completed = run.completed
          /\ Unpaused(run, w).intervened = run.intervened
          /\ Unpaused(run, w).status \in {run.status, "running"}
      BY RunKept
    <3>2. CASE run' = run
      BY <1>2, <3>2
    <3>3. CASE run' = Unpaused(run, w)
      BY <1>2, <2>5, <3>1, <3>3
    <3> QED BY <2>1, <3>2, <3>3
  <2> QED BY <1>3, <2>1, <2>3, <2>4, <2>6, EasedStep
<1>7. CASE LaunchStalls(w)
  <2>1. PICK pane, status :
          SetWorker(w, [was EXCEPT !.launch = "none", !.pane = pane, !.status = status])
    BY <1>7 DEF LaunchStalls
  <2> DEFINE row == [was EXCEPT !.launch = "none", !.pane = pane, !.status = status]
  <2>2. /\ row.owner = was.owner /\ row.tainted = was.tainted /\ row.launch = "none"
        /\ row.turn = was.turn /\ row.serves = was.serves /\ row.events = was.events
    BY <1>1 DEF Worker
  <2> HIDE DEF row
  <2>3. Eases(row, was)
    BY <1>1, <1>2, <1>3, <2>2, EasesIf DEF Orderly, AtWork
  <2>4. run' = run \/ run' = [Unassigned(run) EXCEPT !.current = w, !.status = "blocked"]
    BY <1>7 DEF LaunchStalls
  <2>5. /\ run'.current = run.current /\ run'.intervened = FALSE
        /\ run'.status = "none" => run.status = "none" 
        /\ run'.completed = run.completed
    BY <1>1, <1>2, <1>4, <2>4 DEF Unassigned, Run
  <2> QED BY <1>3, <2>1, <2>2, <2>3, <2>5, EasedStep DEF row
<1> QED BY <1>5, <1>6, <1>7

(* What Claude does, and what becomes of its process. *)
LEMMA ProcessesAttempt ==
  ASSUME TypeOK, TypeOK', AttemptInv, NEW w \in DOMAIN workers,
         ClaudeAccepts(w) \/ PaneDies(w) \/ StartupAnswered(w) \/ StopWorker(w)
  PROVE  AttemptInv'
<1> DEFINE was == workers[w]
<1>1. was \in Worker
  BY WorkerTable DEF TypeOK
<1>2. Orderly(was, dispatch) /\ run.intervened = FALSE
  BY DEF AttemptInv, Attempted
<1>3. phase' = phase /\ dispatch' = dispatch /\ run' = run
  BY DEF ClaudeAccepts, PaneDies, StartupAnswered, StopWorker, controller
<1>4. ASSUME NEW row, SetWorker(w, row), row.launch \in {was.launch, "none"},
             row.owner = was.owner, row.tainted = was.tainted,
             row.launch # "none" => row.turn = "none",
             AtWork(row) => AtWork(was) /\ row.serves = was.serves,
             row.events \in {was.events, <<>>,
                             Append(was.events, [kind |-> "lost", serves |-> 0])}
      PROVE  AttemptInv'
  <2>1. Eases(row, was)
    BY <1>1, <1>2, <1>4, EasesIf DEF Orderly
  <2> QED BY <1>2, <1>3, <1>4, <2>1, EasedStep
<1>5. CASE ClaudeAccepts(w)
  <2> DEFINE row == [was EXCEPT !.turn = "open"]
  <2>1. SetWorker(w, row) /\ was.turn = "pending"
    BY <1>5 DEF ClaudeAccepts
  <2>2. /\ row.owner = was.owner /\ row.tainted = was.tainted /\ row.launch = was.launch
        /\ row.turn = "open" /\ row.serves = was.serves /\ row.events = was.events
    BY <1>1 DEF Worker
  <2> HIDE DEF row
  <2> QED BY <1>2, <1>4, <2>1, <2>2 DEF Orderly, AtWork
<1>6. CASE PaneDies(w)
  <2>1. PICK events : /\ SetWorker(w, [was EXCEPT !.pane = "none", !.events = events])
                      /\ events \in {was.events, Append(was.events, [kind |-> "lost", serves |-> 0])}
    BY <1>6 DEF PaneDies
  <2> DEFINE row == [was EXCEPT !.pane = "none", !.events = events]
  <2>2. /\ row.owner = was.owner /\ row.tainted = was.tainted /\ row.launch = was.launch
        /\ row.turn = was.turn /\ row.serves = was.serves /\ row.events = events
    BY <1>1 DEF Worker
  <2>3. SetWorker(w, row)
    BY <2>1
  <2> HIDE DEF row
  <2> QED BY <1>2, <1>4, <2>1, <2>2, <2>3 DEF Orderly, AtWork
<1>7. CASE StartupAnswered(w)
  <2> DEFINE row == [was EXCEPT !.pane = "ready"]
  <2>1. SetWorker(w, row)
    BY <1>7 DEF StartupAnswered
  <2>2. /\ row.owner = was.owner /\ row.tainted = was.tainted /\ row.launch = was.launch
        /\ row.turn = was.turn /\ row.serves = was.serves /\ row.events = was.events
    BY <1>1 DEF Worker
  <2> HIDE DEF row
  <2> QED BY <1>2, <1>4, <2>1, <2>2 DEF Orderly, AtWork
<1>8. CASE StopWorker(w)
  <2> DEFINE row == Stopped(was)
  <2>1. SetWorker(w, row)
    BY <1>8 DEF StopWorker
  <2>2. /\ row.owner = was.owner /\ row.tainted = was.tainted /\ row.launch = "none"
        /\ row.turn = was.turn /\ row.serves = was.serves /\ row.events = <<>>
    BY <1>1 DEF Stopped, Worker
  <2> HIDE DEF row
  <2> QED BY <1>2, <1>4, <2>1, <2>2 DEF Orderly, AtWork
<1> QED BY <1>5, <1>6, <1>7, <1>8

(* A turn that ends becomes the one event of the attempt. *)
LEMMA EndAttempt ==
  ASSUME TypeOK, TypeOK', AttemptInv, NEW w \in DOMAIN workers, ClaudeEnds(w)
  PROVE  AttemptInv'
<1> DEFINE was == workers[w]
<1>1. was \in Worker /\ was.events \in Seq(Event)
  BY WorkerTable DEF TypeOK, Worker
<1>2. Orderly(was, dispatch) /\ run.intervened = FALSE
  BY DEF AttemptInv, Attempted
<1>3. phase' = phase /\ dispatch' = dispatch /\ run' = run /\ was.turn = "open"
  BY DEF ClaudeEnds, controller
<1>4. was.serves = dispatch /\ ~Told(was) /\ was.launch = "none"
  BY <1>2, <1>3 DEF Orderly, AtWork
<1>5. PICK kind : SetWorker(w, [was EXCEPT !.turn = "over",
                     !.events = IF was.tainted THEN @
                                ELSE Append(@, [kind |-> kind, serves |-> was.serves])])
  BY DEF ClaudeEnds
<1> DEFINE event == [kind |-> kind, serves |-> was.serves]
           events == Append(was.events, event)
           row == [was EXCEPT !.turn = "over", !.events = events]
<1>6. SetWorker(w, row)
  BY <1>1, <1>2, <1>5 DEF Orderly, Worker
<1>7. /\ row.owner = "manager" /\ row.tainted = FALSE /\ row.launch = "none"
      /\ row.turn = "over" /\ row.serves = dispatch /\ row.events = events
  BY <1>1, <1>2, <1>4 DEF Orderly, Worker
<1>8. \A i \in DOMAIN events :
        IF i \in DOMAIN was.events THEN events[i] = was.events[i]
        ELSE i = Len(was.events) + 1 /\ events[i] = event
  BY <1>1, EventsKept
<1>9. row \in Worker
  <2>1. workers' \in Seq(Worker) /\ workers'[w] = row /\ w \in DOMAIN workers'
    BY <1>6 DEF TypeOK, SetWorker
  <2> HIDE DEF row
  <2> QED BY <2>1, ElementOfSeq, LenProperties
<1>10. event.serves = dispatch
  BY <1>4
<1> HIDE DEF row, events, event
<1>11. \A i \in DOMAIN events : events[i].kind # "lost" =>
         i = Len(was.events) + 1 /\ events[i].serves = dispatch
  BY <1>4, <1>8, <1>10 DEF Told
<1>12. Orderly(row, dispatch)
  BY <1>7, <1>11 DEF Orderly, AtWork
<1>13. Busy(was)
  BY <1>3 DEF Busy, AtWork
<1> QED BY <1>2, <1>3, <1>6, <1>7, <1>9, <1>12, <1>13, RowStep

(* An event that is applied was the last of its attempt. *)
LEMMA ApplyAttempt ==
  ASSUME TypeOK, TypeOK', AttemptInv, NEW w \in DOMAIN workers, ApplyEvent(w) \/ ApplyFails(w)
  PROVE  AttemptInv'
<1> DEFINE was == workers[w]
           event == Head(was.events)
<1>1. was \in Worker /\ was.events \in Seq(Event) /\ run \in Run
  BY WorkerTable DEF TypeOK, Worker
<1>2. Orderly(was, dispatch) /\ run.intervened = FALSE
  BY DEF AttemptInv, Attempted
<1>3. phase' = phase /\ dispatch' = dispatch /\ was.events # <<>> /\ was.launch = "none"
  BY DEF ApplyEvent, ApplyFails, controller
<1>4. PICK status : SetWorker(w, Consumed(w, status))
  BY DEF ApplyEvent, ApplyFails, ApplyTo
<1> DEFINE row == Consumed(w, status)
<1>5. /\ row.owner = was.owner /\ row.tainted = was.tainted /\ row.launch = was.launch
      /\ row.turn = was.turn /\ row.serves = was.serves /\ row.events = Tail(was.events)
  BY <1>1 DEF Consumed, Worker
<1> HIDE DEF row
<1>6. Eases(row, was)
  BY <1>1, <1>2, <1>3, <1>5, EasesIf DEF Orderly, AtWork
<1>7. event.kind # "lost" => ~Busy(row)
  <2> SUFFICES ASSUME event.kind # "lost"
               PROVE  ~Busy(row)
    OBVIOUS
  <2>1. 1 \in DOMAIN was.events /\ was.events[1] = event /\ Len(was.events) \in Nat
    BY <1>1, <1>3, LenProperties, HeadTailProperties, EmptySeq
  <2>2. Told(was)
    BY <2>1 DEF Told
  <2>3. ~AtWork(row)
    BY <1>2, <1>5, <2>2 DEF Orderly, AtWork
  <2>4. ASSUME NEW i \in DOMAIN row.events, row.events[i].kind # "lost" PROVE FALSE
    <3>1. i + 1 \in DOMAIN was.events /\ row.events[i] = was.events[i + 1]
      BY <1>1, <1>3, <1>5, <2>4, EventsKept
    <3>2. i + 1 = 1
      BY <1>2, <2>1, <2>4, <3>1 DEF Orderly
    <3>3. i \in Nat \ {0}
      <4>1. DOMAIN row.events = 1..Len(row.events)
        BY <1>1, <1>3, <1>5, HeadTailProperties, LenProperties
      <4> QED BY <2>4, <4>1
    <3> QED BY <3>2, <3>3
  <2> QED BY <2>3, <2>4 DEF Busy, Told
<1>8. /\ run'.current = run.current /\ run'.intervened = FALSE
      /\ run'.status = "none" => run.status = "none"
      /\ run'.completed = run.completed \/ (run.current = w /\ ~Busy(row))
  <2> DEFINE done == Completed(run, w)
  <2>1. done \in Run /\ done.current = run.current
    BY <1>1, RunRowTypes
  <2>2. \/ run' = run
        \/ \E status2 \in Paused : run' = PausedIf(run, w, status2)
        \/ /\ event.kind \in {"result", "answered"}
           /\ run' = done \/ run' = PausedIf(done, w, "awaiting_approval")
    BY DEF ApplyEvent, ApplyFails, ApplyTo, Paused
  <2> HIDE DEF done, event
  <2>3. CASE run' = run
    BY <1>2, <2>3
  <2>4. CASE \E status2 \in Paused : run' = PausedIf(run, w, status2)
    <3>1. PICK status2 \in Paused : run' = PausedIf(run, w, status2)
      BY <2>4
    <3>2. /\ run'.completed = run.completed /\ run'.intervened = run.intervened
          /\ run'.status \in {run.status, status2}
      BY <1>1, <3>1, PausedKept
    <3>3. run'.current = run.current
      BY <1>1, <3>1, RunRowTypes
    <3> QED BY <1>2, <3>1, <3>2, <3>3 DEF Paused
  <2>5. CASE event.kind \in {"result", "answered"} /\ (run' = done \/ run' = PausedIf(done, w, "awaiting_approval"))
    <3>1. /\ run'.current = done.current /\ run'.intervened = done.intervened
          /\ run'.completed = done.completed /\ run'.status \in {done.status, "awaiting_approval"}
      <4>1. LET p == PausedIf(done, w, "awaiting_approval") IN
            /\ p.completed = done.completed /\ p.intervened = done.intervened
            /\ p.status \in {done.status, "awaiting_approval"}
        BY <2>1, PausedKept DEF Paused
      <4>2. PausedIf(done, w, "awaiting_approval").current = done.current
        BY <2>1, RunRowTypes DEF Paused
      <4> QED BY <2>5, <4>1, <4>2
    <3>2. /\ done.intervened = run.intervened /\ done.status = run.status
          /\ done.completed = run.completed \/ run.current = w
      BY RunKept DEF done
    <3>3. ~Busy(row)
      BY <1>7, <2>5
    <3> QED BY <1>2, <2>1, <3>1, <3>2, <3>3
  <2> QED BY <2>2, <2>3, <2>4, <2>5
<1> QED BY <1>3, <1>4, <1>5, <1>6, <1>8, EasedStep DEF row

LEMMA StoppedEases ==
  ASSUME NEW was \in Worker, NEW attempt, Orderly(was, attempt)
  PROVE  Stopped(was) \in Worker /\ Eases(Stopped(was), was)
<1> DEFINE row == Stopped(was)
<1>1. row \in Worker
  BY RowTypes
<1>2. /\ row.owner = was.owner /\ row.tainted = was.tainted /\ row.launch = "none"
      /\ row.turn = was.turn /\ row.serves = was.serves /\ row.events = <<>>
  BY DEF Stopped, Worker
<1> HIDE DEF row
<1>3. Eases(row, was)
  BY <1>2, EasesIf DEF Orderly, AtWork
<1> QED BY <1>1, <1>3 DEF row

(* A crash ends the launches; recovery gives no row work it did not have.   *)
LEMMA CrashAttempt ==
  ASSUME TypeOK, TypeOK', AttemptInv, Crash \/ RecoverWorkers
  PROVE  AttemptInv'
<1>1. run' = run /\ dispatch' = dispatch /\ (RecoverWorkers => phase' # "down")
  BY DEF Crash, RecoverWorkers
<1>2. \A w \in DOMAIN workers :
        /\ workers[w] \in Worker /\ Orderly(workers[w], dispatch)
        /\ RecoverWorkers => workers[w].launch = "none"
  BY WorkerTable DEF TypeOK, AttemptInv, Attempted, Unlaunched, RecoverWorkers
<1>3. DOMAIN workers' = DOMAIN workers
  BY DEF Crash, RecoverWorkers
<1>4. ASSUME NEW w \in DOMAIN workers
      PROVE  Eases(workers'[w], workers[w]) /\ workers'[w].launch = "none"
  <2> DEFINE was == workers[w]
  <2>1. was \in Worker /\ Orderly(was, dispatch)
    BY <1>2
  <2>2. CASE Crash
    <3> DEFINE row == [was EXCEPT !.launch = "none", !.events = Durable(@)]
    <3>1. workers'[w] = row
      BY <2>2 DEF Crash
    <3>2. /\ row.owner = was.owner /\ row.tainted = was.tainted /\ row.launch = "none"
          /\ row.turn = was.turn /\ row.serves = was.serves /\ row.events = Durable(was.events)
      BY <2>1 DEF Worker
    <3> HIDE DEF row
    <3> QED BY <2>1, <3>1, <3>2, EasesIf DEF Orderly, AtWork
  <2>3. CASE RecoverWorkers
    <3>1. workers'[w] \in {was, Recreated(was), Disconnected(was), Adopted(was)}
      BY <2>3 DEF RecoverWorkers
    <3> DEFINE row == workers'[w]
    <3>2. was.launch = "none"
      BY <1>2, <2>3
    <3>3. /\ row.owner = was.owner /\ row.tainted = FALSE /\ row.launch = "none"
          /\ (row.turn = was.turn /\ row.serves = was.serves) \/ row.turn = "none"
          /\ row.events = was.events \/ row.events = <<>>
      <4>1. CASE row = was
        BY <2>1, <3>2, <4>1 DEF Orderly
      <4>2. CASE row = Recreated(was)
        BY <2>1, <3>2, <4>2 DEF Recreated, Worker
      <4>3. CASE row = Disconnected(was)
        BY <2>1, <3>2, <4>3 DEF Disconnected, Worker, Orderly
      <4>4. CASE row = Adopted(was)
        BY <2>1, <3>2, <4>4 DEF Adopted, Worker, Orderly
      <4> QED BY <3>1, <4>1, <4>2, <4>3, <4>4
    <3> HIDE DEF row
    <3>4. Eases(row, was)
      BY <2>1, <3>3, EasesIf DEF Orderly, AtWork
    <3> QED BY <3>3, <3>4 DEF row
  <2> QED BY <2>2, <2>3
<1>5. \A w \in DOMAIN workers' : workers'[w] \in Worker
  <2>1. workers' \in Seq(Worker)
    BY DEF TypeOK
  <2> QED BY <2>1, ElementOfSeq, LenProperties
<1>6. Attempted'
  <2> SUFFICES ASSUME NEW w \in DOMAIN workers
               PROVE  /\ Orderly(workers'[w], dispatch)
                      /\ Busy(workers'[w]) => w = run.current /\ run.completed = FALSE
    BY <1>1, <1>3 DEF Attempted
  <2>1. Orderly(workers'[w], dispatch) /\ (Busy(workers'[w]) => Busy(workers[w]))
    BY <1>2, <1>3, <1>4, <1>5, Eased
  <2>2. Busy(workers[w]) => w = run.current /\ run.completed = FALSE
    BY DEF AttemptInv, Attempted
  <2> QED BY <2>1, <2>2
<1> QED BY <1>1, <1>3, <1>4, <1>6 DEF AttemptInv, Unlaunched, Unstarted

(* A dispatch finds nobody at work, and sets one worker to work. *)
Idle == \A w \in DOMAIN workers : Orderly(workers[w], dispatch) /\ ~Busy(workers[w])
OneBusy ==
  /\ Attempted
  /\ run.status # "none" /\ run.intervened = FALSE

LEMMA SendStepAttempt ==
  ASSUME Rows, Counters, Rows', Idle, NEW r \in Run, r.current = 0, r.intervened = FALSE,
         r.step \in DOMAIN Steps, NEW w \in DOMAIN workers, SendStep(r, w)
  PROVE  OneBusy'
<1> DEFINE was == workers[w]
           row == [was EXCEPT !.workflow = Steps[r.step].workflow]
           chosen == [workers EXCEPT ![w] = row]
<1>1. was \in Worker /\ w \in Nat
  BY WorkerTable DEF Rows
<1>2. /\ row \in Worker /\ row.owner = was.owner /\ row.tainted = was.tainted
      /\ row.launch = was.launch /\ row.turn = was.turn /\ row.serves = was.serves
      /\ row.events = was.events
  BY <1>1, StepTypes DEF Worker
<1>3. chosen = [workers EXCEPT ![w].workflow = Steps[r.step].workflow] /\ chosen[w] = row
      /\ DOMAIN chosen = DOMAIN workers /\ \A v \in DOMAIN workers : v # w => chosen[v] = workers[v]
  OBVIOUS
<1>4. Orderly(was, dispatch) /\ ~Busy(was)
  BY DEF Idle
<1> HIDE DEF row
<1>5. Orderly(row, dispatch) /\ ~Busy(row)
  BY <1>2, <1>4 DEF Orderly, Busy, AtWork, Told
<1>6. CASE LaneOpen(was) /\ was.pane = "ready"
  <2> DEFINE prompted == Prompted(row, dispatch + 1)
  <2>1. /\ run' = Reserved(r, w) /\ dispatch' = dispatch + 1
        /\ workers' = [chosen EXCEPT ![w] = prompted]
    BY <1>3, <1>6 DEF SendStep
  <2>2. /\ run'.current = w /\ run'.completed = FALSE /\ run'.intervened = FALSE
        /\ run'.status = "running"
    BY <1>1, <2>1 DEF Reserved, Unassigned, Run
  <2>3. /\ prompted.owner = row.owner /\ prompted.tainted = FALSE /\ prompted.launch = row.launch
        /\ prompted.turn = "pending" /\ prompted.serves = dispatch' /\ prompted.events = row.events
    BY <1>2, <2>1 DEF Prompted, Worker
  <2>4. /\ DOMAIN workers' = DOMAIN workers /\ workers'[w] = prompted
        /\ \A v \in DOMAIN workers : v # w => workers'[v] = workers[v]
    BY <1>3, <2>1
  <2> HIDE DEF chosen, prompted
  <2>5. Orderly(prompted, dispatch')
    BY <1>5, <2>3 DEF Orderly, Busy, AtWork, Told
  <2>6. \A v \in DOMAIN workers : v # w => Orderly(workers'[v], dispatch') /\ ~Busy(workers'[v])
    BY <2>4, IdleIsOrderly DEF Idle
  <2>7. Attempted'
    BY <2>2, <2>4, <2>5, <2>6 DEF Attempted
  <2> QED BY <2>2, <2>7 DEF OneBusy
<1>7. CASE ~(LaneOpen(was) /\ was.pane = "ready")
  <2> DEFINE off == [row EXCEPT !.status = "disconnected"]
  <2>1. /\ run' = [r EXCEPT !.status = "blocked"] /\ dispatch' = dispatch
        /\ workers' = [chosen EXCEPT ![w] = off] \/ workers' = chosen
    BY <1>3, <1>7 DEF SendStep
  <2>2. /\ off.owner = row.owner /\ off.tainted = row.tainted /\ off.launch = row.launch
        /\ off.turn = row.turn /\ off.serves = row.serves /\ off.events = row.events
    BY <1>2 DEF Worker
  <2>3. /\ DOMAIN workers' = DOMAIN workers /\ workers'[w] \in {off, row}
        /\ \A v \in DOMAIN workers : v # w => workers'[v] = workers[v]
    BY <1>3, <2>1
  <2> HIDE DEF off, chosen
  <2>4. Orderly(off, dispatch) /\ ~Busy(off)
    BY <1>5, <2>2 DEF Orderly, Busy, AtWork, Told
  <2>5. \A v \in DOMAIN workers : Orderly(workers'[v], dispatch) /\ ~Busy(workers'[v])
    BY <1>5, <2>3, <2>4 DEF Idle
  <2>6. Attempted'
    BY <2>1, <2>3, <2>5 DEF Attempted
  <2>7. run'.status = "blocked" /\ run'.intervened = FALSE
    BY <2>1 DEF Run
  <2> QED BY <2>6, <2>7 DEF OneBusy
<1> QED BY <1>6, <1>7

LEMMA LaunchStepAttempt ==
  ASSUME Rows, Counters, Rows', Idle, NEW r \in Run, r.current = 0, r.intervened = FALSE,
         r.step \in DOMAIN Steps, LaunchStep(r)
  PROVE  OneBusy'
<1> DEFINE workflow == Steps[r.step].workflow
           kept == Retiring(workflow)
           added == NewWorker(workflow, "run", dispatch + 1)
<1>1. \A w \in DOMAIN workers :
        kept[w] \in Worker /\ Orderly(kept[w], dispatch) /\ ~Busy(kept[w])
  <2> SUFFICES ASSUME NEW w \in DOMAIN workers
               PROVE  kept[w] \in Worker /\ Orderly(kept[w], dispatch) /\ ~Busy(kept[w])
    OBVIOUS
  <2>1. workers[w] \in Worker /\ Orderly(workers[w], dispatch) /\ ~Busy(workers[w])
    BY WorkerTable DEF Rows, Idle
  <2>2. /\ Stopped(workers[w]) \in Worker /\ Orderly(Stopped(workers[w]), dispatch)
        /\ ~Busy(Stopped(workers[w]))
    BY <2>1, StoppedEases, Eased
  <2>3. kept[w] \in {workers[w], Stopped(workers[w])}
    BY DEF Retiring
  <2> QED BY <2>1, <2>2, <2>3
<1>2. /\ kept \in Seq(Worker) /\ DOMAIN kept = DOMAIN workers /\ DOMAIN kept = 1..Len(kept)
      /\ Len(kept) \in Nat
  BY <1>1, RowsRewritten, LenProperties DEF Retiring, Rows
<1>3. CASE DuplicateWorker(kept, workflow)
  <2>1. run' = [r EXCEPT !.status = "blocked"] /\ workers' = kept /\ dispatch' = dispatch
    BY <1>3 DEF LaunchStep
  <2> HIDE DEF kept
  <2>2. run'.status = "blocked" /\ run'.intervened = FALSE
    BY <2>1 DEF Run
  <2> QED BY <1>1, <1>2, <2>1, <2>2 DEF OneBusy, Attempted
<1>4. CASE ~DuplicateWorker(kept, workflow)
  <2>1. /\ run' = Reserved(r, Len(kept) + 1) /\ workers' = Append(kept, added)
        /\ dispatch' = dispatch + 1
    BY <1>4 DEF LaunchStep
  <2>2. /\ added.owner = "manager" /\ added.tainted = FALSE /\ added.launch = "run"
        /\ added.turn = "none" /\ added.serves = dispatch' /\ added.events = <<>>
    BY <2>1 DEF NewWorker
  <2> HIDE DEF kept, added
  <2>3. Orderly(added, dispatch')
    BY <2>2 DEF Orderly, Told
  <2>4. /\ run'.current = Len(kept) + 1 /\ run'.completed = FALSE /\ run'.intervened = FALSE
        /\ run'.status = "running"
    BY <2>1 DEF Reserved, Unassigned, Run
  <2>5. /\ DOMAIN workers' = 1..(Len(kept) + 1) /\ workers'[Len(kept) + 1] = added
        /\ \A v \in 1..Len(kept) : workers'[v] = kept[v]
    BY <1>2, <2>1, AppendProperties
  <2>6. \A v \in 1..Len(kept) : Orderly(workers'[v], dispatch') /\ ~Busy(workers'[v])
    BY <1>1, <1>2, <2>5, IdleIsOrderly
  <2>7. Attempted'
    <3> SUFFICES ASSUME NEW v \in DOMAIN workers'
                 PROVE  /\ Orderly(workers'[v], dispatch')
                        /\ Busy(workers'[v]) => v = run'.current /\ run'.completed = FALSE
      BY DEF Attempted
    <3>1. v \in 1..Len(kept) \/ v = Len(kept) + 1
      BY <1>2, <2>5
    <3> QED BY <2>3, <2>4, <2>5, <2>6, <3>1
  <2> QED BY <2>4, <2>7 DEF OneBusy
<1> QED BY <1>3, <1>4

LEMMA DispatchAttempt ==
  ASSUME Rows, Counters, Idle, NEW r \in Run, r.current = 0, r.intervened = FALSE,
         NEW from, Dispatch(r, from)
  PROVE  OneBusy'
<1>1. PICK next \in 1..Len(Steps) + 1 :
        LET at == [r EXCEPT !.step = next]
        IN IF next > Len(Steps) THEN Stay([at EXCEPT !.status = "completed"])
           ELSE LET reuse == WorkerForStep(Steps[next])
                IN IF ~Prerequisites(Steps[next].workflow)
                   THEN Stay([at EXCEPT !.status = "awaiting_approval"])
                   ELSE IF reuse # 0 THEN SendStep(at, reuse) ELSE LaunchStep(at)
  BY DEF Dispatch
<1> DEFINE at == [r EXCEPT !.step = next]
           reuse == WorkerForStep(Steps[next])
<1>2. at \in Run /\ at.current = 0 /\ at.step = next /\ at.intervened = FALSE
  BY DEF Run
<1>3. Rows'
  BY DispatchTypes
<1>4. next > Len(Steps) \/ next \in DOMAIN Steps
  BY StepTypes
<1>5. ASSUME NEW status \in {"completed", "awaiting_approval"}, Stay([at EXCEPT !.status = status])
      PROVE  OneBusy'
  <2>1. run'.status = status /\ run'.intervened = FALSE /\ UNCHANGED <<workers, dispatch>>
    BY <1>2, <1>5 DEF Stay, Run
  <2> QED BY <2>1 DEF OneBusy, Attempted, Idle
<1> HIDE DEF at
<1>6. CASE next \in DOMAIN Steps /\ reuse # 0 /\ SendStep(at, reuse)
  <2>1. reuse \in DOMAIN workers
    BY <1>6, WorkerReused DEF Reusable, Rows
  <2> HIDE DEF reuse
  <2> QED BY <1>2, <1>3, <1>6, <2>1, SendStepAttempt
<1>7. CASE next \in DOMAIN Steps /\ LaunchStep(at)
  BY <1>2, <1>3, <1>7, LaunchStepAttempt
<1> QED BY <1>1, <1>4, <1>5, <1>6, <1>7 DEF at

(* An advance dispatches when there is no step, or a completed one. *)
LEMMA AdvanceAttempt ==
  ASSUME TypeOK, AttemptInv, NEW r \in Run, AdvanceFrom(r),
         r.current = run.current, r.intervened = FALSE,
         r.completed = run.completed, r.status # "none"
  PROVE  OneBusy'
<1> USE TypeParts
<1>1. ASSUME NEW status, Stay(r) \/ (Stay([r EXCEPT !.status = status]) /\ status # "none")
      PROVE  OneBusy'
  <2>1. /\ run'.current = run.current /\ run'.completed = run.completed
        /\ run'.intervened = FALSE /\ run'.status # "none" /\ UNCHANGED <<workers, dispatch>>
    BY <1>1 DEF Stay, Run
  <2>2. Attempted'
    BY <2>1 DEF AttemptInv, Attempted
  <2> QED BY <2>1, <2>2 DEF OneBusy
<1>2. /\ Unassigned(r) \in Run /\ Unassigned(r).current = 0 /\ Unassigned(r).intervened = FALSE
  BY RunRowTypes DEF Unassigned, Run
<1>3. r.current = 0 \/ r.completed => Idle
  <2> SUFFICES ASSUME r.current = 0 \/ r.completed, NEW w \in DOMAIN workers
               PROVE  Orderly(workers[w], dispatch) /\ ~Busy(workers[w])
    BY DEF Idle
  <2>1. w # 0
    BY WorkerTable DEF TypeOK
  <2> QED BY <2>1 DEF AttemptInv, Attempted
<1>4. CASE Idle /\ ((r.current = 0 /\ Dispatch(r, r.step)) \/ Dispatch(Unassigned(r), r.step + 1))
  BY <1>2, <1>4, DispatchAttempt DEF Rows
<1>5. \/ Stay(r) \/ Stay([r EXCEPT !.status = "awaiting_approval"])
      \/ r.current = 0 /\ Dispatch(r, r.step)
      \/ r.completed /\ Dispatch(Unassigned(r), r.step + 1)
  BY DEF AdvanceFrom
<1> QED BY <1>1, <1>3, <1>4, <1>5

LEMMA AdvancesAttempt ==
  ASSUME TypeOK, AttemptInv, StartRun \/ Advance \/ ResumeRun \/ RecoverRun
  PROVE  AttemptInv'
<1>1. run \in Run /\ run.intervened = FALSE
  BY DEF TypeOK, AttemptInv
<1>2. phase' # "down"
  BY DEF StartRun, Advance, ResumeRun, RecoverRun, controller
<1> SUFFICES (OneBusy' \/ (Attempted' /\ Unstarted' /\ run'.intervened = FALSE))
  BY <1>2 DEF OneBusy, AttemptInv, Unlaunched, Unstarted
<1>3. CASE StartRun
  <2>1. FreshRun \in Run /\ FreshRun.current = 0 /\ FreshRun.completed = FALSE
        /\ FreshRun.intervened = FALSE /\ FreshRun.status = "running" /\ run.current = 0
    BY <1>3, FreshRunTypes, TypeParts DEF FreshRun, StartRun, AttemptInv, Unstarted
  <2>2. AdvanceFrom(FreshRun)
    BY <1>3 DEF StartRun
  <2>3. CASE run.completed = FALSE
    BY <2>1, <2>2, <2>3, AdvanceAttempt
  <2>4. CASE run.completed # FALSE
    <3>1. Idle
      <4> SUFFICES ASSUME NEW w \in DOMAIN workers
                   PROVE  Orderly(workers[w], dispatch) /\ ~Busy(workers[w])
        BY DEF Idle
      <4> QED BY <2>4 DEF AttemptInv, Attempted
    <3>2. Dispatch(FreshRun, FreshRun.step)
      BY <2>1, <2>2 DEF AdvanceFrom
    <3> QED BY <2>1, <3>1, <3>2, DispatchAttempt, TypeParts DEF Rows
  <2> QED BY <2>3, <2>4
<1>4. ASSUME AdvanceFrom(run) PROVE OneBusy' \/ (Attempted' /\ Unstarted' /\ run'.intervened = FALSE)
  <2>1. CASE run.status = "none"
    <3>1. run' = run /\ UNCHANGED <<workers, dispatch>>
      BY <1>4, <2>1 DEF AdvanceFrom, Stay
    <3> QED BY <3>1 DEF AttemptInv, Attempted, Unstarted
  <2>2. CASE run.status # "none"
    BY <1>1, <1>4, <2>2, AdvanceAttempt
  <2> QED BY <2>1, <2>2
<1>5. CASE Advance
  BY <1>4, <1>5 DEF Advance
<1>6. CASE ResumeRun
  <2>1. ~Untrusted
    <3> SUFFICES ASSUME Untrusted
                 PROVE  FALSE
      OBVIOUS
    <3>1. workers[run.current].tainted
      BY <1>1, <1>6 DEF ResumeRun, Reconcilable
    <3>2. run.current \in DOMAIN workers
      BY DEF Untrusted, TypeOK
    <3> QED BY <3>1, <3>2 DEF AttemptInv, Attempted, Orderly
  <2> DEFINE granted == run.status = "awaiting_approval" /\ run.completed
             approved == IF granted THEN run.approved \union {run.step} ELSE run.approved
             r == [run EXCEPT !.status = "running", !.approved = approved]
  <2>2. Resumed = r /\ Resumed \in Run
    BY <1>1, <2>1, ResumedTypes, TypeParts DEF Resumed
  <2>3. r.current = run.current /\ r.intervened = FALSE /\ r.completed = run.completed
        /\ r.status = "running"
    BY <1>1 DEF Run
  <2> HIDE DEF r
  <2>4. AdvanceFrom(r)
    BY <1>6, <2>2 DEF ResumeRun
  <2> QED BY <2>2, <2>3, <2>4, AdvanceAttempt
<1>7. CASE RecoverRun
  <2>1. ASSUME UNCHANGED <<workers, dispatch>>, run'.current = run.current,
               run'.completed = run.completed, run'.intervened = FALSE,
               run'.status = "none" => run.status = "none"
        PROVE  Attempted' /\ Unstarted' /\ run'.intervened = FALSE
    BY <2>1 DEF AttemptInv, Attempted, Unstarted
  <2>2. CASE Stay(run) \/ Stay([run EXCEPT !.status = "blocked"])
    BY <1>1, <2>1, <2>2 DEF Stay, Run
  <2>3. CASE AdvanceFrom(run)
    BY <1>4, <2>3
  <2> QED BY <1>7, <2>2, <2>3 DEF RecoverRun
<1> QED BY <1>3, <1>5, <1>6, <1>7

LEMMA StepKeepsAttempt ==
  ASSUME Undisturbed, TypeOK, AttemptInv, [Next]_vars
  PROVE  AttemptInv'
<1>1. TypeOK'
  BY StepKeepsTypes
<1>2. CASE ControllerStep \/ Decision \/ Crash
  <2>1. CASE ApprovePlan \/ RecordDecision
    BY <2>1 DEF ApprovePlan, RecordDecision, controller, AttemptInv, Attempted, Unlaunched, Unstarted
  <2> QED BY <1>1, <1>2, <2>1, AdvancesAttempt, CrashAttempt DEF ControllerStep, Decision
<1>3. CASE \E workflow \in DOMAIN Definition : StartByHand(workflow)
  <2>1. used.byHand \in Nat
    BY DEF TypeOK, Allowance
  <2> QED BY <1>3, <2>1 DEF StartByHand, Undisturbed
<1>4. ASSUME NEW w \in DOMAIN workers,
             WorkerStep(w) \/ Intervention(w) \/ StartupAnswered(w) \/ Misfortune(w)
      PROVE  AttemptInv'
  BY <1>1, <1>4, Undisturbing, LaunchesAttempt, ProcessesAttempt, EndAttempt, ApplyAttempt
     DEF WorkerStep, Intervention, Misfortune
<1>5. CASE UNCHANGED vars
  BY <1>5 DEF vars, AttemptInv, Attempted, Unlaunched, Unstarted
<1> QED BY <1>2, <1>3, <1>4, <1>5 DEF Next

LEMMA AttemptInitial == Init => AttemptInv
BY DEF Init, FreshRun, AttemptInv, Attempted, Unlaunched, Unstarted

(* No two sessions work for the run at once, where nobody interferes: an    *)
(* advance that races a launch, a resume and recover() dispatch no step a   *)
(* second time.                                                             *)
THEOREM OneAttemptAtATime ==
  ASSUME Undisturbed
  PROVE  Spec => []OneAttempt
<1>1. TypeOK /\ AttemptInv /\ [Next]_vars => AttemptInv'
  BY StepKeepsAttempt
<1>2. AttemptInv => OneAttempt
  BY DEF AttemptInv, Attempted, OneAttempt, Serving, Busy, AtWork
<1> QED BY <1>1, <1>2, AttemptInitial, TypeCorrect, PTL DEF Spec

(* A step is completed only by the turn that was sent for this attempt:     *)
(* crashes, dead sessions and retries never apply the result of an earlier  *)
(* one.                                                                     *)
THEOREM OwnTurnCompletes ==
  ASSUME Undisturbed
  PROVE  Spec => CompletedByItsOwnTurn
<1>1. TypeOK /\ AttemptInv /\ [Next]_vars => AttemptInv'
  BY StepKeepsAttempt
<1> DEFINE Own == \A w \in DOMAIN workers : ApplyEvent(w) /\ ~run.completed /\ run'.completed
                    => Head(workers[w].events).serves = dispatch
<1>2. TypeOK /\ AttemptInv => Own
  <2> SUFFICES ASSUME TypeOK, AttemptInv, NEW w \in DOMAIN workers,
                      ApplyEvent(w), ~run.completed, run'.completed
               PROVE  Head(workers[w].events).serves = dispatch
    OBVIOUS
  <2> DEFINE event == Head(workers[w].events)
  <2>1. workers[w] \in Worker /\ workers[w].events \in Seq(Event) /\ run \in Run
    BY WorkerTable DEF TypeOK, Worker
  <2>2. 1 \in DOMAIN workers[w].events /\ workers[w].events[1] = event
    BY <2>1, LenProperties, HeadTailProperties, EmptySeq DEF ApplyEvent
  <2>3. event.kind # "lost"
    <3> SUFFICES ASSUME event.kind = "lost"
                 PROVE  FALSE
      OBVIOUS
    <3>1. run' = run \/ run' = PausedIf(run, w, "blocked")
      BY DEF ApplyEvent, ApplyTo
    <3> QED BY <2>1, <3>1, PausedKept DEF Paused
  <2> QED BY <2>2, <2>3 DEF AttemptInv, Attempted, Orderly
<1>3. CompletedByItsOwnTurn <=> [][Own]_vars
  BY DEF CompletedByItsOwnTurn
<1> QED BY <1>1, <1>2, <1>3, AttemptInitial, TypeCorrect, PTL DEF Spec

----------------------------------------------------------------------------
(* Code is written in the lineage *)

(***************************************************************************)
(* A step that writes code reuses the implementer that has the lineage, so *)
(* what has to be known is that this one can still be reused when the step *)
(* is dispatched.  Where no turn fails, no process dies and nobody stops a *)
(* worker, an implementer is without a process only from the dispatch that *)
(* launches it until that process is there, and while it has none the run  *)
(* waits for it: nobody can enter it, it has no turn, so it gives no event *)
(* that would complete the step and no taint that resume_run would replay  *)
(* the step for.  What a late start, a crash or a message wrote on its row *)
(* meanwhile is taken back by the launch or by recover().                  *)
(***************************************************************************)
Unharmed == Possible \cap {"error", "paneDies", "stop"} = {}
ReusesImplementer ==
  \A i \in DOMAIN Steps : Definition[Steps[i].workflow].mutates => Steps[i].worker # "fresh"

Untroubled(row) == \A i \in DOMAIN row.events : row.events[i].kind \notin {"lost", "error"}
Unused(row) == row.turn = "none" /\ row.tainted = FALSE /\ row.events = <<>>
Awaited(w, r) == w = r.current /\ r.completed = FALSE
Starts(w, row, r, p) ==
  row.launch = "run" /\ row.pane # "ready" /\ Unused(row) /\ Awaited(w, r) /\ p # "down"
Writes(w, row, r, p) ==
  /\ row.role = "implementer" /\ row.status # "stopped"
  /\ row.pane = "none" => Unused(row) /\ Awaited(w, r) /\ r.intervened = FALSE
  /\ row.status \in Retired => row.pane = "none" \/ row.launch # "none" \/ p = "down"
Fit(w, row, r, p) ==
  /\ Untroubled(row)
  /\ row.launch # "none" => Starts(w, row, r, p)
  /\ row.writable = TRUE => Writes(w, row, r, p)

(* Who writes code, and where. *)
Owned ==
  /\ head = 0 => \A w \in DOMAIN workers : workers[w].writable = FALSE
  /\ head # 0 => \E w \in DOMAIN workers : workers[w].writable = TRUE /\ workers[w].lineage = TRUE
InLineage ==
  run.current # 0 /\ Definition[Steps[run.step].workflow].mutates = TRUE
    => workers[run.current].lineage = TRUE
LineageOK == 
  /\ \A w \in DOMAIN workers : Fit(w, workers[w], run, phase)
  /\ Owned /\ Unstarted /\ InLineage
LineageInv == used.byHand = 0 => LineageOK

(* A row no step touched, beside a run row that may be changed only where   *)
(* it is about another worker.                                              *)
LEMMA FitElsewhere ==
  ASSUME NEW w, NEW row, NEW r, NEW s, NEW p, NEW q, Fit(w, row, r, p),
         s.current = r.current,
         w = r.current => s.completed = r.completed /\ s.intervened = r.intervened,
         q = "down" <=> p = "down"
  PROVE  Fit(w, row, s, q)
BY DEF Fit, Starts, Writes, Awaited

Alike(row, was) ==
  row.role = was.role /\ row.writable = was.writable /\ row.lineage = was.lineage

LEMMA LineageStep ==
  ASSUME TypeOK, LineageOK, NEW w \in DOMAIN workers, NEW row, SetWorker(w, row),
         Alike(row, workers[w]), Fit(w, row, run', phase), phase' = phase,
         head' = head \/ (head # 0 /\ head' # 0),
         run'.current = run.current, run'.step = run.step,
         run'.status = "none" => run.status = "none",
         w # run.current => run'.completed = run.completed /\ run'.intervened = run.intervened
  PROVE  LineageOK'
<1>1. DOMAIN workers' = DOMAIN workers /\ workers'[w] = row
      /\ \A v \in DOMAIN workers : v # w => workers'[v] = workers[v]
  BY DEF SetWorker
<1>2. \A v \in DOMAIN workers : Alike(workers'[v], workers[v])
  BY <1>1 DEF Alike
<1>3. \A v \in DOMAIN workers' : Fit(v, workers'[v], run', phase')
  <2> SUFFICES ASSUME NEW v \in DOMAIN workers
               PROVE  Fit(v, workers'[v], run', phase')
    BY <1>1
  <2>1. CASE v = w
    BY <1>1, <2>1
  <2>2. CASE v # w
    <3>1. Fit(v, workers[v], run, phase) /\ workers'[v] = workers[v]
      BY <1>1, <2>2 DEF LineageOK
    <3>2. v = run.current => run'.completed = run.completed /\ run'.intervened = run.intervened
      BY <2>2
    <3> QED BY <3>1, <3>2, FitElsewhere
  <2> QED BY <2>1, <2>2
<1>4. Owned'
  <2>1. head' = 0 <=> head = 0
    OBVIOUS
  <2> QED BY <1>1, <1>2, <2>1 DEF LineageOK, Owned, Alike
<1>5. InLineage'
  <2> SUFFICES ASSUME run.current # 0, Definition[Steps[run.step].workflow].mutates = TRUE
               PROVE  workers'[run.current].lineage = TRUE
    BY DEF InLineage
  <2>1. run.current \in DOMAIN workers
    BY DEF TypeOK
  <2> QED BY <1>2, <2>1 DEF LineageOK, InLineage, Alike
<1> QED BY <1>3, <1>4, <1>5 DEF LineageOK, Unstarted

(* Launches *)
LEMMA LaunchesLineage ==
  ASSUME TypeOK, LineageOK, NEW w \in DOMAIN workers,
         LaunchAppears(w) \/ LaunchReady(w) \/ LaunchStalls(w)
  PROVE  LineageOK'
<1> DEFINE was == workers[w]
<1>1. was \in Worker /\ run \in Run
  BY WorkerTable DEF TypeOK
<1>2. Fit(w, was, run, phase)
  BY DEF LineageOK
<1>3. phase' = phase /\ head' = head /\ was.launch # "none"
  BY DEF LaunchAppears, LaunchReady, LaunchStalls, Launching, controller
<1>4. w = run.current /\ run.completed = FALSE /\ was.launch = "run" /\ Unused(was)
      /\ was.pane # "ready" /\ phase # "down" /\ Untroubled(was)
  BY <1>2, <1>3 DEF Fit, Starts, Awaited
<1>5. was.writable = TRUE => was.role = "implementer" /\ was.status # "stopped"
  BY <1>2 DEF Fit, Writes
<1>6. CASE LaunchAppears(w)
  <2> DEFINE row == [was EXCEPT !.pane = "starting"]
  <2>1. SetWorker(w, row) /\ run' = run
    BY <1>6 DEF LaunchAppears
  <2>2. /\ Alike(row, was) /\ row.launch = was.launch /\ row.pane = "starting"
        /\ row.turn = was.turn /\ row.tainted = was.tainted /\ row.events = was.events
        /\ row.status = was.status
    BY <1>1 DEF Worker, Alike
  <2> HIDE DEF row
  <2>3. Fit(w, row, run, phase)
    BY <1>4, <1>5, <2>2 DEF Fit, Starts, Writes, Awaited, Unused, Untroubled, Alike
  <2> QED BY <1>3, <2>1, <2>2, <2>3, LineageStep
<1>7. CASE LaunchReady(w)
  <2> DEFINE prompted == Prompted(was, was.serves)
             row == [prompted EXCEPT !.launch = "none", !.pane = "ready", !.owes = FALSE]
  <2>1. SetWorker(w, row) /\ (run' = run \/ run' = Unpaused(run, w))
    BY <1>7 DEF LaunchReady
  <2>2. prompted \in Worker /\ Alike(prompted, was) /\ prompted.events = was.events
        /\ prompted.status = "working"
    <3>1. was.serves \in Nat
      BY <1>1 DEF Worker
    <3>2. prompted \in Worker
      BY <1>1, <3>1, RowTypes
    <3> QED BY <1>1, <3>2 DEF Prompted, Worker, Alike
  <2> HIDE DEF prompted
  <2>3. /\ Alike(row, was) /\ row.launch = "none" /\ row.pane = "ready"
        /\ row.events = was.events /\ row.status = "working"
    BY <2>2 DEF Worker, Alike
  <2> HIDE DEF row
  <2>4. Fit(w, row, run', phase)
    BY <1>4, <1>5, <2>3 DEF Fit, Writes, Untroubled, Alike, Retired
  <2>5. /\ run'.current = run.current /\ run'.step = run.step
        /\ run'.status = "none" => run.status = "none"
    BY <1>1, <2>1 DEF Unpaused, Run
  <2> QED BY <1>3, <1>4, <2>1, <2>3, <2>4, <2>5, LineageStep
<1>8. CASE LaunchStalls(w)
  <2>1. PICK pane, status :
          /\ SetWorker(w, [was EXCEPT !.launch = "none", !.pane = pane, !.status = status])
          /\ status = IF pane = "none" THEN "failed" ELSE "blocked"
    BY <1>8 DEF LaunchStalls
  <2> DEFINE row == [was EXCEPT !.launch = "none", !.pane = pane, !.status = status]
  <2>2. /\ Alike(row, was) /\ row.launch = "none" /\ row.pane = pane
        /\ row.turn = was.turn /\ row.tainted = was.tainted /\ row.events = was.events
        /\ row.status = status
    BY <1>1 DEF Worker, Alike
  <2>3. SetWorker(w, row)
    BY <2>1
  <2> HIDE DEF row
  <2>4. run' = [Unassigned(run) EXCEPT !.current = w, !.status = "blocked"]
    BY <1>4, <1>8 DEF LaunchStalls
  <2>5. /\ run'.current = run.current /\ run'.step = run.step /\ run'.status = "blocked"
        /\ run'.completed = FALSE /\ run'.intervened = FALSE
    BY <1>1, <1>4, <2>4 DEF Unassigned, Run
  <2>6. Fit(w, row, run', phase)
    BY <1>4, <1>5, <2>1, <2>2, <2>5 DEF Fit, Writes, Awaited, Unused, Untroubled, Alike, Retired
  <2> QED BY <1>3, <1>4, <2>2, <2>3, <2>5, <2>6, LineageStep
<1> QED BY <1>6, <1>7, <1>8

(* What Claude does; what the user does to a session that is there. *)
LEMMA SessionsLineage ==
  ASSUME TypeOK, LineageOK, NEW w \in DOMAIN workers,
         ClaudeAccepts(w) \/ StartupAnswered(w) \/ Attach(w) \/ Detach(w) \/ Send(w)
  PROVE  LineageOK'
<1> DEFINE was == workers[w]
<1>1. was \in Worker /\ run \in Run
  BY WorkerTable DEF TypeOK
<1>2. Fit(w, was, run, phase)
  BY DEF LineageOK
<1>3. phase' = phase /\ head' = head
  BY DEF ClaudeAccepts, StartupAnswered, Attach, Detach, Send, controller
(* A session that is there, and whose launch is over: the row may be        *)
(* whatever else it likes.                                                  *)
<1>4. ASSUME NEW row, SetWorker(w, row), Alike(row, was), row.events = was.events,
             row.launch = was.launch, was.launch = "none", row.pane # "none",
             row.status \in {was.status, "idle", "working"}, was.pane # "none",
             run'.current = run.current, run'.step = run.step,
             run'.status = "none" => run.status = "none",
             w # run.current => run'.completed = run.completed /\ run'.intervened = run.intervened
      PROVE  LineageOK'
  <2>1. Fit(w, row, run', phase)
    BY <1>2, <1>4 DEF Fit, Writes, Untroubled, Alike, Retired
  <2> QED BY <1>3, <1>4, <2>1, LineageStep
(* A session that is not used yet, and stays as it is but for its owner and *)
(* its status.                                                              *)
<1>5. ASSUME NEW row, SetWorker(w, row), Alike(row, was), row.events = was.events,
             row.launch = was.launch, row.pane = was.pane, row.turn = was.turn,
             row.tainted = was.tainted,
             \/ row.status \in {was.status, "idle"}
             \/ row.status = "disconnected" /\ was.pane = "none",
             run'.current = run.current, run'.step = run.step,
             run'.status = "none" => run.status = "none",
             run'.completed = run.completed,
             w # run.current \/ was.pane = "none" => run'.intervened = run.intervened
      PROVE  LineageOK'
  <2>1. Untroubled(row) /\ (row.launch # "none" => Starts(w, row, run', phase))
    BY <1>2, <1>5 DEF Fit, Starts, Awaited, Unused, Untroubled
  <2>2. row.writable = TRUE => Writes(w, row, run', phase)
    BY <1>2, <1>5 DEF Fit, Writes, Awaited, Unused, Alike, Retired
  <2>3. Fit(w, row, run', phase)
    BY <2>1, <2>2 DEF Fit
  <2> QED BY <1>3, <1>5, <2>3, LineageStep
<1>6. CASE ClaudeAccepts(w)
  <2> DEFINE row == [was EXCEPT !.turn = "open"]
  <2>1. SetWorker(w, row) /\ run' = run /\ was.turn = "pending" /\ was.pane = "ready"
    BY <1>6 DEF ClaudeAccepts
  <2>2. /\ Alike(row, was) /\ row.launch = was.launch /\ row.pane = was.pane
        /\ row.events = was.events /\ row.status = was.status
    BY <1>1 DEF Worker, Alike
  <2>3. was.launch = "none"
    BY <1>2, <2>1 DEF Fit, Starts
  <2> HIDE DEF row
  <2> QED BY <1>4, <2>1, <2>2, <2>3
<1>7. CASE StartupAnswered(w)
  <2> DEFINE row == [was EXCEPT !.pane = "ready"]
  <2>1. SetWorker(w, row) /\ run' = run /\ was.launch = "none" /\ was.pane = "starting"
    BY <1>7 DEF StartupAnswered
  <2>2. /\ Alike(row, was) /\ row.launch = was.launch /\ row.pane = "ready"
        /\ row.events = was.events /\ row.status = was.status
    BY <1>1 DEF Worker, Alike
  <2> HIDE DEF row
  <2> QED BY <1>4, <2>1, <2>2
<1>8. CASE Attach(w)
  <2> DEFINE tainted == was.tainted \/ was.turn \in {"pending", "open"}
             row == [was EXCEPT !.owner = "human", !.tainted = tainted]
             paused == PausedIf(run, w, "blocked")
  <2>1. SetWorker(w, row) /\ was.pane # "none"
    BY <1>8 DEF Attach
  <2>2. /\ Alike(row, was) /\ row.launch = was.launch /\ row.pane = was.pane
        /\ row.turn = was.turn /\ row.tainted = tainted
        /\ row.events = was.events /\ row.status = was.status
    BY <1>1 DEF Worker, Alike
  <2>3. /\ run'.current = run.current /\ run'.step = run.step /\ run'.completed = run.completed
        /\ run'.status = "none" => run.status = "none"
        /\ w # run.current => run'.intervened = run.intervened
    <3>1. (run' = [paused EXCEPT !.intervened = TRUE] /\ w = run.current) \/ run' = run
      BY <1>8 DEF Attach
    <3>2. /\ paused \in Run /\ paused.current = run.current /\ paused.step = run.step
          /\ paused.completed = run.completed /\ paused.status \in {run.status, "blocked"}
      BY <1>1, RunRowTypes DEF PausedIf, Run, Paused
    <3> HIDE DEF paused
    <3>3. CASE run' = [paused EXCEPT !.intervened = TRUE] /\ w = run.current
      BY <3>2, <3>3 DEF Run
    <3> QED BY <3>1, <3>3
  <2>4. CASE was.launch = "none"
    <3> HIDE DEF row
    <3> QED BY <1>4, <2>1, <2>2, <2>3, <2>4
  <2>5. CASE was.launch # "none"
    <3>1. was.turn = "none" /\ was.tainted = FALSE
      BY <1>2, <2>5 DEF Fit, Starts, Unused
    <3>2. tainted = FALSE
      BY <3>1
    <3> HIDE DEF row, tainted
    <3> QED BY <1>5, <2>1, <2>2, <2>3, <3>1, <3>2
  <2> QED BY <2>4, <2>5
<1>9. CASE Detach(w)
  <2> DEFINE back == HandedBack(was)
             prompted == Prompted(back, back.serves)
             row == [prompted EXCEPT !.owes = FALSE]
  <2>1. /\ back \in Worker /\ Alike(back, was) /\ back.launch = was.launch
        /\ back.pane = was.pane /\ back.events = was.events /\ back.tainted = was.tainted
        /\ back.turn = was.turn \/ was.turn = "pending"
        /\ back.status \in {was.status, "idle"}
        /\ back.serves \in Nat
    <3>1. back \in Worker
      BY <1>1, RowTypes
    <3>2. back.serves \in Nat
      <4> HIDE DEF back
      <4> QED BY <3>1 DEF Worker
    <3>3. /\ Alike(back, was) /\ back.launch = was.launch
          /\ back.pane = was.pane /\ back.events = was.events /\ back.tainted = was.tainted
      BY <1>1 DEF HandedBack, Worker, Alike
    <3>4. back.turn = was.turn \/ was.turn = "pending"
      BY <1>1 DEF HandedBack, Worker
    <3>5. back.status \in {was.status, "idle"}
      BY <1>1 DEF HandedBack, Worker
    <3> QED BY <3>1, <3>2, <3>3, <3>4, <3>5
  <2>2. \/ SetWorker(w, row) /\ run' = Unpaused(run, w) /\ back.pane = "ready"
        \/ SetWorker(w, back) /\ run' = run
    BY <1>9 DEF Detach
  <2> HIDE DEF back
  <2>3. CASE SetWorker(w, row) /\ run' = Unpaused(run, w) /\ back.pane = "ready"
    <3>1. prompted \in Worker /\ Alike(prompted, back) /\ prompted.launch = back.launch
          /\ prompted.pane = back.pane /\ prompted.events = back.events
          /\ prompted.status = "working"
      <4>1. prompted \in Worker
        BY <2>1, RowTypes
      <4> QED BY <2>1, <4>1 DEF Prompted, Worker, Alike
    <3> HIDE DEF prompted
    <3>2. Alike(row, prompted) /\ row.launch = prompted.launch
          /\ row.pane = prompted.pane /\ row.events = prompted.events /\ row.status = "working"
      BY <3>1 DEF Worker, Alike
    <3> HIDE DEF row
    <3>3. was.launch = "none"
      BY <1>2, <2>1, <2>3 DEF Fit, Starts
    <3>4. /\ run'.current = run.current /\ run'.step = run.step
          /\ run'.completed = run.completed /\ run'.intervened = run.intervened
          /\ run'.status = "none" => run.status = "none"
      BY <1>1, <2>3 DEF Unpaused, Run
    <3>5. Alike(row, was)
      BY <2>1, <3>1, <3>2 DEF Alike
    <3> QED BY <1>4, <2>1, <2>3, <3>1, <3>2, <3>3, <3>4, <3>5
  <2>4. CASE SetWorker(w, back) /\ run' = run
    <3>1. CASE back.turn = was.turn
      BY <1>5, <2>1, <2>4, <3>1
    <3>2. CASE was.turn = "pending" /\ back.turn # was.turn
      <4>1. was.launch = "none"
        BY <1>2, <3>2 DEF Fit, Starts, Unused
      <4>2. CASE was.pane # "none"
        BY <1>4, <2>1, <2>4, <4>1, <4>2
      <4>3. CASE was.pane = "none"
        <5>1. was.writable # TRUE
          BY <1>2, <3>2, <4>3 DEF Fit, Writes, Unused
        <5>2. Fit(w, back, run', phase)
          BY <1>2, <2>1, <2>4, <4>1, <5>1 DEF Fit, Untroubled, Alike
        <5> QED BY <1>3, <2>1, <2>4, <5>2, LineageStep
      <4> QED BY <4>2, <4>3
    <3> QED BY <2>1, <3>1, <3>2
  <2> QED BY <2>2, <2>3, <2>4
<1>10. CASE Send(w)
  <2>1. CASE was.pane = "ready"
    <3>1. PICK serves \in Nat : SetWorker(w, Prompted(was, serves)) /\ run' = Unpaused(run, w)
      BY <1>10, <2>1 DEF Send, TypeOK
    <3> DEFINE row == Prompted(was, serves)
    <3>2. /\ Alike(row, was) /\ row.launch = was.launch /\ row.pane = was.pane
          /\ row.events = was.events /\ row.status = "working"
      BY <1>1 DEF Prompted, Worker, Alike
    <3>3. SetWorker(w, row)
      BY <3>1
    <3> HIDE DEF row
    <3>4. was.launch = "none"
      BY <1>2, <2>1 DEF Fit, Starts
    <3>5. /\ run'.current = run.current /\ run'.step = run.step
          /\ run'.completed = run.completed /\ run'.intervened = run.intervened
          /\ run'.status = "none" => run.status = "none"
      BY <1>1, <3>1 DEF Unpaused, Run
    <3> QED BY <1>4, <2>1, <3>2, <3>3, <3>4, <3>5
  <2>2. CASE was.pane # "ready"
    <3> DEFINE row == [was EXCEPT !.status = "disconnected"]
    <3>1. SetWorker(w, row) /\ run' = run /\ was.pane = "none"
      BY <1>1, <1>10, <2>2 DEF Send, Worker, Pane
    <3>2. /\ Alike(row, was) /\ row.launch = was.launch /\ row.pane = was.pane
          /\ row.turn = was.turn /\ row.tainted = was.tainted
          /\ row.events = was.events /\ row.status = "disconnected"
      BY <1>1 DEF Worker, Alike
    <3> HIDE DEF row
    <3> QED BY <1>5, <3>1, <3>2
  <2> QED BY <2>1, <2>2
<1> QED BY <1>6, <1>7, <1>8, <1>9, <1>10

(* Who writes has the lineage, so a head appears only where there is one. *)
LEMMA HeadStays ==
  ASSUME LineageOK, NEW w \in DOMAIN workers, workers[w].writable \in BOOLEAN,
         head \in Nat, NEW h \in Edited(w)
  PROVE  h = head \/ (head # 0 /\ h # 0)
<1>1. head = 0 => workers[w].writable = FALSE
  BY DEF LineageOK, Owned
<1>2. h = head \/ (h = head + 1 /\ workers[w].writable = TRUE)
  BY DEF Edited
<1> QED BY <1>1, <1>2

LEMMA EndLineage ==
  ASSUME Unharmed, TypeOK, LineageOK, NEW w \in DOMAIN workers, ClaudeEnds(w)
  PROVE  LineageOK'
<1> DEFINE was == workers[w]
<1>1. was \in Worker /\ was.events \in Seq(Event) /\ head \in Nat /\ was.writable \in BOOLEAN
  <2>1. was \in Worker
    BY WorkerTable DEF TypeOK
  <2>2. head \in Nat
    BY RunBounds DEF TypeOK
  <2> QED BY <2>1, <2>2 DEF Worker
<1>2. Fit(w, was, run, phase)
  BY DEF LineageOK
<1>3. phase' = phase /\ run' = run /\ was.turn = "open" /\ was.pane = "ready"
  BY DEF ClaudeEnds, controller
<1>4. PICK kind \in Endings : SetWorker(w, [was EXCEPT !.turn = "over",
                     !.events = IF was.tainted THEN @
                                ELSE Append(@, [kind |-> kind, serves |-> was.serves])])
  BY DEF ClaudeEnds
<1> DEFINE event == [kind |-> kind, serves |-> was.serves]
           events == IF was.tainted THEN was.events ELSE Append(was.events, event)
           row == [was EXCEPT !.turn = "over", !.events = events]
<1>5. SetWorker(w, row)
  BY <1>1, <1>4 DEF Worker
<1>6. /\ Alike(row, was) /\ row.launch = was.launch /\ row.pane = was.pane
      /\ row.status = was.status /\ row.events = events
  BY <1>1 DEF Worker, Alike
<1>7. event.kind \notin {"lost", "error"}
  BY DEF Endings, Unharmed
<1>8. \A i \in DOMAIN events : events[i].kind \notin {"lost", "error"}
  <2>1. CASE events = was.events
    BY <1>2, <2>1 DEF Fit, Untroubled
  <2>2. CASE events = Append(was.events, event)
    <3> HIDE DEF event
    <3>1. \A i \in DOMAIN events :
            IF i \in DOMAIN was.events THEN events[i] = was.events[i] ELSE events[i] = event
      BY <1>1, <2>2, EventsKept
    <3> HIDE DEF events
    <3> QED BY <1>2, <1>7, <3>1 DEF Fit, Untroubled
  <2> QED BY <2>1, <2>2
<1> HIDE DEF row, events
<1>9. was.launch = "none"
  BY <1>2, <1>3 DEF Fit, Starts
<1>10. Fit(w, row, run, phase)
  BY <1>2, <1>3, <1>6, <1>8, <1>9 DEF Fit, Writes, Untroubled, Alike
<1>11. head' = head \/ (head # 0 /\ head' # 0)
  BY <1>1, HeadStays DEF ClaudeEnds
<1> QED BY <1>3, <1>5, <1>6, <1>10, <1>11, LineageStep

LEMMA EditsLineage ==
  ASSUME TypeOK, LineageOK, NEW w \in DOMAIN workers, HumanEdits(w)
  PROVE  LineageOK'
<1>1. head \in Nat /\ workers[w].writable \in BOOLEAN
  BY WorkerTable, RunBounds DEF TypeOK, Worker
<1>2. head # 0 /\ head' # 0
  <2>1. head + 1 \in Edited(w) /\ head' = head + 1
    BY DEF HumanEdits
  <2>2. head + 1 = head \/ (head # 0 /\ head + 1 # 0)
    BY <1>1, <2>1, HeadStays
  <2> QED BY <1>1, <2>1, <2>2
<1>3. UNCHANGED <<run, workers, phase>>
  BY DEF HumanEdits, controller
<1> QED BY <1>2, <1>3 DEF LineageOK, Owned, Unstarted, InLineage

LEMMA ApplyLineage ==
  ASSUME TypeOK, LineageOK, NEW w \in DOMAIN workers, ApplyEvent(w) \/ ApplyFails(w)
  PROVE  LineageOK'
<1> DEFINE was == workers[w]
           event == Head(was.events)
<1>1. was \in Worker /\ was.events \in Seq(Event) /\ run \in Run
  BY WorkerTable DEF TypeOK, Worker
<1>2. Fit(w, was, run, phase)
  BY DEF LineageOK
<1>3. /\ phase' = phase /\ phase # "down" /\ head' = head
      /\ was.events # <<>> /\ was.launch = "none"
  BY DEF ApplyEvent, ApplyFails, controller
<1>4. event.kind \notin {"lost", "error"}
  <2>1. 1 \in DOMAIN was.events /\ was.events[1] = event
    BY <1>1, <1>3, LenProperties, HeadTailProperties, EmptySeq
  <2> QED BY <1>2, <2>1 DEF Fit, Untroubled
<1>5. event.kind \in {"result", "question", "answered"}
  <2>1. event \in Event
    BY <1>1, <1>3, HeadTailProperties
  <2> QED BY <1>4, <2>1 DEF Event
<1>6. PICK status : SetWorker(w, Consumed(w, status)) /\ status \in {was.status, "idle", "blocked"}
  BY <1>5 DEF ApplyEvent, ApplyFails, ApplyTo, StatusAfter
<1> DEFINE row == Consumed(w, status)
<1>7. /\ Alike(row, was) /\ row.launch = was.launch /\ row.pane = was.pane
      /\ row.events = Tail(was.events) /\ row.status = status
  BY <1>1 DEF Consumed, Worker, Alike
<1> HIDE DEF row
<1>8. Untroubled(row)
  <2>1. \A i \in DOMAIN row.events :
          i + 1 \in DOMAIN was.events /\ row.events[i] = was.events[i + 1]
    BY <1>1, <1>3, <1>7, EventsKept
  <2> QED BY <1>2, <2>1 DEF Fit, Untroubled
<1>9. was.writable = TRUE => was.pane # "none"
  BY <1>2, <1>3 DEF Fit, Writes, Unused
<1>10. Fit(w, row, run', phase)
  BY <1>2, <1>3, <1>6, <1>7, <1>8, <1>9 DEF Fit, Writes, Alike, Retired
<1>11. /\ run'.current = run.current /\ run'.step = run.step
       /\ run'.intervened = run.intervened
       /\ run'.status = "none" => run.status = "none"
       /\ w # run.current => run'.completed = run.completed
  <2> DEFINE done == Completed(run, w)
  <2>1. /\ done \in Run /\ done.current = run.current /\ done.step = run.step
        /\ done.intervened = run.intervened /\ done.status = run.status
        /\ w # run.current => done.completed = run.completed
    BY <1>1, RunRowTypes DEF Completed, Run
  <2>2. \/ run' = run \/ run' = done \/ run' = PausedIf(done, w, "awaiting_approval")
        \/ run' = PausedIf(run, w, "awaiting_approval") \/ run' = PausedIf(run, w, "blocked")
    BY DEF ApplyEvent, ApplyFails, ApplyTo
  <2> HIDE DEF done
  <2>3. ASSUME NEW r \in Run, NEW status_1 \in Paused
        PROVE  /\ PausedIf(r, w, status_1).current = r.current
               /\ PausedIf(r, w, status_1).step = r.step
               /\ PausedIf(r, w, status_1).intervened = r.intervened
               /\ PausedIf(r, w, status_1).completed = r.completed
               /\ PausedIf(r, w, status_1).status = "none" => r.status = "none"
    BY DEF PausedIf, Run, Paused
  <2> QED BY <1>1, <2>1, <2>2, <2>3 DEF Paused
<1> QED BY <1>3, <1>6, <1>7, <1>10, <1>11, LineageStep DEF row

(* A crash ends the launches; recovery makes good what they left. *)
LEMMA CrashLineage ==
  ASSUME TypeOK, LineageOK, Crash \/ RecoverWorkers
  PROVE  LineageOK'
<1>1. /\ run' = run /\ head' = head /\ DOMAIN workers' = DOMAIN workers
      /\ Crash => phase' = "down"
      /\ RecoverWorkers => phase = "down" /\ phase' = "recovering"
  BY DEF Crash, RecoverWorkers
<1>2. ASSUME NEW w \in DOMAIN workers
      PROVE  Alike(workers'[w], workers[w]) /\ Fit(w, workers'[w], run, phase')
  <2> DEFINE was == workers[w]
             row == workers'[w]
  <2>1. was \in Worker /\ Fit(w, was, run, phase) /\ was.events \in Seq(Event)
    BY WorkerTable DEF TypeOK, LineageOK, Worker
  <2>2. CASE Crash
    <3>1. row = [was EXCEPT !.launch = "none", !.events = Durable(@)]
      BY <2>2 DEF Crash
    <3>2. /\ Alike(row, was) /\ row.launch = "none" /\ row.pane = was.pane
          /\ row.turn = was.turn /\ row.tainted = was.tainted /\ row.status = was.status
          /\ row.events = Durable(was.events)
      BY <2>1, <3>1 DEF Worker, Alike
    <3> HIDE DEF row
    <3>3. Untroubled(row)
      <4>1. \A i \in DOMAIN row.events :
              i \in DOMAIN was.events /\ row.events[i] = was.events[i]
        BY <2>1, <3>2, EventsKept
      <4> QED BY <2>1, <4>1 DEF Fit, Untroubled
    <3>4. Unused(was) => Unused(row)
      BY <3>2 DEF Unused, Durable
    <3>5. row.writable = TRUE => Writes(w, row, run, phase')
      BY <1>1, <2>1, <2>2, <3>2, <3>4 DEF Fit, Writes, Alike
    <3> QED BY <3>2, <3>3, <3>5 DEF Fit, row
  <2>3. CASE RecoverWorkers
    <3>1. was.launch = "none"
      BY <1>1, <2>1, <2>3 DEF Fit, Starts
    <3>2. \/ row = was /\ was.status = "stopped"
          \/ row = Recreated(was)
          \/ row = Disconnected(was) /\ was.pane = "none"
          \/ row = Adopted(was) /\ was.pane # "none"
      <4> DEFINE kept == {v \in DOMAIN workers : workers[v].status # "stopped"}
                 gone == {v \in kept : workers[v].pane = "none"}
      <4>1. row = CASE w \notin kept -> was
                    [] w \in recreated' -> Recreated(was)
                    [] w \in gone \ recreated' -> Disconnected(was)
                    [] OTHER -> Adopted(was)
        BY <2>3 DEF RecoverWorkers
      <4>2. CASE w \notin kept
        BY <2>3, <4>2 DEF RecoverWorkers
      <4>3. CASE w \in kept /\ w \in recreated'
        BY <4>1, <4>3
      <4>4. CASE w \in gone \ recreated'
        BY <4>1, <4>4
      <4>5. CASE w \in kept /\ w \notin gone /\ w \notin recreated'
        BY <4>1, <4>5
      <4> QED BY <4>2, <4>3, <4>4, <4>5
    <3> SUFFICES Alike(row, was) /\ Fit(w, row, run, phase')
      OBVIOUS
    <3> HIDE DEF row
    <3>3. CASE row = was /\ was.status = "stopped"
      BY <2>1, <3>1, <3>3 DEF Fit, Writes, Alike
    <3>4. CASE row = Recreated(was)
      <4>1. /\ Alike(row, was) /\ row.launch = was.launch /\ row.pane = "ready"
            /\ row.status = "idle" /\ row.events = <<>>
        BY <2>1, <3>4 DEF Recreated, Worker, Alike
      <4> QED BY <2>1, <3>1, <4>1 DEF Fit, Writes, Untroubled, Alike, Retired
    <3>5. CASE row = Disconnected(was) /\ was.pane = "none"
      <4>1. /\ Alike(row, was) /\ row.launch = was.launch /\ row.pane = was.pane
            /\ row.turn = was.turn /\ row.tainted = was.tainted
            /\ row.status = "disconnected" /\ row.events = <<>>
        BY <2>1, <3>5 DEF Disconnected, Worker, Alike
      <4> QED BY <2>1, <3>1, <3>5, <4>1 DEF Fit, Writes, Untroubled, Unused, Alike
    <3>6. CASE row = Adopted(was) /\ was.pane # "none"
      <4>1. /\ Alike(row, was) /\ row.launch = was.launch /\ row.pane = was.pane
            /\ row.status \in {"working", "idle"} /\ row.events = was.events
        BY <2>1, <3>6 DEF Adopted, Worker, Alike
      <4> QED BY <2>1, <3>1, <3>6, <4>1 DEF Fit, Writes, Untroubled, Alike, Retired
    <3> QED BY <3>2, <3>3, <3>4, <3>5, <3>6
  <2> QED BY <2>2, <2>3
<1>3. Owned'
  BY <1>1, <1>2 DEF LineageOK, Owned, Alike
<1>4. InLineage'
  <2>1. run.current \in {0} \union DOMAIN workers
    BY DEF TypeOK
  <2> QED BY <1>1, <1>2, <2>1 DEF LineageOK, InLineage, Alike
<1> QED BY <1>1, <1>2, <1>3, <1>4 DEF LineageOK, Unstarted

(* What writes code is the implementer's, and may be given to one there is. *)
LEMMA WritersAreImplementers ==
  ASSUME NEW workflow \in DOMAIN Definition, Definition[workflow].mutates
  PROVE  /\ Definition[workflow].role = "implementer"
         /\ "implementer" \in Definition[workflow].allowed
         /\ Definition[workflow].worker # "fresh"
<1> DEFINE Implements(d) ==
             d.mutates => d.role = "implementer" /\ "implementer" \in d.allowed /\ d.worker # "fresh"
<1>1. Implements(PlanFeature)
  BY DEF PlanFeature, Atomic
<1>2. Implements(ImplementApprovedPlan)
  BY DEF ImplementApprovedPlan, Atomic
<1>3. Implements(FullVerify)
  BY DEF FullVerify, Atomic
<1>4. Implements(SmokeTest)
  BY DEF SmokeTest, Atomic
<1>5. Implements(VerifyChecks)
  BY DEF VerifyChecks, Atomic
<1>6. Implements(IndependentReview)
  BY DEF IndependentReview, Atomic
<1>7. Implements(AddressReviewComments)
  BY DEF AddressReviewComments, Atomic
<1>8. Implements(FinalizeChange)
  BY DEF FinalizeChange, Atomic
<1>9. Implements(InvestigateIssue)
  BY DEF InvestigateIssue, Atomic
<1>10. Implements(ImplementFix)
  BY DEF ImplementFix, Atomic
<1>11. Implements(RebaseStack)
  BY DEF RebaseStack, Atomic
<1>12. Definition[workflow] \in {PlanFeature, ImplementApprovedPlan, FullVerify, SmokeTest, VerifyChecks,
         IndependentReview, AddressReviewComments, FinalizeChange, InvestigateIssue, ImplementFix,
         RebaseStack}
  BY DEF Definition
<1> HIDE DEF Implements
<1>13. Implements(Definition[workflow])
  BY <1>1, <1>2, <1>3, <1>4, <1>5, <1>6, <1>7, <1>8, <1>9, <1>10, <1>11, <1>12
<1> QED BY <1>13 DEF Implements

(* A dispatch finds every launch over, and every implementer at its prompt. *)
Settled(row) ==
  /\ Untroubled(row) /\ row.launch = "none"
  /\ row.writable = TRUE =>
       row.role = "implementer" /\ row.status \notin Retired /\ row.pane # "none"
AllSettled == \A w \in DOMAIN workers : Settled(workers[w])
Dispatched(p) ==
  /\ \A w \in DOMAIN workers : Fit(w, workers[w], run, p)
  /\ Owned /\ InLineage /\ run.status # "none"

LEMMA SettledFits ==
  ASSUME NEW row, Settled(row), NEW w, NEW r, NEW p
  PROVE  Fit(w, row, r, p)
BY DEF Settled, Fit, Writes, Retired

LEMMA SendStepLineage ==
  ASSUME Rows, Owned, AllSettled, NEW p, NEW r \in Run, r.current = 0,
         r.step \in DOMAIN Steps, NEW w \in DOMAIN workers, SendStep(r, w),
         Definition[Steps[r.step].workflow].mutates = TRUE => workers[w].lineage = TRUE
  PROVE  Dispatched(p)'
<1> DEFINE was == workers[w]
           row == [was EXCEPT !.workflow = Steps[r.step].workflow]
           chosen == [workers EXCEPT ![w] = row]
<1>1. was \in Worker /\ w \in Nat
  BY WorkerTable DEF Rows
<1>2. /\ row \in Worker /\ Alike(row, was) /\ row.launch = was.launch /\ row.pane = was.pane
      /\ row.status = was.status /\ row.events = was.events
  BY <1>1, StepTypes DEF Worker, Alike
<1>3. chosen = [workers EXCEPT ![w].workflow = Steps[r.step].workflow] /\ chosen[w] = row
      /\ DOMAIN chosen = DOMAIN workers /\ \A v \in DOMAIN workers : v # w => chosen[v] = workers[v]
  OBVIOUS
<1>4. Settled(was)
  BY DEF AllSettled
<1> HIDE DEF row
<1>5. Settled(row)
  BY <1>2, <1>4 DEF Settled, Untroubled, Alike
<1>6. ASSUME DOMAIN workers' = DOMAIN workers, Settled(workers'[w]), Alike(workers'[w], was),
             \A v \in DOMAIN workers : v # w => workers'[v] = workers[v],
             head' = head, run'.status # "none",
             run'.current # 0 => run'.current = w /\ run'.step = r.step
      PROVE  Dispatched(p)'
  <2>1. \A v \in DOMAIN workers' : Settled(workers'[v]) /\ Alike(workers'[v], workers[v])
    BY <1>6 DEF AllSettled, Alike
  <2>2. \A v \in DOMAIN workers' : Fit(v, workers'[v], run', p)
    BY <2>1, SettledFits
  <2>3. Owned'
    BY <1>6, <2>1 DEF Owned, Alike
  <2>4. InLineage'
    BY <1>6 DEF InLineage, Alike
  <2> QED BY <1>6, <2>2, <2>3, <2>4 DEF Dispatched
<1>7. CASE LaneOpen(was) /\ was.pane = "ready"
  <2> DEFINE prompted == Prompted(row, dispatch + 1)
  <2>1. /\ run' = Reserved(r, w) /\ head' = head
        /\ workers' = [chosen EXCEPT ![w] = prompted]
    BY <1>3, <1>7 DEF SendStep
  <2>2. run'.current = w /\ run'.step = r.step /\ run'.status = "running"
    BY <1>1, <2>1 DEF Reserved, Unassigned, Run
  <2>3. /\ Alike(prompted, row) /\ prompted.launch = row.launch /\ prompted.pane = row.pane
        /\ prompted.status = "working" /\ prompted.events = row.events
    BY <1>2 DEF Prompted, Worker, Alike
  <2>4. /\ DOMAIN workers' = DOMAIN workers /\ workers'[w] = prompted
        /\ \A v \in DOMAIN workers : v # w => workers'[v] = workers[v]
    BY <1>3, <2>1
  <2> HIDE DEF chosen, prompted
  <2>5. Settled(prompted) /\ Alike(prompted, was)
    BY <1>2, <1>5, <2>3 DEF Settled, Untroubled, Alike, Retired
  <2> QED BY <1>6, <2>1, <2>2, <2>4, <2>5
<1>8. CASE ~(LaneOpen(was) /\ was.pane = "ready")
  <2> DEFINE off == [row EXCEPT !.status = "disconnected"]
  <2>1. /\ run' = [r EXCEPT !.status = "blocked"] /\ head' = head
        /\ (workers' = [chosen EXCEPT ![w] = off] /\ was.pane = "none") \/ workers' = chosen
    BY <1>3, <1>8 DEF SendStep
  <2>2. /\ Alike(off, row) /\ off.launch = row.launch /\ off.pane = row.pane
        /\ off.events = row.events
    BY <1>2 DEF Worker, Alike
  <2>3. /\ DOMAIN workers' = DOMAIN workers
        /\ (workers'[w] = off /\ was.pane = "none") \/ workers'[w] = row
        /\ \A v \in DOMAIN workers : v # w => workers'[v] = workers[v]
    BY <1>3, <2>1
  <2>4. run'.current = 0 /\ run'.status = "blocked"
    BY <2>1 DEF Run
  <2> HIDE DEF off, chosen
  <2>5. was.pane = "none" => Settled(off) /\ Alike(off, was)
    BY <1>2, <1>5, <2>2 DEF Settled, Untroubled, Alike
  <2>6. Settled(workers'[w]) /\ Alike(workers'[w], was)
    BY <1>2, <1>5, <2>3, <2>5
  <2> QED BY <1>6, <2>1, <2>3, <2>4, <2>6
<1> QED BY <1>7, <1>8

LEMMA LaunchStepLineage ==
  ASSUME Rows, Counters, Owned, AllSettled, NEW p, p # "down", NEW r \in Run, r.current = 0,
         r.step \in DOMAIN Steps, LaunchStep(r),
         Definition[Steps[r.step].workflow].mutates => head = 0
  PROVE  Dispatched(p)'
<1> DEFINE workflow == Steps[r.step].workflow
           kept == Retiring(workflow)
           added == NewWorker(workflow, "run", dispatch + 1)
<1>1. workflow \in DOMAIN Definition /\ Definition[workflow].mutates \in BOOLEAN
  BY StepTypes, DefinitionTypes
<1>2. ASSUME NEW w \in DOMAIN workers
      PROVE  kept[w] \in Worker /\ Settled(kept[w]) /\ Alike(kept[w], workers[w])
  <2> DEFINE was == workers[w]
  <2>1. was \in Worker /\ Settled(was)
    BY WorkerTable DEF Rows, AllSettled
  <2>2. kept[w] = was \/ (kept[w] = Stopped(was) /\ ~was.writable)
    BY DEF Retiring, Superseded
  <2>3. /\ Stopped(was) \in Worker /\ Alike(Stopped(was), was)
        /\ Stopped(was).launch = "none" /\ Stopped(was).events = <<>>
    BY <2>1, RowTypes DEF Stopped, Worker, Alike
  <2>4. ~was.writable => Settled(Stopped(was))
    BY <2>1, <2>3 DEF Settled, Untroubled, Alike
  <2> HIDE DEF kept
  <2> QED BY <2>1, <2>2, <2>3, <2>4 DEF Alike
<1>3. /\ kept \in Seq(Worker) /\ DOMAIN kept = DOMAIN workers /\ DOMAIN kept = 1..Len(kept)
      /\ Len(kept) \in Nat
  BY <1>2, RowsRewritten, LenProperties DEF Retiring, Rows
<1> HIDE DEF kept
<1>4. CASE DuplicateWorker(kept, workflow)
  <2>1. run' = [r EXCEPT !.status = "blocked"] /\ workers' = kept /\ head' = head
    BY <1>4 DEF LaunchStep, kept
  <2>2. run'.current = 0 /\ run'.status = "blocked"
    BY <2>1 DEF Run
  <2>3. \A w \in DOMAIN workers' : Fit(w, workers'[w], run', p)
    BY <1>2, <1>3, <2>1, SettledFits
  <2>4. Owned' /\ InLineage'
    BY <1>2, <1>3, <2>1, <2>2 DEF Owned, InLineage, Alike
  <2> QED BY <2>2, <2>3, <2>4 DEF Dispatched
<1>5. CASE ~DuplicateWorker(kept, workflow)
  <2> DEFINE last == Len(kept) + 1
  <2>1. run' = Reserved(r, last) /\ workers' = Append(kept, added) /\ head' = HeadWith(workflow)
    BY <1>5 DEF LaunchStep, kept
  <2>2. /\ added.launch = "run" /\ added.turn = "none" /\ added.tainted = FALSE
        /\ added.events = <<>> /\ added.pane = "none" /\ added.status = "starting"
        /\ added.role = Definition[workflow].role /\ added.writable = Definition[workflow].mutates
        /\ added.lineage = (Definition[workflow].mutates <=> head = 0)
    BY DEF NewWorker
  <2> HIDE DEF added
  <2>3. /\ run'.current = last /\ run'.step = r.step /\ run'.completed = FALSE
        /\ run'.intervened = FALSE /\ run'.status = "running"
    BY <1>3, <2>1 DEF Reserved, Unassigned, Run
  <2>4. /\ DOMAIN workers' = 1..last /\ workers'[last] = added
        /\ \A v \in 1..Len(kept) : workers'[v] = kept[v]
    BY <1>3, <2>1, AppendProperties
  <2>5. Fit(last, added, run', p)
    <3>1. added.writable = TRUE => added.role = "implementer"
      BY <1>1, <2>2, WritersAreImplementers
    <3> QED BY <2>2, <2>3, <3>1 DEF Fit, Starts, Writes, Awaited, Unused, Untroubled, Retired
  <2>6. \A v \in DOMAIN workers' : Fit(v, workers'[v], run', p)
    <3> SUFFICES ASSUME NEW v \in DOMAIN workers'
                 PROVE  Fit(v, workers'[v], run', p)
      OBVIOUS
    <3>1. v \in 1..Len(kept) \/ v = last
      BY <1>3, <2>4
    <3>2. CASE v \in 1..Len(kept)
      BY <1>2, <1>3, <2>4, <3>2, SettledFits
    <3> QED BY <2>4, <2>5, <3>1, <3>2
  <2>7. Owned' /\ InLineage'
    <3>1. CASE Definition[workflow].mutates
      <4>1. head = 0 /\ head' = 1
        BY <2>1, <3>1 DEF HeadWith
      <4>2. added.writable = TRUE /\ added.lineage = TRUE
        BY <1>1, <2>2, <3>1, <4>1
      <4>3. last \in DOMAIN workers'
        BY <1>3, <2>4
      <4> QED BY <2>3, <2>4, <4>1, <4>2, <4>3 DEF Owned, InLineage
    <3>2. CASE ~Definition[workflow].mutates
      <4>1. head' = head /\ added.writable = FALSE
        BY <1>1, <2>1, <2>2, <3>2 DEF HeadWith
      <4>2. \A v \in DOMAIN workers' : v \in DOMAIN workers \/ v = last
        BY <1>3, <2>4
      <4>3. \A v \in DOMAIN workers : v \in DOMAIN workers' /\ Alike(workers'[v], workers[v])
        BY <1>2, <1>3, <2>4
      <4>4. Owned'
        BY <2>4, <4>1, <4>2, <4>3 DEF Owned, Alike
      <4> QED BY <2>3, <3>2, <4>4 DEF InLineage
    <3> QED BY <3>1, <3>2
  <2> QED BY <2>3, <2>6, <2>7 DEF Dispatched
<1> QED BY <1>4, <1>5

(* A step that may reuse a worker does. *)
LEMMA ReusesIfItMay ==
  ASSUME workers \in Seq(Worker), NEW step, Reusable(step) # {},
         step.worker # "fresh", Definition[step.workflow].worker # "fresh"
  PROVE  WorkerForStep(step) \in Reusable(step)
<1> DEFINE found == Reusable(step)
           newest == CHOOSE w \in found : \A v \in found : v <= w
<1>1. WorkerForStep(step) = newest
  BY Zenon DEF WorkerForStep
<1>2. Len(workers) \in Nat /\ found \in SUBSET (1..Len(workers))
  BY WorkerTable DEF Reusable
<1> HIDE DEF found
<1>3. \E w \in found : \A v \in found : v <= w
  BY <1>2, LargestExists DEF found
<1>4. newest \in found
  BY <1>3, Zenon
<1> HIDE DEF newest
<1> QED BY <1>1, <1>4 DEF found

(* A step that writes code is given to the implementer that has the         *)
(* lineage, and to a new one only while there is none.                      *)
LEMMA WritersReused ==
  ASSUME ReusesImplementer, workers \in Seq(Worker), Owned, AllSettled,
         NEW next \in DOMAIN Steps, Definition[Steps[next].workflow].mutates
  PROVE  LET reuse == WorkerForStep(Steps[next])
         IN  IF reuse = 0 THEN head = 0 ELSE workers[reuse].lineage = TRUE
<1> DEFINE step == Steps[next]
           reuse == WorkerForStep(step)
<1>1. /\ step.workflow \in DOMAIN Definition /\ step.worker # "fresh"
      /\ Definition[step.workflow].worker # "fresh"
      /\ "implementer" \in Definition[step.workflow].allowed
  BY StepTypes, WritersAreImplementers DEF ReusesImplementer
<1>2. \A w \in DOMAIN workers :
        workers[w].writable \in BOOLEAN /\ workers[w].lineage \in BOOLEAN /\ w # 0
  BY WorkerTable DEF Worker
<1> HIDE DEF step
<1>3. ASSUME head # 0
      PROVE  reuse \in Reusable(step)
  <2>1. PICK w \in DOMAIN workers : workers[w].writable = TRUE /\ workers[w].lineage = TRUE
    BY <1>3 DEF Owned
  <2>2. workers[w].role = "implementer" /\ workers[w].status \notin Retired
    BY <2>1 DEF AllSettled, Settled
  <2>3. w \in Reusable(step)
    BY <1>1, <2>1, <2>2 DEF Reusable
  <2> QED BY <1>1, <2>3, ReusesIfItMay
<1>4. reuse = 0 \/ reuse \in Reusable(step)
  BY WorkerReused
<1> HIDE DEF reuse
<1>5. CASE reuse = 0
  BY <1>2, <1>3, <1>5 DEF Reusable, reuse, step
<1>6. CASE reuse # 0
  <2>1. reuse \in DOMAIN workers /\ workers[reuse].writable /\ (head # 0 => workers[reuse].lineage)
    BY <1>4, <1>6 DEF Reusable, step
  <2>2. head # 0
    BY <1>2, <2>1 DEF Owned
  <2> QED BY <1>2, <1>6, <2>1, <2>2 DEF reuse, step
<1> QED BY <1>5, <1>6

LEMMA DispatchLineage ==
  ASSUME ReusesImplementer, Rows, Counters, Owned, AllSettled, NEW p, p # "down",
         NEW r \in Run, r.current = 0, NEW from, Dispatch(r, from)
  PROVE  Dispatched(p)'
<1>1. PICK next \in 1..Len(Steps) + 1 :
        LET at == [r EXCEPT !.step = next]
        IN IF next > Len(Steps) THEN Stay([at EXCEPT !.status = "completed"])
           ELSE LET reuse == WorkerForStep(Steps[next])
                IN IF ~Prerequisites(Steps[next].workflow)
                   THEN Stay([at EXCEPT !.status = "awaiting_approval"])
                   ELSE IF reuse # 0 THEN SendStep(at, reuse) ELSE LaunchStep(at)
  BY DEF Dispatch
<1> DEFINE at == [r EXCEPT !.step = next]
           reuse == WorkerForStep(Steps[next])
<1>2. at \in Run /\ at.current = 0 /\ at.step = next
  BY DEF Run
<1>3. next > Len(Steps) \/ next \in DOMAIN Steps
  BY StepTypes
<1>4. ASSUME NEW status \in {"completed", "awaiting_approval"}, Stay([at EXCEPT !.status = status])
      PROVE  Dispatched(p)'
  <2>1. run'.status = status /\ run'.current = 0 /\ UNCHANGED <<workers, head>>
    BY <1>2, <1>4 DEF Stay, Run
  <2>2. \A w \in DOMAIN workers' : Fit(w, workers'[w], run', p)
    BY <2>1, SettledFits DEF AllSettled
  <2>3. Owned' /\ InLineage'
    BY <2>1 DEF Owned, InLineage
  <2> QED BY <2>1, <2>2, <2>3 DEF Dispatched
<1> HIDE DEF at
<1>5. ASSUME next \in DOMAIN Steps, Definition[Steps[next].workflow].mutates
      PROVE  IF reuse = 0 THEN head = 0 ELSE workers[reuse].lineage = TRUE
  BY <1>5, WritersReused DEF Rows
<1>6. CASE next \in DOMAIN Steps /\ reuse # 0 /\ SendStep(at, reuse)
  <2>1. reuse \in DOMAIN workers
    BY <1>6, WorkerReused DEF Reusable, Rows
  <2> HIDE DEF reuse
  <2>2. Definition[Steps[next].workflow].mutates = TRUE => workers[reuse].lineage = TRUE
    BY <1>5, <1>6
  <2> QED BY <1>2, <1>6, <2>1, <2>2, SendStepLineage
<1>7. CASE next \in DOMAIN Steps /\ reuse = 0 /\ LaunchStep(at)
  <2>1. Definition[Steps[next].workflow].mutates => head = 0
    BY <1>5, <1>7
  <2> QED BY <1>2, <1>7, <2>1, LaunchStepLineage
<1> QED BY <1>1, <1>3, <1>4, <1>6, <1>7 DEF at

(* A dispatch finds the table settled: no launch holds the run's lock, and  *)
(* an implementer without a process would have kept the run where it is.    *)
LEMMA SettledByThen ==
  ASSUME TypeOK, LineageOK, phase # "down",
         \/ run.current = 0
         \/ LockFree /\ (run.completed \/ Reconcilable)
  PROVE  AllSettled
<1> SUFFICES ASSUME NEW w \in DOMAIN workers
             PROVE  Settled(workers[w])
  BY DEF AllSettled
<1>1. Fit(w, workers[w], run, phase) /\ w # 0
  BY WorkerTable DEF LineageOK, TypeOK
<1>2. ~Starts(w, workers[w], run, phase)
  BY <1>1 DEF Starts, Awaited, LockFree
<1>3. ~(Unused(workers[w]) /\ Awaited(w, run) /\ run.intervened = FALSE)
  BY <1>1 DEF Unused, Awaited, Reconcilable
<1> QED BY <1>1, <1>2, <1>3 DEF Fit, Writes, Settled, Retired

(* What an advance makes of the run row as it is, or of one without worker. *)
LEMMA AdvanceLineage ==
  ASSUME ReusesImplementer, TypeOK, LineageOK, phase # "down", NEW r \in Run, AdvanceFrom(r),
         r.status # "none",
         \/ r.current = 0 /\ AllSettled /\ r.status = "running"
         \/ /\ r.current = run.current /\ r.step = run.step
            /\ r.completed = run.completed /\ r.intervened = run.intervened
            /\ run.current = 0 \/ ~run.completed \/ LockFree
  PROVE  \A p : p # "down" => Dispatched(p)'
<1> SUFFICES ASSUME NEW p, p # "down"
             PROVE  Dispatched(p)'
  OBVIOUS
<1> USE TypeParts
<1>1. ASSUME NEW status, status # "none",
             Stay(r) \/ Stay([r EXCEPT !.status = status]), r.current = run.current,
             r.step = run.step, r.completed = run.completed, r.intervened = run.intervened
      PROVE  Dispatched(p)'
  <2>1. /\ run'.current = run.current /\ run'.completed = run.completed /\ run'.step = run.step
        /\ run'.intervened = run.intervened /\ run'.status # "none" /\ UNCHANGED <<workers, head>>
    BY <1>1 DEF Stay, Run
  <2>2. \A w \in DOMAIN workers' : Fit(w, workers'[w], run', p)
    BY <2>1, FitElsewhere DEF LineageOK
  <2>3. Owned' /\ InLineage'
    BY <2>1 DEF LineageOK, Owned, InLineage
  <2> QED BY <2>1, <2>2, <2>3 DEF Dispatched
<1>2. Unassigned(r) \in Run /\ Unassigned(r).current = 0
  BY RunRowTypes
<1>3. ASSUME AllSettled, (r.current = 0 /\ Dispatch(r, r.step)) \/ Dispatch(Unassigned(r), r.step + 1)
      PROVE  Dispatched(p)'
  BY <1>2, <1>3, DispatchLineage DEF LineageOK
<1>4. CASE r.current = 0 /\ AllSettled /\ r.status = "running"
  BY <1>3, <1>4 DEF AdvanceFrom
<1>5. CASE /\ r.current = run.current /\ r.step = run.step
           /\ r.completed = run.completed /\ r.intervened = run.intervened
           /\ run.current = 0 \/ ~run.completed \/ LockFree
  <2>1. \/ Stay(r) \/ Stay([r EXCEPT !.status = "awaiting_approval"])
        \/ r.current = 0 /\ Dispatch(r, r.step)
        \/ r.completed /\ r.current # 0 /\ Dispatch(Unassigned(r), r.step + 1)
    BY DEF AdvanceFrom
  <2>2. r.current = 0 \/ (r.completed /\ r.current # 0) => AllSettled
    BY <1>5, SettledByThen
  <2> QED BY <1>1, <1>3, <1>5, <2>1, <2>2
<1> QED BY <1>4, <1>5

LEMMA AdvancesLineage ==
  ASSUME ReusesImplementer, TypeOK, LineageOK, StartRun \/ Advance \/ ResumeRun \/ RecoverRun
  PROVE  LineageOK'
<1>1. run \in Run /\ phase # "down" /\ phase' # "down"
  BY DEF TypeOK, StartRun, Advance, ResumeRun, RecoverRun, controller
<1>2. ASSUME \A p : p # "down" => Dispatched(p)'
      PROVE  LineageOK'
  BY <1>1, <1>2 DEF Dispatched, LineageOK, Unstarted
<1>3. ASSUME NEW r, Stay(r), r.current = run.current, r.step = run.step,
             r.completed = run.completed, r.intervened = run.intervened,
             r.status = "none" => run.status = "none"
      PROVE  LineageOK'
  <2>1. run' = r /\ UNCHANGED <<workers, head>>
    BY <1>3 DEF Stay
  <2>2. \A w \in DOMAIN workers : Fit(w, workers[w], r, phase')
    BY <1>1, <1>3, FitElsewhere DEF LineageOK
  <2>3. Owned' /\ InLineage' /\ Unstarted'
    BY <1>3, <2>1 DEF LineageOK, Owned, InLineage, Unstarted
  <2> QED BY <2>1, <2>2, <2>3 DEF LineageOK
<1>4. CASE StartRun
  <2>1. FreshRun \in Run /\ FreshRun.current = 0 /\ FreshRun.status = "running"
    BY FreshRunTypes, TypeParts DEF FreshRun
  <2>2. run.current = 0 /\ AdvanceFrom(FreshRun)
    BY <1>4 DEF StartRun, LineageOK, Unstarted
  <2>3. AllSettled
    BY <1>1, <2>2, SettledByThen
  <2> QED BY <1>1, <1>2, <2>1, <2>2, <2>3, AdvanceLineage
<1>5. ASSUME AdvanceFrom(run), run.current = 0 \/ ~run.completed \/ LockFree
      PROVE  LineageOK'
  <2>1. CASE run.status = "none"
    <3>1. Stay(run)
      BY <1>5, <2>1 DEF AdvanceFrom
    <3> QED BY <1>3, <3>1
  <2>2. CASE run.status # "none"
    BY <1>1, <1>2, <1>5, <2>2, AdvanceLineage
  <2> QED BY <2>1, <2>2
<1>6. CASE Advance
  BY <1>5, <1>6 DEF Advance
<1>7. CASE ResumeRun
  <2>1. LockFree /\ AdvanceFrom(Resumed) /\ (Untrusted => Reconcilable)
    BY <1>7 DEF ResumeRun
  <2>2. Resumed \in Run /\ (Untrusted => Resumed.current = 0)
    <3>1. Untrusted => Unassigned(Refunded(run)).current = 0
      BY RefundedTypes, RunRowTypes, TypeParts
    <3> QED BY <3>1, ResumedTypes, TypeParts
  <2>3. CASE Untrusted
    <3>1. AllSettled
      BY <1>1, <2>1, <2>3, SettledByThen
    <3> DEFINE base == Unassigned(Refunded(run))
               granted == run.status = "awaiting_approval" /\ run.completed
               approved == IF granted THEN base.approved \union {run.step} ELSE base.approved
    <3>2. Resumed = [base EXCEPT !.status = "running", !.approved = approved]
      BY <2>3 DEF Resumed
    <3>3. base \in Run
      BY RefundedTypes, RunRowTypes, TypeParts
    <3> HIDE DEF base, approved
    <3>4. Resumed.status = "running"
      BY <3>2, <3>3 DEF Run
    <3> QED BY <1>1, <1>2, <2>1, <2>2, <2>3, <3>1, <3>4, AdvanceLineage
  <2>4. CASE ~Untrusted
    <3> DEFINE granted == run.status = "awaiting_approval" /\ run.completed
               approved == IF granted THEN run.approved \union {run.step} ELSE run.approved
    <3>1. Resumed = [run EXCEPT !.status = "running", !.approved = approved]
      BY <2>4 DEF Resumed
    <3> HIDE DEF approved
    <3>2. /\ Resumed.current = run.current /\ Resumed.step = run.step
          /\ Resumed.completed = run.completed /\ Resumed.intervened = run.intervened
          /\ Resumed.status = "running"
      BY <1>1, <3>1 DEF Run
    <3> QED BY <1>1, <1>2, <2>1, <2>2, <3>2, AdvanceLineage
  <2> QED BY <2>3, <2>4
<1>8. CASE RecoverRun
  <2>1. CASE Stay(run)
    BY <1>3, <2>1
  <2>2. CASE Stay([run EXCEPT !.status = "blocked"])
    <3> DEFINE r == [run EXCEPT !.status = "blocked"]
    <3>1. /\ r.current = run.current /\ r.step = run.step /\ r.status = "blocked"
          /\ r.completed = run.completed /\ r.intervened = run.intervened
      BY <1>1 DEF Run
    <3> HIDE DEF r
    <3> QED BY <1>3, <2>2, <3>1 DEF r
  <2>3. CASE LockFree /\ AdvanceFrom(run)
    BY <1>5, <2>3
  <2> QED BY <1>8, <2>1, <2>2, <2>3 DEF RecoverRun
<1> QED BY <1>4, <1>6, <1>7, <1>8

LEMMA StepKeepsLineage ==
  ASSUME Unharmed, ReusesImplementer, TypeOK, LineageInv, [Next]_vars
  PROVE  LineageInv'
<1> SUFFICES ASSUME used'.byHand = 0
             PROVE  LineageOK'
  BY DEF LineageInv
<1>1. used \in [Allowance -> Nat]
  BY DEF TypeOK
<1>2. ASSUME used' = used \/ (\E name \in Allowance \ {"byHand"} : Use(name))
      PROVE  LineageOK
  BY <1>1, <1>2 DEF LineageInv, Use, Allowance
<1>3. CASE ControllerStep \/ Decision \/ Crash
  <2>1. used' = used \/ Use("crashes")
    BY <1>3 DEF ControllerStep, Decision, Crash, StartRun, Advance, RecoverWorkers, RecoverRun,
       ResumeRun, ApprovePlan, RecordDecision
  <2>2. LineageOK
    BY <1>2, <2>1 DEF Allowance
  <2>3. CASE ApprovePlan \/ RecordDecision
    BY <2>2, <2>3 DEF ApprovePlan, RecordDecision, controller, LineageOK, Owned, Unstarted, InLineage
  <2> QED BY <1>3, <2>2, <2>3, AdvancesLineage, CrashLineage DEF ControllerStep, Decision
<1>4. CASE \E workflow \in DOMAIN Definition : StartByHand(workflow)
  <2>1. used' = [used EXCEPT !.byHand = @ + 1]
    BY <1>4 DEF StartByHand, Use
  <2>2. used.byHand \in Nat /\ used'.byHand = used.byHand + 1
    BY <1>1, <2>1 DEF Allowance
  <2> QED BY <2>2
<1>5. ASSUME NEW w \in DOMAIN workers,
             WorkerStep(w) \/ Intervention(w) \/ StartupAnswered(w) \/ Misfortune(w)
      PROVE  LineageOK'
  <2>1. ~PaneDies(w) /\ ~StopWorker(w)
    BY DEF Unharmed, PaneDies, StopWorker
  <2>2. used' = used \/ Use("entries") \/ Use("sends")
    BY <1>5, <2>1 DEF WorkerStep, Intervention, Misfortune, LaunchAppears, LaunchReady, LaunchStalls,
       ClaudeAccepts, ClaudeEnds, ApplyEvent, ApplyFails, Attach, HumanEdits, Detach, Send,
       StartupAnswered
  <2>3. LineageOK
    BY <1>2, <2>2 DEF Allowance
  <2> QED BY <1>5, <2>1, <2>3, LaunchesLineage, SessionsLineage, EndLineage, EditsLineage, ApplyLineage
          DEF WorkerStep, Intervention, Misfortune
<1>6. CASE UNCHANGED vars
  <2>1. LineageOK
    BY <1>2, <1>6 DEF vars
  <2> QED BY <1>6, <2>1 DEF vars, LineageOK, Owned, Unstarted, InLineage
<1> QED BY <1>3, <1>4, <1>5, <1>6 DEF Next

LEMMA LineageInitial == Init => LineageInv
BY DEF Init, FreshRun, LineageInv, LineageOK, Owned, Unstarted, InLineage

(* A step that writes code runs in the job's authoritative worktree, through *)
(* entries, replays, messages and crashes (_worker_for_step), where no turn *)
(* fails, no process dies and nobody stops a worker or starts a workflow    *)
(* beside the run, for every list of steps that asks for no fresh writer.   *)
THEOREM CodeInLineage ==
  ASSUME Unharmed, ReusesImplementer
  PROVE  Spec => []CodeStepsOwnLineage
<1>1. TypeOK /\ LineageInv /\ [Next]_vars => LineageInv'
  BY StepKeepsLineage
<1>2. TypeOK /\ LineageInv => CodeStepsOwnLineage
  <2> SUFFICES ASSUME TypeOK, LineageInv, used.byHand = 0, run.current # 0,
                      Definition[Steps[run.step].workflow].mutates
               PROVE  workers[run.current].lineage
    BY DEF CodeStepsOwnLineage
  <2> QED BY DEF LineageInv, LineageOK, InLineage
<1> QED BY <1>1, <1>2, LineageInitial, TypeCorrect, PTL DEF Spec

----------------------------------------------------------------------------
(* The change is finalized on evidence *)

(***************************************************************************)
(* Where nobody interferes and every result is harvested, a workflow that  *)
(* ends like complete-ticket - verify what changed, review what changed,   *)
(* finalize - finalizes the head it has evidence of.  Until its last step  *)
(* is dispatched it only moves on: no step is replayed, and the loop goes  *)
(* back to an earlier step only if none from here on applies, which the    *)
(* last one does.  So when it dispatches the last step the verification is *)
(* of this head, because that step found it current or because it was      *)
(* dispatched and completed: and the head has not moved since, since it    *)
(* moves only with the turn of an implementer, and the sessions that       *)
(* verify and review are none.                                             *)
(***************************************************************************)
EndsOnEvidence ==
  LET n == Len(Steps) IN
  /\ n > 3
  /\ Steps[n] = Step("finalize_change")
  /\ Steps[n - 1] = Fresh(When(Step("independent_review"), "code-changed"))
  /\ Steps[n - 2] = Fresh(When(Step("full_verify"), "code-changed"))
  /\ \A i \in 1..(n - 1) : Steps[i].workflow # "finalize_change"
  /\ \E m \in 1..(n - 3) : Steps[m].when = "always" /\ Definition[Steps[m].workflow].mutates

Last == Len(Steps)
Writing(m) == Steps[m].when = "always" /\ Definition[Steps[m].workflow].mutates = TRUE
Verified == artifacts["verification"].at = head
Reviewed == artifacts["review"].at = head

(* The run stands at or beyond a step, or has done with it. *)
Reached(i) == i < run.step \/ (i = run.step /\ run.current # 0)
Done(i) == i < run.step \/ (i = run.step /\ run.current # 0 /\ run.completed = TRUE)
Unfinalized == run.iterations[Last] = 0
Opening(row) == row.launch # "none" \/ row.turn = "pending"
Unopened ==
  \/ Unfinalized
  \/ run.step = Last /\ run.current # 0 /\ run.completed = FALSE /\ Opening(workers[run.current])

Assigned ==
  run.current # 0 =>
    /\ run.step \in DOMAIN Steps /\ run.iterations[run.step] > 0
    /\ workers[run.current].workflow = Steps[run.step].workflow
Headed == head = 0 => \A w \in DOMAIN workers : workers[w].writable = FALSE
MovesOn ==
  Unfinalized =>
    /\ run.step <= Last
    /\ \A i \in DOMAIN Steps : run.iterations[i] > 0 => Reached(i)
    /\ \A m \in DOMAIN Steps : Writing(m) /\ Reached(m) => head # 0
    /\ run.step \in {Last - 2, Last - 1} /\ run.current # 0
         => workers[run.current].writable = FALSE /\ workers[run.current].lineage = TRUE
Evidenced == Unopened => (Done(Last - 2) => Verified) /\ (Done(Last - 1) => Reviewed)
TicketInv == Assigned /\ Headed /\ MovesOn /\ Evidenced

(* complete-ticket is such a workflow. *)
LEMMA CompleteTicketEnds ==
  ASSUME Steps = CompleteTicket
  PROVE  EndsOnEvidence
<1>1. Len(Steps) = 8
  BY DEF CompleteTicket
<1>2. /\ Steps[8] = Step("finalize_change")
      /\ Steps[7] = Fresh(When(Step("independent_review"), "code-changed"))
      /\ Steps[6] = Fresh(When(Step("full_verify"), "code-changed"))
  BY DEF CompleteTicket
<1>3. /\ Steps[1] = Approved(Step("plan_feature"), "required")
      /\ Steps[2] = Step("implement_approved_plan")
      /\ Steps[3] = Fresh(Step("full_verify"))
      /\ Steps[4] = Fresh(Step("independent_review"))
      /\ Steps[5] = AtMost(When(Step("address_review_comments"), "blocking-findings"), 2)
  BY DEF CompleteTicket
<1>4. \A i \in 1..7 : Steps[i].workflow # "finalize_change"
  <2>1. \A i \in 1..7 : i = 1 \/ i = 2 \/ i = 3 \/ i = 4 \/ i = 5 \/ i = 6 \/ i = 7
    OBVIOUS
  <2>2. /\ Steps[1].workflow = "plan_feature" /\ Steps[2].workflow = "implement_approved_plan"
        /\ Steps[3].workflow = "full_verify" /\ Steps[4].workflow = "independent_review"
        /\ Steps[5].workflow = "address_review_comments" /\ Steps[6].workflow = "full_verify"
        /\ Steps[7].workflow = "independent_review"
    BY <1>2, <1>3 DEF Step, Fresh, When, Approved, AtMost
  <2> QED BY <2>1, <2>2
<1>5. Steps[2].when = "always" /\ Definition[Steps[2].workflow].mutates
  <2>1. Steps[2].when = "always" /\ Steps[2].workflow = "implement_approved_plan"
    BY <1>3 DEF Step
  <2>2. Definition["implement_approved_plan"].mutates
    BY DEF Definition, ImplementApprovedPlan, Atomic
  <2> QED BY <2>1, <2>2
<1>6. 2 \in 1..5
  OBVIOUS
<1> QED BY <1>1, <1>2, <1>4, <1>5, <1>6 DEF EndsOnEvidence

(* What the last three steps are. *)
LEMMA LastSteps ==
  ASSUME EndsOnEvidence
  PROVE  /\ Last \in Nat /\ Last > 3 /\ DOMAIN Steps = 1..Last
         /\ Steps[Last].workflow = "finalize_change" /\ Steps[Last].when = "always"
         /\ Steps[Last].max = 1
         /\ Steps[Last - 1].workflow = "independent_review" /\ Steps[Last - 1].when = "code-changed"
         /\ Steps[Last - 1].worker = "fresh" /\ Steps[Last - 1].max = 1
         /\ Steps[Last - 2].workflow = "full_verify" /\ Steps[Last - 2].when = "code-changed"
         /\ Steps[Last - 2].worker = "fresh" /\ Steps[Last - 2].max = 1
         /\ \A i \in DOMAIN Steps : Steps[i].workflow = "finalize_change" => i = Last
         /\ \E m \in DOMAIN Steps : m < Last - 2 /\ Writing(m)
<1>1. Last \in Nat /\ Last > 3 /\ DOMAIN Steps = 1..Last
  BY StepTypes DEF EndsOnEvidence, Last
<1>2. /\ Steps[Last].workflow = "finalize_change" /\ Steps[Last].when = "always"
      /\ Steps[Last].max = 1
  BY DEF EndsOnEvidence, Last, Step
<1>3. /\ Steps[Last - 1].workflow = "independent_review" /\ Steps[Last - 1].when = "code-changed"
      /\ Steps[Last - 1].worker = "fresh" /\ Steps[Last - 1].max = 1
  BY DEF EndsOnEvidence, Last, Step, Fresh, When
<1>4. /\ Steps[Last - 2].workflow = "full_verify" /\ Steps[Last - 2].when = "code-changed"
      /\ Steps[Last - 2].worker = "fresh" /\ Steps[Last - 2].max = 1
  BY DEF EndsOnEvidence, Last, Step, Fresh, When
<1>5. \A i \in DOMAIN Steps : Steps[i].workflow = "finalize_change" => i = Last
  BY <1>1 DEF EndsOnEvidence, Last
<1>6. \E m \in DOMAIN Steps : m < Last - 2 /\ Writing(m)
  <2>1. PICK m \in 1..(Last - 3) : Steps[m].when = "always" /\ Definition[Steps[m].workflow].mutates
    BY DEF EndsOnEvidence, Last
  <2>2. m \in DOMAIN Steps /\ m < Last - 2
    BY <1>1, <2>1
  <2>3. Definition[Steps[m].workflow].mutates = TRUE
    BY <2>1, <2>2, StepTypes, DefinitionTypes
  <2> QED BY <2>1, <2>2, <2>3 DEF Writing
<1> QED BY <1>1, <1>2, <1>3, <1>4, <1>5, <1>6

LEMMA LastDefinitions ==
  /\ Definition["full_verify"].mutates = FALSE /\ Definition["full_verify"].produces = {"verification"}
  /\ Definition["independent_review"].mutates = FALSE
  /\ Definition["independent_review"].produces = {"review"}
  /\ Definition["finalize_change"].mutates = FALSE
BY DEF Definition, FullVerify, IndependentReview, FinalizeChange, Atomic

(* A step that leaves the run where it is, and the head and the evidence.   *)
AsBefore(row, was) ==
  row.workflow = was.workflow /\ row.writable = was.writable /\ row.lineage = was.lineage

LEMMA TicketKept ==
  ASSUME TypeOK, TicketInv, DOMAIN workers' = DOMAIN workers,
         \A v \in DOMAIN workers : AsBefore(workers'[v], workers[v]),
         run.current # 0 /\ Opening(workers'[run.current]) => Opening(workers[run.current]),
         run'.current = run.current, run'.step = run.step, run'.iterations = run.iterations,
         run'.completed = run.completed, head' = head, artifacts' = artifacts
  PROVE  TicketInv'
<1>1. run.current # 0 => run.current \in DOMAIN workers
  BY DEF TypeOK
<1>2. Assigned'
  BY <1>1 DEF TicketInv, Assigned, AsBefore
<1>3. Headed'
  BY DEF TicketInv, Headed, AsBefore
<1>4. MovesOn'
  BY <1>1 DEF TicketInv, MovesOn, Unfinalized, Reached, AsBefore
<1>5. Evidenced'
  BY <1>1 DEF TicketInv, Evidenced, Unopened, Unfinalized, Done, Verified, Reviewed
<1> QED BY <1>2, <1>3, <1>4, <1>5 DEF TicketInv

LEMMA TicketRow ==
  ASSUME TypeOK, TicketInv, NEW w \in DOMAIN workers, NEW row, SetWorker(w, row),
         AsBefore(row, workers[w]), Opening(row) => Opening(workers[w]),
         run'.current = run.current, run'.step = run.step, run'.iterations = run.iterations,
         run'.completed = run.completed, head' = head, artifacts' = artifacts
  PROVE  TicketInv'
<1>1. DOMAIN workers' = DOMAIN workers /\ workers'[w] = row
      /\ \A v \in DOMAIN workers : v # w => workers'[v] = workers[v]
  BY DEF SetWorker
<1>2. \A v \in DOMAIN workers : AsBefore(workers'[v], workers[v])
  BY <1>1 DEF AsBefore
<1>3. run.current # 0 => run.current \in DOMAIN workers
  BY DEF TypeOK
<1>4. run.current # 0 /\ Opening(workers'[run.current]) => Opening(workers[run.current])
  BY <1>1, <1>3
<1> QED BY <1>1, <1>2, <1>4, TicketKept

LEMMA SessionsTicket ==
  ASSUME TypeOK, AttemptInv, TicketInv, NEW w \in DOMAIN workers,
         \/ LaunchAppears(w) \/ LaunchReady(w) \/ LaunchStalls(w) \/ ClaudeAccepts(w)
         \/ PaneDies(w) \/ StartupAnswered(w) \/ StopWorker(w)
  PROVE  TicketInv'
<1> DEFINE was == workers[w]
<1>1. was \in Worker /\ run \in Run
  BY WorkerTable DEF TypeOK
<1>2. head' = head /\ artifacts' = artifacts
  BY DEF LaunchAppears, LaunchReady, LaunchStalls, ClaudeAccepts, PaneDies, StartupAnswered, StopWorker
<1>3. ASSUME NEW row, SetWorker(w, row), AsBefore(row, was), Opening(row) => Opening(was), run' = run
      PROVE  TicketInv'
  BY <1>2, <1>3, TicketRow
<1>4. CASE LaunchAppears(w)
  <2> DEFINE row == [was EXCEPT !.pane = "starting"]
  <2>1. SetWorker(w, row) /\ run' = run
    BY <1>4 DEF LaunchAppears
  <2>2. AsBefore(row, was) /\ row.launch = was.launch /\ row.turn = was.turn
    BY <1>1 DEF Worker, AsBefore
  <2> HIDE DEF row
  <2> QED BY <1>3, <2>1, <2>2 DEF Opening
<1>5. CASE LaunchReady(w)
  <2> DEFINE prompted == Prompted(was, was.serves)
             row == [prompted EXCEPT !.launch = "none", !.pane = "ready", !.owes = FALSE]
  <2>1. SetWorker(w, row) /\ (run' = run \/ run' = Unpaused(run, w)) /\ was.launch # "none"
    BY <1>5 DEF LaunchReady, Launching
  <2>2. prompted \in Worker /\ AsBefore(prompted, was)
    <3>1. was.serves \in Nat
      BY <1>1 DEF Worker
    <3>2. prompted \in Worker
      BY <1>1, <3>1, RowTypes
    <3> QED BY <1>1, <3>2 DEF Prompted, Worker, AsBefore
  <2> HIDE DEF prompted
  <2>3. AsBefore(row, was)
    BY <2>2 DEF Worker, AsBefore
  <2> HIDE DEF row
  <2>4. /\ run'.current = run.current /\ run'.step = run.step /\ run'.iterations = run.iterations
        /\ run'.completed = run.completed
    BY <1>1, <2>1 DEF Unpaused, Run
  <2> QED BY <1>2, <2>1, <2>3, <2>4, TicketRow DEF Opening
<1>6. CASE LaunchStalls(w)
  <2>1. PICK pane, status :
          SetWorker(w, [was EXCEPT !.launch = "none", !.pane = pane, !.status = status])
    BY <1>6 DEF LaunchStalls
  <2> DEFINE row == [was EXCEPT !.launch = "none", !.pane = pane, !.status = status]
  <2>2. SetWorker(w, row) /\ AsBefore(row, was) /\ row.launch = "none" /\ row.turn = was.turn
    BY <1>1, <2>1 DEF Worker, AsBefore
  <2> HIDE DEF row
  <2>3. run' = run \/ run' = [Unassigned(run) EXCEPT !.current = w, !.status = "blocked"]
    BY <1>6 DEF LaunchStalls
  <2>4. w = run.current /\ run.completed = FALSE
    BY <1>6 DEF LaunchStalls, Launching, AttemptInv, Attempted, Busy, AtWork
  <2>5. /\ run'.current = run.current /\ run'.step = run.step /\ run'.iterations = run.iterations
        /\ run'.completed = run.completed
    BY <1>1, <2>3, <2>4 DEF Unassigned, Run
  <2> QED BY <1>2, <2>2, <2>5, TicketRow DEF Opening
<1>7. CASE ClaudeAccepts(w)
  <2> DEFINE row == [was EXCEPT !.turn = "open"]
  <2>1. SetWorker(w, row) /\ run' = run /\ was.turn = "pending"
    BY <1>7 DEF ClaudeAccepts
  <2>2. AsBefore(row, was)
    BY <1>1 DEF Worker, AsBefore
  <2> HIDE DEF row
  <2> QED BY <1>3, <2>1, <2>2 DEF Opening
<1>8. CASE PaneDies(w)
  <2>1. PICK events : SetWorker(w, [was EXCEPT !.pane = "none", !.events = events]) /\ run' = run
    BY <1>8 DEF PaneDies
  <2> DEFINE row == [was EXCEPT !.pane = "none", !.events = events]
  <2>2. SetWorker(w, row) /\ AsBefore(row, was) /\ row.launch = was.launch /\ row.turn = was.turn
    BY <1>1, <2>1 DEF Worker, AsBefore
  <2> HIDE DEF row
  <2> QED BY <1>3, <2>1, <2>2 DEF Opening
<1>9. CASE StartupAnswered(w)
  <2> DEFINE row == [was EXCEPT !.pane = "ready"]
  <2>1. SetWorker(w, row) /\ run' = run
    BY <1>9 DEF StartupAnswered
  <2>2. AsBefore(row, was) /\ row.launch = was.launch /\ row.turn = was.turn
    BY <1>1 DEF Worker, AsBefore
  <2> HIDE DEF row
  <2> QED BY <1>3, <2>1, <2>2 DEF Opening
<1>10. CASE StopWorker(w)
  <2> DEFINE row == Stopped(was)
  <2>1. SetWorker(w, row) /\ run' = run
    BY <1>10 DEF StopWorker
  <2>2. AsBefore(row, was) /\ row.launch = "none" /\ row.turn = was.turn
    BY <1>1 DEF Stopped, Worker, AsBefore
  <2> HIDE DEF row
  <2> QED BY <1>3, <2>1, <2>2 DEF Opening
<1> QED BY <1>4, <1>5, <1>6, <1>7, <1>8, <1>9, <1>10

(* A turn that ends is the run's: while the evidence counts it is not one   *)
(* that writes.                                                             *)
LEMMA EndTicket ==
  ASSUME EndsOnEvidence, TypeOK, AttemptInv, TicketInv, NEW w \in DOMAIN workers, ClaudeEnds(w)
  PROVE  TicketInv'
<1> DEFINE was == workers[w]
<1>1. was \in Worker /\ was.writable \in BOOLEAN /\ head \in Nat /\ run \in Run
  BY WorkerTable, RunBounds DEF TypeOK, Worker
<1>2. /\ was.turn = "open" /\ run' = run /\ artifacts' = artifacts /\ head' \in Edited(w)
  BY DEF ClaudeEnds
<1>3. w = run.current /\ run.completed = FALSE /\ w # 0 /\ was.launch = "none"
  <2>1. AtWork(was)
    BY <1>2 DEF AtWork
  <2>2. was.launch = "none"
    BY <1>2 DEF AttemptInv, Attempted, Orderly
  <2> QED BY <2>1, <2>2, WorkerTable DEF AttemptInv, Attempted, Busy, TypeOK
<1>4. PICK row : SetWorker(w, row) /\ AsBefore(row, was) /\ row.launch = "none" /\ row.turn = "over"
  <2>1. PICK events : SetWorker(w, [was EXCEPT !.turn = "over", !.events = events])
    BY DEF ClaudeEnds
  <2> DEFINE row == [was EXCEPT !.turn = "over", !.events = events]
  <2>2. SetWorker(w, row) /\ AsBefore(row, was) /\ row.launch = was.launch /\ row.turn = "over"
    BY <1>1, <2>1 DEF Worker, AsBefore
  <2> HIDE DEF row
  <2> QED BY <1>3, <2>2
<1>5. DOMAIN workers' = DOMAIN workers /\ workers'[w] = row
      /\ \A v \in DOMAIN workers : AsBefore(workers'[v], workers[v])
  BY <1>4 DEF SetWorker, AsBefore
<1>6. head' = head \/ (head # 0 /\ head' # 0 /\ was.writable = TRUE)
  <2>1. head' = head \/ (head' = head + 1 /\ was.writable)
    BY <1>2 DEF Edited
  <2>2. was.writable => head # 0
    BY <1>1 DEF TicketInv, Headed
  <2> QED BY <1>1, <2>1, <2>2
<1>7. Assigned' /\ Headed'
  BY <1>2, <1>3, <1>5, <1>6 DEF TicketInv, Assigned, Headed, AsBefore
<1>8. MovesOn'
  BY <1>2, <1>3, <1>5, <1>6 DEF TicketInv, MovesOn, Unfinalized, Reached, AsBefore
<1>9. Evidenced'
  <2> SUFFICES ASSUME Unopened', Done(Last - 2)' \/ Done(Last - 1)'
               PROVE  head' = head /\ Unopened
    BY <1>2, <1>3 DEF TicketInv, Evidenced, Done, Verified, Reviewed
  <2>1. Unfinalized
    BY <1>2, <1>3, <1>4, <1>5 DEF Unopened, Unfinalized, Opening
  <2>2. run.step # Last /\ run.step <= Last /\ run.step \in Nat
    BY <1>1, <1>3, <2>1, LastSteps, StepTypes DEF TicketInv, Assigned, MovesOn, Unfinalized, Run
  <2>3. run.step > Last - 2
    BY <1>2, <1>3, <2>2, LastSteps DEF Done
  <2>4. run.step = Last - 1
    BY <2>2, <2>3, LastSteps
  <2>5. was.writable = FALSE
    BY <1>3, <2>1, <2>4 DEF TicketInv, MovesOn
  <2> QED BY <1>6, <2>1, <2>5 DEF Unopened
<1> QED BY <1>7, <1>8, <1>9 DEF TicketInv

(* What the steps that gain evidence leave of it. *)
LEMMA EvidenceHarvested ==
  ASSUME TypeOK, NEW w \in DOMAIN workers, workers[w].lineage = TRUE, NEW ok \in BOOLEAN,
         artifacts' = Harvested(w, ok), head' = head
  PROVE  /\ workers[w].workflow = "full_verify" => Verified'
         /\ workers[w].workflow = "independent_review" => Reviewed' /\ (Verified => Verified')
<1>1. WorkerHead(w) = head
  BY DEF WorkerHead
<1>2. {"verification", "review"} \subseteq ArtifactType
  BY DEF ArtifactType
<1>3. ASSUME NEW type \in ArtifactType
      PROVE  IF type \in Definition[workers[w].workflow].produces
             THEN artifacts'[type].at = head ELSE artifacts'[type] = artifacts[type]
  BY <1>1 DEF Harvested
<1>4. CASE workers[w].workflow = "full_verify"
  BY <1>2, <1>3, <1>4, LastDefinitions DEF Verified
<1>5. CASE workers[w].workflow = "independent_review"
  <2>1. "review" \in Definition[workers[w].workflow].produces
        /\ "verification" \notin Definition[workers[w].workflow].produces
    BY <1>5, LastDefinitions
  <2>2. artifacts'["review"].at = head /\ artifacts'["verification"] = artifacts["verification"]
    BY <1>2, <1>3, <2>1
  <2> QED BY <1>5, <2>2 DEF Verified, Reviewed
<1> QED BY <1>4, <1>5

(* A step is completed with its evidence. *)
LEMMA ApplyTicket ==
  ASSUME EndsOnEvidence, "badResult" \notin Possible, TypeOK, AttemptInv, TicketInv,
         NEW w \in DOMAIN workers, ApplyEvent(w) \/ ApplyFails(w)
  PROVE  TicketInv'
<1> DEFINE was == workers[w]
           event == Head(was.events)
<1>1. was \in Worker /\ was.events \in Seq(Event) /\ run \in Run
  BY WorkerTable DEF TypeOK, Worker
<1>2. ApplyEvent(w) /\ head' = head /\ was.events # <<>>
  BY DEF ApplyEvent, ApplyFails
<1>3. PICK status : SetWorker(w, Consumed(w, status))
  BY <1>2 DEF ApplyEvent, ApplyTo
<1> DEFINE row == Consumed(w, status)
<1>4. AsBefore(row, was) /\ row.launch = was.launch /\ row.turn = was.turn
  BY <1>1 DEF Consumed, Worker, AsBefore
<1> HIDE DEF row
<1>5. /\ run'.current = run.current /\ run'.step = run.step /\ run'.iterations = run.iterations
      /\ \/ run'.completed = run.completed /\ artifacts' = artifacts
         \/ event.kind # "lost" /\ Harvest(w)
  <2> DEFINE done == Completed(run, w)
  <2>1. /\ done \in Run /\ done.current = run.current /\ done.step = run.step
        /\ done.iterations = run.iterations
    BY <1>1, RunRowTypes DEF Completed, Run
  <2>2. \/ run' = run /\ artifacts' = artifacts
        \/ run' = done /\ event.kind # "lost" /\ Harvest(w)
        \/ run' = PausedIf(done, w, "awaiting_approval") /\ event.kind # "lost" /\ Harvest(w)
        \/ run' = PausedIf(run, w, "awaiting_approval") /\ artifacts' = artifacts
        \/ run' = PausedIf(run, w, "blocked") /\ artifacts' = artifacts
    BY <1>2 DEF ApplyEvent, ApplyTo, HarvestNothing
  <2> HIDE DEF done
  <2>3. ASSUME NEW r \in Run, NEW status_1 \in Paused
        PROVE  /\ PausedIf(r, w, status_1).current = r.current
               /\ PausedIf(r, w, status_1).step = r.step
               /\ PausedIf(r, w, status_1).iterations = r.iterations
               /\ PausedIf(r, w, status_1).completed = r.completed
    BY DEF PausedIf, Run
  <2> QED BY <1>1, <2>1, <2>2, <2>3 DEF Paused
<1>6. CASE run'.completed = run.completed /\ artifacts' = artifacts
  BY <1>2, <1>3, <1>4, <1>5, <1>6, TicketRow DEF Opening, row
<1>7. CASE event.kind # "lost" /\ Harvest(w)
  <2>1. 1 \in DOMAIN was.events /\ was.events[1] = event
    BY <1>1, <1>2, LenProperties, HeadTailProperties, EmptySeq
  <2>2. Told(was)
    BY <1>7, <2>1 DEF Told
  <2>3. w = run.current /\ run.completed = FALSE /\ w # 0
    BY <2>2, WorkerTable DEF AttemptInv, Attempted, Busy, TypeOK
  <2>4. ~Opening(row)
    BY <1>4, <2>2 DEF AttemptInv, Attempted, Orderly, AtWork, Opening
  <2>5. DOMAIN workers' = DOMAIN workers /\ workers'[w] = row
        /\ \A v \in DOMAIN workers : AsBefore(workers'[v], workers[v])
    BY <1>3, <1>4 DEF SetWorker, AsBefore, row
  <2>6. Assigned' /\ Headed'
    BY <1>2, <1>5, <2>3, <2>5 DEF TicketInv, Assigned, Headed, AsBefore
  <2>7. MovesOn'
    BY <1>2, <1>5, <2>3, <2>5 DEF TicketInv, MovesOn, Unfinalized, Reached, AsBefore
  <2>8. Evidenced'
    <3> SUFFICES ASSUME Unopened', Done(Last - 2)' \/ Done(Last - 1)'
                 PROVE  (Done(Last - 2)' => Verified') /\ (Done(Last - 1)' => Reviewed')
      BY DEF Evidenced
    <3>1. Unfinalized
      BY <1>5, <2>3, <2>4, <2>5 DEF Unopened, Unfinalized
    <3>2. run.step # Last /\ run.step <= Last /\ run.step \in Nat
      BY <1>1, <2>3, <3>1, LastSteps, StepTypes DEF TicketInv, Assigned, MovesOn, Unfinalized, Run
    <3>3. run.step = Last - 1 \/ run.step = Last - 2
      BY <1>5, <3>2, LastSteps DEF Done
    <3>4. was.lineage = TRUE /\ was.workflow = Steps[run.step].workflow
      BY <2>3, <3>1, <3>3 DEF TicketInv, MovesOn, Assigned
    <3>5. PICK ok \in BOOLEAN : artifacts' = Harvested(w, ok)
      BY <1>7 DEF Harvest
    <3>6. CASE run.step = Last - 1
      <4>1. Verified
        <5>1. Done(Last - 2)
          BY <3>6, LastSteps DEF Done
        <5> QED BY <3>1, <5>1 DEF TicketInv, Evidenced, Unopened
      <4> QED BY <1>2, <3>4, <3>5, <3>6, <4>1, EvidenceHarvested, LastSteps
    <3>7. CASE run.step = Last - 2
      <4>1. Verified'
        BY <1>2, <3>4, <3>5, <3>7, EvidenceHarvested, LastSteps
      <4>2. ~Done(Last - 1)'
        BY <1>5, <3>2, <3>7, LastSteps DEF Done
      <4> QED BY <4>1, <4>2
    <3> QED BY <3>3, <3>6, <3>7
  <2> QED BY <2>6, <2>7, <2>8 DEF TicketInv
<1> QED BY <1>5, <1>6, <1>7

LEMMA CrashTicket ==
  ASSUME TypeOK, TicketInv, Crash \/ RecoverWorkers
  PROVE  TicketInv'
<1>1. run' = run /\ head' = head /\ artifacts' = artifacts /\ DOMAIN workers' = DOMAIN workers
  BY DEF Crash, RecoverWorkers
<1>2. ASSUME NEW w \in DOMAIN workers
      PROVE  AsBefore(workers'[w], workers[w]) /\ (Opening(workers'[w]) => Opening(workers[w]))
  <2> DEFINE was == workers[w]
             row == workers'[w]
  <2>1. was \in Worker
    BY WorkerTable DEF TypeOK
  <2> SUFFICES AsBefore(row, was) /\ (Opening(row) => Opening(was))
    OBVIOUS
  <2>2. CASE Crash
    <3>1. row = [was EXCEPT !.launch = "none", !.events = Durable(@)]
      BY <2>2 DEF Crash
    <3> HIDE DEF row
    <3> QED BY <2>1, <3>1 DEF Worker, AsBefore, Opening
  <2>3. CASE RecoverWorkers
    <3>1. row \in {was, Recreated(was), Disconnected(was), Adopted(was)}
      BY <2>3 DEF RecoverWorkers
    <3> HIDE DEF row
    <3>2. AsBefore(row, was) /\ row.launch = was.launch /\ row.turn \in {was.turn, "none"}
      <4>1. CASE row = was
        BY <4>1 DEF AsBefore
      <4>2. CASE row = Recreated(was)
        BY <2>1, <4>2 DEF Recreated, Worker, AsBefore
      <4>3. CASE row = Disconnected(was)
        BY <2>1, <4>3 DEF Disconnected, Worker, AsBefore
      <4>4. CASE row = Adopted(was)
        BY <2>1, <4>4 DEF Adopted, Worker, AsBefore
      <4> QED BY <3>1, <4>1, <4>2, <4>3, <4>4
    <3> QED BY <3>2 DEF Opening
  <2> QED BY <2>2, <2>3
<1>3. run.current # 0 => run.current \in DOMAIN workers
  BY DEF TypeOK
<1> QED BY <1>1, <1>2, <1>3, TicketKept

(* What a dispatch starts from, and what the loop of _advance_run finds. *)
Ready(r, place) ==
  r.iterations[Last] = 0 =>
    /\ place <= Last
    /\ \A i \in DOMAIN Steps : r.iterations[i] > 0 => i < place
    /\ \A m \in DOMAIN Steps : Writing(m) /\ m < place => head # 0
    /\ (Last - 2 < place => Verified) /\ (Last - 1 < place => Reviewed)

LEMMA CodeChangedNot ==
  ASSUME EndsOnEvidence, head # 0, NEW start
  PROVE  /\ ~Holds("code-changed", "full_verify", start) => Verified
         /\ ~Holds("code-changed", "independent_review", start) => Reviewed
<1>1. Current("verification") => Verified
  BY DEF Current, Behavioral, Verified
<1>2. Current("review") => Reviewed
  BY DEF Current, Behavioral, Reviewed
<1>3. ~Holds("code-changed", "full_verify", start) => Current("verification")
  BY LastDefinitions DEF Holds
<1>4. ~Holds("code-changed", "independent_review", start) => Current("review")
  BY LastDefinitions DEF Holds
<1> QED BY <1>1, <1>2, <1>3, <1>4

LEMMA NextReady ==
  ASSUME EndsOnEvidence, NEW r \in Run, NEW from \in Nat \ {0}, Ready(r, from),
         NEW next \in 1..Len(Steps) + 1, NextStep(r, from, next)
  PROVE  Ready(r, next) /\ (r.iterations[Last] # 0 => next # Last)
<1> DEFINE ahead == {j \in from..Len(Steps) : Applies(r, j)}
           repeats == {j \in DOMAIN Steps : Steps[j].max > 1 /\ Applies(r, j)}
<1>1. /\ Last \in Nat /\ Last > 3 /\ DOMAIN Steps = 1..Last /\ next \in Nat
      /\ Last = Len(Steps) /\ Last \in DOMAIN Steps
  BY LastSteps DEF Last
<1>2. \A i \in DOMAIN Steps : r.iterations[i] \in Nat /\ Steps[i].max \in Nat \ {0}
  BY StepTypes DEF Run
<1>3. \/ next \in ahead /\ \A j \in ahead : next <= j
      \/ ahead = {} /\ (next \in repeats \/ next = Len(Steps) + 1)
  BY DEF NextStep
<1>4. CASE r.iterations[Last] # 0
  <2>1. ~Applies(r, Last)
    BY <1>1, <1>2, <1>4, LastSteps DEF Applies
  <2>2. next # Last
    <3> SUFFICES ASSUME next = Last
                 PROVE  FALSE
      OBVIOUS
    <3>1. Last # Len(Steps) + 1 /\ Last \notin ahead /\ Last \notin repeats
      BY <1>1, <2>1
    <3> QED BY <1>3, <3>1
  <2> QED BY <1>4, <2>2 DEF Ready
<1>5. CASE r.iterations[Last] = 0
  <2>1. Applies(r, Last)
    <3>1. Holds("always", Steps[Last].workflow, r.headAtStart)
      BY DEF Holds
    <3> QED BY <1>5, <3>1, LastSteps DEF Applies
  <2>2. from <= Last
    BY <1>5 DEF Ready
  <2>3. Last \in ahead
    BY <1>1, <2>1, <2>2
  <2>4. next \in ahead /\ \A j \in ahead : next <= j
    BY <1>3, <2>3
  <2>5. from <= next /\ next <= Last
    BY <1>1, <2>3, <2>4
  <2>6. ASSUME NEW i \in DOMAIN Steps, i < next, ~(i < from)
        PROVE  ~Holds(Steps[i].when, Steps[i].workflow, r.headAtStart)
    <3>1. ~Applies(r, i)
      BY <1>1, <2>4, <2>6
    <3>2. r.iterations[i] = 0
      BY <1>2, <1>5, <2>6 DEF Ready
    <3> QED BY <1>2, <3>1, <3>2 DEF Applies
  <2>7. \A i \in DOMAIN Steps : r.iterations[i] > 0 => i < next
    BY <1>1, <1>5, <2>5 DEF Ready
  <2>8. ASSUME NEW m \in DOMAIN Steps, Writing(m), m < next
        PROVE  head # 0
    <3>1. Holds(Steps[m].when, Steps[m].workflow, r.headAtStart)
      BY <2>8 DEF Writing, Holds
    <3>2. m < from
      BY <2>6, <2>8, <3>1
    <3> QED BY <1>5, <2>8, <3>2 DEF Ready
  <2>9. Last - 2 < next => head # 0
    <3>1. PICK m \in DOMAIN Steps : m < Last - 2 /\ Writing(m)
      BY LastSteps
    <3> QED BY <1>1, <2>8, <3>1
  <2>10. Last - 2 < next => Verified
    <3>1. CASE Last - 2 < from
      BY <1>5, <3>1 DEF Ready
    <3>2. CASE ~(Last - 2 < from) /\ Last - 2 < next
      BY <1>1, <2>6, <2>9, <3>2, CodeChangedNot, LastSteps
    <3> QED BY <3>1, <3>2
  <2>11. Last - 1 < next => Reviewed
    <3>1. CASE Last - 1 < from
      BY <1>5, <3>1 DEF Ready
    <3>2. CASE ~(Last - 1 < from) /\ Last - 1 < next
      <4>1. Last - 1 \in DOMAIN Steps /\ Last - 2 < next
        BY <1>1, <3>2
      <4>2. ~Holds("code-changed", "independent_review", r.headAtStart)
        BY <2>6, <3>2, <4>1, LastSteps
      <4> QED BY <2>9, <4>1, <4>2, CodeChangedNot
    <3> QED BY <3>1, <3>2
  <2> QED BY <1>5, <2>5, <2>7, <2>8, <2>10, <2>11 DEF Ready
<1> QED BY <1>4, <1>5

(* The step the row stands at was dispatched, or was not. *)
Begun(r) ==
  LET row == workers'[run'.current] IN
  /\ run'.current # 0 /\ run'.step = r.step /\ run'.completed = FALSE
  /\ run'.iterations = [r.iterations EXCEPT ![r.step] = @ + 1]
  /\ Opening(row) /\ row.workflow = Steps[r.step].workflow
  /\ r.step \in {Last - 2, Last - 1} /\ head # 0 => row.writable = FALSE /\ row.lineage = TRUE
  /\ head # 0 => head' = head
  /\ Definition[Steps[r.step].workflow].mutates = TRUE => head' # 0
  /\ Headed'
Put(r) ==
  /\ run'.current = 0 /\ run'.step = r.step /\ run'.iterations = r.iterations
  /\ head' = head /\ Headed'

LEMMA BegunTicket ==
  ASSUME EndsOnEvidence, NEW r \in Run, r.step \in DOMAIN Steps, Ready(r, r.step),
         r.iterations[Last] # 0 => r.step # Last, Begun(r), artifacts' = artifacts
  PROVE  TicketInv'
<1> DEFINE next == r.step
<1>1. /\ Last \in Nat /\ Last > 3 /\ DOMAIN Steps = 1..Last /\ next \in Nat
      /\ \A i \in DOMAIN Steps : r.iterations[i] \in Nat
      /\ r.iterations = [i \in DOMAIN Steps |-> r.iterations[i]]
  BY LastSteps DEF Run
<1>2. /\ run'.step = next /\ run'.current # 0 /\ run'.completed = FALSE
      /\ run'.iterations[next] = r.iterations[next] + 1
      /\ \A i \in DOMAIN Steps : i # next => run'.iterations[i] = r.iterations[i]
  BY <1>1 DEF Begun
<1>3. Assigned'
  BY <1>1, <1>2 DEF Assigned, Begun
<1>4. ASSUME Unfinalized' PROVE next # Last /\ r.iterations[Last] = 0
  BY <1>1, <1>2, <1>4 DEF Unfinalized
<1>5. ASSUME r.iterations[Last] = 0, ~(next < Last - 2)
      PROVE  head # 0 /\ head' = head
  <2>1. PICK m \in DOMAIN Steps : m < Last - 2 /\ Writing(m)
    BY LastSteps
  <2>2. m < next
    BY <1>1, <1>5, <2>1
  <2>3. head # 0
    BY <1>5, <2>1, <2>2 DEF Ready
  <2> QED BY <2>3 DEF Begun
<1>6. MovesOn'
  <2> SUFFICES ASSUME Unfinalized'
               PROVE  /\ run'.step <= Last
                      /\ \A i \in DOMAIN Steps : run'.iterations[i] > 0 => Reached(i)'
                      /\ \A m \in DOMAIN Steps : Writing(m) /\ Reached(m)' => head' # 0
                      /\ run'.step \in {Last - 2, Last - 1} /\ run'.current # 0
                           => workers'[run'.current].writable = FALSE
                              /\ workers'[run'.current].lineage = TRUE
    BY DEF MovesOn, Writing
  <2>1. run'.step <= Last
    BY <1>1, <1>2
  <2>2. \A i \in DOMAIN Steps : run'.iterations[i] > 0 => Reached(i)'
    BY <1>2, <1>4 DEF Reached, Ready
  <2>3. ASSUME NEW m \in DOMAIN Steps, Writing(m), Reached(m)'
        PROVE  head' # 0
    <3>1. CASE m < next
      BY <1>4, <2>3, <3>1 DEF Ready, Begun
    <3>2. CASE m = next
      BY <2>3, <3>2 DEF Writing, Begun
    <3> QED BY <1>2, <2>3, <3>1, <3>2 DEF Reached
  <2>4. run'.step \in {Last - 2, Last - 1} =>
          workers'[run'.current].writable = FALSE /\ workers'[run'.current].lineage = TRUE
    BY <1>1, <1>2, <1>4, <1>5 DEF Begun
  <2> QED BY <2>1, <2>2, <2>3, <2>4
<1>7. Evidenced'
  <2> SUFFICES ASSUME Unopened'
               PROVE  (Done(Last - 2)' => Verified') /\ (Done(Last - 1)' => Reviewed')
    BY DEF Evidenced
  <2>1. r.iterations[Last] = 0
    BY <1>2, <1>4 DEF Unopened
  <2>2. (Done(Last - 2)' => Last - 2 < next) /\ (Done(Last - 1)' => Last - 1 < next)
    BY <1>2 DEF Done
  <2>3. Last - 2 < next \/ Last - 1 < next => head' = head
    BY <1>1, <1>5, <2>1
  <2> QED BY <2>1, <2>2, <2>3 DEF Ready, Verified, Reviewed
<1> QED BY <1>3, <1>6, <1>7 DEF TicketInv, Begun

LEMMA PutTicket ==
  ASSUME EndsOnEvidence, NEW r \in Run, Ready(r, r.step), Put(r), artifacts' = artifacts
  PROVE  TicketInv'
<1>1. run'.current = 0 /\ run'.step = r.step /\ run'.iterations = r.iterations /\ head' = head
  BY DEF Put
<1>2. Assigned'
  BY <1>1 DEF Assigned
<1>3. MovesOn'
  BY <1>1 DEF MovesOn, Unfinalized, Reached, Ready, Writing
<1>4. Evidenced'
  BY <1>1 DEF Evidenced, Unopened, Unfinalized, Done, Ready, Verified, Reviewed
<1> QED BY <1>2, <1>3, <1>4 DEF TicketInv, Put

LEMMA SendStepTicket ==
  ASSUME EndsOnEvidence, Rows, Counters, Headed, NEW r \in Run, r.current = 0, r.step \in DOMAIN Steps,
         NEW w \in DOMAIN workers, w \in Reusable(Steps[r.step]),
         r.step \notin {Last - 2, Last - 1}, SendStep(r, w)
  PROVE  Begun(r) \/ Put(r)
<1> DEFINE was == workers[w]
           row == [was EXCEPT !.workflow = Steps[r.step].workflow]
           chosen == [workers EXCEPT ![w] = row]
<1>1. was \in Worker /\ w \in Nat /\ w # 0 /\ was.writable \in BOOLEAN
  BY WorkerTable DEF Rows, Worker
<1>2. /\ row \in Worker /\ row.workflow = Steps[r.step].workflow /\ row.writable = was.writable
  BY <1>1, StepTypes DEF Worker
<1>3. chosen = [workers EXCEPT ![w].workflow = Steps[r.step].workflow] /\ chosen[w] = row
      /\ DOMAIN chosen = DOMAIN workers /\ \A v \in DOMAIN workers : v # w => chosen[v] = workers[v]
  OBVIOUS
<1>4. Definition[Steps[r.step].workflow].mutates = TRUE => head # 0
  BY <1>1 DEF Reusable, Headed
<1> HIDE DEF row
<1>5. ASSUME DOMAIN workers' = DOMAIN workers, workers'[w].writable = was.writable, head' = head,
             \A v \in DOMAIN workers : v # w => workers'[v] = workers[v]
      PROVE  Headed'
  BY <1>5 DEF Headed
<1>6. CASE LaneOpen(was) /\ was.pane = "ready"
  <2> DEFINE prompted == Prompted(row, dispatch + 1)
  <2>1. /\ run' = Reserved(r, w) /\ head' = head
        /\ workers' = [chosen EXCEPT ![w] = prompted]
    BY <1>3, <1>6 DEF SendStep
  <2>2. /\ run'.current = w /\ run'.completed = FALSE /\ run'.step = r.step
        /\ run'.iterations = [r.iterations EXCEPT ![r.step] = @ + 1]
    BY <1>1, <2>1 DEF Reserved, Unassigned, Run
  <2>3. prompted.turn = "pending" /\ prompted.workflow = row.workflow /\ prompted.writable = row.writable
    BY <1>2 DEF Prompted, Worker
  <2>4. /\ DOMAIN workers' = DOMAIN workers /\ workers'[w] = prompted
        /\ \A v \in DOMAIN workers : v # w => workers'[v] = workers[v]
    BY <1>3, <2>1
  <2> HIDE DEF chosen, prompted
  <2>5. Headed'
    BY <1>2, <1>5, <2>1, <2>3, <2>4
  <2>6. workers'[run'.current] = prompted /\ Opening(prompted)
    BY <2>2, <2>3, <2>4 DEF Opening
  <2> QED BY <1>1, <1>2, <1>4, <2>1, <2>2, <2>3, <2>5, <2>6 DEF Begun
<1>7. CASE ~(LaneOpen(was) /\ was.pane = "ready")
  <2> DEFINE off == [row EXCEPT !.status = "disconnected"]
  <2>1. /\ run' = [r EXCEPT !.status = "blocked"] /\ head' = head
        /\ workers' = [chosen EXCEPT ![w] = off] \/ workers' = chosen
    BY <1>3, <1>7 DEF SendStep
  <2>2. off.writable = row.writable
    BY <1>2 DEF Worker
  <2>3. /\ DOMAIN workers' = DOMAIN workers /\ workers'[w] \in {off, row}
        /\ \A v \in DOMAIN workers : v # w => workers'[v] = workers[v]
    BY <1>3, <2>1
  <2> HIDE DEF off, chosen
  <2>4. Headed'
    BY <1>2, <1>5, <2>1, <2>2, <2>3
  <2>5. run'.current = 0 /\ run'.step = r.step /\ run'.iterations = r.iterations
    BY <2>1 DEF Run
  <2> QED BY <2>1, <2>4, <2>5 DEF Put
<1> QED BY <1>6, <1>7

LEMMA LaunchStepTicket ==
  ASSUME EndsOnEvidence, Rows, Counters, Headed, NEW r \in Run, r.current = 0, r.step \in DOMAIN Steps,
         LaunchStep(r)
  PROVE  Begun(r) \/ Put(r)
<1> DEFINE workflow == Steps[r.step].workflow
           kept == Retiring(workflow)
           added == NewWorker(workflow, "run", dispatch + 1)
           mutates == Definition[workflow].mutates
<1>1. workflow \in DOMAIN Definition /\ mutates \in BOOLEAN
  BY StepTypes, DefinitionTypes
<1>2. ASSUME NEW w \in DOMAIN workers
      PROVE  kept[w] \in Worker /\ kept[w].writable = workers[w].writable
  <2>1. workers[w] \in Worker
    BY WorkerTable DEF Rows
  <2>2. kept[w] = workers[w] \/ kept[w] = Stopped(workers[w])
    BY DEF Retiring
  <2>3. Stopped(workers[w]) \in Worker /\ Stopped(workers[w]).writable = workers[w].writable
    BY <2>1, RowTypes DEF Stopped, Worker
  <2> HIDE DEF kept
  <2> QED BY <2>1, <2>2, <2>3
<1>3. /\ kept \in Seq(Worker) /\ DOMAIN kept = DOMAIN workers /\ DOMAIN kept = 1..Len(kept)
      /\ Len(kept) \in Nat
  BY <1>2, RowsRewritten, LenProperties DEF Retiring, Rows
<1> HIDE DEF kept
<1>4. CASE DuplicateWorker(kept, workflow)
  <2>1. run' = [r EXCEPT !.status = "blocked"] /\ workers' = kept /\ head' = head
    BY <1>4 DEF LaunchStep, kept
  <2>2. run'.current = 0 /\ run'.step = r.step /\ run'.iterations = r.iterations
    BY <2>1 DEF Run
  <2>3. Headed'
    BY <1>2, <1>3, <2>1 DEF Headed
  <2> QED BY <2>1, <2>2, <2>3 DEF Put
<1>5. CASE ~DuplicateWorker(kept, workflow)
  <2> DEFINE last == Len(kept) + 1
  <2>1. run' = Reserved(r, last) /\ workers' = Append(kept, added) /\ head' = HeadWith(workflow)
    BY <1>5 DEF LaunchStep, kept
  <2>2. /\ added.launch = "run" /\ added.workflow = workflow /\ added.writable = mutates
        /\ added.lineage = (mutates <=> head = 0)
    BY DEF NewWorker
  <2> HIDE DEF added
  <2>3. /\ run'.current = last /\ run'.step = r.step /\ run'.completed = FALSE
        /\ run'.iterations = [r.iterations EXCEPT ![r.step] = @ + 1] /\ last # 0
    BY <1>3, <2>1 DEF Reserved, Unassigned, Run
  <2>4. /\ DOMAIN workers' = 1..last /\ workers'[last] = added
        /\ \A v \in 1..Len(kept) : workers'[v] = kept[v]
    BY <1>3, <2>1, AppendProperties
  <2>5. IF mutates /\ head = 0 THEN head' = 1 ELSE head' = head
    BY <2>1 DEF HeadWith
  <2>6. Headed'
    <3> SUFFICES ASSUME head' = 0, NEW v \in DOMAIN workers'
                 PROVE  workers'[v].writable = FALSE
      BY DEF Headed
    <3>1. head = 0 /\ mutates = FALSE
      BY <1>1, <2>5
    <3>2. v \in DOMAIN workers \/ v = last
      BY <1>3, <2>4
    <3>3. CASE v \in DOMAIN workers
      <4>1. workers'[v].writable = workers[v].writable
        BY <1>2, <1>3, <2>4, <3>3
      <4> QED BY <3>1, <3>3, <4>1 DEF Headed
    <3> QED BY <2>2, <2>4, <3>1, <3>2, <3>3
  <2>7. r.step \in {Last - 2, Last - 1} => mutates = FALSE
    BY LastSteps, LastDefinitions
  <2>8. r.step \in {Last - 2, Last - 1} /\ head # 0 => added.writable = FALSE /\ added.lineage = TRUE
    BY <2>2, <2>7
  <2>9. workers'[run'.current] = added /\ Opening(added)
    BY <2>2, <2>3, <2>4 DEF Opening
  <2>10. (head # 0 => head' = head) /\ (mutates = TRUE => head' # 0)
    BY <2>5
  <2> QED BY <2>2, <2>3, <2>6, <2>8, <2>9, <2>10 DEF Begun
<1> QED BY <1>4, <1>5

LEMMA DispatchTicket ==
  ASSUME EndsOnEvidence, Rows, Counters, Headed, NEW r \in Run, r.current = 0,
         NEW from \in Nat \ {0}, Ready(r, from), Dispatch(r, from), artifacts' = artifacts
  PROVE  TicketInv'
<1>1. PICK next \in 1..Len(Steps) + 1 :
        /\ NextStep(r, from, next)
        /\ LET at == [r EXCEPT !.step = next]
           IN IF next > Len(Steps) THEN Stay([at EXCEPT !.status = "completed"])
              ELSE LET reuse == WorkerForStep(Steps[next])
                   IN IF ~Prerequisites(Steps[next].workflow)
                      THEN Stay([at EXCEPT !.status = "awaiting_approval"])
                      ELSE IF reuse # 0 THEN SendStep(at, reuse) ELSE LaunchStep(at)
  BY DEF Dispatch
<1> DEFINE at == [r EXCEPT !.step = next]
           reuse == WorkerForStep(Steps[next])
<1>2. at \in Run /\ at.current = 0 /\ at.step = next /\ at.iterations = r.iterations
  BY DEF Run
<1>3. next > Len(Steps) \/ next \in DOMAIN Steps
  BY StepTypes
<1>4. Ready(at, at.step) /\ (at.iterations[Last] # 0 => at.step # Last)
  BY <1>1, <1>2, NextReady DEF Ready
<1>5. ASSUME NEW status \in {"completed", "awaiting_approval"}, Stay([at EXCEPT !.status = status])
      PROVE  Put(at)
  <2>1. /\ run'.current = 0 /\ run'.step = at.step /\ run'.iterations = at.iterations
        /\ UNCHANGED <<workers, head>>
    BY <1>2, <1>5 DEF Stay, Run
  <2>2. Headed'
    BY <2>1 DEF Headed
  <2> QED BY <2>1, <2>2 DEF Put
<1> HIDE DEF at
<1>6. CASE next \in DOMAIN Steps /\ reuse # 0 /\ SendStep(at, reuse)
  <2>1. reuse \in Reusable(Steps[next])
    BY <1>6, WorkerReused DEF Rows
  <2>2. reuse \in DOMAIN workers
    BY <2>1 DEF Reusable
  <2>3. Steps[next].worker # "fresh"
    <3> SUFFICES ASSUME Steps[next].worker = "fresh"
                 PROVE  reuse = 0
      BY <1>6
    <3> QED BY Zenon DEF WorkerForStep
  <2>4. next \notin {Last - 2, Last - 1}
    BY <2>3, LastSteps
  <2> HIDE DEF reuse
  <2> QED BY <1>2, <1>4, <1>6, <2>1, <2>2, <2>4, SendStepTicket, BegunTicket, PutTicket
<1>7. CASE next \in DOMAIN Steps /\ LaunchStep(at)
  BY <1>2, <1>4, <1>7, LaunchStepTicket, BegunTicket, PutTicket
<1> QED BY <1>1, <1>2, <1>3, <1>4, <1>5, <1>6, <1>7, PutTicket DEF at

(* An advance dispatches from where the run stands, once that is done. *)
LEMMA StandsReady ==
  ASSUME EndsOnEvidence, TypeOK, TicketInv
  PROVE  /\ run.current = 0 => Ready(run, run.step)
         /\ run.current # 0 /\ run.completed = TRUE => Ready(run, run.step + 1)
<1>1. /\ Last \in Nat /\ Last > 3 /\ DOMAIN Steps = 1..Last /\ Last = Len(Steps)
      /\ run.step \in Nat /\ \A i \in DOMAIN Steps : run.iterations[i] \in Nat
  BY LastSteps DEF Last, TypeOK, Run
<1>2. CASE run.current = 0
  BY <1>1, <1>2 DEF TicketInv, MovesOn, Evidenced, Unopened, Unfinalized, Reached, Done, Ready
<1>3. CASE run.current # 0 /\ run.completed = TRUE
  <2> SUFFICES ASSUME Unfinalized
               PROVE  Ready(run, run.step + 1)
    BY <1>3 DEF Ready, Unfinalized
  <2>1. run.step \in DOMAIN Steps /\ run.step # Last
    BY <1>3 DEF TicketInv, Assigned, Unfinalized
  <2>2. run.step + 1 <= Last
    BY <1>1, <2>1
  <2>3. \A i \in 1..Last : i < run.step + 1 <=> (Reached(i) /\ Done(i))
    BY <1>1, <1>3 DEF Reached, Done
  <2>4. \A i \in 1..Last : Reached(i) <=> i < run.step + 1
    BY <1>1, <1>3 DEF Reached
  <2>5. Last - 2 \in 1..Last /\ Last - 1 \in 1..Last
    BY <1>1
  <2>6. /\ Last - 2 < run.step + 1 => Verified
        /\ Last - 1 < run.step + 1 => Reviewed
    BY <2>3, <2>5 DEF TicketInv, Evidenced, Unopened
  <2> QED BY <1>1, <2>2, <2>4, <2>6 DEF TicketInv, MovesOn, Ready
<1> QED BY <1>2, <1>3

LEMMA AdvanceTicket ==
  ASSUME EndsOnEvidence, TypeOK, TicketInv, NEW r \in Run, AdvanceFrom(r), artifacts' = artifacts,
         r.current = run.current, r.step = run.step, r.iterations = run.iterations,
         r.completed = run.completed
  PROVE  TicketInv'
<1> USE TypeParts
<1>1. ASSUME NEW status, Stay(r) \/ Stay([r EXCEPT !.status = status])
      PROVE  TicketInv'
  <2>1. /\ run'.current = run.current /\ run'.completed = run.completed /\ run'.step = run.step
        /\ run'.iterations = run.iterations /\ UNCHANGED <<workers, head>>
    BY <1>1 DEF Stay, Run
  <2>2. \A v \in DOMAIN workers : AsBefore(workers'[v], workers[v])
    BY <2>1 DEF AsBefore
  <2> QED BY <2>1, <2>2, TicketKept
<1>2. /\ Unassigned(r) \in Run /\ Unassigned(r).current = 0
      /\ Unassigned(r).iterations = r.iterations
  BY RunRowTypes DEF Unassigned, Run
<1>3. r.step \in Nat \ {0}
  BY StepTypes DEF Run
<1>4. CASE r.current = 0 /\ Dispatch(r, r.step)
  <2>1. Ready(r, r.step)
    BY <1>4, StandsReady DEF Ready
  <2> QED BY <1>3, <1>4, <2>1, DispatchTicket DEF TicketInv
<1>5. CASE r.current # 0 /\ r.completed /\ Dispatch(Unassigned(r), r.step + 1)
  <2>1. run.completed = TRUE
    BY <1>5 DEF TypeOK, Run
  <2>2. Ready(Unassigned(r), r.step + 1)
    BY <1>2, <1>5, <2>1, StandsReady DEF Ready
  <2>3. r.step + 1 \in Nat \ {0}
    BY <1>3
  <2> QED BY <1>2, <1>5, <2>2, <2>3, DispatchTicket DEF TicketInv
<1>6. \/ Stay(r) \/ Stay([r EXCEPT !.status = "awaiting_approval"])
      \/ r.current = 0 /\ Dispatch(r, r.step)
      \/ r.current # 0 /\ r.completed /\ Dispatch(Unassigned(r), r.step + 1)
  BY DEF AdvanceFrom
<1> QED BY <1>1, <1>4, <1>5, <1>6

LEMMA AdvancesTicket ==
  ASSUME EndsOnEvidence, TypeOK, AttemptInv, TicketInv,
         StartRun \/ Advance \/ ResumeRun \/ RecoverRun
  PROVE  TicketInv'
<1>1. run \in Run /\ run.intervened = FALSE /\ artifacts' = artifacts
  BY DEF TypeOK, AttemptInv, StartRun, Advance, ResumeRun, RecoverRun
<1>2. ASSUME AdvanceFrom(run) PROVE TicketInv'
  BY <1>1, <1>2, AdvanceTicket
<1>3. CASE StartRun
  <2>1. /\ FreshRun \in Run /\ FreshRun.current = 0 /\ FreshRun.status = "running"
        /\ FreshRun.step = 1 /\ \A i \in DOMAIN Steps : FreshRun.iterations[i] = 0
    BY FreshRunTypes, TypeParts DEF FreshRun
  <2>2. Dispatch(FreshRun, 1)
    BY <1>3, <2>1 DEF StartRun, AdvanceFrom
  <2>3. Ready(FreshRun, 1)
    <3>1. Last \in Nat /\ Last > 3 /\ DOMAIN Steps = 1..Last
      BY LastSteps
    <3> QED BY <2>1, <3>1 DEF Ready
  <2> QED BY <1>1, <2>1, <2>2, <2>3, DispatchTicket, TypeParts DEF TicketInv
<1>4. CASE Advance
  BY <1>2, <1>4 DEF Advance
<1>5. CASE ResumeRun
  <2>1. ~Untrusted
    <3> SUFFICES ASSUME Untrusted
                 PROVE  FALSE
      OBVIOUS
    <3>1. workers[run.current].tainted
      BY <1>1, <1>5 DEF ResumeRun, Reconcilable
    <3>2. run.current \in DOMAIN workers
      BY DEF Untrusted, TypeOK
    <3> QED BY <3>1, <3>2 DEF AttemptInv, Attempted, Orderly
  <2> DEFINE granted == run.status = "awaiting_approval" /\ run.completed
             approved == IF granted THEN run.approved \union {run.step} ELSE run.approved
             r == [run EXCEPT !.status = "running", !.approved = approved]
  <2>2. Resumed = r /\ Resumed \in Run
    BY <1>1, <2>1, ResumedTypes, TypeParts DEF Resumed
  <2>3. /\ r.current = run.current /\ r.step = run.step /\ r.iterations = run.iterations
        /\ r.completed = run.completed
    BY <1>1 DEF Run
  <2> HIDE DEF r
  <2>4. AdvanceFrom(r)
    BY <1>5, <2>2 DEF ResumeRun
  <2> QED BY <1>1, <2>2, <2>3, <2>4, AdvanceTicket
<1>6. CASE RecoverRun
  <2>1. CASE Stay(run) \/ Stay([run EXCEPT !.status = "blocked"])
    <3>1. /\ run'.current = run.current /\ run'.completed = run.completed /\ run'.step = run.step
          /\ run'.iterations = run.iterations /\ UNCHANGED <<workers, head>>
      BY <1>1, <2>1 DEF Stay, Run
    <3>2. \A v \in DOMAIN workers : AsBefore(workers'[v], workers[v])
      BY <3>1 DEF AsBefore
    <3> QED BY <1>1, <3>1, <3>2, TicketKept
  <2> QED BY <1>2, <1>6, <2>1 DEF RecoverRun
<1> QED BY <1>3, <1>4, <1>5, <1>6

LEMMA StepKeepsTicket ==
  ASSUME EndsOnEvidence, Undisturbed, "badResult" \notin Possible, TypeOK, AttemptInv, TicketInv,
         [Next]_vars
  PROVE  TicketInv'
<1>1. ASSUME UNCHANGED <<run, workers, head, artifacts>>
      PROVE  TicketInv'
  <2>1. \A v \in DOMAIN workers : AsBefore(workers'[v], workers[v])
    BY <1>1 DEF AsBefore
  <2> QED BY <1>1, <2>1, TicketKept
<1>2. CASE ControllerStep \/ Decision \/ Crash
  <2>1. CASE ApprovePlan \/ RecordDecision
    BY <1>1, <2>1 DEF ApprovePlan, RecordDecision
  <2> QED BY <1>2, <2>1, AdvancesTicket, CrashTicket DEF ControllerStep, Decision
<1>3. CASE \E workflow \in DOMAIN Definition : StartByHand(workflow)
  <2>1. used.byHand \in Nat
    BY DEF TypeOK, Allowance
  <2> QED BY <1>3, <2>1 DEF StartByHand, Undisturbed
<1>4. ASSUME NEW w \in DOMAIN workers,
             WorkerStep(w) \/ Intervention(w) \/ StartupAnswered(w) \/ Misfortune(w)
      PROVE  TicketInv'
  BY <1>4, Undisturbing, SessionsTicket, EndTicket, ApplyTicket
     DEF WorkerStep, Intervention, Misfortune
<1>5. CASE UNCHANGED vars
  BY <1>1, <1>5 DEF vars
<1> QED BY <1>2, <1>3, <1>4, <1>5 DEF Next

LEMMA TicketInitial ==
  ASSUME EndsOnEvidence, Init
  PROVE  TicketInv
<1>1. Last \in Nat /\ Last > 3 /\ DOMAIN Steps = 1..Last
  BY LastSteps
<1>2. /\ run.current = 0 /\ run.step = 1 /\ \A i \in DOMAIN Steps : run.iterations[i] = 0
      /\ head = 0 /\ DOMAIN workers = {}
  BY DEF Init, FreshRun
<1> QED BY <1>1, <1>2 DEF TicketInv, Assigned, Headed, MovesOn, Evidenced, Reached, Done

(* The turn that finalizes is the run's, at its last step. *)
LEMMA TicketHolds ==
  ASSUME EndsOnEvidence, TypeOK, AttemptInv, TicketInv
  PROVE  FinalizedOnEvidence
<1> SUFFICES ASSUME NEW w \in DOMAIN workers,
                    workers[w].workflow = "finalize_change", workers[w].turn = "pending"
             PROVE  Verified /\ Reviewed
  BY DEF FinalizedOnEvidence, Verified, Reviewed
<1>1. w = run.current /\ run.completed = FALSE /\ w # 0
  <2>1. AtWork(workers[w])
    BY DEF AtWork
  <2> QED BY <2>1, WorkerTable DEF AttemptInv, Attempted, Busy, TypeOK
<1>2. run.step = Last
  BY <1>1, LastSteps DEF TicketInv, Assigned
<1>3. Unopened
  BY <1>1, <1>2 DEF Unopened, Opening
<1>4. Done(Last - 2) /\ Done(Last - 1)
  BY <1>2, LastSteps DEF Done
<1> QED BY <1>3, <1>4 DEF TicketInv, Evidenced

(* The change is finalized only on evidence taken at the head it has, where *)
(* nobody interferes and every result is harvested, by every workflow that  *)
(* ends like complete-ticket: the condition code-changed reruns whatever    *)
(* verification a fix overtook.                                             *)
THEOREM FinalizedOnItsEvidence ==
  ASSUME EndsOnEvidence, Undisturbed, "badResult" \notin Possible
  PROVE  Spec => []FinalizedOnEvidence
<1>1. TypeOK /\ AttemptInv /\ [Next]_vars => AttemptInv'
  BY StepKeepsAttempt
<1>2. TypeOK /\ AttemptInv /\ TicketInv /\ [Next]_vars => TicketInv'
  BY StepKeepsTicket
<1>3. Init => TicketInv
  BY TicketInitial
<1>4. TypeOK /\ AttemptInv /\ TicketInv => FinalizedOnEvidence
  BY TicketHolds
<1> QED BY <1>1, <1>2, <1>3, <1>4, AttemptInitial, TypeCorrect, PTL DEF Spec
=============================================================================
