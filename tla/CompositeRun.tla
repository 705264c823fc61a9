---------------------------- MODULE CompositeRun ----------------------------
(***************************************************************************)
(* A composite run over one job: which step is dispatched to which worker, *)
(* what completes a step, and how a run pauses, resumes, is entered by a   *)
(* human and is taken up again after the board crashed.                    *)
(*                                                                         *)
(* The run row, the worker rows and the artifacts are the database.  The   *)
(* controller is one asyncio loop; everything between two suspensions is   *)
(* one action.  The only suspension inside an advance is a worker's        *)
(* launch, and the run's lock is held across it.  What one worker's lane   *)
(* does in detail is TurnLane; here a turn is sent, accepted and ended.    *)
(*                                                                         *)
(* Abstracted: an artifact is the head it was harvested at and whether it  *)
(* blocks; a head is a counter of commits; prompts, stage labels and what  *)
(* needs attention are left out, and so are stale marks set by a restack,  *)
(* failing git commands and targets given to a workflow started by hand.   *)
(***************************************************************************)
EXTENDS BuiltinWorkflows, Naturals, Sequences, FiniteSets

CONSTANTS
  Steps,        \* the composite workflow the run follows
  MaxHead,      \* bound on the commits made to the job's worktree
  MaxEntries,   \* bound on a human entering a session
  MaxSends,     \* bound on messages sent to a worker outside the run
  MaxByHand,    \* bound on workflows started beside the run
  MaxCrashes,   \* bound on controller crashes
  Possible      \* the occurrences of the outside world to reckon with

Occurrence == {
  "question",   \* a worker ends its turn by asking the user
  "error",      \* a worker's turn fails
  "badResult",  \* a result whose artifact is missing or does not validate
  "startup",    \* a launch stops at a startup prompt or fails
  "paneDies",   \* a worker's process disappears
  "stop"}       \* the user stops a worker

ASSUME RunBounds ==
  /\ MaxHead \in Nat \ {0}
  /\ {MaxEntries, MaxSends, MaxByHand, MaxCrashes} \subseteq Nat
  /\ Possible \subseteq Occurrence

StepType ==
  [workflow : DOMAIN Definition,
   when : {"always", "human-decisions", "code-changed", "verification-failed", "blocking-findings"},
   approval : {"none", "required", "only-if-decisions"},
   worker : {"fresh", "existing", "auto"}, max : Nat \ {0}]

ASSUME StepsAreWellFormed == Steps \in Seq(StepType) /\ Steps # <<>>

VARIABLES
  run,        \* the WorkflowRun row
  workers,    \* the Worker rows with their runtime and latest turn
  artifacts,  \* the latest artifact of each type: the head it was harvested at
  plan,       \* what the latest implementation contract says
  head,       \* HEAD of the authoritative worktree, 0 while there is none
  wake,       \* an advance_run task is scheduled
  phase,      \* whether the controller runs
  recreated,  \* the workers recover() had to recreate, until it has dealt with the run
  dispatch,   \* dispatches so far: names the attempt a turn was sent for
  used        \* how much of each bound is used up

vars == <<run, workers, artifacts, plan, head, wake, phase, recreated, dispatch, used>>
controller == <<phase, recreated>>

----------------------------------------------------------------------------
(* Vocabulary *)

RunStatus == {"none", "running", "awaiting_approval", "blocked", "completed"}
Paused == {"awaiting_approval", "blocked"}
WorkerStatus == {"starting", "working", "blocked", "idle", "failed", "disconnected", "stopped"}
Retired == {"stopped", "failed", "disconnected"}
ArtifactType == {"implementation_contract", "goal", "findings", "verification",
                 "smoke_verification", "review", "comment_resolutions"}
Behavioral == {"verification", "smoke_verification", "review"}
Plan == {"none", "questions", "drafted", "approved"}

(* The latest native turn of a worker. *)
TurnState == {"none", "pending", "open", "over"}
(* Its process: none, not yet past SessionStart, or at the prompt. *)
Pane == {"none", "starting", "ready"}
Event == [kind : {"result", "error", "question", "answered", "lost"}, serves : Nat]

Run == [status : RunStatus, step : 1..Len(Steps) + 1, current : Nat, completed : BOOLEAN,
        intervened : BOOLEAN, iterations : [DOMAIN Steps -> Nat],
        approved : SUBSET (1..Len(Steps) + 1), headAtStart : Nat]

Role == {Definition[workflow].role : workflow \in DOMAIN Definition}
Worker == [workflow : DOMAIN Definition, role : Role, writable : BOOLEAN, lineage : BOOLEAN,
           status : WorkerStatus, owner : {"manager", "human"}, launch : {"none", "run", "hand"},
           turn : TurnState, tainted : BOOLEAN, serves : Nat, pane : Pane,
           owes : BOOLEAN,  \* the first prompt is still to be delivered
           events : Seq(Event)]

FreshRun == [status |-> "running", step |-> 1, current |-> 0, completed |-> FALSE,
             intervened |-> FALSE, iterations |-> [i \in DOMAIN Steps |-> 0], approved |-> {},
             headAtStart |-> head]
UnassignedStillDone(r) == [r EXCEPT !.current = 0, !.intervened = FALSE]  \* mutation
Unassigned(r) == [r EXCEPT !.current = 0, !.completed = FALSE, !.intervened = FALSE]

(* _current: the artifact exists and, if it is evidence of behaviour, was   *)
(* harvested at the head the job is at now.                                 *)
CurrentOnceTaken(type) == artifacts[type].at # 0  \* mutation
Current(type) ==
  /\ artifacts[type].at # 0
  /\ type \in Behavioral => artifacts[type].at = head \/ head = 0

(* condition_holds *)
Holds(condition, workflow, start) ==
  CASE condition = "always" -> TRUE
    [] condition = "human-decisions" -> plan = "questions"
    [] condition = "blocking-findings" -> Current("review") /\ ~artifacts["review"].ok
    [] condition = "verification-failed" -> Current("verification") /\ ~artifacts["verification"].ok
    [] condition = "code-changed" ->
         IF Definition[workflow].produces = {} THEN head # 0 /\ head # start
         ELSE \E type \in Definition[workflow].produces : ~Current(type)

(* _assert_prerequisites *)
PrerequisitesExist(workflow) ==  \* mutation
  \A type \in Definition[workflow].requires : artifacts[type].at # 0
Prerequisites(workflow) ==
  LET d == Definition[workflow] IN
  /\ \A type \in d.requires : artifacts[type].at # 0
  /\ d.mutates /\ "implementation_contract" \in d.requires => plan = "approved"

(* _approval_satisfied *)
ApprovalSatisfied(r) ==
  LET step == Steps[r.step] IN
  \/ step.approval = "none"
  \/ /\ plan # "questions"
     /\ \/ step.approval = "only-if-decisions"
        \/ IF "implementation_contract" \in Definition[step.workflow].produces
           THEN plan = "approved" ELSE r.step \in r.approved

(* The loop of _advance_run: the first step from here on that applies, else *)
(* _repeat_target, else Len(Steps) + 1.                                     *)
AppliesOnceMore(r, i) ==  \* mutation
  r.iterations[i] <= Steps[i].max /\ Holds(Steps[i].when, Steps[i].workflow, r.headAtStart)
Applies(r, i) ==
  r.iterations[i] < Steps[i].max /\ Holds(Steps[i].when, Steps[i].workflow, r.headAtStart)
NextStep(r, from, next) ==
  LET ahead == {i \in from..Len(Steps) : Applies(r, i)}
      repeats == {i \in DOMAIN Steps : Steps[i].max > 1 /\ Applies(r, i)}
      candidates == IF ahead # {} THEN ahead ELSE repeats
  IN  IF candidates = {} THEN next = Len(Steps) + 1
      ELSE next \in candidates /\ \A i \in candidates : next <= i

(* _worker_for_step: the newest worker the step may reuse, 0 for a new one. *)
ReusableUntouched(step) ==  \* mutation
  LET d == Definition[step.workflow] IN
  {w \in DOMAIN workers :
     /\ workers[w].role \in d.allowed /\ workers[w].status \notin Retired
     /\ d.mutates => workers[w].writable /\ ~workers[w].tainted}
Reusable(step) ==
  LET d == Definition[step.workflow] IN
  {w \in DOMAIN workers :
     /\ workers[w].role \in d.allowed /\ workers[w].status \notin Retired
     /\ d.mutates => workers[w].writable
     /\ head # 0 => workers[w].lineage}
WorkerForStep(step) ==
  LET mode == IF step.worker # "auto" THEN step.worker ELSE Definition[step.workflow].worker
      found == Reusable(step)
  IN  IF mode = "fresh" \/ found = {} THEN 0
      ELSE CHOOSE w \in found : \A v \in found : v <= w

(* _retire_superseded: the job's earlier read-only sessions of the role.    *)
Stopped(w) == [w EXCEPT !.status = "stopped", !.pane = "none", !.events = <<>>,
                        !.launch = "none"]
Superseded(workflow, w) ==
  /\ workers[w].role = Definition[workflow].role /\ workers[w].status \notin Retired
  /\ ~workers[w].writable /\ workers[w].owner = "manager"
Retiring(workflow) ==
  [w \in DOMAIN workers |-> IF Superseded(workflow, w) THEN Stopped(workers[w]) ELSE workers[w]]

(* start_workflow's own refusal to start a second worker for a workflow.    *)
DuplicateWorker(ws, workflow) ==
  \E w \in DOMAIN ws : ws[w].workflow = workflow /\ ws[w].status \in {"starting", "working", "blocked"}

(* create_worker: a writable worker gets a worktree of its own, which is    *)
(* the job's lineage if the job has none yet; a reader is put in it.        *)
NewWorker(workflow, launch, serves) ==
  LET d == Definition[workflow] IN
  [workflow |-> workflow, role |-> d.role, writable |-> d.mutates,
   lineage |-> (d.mutates <=> head = 0), status |-> "starting", owner |-> "manager",
   launch |-> launch, turn |-> "none", tainted |-> FALSE, serves |-> serves,
   pane |-> "none", owes |-> TRUE, events |-> <<>>]
HeadWith(workflow) == IF Definition[workflow].mutates /\ head = 0 THEN 1 ELSE head

(* send_managed: the lane takes a prompt only when no turn is open. *)
LaneOpenToAnyone(w) == w.turn \in {"none", "over"}  \* mutation
LaneOpen(w) == w.owner = "manager" /\ w.turn \in {"none", "over"}
Prompted(w, serves) ==
  [w EXCEPT !.turn = "pending", !.tainted = FALSE, !.serves = serves, !.status = "working"]

(* _adopt_into_run: the step is reserved before anything is launched.       *)
Reserved(r, w) ==
  [Unassigned(r) EXCEPT !.current = w, !.status = "running", !.iterations[r.step] = @ + 1]

(* _pause_run_of *)
PausedForApproval(r, w, status) ==  \* mutation
  IF r.current = w /\ r.status = "running" /\ status = "awaiting_approval"
  THEN [r EXCEPT !.status = status] ELSE r
PausedIf(r, w, status) ==
  IF r.current = w /\ r.status = "running" THEN [r EXCEPT !.status = status] ELSE r

(* _unpause_run_of *)
Unpaused(r, w) ==
  IF r.current = w /\ r.status \in Paused THEN [r EXCEPT !.status = "running"] ELSE r

Allowance == {"entries", "sends", "byHand", "crashes"}
Use(name) == used' = [used EXCEPT ![name] = @ + 1]
LockFree == \A w \in DOMAIN workers : workers[w].launch # "run"

Init ==
  /\ head = 0
  /\ run = [FreshRun EXCEPT !.status = "none"]
  /\ workers = <<>>
  /\ artifacts = [type \in ArtifactType |-> [at |-> 0, ok |-> FALSE]]
  /\ plan = "none"
  /\ wake = FALSE /\ phase = "up" /\ recreated = {}
  /\ dispatch = 0
  /\ used = [bound \in Allowance |-> 0]

----------------------------------------------------------------------------
(* start_run, advance_run and resume_run                                    *)

(* The step is dispatched to a worker that exists: workflow, reservation    *)
(* and prompt, or, if the lane refuses, the run row as it was, blocked.     *)
SendStep(r, w) ==
  LET step == Steps[r.step]
      chosen == [workers EXCEPT ![w].workflow = step.workflow]
  IN IF LaneOpen(workers[w]) /\ workers[w].pane = "ready"
     THEN /\ run' = Reserved(r, w)
          /\ workers' = [chosen EXCEPT ![w] = Prompted(@, dispatch + 1)]
          /\ dispatch' = dispatch + 1 /\ UNCHANGED head
     ELSE /\ run' = [r EXCEPT !.status = "blocked"]
          /\ workers' = IF LaneOpen(workers[w]) /\ workers[w].pane = "none"
                        THEN [chosen EXCEPT ![w].status = "disconnected"] ELSE chosen
          /\ UNCHANGED <<head, dispatch>>

(* The step is dispatched to a new worker, whose launch begins. *)
LaunchStep(r) ==
  LET workflow == Steps[r.step].workflow
      kept == Retiring(workflow)
  IN IF DuplicateWorker(kept, workflow)
     THEN /\ run' = [r EXCEPT !.status = "blocked"]
          /\ workers' = kept
          /\ UNCHANGED <<head, dispatch>>
     ELSE /\ run' = Reserved(r, Len(kept) + 1)
          /\ workers' = Append(kept, NewWorker(workflow, "run", dispatch + 1))
          /\ head' = HeadWith(workflow)
          /\ dispatch' = dispatch + 1

Stay(r) == run' = r /\ UNCHANGED <<workers, head, dispatch>>

(* _advance_run, from a run row with no step in flight. *)
Dispatch(r, from) ==
  \E next \in 1..Len(Steps) + 1 :
    /\ NextStep(r, from, next)
    /\ LET at == [r EXCEPT !.step = next]
       IN IF next > Len(Steps) THEN Stay([at EXCEPT !.status = "completed"])
          ELSE LET reuse == WorkerForStep(Steps[next])
               IN IF ~Prerequisites(Steps[next].workflow)
                  THEN Stay([at EXCEPT !.status = "awaiting_approval"])
                  ELSE IF reuse # 0 THEN SendStep(at, reuse) ELSE LaunchStep(at)

(* _advance_run *)
AdvanceFrom(r) ==
  IF r.status # "running" \/ (r.current # 0 /\ ~r.completed) THEN Stay(r)
  ELSE IF r.current = 0 THEN Dispatch(r, r.step)
  ELSE IF ~ApprovalSatisfied(r) THEN Stay([r EXCEPT !.status = "awaiting_approval"])
  ELSE Dispatch(Unassigned(r), r.step + 1)

(* A scheduled advance_run gets the lock. *)
Advance ==
  /\ phase # "down" /\ wake /\ LockFree
  /\ wake' = FALSE
  /\ AdvanceFrom(run)
  /\ UNCHANGED <<artifacts, plan, controller, used>>

StartRun ==
  /\ phase = "up" /\ run.status = "none"
  /\ AdvanceFrom(FreshRun)
  /\ UNCHANGED <<artifacts, plan, wake, controller, used>>

(* _resume_run: a tainted step is replayed and its iteration given back; an *)
(* incomplete one that nobody touched is refused; approval is recorded.     *)
Untrusted == run.current # 0 /\ (~run.completed \/ run.intervened)
Reconcilable ==
  /\ workers[run.current].owner = "manager"
  /\ run.intervened \/ workers[run.current].tainted
Refunded(r) == [r EXCEPT !.iterations[r.step] = IF @ = 0 THEN 0 ELSE @ - 1]
ResumedPast ==  \* mutation
  LET base == IF Untrusted THEN Unassigned([Refunded(run) EXCEPT !.step = @ + 1]) ELSE run
  IN [base EXCEPT !.status = "running"]
Resumed ==
  LET base == IF Untrusted THEN Unassigned(Refunded(run)) ELSE run
      granted == run.status = "awaiting_approval" /\ run.completed
  IN [base EXCEPT !.status = "running",
                  !.approved = IF granted THEN @ \union {run.step} ELSE @]

ResumeRun ==
  /\ phase = "up" /\ LockFree /\ run.status \in Paused
  /\ Untrusted => Reconcilable
  /\ AdvanceFrom(Resumed)
  /\ UNCHANGED <<artifacts, plan, wake, controller, used>>

(* approve_plan; the run it was awaited by is resumed by a task of its own, *)
(* which is ResumeRun.                                                      *)
ApprovePlan ==
  /\ phase = "up" /\ plan = "drafted"
  /\ plan' = "approved"
  /\ UNCHANGED <<run, workers, artifacts, head, wake, controller, dispatch, used>>

(* record_decision, until no blocking decision is left. *)
RecordDecision ==
  /\ phase = "up" /\ plan = "questions"
  /\ plan' = "drafted"
  /\ UNCHANGED <<run, workers, artifacts, head, wake, controller, dispatch, used>>

----------------------------------------------------------------------------
(* create_worker -> _start_backend: the launch that was begun               *)

Launching(w) == phase # "down" /\ workers[w].launch # "none"
SetWorker(w, row) == workers' = [workers EXCEPT ![w] = row]

(* The tmux session exists before SessionStart: a human may enter it. *)
LaunchAppears(w) ==
  /\ Launching(w) /\ workers[w].pane = "none"
  /\ SetWorker(w, [workers[w] EXCEPT !.pane = "starting"])
  /\ UNCHANGED <<run, artifacts, plan, head, wake, controller, dispatch, used>>

(* SessionStart comes and the first prompt is sent; after a slow start it   *)
(* is sent by resume_startup, whose send puts a paused run back in flight.  *)
LaunchReady(w) ==
  /\ Launching(w) /\ workers[w].pane # "none" /\ LaneOpen(workers[w])
  /\ SetWorker(w, [Prompted(workers[w], workers[w].serves) EXCEPT
                      !.launch = "none", !.pane = "ready", !.owes = FALSE])
  /\ run' \in {run} \union (IF "startup" \in Possible THEN {Unpaused(run, w)} ELSE {})
  /\ UNCHANGED <<artifacts, plan, head, wake, controller, dispatch, used>>

(* SessionStart did not come, or the prompt could not be sent: the run      *)
(* keeps the worker, forgets who entered it, and is blocked.                *)
LaunchStalls(w) ==
  /\ Launching(w)
  /\ "startup" \in Possible \/ ~LaneOpen(workers[w])
  /\ \E pane \in {"none", "starting", "ready"} :
       /\ pane = "none" => workers[w].owner = "manager" /\ workers[w].turn = "none"
       /\ pane = "ready" => ~LaneOpen(workers[w])
       /\ SetWorker(w, [workers[w] EXCEPT !.launch = "none", !.pane = pane,
                           !.status = IF pane = "none" THEN "failed" ELSE "blocked"])
  /\ run' = IF workers[w].launch = "run"
            THEN [Unassigned(run) EXCEPT !.current = w, !.status = "blocked"] ELSE run
  /\ UNCHANGED <<artifacts, plan, head, wake, controller, dispatch, used>>

(* start_workflow beside the run, without a target: it counts as the step   *)
(* the run stands at if the run has no worker there.                        *)
AdoptsAnyway(workflow) ==  \* mutation
  /\ run.status \in Paused \union {"running"}
  /\ run.step <= Len(Steps) /\ Steps[run.step].workflow = workflow
Adopts(workflow) ==
  /\ run.status \in Paused \union {"running"} /\ run.current = 0
  /\ run.step <= Len(Steps) /\ Steps[run.step].workflow = workflow

StartByHand(workflow) ==
  /\ phase = "up" /\ used.byHand < MaxByHand
  /\ Prerequisites(workflow) /\ ~DuplicateWorker(workers, workflow)
  /\ LET adopts == Adopts(workflow) IN
       /\ run' = IF adopts THEN Reserved(run, Len(workers) + 1) ELSE run
       /\ workers' = Append(workers, NewWorker(workflow, "hand", IF adopts THEN dispatch + 1 ELSE 0))
       /\ dispatch' = IF adopts THEN dispatch + 1 ELSE dispatch
  /\ head' = HeadWith(workflow)
  /\ Use("byHand")
  /\ UNCHANGED <<artifacts, plan, wake, controller>>

----------------------------------------------------------------------------
(* The workers' Claude processes, whether or not the controller runs        *)

(* UserPromptSubmit binds the prompt that was sent. *)
ClaudeAccepts(w) ==
  /\ workers[w].pane = "ready" /\ workers[w].turn = "pending"
  /\ SetWorker(w, [workers[w] EXCEPT !.turn = "open"])
  /\ UNCHANGED <<run, artifacts, plan, head, wake, controller, dispatch, used>>

Endings == {"result"} \union (Possible \cap {"error"})
             \union (IF "question" \in Possible THEN {"question", "answered"} ELSE {})
Edited(w) == IF workers[w].writable /\ workers[w].lineage THEN {head, head + 1} ELSE {head}

(* Stop or StopFailure: the hook event of an untainted turn is for the      *)
(* workflow, that of a tainted one is not.                                  *)
ClaudeEnds(w) ==
  /\ workers[w].pane = "ready" /\ workers[w].turn = "open"
  /\ \E kind \in Endings :
       SetWorker(w, [workers[w] EXCEPT
         !.turn = "over",
         !.events = IF workers[w].tainted THEN @
                    ELSE Append(@, [kind |-> kind, serves |-> workers[w].serves])])
  /\ head' \in {h \in Edited(w) : h <= MaxHead}
  /\ UNCHANGED <<run, artifacts, plan, wake, controller, dispatch, used>>

(* The process is gone; _watch reports it unless the controller is down.    *)
PaneDies(w) ==
  /\ "paneDies" \in Possible /\ workers[w].pane # "none" /\ workers[w].launch = "none"
  /\ SetWorker(w, [workers[w] EXCEPT
       !.pane = "none",
       !.events = IF phase = "down" THEN @ ELSE Append(@, [kind |-> "lost", serves |-> 0])])
  /\ UNCHANGED <<run, artifacts, plan, head, wake, controller, dispatch, used>>

----------------------------------------------------------------------------
(* _apply: one event of a worker takes effect                               *)

(* What a turn's JSON block stores: _harvest_artifact at the worker's head. *)
WorkerHead(w) == IF workers[w].lineage THEN head ELSE MaxHead + 1
Harvested(w, ok) ==
  [type \in ArtifactType |->
     IF type \in Definition[workers[w].workflow].produces
     THEN [at |-> WorkerHead(w), ok |-> ok \/ type \notin {"verification", "review"}]
     ELSE artifacts[type]]
(* _store_plan keeps what the block says of decisions and of approval. *)
PlanWritten(w) ==
  IF "implementation_contract" \in Definition[workers[w].workflow].produces
  THEN {"questions", "drafted", "approved"} ELSE {plan}
Harvest(w) ==
  \E ok \in BOOLEAN : artifacts' = Harvested(w, ok) /\ plan' \in PlanWritten(w)
HarvestNothing == UNCHANGED <<artifacts, plan>>

(* _complete_run_step *)
Completed(r, w) ==
  IF r.current = w /\ r.status = "running" THEN [r EXCEPT !.completed = TRUE] ELSE r
(* _schedule_run_advance *)
Schedules(w) == run.current = w /\ run.status = "running" /\ ~run.intervened

(* assert_worker_transition, for the statuses an event asks for. *)
MayBecome(status, target) == status \notin Retired \/ status = target
ConsumedTwice(w, status) == [workers[w] EXCEPT !.status = status]  \* mutation
Consumed(w, status) == [workers[w] EXCEPT !.events = Tail(@), !.status = status]

ApplyTo(w, event, status) ==
  IF ~MayBecome(workers[w].status, status)
  THEN SetWorker(w, Consumed(w, workers[w].status)) /\ HarvestNothing /\ UNCHANGED <<run, wake>>
  ELSE /\ SetWorker(w, Consumed(w, status))
       /\ CASE event.kind = "result" ->
                 /\ Harvest(w) \/ ("badResult" \in Possible /\ HarvestNothing)
                 /\ run' = Completed(run, w)
                 /\ wake' = (wake \/ Schedules(w))
            [] event.kind = "answered" ->
                 Harvest(w) /\ run' = PausedIf(Completed(run, w), w, "awaiting_approval")
                 /\ UNCHANGED wake
            [] event.kind = "question" ->
                 HarvestNothing /\ run' = PausedIf(run, w, "awaiting_approval") /\ UNCHANGED wake
            [] OTHER ->
                 HarvestNothing /\ run' = PausedIf(run, w, "blocked") /\ UNCHANGED wake

StatusKeptByKind(kind) == IF kind = "result" THEN "idle" ELSE kind  \* mutation
StatusAfter(kind) ==
  CASE kind = "result" -> "idle" [] kind \in {"question", "answered"} -> "blocked" [] OTHER -> "failed"

ApplyEvent(w) ==
  /\ phase # "down" /\ workers[w].launch = "none" /\ workers[w].events # <<>>
  /\ LET event == Head(workers[w].events) IN ApplyTo(w, event, StatusAfter(event.kind))
  /\ UNCHANGED <<head, controller, dispatch, used>>

(* The artifact does not validate: the transaction is rolled back, _pump    *)
(* logs it, and the hook event is marked delivered all the same.            *)
ApplyFails(w) ==
  /\ "badResult" \in Possible
  /\ phase # "down" /\ workers[w].launch = "none" /\ workers[w].events # <<>>
  /\ Head(workers[w].events).kind \in {"result", "answered"}
  /\ SetWorker(w, Consumed(w, workers[w].status))
  /\ UNCHANGED <<run, artifacts, plan, head, wake, controller, dispatch, used>>

----------------------------------------------------------------------------
(* The user: entering and leaving sessions, messages, stopping a worker     *)

(* attach taints the worker's turn and the run, and pauses a moving run. *)
Attach(w) ==
  /\ phase = "up" /\ used.entries < MaxEntries
  /\ workers[w].pane # "none" /\ workers[w].owner = "manager"
  /\ SetWorker(w, [workers[w] EXCEPT !.owner = "human",
                      !.tainted = @ \/ workers[w].turn \in {"pending", "open"}])
  /\ run' = IF run.current = w THEN [PausedIf(run, w, "blocked") EXCEPT !.intervened = TRUE] ELSE run
  /\ Use("entries")
  /\ UNCHANGED <<artifacts, plan, head, wake, controller, dispatch>>

HumanEdits(w) ==
  /\ workers[w].owner = "human" /\ workers[w].pane = "ready"
  /\ head + 1 \in Edited(w) /\ head < MaxHead
  /\ head' = head + 1
  /\ UNCHANGED <<run, workers, artifacts, plan, wake, controller, dispatch, used>>

(* The startup prompt is answered, in the session or from the board. *)
StartupAnswered(w) ==
  /\ workers[w].pane = "starting" /\ workers[w].launch = "none"
  /\ SetWorker(w, [workers[w] EXCEPT !.pane = "ready"])
  /\ UNCHANGED <<run, artifacts, plan, head, wake, controller, dispatch, used>>

(* detach: a prompt nobody accepted is written off, a block the human       *)
(* answered is lifted, the run stays as it is.                              *)
HandedBack(w) ==
  [w EXCEPT !.owner = "manager",
            !.turn = IF @ = "pending" THEN "over" ELSE @,
            !.status = IF @ = "blocked" /\ w.pane = "ready" THEN "idle" ELSE @]

(* Leaving a session: detach, then resume_startup delivers a first prompt   *)
(* that is still owed, if the lane takes it.                                *)
Detach(w) ==
  /\ phase = "up" /\ workers[w].owner = "human"
  /\ LET back == HandedBack(workers[w])
     IN IF back.owes /\ back.pane = "ready" /\ LaneOpen(back)
        THEN /\ SetWorker(w, [Prompted(back, back.serves) EXCEPT !.owes = FALSE])
             /\ run' = Unpaused(run, w)
        ELSE SetWorker(w, back) /\ UNCHANGED run
  /\ UNCHANGED <<artifacts, plan, head, wake, controller, dispatch, used>>

(* send: a message from the user or the manager, which belongs to the       *)
(* attempt the run has this worker for, while that is incomplete.           *)
Send(w) ==
  /\ phase = "up" /\ used.sends < MaxSends
  /\ workers[w].status \notin {"stopped", "disconnected"} /\ LaneOpen(workers[w])
  /\ workers[w].pane # "starting"
  /\ IF workers[w].pane = "ready"
     THEN /\ SetWorker(w, Prompted(workers[w], IF run.current = w /\ ~run.completed THEN dispatch ELSE 0))
          /\ run' = Unpaused(run, w)
     ELSE SetWorker(w, [workers[w] EXCEPT !.status = "disconnected"]) /\ UNCHANGED run
  /\ Use("sends")
  /\ UNCHANGED <<artifacts, plan, head, wake, controller, dispatch>>

StopWorker(w) ==
  /\ "stop" \in Possible /\ phase = "up"
  /\ workers[w].status # "stopped" /\ workers[w].launch = "none"
  /\ SetWorker(w, Stopped(workers[w]))
  /\ UNCHANGED <<run, artifacts, plan, head, wake, controller, dispatch, used>>

----------------------------------------------------------------------------
(* A crash of the controller, and recover()                                 *)

(* Hook events are in the database; the report of a lost pane, after which  *)
(* nothing more can come from it, is not.                                   *)
Durable(events) ==
  IF events # <<>> /\ events[Len(events)].kind = "lost"
  THEN SubSeq(events, 1, Len(events) - 1) ELSE events
Crash ==
  /\ phase # "down" /\ used.crashes < MaxCrashes
  /\ phase' = "down" /\ wake' = FALSE /\ recreated' = {}
  /\ workers' = [w \in DOMAIN workers |->
       [workers[w] EXCEPT !.launch = "none", !.events = Durable(@)]]
  /\ Use("crashes")
  /\ UNCHANGED <<run, artifacts, plan, head, dispatch>>

Adopted(w) ==
  [w EXCEPT !.status = IF w.turn = "open" THEN "working" ELSE "idle"]
Disconnected(w) == [w EXCEPT !.status = "disconnected", !.events = <<>>]
Recreated(w) ==
  [w EXCEPT !.status = "idle", !.pane = "ready", !.turn = "none", !.tainted = FALSE,
            !.serves = 0, !.events = <<>>]

(* The workers part of recover(): adopt what lives, recreate what the       *)
(* manager owned, disconnect what cannot be recreated.                      *)
RecoverWorkers ==
  /\ phase = "down"
  /\ phase' = "recovering"
  /\ LET kept == {w \in DOMAIN workers : workers[w].status # "stopped"}
         gone == {w \in kept : workers[w].pane = "none"}
         owned == {w \in gone : workers[w].owner = "manager"}
     IN \E failed \in IF "startup" \in Possible THEN SUBSET owned ELSE {{}} :
          /\ recreated' = owned \ failed
          /\ workers' = [w \in DOMAIN workers |->
               CASE w \notin kept -> workers[w]
                 [] w \in recreated' -> Recreated(workers[w])
                 [] w \in gone \ recreated' -> Disconnected(workers[w])
                 [] OTHER -> Adopted(workers[w])]
  /\ UNCHANGED <<run, artifacts, plan, head, wake, dispatch, used>>

(* The runs part: an incomplete step whose runtime is new, or whose prompt  *)
(* may not have arrived, is blocked; one that is done is advanced.          *)
Incomplete == run.current # 0 /\ ~run.completed
Doubtful ==
  /\ Incomplete
  /\ \/ run.current \in recreated
     \/ workers[run.current].pane = "ready" /\ workers[run.current].turn = "pending"
RecoverRun ==
  /\ phase = "recovering" /\ phase' = "up" /\ recreated' = {}
  /\ IF run.status # "running" THEN Stay(run)
     ELSE IF Doubtful THEN Stay([run EXCEPT !.status = "blocked"])
     ELSE IF Incomplete THEN Stay(run)
     ELSE LockFree /\ AdvanceFrom(run)
  /\ UNCHANGED <<artifacts, plan, wake, used>>

----------------------------------------------------------------------------
(* The specification *)

ControllerStep == StartRun \/ Advance \/ RecoverWorkers \/ RecoverRun
WorkerStep(w) ==
  LaunchAppears(w) \/ LaunchReady(w) \/ ClaudeAccepts(w) \/ ClaudeEnds(w) \/ ApplyEvent(w)
Decision == ResumeRun \/ ApprovePlan \/ RecordDecision
Intervention(w) == Attach(w) \/ HumanEdits(w) \/ Detach(w) \/ Send(w) \/ StopWorker(w)
Misfortune(w) == LaunchStalls(w) \/ PaneDies(w) \/ ApplyFails(w)

Next ==
  \/ ControllerStep
  \/ Decision
  \/ Crash
  \/ \E workflow \in DOMAIN Definition : StartByHand(workflow)
  \/ \E w \in DOMAIN workers :
       WorkerStep(w) \/ Intervention(w) \/ StartupAnswered(w) \/ Misfortune(w)

Spec == Init /\ [][Next]_vars

(* The controller's tasks run, Claude answers what it is sent, and the user *)
(* decides what the run waits for and hands back what was entered.          *)
(* MaxWorkers bounds only the quantifier: no instance makes as many.        *)
MaxWorkers == 12
Fairness ==
  /\ WF_vars(ControllerStep) /\ WF_vars(Decision)
  /\ \A w \in 1..MaxWorkers :
       /\ WF_vars(w \in DOMAIN workers /\ LaunchAppears(w))
       /\ WF_vars(w \in DOMAIN workers /\ (LaunchReady(w) \/ LaunchStalls(w)))
       /\ WF_vars(w \in DOMAIN workers /\ (ClaudeAccepts(w) \/ ClaudeEnds(w)))
       /\ WF_vars(w \in DOMAIN workers /\ (ApplyEvent(w) \/ ApplyFails(w)))
       /\ WF_vars(w \in DOMAIN workers /\ (Detach(w) \/ StartupAnswered(w)))
FairSpec == Spec /\ Fairness

----------------------------------------------------------------------------
(* Properties *)

(* Every row keeps to its type, and the run's current worker exists.        *)
TypeOK ==
  /\ run \in Run /\ run.current \in {0} \union DOMAIN workers
  /\ workers \in Seq(Worker)
  /\ artifacts \in [ArtifactType -> [at : 0..MaxHead + 1, ok : BOOLEAN]]
  /\ plan \in Plan
  /\ head \in 0..MaxHead
  /\ wake \in BOOLEAN
  /\ phase \in {"up", "down", "recovering"} /\ recreated \subseteq DOMAIN workers
  /\ dispatch \in Nat
  /\ used \in [Allowance -> Nat]

(* max_iterations is kept whatever is resumed, replayed, adopted from a     *)
(* workflow started by hand, or recovered: resume_run gives an iteration    *)
(* back, and the dispatch that follows takes it again.                      *)
BoundedIterations == \A i \in DOMAIN Steps : run.iterations[i] <= Steps[i].max

(* The run never moves past an unconditional step it has not dispatched:    *)
(* replays after a human entered (_resume_run) do not lose the step.        *)
NoStepSkipped ==
  \A i \in DOMAIN Steps : i < run.step /\ Steps[i].when = "always" => run.iterations[i] > 0

(* A session that works, or is being launched to work, for the run. *)
Serving(w) ==
  /\ workers[w].serves # 0 /\ workers[w].status \notin Retired
  /\ workers[w].turn \in {"pending", "open"} \/ workers[w].launch = "run"
(* No two sessions work for the run at once: neither an advance that races  *)
(* a launch, nor a resume, nor recover() dispatches the step a second time. *)
OneAttempt == \A v, w \in DOMAIN workers : Serving(v) /\ Serving(w) => v = w

(* While a human holds the session of the current step the run waits:       *)
(* attach pauses it, and neither resume_run, a late hook event nor recover  *)
(* puts it back in flight before the session is handed back.                *)
HumanPausesRun ==
  run.status = "running" /\ run.current # 0 => workers[run.current].owner = "manager"

(* A step is completed only by the turn that was sent for this attempt:     *)
(* crashes, dead sessions and retries never apply the result of an earlier  *)
(* one. (A message to a reused worker can: _complete_run_step compares the  *)
(* worker, not the turn.)                                                   *)
CompletedByItsOwnTurn ==
  [][\A w \in DOMAIN workers : ApplyEvent(w) /\ ~run.completed /\ run'.completed
       => Head(workers[w].events).serves = dispatch]_vars

(* A step that writes code runs in the job's authoritative worktree, through *)
(* entries, replays and crashes (_worker_for_step). (Not after its          *)
(* implementer failed: the replay's new worker gets a worktree of its own;  *)
(* and a workflow started beside the run may hold the lineage.)             *)
CodeStepsOwnLineage ==
  used.byHand = 0 /\ run.current # 0 /\ Definition[Steps[run.step].workflow].mutates => workers[run.current].lineage

(* The change is finalized only on evidence taken at the head it has: the   *)
(* condition code-changed reruns whatever verification a fix overtook.      *)
FinalizedOnEvidence ==
  \A w \in DOMAIN workers : workers[w].workflow = "finalize_change" /\ workers[w].turn = "pending"
    => artifacts["verification"].at = head /\ artifacts["review"].at = head

(* Work that writes code under a contract is begun with the plan approved:  *)
(* _assert_prerequisites holds for runs, replays and starts by hand alike.  *)
ApprovedPlanFirst ==
  [][\A w \in DOMAIN workers' :
       /\ w \notin DOMAIN workers
       /\ "implementation_contract" \in Definition[workers'[w].workflow].requires
       => plan = "approved"]_vars

(* A running run completes or pauses: a question, a failed turn, a launch   *)
(* that stalls or a dead process never leaves it running with nobody at     *)
(* work (_pause_run, "which is the one failure an operator replacement      *)
(* must not have").                                                         *)
RunSettles == run.status = "running" ~> run.status # "running"

----------------------------------------------------------------------------
(* What the documentation says, and the code does not keep                  *)

(* complete-ticket promises fixes "and re-verification until it is ready":  *)
(* a run that ended after a repeated fix has verified what it ends with.    *)
(* The verification step's own bound is spent by then (_repeat_target).     *)
RunVerifiesItsFixes ==
  run.status = "completed" /\ (\E i \in DOMAIN Steps : run.iterations[i] > 1)
  => Current("verification")

(* A run in flight whose step is completed moves on or stops. A message     *)
(* put the run back in flight but left human_intervened on it, so           *)
(* _schedule_run_advance does nothing and resume_run has nothing to resume. *)
CompletedStepAdvances ==
  run.status = "running" /\ run.completed /\ phase = "up" ~> run.status # "running" \/ ~run.completed

(* "Loss of an incomplete runtime blocks": a run whose worker is stopped    *)
(* or lost in the middle of a step does not go on being shown as running.   *)
(* stop_worker does not touch the run.                                      *)
LostStepBlocks ==
  run.status = "running" /\ run.current # 0 /\ ~run.completed /\ workers[run.current].status \in Retired
  ~> run.status # "running" \/ workers[run.current].status \notin Retired

(* The plan becomes approved by approve_plan and by nothing else.           *)
(* _store_plan keeps an "approved": true that the planner wrote itself.     *)
PlanApprovedByUser == [][plan' = "approved" => plan = "approved" \/ ApprovePlan]_vars
=============================================================================
