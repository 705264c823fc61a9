------------------------------ MODULE TurnLane ------------------------------
(***************************************************************************)
(* The input lane of one native worker generation: who may type into the   *)
(* Claude pane, which turn owns the lane, and how the lifecycle hooks that *)
(* Claude's own processes write become worker events exactly once.         *)
(*                                                                         *)
(* Four actors share the rows of one SQLite database:                      *)
(*  - the controller, one asyncio loop.  An operation is one action unless *)
(*    it makes a tmux round trip; ctl.at says which round trip it is in,   *)
(*    and while it is not "idle" nothing else of the loop runs;            *)
(*  - a command hook, a process of its own that Claude waits for.  It      *)
(*    reads the rows when it starts and writes them back whole, one commit *)
(*    at a time;                                                           *)
(*  - Claude and its tmux pane (not under src/, marked external);          *)
(*  - a human whose terminal may be attached to the pane.                  *)
(***************************************************************************)
EXTENDS Naturals, Sequences, FiniteSets

CONSTANTS
  MaxManaged,     \* bound on the turns Switchboard reserves
  MaxPrompts,     \* bound on the prompts Claude has been given or accepted
  MaxHooks,       \* bound on hook events before Claude stops calling tools
  MaxCrashes,     \* bound on controller crashes
  MaxHookDeaths,  \* bound on hook processes that die half way
  Stops,          \* the ways Claude may end a turn in this instance
  Possible        \* the occurrences of the outside world to reckon with

Occurrence == {
  "enter",      \* a human enters the session from the board
  "otherClient",\* a terminal other than the board's attaches to the pane
  "recall",     \* a managed prompt is sent again from the pane's history
  "interrupt",  \* the user interrupts the worker from the board
  "exit",       \* the Claude process ends
  "badResult"}  \* applying a result raises (a malformed artifact)

ASSUME LaneBounds ==
  /\ {MaxManaged, MaxPrompts, MaxHooks, MaxCrashes, MaxHookDeaths} \subseteq Nat
  /\ Stops \subseteq {"Stop", "StopBlocked", "StopFailure"}
  /\ Possible \subseteq Occurrence

VARIABLES
  proc,       \* RuntimeInstance.process_state
  owner,      \* RuntimeInstance.owner
  turns,      \* the native_turns rows, in order of creation
  latest,     \* the turn saved last: list_native_turns(...)[-1]
  hooks,      \* the runtime_hook_events rows
  delivered,  \* events with a row in worker_hook_deliveries
  applied,    \* events whose effects committed, in order (transcript rows)
  worker,     \* Worker.status
  paneOwner,  \* the @switchboard_owner option of the tmux session
  pane,       \* "alive", "dead" (process exited, pane kept) or "gone"
  attached,   \* a tmux client is attached to the session
  composer,   \* prompts submitted to the pane that Claude has not taken yet
  claude,     \* what Claude is doing
  prompt,     \* the last prompt id Claude assigned
  ended,      \* prompt ids whose turn Claude reported as stopped
  hook,       \* the command hook that is running
  ctl,        \* the controller's position inside an operation
  watch,      \* _watch is running
  pump,       \* _pump is running: "up", "dead" after an exception, or "off"
  outbox,     \* _NativeSession.outbox
  inflight,   \* _NativeSession.inflight
  crashes,    \* controller crashes so far
  deaths      \* hook processes that died so far

rows == <<proc, owner, turns, latest, hooks, delivered, applied, worker>>
external == <<paneOwner, pane, attached, composer, claude, prompt, ended>>
session == <<watch, pump, outbox, inflight>>
faults == <<crashes, deaths>>
vars == <<rows, external, hook, ctl, session, faults>>

----------------------------------------------------------------------------
(* Vocabulary *)

ProcessState == {"absent", "starting", "ready", "turn_active", "waiting",
                 "turn_complete", "exited"}
Owner == {"manager", "human"}
ActiveStatus == {"active", "waiting_permission", "interrupt_requested"}
OpenStatus == ActiveStatus \union {"pending"}
DoneStatus == {"completed", "failed", "interrupted"}
WorkerStatus == {"working", "blocked", "idle", "failed", "disconnected",
                 "stopped"}
StopEvent == {"Stop", "StopBlocked", "StopFailure"}
HookName == StopEvent \union {"SessionStart", "UserPromptSubmit", "PreToolUse",
             "PostToolUse", "PermissionRequest", "SessionEnd"}
EventKind == {"session", "tool", "permission", "result", "error", "blocked",
              "failed", "stopped"}
TurnRow == [origin : {"managed", "human"},
            status : OpenStatus \union DoneStatus,
            prompt : Nat, human : BOOLEAN]

ManagedRow == [origin |-> "managed", status |-> "pending", prompt |-> 0,
               human |-> FALSE]
HumanRow(p) == [origin |-> "human", status |-> "active", prompt |-> p,
                human |-> FALSE]

OpenTurns == {t \in DOMAIN turns : turns[t].status \in OpenStatus}
Terminal(t) == t \in DOMAIN turns /\ turns[t].status \in DoneStatus

(* _worker_event: only a managed turn no human touched speaks for the run. *)
ManagedByOrigin(t) == t \in DOMAIN turns /\ turns[t].origin = "managed"  \* mutation
Managed(t) == t \in DOMAIN turns /\ turns[t].origin = "managed" /\ ~turns[t].human

(* The unique index idx_native_turn_one_open refuses a second open turn.   *)
MaySave(t, row) == row.status \in OpenStatus => OpenTurns \subseteq {t}

(* active_native_turn(runtime, prompt_id): the turn a later hook is about. *)
ActiveTurnOfAnyPrompt(p) ==  \* mutation: the prompt id is not compared
  LET found == {t \in DOMAIN turns : turns[t].status \in ActiveStatus}
  IN  IF found = {} THEN 0 ELSE CHOOSE t \in found : TRUE
LatestTurn(p) == latest  \* mutation: neither the prompt id nor the status is
ActiveTurn(p) ==
  LET found == {t \in DOMAIN turns : /\ turns[t].prompt = p
                                     /\ turns[t].status \in ActiveStatus}
  IN  IF found = {} THEN 0 ELSE CHOOSE t \in found : TRUE

AwaitsPermission(t) == Managed(t) /\ turns[t].status = "waiting_permission"

(* ALLOWED_WORKER_TRANSITIONS; staying put is always allowed. *)
Permitted(from, to) ==
  \/ from = to
  \/ to = "stopped"
  \/ from # "stopped" /\ to = "working"
  \/ from \in {"working", "blocked", "idle"}

NoHook == [at |-> "none", name |-> "SessionStart", turn |-> 0, fresh |-> FALSE,
           row |-> ManagedRow, proc |-> "absent", owner |-> "manager"]
At(where, t) == [at |-> where, turn |-> t]
Idle == At("idle", 0)
ControllerAt == {"idle", "paste", "interruptSaved", "claimTmux", "claimOwner",
                 "inside", "releaseTmux", "releaseOwner", "returnTmux",
                 "returnOwner", "down", "retired"}

(***************************************************************************)
(* A generation that has just been launched: SessionStart was recorded,    *)
(* the watcher and the pump run, and no prompt has been sent yet.          *)
(***************************************************************************)
Init ==
  /\ proc = "ready" /\ owner = "manager"
  /\ turns = <<>> /\ latest = 0
  /\ hooks = <<[name |-> "SessionStart", turn |-> 0]>>
  /\ delivered = {} /\ applied = <<>>
  /\ worker = "working"
  /\ paneOwner = "manager" /\ pane = "alive" /\ attached = FALSE
  /\ composer = <<>> /\ claude = "idle" /\ prompt = 0 /\ ended = {}
  /\ hook = NoHook
  /\ ctl = Idle
  /\ watch = TRUE /\ pump = "up" /\ outbox = <<>> /\ inflight = {}
  /\ crashes = 0 /\ deaths = 0

----------------------------------------------------------------------------
(* SessionManager.send -> NativeClaudeBackend.send -> send_managed          *)

(* _reconcile_completed_lane: acknowledge the latest turn if it is over.    *)
Reconciled(mayAck) ==
  IF mayAck /\ proc \in {"waiting", "turn_complete"} /\ Terminal(latest)
  THEN "ready" ELSE proc

(* SessionManager.send's own refusals, before anything is touched. *)
MaySend == owner = "manager" /\ worker \notin {"stopped", "disconnected"}

(* What a TmuxError out of send_managed does to the rows, by its class:     *)
(* WorkerBusyError and WorkerNotReadyError change nothing, the rest is      *)
(* recorded as a lost session.                                              *)
SendFailed(open, state) ==
  IF open # {} \/ state \in {"starting", "waiting"}
  THEN proc' = state /\ UNCHANGED worker
  ELSE proc' = "waiting" /\ worker' = "disconnected"

(* Every precondition holds: the turn is durable before any key is typed.  *)
SendReserve ==
  /\ ctl = Idle /\ MaySend
  /\ Cardinality({t \in DOMAIN turns : turns[t].origin = "managed"}) < MaxManaged
  /\ Reconciled(TRUE) = "ready" /\ OpenTurns = {}
  /\ proc' = "ready"
  /\ turns' = Append(turns, ManagedRow)
  /\ latest' = Len(turns) + 1
  /\ ctl' = At("paste", Len(turns) + 1)
  /\ UNCHANGED <<owner, hooks, delivered, applied, worker, external, hook, session, faults>>

SendRefused ==
  /\ ctl = Idle /\ MaySend
  /\ Reconciled(TRUE) # "ready" \/ OpenTurns # {}
  /\ SendFailed(OpenTurns, Reconciled(TRUE))
  /\ UNCHANGED <<owner, turns, latest, hooks, delivered, applied, external, hook, ctl, session, faults>>

(* TmuxController.send_literal's checks, under the per-runtime tmux lock.   *)
MayType == pane = "alive" /\ paneOwner = "manager" /\ ~attached

(* supervisor.send: paste and Enter, or fail the turn. *)
SendPaste ==
  /\ ctl.at = "paste"
  /\ ctl' = Idle
  /\ IF owner = "manager" /\ MayType
     THEN /\ composer' = Append(composer, ctl.turn)
          /\ worker' = "working"
          /\ UNCHANGED <<proc, turns, latest>>
     ELSE /\ turns' = [turns EXCEPT ![ctl.turn] = [ManagedRow EXCEPT !.status = "failed"]]
          /\ latest' = ctl.turn
          /\ SendFailed(OpenTurns \ {ctl.turn}, proc)
          /\ UNCHANGED composer
  /\ UNCHANGED <<owner, hooks, delivered, applied, paneOwner, pane, attached, claude,
                 prompt, ended, hook, session, faults>>

----------------------------------------------------------------------------
(* interrupt_worker -> NativeClaudeRuntime.interrupt                        *)

(* Ctrl-C is delivered; whether Claude stops for it is Claude's business,   *)
(* and if it does it reports no Stop.                                       *)
InterruptSend ==
  /\ "interrupt" \in Possible
  /\ ctl = Idle /\ owner = "manager" /\ MayType
  /\ \E t \in OpenTurns :
       /\ turns[t].status \in {"active", "waiting_permission"}
       /\ ctl' = [at |-> "interruptSaved", turn |-> t]
  /\ claude' \in {claude} \union (IF claude \in {"busy", "asking"} THEN {"idle"} ELSE {})
  /\ UNCHANGED <<rows, paneOwner, pane, attached, composer, prompt, ended, hook, session, faults>>

(* The row read before the key was sent is saved back as                    *)
(* INTERRUPT_REQUESTED, whatever a hook wrote in between.                    *)
InterruptSave ==
  /\ ctl.at = "interruptSaved"
  /\ ctl' = Idle
  /\ LET row == [turns[ctl.turn] EXCEPT !.status = "interrupt_requested"]
     IN  IF MaySave(ctl.turn, row)
         THEN /\ turns' = [turns EXCEPT ![ctl.turn] = row]
              /\ latest' = ctl.turn
              /\ proc' = "turn_active"
         ELSE UNCHANGED <<turns, latest, proc>>
  /\ UNCHANGED <<owner, hooks, delivered, applied, worker, external, hook, session, faults>>

----------------------------------------------------------------------------
(* attach and detach: the input lane changes hands                          *)

(* claim_human: the open turn is tainted before ownership moves. *)
AttachTaint ==
  /\ ctl = Idle /\ "enter" \in Possible
  /\ IF OpenTurns = {} THEN UNCHANGED <<turns, latest>>
     ELSE \E t \in OpenTurns : /\ turns' = [turns EXCEPT ![t].human = TRUE]
                               /\ latest' = t
  /\ ctl' = At("claimTmux", 0)
  /\ UNCHANGED <<proc, owner, hooks, delivered, applied, worker, external, hook, session, faults>>

(* TmuxController.set_owner; an exited pane refuses and entry fails. *)
AttachClaimTmux ==
  /\ ctl.at = "claimTmux"
  /\ IF pane = "alive"
     THEN paneOwner' = "human" /\ ctl' = At("claimOwner", 0)
     ELSE ctl' = Idle /\ UNCHANGED paneOwner
  /\ UNCHANGED <<rows, pane, attached, composer, claude, prompt, ended, hook, session, faults>>

(* Supervisor.set_owner and attach re-read the row, then write the owner.   *)
(* The board then blocks the loop in `tmux attach` ("inside"), unless the   *)
(* view cannot be opened from this terminal and ownership is returned.      *)
AttachClaimOwner ==
  /\ ctl.at = "claimOwner"
  /\ owner' = "human"
  /\ \E next \in {"inside", "returnTmux"} : ctl' = At(next, 0)
  /\ UNCHANGED <<proc, turns, latest, hooks, delivered, applied, worker, external, hook, session, faults>>

(* The terminal comes back.  The user either confirms an empty composer     *)
(* (handback) or declines (the session stays human-controlled).             *)
LeaveSession ==
  /\ ctl.at = "inside"
  /\ \/ ctl' = Idle
     \/ composer = <<>> /\ ctl' = At("releaseTmux", 0)
  /\ attached' \in {FALSE, attached /\ "otherClient" \in Possible}
  /\ UNCHANGED <<rows, paneOwner, pane, composer, claude, prompt, ended, hook, session, faults>>

(* Ownership goes back: set_owner again, after a handback or a failed view. *)
DetachReleaseTmux ==
  /\ ctl.at \in {"releaseTmux", "returnTmux"}
  /\ IF pane = "alive"
     THEN /\ paneOwner' = "manager"
          /\ ctl' = At(IF ctl.at = "releaseTmux" THEN "releaseOwner" ELSE "returnOwner", 0)
     ELSE ctl' = Idle /\ UNCHANGED paneOwner
  /\ UNCHANGED <<rows, pane, attached, composer, claude, prompt, ended, hook, session, faults>>

(* A view that could not be opened: entry fails and nothing else is undone. *)
AttachReturnOwner ==
  /\ ctl.at = "returnOwner"
  /\ ctl' = Idle
  /\ owner' = "manager"
  /\ UNCHANGED <<proc, turns, latest, hooks, delivered, applied, worker, external, hook, session, faults>>

(* release_human: a tainted prompt nobody took is written off; a completed  *)
(* turn is acknowledged; a worker whose prompt was answered is unblocked.   *)
WriteOffUntainted(row) == [row EXCEPT !.status = "interrupted", !.human = FALSE]  \* mutation
WriteOff(row) == [row EXCEPT !.status = "interrupted"]

DetachReleaseOwner ==
  /\ ctl.at = "releaseOwner"
  /\ ctl' = Idle
  /\ owner' = "manager"
  /\ IF latest # 0 /\ turns[latest].status = "pending" /\ turns[latest].human
     THEN turns' = [turns EXCEPT ![latest] = WriteOff(@)] /\ UNCHANGED proc
     ELSE /\ UNCHANGED turns
          /\ proc' = IF proc = "turn_complete" /\ Terminal(latest)
                        /\ turns[latest].status # "interrupted"
                     THEN "ready" ELSE proc
  /\ worker' = IF worker = "blocked" /\ proc' = "ready" THEN "idle" ELSE worker
  /\ UNCHANGED <<latest, hooks, delivered, applied, external, hook, session, faults>>

----------------------------------------------------------------------------
(* _watch: hook events become worker events                                 *)

(* _worker_event: what an event means to the orchestration, if anything.   *)
Classified(h) ==
  LET e == hooks[h] IN
  CASE e.name = "SessionStart" -> "session"
    [] e.name = "SessionEnd" -> "stopped"
    [] e.name = "PreToolUse" /\ Managed(e.turn) -> "tool"
    [] e.name = "PermissionRequest" /\ Managed(e.turn) -> "permission"
    [] e.name = "Stop" /\ Managed(e.turn) -> "result"
    [] e.name = "StopBlocked" /\ Managed(e.turn) -> "blocked"
    [] e.name = "StopFailure" /\ Managed(e.turn) -> "error"
    [] OTHER -> "none"

(* pending_worker_hook_events, in the order they were recorded, less those *)
(* that are queued already.                                                *)
PendingHooksOfTurns ==  \* mutation: a join drops the events without a turn
  {h \in (DOMAIN hooks \ delivered) \ inflight : hooks[h].turn # 0}
PendingHooks == (DOMAIN hooks \ delivered) \ inflight
NewestOf(pending, h) == \A g \in pending : h >= g  \* mutation: ORDER BY ... DESC
OldestOf(pending, h) == \A g \in pending : h <= g

(* One hook of a poll, oldest first. *)
WatchHook ==
  /\ ctl = Idle /\ watch
  /\ \E h \in PendingHooks :
       /\ OldestOf(PendingHooks, h)
       /\ IF Classified(h) = "none"
          THEN delivered' = delivered \union {h} /\ UNCHANGED <<outbox, inflight>>
          ELSE /\ outbox' = Append(outbox, [kind |-> Classified(h), hook |-> h,
                                            turn |-> hooks[h].turn])
               /\ inflight' = inflight \union {h}
               /\ UNCHANGED delivered
  /\ UNCHANGED <<proc, owner, turns, latest, hooks, applied, worker, external, hook, ctl,
                 watch, pump, faults>>

(* The periodic observation: _record copies tmux's owner over the row's, or *)
(* records the loss and ends the watcher with a "failed" event.             *)
OwnerOfRow == owner  \* mutation: _record leaves the row's owner alone
ObservedOwner == paneOwner

WatchObserve ==
  /\ ctl = Idle /\ watch
  /\ IF pane = "alive"
     THEN owner' = ObservedOwner /\ UNCHANGED <<proc, watch, outbox>>
     ELSE /\ proc' = IF pane = "dead" THEN "exited" ELSE "absent"
          /\ watch' = FALSE
          /\ outbox' = Append(outbox, [kind |-> "failed", hook |-> 0, turn |-> 0])
          /\ UNCHANGED owner
  /\ UNCHANGED <<turns, latest, hooks, delivered, applied, worker, external, hook, ctl,
                 pump, inflight, faults>>

----------------------------------------------------------------------------
(* _pump -> _apply -> stream: one event per step of the loop                *)

ProcessAfter(kind) ==
  CASE kind = "session" -> proc
    [] kind = "tool" -> "turn_active"
    [] kind \in {"permission", "blocked"} -> "waiting"
    [] kind \in {"result", "error"} -> "turn_complete"
    [] OTHER -> "exited"

(* The status _apply_unchecked asks for.  A tool call clears a BLOCKED that *)
(* stands for an answered permission prompt and leaves any other alone.     *)
StatusOutOfRange(kind) ==  \* mutation: a process state for a worker status
  IF kind = "permission" THEN {"waiting"} ELSE {worker}
StatusIgnoringPermission(kind) == {worker}  \* mutation
StatusAfter(kind) ==
  CASE kind = "session" -> {worker}
    [] kind = "tool" -> {worker} \union (IF worker = "blocked" THEN {"working"} ELSE {})
    [] kind \in {"permission", "blocked"} -> {"blocked"}
    [] kind = "result" -> {"idle"}
    [] kind \in {"error", "failed"} -> {"failed"}
    [] kind = "stopped" -> {"stopped"}

(* Applying may raise: a status the table forbids, or a harvest that does.  *)
(* The transaction then rolls back, the exception is logged, and the stream *)
(* goes on as if the event had been applied.                                *)
ApplyOutcomes(kind) ==
  {TRUE} \union (IF "badResult" \in Possible /\ kind \in {"result", "blocked"} THEN {FALSE} ELSE {})

(* acknowledge_turn's conditions, in the state `_apply` leaves behind.      *)
MayAcknowledge(t, state) ==
  Terminal(t) /\ state \in {"turn_complete", "waiting"} /\ latest = t

(* mark_worker_hook_delivered: in `_apply`'s transaction, and again when    *)
(* the stream resumes.                                                      *)
MarkedOnResume(done, settled) == settled  \* mutation: only when it resumes
MarkedDelivered(done, settled) == done \/ settled

PumpStep ==
  /\ ctl = Idle /\ pump = "up" /\ outbox # <<>>
  /\ LET e == Head(outbox)
         fresh == e.hook # 0 => e.hook \notin delivered
     IN \E status \in StatusAfter(e.kind), harvested \in ApplyOutcomes(e.kind) :
        LET done == fresh /\ harvested /\ Permitted(worker, status)
            state == IF done THEN ProcessAfter(e.kind) ELSE proc
            result == e.kind \in {"result", "error"}
            settled == ~result \/ MayAcknowledge(e.turn, state)
            mark == IF e.hook # 0 THEN {e.hook} ELSE {}
        IN /\ worker' = IF done THEN status ELSE worker
           /\ applied' = IF done /\ e.hook # 0 THEN Append(applied, e.hook) ELSE applied
           /\ proc' = IF result /\ settled THEN "ready" ELSE state
           /\ delivered' = IF MarkedDelivered(done, settled) THEN delivered \union mark ELSE delivered
           /\ inflight' = IF settled THEN inflight \ mark ELSE inflight
           /\ pump' = IF ~settled THEN "dead" ELSE IF e.kind = "failed" THEN "off" ELSE "up"
           /\ outbox' = Tail(outbox)
  /\ UNCHANGED <<owner, turns, latest, hooks, external, hook, ctl, watch, faults>>

----------------------------------------------------------------------------
(* stop_worker, controller crash and recover()                              *)

StopWorker ==
  /\ ctl = Idle
  /\ ctl' = At("retired", 0)
  /\ proc' = "exited" /\ worker' = "stopped"
  /\ watch' = FALSE /\ pump' = "off" /\ outbox' = <<>> /\ inflight' = {}
  /\ pane' = "gone" /\ claude' = "exited" /\ composer' = <<>> /\ attached' = FALSE
  /\ UNCHANGED <<owner, turns, latest, hooks, delivered, applied, paneOwner, prompt, ended,
                 hook, faults>>

Crash ==
  /\ ctl.at \notin {"down", "retired"} /\ crashes < MaxCrashes
  /\ crashes' = crashes + 1
  /\ ctl' = At("down", 0)
  /\ watch' = FALSE /\ pump' = "off" /\ outbox' = <<>> /\ inflight' = {}
  /\ UNCHANGED <<rows, external, hook, deaths>>

(* The last terminal event of the latest turn, if recorded, was delivered.  *)
ResultDelivered ==
  LET stops == {h \in DOMAIN hooks : hooks[h].turn = latest /\ hooks[h].name \in StopEvent}
  IN  \A h \in stops : (\A g \in stops : g <= h) => h \in delivered

(* An exact live runtime is adopted with the owner tmux says it has. *)
Adopt ==
  /\ ctl.at = "down" /\ worker # "stopped" /\ pane = "alive"
  /\ ctl' = Idle
  /\ owner' = paneOwner
  /\ proc' = Reconciled(ResultDelivered)
  /\ worker' = CASE proc = "turn_active" -> "working"
                 [] proc = "waiting" -> "blocked"
                 [] OTHER -> "idle"
  /\ watch' = TRUE /\ pump' = "up"
  /\ UNCHANGED <<turns, latest, hooks, delivered, applied, external, hook, outbox, inflight, faults>>

(* A stopped worker is left alone; a lost human-owned runtime is refused; a *)
(* lost manager-owned one is replaced by a new generation, a lane of its    *)
(* own.  Each ends this one.                                                *)
AbandonLane ==
  /\ ctl.at = "down" /\ (worker = "stopped" \/ pane # "alive")
  /\ ctl' = At("retired", 0)
  /\ IF worker = "stopped" THEN UNCHANGED <<proc, worker>>
     ELSE /\ proc' = "absent"
          /\ worker' = IF owner = "human" THEN "disconnected" ELSE "idle"
  /\ UNCHANGED <<owner, turns, latest, hooks, delivered, applied, external, hook, session, faults>>

----------------------------------------------------------------------------
(* Claude (external), starting a command hook at each lifecycle event.      *)
(* handle_hook reads the runtime row and the turn when it starts.           *)

Reads(name, t, fresh, row, state) ==
  [at |-> IF t # 0 \/ fresh THEN "turn" ELSE "runtime", name |-> name, turn |-> t,
   fresh |-> fresh, row |-> row, proc |-> state, owner |-> owner]

(* An event that leaves the turn and the process state as they are. *)
ReadsOnly(name, t) ==
  [at |-> "runtime", name |-> name, turn |-> t, fresh |-> FALSE, row |-> ManagedRow,
   proc |-> proc, owner |-> owner]

(* _correlate_prompt: the marker names a turn still waiting for its prompt, *)
(* or one this very prompt already activated; anything else is human input. *)
CorrelatesBound(m, p) == m # 0 /\ turns[m].prompt = p  \* mutation: no PENDING case
Correlates(m, p) ==
  /\ m # 0
  /\ \/ turns[m].status = "pending"
     \/ turns[m].status \in {"active", "waiting_permission"} /\ turns[m].prompt = p

ClaudeTakesPrompt ==
  /\ hook.at = "none" /\ claude = "idle" /\ composer # <<>>
  /\ LET m == Head(composer)
         p == prompt + 1
     IN /\ hook' = IF Correlates(m, p)
                   THEN Reads("UserPromptSubmit", m, FALSE,
                              [turns[m] EXCEPT !.status = "active", !.prompt = p], "turn_active")
                   ELSE Reads("UserPromptSubmit", 0, TRUE, HumanRow(p), "turn_active")
        /\ prompt' = p
  /\ composer' = Tail(composer)
  /\ claude' = "busy"
  /\ UNCHANGED <<rows, paneOwner, pane, attached, ended, ctl, session, faults>>

ClaudeCallsTool ==
  /\ hook.at = "none" /\ claude = "busy" /\ Len(hooks) < MaxHooks
  /\ hook' = ReadsOnly("PreToolUse", ActiveTurn(prompt))
  /\ UNCHANGED <<rows, external, ctl, session, faults>>

ClaudeAsks ==
  /\ hook.at = "none" /\ claude = "busy" /\ Len(hooks) < MaxHooks
  /\ LET t == ActiveTurn(prompt)
     IN hook' = IF t = 0 THEN ReadsOnly("PermissionRequest", 0)
                ELSE Reads("PermissionRequest", t, FALSE,
                           [turns[t] EXCEPT !.status = "waiting_permission"], "waiting")
  /\ claude' = "asking"
  /\ UNCHANGED <<rows, paneOwner, pane, attached, composer, prompt, ended, ctl, session, faults>>

ClaudeStops(name) ==
  /\ hook.at = "none" /\ claude = "busy"
  /\ LET t == ActiveTurn(prompt)
         done == IF name = "StopFailure" THEN "failed" ELSE "completed"
     IN hook' = IF t = 0 THEN ReadsOnly(name, 0)
                ELSE Reads(name, t, FALSE, [turns[t] EXCEPT !.status = done], "turn_complete")
  /\ claude' = "idle"
  /\ ended' = ended \union {prompt}
  /\ UNCHANGED <<rows, paneOwner, pane, attached, composer, prompt, ctl, session, faults>>

(* A clean exit reports SessionEnd; a killed process reports nothing. *)
ClaudeExits ==
  /\ "exit" \in Possible /\ hook.at = "none" /\ claude # "exited"
  /\ \/ hook' = [ReadsOnly("SessionEnd", 0) EXCEPT !.proc = "exited"]
     \/ UNCHANGED hook
  /\ claude' = "exited" /\ pane' = "dead" /\ composer' = <<>>
  /\ UNCHANGED <<rows, paneOwner, attached, prompt, ended, ctl, session, faults>>

----------------------------------------------------------------------------
(* The command hook: three commits, any of which may be its last.           *)

(* save_native_turn; the one-open-turn index makes the hook fail instead.   *)
HookSavesTurn ==
  /\ hook.at = "turn"
  /\ LET t == IF hook.fresh THEN Len(turns) + 1 ELSE hook.turn
     IN IF MaySave(t, hook.row)
        THEN /\ turns' = IF hook.fresh THEN Append(turns, hook.row)
                         ELSE [turns EXCEPT ![t] = hook.row]
             /\ latest' = t
             /\ hook' = [hook EXCEPT !.at = "runtime", !.turn = t]
        ELSE hook' = NoHook /\ UNCHANGED <<turns, latest>>
  /\ UNCHANGED <<proc, owner, hooks, delivered, applied, worker, external, ctl, session, faults>>

(* save_runtime writes the whole row back, owner included. *)
HookSavesRuntime ==
  /\ hook.at = "runtime"
  /\ proc' = hook.proc /\ owner' = hook.owner
  /\ hook' = [hook EXCEPT !.at = "record"]
  /\ UNCHANGED <<turns, latest, hooks, delivered, applied, worker, external, ctl, session, faults>>

HookRecordsEvent ==
  /\ hook.at = "record"
  /\ hooks' = Append(hooks, [name |-> hook.name, turn |-> hook.turn])
  /\ hook' = NoHook
  /\ UNCHANGED <<proc, owner, turns, latest, delivered, applied, worker, external, ctl, session, faults>>

HookDies ==
  /\ hook.at # "none" /\ deaths < MaxHookDeaths
  /\ deaths' = deaths + 1
  /\ hook' = NoHook
  /\ UNCHANGED <<rows, external, ctl, session, crashes>>

----------------------------------------------------------------------------
(* The human at a terminal (external).                                      *)

(* `tmux attach` works from any terminal, claimed or not. *)
HumanAttaches ==
  /\ pane = "alive" /\ ~attached
  /\ ctl.at = "inside" \/ "otherClient" \in Possible
  /\ attached' = TRUE
  /\ UNCHANGED <<rows, paneOwner, pane, composer, claude, prompt, ended, hook, ctl, session, faults>>

HumanLeaves ==
  /\ attached
  /\ attached' = FALSE
  /\ UNCHANGED <<rows, paneOwner, pane, composer, claude, prompt, ended, hook, ctl, session, faults>>

(* A prompt of their own, or one recalled from history with its marker. *)
HumanTypes ==
  /\ attached /\ pane = "alive" /\ prompt + Len(composer) < MaxPrompts
  /\ \E m \in {0} \union {t \in DOMAIN turns : /\ turns[t].origin = "managed"
                                              /\ "recall" \in Possible} :
       composer' = Append(composer, m)
  /\ UNCHANGED <<rows, paneOwner, pane, attached, claude, prompt, ended, hook, ctl, session, faults>>

HumanClearsComposer ==
  /\ attached /\ composer # <<>>
  /\ composer' = <<>>
  /\ UNCHANGED <<rows, paneOwner, pane, attached, claude, prompt, ended, hook, ctl, session, faults>>

(* Answering a permission prompt lets the tool run. *)
HumanAnswers ==
  /\ attached /\ hook.at = "none" /\ claude = "asking"
  /\ claude' = "busy"
  /\ hook' = ReadsOnly("PostToolUse", ActiveTurn(prompt))
  /\ UNCHANGED <<rows, paneOwner, pane, attached, composer, prompt, ended, ctl, session, faults>>

(* Escape in the pane: Claude stops the turn and reports no Stop. *)
HumanEscapes ==
  /\ attached /\ hook.at = "none" /\ claude \in {"busy", "asking"}
  /\ claude' = "idle"
  /\ UNCHANGED <<rows, paneOwner, pane, attached, composer, prompt, ended, hook, ctl, session, faults>>

----------------------------------------------------------------------------
Controller ==
  \/ SendReserve \/ SendRefused \/ SendPaste
  \/ InterruptSend \/ InterruptSave
  \/ AttachTaint \/ AttachClaimTmux \/ AttachClaimOwner \/ AttachReturnOwner
  \/ LeaveSession \/ DetachReleaseTmux \/ DetachReleaseOwner
  \/ WatchHook \/ WatchObserve \/ PumpStep
  \/ StopWorker \/ Crash \/ Adopt \/ AbandonLane

Claude ==
  \/ ClaudeTakesPrompt \/ ClaudeCallsTool \/ ClaudeAsks
  \/ \E name \in Stops : ClaudeStops(name)
  \/ ClaudeExits

Hook == HookSavesTurn \/ HookSavesRuntime \/ HookRecordsEvent \/ HookDies

Human ==
  \/ HumanAttaches \/ HumanLeaves \/ HumanTypes \/ HumanClearsComposer
  \/ HumanAnswers \/ HumanEscapes

Next == Controller \/ Claude \/ Hook \/ Human

Spec == Init /\ [][Next]_vars

(* What the scheduling gives: the loop keeps polling, pumping and finishing *)
(* the operation it is in, a crashed board is started again, hooks run to   *)
(* their end, and Claude takes and finishes what it was given.  Nobody      *)
(* promises that a human attaches, answers or leaves, except that the       *)
(* board's own terminal comes back.                                         *)
Fairness ==
  /\ WF_vars(WatchHook) /\ WF_vars(WatchObserve) /\ WF_vars(PumpStep)
  /\ WF_vars(SendPaste) /\ WF_vars(InterruptSave)
  /\ WF_vars(AttachClaimTmux) /\ WF_vars(AttachClaimOwner) /\ WF_vars(AttachReturnOwner)
  /\ WF_vars(LeaveSession) /\ WF_vars(DetachReleaseTmux) /\ WF_vars(DetachReleaseOwner)
  /\ WF_vars(Adopt) /\ WF_vars(AbandonLane)
  /\ WF_vars(Hook)
  /\ WF_vars(ClaudeTakesPrompt) /\ WF_vars(ClaudeStops("Stop"))

FairSpec == Spec /\ Fairness

----------------------------------------------------------------------------
(* Properties *)

RowTypes ==
  /\ proc \in ProcessState /\ owner \in Owner
  /\ turns \in Seq(TurnRow) /\ latest \in 0..Len(turns)
  /\ hooks \in Seq([name : HookName, turn : Nat])
  /\ \A h \in DOMAIN hooks : hooks[h].turn \in 0..Len(turns)
  /\ delivered \subseteq DOMAIN hooks /\ applied \in Seq(Nat)
  /\ worker \in WorkerStatus

ExternalTypes ==
  /\ paneOwner \in Owner /\ pane \in {"alive", "dead", "gone"} /\ attached \in BOOLEAN
  /\ composer \in Seq(Nat) /\ \A i \in DOMAIN composer : composer[i] \in 0..Len(turns)
  /\ claude \in {"idle", "busy", "asking", "exited"}
  /\ prompt \in Nat /\ ended \subseteq 1..prompt

HookProcess == [at : {"none", "turn", "runtime", "record"}, name : HookName, turn : Nat,
                fresh : BOOLEAN, row : TurnRow, proc : ProcessState, owner : Owner]

HookTypes ==
  /\ hook \in HookProcess
  /\ hook.turn \in 0..Len(turns)

ControllerTypes ==
  /\ ctl \in [at : ControllerAt, turn : Nat] /\ ctl.turn \in 0..Len(turns)
  /\ watch \in BOOLEAN /\ pump \in {"up", "dead", "off"}
  /\ outbox \in Seq([kind : EventKind, hook : Nat, turn : Nat])
  /\ \A i \in DOMAIN outbox : outbox[i].hook \in 0..Len(hooks) /\ outbox[i].turn \in 0..Len(turns)
  /\ inflight \subseteq DOMAIN hooks

FaultTypes == crashes \in 0..MaxCrashes /\ deaths \in 0..MaxHookDeaths

(* Every variable keeps to its values, and every turn or event another      *)
(* variable refers to exists.                                               *)
TypeOK == RowTypes /\ ExternalTypes /\ HookTypes /\ ControllerTypes /\ FaultTypes

(* Every hook event takes effect at most once, and in the order the hooks   *)
(* recorded them, although the ledger is polled, queued, pumped and, after  *)
(* a crash, polled again (_watch, _apply, mark_worker_hook_delivered).      *)
AppliedInOrder ==
  \A i, j \in DOMAIN applied : i < j => applied[i] < applied[j]

(* A turn's result reaches the workflow at most once: Claude's stop is      *)
(* correlated by prompt to a turn that is still open (active_native_turn).  *)
OneResultPerTurn ==
  \A i, j \in DOMAIN applied :
    /\ hooks[applied[i]].name \in StopEvent /\ hooks[applied[j]].name \in StopEvent
    /\ hooks[applied[i]].turn = hooks[applied[j]].turn
    => i = j

(* No result of a human's own prompt, nor of a turn a human has entered, is *)
(* applied: the provenance is decided when the hook is polled, and nothing  *)
(* between the poll and the pump may make the decision wrong (_worker_event *)
(* and claim_human).                                                        *)
ResultsAreManaged ==
  [][\A i \in DOMAIN applied' \ DOMAIN applied :
       hooks[applied'[i]].name \in StopEvent =>
         LET t == hooks[applied'[i]].turn
         IN  t # 0 /\ turns[t].origin = "managed" /\ ~turns[t].human]_vars

(* A managed turn is only ever completed by the end of the prompt it was    *)
(* sent as: a prompt a human types into the same session cannot complete an *)
(* earlier managed turn (_correlate_prompt, active_native_turn).            *)
CompletedByOwnPrompt ==
  /\ \A t \in DOMAIN turns : turns[t].status = "completed" => turns[t].prompt \in ended
  /\ \A t, u \in DOMAIN turns : turns[t].prompt = turns[u].prompt /\ t # u => turns[t].prompt = 0

(* The durable ledger's own specification, whatever the watcher, the pump   *)
(* and crashes do.                                                          *)
Ledger == INSTANCE HookLedger WITH recorded <- Len(hooks), settled <- delivered
ImplementsLedger == Ledger!Spec

(* Only a command hook that had read the row before the human entered can   *)
(* take a taint away again; no operation of the controller does.            *)
TaintOnlyLostToHook ==
  [][\A t \in DOMAIN turns :
       turns[t].human /\ ~turns'[t].human => hook.at = "turn" /\ hook.turn = t]_vars

(* Every recorded event is settled in the end, across crashes of the board, *)
(* unless the pump died, the process was lost or the worker was stopped.    *)
EveryHookSettles ==
  \A h \in 1..(MaxHooks + 2 * MaxPrompts + 1) :
    h \in DOMAIN hooks ~> \/ h \in delivered
                         \/ pump = "dead" \/ pane # "alive" \/ ctl.at = "retired"

(* A permission prompt of a managed turn reaches the board, across a crash: *)
(* the worker is shown as blocked, or is past that turn.                    *)
PermissionSurfaces ==
  \A t \in 1..MaxManaged :
    AwaitsPermission(t) ~> \/ worker \in {"blocked", "stopped", "failed"}
                          \/ ~AwaitsPermission(t)
                          \/ pump = "dead" \/ pane # "alive"

(* The owner in the row and the owner tmux has come together again whenever *)
(* a crash, a half-done switch or a hook's stale write set them apart.      *)
OwnerConverges ==
  owner # paneOwner ~> owner = paneOwner \/ pane # "alive" \/ ctl.at = "retired"

(* The lane opens again after every managed turn: nothing but a permission  *)
(* prompt nobody answers, a pump that died, a lost process, a crash that    *)
(* left a prompt reserved and unsent, or a hook that died before it saved   *)
(* the end of the turn keeps it closed for ever.                            *)
LaneReopens ==
  OpenTurns # {} ~> \/ OpenTurns = {} /\ Reconciled(TRUE) = "ready"
                    \/ pump = "dead" \/ claude = "asking"
                    \/ pane # "alive" \/ crashes + deaths > 0

----------------------------------------------------------------------------
(* Statements of the repository the code does not keep.                     *)

(* "One live consumer of a worker's backend events, however it was started" *)
(* (_ensure_pump): the pump does not die of a result it cannot acknowledge. *)
PumpSurvives == pump # "dead"

(* "Entering while a managed turn is active durably taints that turn"       *)
(* (docs/runtime.md).                                                       *)
TaintIsDurable ==
  [][\A t \in DOMAIN turns : turns[t].human => turns'[t].human]_vars

(* "The worker stays alive and can be messaged again" (interrupt_worker).   *)
InterruptedWorkerIsUsable ==
  (\E t \in DOMAIN turns : turns[t].status = "interrupt_requested") ~>
    (OpenTurns = {} \/ ctl.at = "retired")

(* "An exited or absent runtime is a real loss and must keep failing closed *)
(* as a disconnect" (NativeClaudeBackend.send); any other failure is not.   *)
DisconnectMeansLoss == worker = "disconnected" => pane # "alive"
=============================================================================
