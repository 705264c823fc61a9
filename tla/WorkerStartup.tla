--------------------------- MODULE WorkerStartup ---------------------------
(***************************************************************************)
(* The life of one worker around its lane: the launch of its Claude, the   *)
(* dialogs Claude shows before it is ready, the first prompt, the          *)
(* attention items that call the user, the visits of the user, a stop, a   *)
(* restart of the board and the recovery that runs beside it.              *)
(*                                                                         *)
(* The board is one asyncio loop.  _start_backend and recover are          *)
(* coroutines of it that wait for Claude, and everything else the board    *)
(* does may come in between; board.boot and board.recovery say where they  *)
(* are.  A visit blocks the loop: action_attach runs tmux and detaches     *)
(* without giving way.  A hook of Claude is one step here; TurnLane has    *)
(* the steps inside a hook and inside a tmux round trip, and starts where  *)
(* this module's launch has ended.                                         *)
(***************************************************************************)
EXTENDS Naturals, Sequences

CONSTANTS
  MaxCrashes,     \* bound on the times the board's process ends
  MaxVisits,      \* bound on the times the user enters the session
  MaxSends,       \* bound on the messages the Manager sends by itself
  MaxTurns,       \* bound on the turns Claude is given
  Possible        \* the occurrences of the outside world to reckon with

Occurrence == {
  "trust",      \* Claude asks whether its directory is trusted
  "login",      \* Claude shows a dialog Switchboard does not know
  "asks",       \* a turn stops on a permission prompt
  "exit",       \* the Claude process ends
  "stop",       \* the user stops the worker
  "interrupt"}  \* the user interrupts the worker

ASSUME StartupBounds ==
  /\ {MaxCrashes, MaxVisits, MaxSends, MaxTurns} \subseteq Nat
  /\ Possible \subseteq Occurrence

VARIABLES
  rows,     \* the worker's rows: status, attention, prompt, runtime, last turn
  hooks,    \* events of Claude the board has not applied, oldest first
  trusted,  \* the preference trust.repository
  pane,     \* what Claude shows, "gone" when its process is not there
  board,    \* the board's process
  used      \* how often each bounded thing has happened

vars == <<rows, hooks, trusted, pane, board, used>>

----------------------------------------------------------------------------
(* Vocabulary *)

Status == {"starting", "working", "blocked", "idle", "failed", "stopped",
           "disconnected"}
Kind == {"permission", "decision", "failed"}
Process == {"absent", "starting", "ready", "turn_active", "waiting",
            "turn_complete", "exited"}
TurnAt == {"none", "pending", "active", "asking", "answered", "interrupting",
           "done", "interrupted"}
Event == {"permission", "result", "error", "blocked", "failed", "stopped"}

Row == [status : Status, asked : SUBSET Kind, pending : BOOLEAN,
        proc : Process, owner : {"manager", "human"},
        turn : [at : TurnAt, mine : BOOLEAN, n : Nat],
        why : Kind, typed : Nat]
Hook == [kind : Event, turn : Nat]
Pane == {"gone", "loading", "trust", "login", "accepted", "composer"}
Board == [up : BOOLEAN, inside : BOOLEAN, first : BOOLEAN, pump : BOOLEAN,
          boot : {"none", "create", "launch", "answered", "slow"},
          recovery : {"none", "due", "listed", "at"},
          session : {"none", "live", "ended"}]

NoTurn == [at |-> "none", mine |-> FALSE, n |-> 0]
Open(turn) ==
  turn.at \in {"pending", "active", "asking", "answered", "interrupting"}
Ended(turn) == turn.at \in {"done", "interrupted"}

(* ALLOWED_WORKER_TRANSITIONS; staying put is always allowed. *)
Permitted(from, to) ==
  \/ from = to
  \/ to = "stopped"
  \/ from # "stopped" /\ to = "working"
  \/ from \in {"working", "blocked", "idle"}
  \/ from = "starting" /\ to \in {"blocked", "failed", "idle"}

Alive == pane # "gone"

(* Nothing of the board runs while the user is in a session, and nothing   *)
(* comes between the save of a new worker and its start.                   *)
Running == board.up /\ ~board.inside /\ board.boot # "create"
Booting == board.boot # "none"

Down == [up |-> FALSE, inside |-> FALSE, boot |-> "none", first |-> FALSE,
         recovery |-> "none", session |-> "none", pump |-> FALSE]

(***************************************************************************)
(* create_worker has saved the worker and its first generation, and is     *)
(* about to start it.                                                      *)
(***************************************************************************)
Init ==
  /\ rows = [status |-> "starting", asked |-> {}, pending |-> FALSE,
             proc |-> "absent", owner |-> "manager", turn |-> NoTurn,
             why |-> "decision", typed |-> 0]
  /\ hooks = <<>>
  /\ trusted = FALSE
  /\ pane = "gone"
  /\ board = [Down EXCEPT !.up = TRUE, !.boot = "create"]
  /\ used = [crashes |-> 0, visits |-> 0, sends |-> 0, interrupts |-> 0]

----------------------------------------------------------------------------
(* What the handlers make of the worker's rows *)

Asking(r, kind) == [r EXCEPT !.asked = @ \union {kind}]
Answered(r, kinds) == [r EXCEPT !.asked = @ \ kinds]
Became(r, status) == [r EXCEPT !.status = status]
Blocked(r, why) == [r EXCEPT !.status = "blocked", !.why = why]
Turned(r, at) == [r EXCEPT !.turn.at = at]

(* acknowledge_turn, after a turn that ended. *)
Acknowledged(r) ==
  IF r.proc \in {"turn_complete", "waiting"} /\ Ended(r.turn)
  THEN [r EXCEPT !.proc = "ready"] ELSE r

(* send_managed: a turn is reserved and its prompt pasted. *)
MayType(r) ==
  /\ r.proc = "ready" /\ ~Open(r.turn) /\ r.owner = "manager" /\ Alive
NextTurn(r, at, mine) ==
  [r EXCEPT !.turn = [at |-> at, mine |-> mine, n |-> @.n + 1]]
Typed(r) == NextTurn(r, "pending", TRUE)
FirstTyped(r) == [Typed(r) EXCEPT !.typed = @ + 1]

(***************************************************************************)
(* SessionManager.send.  It raises without a trace when the human owns the *)
(* session, the worker is gone or the lane is busy or not ready; any other *)
(* failure to deliver is taken for a lost session.                         *)
(***************************************************************************)
Refused(r) ==
  \/ r.owner = "human" \/ r.status \in {"stopped", "disconnected"}
  \/ /\ board.session # "none"
     /\ Open(r.turn) \/ Acknowledged(r).proc \in {"starting", "waiting"}
Sends(r, first) ==
  LET a == Acknowledged(r)
      typed == IF first THEN FirstTyped(a) ELSE Typed(a)
  IN  IF board.session # "none" /\ MayType(a)
      THEN [Became(typed, "working") EXCEPT !.asked = {}]
      ELSE [Became(IF board.session # "none" /\ a.proc = "ready"
                   THEN NextTurn(a, "done", TRUE) ELSE a, "disconnected")
              EXCEPT !.proc = "waiting"]

(* resume_startup: the prompt a dialog held up; cleared once delivered. *)
ResumedKeepsPrompt(r) ==  \* mutation: the preference is not cleared
  IF ~r.pending \/ r.proc # "ready" \/ Refused(r) THEN r ELSE Sends(r, TRUE)
Resumed(r) ==
  IF ~r.pending \/ r.proc # "ready" \/ Refused(r) THEN r
  ELSE LET s == Sends(r, TRUE)
       IN  [s EXCEPT !.pending = s.status = "disconnected"]

----------------------------------------------------------------------------
(* Starting a backend *)

(***************************************************************************)
(* _start_backend up to the wait for SessionStart.  The prompt is kept in  *)
(* a preference until it is delivered.                                     *)
(***************************************************************************)
StartBackend(first, recovery) ==
  /\ rows' = [rows EXCEPT !.proc = "starting", !.owner = "manager",
                          !.turn = NoTurn, !.pending = @ \/ first]
  /\ hooks' = <<>>
  /\ pane' = "loading"
  /\ board' = [board EXCEPT !.boot = "launch", !.first = first,
                            !.session = "live", !.recovery = recovery]
  /\ UNCHANGED <<trusted, used>>

CreateWorker ==
  /\ board.up /\ board.boot = "create"
  /\ StartBackend(TRUE, "none")

(* recover's last lines for a worker it has started, or could not start. *)
Recovered(r, ok) ==
  IF board.recovery # "at" THEN r
  ELSE IF ok THEN Answered(Became(r, "idle"), {"permission"})
  ELSE Became(r, "disconnected")

BootEnds(r, ok, pump) ==
  /\ rows' = Recovered(r, ok)
  /\ board' = [board EXCEPT !.boot = "none", !.first = FALSE, !.pump = pump,
                 !.recovery = IF @ = "at" THEN "none" ELSE @]

(* Claude is ready within the first wait; the prompt is typed. *)
LaunchSucceeds ==
  /\ Running /\ board.boot = "launch" /\ rows.proc = "ready"
  /\ board.first => MayType(rows)
  /\ LET typed == IF board.first THEN [FirstTyped(rows) EXCEPT !.pending = FALSE]
                  ELSE rows
         ok == Permitted(rows.status, "working")
     IN  BootEnds(IF ok THEN Became(typed, "working") ELSE typed, ok,
                  ok \/ board.pump)
  /\ UNCHANGED <<hooks, trusted, pane, used>>

(* The row after a failed launch: READY is kept, the rest is rewritten. *)
FailedProcIsReady == "ready"  \* mutation: a live process is taken for a ready one
FailedProcIsStatus ==  \* mutation: a worker status for a process state
  IF ~Alive THEN "failed" ELSE rows.proc
FailedProc ==
  IF ~Alive THEN "exited" ELSE IF rows.proc = "ready" THEN "ready" ELSE "starting"

Unready == rows.proc # "ready"
FirstRefused == rows.proc = "ready" /\ board.first /\ ~MayType(rows)

(***************************************************************************)
(* _recover_startup: a trust dialog the user has vouched for is answered,  *)
(* unless the human has the session; anything else is waited for.          *)
(***************************************************************************)
SecondChance(r) ==
  \/ /\ pane = "trust" /\ ~trusted
     /\ BootEnds(Asking(r, "permission"), FALSE, TRUE)
     /\ UNCHANGED pane
  \/ /\ pane = "trust" /\ trusted /\ r.owner = "human"
     /\ BootEnds(r, FALSE, board.pump)
     /\ UNCHANGED pane
  \/ /\ pane = "trust" /\ trusted /\ r.owner = "manager"
     /\ rows' = r
     /\ pane' = "accepted"
     /\ board' = [board EXCEPT !.boot = "answered"]
  \/ /\ pane # "trust"
     /\ rows' = r
     /\ board' = [board EXCEPT !.boot = "slow"]
     /\ UNCHANGED pane

(* The first wait fails: Claude is gone, late, or the prompt is refused.   *)
LaunchDies ==
  /\ Running /\ ~Alive /\ board.boot = "launch"
  /\ Unready \/ FirstRefused
  /\ LET r == [rows EXCEPT !.proc = FailedProc]
     IN  BootEnds(IF Permitted(r.status, "failed") THEN Became(r, "failed") ELSE r,
                  FALSE, board.pump)
  /\ UNCHANGED <<hooks, trusted, pane, used>>

LaunchIsLate ==
  /\ Running /\ Alive /\ board.boot = "launch"
  /\ Unready \/ FirstRefused
  /\ LET r == Blocked([rows EXCEPT !.proc = FailedProc], "decision")
     IN  \/ /\ ~Permitted(rows.status, "blocked")
            /\ BootEnds([rows EXCEPT !.proc = FailedProc], FALSE, board.pump)
            /\ UNCHANGED pane
         \/ /\ Permitted(rows.status, "blocked")
            /\ SecondChance(r)
  /\ UNCHANGED <<hooks, trusted, used>>

(* _recover_startup saw the session become ready. *)
StartupRecovers ==
  /\ Running /\ board.boot \in {"answered", "slow"} /\ rows.proc = "ready"
  /\ LET r == Became(Answered(rows, {"permission"}), "working")
     IN  BootEnds(Resumed(r), ~Resumed(r).pending, TRUE)
  /\ UNCHANGED <<hooks, trusted, pane, used>>

(* It did not: the user is called, and the pump shows what happens next. *)
StartupGivesUpSilently ==  \* mutation: nobody is called
  /\ Running /\ board.boot \in {"answered", "slow"} /\ rows.proc # "ready"
  /\ BootEnds(rows, FALSE, board.session # "none")
  /\ UNCHANGED <<hooks, trusted, pane, used>>
StartupGivesUp ==
  /\ Running /\ board.boot \in {"answered", "slow"} /\ rows.proc # "ready"
  /\ BootEnds(Asking(rows, "permission"), FALSE, board.session # "none")
  /\ UNCHANGED <<hooks, trusted, pane, used>>

----------------------------------------------------------------------------
(* Recovery, which a new board runs while its user is already at work *)

(* list_workers is read once, before the workers are taken one by one. *)
RecoverLists ==
  /\ Running /\ board.recovery = "due"
  /\ board' = [board EXCEPT !.recovery =
                 IF rows.status = "stopped" THEN "none" ELSE "listed"]
  /\ UNCHANGED <<rows, hooks, trusted, pane, used>>

(* A live session is adopted; its state says what the worker is doing. *)
RecoverAdopts ==
  /\ Running /\ board.recovery = "listed" /\ Alive
  /\ LET told == \E i \in DOMAIN hooks : /\ hooks[i].turn = rows.turn.n
                                         /\ hooks[i].kind # "permission"
         r == IF told THEN rows ELSE Acknowledged(rows)
     IN  rows' = CASE rows.proc = "turn_active" -> Became(r, "working")
                   [] rows.proc = "waiting" -> Blocked(r, IF rows.status = "blocked" THEN rows.why ELSE "decision")
                   [] OTHER -> Answered(Became(r, "idle"), {"permission"})
  /\ board' = [board EXCEPT !.recovery = "none", !.session = "live", !.pump = TRUE]
  /\ UNCHANGED <<hooks, trusted, pane, used>>

(* A session that is gone is made anew, unless a human was in it. *)
RecoverRecreates ==
  /\ Running /\ board.recovery = "listed" /\ ~Alive
  /\ IF rows.owner = "human"
     THEN /\ rows' = [Became(rows, "disconnected") EXCEPT !.proc = "absent"]
          /\ board' = [board EXCEPT !.recovery = "none"]
          /\ UNCHANGED <<hooks, trusted, pane, used>>
     ELSE StartBackend(FALSE, "at")

----------------------------------------------------------------------------
(* The event pump *)

(* _apply_unchecked; a refused transition undoes the rest of the event. *)
Applied(r, e) ==
  LET to == CASE e.kind \in {"permission", "blocked"} -> "blocked"
              [] e.kind \in {"error", "failed"} -> "failed"
              [] e.kind = "result" -> "idle"
              [] e.kind = "stopped" -> "stopped"
      effect == CASE e.kind = "permission" ->
                       Asking([r EXCEPT !.proc = "waiting", !.why = "permission"],
                              "permission")
                  [] e.kind = "blocked" ->
                       Asking([r EXCEPT !.proc = "waiting", !.why = "decision"],
                              "decision")
                  [] e.kind = "error" ->
                       [r EXCEPT !.proc = "turn_complete", !.asked = {"failed"}]
                  [] e.kind = "failed" ->
                       Asking([r EXCEPT !.proc = "exited"], "failed")
                  [] e.kind = "result" ->
                       [r EXCEPT !.proc = "turn_complete", !.asked = {}]
                  [] e.kind = "stopped" -> [r EXCEPT !.proc = "exited"]
  IN  IF Permitted(r.status, to) THEN Became(effect, to) ELSE r

(* stream acknowledges a result once its event was applied. *)
PumpStep ==
  /\ Running /\ board.pump /\ hooks # <<>>
  /\ LET e == Head(hooks)
         r == Applied(rows, e)
     IN  rows' = IF e.kind \in {"result", "error"} /\ e.turn = rows.turn.n
                 THEN Acknowledged(r) ELSE r
  /\ hooks' = Tail(hooks)
  /\ UNCHANGED <<trusted, pane, board, used>>

(* _watch observes a process that is not there and ends. *)
WatchObserves ==
  /\ Running /\ board.session = "live" /\ ~Alive
  /\ rows' = [rows EXCEPT !.proc = "exited"]
  /\ hooks' = Append(hooks, [kind |-> "failed", turn |-> 0])
  /\ board' = [board EXCEPT !.session = "ended"]
  /\ UNCHANGED <<trusted, pane, used>>

----------------------------------------------------------------------------
(* The user and the Manager, through the board *)

GrantRepositoryTrust ==
  /\ Running /\ "trust" \in Possible /\ ~trusted
  /\ trusted' = TRUE
  /\ UNCHANGED <<rows, hooks, pane, board, used>>

(* answer_workspace_trust, called for a worker that waits on the dialog. *)
AnswerWorkspaceTrust ==
  /\ Running /\ board.session # "none"
  /\ rows.proc = "starting" /\ pane = "trust"
  /\ trusted' = TRUE
  /\ pane' = IF rows.owner = "manager" THEN "accepted" ELSE pane
  /\ UNCHANGED <<rows, hooks, board, used>>

SendMessage ==
  /\ Running /\ used.sends < MaxSends /\ rows.turn.n < MaxTurns
  /\ ~Refused(rows)
  /\ rows' = Sends(rows, FALSE)
  /\ used' = [used EXCEPT !.sends = @ + 1]
  /\ UNCHANGED <<hooks, trusted, pane, board>>

(* An open turn is sent Ctrl-C; either way the items are resolved. *)
InterruptWorker ==
  /\ Running /\ "interrupt" \in Possible /\ used.interrupts = 0
  /\ board.session # "none"
  /\ rows.turn.at \notin {"pending", "interrupting"}
  /\ Open(rows.turn) => rows.owner = "manager" /\ Alive
  /\ rows' = [rows EXCEPT !.asked = {},
                !.turn.at = IF Open(rows.turn) THEN "interrupting" ELSE @]
  /\ used' = [used EXCEPT !.interrupts = 1]
  /\ UNCHANGED <<hooks, trusted, pane, board>>

StopWorker ==
  /\ Running /\ "stop" \in Possible /\ rows.status # "stopped"
  /\ rows' = [Became(rows, "stopped") EXCEPT !.proc = "exited"]
  /\ pane' = "gone"
  /\ board' = [board EXCEPT !.session = "none", !.pump = FALSE]
  /\ UNCHANGED <<hooks, trusted, used>>

(* attach: the open turn is tainted and the items are resolved. *)
Attach ==
  /\ Running /\ Alive /\ used.visits < MaxVisits
  /\ rows' = [rows EXCEPT !.owner = "human", !.asked = {},
                          !.turn.mine = @ /\ ~Open(rows.turn)]
  /\ board' = [board EXCEPT !.inside = TRUE]
  /\ used' = [used EXCEPT !.visits = @ + 1]
  /\ UNCHANGED <<hooks, trusted, pane>>

(* release_human, then detach's repair of a block that was answered. *)
Released(r) ==
  LET m == [r EXCEPT !.owner = "manager"]
  IN  IF m.turn.at = "pending" /\ ~m.turn.mine THEN Turned(m, "interrupted")
      ELSE IF m.turn.at = "done" /\ m.proc = "turn_complete" THEN Acknowledged(m)
      ELSE m
Unblocked(r) ==
  IF r.status = "blocked" /\ r.proc = "ready"
  THEN Answered(Became(r, "idle"), {"permission"}) ELSE r
LeftBlocked(r) == r  \* mutation: the block is left without an item
Reminded(r) ==
  IF r.status = "blocked" /\ r.asked = {} THEN Asking(r, r.why) ELSE r

(* Back from tmux: a cleared composer is handed back, another stays human. *)
LeaveSession(cleared) ==
  /\ board.up /\ board.inside
  /\ rows' = IF cleared /\ Alive THEN Resumed(Reminded(Unblocked(Released(rows))))
             ELSE rows
  /\ board' = [board EXCEPT !.inside = FALSE]
  /\ UNCHANGED <<hooks, trusted, pane, used>>

----------------------------------------------------------------------------
(* The board's process ends and starts again *)

(* The last event may be the watch's own, which no table holds. *)
Durable(events) ==
  IF events # <<>> /\ events[Len(events)].kind = "failed"
  THEN SubSeq(events, 1, Len(events) - 1) ELSE events

Crash ==
  /\ board.up /\ used.crashes < MaxCrashes
  /\ board' = Down
  /\ hooks' = Durable(hooks)
  /\ used' = [used EXCEPT !.crashes = @ + 1]
  /\ UNCHANGED <<rows, trusted, pane>>

(***************************************************************************)
(* The process ends between the paste of the first prompt and the write    *)
(* that clears the preference, in _start_backend.  (The resume after a     *)
(* visit has the same window.)                                             *)
(***************************************************************************)
CrashBeforeCleared ==
  /\ board.up /\ used.crashes < MaxCrashes /\ ~board.inside
  /\ \/ board.boot = "launch" /\ board.first
     \/ board.boot \in {"answered", "slow"} /\ rows.pending
  /\ MayType(rows)
  /\ rows' = FirstTyped(IF board.boot = "launch" THEN rows
                        ELSE Became(Answered(rows, {"permission"}), "working"))
  /\ board' = Down
  /\ hooks' = Durable(hooks)
  /\ used' = [used EXCEPT !.crashes = @ + 1]
  /\ UNCHANGED <<trusted, pane>>

StartBoard ==
  /\ ~board.up
  /\ board' = [Down EXCEPT !.up = TRUE, !.recovery = "due"]
  /\ UNCHANGED <<rows, hooks, trusted, pane, used>>

----------------------------------------------------------------------------
(* Claude, and the hooks it runs (not under src/) *)

ClaudeShows(dialog) ==
  /\ pane = "loading" \/ (pane = "accepted" /\ dialog = "login")
  /\ dialog \in Possible
  /\ pane' = dialog
  /\ UNCHANGED <<rows, hooks, trusted, board, used>>

(* SessionStart *)
ClaudeIsReady ==
  /\ pane \in {"loading", "accepted"}
  /\ pane' = "composer"
  /\ rows' = [rows EXCEPT !.proc = "ready"]
  /\ UNCHANGED <<hooks, trusted, board, used>>

(* UserPromptSubmit *)
ClaudeTakesPrompt ==
  /\ pane = "composer" /\ rows.turn.at = "pending"
  /\ rows' = [Turned(rows, "active") EXCEPT !.proc = "turn_active"]
  /\ UNCHANGED <<hooks, trusted, pane, board, used>>

Told(kind) ==
  hooks' = IF rows.turn.mine
           THEN Append(hooks, [kind |-> kind, turn |-> rows.turn.n]) ELSE hooks

(* PermissionRequest *)
ClaudeAsks ==
  /\ "asks" \in Possible /\ Alive /\ rows.turn.at = "active"
  /\ rows' = [Turned(rows, "asking") EXCEPT !.proc = "waiting"]
  /\ Told("permission")
  /\ UNCHANGED <<trusted, pane, board, used>>

(* Stop, with a result or a question, or StopFailure *)
ClaudeStops(kind) ==
  /\ Alive /\ rows.turn.at \in {"active", "answered", "interrupting"}
  /\ rows' = [Turned(rows, "done") EXCEPT !.proc = "turn_complete"]
  /\ Told(kind)
  /\ UNCHANGED <<trusted, pane, board, used>>

(* The process ends, with a SessionEnd or without. *)
ClaudeExits(said) ==
  /\ "exit" \in Possible /\ Alive
  /\ pane' = "gone"
  /\ IF said
     THEN /\ rows' = [rows EXCEPT !.proc = "exited"]
          /\ hooks' = Append(hooks, [kind |-> "stopped", turn |-> 0])
     ELSE UNCHANGED <<rows, hooks>>
  /\ UNCHANGED <<trusted, board, used>>

----------------------------------------------------------------------------
(* The user inside the session *)

HumanAnswersDialog ==
  /\ board.inside /\ pane \in {"trust", "login"}
  /\ pane' = "accepted"
  /\ UNCHANGED <<rows, hooks, trusted, board, used>>

HumanAnswersPrompt ==
  /\ board.inside /\ Alive /\ rows.turn.at = "asking"
  /\ rows' = Turned(rows, "answered")
  /\ UNCHANGED <<hooks, trusted, pane, board, used>>

HumanTypes ==
  /\ board.inside /\ pane = "composer" /\ ~Open(rows.turn)
  /\ rows.turn.n < MaxTurns
  /\ rows' = [NextTurn(rows, "active", FALSE) EXCEPT !.proc = "turn_active"]
  /\ UNCHANGED <<hooks, trusted, pane, board, used>>

----------------------------------------------------------------------------
Boot == LaunchSucceeds \/ LaunchDies \/ LaunchIsLate \/ StartupRecovers
        \/ StartupGivesUp
Recover == RecoverLists \/ RecoverAdopts \/ RecoverRecreates
Claude ==
  \/ \E dialog \in {"trust", "login"} : ClaudeShows(dialog)
  \/ ClaudeIsReady \/ ClaudeTakesPrompt \/ ClaudeAsks
  \/ \E kind \in {"result", "error", "blocked"} : ClaudeStops(kind)
User ==
  \/ GrantRepositoryTrust \/ AnswerWorkspaceTrust \/ SendMessage
  \/ InterruptWorker \/ StopWorker \/ Attach
  \/ \E cleared \in BOOLEAN : LeaveSession(cleared)
  \/ HumanAnswersDialog \/ HumanAnswersPrompt \/ HumanTypes

Next ==
  \/ CreateWorker \/ Boot \/ Recover \/ PumpStep \/ WatchObserves
  \/ Crash \/ CrashBeforeCleared \/ StartBoard
  \/ Claude \/ User
  \/ \E said \in BOOLEAN : ClaudeExits(said)

Spec == Init /\ [][Next]_vars

(***************************************************************************)
(* Every wait of a launch ends at its deadline, the loop serves every task *)
(* it has, and Claude gets on with what it has been given.  Nothing makes  *)
(* the user answer, leave or restart the board.                            *)
(***************************************************************************)
Fairness ==
  /\ WF_vars(CreateWorker) /\ WF_vars(Boot) /\ WF_vars(Recover)
  /\ WF_vars(PumpStep) /\ WF_vars(WatchObserves)
  /\ WF_vars(ClaudeIsReady \/ ClaudeTakesPrompt)
FairSpec == Spec /\ Fairness

----------------------------------------------------------------------------
(* Properties *)

(* The values the rows, the board and the pane may take. *)
TypeOK ==
  /\ rows \in Row
  /\ hooks \in Seq(Hook)
  /\ trusted \in BOOLEAN
  /\ pane \in Pane
  /\ board \in Board
  /\ used \in [crashes : 0..MaxCrashes, visits : 0..MaxVisits,
               sends : 0..MaxSends, interrupts : 0..1]

(***************************************************************************)
(* The first prompt is typed once.  A second time takes a board that died  *)
(* before it noted the first, or a second visit of the user during the     *)
(* first wait of the launch (_launch types without asking the preference). *)
(***************************************************************************)
PromptedOnce ==
  rows.typed <= 1 + used.crashes + (IF used.visits > 1 THEN used.visits - 1 ELSE 0)

(***************************************************************************)
(* A prompt is typed into Claude's composer, never into a dialog or a      *)
(* session that is still loading: the row says READY only of such a one.   *)
(***************************************************************************)
PromptLandsInComposer ==
  [][rows'.turn.at = "pending" /\ rows.turn.at # "pending" => pane = "composer"]_vars

(***************************************************************************)
(* A worker that is blocked, and that nothing works on and nobody is in,   *)
(* has an item on the board, unless the user interrupted it or the board   *)
(* was restarted.                                                          *)
(***************************************************************************)
BlockedIsOnTheBoard ==
  /\ Running /\ ~Booting /\ rows.owner = "manager" /\ rows.status = "blocked"
  /\ used.crashes + used.interrupts = 0
  => rows.asked # {}

(* What makes the board lose sight of a prompt it has not delivered. *)
Disturbed ==
  used.crashes + used.sends + used.interrupts > 0 \/ used.visits > 1

(***************************************************************************)
(* The first prompt is not forgotten: it is delivered, or the board asks   *)
(* for the user, or the human keeps the session, or the worker is given up *)
(* in so many words.  A restart of the board, a message sent past it, an   *)
(* interruption and a second visit do make the board forget it.            *)
(***************************************************************************)
PromptIsNotForgotten ==
  rows.pending ~>
    \/ ~rows.pending \/ rows.asked # {} \/ rows.owner = "human" \/ Disturbed
    \/ rows.status \in {"failed", "stopped", "disconnected"}

(***************************************************************************)
(* A stopped worker stays stopped (the statement of enums.py:71, which the *)
(* code does not keep: recover goes by the list it read first).            *)
(***************************************************************************)
StopIsFinal == [][rows.status = "stopped" => rows'.status = "stopped"]_vars
=============================================================================
