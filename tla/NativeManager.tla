--------------------------- MODULE NativeManager ---------------------------
(***************************************************************************)
(* The native Manager: one durable identity whose Claude process is        *)
(* replaced generation by generation, the boards that launch, adopt, rotate*)
(* and enter it, and the bridge through which it calls their tools.        *)
(*                                                                         *)
(* A board is one asyncio loop over the database all boards share.  What it*)
(* does is cut where it makes a tmux round trip, commits a row another     *)
(* board may write, or awaits; ops[b].at says where it is.  While it is not*)
(* idle or waiting for SessionStart the loop is blocked and answers no tool*)
(* call.  The row is the authority lease: runtimes[generation].            *)
(*                                                                         *)
(* Claude, its pane and the user are not under src/ (marked external).  How*)
(* a turn travels through the pane is TurnLane's subject: here a pasted    *)
(* prompt is taken, and a turn of the human's own is left out.  So are the *)
(* text of hand-offs and prompts, and tools that only read.                *)
(***************************************************************************)
EXTENDS Naturals, FiniteSets

CONSTANTS
  NumBoards,       \* board processes over one database
  MaxGenerations,  \* bound on generations minted
  MaxTurns,        \* bound on messages sent to the Manager
  MaxCalls,        \* bound on tool calls the Manager makes
  MaxCrashes,      \* bound on boards that quit or die
  TurnLimit,       \* MAX_MANAGER_TURNS (80 in the code)
  Possible         \* the occurrences of the outside world to reckon with

Occurrence == {
  "dialog",        \* Claude starts on a trust or login prompt
  "exit",          \* the Claude process ends
  "enter",         \* the user enters the Manager's session
  "fresh",         \* the user asks for a fresh manager
  "reconfigured"}  \* a board restarts with another launch configuration

ASSUME ManagerBounds ==
  /\ {NumBoards, MaxGenerations, TurnLimit} \subseteq Nat \ {0}
  /\ {MaxTurns, MaxCalls, MaxCrashes} \subseteq Nat
  /\ Possible \subseteq Occurrence

VARIABLES
  generation, \* generation of current_runtime(manager_id), 0 when there is none
  runtimes,   \* the runtime_instances rows of the Manager
  turns,      \* the native_turns rows
  sent,       \* how many turns there are
  consent,    \* preference manager.approval_turn (and its two siblings)
  blocked,    \* preference manager.blocked_runtime
  pane,       \* the tmux session of each generation, with its metadata
  claude,     \* what the Claude process of each generation is doing
  ops,        \* where each board is, and what it holds in memory there
  waiting,    \* the turn handle() waits for, holding the lock; 0 for none
  servers,    \* PersistentNativeManager._mcp_servers
  conf,       \* the launch configuration of the board process
  listener,   \* the board whose server is bound to the generation's socket path
  conn,       \* the connection of the generation's bridge
  calls,      \* the tool calls
  asked,      \* how many there are
  crashes     \* boards that ended so far

db == <<generation, runtimes, turns, sent, consent, blocked>>
outside == <<pane, claude>>
memory == <<waiting, servers, conf, crashes>>
bridge == <<listener, conn, calls, asked>>
vars == <<db, outside, ops, memory, bridge>>

----------------------------------------------------------------------------
(* Vocabulary *)

Boards == 1..NumBoards
Generations == 1..MaxGenerations
Turns == 1..MaxTurns
Calls == 1..MaxCalls
Configuration == {1, 2}
Owner == {"manager", "human"}
ProcessState == {"absent", "starting", "ready", "turn_active", "turn_complete", "exited"}

(* What the code reads of a RuntimeInstance; bound: substrate is saved.     *)
Runtime == [state : ProcessState, owner : Owner, bound : BOOLEAN,
            fingerprint : {0} \union Configuration]
NewRuntime == [state |-> "absent", owner |-> "manager", bound |-> FALSE, fingerprint |-> 0]

Turn == [generation : {0} \union Generations, consent : BOOLEAN,
         status : {"none", "pending", "active", "completed", "failed"}]
OpenTurns(g) == {t \in Turns : turns[t].generation = g /\ turns[t].status \in {"pending", "active"}}
TurnsOf(g) == {t \in Turns : turns[t].generation = g}
Completed(t) == turns[t].status \in {"completed", "failed"}
Latest(t) == \A u \in TurnsOf(turns[t].generation) : u <= t

(* The tmux session of a generation; dead: the process ended, the pane stays. *)
Pane == [at : {"none", "alive", "dead"}, owner : Owner]
NoPane == [at |-> "none", owner |-> "manager"]
Alive(g) == pane[g].at = "alive"

Claude == [at : {"off", "dialog", "boot", "idle", "prompted", "work"},
           hook : BOOLEAN, seen : Runtime]
Claudeless == [at |-> "off", hook |-> FALSE, seen |-> NewRuntime]

Position == {"down", "idle", "current", "observe", "mint", "revoke", "terminate", "terminated",
             "force", "fingerprint", "create", "bind", "record", "wait", "startup",
             "send", "paste", "claim", "claimed", "inside", "leave", "released"}
Purpose == {"none", "recover", "handle", "fresh", "enter"}
(* gen: the row an operation read, and fit what that copy says: launched as *)
(* this board would, or otherwise and owned by the manager, or by the human.*)
Op == [at : Position, then : Purpose, gen : {0} \union Generations,
       fit : {"exact", "mismatch", "kept"}]
Resting(at) == [at |-> at, then |-> "none", gen |-> 0, fit |-> "exact"]
Begun(at, then) == [Resting(at) EXCEPT !.then = then]

Call == [gen : {0} \union Generations, at : {"none", "open", "write", "sent", "replying", "over"},
         guarded : BOOLEAN, reused : BOOLEAN, again : BOOLEAN, applied : Nat,
         answer : {"none", "result", "refused", "nothing", "unknown", "gone"}]
NoCall == [gen |-> 0, at |-> "none", guarded |-> FALSE, reused |-> FALSE, again |-> FALSE,
           applied |-> 0, answer |-> "none"]
Outstanding(g) == \E c \in Calls : calls[c].gen = g /\ calls[c].at \in {"open", "write", "sent", "replying"}

Init ==
  /\ generation = 0 /\ runtimes = [g \in Generations |-> NewRuntime]
  /\ turns = [t \in Turns |-> [generation |-> 0, consent |-> FALSE, status |-> "none"]]
  /\ sent = 0 /\ consent = 0 /\ blocked = 0
  /\ pane = [g \in Generations |-> NoPane] /\ claude = [g \in Generations |-> Claudeless]
  /\ ops = [b \in Boards |-> Resting("down")] /\ waiting = [b \in Boards |-> 0]
  /\ servers = [b \in Boards |-> {}] /\ conf = [b \in Boards |-> 1]
  /\ listener = [g \in Generations |-> 0]
  /\ conn = [g \in Generations |-> [peer |-> 0, open |-> FALSE]]
  /\ calls = [c \in Calls |-> NoCall] /\ asked = 0
  /\ crashes = 0

At(b, at) == ops[b].at = at
LoopFree(b) == ops[b].at \in {"idle", "wait"}
Go(b, at) == ops' = [ops EXCEPT ![b].at = at]
(* An operation that ends, or raises: the caller shows the message.         *)
End(b) == ops' = [ops EXCEPT ![b] = Resting("idle")]
Set(g, field, value) == runtimes' = [runtimes EXCEPT ![g][field] = value]

(* start_or_recover hands the runtime to whoever called it. *)
Continue(op) ==
  CASE op.then = "handle" -> [op EXCEPT !.at = "send"]
    [] op.then = "enter"  -> [op EXCEPT !.at = "claim"]
    [] OTHER              -> Resting("idle")

(* _ensure_mcp_server: a board that has not served the generation yet takes *)
(* the path over; one that has keeps what it has, bound or not.             *)
Serving(b, g) ==
  /\ servers' = [servers EXCEPT ![b] = @ \union {g}]
  /\ listener' = IF g \in servers[b] THEN listener ELSE [listener EXCEPT ![g] = b]

(* _record: what an observation of tmux writes back to the row, read afresh. *)
RecordedRaw(g) == [runtimes[g] EXCEPT !.state = pane[g].at]  \* mutation
Recorded(g) ==
  IF Alive(g) THEN [runtimes[g] EXCEPT !.owner = pane[g].owner]
  ELSE [runtimes[g] EXCEPT !.state = IF pane[g].at = "none" THEN "absent" ELSE "exited"]

(* A process that ends takes its bridge along; what a board has read of a   *)
(* call it goes on with.                                                    *)
Abandoned(g) ==
  [c \in Calls |-> IF calls[c].gen = g /\ calls[c].at \in {"open", "write"}
                   THEN [calls[c] EXCEPT !.at = "over", !.answer = "gone"] ELSE calls[c]]

----------------------------------------------------------------------------
(* A board and its operations *)

(* The board comes up: a new process, whose first act is _recover.          *)
StartBoard(b) ==
  /\ At(b, "down")
  /\ ops' = [ops EXCEPT ![b] = Begun("current", "recover")]
  /\ \E c \in IF "reconfigured" \in Possible /\ crashes > 0 THEN Configuration ELSE {conf[b]} :
       conf' = [conf EXCEPT ![b] = c]
  /\ UNCHANGED <<db, outside, waiting, servers, crashes, bridge>>

(* Quit or killed: the loop, the sockets and the connections go; tmux stays. *)
Crash(b) ==
  /\ ~At(b, "down") /\ crashes < MaxCrashes
  /\ ops' = [ops EXCEPT ![b] = Resting("down")]
  /\ waiting' = [waiting EXCEPT ![b] = 0] /\ servers' = [servers EXCEPT ![b] = {}]
  /\ listener' = [g \in Generations |-> IF listener[g] = b THEN 0 ELSE listener[g]]
  /\ conn' = [g \in Generations |-> IF conn[g].peer = b THEN [conn[g] EXCEPT !.open = FALSE] ELSE conn[g]]
  /\ crashes' = crashes + 1
  /\ UNCHANGED <<db, outside, conf, calls, asked>>

(* A message, under the lock (and the screen's _busy). *)
Handle(b) ==
  /\ At(b, "idle") /\ waiting[b] = 0 /\ sent < MaxTurns
  /\ ops' = [ops EXCEPT ![b] = Begun("current", "handle")]
  /\ UNCHANGED <<db, outside, memory, bridge>>

(* "fresh manager", or rotate(). *)
FreshManager(b) ==
  /\ "fresh" \in Possible /\ generation < MaxGenerations
  /\ At(b, "idle") /\ waiting[b] = 0
  /\ ops' = [ops EXCEPT ![b] = Begun("revoke", "fresh")]
  /\ UNCHANGED <<db, outside, memory, bridge>>

(* Ctrl+E on the Manager takes no lock: a message may still be waited for.  *)
Enter(b) ==
  /\ "enter" \in Possible
  /\ At(b, "idle")
  /\ ops' = [ops EXCEPT ![b] = Begun("current", "enter")]
  /\ UNCHANGED <<db, outside, memory, bridge>>

----------------------------------------------------------------------------
(* start_or_recover *)

(* There is no generation yet. *)
FindNone(b) ==
  /\ At(b, "current") /\ generation = 0
  /\ Go(b, "mint")
  /\ UNCHANGED <<db, outside, memory, bridge>>

(* Its tmux target was never saved: adopt raises, and so does the           *)
(* supervisor's observe in the handler of that.                             *)
FindUnbound(b) ==
  /\ At(b, "current") /\ generation # 0 /\ ~runtimes[generation].bound
  /\ Serving(b, generation)
  /\ End(b)
  /\ UNCHANGED <<db, outside, waiting, conf, crashes, conn, calls, asked>>

AdoptsAny(b) == "exact"  \* mutation: the fingerprint is not compared
Fit(b) ==
  IF runtimes[generation].fingerprint = conf[b] THEN "exact"
  ELSE IF runtimes[generation].owner = "human" THEN "kept" ELSE "mismatch"
FindBound(b) ==
  /\ At(b, "current") /\ generation # 0 /\ runtimes[generation].bound
  /\ Serving(b, generation)
  /\ ops' = [ops EXCEPT ![b] = [@ EXCEPT
       !.at = "observe", !.gen = generation, !.fit = Fit(b)]]
  /\ UNCHANGED <<db, outside, waiting, conf, crashes, conn, calls, asked>>

(* Adopted; or alive under another configuration, and retired unless the    *)
(* copy read before the round trip says that the user owns it; or lost.     *)
Observe(b) ==
  /\ At(b, "observe")
  /\ LET op == ops[b] IN
     /\ runtimes' = [runtimes EXCEPT ![op.gen] = Recorded(op.gen)]
     /\ ops' = [ops EXCEPT ![b] =
          CASE ~Alive(op.gen) -> [op EXCEPT !.at = "mint", !.fit = "exact"]
            [] Alive(op.gen) /\ op.fit = "exact" -> Continue(op)
            [] Alive(op.gen) /\ op.fit = "kept" -> Resting("idle")
            [] Alive(op.gen) /\ op.fit = "mismatch" -> [op EXCEPT !.at = "revoke", !.fit = "exact"]]
  /\ UNCHANGED <<generation, turns, sent, consent, blocked, outside, memory, bridge>>

----------------------------------------------------------------------------
(* _rotate_unlocked *)

TargetToEndNever(g) == FALSE  \* mutation: the old process is left alone
TargetToEnd(g) == runtimes[g].bound
Revoke(b) ==
  /\ At(b, "revoke")
  /\ IF generation = 0
     THEN Go(b, "force") /\ UNCHANGED runtimes
     ELSE /\ runtimes' = [runtimes EXCEPT ![generation].owner = "human", ![generation].state = "exited"]
          /\ ops' = [ops EXCEPT ![b] = [@ EXCEPT
               !.at = IF TargetToEnd(generation) THEN "terminate" ELSE "force", !.gen = generation]]
  /\ UNCHANGED <<generation, turns, sent, consent, blocked, outside, memory, bridge>>

(* tmux kills the session; a target that is not there any more is ignored.  *)
Terminate(b) ==
  /\ At(b, "terminate")
  /\ LET g == ops[b].gen IN
     IF pane[g].at # "none"
     THEN /\ pane' = [pane EXCEPT ![g] = NoPane] /\ claude' = [claude EXCEPT ![g] = Claudeless]
          /\ calls' = Abandoned(g)
          /\ Go(b, "terminated")
     ELSE Go(b, "force") /\ UNCHANGED <<outside, calls>>
  /\ UNCHANGED <<db, memory, listener, conn, asked>>

Terminated(b) ==
  /\ At(b, "terminated")
  /\ Set(ops[b].gen, "state", "exited")
  /\ Go(b, "force")
  /\ UNCHANGED <<generation, turns, sent, consent, blocked, outside, memory, bridge>>

----------------------------------------------------------------------------
(* _new_generation *)

ExpectedAny(b) == TRUE  \* mutation: no expected_current_id
Expected(b) == generation = ops[b].gen
(* BEGIN IMMEDIATE: read the current row and add the next, or find that     *)
(* another board has and start over.                                        *)
Mint(b) ==
  /\ At(b, "mint") \/ At(b, "force")
  /\ IF At(b, "force") \/ Expected(b)
     THEN /\ generation < MaxGenerations
          /\ generation' = generation + 1
          /\ runtimes' = [runtimes EXCEPT ![generation + 1] = NewRuntime]
          /\ ops' = [ops EXCEPT ![b] = [@ EXCEPT !.at = "fingerprint", !.gen = generation + 1]]
     ELSE Go(b, "current") /\ UNCHANGED <<generation, runtimes>>
  /\ UNCHANGED <<turns, sent, consent, blocked, outside, memory, bridge>>

(* The socket is bound, and the object that was minted saved once more.     *)
SaveFingerprint(b) ==
  /\ At(b, "fingerprint")
  /\ Serving(b, ops[b].gen)
  /\ runtimes' = [runtimes EXCEPT ![ops[b].gen] = [NewRuntime EXCEPT !.fingerprint = conf[b]]]
  /\ Go(b, "create")
  /\ UNCHANGED <<generation, turns, sent, consent, blocked, outside, waiting, conf, crashes,
                 conn, calls, asked>>

(* supervisor.launch, TmuxController.create: the session, with it the Claude *)
(* process, and the metadata. (No other board looks at the session while the *)
(* row has no target.)                                                       *)
CreateSession(b) ==
  /\ At(b, "create")
  /\ pane' = [pane EXCEPT ![ops[b].gen] = [NoPane EXCEPT !.at = "alive"]]
  /\ \E at \in {"boot"} \union (Possible \intersect {"dialog"}) :
       claude' = [claude EXCEPT ![ops[b].gen].at = at]
  /\ Go(b, "bind")
  /\ UNCHANGED <<db, memory, bridge>>

(* _bind_target reads the row again: SessionStart may have been there.      *)
BoundAnew(row) ==  \* mutation: the row read before the launch is saved
  [row EXCEPT !.bound = TRUE, !.owner = "manager", !.state = "starting"]
Bound(row) ==
  [row EXCEPT !.bound = TRUE, !.owner = "manager",
              !.state = IF @ = "absent" THEN "starting" ELSE @]
BindTarget(b) ==
  /\ At(b, "bind")
  /\ runtimes' = [runtimes EXCEPT ![ops[b].gen] = Bound(@)]
  /\ Go(b, "record")
  /\ UNCHANGED <<generation, turns, sent, consent, blocked, outside, memory, bridge>>

RecordLaunch(b) ==
  /\ At(b, "record")
  /\ runtimes' = [runtimes EXCEPT ![ops[b].gen] = Recorded(ops[b].gen)]
  /\ Go(b, "wait")
  /\ UNCHANGED <<generation, turns, sent, consent, blocked, outside, memory, bridge>>

(* _wait_ready saw the SessionStart hook's write. *)
SeeReady(b) ==
  /\ At(b, "wait") /\ runtimes[ops[b].gen].state = "ready"
  /\ blocked' = 0
  /\ ops' = [ops EXCEPT ![b] = Continue(@)]
  /\ UNCHANGED <<generation, runtimes, turns, sent, consent, outside, memory, bridge>>

(* It saw the row exited, or STARTUP_TIMEOUT passed. *)
StartupTimesOut(b) ==
  /\ At(b, "wait") /\ runtimes[ops[b].gen].state # "ready"
  /\ Go(b, "startup")
  /\ UNCHANGED <<db, outside, memory, bridge>>

(* A live process needs a person: say so and stay up. A dead one raises.    *)
StartupObserved(b) ==
  /\ At(b, "startup")
  /\ runtimes' = [runtimes EXCEPT ![ops[b].gen] = Recorded(ops[b].gen)]
  /\ IF Alive(ops[b].gen)
     THEN blocked' = ops[b].gen /\ ops' = [ops EXCEPT ![b] = Continue(@)]
     ELSE End(b) /\ UNCHANGED blocked
  /\ UNCHANGED <<generation, turns, sent, consent, outside, memory, bridge>>

----------------------------------------------------------------------------
(* handle, from the runtime it got *)

(* _reconcile_finished_turn: a turn nobody waited for to the end. *)
Finished(g) == runtimes[g].state = "turn_complete" /\ \E t \in TurnsOf(g) : Latest(t) /\ Completed(t)
Ready(g) == runtimes[g].state = "ready" \/ Finished(g)

RotateAtLimit(b) ==
  /\ At(b, "send") /\ Cardinality(TurnsOf(ops[b].gen)) >= TurnLimit
  /\ Go(b, "revoke")
  /\ UNCHANGED <<db, outside, memory, bridge>>

(* The human owns it, or it is not ready, and the user is told so. *)
Decline(b) ==
  /\ At(b, "send") /\ Cardinality(TurnsOf(ops[b].gen)) < TurnLimit
  /\ runtimes[ops[b].gen].owner = "human" \/ ~Ready(ops[b].gen)
  /\ End(b)
  /\ UNCHANGED <<db, outside, memory, bridge>>

(* _retire_stale_startup_block, and send_managed up to the paste. *)
Reserve(b) ==
  /\ At(b, "send") /\ Cardinality(TurnsOf(ops[b].gen)) < TurnLimit
  /\ LET g == ops[b].gen IN
     /\ runtimes[g].owner = "manager" /\ Ready(g)
     /\ Set(g, "state", "ready")
     /\ blocked' = IF blocked = g THEN 0 ELSE blocked
     /\ IF OpenTurns(g) # {} \/ sent = MaxTurns
        THEN End(b) /\ UNCHANGED <<turns, sent>>
        ELSE /\ sent' = sent + 1
             /\ \E spoken \in BOOLEAN : turns' = [turns EXCEPT ![sent + 1] =
                  [generation |-> g, consent |-> spoken, status |-> "pending"]]
             /\ ops' = [ops EXCEPT ![b].at = "paste"]
  /\ UNCHANGED <<generation, consent, outside, memory, bridge>>

Entered(g) == \E b \in Boards : At(b, "inside") /\ ops[b].gen = g
MyTurn(g) == CHOOSE t \in OpenTurns(g) : TRUE
(* Pasted; the preferences name this turn or nothing; then the reply is     *)
(* waited for. Or tmux refuses, and the turn has failed.                    *)
Paste(b) ==
  /\ At(b, "paste")
  /\ LET g == ops[b].gen IN
     /\ OpenTurns(g) # {}
     /\ IF /\ runtimes[g].owner = "manager" /\ runtimes[g].bound
           /\ Alive(g) /\ pane[g].owner = "manager" /\ ~Entered(g)
        THEN /\ claude' = [claude EXCEPT ![g].at = IF @ = "idle" THEN "prompted" ELSE @]
             /\ consent' = IF turns[MyTurn(g)].consent THEN MyTurn(g) ELSE 0
             /\ waiting' = [waiting EXCEPT ![b] = MyTurn(g)]
             /\ UNCHANGED turns
        ELSE /\ turns' = [turns EXCEPT ![MyTurn(g)].status = "failed"]
             /\ UNCHANGED <<claude, consent, waiting>>
  /\ End(b)
  /\ UNCHANGED <<generation, runtimes, sent, blocked, pane, servers, conf, crashes, bridge>>

(* acknowledge_turn: the lane of a finished turn reopens. *)
Acknowledged(t) ==
  LET g == turns[t].generation IN
  IF Completed(t) /\ Latest(t) /\ runtimes[g].state = "turn_complete"
  THEN [runtimes EXCEPT ![g].state = "ready"] ELSE runtimes

(* The reply. *)
Collect(b) ==
  /\ waiting[b] # 0 /\ LoopFree(b) /\ Completed(waiting[b])
  /\ runtimes' = Acknowledged(waiting[b])
  /\ waiting' = [waiting EXCEPT ![b] = 0]
  /\ UNCHANGED <<generation, turns, sent, consent, blocked, outside, ops, servers, conf, crashes, bridge>>

(* 180 seconds: "still working". *)
GiveUp(b) ==
  /\ waiting[b] # 0 /\ LoopFree(b) /\ ~Completed(waiting[b])
  /\ waiting' = [waiting EXCEPT ![b] = 0]
  /\ UNCHANGED <<db, outside, ops, servers, conf, crashes, bridge>>

----------------------------------------------------------------------------
(* enter and release_human *)

(* claim_human: the tmux half of set_owner. *)
Claim(b) ==
  /\ At(b, "claim")
  /\ IF Alive(ops[b].gen)
     THEN pane' = [pane EXCEPT ![ops[b].gen].owner = "human"] /\ Go(b, "claimed")
     ELSE End(b) /\ UNCHANGED pane
  /\ UNCHANGED <<db, claude, memory, bridge>>

(* The row's half, and the view. In a terminal of another tmux server argv  *)
(* raises and the claim is released.                                        *)
Claimed(b) ==
  /\ At(b, "claimed")
  /\ Set(ops[b].gen, "owner", "human")
  /\ IF Alive(ops[b].gen)
     THEN \E at \in {"inside", "leave"} : Go(b, at)
     ELSE End(b)
  /\ UNCHANGED <<generation, turns, sent, consent, blocked, outside, memory, bridge>>

(* The terminal is back; unless the composer is said to be empty the human  *)
(* keeps the session. release_human is about the generation there is then.  *)
Leave(b) ==
  /\ At(b, "inside")
  /\ ops' = [ops EXCEPT ![b] = [@ EXCEPT !.at = "leave", !.gen = generation]] \/ End(b)
  /\ UNCHANGED <<db, outside, memory, bridge>>

Release(b) ==
  /\ At(b, "leave")
  /\ IF runtimes[ops[b].gen].bound /\ Alive(ops[b].gen)
     THEN pane' = [pane EXCEPT ![ops[b].gen].owner = "manager"] /\ Go(b, "released")
     ELSE End(b) /\ UNCHANGED pane
  /\ UNCHANGED <<db, claude, memory, bridge>>

(* The row's half; a turn that finished meanwhile is acknowledged. *)
Released(b) ==
  /\ At(b, "released")
  /\ runtimes' = [runtimes EXCEPT ![ops[b].gen].owner = "manager",
                                  ![ops[b].gen].state = IF Finished(ops[b].gen) THEN "ready" ELSE @]
  /\ End(b)
  /\ UNCHANGED <<generation, turns, sent, consent, blocked, outside, memory, bridge>>

----------------------------------------------------------------------------
(* Claude, its hooks and the user *)

(* The user, inside, answers the prompt that blocks SessionStart. *)
AnswerDialog(g) ==
  /\ claude[g].at = "dialog" /\ Entered(g)
  /\ claude' = [claude EXCEPT ![g].at = "boot"]
  /\ UNCHANGED <<db, pane, ops, memory, bridge>>

(* The process ends; tmux keeps the dead pane. *)
Exit(g) ==
  /\ "exit" \in Possible /\ pane[g].at = "alive"
  /\ pane' = [pane EXCEPT ![g].at = "dead"]
  /\ claude' = [claude EXCEPT ![g] = Claudeless]
  /\ calls' = Abandoned(g)
  /\ UNCHANGED <<db, ops, memory, listener, conn, asked>>

(* A hook process starts: SessionStart, UserPromptSubmit or Stop. It reads  *)
(* the row, and Claude waits for it.                                        *)
HookReads(g) ==
  /\ claude[g].at \in {"boot", "prompted", "work"} /\ ~claude[g].hook
  /\ claude[g].at = "work" => ~Outstanding(g)
  /\ claude' = [claude EXCEPT ![g].hook = TRUE, ![g].seen = runtimes[g]]
  /\ UNCHANGED <<db, pane, ops, memory, bridge>>

(* It saves the turn, then the whole row it read. *)
SessionStart(g) ==
  /\ claude[g].at = "boot" /\ claude[g].hook
  /\ runtimes' = [runtimes EXCEPT ![g] = [claude[g].seen EXCEPT !.state = "ready"]]
  /\ claude' = [claude EXCEPT ![g] = [Claudeless EXCEPT !.at = "idle"]]
  /\ UNCHANGED <<generation, turns, sent, consent, blocked, pane, ops, memory, bridge>>

UserPromptSubmit(g) ==
  /\ claude[g].at = "prompted" /\ claude[g].hook
  /\ turns' = [t \in Turns |-> IF t \in OpenTurns(g) THEN [turns[t] EXCEPT !.status = "active"] ELSE turns[t]]
  /\ runtimes' = [runtimes EXCEPT ![g] = [claude[g].seen EXCEPT !.state = "turn_active"]]
  /\ claude' = [claude EXCEPT ![g] = [Claudeless EXCEPT !.at = "work"]]
  /\ UNCHANGED <<generation, sent, consent, blocked, pane, ops, memory, bridge>>

Stop(g) ==
  /\ claude[g].at = "work" /\ claude[g].hook
  /\ turns' = [t \in Turns |-> IF t \in OpenTurns(g) THEN [turns[t] EXCEPT !.status = "completed"] ELSE turns[t]]
  /\ runtimes' = [runtimes EXCEPT ![g] = [claude[g].seen EXCEPT !.state = "turn_complete"]]
  /\ claude' = [claude EXCEPT ![g] = [Claudeless EXCEPT !.at = "idle"]]
  /\ UNCHANGED <<generation, sent, consent, blocked, pane, ops, memory, bridge>>

----------------------------------------------------------------------------
(* The bridge of a generation: one call at a time (_Bridge.exchange) *)

(* Claude calls a tool; guarded: approve_plan, stop_worker,                 *)
(* trust_repository_worktrees, the ones that need the user's own words.     *)
CallTool(g) ==
  /\ claude[g].at = "work" /\ ~claude[g].hook /\ ~Outstanding(g) /\ asked < MaxCalls
  /\ asked' = asked + 1
  /\ \E guarded \in BOOLEAN : calls' =
       [calls EXCEPT ![asked + 1] = [NoCall EXCEPT !.gen = g, !.at = "open", !.guarded = guarded]]
  /\ UNCHANGED <<db, outside, ops, memory, listener, conn>>

Peer(c) == conn[calls[c].gen].peer
Linked(c) == conn[calls[c].gen].open
Advance(c, at) == [calls EXCEPT ![c].at = at]
Answer(c, answer) == [calls EXCEPT ![c].at = "over", ![c].answer = answer]
Unlinked(c) == conn' = [conn EXCEPT ![calls[c].gen] = [peer |-> 0, open |-> FALSE]]

(* _open: the connection is still good. *)
Reuse(c) ==
  /\ calls[c].at = "open" /\ Linked(c)
  /\ calls' = [calls EXCEPT ![c].at = "write", ![c].reused = TRUE]
  /\ UNCHANGED <<db, outside, ops, memory, listener, conn, asked>>

(* _open: a new one, to whoever has the path. *)
Connect(c) ==
  /\ calls[c].at = "open" /\ ~Linked(c) /\ listener[calls[c].gen] # 0
  /\ conn' = [conn EXCEPT ![calls[c].gen] = [peer |-> listener[calls[c].gen], open |-> TRUE]]
  /\ calls' = [calls EXCEPT ![c].at = "write", ![c].reused = FALSE]
  /\ UNCHANGED <<db, outside, ops, memory, listener, asked>>

(* RECONNECT_TIMEOUT without a board on the path. *)
Unreachable(c) ==
  /\ calls[c].at = "open" /\ ~Linked(c) /\ listener[calls[c].gen] = 0
  /\ calls' = Answer(c, "nothing")
  /\ UNCHANGED <<db, outside, ops, memory, listener, conn, asked>>

Write(c) ==
  /\ calls[c].at = "write" /\ Linked(c)
  /\ calls' = Advance(c, "sent")
  /\ UNCHANGED <<db, outside, ops, memory, listener, conn, asked>>

(* The write fails: one resend, and only on a connection that was reused.   *)
WriteFails(c) ==
  /\ calls[c].at = "write" /\ ~Linked(c)
  /\ Unlinked(c)
  /\ calls' = IF calls[c].reused /\ ~calls[c].again
              THEN [calls EXCEPT ![c].at = "open", ![c].again = TRUE] ELSE Answer(c, "nothing")
  /\ UNCHANGED <<db, outside, ops, memory, listener, asked>>

(* ManagerTools.authorize, then the check of the tool itself. *)
Authorized(g) == g = generation /\ runtimes[g].state # "exited"
SpokenOnce(g) == OpenTurns(g) # {}  \* mutation: the preference is not compared
Spoken(g) == \E t \in OpenTurns(g) : consent = t
Granted(c) == Authorized(calls[c].gen) /\ (calls[c].guarded => Spoken(calls[c].gen))
(* The board reads the request and applies it, or refuses. *)
Serve(c) ==
  /\ calls[c].at = "sent" /\ Linked(c) /\ LoopFree(Peer(c))
  /\ calls' = [calls EXCEPT ![c].at = "replying",
                            ![c].applied = IF Granted(c) THEN @ + 1 ELSE @,
                            ![c].answer = IF Granted(c) THEN "result" ELSE "refused"]
  /\ UNCHANGED <<db, outside, ops, memory, listener, conn, asked>>

Reply(c) ==
  /\ calls[c].at = "replying" /\ Linked(c) /\ LoopFree(Peer(c))
  /\ calls' = Advance(c, "over")
  /\ UNCHANGED <<db, outside, ops, memory, listener, conn, asked>>

(* The board closed the connection after it took the request. *)
LoseReplyResends(c) ==  \* mutation: the request is sent again
  /\ calls[c].at \in {"sent", "replying"} /\ ~Linked(c)
  /\ Unlinked(c)
  /\ calls' = [calls EXCEPT ![c].at = "open", ![c].answer = "none"]
  /\ UNCHANGED <<db, outside, ops, memory, listener, asked>>
LoseReplyUnread(c) == calls[c].at = "sent" /\ ~Linked(c) /\ Unlinked(c)  \* mutation: no end of file
  /\ calls' = Answer(c, "unknown") /\ UNCHANGED <<db, outside, ops, memory, listener, asked>>
LoseReply(c) ==
  /\ calls[c].at \in {"sent", "replying"} /\ ~Linked(c)
  /\ Unlinked(c)
  /\ calls' = Answer(c, "unknown")
  /\ UNCHANGED <<db, outside, ops, memory, listener, asked>>

----------------------------------------------------------------------------
(* The specification *)

StartOrRecover(b) == FindNone(b) \/ FindUnbound(b) \/ FindBound(b) \/ Observe(b)
Rotate(b) == Revoke(b) \/ Terminate(b) \/ Terminated(b)
NewGeneration(b) ==
  \/ Mint(b) \/ SaveFingerprint(b) \/ CreateSession(b) \/ BindTarget(b)
  \/ RecordLaunch(b) \/ SeeReady(b) \/ StartupTimesOut(b) \/ StartupObserved(b)
Deliver(b) == RotateAtLimit(b) \/ Decline(b) \/ Reserve(b) \/ Paste(b)
Hold(b) == Claim(b) \/ Claimed(b) \/ Leave(b) \/ Release(b) \/ Released(b)
Progress(b) == StartOrRecover(b) \/ Rotate(b) \/ NewGeneration(b) \/ Deliver(b) \/ Hold(b)
Await(b) == Collect(b) \/ GiveUp(b)
Hook(g) == HookReads(g) \/ SessionStart(g) \/ UserPromptSubmit(g) \/ Stop(g)
Exchange(c) ==
  Reuse(c) \/ Connect(c) \/ Unreachable(c) \/ Write(c) \/ WriteFails(c) \/ Serve(c) \/ Reply(c) \/ LoseReply(c)

Next ==
  \/ \E b \in Boards :
       \/ StartBoard(b) \/ Crash(b) \/ Handle(b) \/ FreshManager(b) \/ Enter(b)
       \/ Progress(b) \/ Await(b)
  \/ \E g \in Generations : AnswerDialog(g) \/ Exit(g) \/ Hook(g) \/ CallTool(g)
  \/ \E c \in Calls : Exchange(c)

Spec == Init /\ [][Next]_vars

(* A board that is down is started again, its loop goes on, the terminal    *)
(* that entered comes back; hooks and the bridge run. asyncio turns to every *)
(* ready connection whenever it is not blocked, however often the terminal  *)
(* is handed over in between. Nobody is assumed to send, to ask for         *)
(* anything, or to answer a dialog.                                         *)
Fairness ==
  /\ \A b \in Boards : WF_vars(StartBoard(b)) /\ WF_vars(Progress(b)) /\ WF_vars(Await(b))
  /\ \A g \in Generations : WF_vars(Hook(g))
  /\ \A c \in Calls : WF_vars(Exchange(c)) /\ SF_vars(Serve(c) \/ Reply(c))
FairSpec == Spec /\ Fairness

----------------------------------------------------------------------------
(* Properties *)

(* Every row keeps to its type. *)
TypeOK ==
  /\ generation \in 0..MaxGenerations /\ runtimes \in [Generations -> Runtime]
  /\ turns \in [Turns -> Turn] /\ sent \in 0..MaxTurns
  /\ consent \in 0..MaxTurns /\ blocked \in 0..MaxGenerations
  /\ pane \in [Generations -> Pane] /\ claude \in [Generations -> Claude]
  /\ ops \in [Boards -> Op]
  /\ waiting \in [Boards -> 0..MaxTurns] /\ servers \in [Boards -> SUBSET Generations]
  /\ conf \in [Boards -> Configuration]
  /\ listener \in [Generations -> 0..NumBoards]
  /\ conn \in [Generations -> [peer : 0..NumBoards, open : BOOLEAN]]
  /\ calls \in [Calls -> Call] /\ asked \in 0..MaxCalls
  /\ crashes \in Nat

(* What the Manager is told of a call is true, and a call takes effect at   *)
(* most once: quitting boards, resends and reconnections included.          *)
AnswersAreTrue ==
  \A c \in Calls :
    /\ calls[c].applied <= 1
    /\ calls[c].answer \in {"nothing", "refused"} => calls[c].applied = 0
    /\ calls[c].answer = "result" => calls[c].applied = 1

(* A tool that needs the user's own words takes effect only in a turn whose *)
(* message has them: not on the strength of an earlier message, whoever     *)
(* waited for that, and whatever generation it went to.                     *)
ConsentIsCurrent ==
  [][\A c \in Calls : calls'[c].applied > calls[c].applied /\ calls[c].guarded
       => \E t \in OpenTurns(calls[c].gen) : turns[t].consent]_vars

(* Recovery replaces a generation only when its process is not there any    *)
(* more: two boards that find it lost mint one successor, not two.          *)
OnlyLostIsReplaced ==
  [][generation' > generation /\ generation > 0
       => (\E b \in Boards : At(b, "force")) \/ ~Alive(generation)]_vars

(* No write of a board takes a SessionStart back: it will not come again.   *)
StartIsKept ==
  [][\A g \in Generations : runtimes[g].state = "ready" /\ pane[g].at = "alive"
       => runtimes'[g].state \notin {"absent", "starting"}]_vars

(* Every call is answered in the end, if its Claude lives to read it.       *)
EveryCallIsAnswered ==
  \A c \in Calls : calls[c].at = "open" ~>
    calls[c].at = "over" \/ \E b \in Boards : ops[b].at \in {"mint", "force"} /\ generation = MaxGenerations

(* With one board, a generation that was replaced has no process left, but  *)
(* for one whose launch was cut short before its target was saved: rotation *)
(* ends the old process before it mints, also when it is begun over.        *)
OneLiveManager ==
  \A g \in Generations : g < generation /\ Alive(g) => ~runtimes[g].bound

(* A board sends messages only to a process that was launched the way it    *)
(* would launch one itself, whichever board launched or rotated it.         *)
AdoptedIsExact ==
  [][\A t \in Turns : turns[t].status = "none" /\ turns'[t].status = "pending"
       => \E b \in Boards : At(b, "send") /\ runtimes[turns'[t].generation].fingerprint = conf[b]]_vars

----------------------------------------------------------------------------
(* What the documentation says, and the code does not keep                  *)

(* "If the tmux half is exact but Python died before saving the opaque      *)
(* target, recovery repairs the durable half and adopts it." The adoption   *)
(* the Manager and the workers use asks for the target first, and raises.   *)
LaunchIsRepaired ==
  \A g \in Generations : Alive(g) /\ ~runtimes[g].bound ~> ~Alive(g) \/ runtimes[g].bound

(* "closes autonomous input before teardown": no message goes to a          *)
(* generation that is not the current one. A launch of it that still goes   *)
(* on names the manager its owner again, and SessionStart makes it ready.   *)
NoTurnForRetired ==
  [][\A t \in Turns : turns[t].status = "none" /\ turns'[t].status = "pending"
       => turns'[t].generation = generation]_vars

(* A mismatched process is not replaced while the user is inside: the owner *)
(* that is tested was read before the round trip, not after it.             *)
HumanIsNotThrownOut ==
  [][\A b \in Boards : Terminate(b) /\ ops[b].then # "fresh" => ~Entered(ops[b].gen)]_vars

(* A board that serves a generation is reachable on its path. Another board *)
(* takes the path over, and leaves nobody on it when it quits.              *)
ServersAreReachable == \A b \in Boards : \A g \in servers[b] : listener[g] # 0
=============================================================================
