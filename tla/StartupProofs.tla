--------------------------- MODULE StartupProofs ---------------------------
(***************************************************************************)
(* Proofs about a worker's start, for every bound and every choice of      *)
(* Possible: type correctness, that a prompt is only ever typed into       *)
(* Claude's composer, that the first prompt is typed once, and that a      *)
(* blocked worker has an item on the board.                                *)
(***************************************************************************)
EXTENDS WorkerStartup, SequenceTheorems, TLAPS

----------------------------------------------------------------------------
(* What the handlers make of a row is a row *)

LEMMA RowSteps ==
  ASSUME NEW r \in Row
  PROVE
    /\ \A kind \in Kind : Asking(r, kind) \in Row /\ Blocked(r, kind) \in Row
    /\ \A kinds \in SUBSET Kind :
         Answered(r, kinds) \in Row /\ [r EXCEPT !.asked = kinds] \in Row
    /\ \A status \in Status : Became(r, status) \in Row
    /\ \A at \in TurnAt : Turned(r, at) \in Row
    /\ \A at \in TurnAt, mine \in BOOLEAN : NextTurn(r, at, mine) \in Row
    /\ \A proc \in Process : [r EXCEPT !.proc = proc] \in Row
    /\ \A owner \in {"manager", "human"} : [r EXCEPT !.owner = owner] \in Row
    /\ \A pending \in BOOLEAN : [r EXCEPT !.pending = pending] \in Row
<1>1. /\ \A kind \in Kind : Asking(r, kind) \in Row
      /\ \A kinds \in SUBSET Kind :
           Answered(r, kinds) \in Row /\ [r EXCEPT !.asked = kinds] \in Row
  BY DEF Asking, Answered, Row
<1>2. /\ \A status \in Status : Became(r, status) \in Row
      /\ \A kind \in Kind : Blocked(r, kind) \in Row
  <2>1. "blocked" \in Status
    BY DEF Status
  <2> QED BY <2>1 DEF Became, Blocked, Row
<1>3. \A at \in TurnAt : Turned(r, at) \in Row
  BY DEF Turned, Row
<1>4. \A at \in TurnAt, mine \in BOOLEAN : NextTurn(r, at, mine) \in Row
  BY DEF NextTurn, Row
<1>5. /\ \A proc \in Process : [r EXCEPT !.proc = proc] \in Row
      /\ \A owner \in {"manager", "human"} : [r EXCEPT !.owner = owner] \in Row
      /\ \A pending \in BOOLEAN : [r EXCEPT !.pending = pending] \in Row
  BY DEF Row
<1> QED BY <1>1, <1>2, <1>3, <1>4, <1>5

LEMMA Words ==
  /\ {"failed", "stopped", "blocked", "idle", "working", "disconnected"} \subseteq Status
  /\ {"permission", "decision", "failed"} \subseteq Kind
  /\ {"absent", "starting", "ready", "turn_active", "waiting", "turn_complete",
      "exited"} \subseteq Process
  /\ {"pending", "active", "asking", "answered", "interrupting", "done",
      "interrupted"} \subseteq TurnAt
BY DEF Status, Kind, Process, TurnAt

LEMMA AcknowledgedType ==
  ASSUME NEW r \in Row
  PROVE  Acknowledged(r) \in Row
BY RowSteps, Words DEF Acknowledged

LEMMA TypedType ==
  ASSUME NEW r \in Row
  PROVE  Typed(r) \in Row /\ FirstTyped(r) \in Row
<1>1. Typed(r) \in Row
  BY RowSteps, Words DEF Typed
<1>2. FirstTyped(r) \in Row
  BY <1>1 DEF FirstTyped, Row
<1> QED BY <1>1, <1>2

LEMMA SendsType ==
  ASSUME NEW r \in Row, NEW first \in BOOLEAN
  PROVE  Sends(r, first) \in Row
<1> DEFINE a == Acknowledged(r)
           typed == IF first THEN FirstTyped(a) ELSE Typed(a)
           failing == IF board.session # "none" /\ a.proc = "ready"
                      THEN NextTurn(a, "done", TRUE) ELSE a
<1>1. a \in Row
  BY AcknowledgedType
<1>2. typed \in Row /\ failing \in Row
  BY <1>1, TypedType, RowSteps, Words
<1>3. Became(typed, "working") \in Row /\ Became(failing, "disconnected") \in Row
  BY <1>2, RowSteps, Words
<1> HIDE DEF typed, failing
<1>4. [Became(typed, "working") EXCEPT !.asked = {}] \in Row
  BY <1>3, RowSteps
<1>5. [Became(failing, "disconnected") EXCEPT !.proc = "waiting"] \in Row
  BY <1>3, RowSteps, Words
<1> QED BY <1>4, <1>5 DEF Sends, typed, failing

LEMMA ResumedType ==
  ASSUME NEW r \in Row
  PROVE  Resumed(r) \in Row
<1>1. Sends(r, TRUE) \in Row
  BY SendsType
<1>2. [Sends(r, TRUE) EXCEPT !.pending = (Sends(r, TRUE).status = "disconnected")] \in Row
  BY <1>1 DEF Row
<1> QED BY <1>2 DEF Resumed

LEMMA FailedProcType ==
  ASSUME rows \in Row
  PROVE  FailedProc \in Process /\ [rows EXCEPT !.proc = FailedProc] \in Row
<1>1. FailedProc \in Process
  BY Words DEF FailedProc
<1> QED BY <1>1, RowSteps

LEMMA RecoveredType ==
  ASSUME NEW r \in Row, NEW ok \in BOOLEAN
  PROVE  Recovered(r, ok) \in Row
<1>1. Became(r, "idle") \in Row /\ Became(r, "disconnected") \in Row
  BY RowSteps, Words
<1>2. Answered(Became(r, "idle"), {"permission"}) \in Row
  BY <1>1, RowSteps, Words
<1> QED BY <1>1, <1>2 DEF Recovered

LEMMA BootEndsType ==
  ASSUME board \in Board, NEW r \in Row, NEW ok \in BOOLEAN, NEW pump \in BOOLEAN,
         BootEnds(r, ok, pump)
  PROVE  rows' \in Row /\ board' \in Board
<1>1. rows' \in Row
  BY RecoveredType DEF BootEnds
<1>2. board' \in Board
  BY DEF BootEnds, Board
<1> QED BY <1>1, <1>2

LEMMA AppliedType ==
  ASSUME NEW r \in Row, NEW e \in Hook
  PROVE  Applied(r, e) \in Row
<1>1. \A proc \in Process, kind \in Kind, kinds \in SUBSET Kind :
        /\ [r EXCEPT !.proc = proc, !.why = kind] \in Row
        /\ [r EXCEPT !.proc = proc, !.asked = kinds] \in Row
  BY DEF Row
<1>2. Became([r EXCEPT !.proc = "exited"], "stopped") \in Row
  BY RowSteps, Words
<1>3. Became(Asking([r EXCEPT !.proc = "waiting", !.why = "permission"], "permission"),
             "blocked") \in Row
  BY <1>1, RowSteps, Words
<1>4. Became(Asking([r EXCEPT !.proc = "waiting", !.why = "decision"], "decision"),
             "blocked") \in Row
  BY <1>1, RowSteps, Words
<1>5. Became([r EXCEPT !.proc = "turn_complete", !.asked = {"failed"}], "failed") \in Row
  BY <1>1, RowSteps, Words
<1>6. Became(Asking([r EXCEPT !.proc = "exited"], "failed"), "failed") \in Row
  BY RowSteps, Words
<1>7. Became([r EXCEPT !.proc = "turn_complete", !.asked = {}], "idle") \in Row
  BY <1>1, RowSteps, Words
<1>8. e.kind \in Event
  BY DEF Hook
<1> QED BY <1>2, <1>3, <1>4, <1>5, <1>6, <1>7, <1>8 DEF Applied, Event

(* The hooks the tables hold are hooks. *)
LEMMA DurableType ==
  ASSUME NEW events \in Seq(Hook)
  PROVE  Durable(events) \in Seq(Hook)
<1>1. CASE events = <<>>
  BY <1>1 DEF Durable
<1>2. CASE events # <<>>
  <2>1. Len(events) \in Nat \ {0}
    BY <1>2, LenProperties, EmptySeq
  <2>2. SubSeq(events, 1, Len(events) - 1) \in Seq(Hook)
    <3>1. \A i \in 1..(Len(events) - 1) : events[i] \in Hook
      BY <2>1, ElementOfSeq
    <3> QED BY <2>1, <3>1, SubSeqProperties
  <2> QED BY <2>2 DEF Durable
<1> QED BY <1>1, <1>2

----------------------------------------------------------------------------
(* Type correctness *)

LEMMA TypeInitial == Init => TypeOK
<1> SUFFICES ASSUME Init
             PROVE  TypeOK
  OBVIOUS
<1>1. rows \in Row
  BY DEF Init, Row, NoTurn, Status, Kind, Process, TurnAt
<1>2. board \in Board
  BY DEF Init, Board, Down
<1>3. used \in [crashes : 0..MaxCrashes, visits : 0..MaxVisits,
                sends : 0..MaxSends, interrupts : 0..1]
  BY StartupBounds DEF Init
<1>4. hooks \in Seq(Hook) /\ trusted \in BOOLEAN /\ pane \in Pane
  BY EmptySeq DEF Init, Pane
<1> QED BY <1>1, <1>2, <1>3, <1>4 DEF TypeOK

LEMMA StartBackendType ==
  ASSUME TypeOK, NEW first \in BOOLEAN, NEW recovery \in {"none", "at"},
         StartBackend(first, recovery)
  PROVE  TypeOK'
<1>1. rows' \in Row
  <2>1. NoTurn \in [at : TurnAt, mine : BOOLEAN, n : Nat]
    BY DEF NoTurn, TurnAt
  <2>2. "starting" \in Process
    BY Words
  <2>3. rows' = [rows EXCEPT !.proc = "starting", !.owner = "manager",
                             !.turn = NoTurn, !.pending = @ \/ first]
    BY DEF StartBackend
  <2> HIDE DEF StartBackend
  <2> QED BY <2>1, <2>2, <2>3 DEF TypeOK, Row
<1>2. board' \in Board
  BY DEF StartBackend, TypeOK, Board
<1>3. hooks' \in Seq(Hook) /\ pane' \in Pane
  BY EmptySeq DEF StartBackend, Pane
<1> QED BY <1>1, <1>2, <1>3 DEF StartBackend, TypeOK

LEMMA LaunchIsLateType ==
  ASSUME TypeOK, LaunchIsLate
  PROVE  TypeOK'
<1> DEFINE r == Blocked([rows EXCEPT !.proc = FailedProc], "decision")
<1> USE DEF TypeOK
<1>1. [rows EXCEPT !.proc = FailedProc] \in Row
  BY FailedProcType
<1>2. r \in Row /\ Asking(r, "permission") \in Row
  BY <1>1, RowSteps, Words
<1> HIDE DEF r
<1>3. rows' \in Row /\ board' \in Board /\ pane' \in Pane
  <2>1. CASE BootEnds([rows EXCEPT !.proc = FailedProc], FALSE, board.pump) /\ UNCHANGED pane
    <3>1. board.pump \in BOOLEAN
      BY DEF Board
    <3> QED BY <1>1, <2>1, <3>1, BootEndsType
  <2>2. CASE SecondChance(r)
    <3>1. board.pump \in BOOLEAN
      BY DEF Board
    <3>2. CASE BootEnds(Asking(r, "permission"), FALSE, TRUE) /\ UNCHANGED pane
      BY <1>2, <3>2, BootEndsType
    <3>3. CASE BootEnds(r, FALSE, board.pump) /\ UNCHANGED pane
      BY <1>2, <3>1, <3>3, BootEndsType
    <3>4. CASE rows' = r /\ pane' = "accepted" /\ board' = [board EXCEPT !.boot = "answered"]
      BY <1>2, <3>4 DEF Board, Pane
    <3>5. CASE rows' = r /\ board' = [board EXCEPT !.boot = "slow"] /\ UNCHANGED pane
      BY <1>2, <3>5 DEF Board
    <3> QED BY <2>2, <3>2, <3>3, <3>4, <3>5 DEF SecondChance
  <2> QED BY <2>1, <2>2 DEF LaunchIsLate, r
<1> QED BY <1>3 DEF LaunchIsLate

LEMMA BootType ==
  ASSUME TypeOK, Boot
  PROVE  TypeOK'
<1> USE DEF TypeOK
<1>1. board.pump \in BOOLEAN
  BY DEF Board
<1>2. CASE LaunchSucceeds
  <2> DEFINE typed == IF board.first THEN [FirstTyped(rows) EXCEPT !.pending = FALSE]
                      ELSE rows
             ok == Permitted(rows.status, "working")
             became == IF ok THEN Became(typed, "working") ELSE typed
  <2>1. typed \in Row
    BY TypedType, RowSteps
  <2> HIDE DEF typed
  <2>2. became \in Row
    BY <2>1, RowSteps, Words
  <2>3. ok \in BOOLEAN
    BY DEF Permitted
  <2> HIDE DEF became, ok
  <2>4. BootEnds(became, ok, ok \/ board.pump)
    BY <1>2 DEF LaunchSucceeds, typed, became, ok
  <2>5. (ok \/ board.pump) \in BOOLEAN
    BY <2>3, <1>1
  <2>6. rows' \in Row /\ board' \in Board
    BY <2>2, <2>3, <2>4, <2>5, BootEndsType
  <2> QED BY <1>2, <2>6 DEF LaunchSucceeds
<1>3. CASE LaunchDies
  <2> DEFINE r == [rows EXCEPT !.proc = FailedProc]
             became == IF Permitted(r.status, "failed") THEN Became(r, "failed") ELSE r
  <2>1. r \in Row
    BY FailedProcType
  <2> HIDE DEF r
  <2>2. became \in Row
    BY <2>1, RowSteps, Words
  <2> HIDE DEF became
  <2>3. BootEnds(became, FALSE, board.pump)
    BY <1>3 DEF LaunchDies, r, became
  <2>4. rows' \in Row /\ board' \in Board
    BY <1>1, <2>2, <2>3, BootEndsType
  <2> QED BY <1>3, <2>4 DEF LaunchDies
<1>4. CASE LaunchIsLate
  BY <1>4, LaunchIsLateType
<1>5. CASE StartupRecovers
  <2> DEFINE r == Became(Answered(rows, {"permission"}), "working")
  <2>1. r \in Row
    BY RowSteps, Words
  <2> HIDE DEF r
  <2>2. Resumed(r) \in Row
    BY <2>1, ResumedType
  <2>3. (~Resumed(r).pending) \in BOOLEAN
    OBVIOUS
  <2>4. BootEnds(Resumed(r), ~Resumed(r).pending, TRUE)
    BY <1>5 DEF StartupRecovers, r
  <2>5. rows' \in Row /\ board' \in Board
    BY <2>2, <2>3, <2>4, BootEndsType
  <2> QED BY <1>5, <2>5 DEF StartupRecovers
<1>6. CASE StartupGivesUp
  <2>1. Asking(rows, "permission") \in Row
    BY RowSteps, Words
  <2>2. (board.session # "none") \in BOOLEAN
    OBVIOUS
  <2>3. rows' \in Row /\ board' \in Board
    BY <1>6, <2>1, <2>2, BootEndsType DEF StartupGivesUp
  <2> QED BY <1>6, <2>3 DEF StartupGivesUp
<1> QED BY <1>2, <1>3, <1>4, <1>5, <1>6 DEF Boot

LEMMA RecoverType ==
  ASSUME TypeOK, Recover
  PROVE  TypeOK'
<1> USE DEF TypeOK
<1>1. CASE RecoverLists
  BY <1>1 DEF RecoverLists, Board
<1>2. CASE RecoverAdopts
  <2> DEFINE told == \E i \in DOMAIN hooks : /\ hooks[i].turn = rows.turn.n
                                            /\ hooks[i].kind # "permission"
             r == IF told THEN rows ELSE Acknowledged(rows)
             why == IF rows.status = "blocked" THEN rows.why ELSE "decision"
  <2>1. r \in Row
    BY AcknowledgedType
  <2>2. why \in Kind
    BY Words DEF Row
  <2> HIDE DEF told, r, why
  <2>3. Became(r, "working") \in Row /\ Blocked(r, why) \in Row /\ Became(r, "idle") \in Row
    BY <2>1, <2>2, RowSteps, Words
  <2>4. Answered(Became(r, "idle"), {"permission"}) \in Row
    BY <2>3, RowSteps, Words
  <2>5. rows' \in {Became(r, "working"), Blocked(r, why),
                   Answered(Became(r, "idle"), {"permission"})}
    BY <1>2 DEF RecoverAdopts, told, r, why
  <2>6. board' \in Board
    BY <1>2 DEF RecoverAdopts, Board
  <2> QED BY <1>2, <2>3, <2>4, <2>5, <2>6 DEF RecoverAdopts
<1>3. CASE RecoverRecreates
  <2>1. CASE rows.owner = "human"
    <3>1. Became(rows, "disconnected") \in Row
      BY RowSteps, Words
    <3>2. rows' \in Row
      BY <1>3, <2>1, <3>1, RowSteps, Words DEF RecoverRecreates
    <3> QED BY <1>3, <2>1, <3>2 DEF RecoverRecreates, Board
  <2>2. CASE rows.owner # "human"
    BY <1>3, <2>2, StartBackendType DEF RecoverRecreates
  <2> QED BY <2>1, <2>2
<1> QED BY <1>1, <1>2, <1>3 DEF Recover

LEMMA PumpType ==
  ASSUME TypeOK, PumpStep \/ WatchObserves
  PROVE  TypeOK'
<1> USE DEF TypeOK
<1>1. CASE PumpStep
  <2>1. Head(hooks) \in Hook /\ Tail(hooks) \in Seq(Hook)
    BY <1>1, HeadTailProperties DEF PumpStep
  <2>2. Applied(rows, Head(hooks)) \in Row /\ Acknowledged(Applied(rows, Head(hooks))) \in Row
    BY <2>1, AppliedType, AcknowledgedType
  <2> QED BY <1>1, <2>1, <2>2 DEF PumpStep
<1>2. CASE WatchObserves
  <2>1. rows' \in Row
    BY <1>2, RowSteps, Words DEF WatchObserves
  <2>2. [kind |-> "failed", turn |-> 0] \in Hook
    BY DEF Hook, Event
  <2>3. hooks' \in Seq(Hook)
    BY <1>2, <2>2, AppendProperties DEF WatchObserves
  <2>4. board' \in Board
    BY <1>2 DEF WatchObserves, Board
  <2> QED BY <1>2, <2>1, <2>3, <2>4 DEF WatchObserves
<1> QED BY <1>1, <1>2

LEMMA CrashType ==
  ASSUME TypeOK, Crash \/ CrashBeforeCleared \/ StartBoard
  PROVE  TypeOK'
<1> USE DEF TypeOK
<1>1. Durable(hooks) \in Seq(Hook)
  BY DurableType
<1>2. Down \in Board /\ [Down EXCEPT !.up = TRUE, !.recovery = "due"] \in Board
  BY DEF Down, Board
<1>3. CASE Crash
  <2>1. used' \in [crashes : 0..MaxCrashes, visits : 0..MaxVisits,
                   sends : 0..MaxSends, interrupts : 0..1]
    BY <1>3, StartupBounds DEF Crash
  <2> QED BY <1>1, <1>2, <1>3, <2>1 DEF Crash
<1>4. CASE CrashBeforeCleared
  <2> DEFINE r == IF board.boot = "launch" THEN rows
                  ELSE Became(Answered(rows, {"permission"}), "working")
  <2>1. r \in Row
    BY RowSteps, Words
  <2> HIDE DEF r
  <2>2. rows' \in Row
    BY <1>4, <2>1, TypedType DEF CrashBeforeCleared, r
  <2>3. used' \in [crashes : 0..MaxCrashes, visits : 0..MaxVisits,
                   sends : 0..MaxSends, interrupts : 0..1]
    BY <1>4, StartupBounds DEF CrashBeforeCleared
  <2> QED BY <1>1, <1>2, <1>4, <2>2, <2>3 DEF CrashBeforeCleared
<1>5. CASE StartBoard
  BY <1>2, <1>5 DEF StartBoard
<1> QED BY <1>3, <1>4, <1>5

LEMMA ToldType ==
  ASSUME TypeOK, NEW kind \in Event, Told(kind)
  PROVE  hooks' \in Seq(Hook)
<1>1. [kind |-> kind, turn |-> rows.turn.n] \in Hook
  BY DEF TypeOK, Row, Hook
<1> QED BY <1>1, AppendProperties DEF Told, TypeOK

LEMMA ClaudeType ==
  ASSUME TypeOK, Claude \/ \E said \in BOOLEAN : ClaudeExits(said)
  PROVE  TypeOK'
<1>1. ASSUME NEW dialog \in {"trust", "login"}, ClaudeShows(dialog)
      PROVE  TypeOK'
  BY <1>1 DEF ClaudeShows, TypeOK, Pane
<1>2. CASE ClaudeIsReady
  <2>1. rows' \in Row
    BY <1>2, RowSteps, Words DEF ClaudeIsReady, TypeOK
  <2> QED BY <1>2, <2>1 DEF ClaudeIsReady, TypeOK, Pane
<1>3. CASE ClaudeTakesPrompt
  <2>1. Turned(rows, "active") \in Row
    BY RowSteps, Words DEF TypeOK
  <2>2. rows' \in Row
    BY <1>3, <2>1, RowSteps, Words DEF ClaudeTakesPrompt
  <2> QED BY <1>3, <2>2 DEF ClaudeTakesPrompt, TypeOK
<1>4. CASE ClaudeAsks
  <2>1. Turned(rows, "asking") \in Row
    BY RowSteps, Words DEF TypeOK
  <2>2. rows' \in Row
    BY <1>4, <2>1, RowSteps, Words DEF ClaudeAsks
  <2>3. hooks' \in Seq(Hook)
    BY <1>4, ToldType DEF ClaudeAsks, Event
  <2> QED BY <1>4, <2>2, <2>3 DEF ClaudeAsks, TypeOK
<1>5. ASSUME NEW kind \in {"result", "error", "blocked"}, ClaudeStops(kind)
      PROVE  TypeOK'
  <2>1. Turned(rows, "done") \in Row
    BY RowSteps, Words DEF TypeOK
  <2>2. rows' \in Row
    BY <1>5, <2>1, RowSteps, Words DEF ClaudeStops
  <2>3. hooks' \in Seq(Hook)
    BY <1>5, ToldType DEF ClaudeStops, Event
  <2> QED BY <1>5, <2>2, <2>3 DEF ClaudeStops, TypeOK
<1>6. ASSUME NEW said \in BOOLEAN, ClaudeExits(said)
      PROVE  TypeOK'
  <2>1. [rows EXCEPT !.proc = "exited"] \in Row
    BY RowSteps, Words DEF TypeOK
  <2>2. [kind |-> "stopped", turn |-> 0] \in Hook
    BY DEF Hook, Event
  <2>3. Append(hooks, [kind |-> "stopped", turn |-> 0]) \in Seq(Hook)
    BY <2>2, AppendProperties DEF TypeOK
  <2> QED BY <1>6, <2>1, <2>3 DEF ClaudeExits, TypeOK, Pane
<1> QED BY <1>1, <1>2, <1>3, <1>4, <1>5, <1>6 DEF Claude

LEMMA LeaveType ==
  ASSUME TypeOK, NEW cleared \in BOOLEAN, LeaveSession(cleared)
  PROVE  TypeOK'
<1>1. Released(rows) \in Row
  <2> DEFINE m == [rows EXCEPT !.owner = "manager"]
  <2>1. m \in Row
    BY RowSteps DEF TypeOK
  <2> HIDE DEF m
  <2>2. Turned(m, "interrupted") \in Row /\ Acknowledged(m) \in Row
    BY <2>1, RowSteps, AcknowledgedType, Words
  <2> QED BY <2>1, <2>2 DEF Released, m
<1>2. Unblocked(Released(rows)) \in Row
  <2> DEFINE m == Released(rows)
  <2> HIDE DEF m
  <2>1. Became(m, "idle") \in Row
    BY <1>1, RowSteps, Words DEF m
  <2>2. Answered(Became(m, "idle"), {"permission"}) \in Row
    BY <2>1, RowSteps, Words
  <2> QED BY <1>1, <2>2 DEF Unblocked, m
<1>3. Reminded(Unblocked(Released(rows))) \in Row
  <2> DEFINE m == Unblocked(Released(rows))
  <2>1. m \in Row
    BY <1>2
  <2> HIDE DEF m
  <2>2. m.why \in Kind
    BY <2>1 DEF Row
  <2>3. Asking(m, m.why) \in Row
    BY <2>1, <2>2, RowSteps
  <2>4. Reminded(m) \in Row
    BY <2>1, <2>3 DEF Reminded
  <2> QED BY <2>4 DEF m
<1>4. Resumed(Reminded(Unblocked(Released(rows)))) \in Row
  BY <1>3, ResumedType
<1>5. rows' \in Row /\ board' \in Board
  BY <1>4 DEF LeaveSession, TypeOK, Board
<1> QED BY <1>5 DEF LeaveSession, TypeOK

LEMMA UserType ==
  ASSUME TypeOK, User
  PROVE  TypeOK'
<1>1. CASE GrantRepositoryTrust \/ AnswerWorkspaceTrust
  BY <1>1 DEF GrantRepositoryTrust, AnswerWorkspaceTrust, TypeOK, Pane
<1>2. CASE SendMessage
  <2>1. rows' \in Row
    BY <1>2, SendsType DEF SendMessage, TypeOK
  <2>2. used' \in [crashes : 0..MaxCrashes, visits : 0..MaxVisits,
                   sends : 0..MaxSends, interrupts : 0..1]
    BY <1>2, StartupBounds DEF SendMessage, TypeOK
  <2> QED BY <1>2, <2>1, <2>2 DEF SendMessage, TypeOK
<1>3. CASE InterruptWorker
  <2>1. "interrupting" \in TurnAt
    BY Words
  <2>2. rows' \in Row
    BY <1>3, <2>1 DEF InterruptWorker, TypeOK, Row
  <2> QED BY <1>3, <2>2 DEF InterruptWorker, TypeOK
<1>4. CASE StopWorker
  <2>1. Became(rows, "stopped") \in Row
    BY RowSteps, Words DEF TypeOK
  <2>2. rows' \in Row
    BY <1>4, <2>1, RowSteps, Words DEF StopWorker
  <2> QED BY <1>4, <2>2 DEF StopWorker, TypeOK, Pane, Board
<1>5. CASE Attach
  <2>1. rows' \in Row
    BY <1>5 DEF Attach, TypeOK, Row
  <2>2. used' \in [crashes : 0..MaxCrashes, visits : 0..MaxVisits,
                   sends : 0..MaxSends, interrupts : 0..1]
    BY <1>5, StartupBounds DEF Attach, TypeOK
  <2> QED BY <1>5, <2>1, <2>2 DEF Attach, TypeOK, Board
<1>6. ASSUME NEW cleared \in BOOLEAN, LeaveSession(cleared)
      PROVE  TypeOK'
  BY <1>6, LeaveType
<1>7. CASE HumanAnswersDialog
  BY <1>7 DEF HumanAnswersDialog, TypeOK, Pane
<1>8. CASE HumanAnswersPrompt
  <2>1. rows' \in Row
    BY <1>8, RowSteps, Words DEF HumanAnswersPrompt, TypeOK
  <2> QED BY <1>8, <2>1 DEF HumanAnswersPrompt, TypeOK
<1>9. CASE HumanTypes
  <2>1. NextTurn(rows, "active", FALSE) \in Row
    BY RowSteps, Words DEF TypeOK
  <2>2. rows' \in Row
    BY <1>9, <2>1, RowSteps, Words DEF HumanTypes
  <2> QED BY <1>9, <2>2 DEF HumanTypes, TypeOK
<1> QED BY <1>1, <1>2, <1>3, <1>4, <1>5, <1>6, <1>7, <1>8, <1>9 DEF User

LEMMA TypePreserved ==
  ASSUME TypeOK, [Next]_vars
  PROVE  TypeOK'
<1>1. CASE CreateWorker
  BY <1>1, StartBackendType DEF CreateWorker
<1>2. CASE UNCHANGED vars
  BY <1>2 DEF vars, TypeOK
<1> QED
  BY <1>1, <1>2, BootType, RecoverType, PumpType, CrashType, ClaudeType, UserType DEF Next

(***************************************************************************)
(* The rows, the board and Claude's pane keep to their types whatever is   *)
(* launched, visited, stopped and recovered (SessionManager._start_backend *)
(* to recover).                                                            *)
(***************************************************************************)
THEOREM TypeCorrect == Spec => []TypeOK
<1>1. TypeOK /\ [Next]_vars => TypeOK'
  BY TypePreserved
<1> QED BY TypeInitial, <1>1, PTL DEF Spec

----------------------------------------------------------------------------
(* A prompt is typed into the composer *)

(* Claude has said SessionStart: its row is READY, or has had a turn.      *)
Reached(r) == r.proc = "ready" \/ r.turn.at # "none"
InComposer == Reached(rows) => pane \in {"composer", "gone"}

(* What the board makes of a row, without Claude saying anything.          *)
Follows(s, r) ==
  /\ Reached(s) => Reached(r)
  /\ s.turn.at = "pending" => r.turn.at = "pending" \/ (Reached(r) /\ Alive)

LEMMA Transitive ==
  ASSUME NEW r, NEW s, NEW t, Follows(s, r), Follows(t, s)
  PROVE  Follows(t, r)
BY DEF Follows

LEMMA RowsFollow ==
  ASSUME NEW r \in Row
  PROVE
    /\ \A kind : Follows(Asking(r, kind), r) /\ Follows(Blocked(r, kind), r)
    /\ \A kinds : /\ Follows(Answered(r, kinds), r)
                  /\ Follows([r EXCEPT !.asked = kinds], r)
    /\ \A status : Follows(Became(r, status), r)
    /\ \A proc \in Process \ {"ready"} : Follows([r EXCEPT !.proc = proc], r)
    /\ \A owner : Follows([r EXCEPT !.owner = owner], r)
    /\ \A pending : Follows([r EXCEPT !.pending = pending], r)
    /\ Follows(Acknowledged(r), r)
<1> USE DEF Follows, Reached
<1>1. /\ \A kind : Follows(Asking(r, kind), r) /\ Follows(Blocked(r, kind), r)
      /\ \A kinds : Follows(Answered(r, kinds), r)
      /\ \A status : Follows(Became(r, status), r)
  BY DEF Asking, Blocked, Answered, Became, Row
<1>2. /\ \A kinds : Follows([r EXCEPT !.asked = kinds], r)
      /\ \A proc \in Process \ {"ready"} : Follows([r EXCEPT !.proc = proc], r)
      /\ \A owner : Follows([r EXCEPT !.owner = owner], r)
      /\ \A pending : Follows([r EXCEPT !.pending = pending], r)
  BY DEF Row
<1>3. Follows(Acknowledged(r), r)
  BY DEF Acknowledged, Ended, Row
<1> QED BY <1>1, <1>2, <1>3

LEMMA SendsFollows ==
  ASSUME NEW r \in Row, NEW first \in BOOLEAN
  PROVE  Follows(Sends(r, first), r)
<1> DEFINE a == Acknowledged(r)
           typed == IF first THEN FirstTyped(a) ELSE Typed(a)
           failing == IF board.session # "none" /\ a.proc = "ready"
                      THEN NextTurn(a, "done", TRUE) ELSE a
<1>1. a \in Row /\ Follows(a, r)
  BY AcknowledgedType, RowsFollow
<1>2. CASE board.session # "none" /\ MayType(a)
  <2>1. typed \in Row
    BY <1>1, TypedType
  <2> HIDE DEF a, typed
  <2>2. Reached(a) /\ Alive
    BY <1>2 DEF MayType, Reached
  <2>3. Sends(r, first).turn.at = typed.turn.at
    BY <1>2, <2>1 DEF Sends, Became, a, typed, Row
  <2>4. Reached(r)
    BY <1>1, <2>2 DEF Follows
  <2> QED BY <2>2, <2>4 DEF Follows
<1>3. CASE ~(board.session # "none" /\ MayType(a))
  <2>1. failing \in Row
    BY <1>1, RowSteps, Words
  <2>2. Follows(failing, a)
    <3>1. CASE board.session # "none" /\ a.proc = "ready"
      <4>1. NextTurn(a, "done", TRUE).turn.at = "done"
        BY <1>1 DEF NextTurn, Row
      <4> HIDE DEF a
      <4>2. failing.turn.at = "done"
        BY <3>1, <4>1
      <4> HIDE DEF failing
      <4> QED BY <3>1, <4>2 DEF Follows, Reached
    <3>2. CASE ~(board.session # "none" /\ a.proc = "ready")
      BY <3>2 DEF Follows
    <3> QED BY <3>1, <3>2
  <2> HIDE DEF a, failing
  <2>3. Became(failing, "disconnected") \in Row /\ Follows(Became(failing, "disconnected"), failing)
    BY <2>1, RowSteps, RowsFollow, Words
  <2> DEFINE lost == Became(failing, "disconnected")
  <2> HIDE DEF lost
  <2>4. Follows([lost EXCEPT !.proc = "waiting"], lost)
    BY <2>3, RowsFollow, Words DEF lost
  <2>5. Sends(r, first) = [lost EXCEPT !.proc = "waiting"]
    BY <1>3 DEF Sends, a, failing, lost
  <2>6. Follows([lost EXCEPT !.proc = "waiting"], failing)
    BY <2>3, <2>4, Transitive DEF lost
  <2>7. Follows([lost EXCEPT !.proc = "waiting"], a)
    BY <2>2, <2>6, Transitive
  <2> QED BY <1>1, <2>5, <2>7, Transitive
<1> QED BY <1>2, <1>3

LEMMA ResumedFollows ==
  ASSUME NEW r \in Row
  PROVE  Follows(Resumed(r), r)
<1> DEFINE s == Sends(r, TRUE)
<1>1. s \in Row /\ Follows(s, r)
  BY SendsType, SendsFollows
<1> HIDE DEF s
<1>2. Follows([s EXCEPT !.pending = (s.status = "disconnected")], s)
  BY <1>1, RowsFollow
<1>3. Follows([s EXCEPT !.pending = (s.status = "disconnected")], r)
  BY <1>1, <1>2, Transitive
<1>4. Follows(r, r)
  BY DEF Follows
<1> QED BY <1>3, <1>4 DEF Resumed, s

LEMMA RecoveredFollows ==
  ASSUME NEW r \in Row, NEW ok \in BOOLEAN
  PROVE  Follows(Recovered(r, ok), r)
<1>1. /\ Became(r, "idle") \in Row /\ Follows(Became(r, "idle"), r)
      /\ Follows(Became(r, "disconnected"), r) /\ Follows(r, r)
  BY RowSteps, RowsFollow, Words DEF Follows
<1>2. Follows(Answered(Became(r, "idle"), {"permission"}), Became(r, "idle"))
  BY <1>1, RowsFollow
<1>3. Follows(Answered(Became(r, "idle"), {"permission"}), r)
  BY <1>1, <1>2, Transitive
<1> QED BY <1>1, <1>3 DEF Recovered

LEMMA AppliedFollows ==
  ASSUME NEW r \in Row, NEW e \in Hook
  PROVE  Follows(Applied(r, e), r)
<1>1. /\ Applied(r, e).turn = r.turn
      /\ Applied(r, e).proc = "ready" => r.proc = "ready"
  <2>1. e.kind \in Event
    BY DEF Hook
  <2> QED BY <2>1 DEF Applied, Event, Became, Asking, Row
<1> QED BY <1>1 DEF Follows, Reached

LEMMA FailedProcFollows ==
  ASSUME rows \in Row
  PROVE  Follows([rows EXCEPT !.proc = FailedProc], rows)
BY DEF Follows, Reached, FailedProc, Row

(* The step PromptLandsInComposer speaks of. *)
TypedWell == rows'.turn.at = "pending" /\ rows.turn.at # "pending" => pane = "composer"

LEMMA BoardStep ==
  ASSUME InComposer, Follows(rows', rows), pane' \in {pane, "gone"}
  PROVE  InComposer' /\ TypedWell
BY DEF InComposer, Follows, TypedWell, Alive, Reached

LEMMA StartBackendStep ==
  ASSUME TypeOK, NEW first, NEW recovery, StartBackend(first, recovery)
  PROVE  InComposer' /\ TypedWell
<1>1. rows'.proc = "starting" /\ rows'.turn.at = "none"
  BY DEF StartBackend, TypeOK, Row, NoTurn
<1> QED BY <1>1 DEF InComposer, Reached, TypedWell

LEMMA BootEndsFollows ==
  ASSUME NEW r \in Row, Follows(r, rows), NEW ok \in BOOLEAN, NEW pump, BootEnds(r, ok, pump)
  PROVE  Follows(rows', rows)
BY RecoveredFollows, Transitive DEF BootEnds

LEMMA BootStep ==
  ASSUME TypeOK, InComposer, Boot
  PROVE  InComposer' /\ TypedWell
<1> USE DEF TypeOK
<1>1. CASE LaunchSucceeds
  <2> DEFINE typed == IF board.first THEN [FirstTyped(rows) EXCEPT !.pending = FALSE]
                      ELSE rows
             ok == Permitted(rows.status, "working")
             became == IF ok THEN Became(typed, "working") ELSE typed
  <2>1. typed \in Row
    BY TypedType, RowSteps
  <2>2. Reached(rows)
    BY <1>1 DEF LaunchSucceeds, Reached
  <2>3. board.first => Alive
    BY <1>1 DEF LaunchSucceeds, MayType
  <2>4. Follows(typed, rows)
    <3>1. CASE board.first
      BY <2>2, <2>3, <3>1 DEF Follows
    <3>2. CASE ~board.first
      BY <3>2 DEF Follows
    <3> QED BY <3>1, <3>2
  <2> HIDE DEF typed
  <2>5. became \in Row /\ Follows(became, typed)
    <3>1. Follows(typed, typed)
      BY DEF Follows
    <3> QED BY <2>1, <3>1, RowSteps, RowsFollow, Words
  <2>6. ok \in BOOLEAN
    BY DEF Permitted
  <2> HIDE DEF became, ok
  <2>7. Follows(became, rows)
    BY <2>4, <2>5, Transitive
  <2>8. BootEnds(became, ok, ok \/ board.pump)
    BY <1>1 DEF LaunchSucceeds, typed, became, ok
  <2>9. Follows(rows', rows)
    BY <2>5, <2>6, <2>7, <2>8, BootEndsFollows
  <2> QED BY <1>1, <2>9, BoardStep DEF LaunchSucceeds
<1>2. CASE LaunchDies
  <2> DEFINE r == [rows EXCEPT !.proc = FailedProc]
             became == IF Permitted(r.status, "failed") THEN Became(r, "failed") ELSE r
  <2>1. r \in Row /\ Follows(r, rows)
    BY FailedProcType, FailedProcFollows
  <2> HIDE DEF r
  <2>2. became \in Row /\ Follows(became, r)
    <3>1. Follows(r, r)
      BY DEF Follows
    <3> QED BY <2>1, <3>1, RowSteps, RowsFollow, Words
  <2>3. Follows(became, rows)
    BY <2>1, <2>2, Transitive
  <2> HIDE DEF became
  <2>4. BootEnds(became, FALSE, board.pump)
    BY <1>2 DEF LaunchDies, r, became
  <2>5. Follows(rows', rows)
    BY <2>2, <2>3, <2>4, BootEndsFollows
  <2> QED BY <1>2, <2>5, BoardStep DEF LaunchDies
<1>3. CASE LaunchIsLate
  <2> DEFINE f == [rows EXCEPT !.proc = FailedProc]
             r == Blocked(f, "decision")
  <2>1. f \in Row /\ Follows(f, rows)
    BY FailedProcType, FailedProcFollows
  <2> HIDE DEF f
  <2>2. r \in Row /\ Follows(r, f)
    BY <2>1, RowSteps, RowsFollow, Words
  <2> HIDE DEF r
  <2>3. Follows(r, rows)
    BY <2>1, <2>2, Transitive
  <2>4. Asking(r, "permission") \in Row /\ Follows(Asking(r, "permission"), r)
    BY <2>2, RowSteps, RowsFollow, Words
  <2>5. Follows(Asking(r, "permission"), rows)
    BY <2>3, <2>4, Transitive
  <2>6. CASE BootEnds(f, FALSE, board.pump) /\ UNCHANGED pane
    <3>1. Follows(rows', rows)
      BY <2>1, <2>6, BootEndsFollows
    <3> QED BY <2>6, <3>1, BoardStep
  <2>7. CASE SecondChance(r)
    <3>1. CASE BootEnds(Asking(r, "permission"), FALSE, TRUE) /\ UNCHANGED pane
      <4>1. Follows(rows', rows)
        BY <2>4, <2>5, <3>1, BootEndsFollows
      <4> QED BY <3>1, <4>1, BoardStep
    <3>2. CASE BootEnds(r, FALSE, board.pump) /\ UNCHANGED pane
      <4>1. Follows(rows', rows)
        BY <2>2, <2>3, <3>2, BootEndsFollows
      <4> QED BY <3>2, <4>1, BoardStep
    <3>3. CASE pane = "trust" /\ rows' = r
      <4>1. ~Reached(rows)
        BY <3>3 DEF InComposer
      <4>2. ~Reached(rows')
        BY <2>3, <3>3, <4>1 DEF Follows
      <4>3. rows'.turn.at # "pending"
        BY <4>2 DEF Reached
      <4> QED BY <4>2, <4>3 DEF InComposer, TypedWell, Reached
    <3>4. CASE rows' = r /\ UNCHANGED pane
      BY <2>3, <3>4, BoardStep
    <3> QED BY <2>7, <3>1, <3>2, <3>3, <3>4 DEF SecondChance
  <2> QED BY <1>3, <2>6, <2>7 DEF LaunchIsLate, f, r
<1>4. CASE StartupRecovers
  <2> DEFINE a == Answered(rows, {"permission"})
             r == Became(a, "working")
  <2>1. a \in Row /\ Follows(a, rows)
    BY RowSteps, RowsFollow, Words
  <2> HIDE DEF a
  <2>2. r \in Row /\ Follows(r, a)
    BY <2>1, RowSteps, RowsFollow, Words
  <2> HIDE DEF r
  <2>3. Resumed(r) \in Row /\ Follows(Resumed(r), r)
    BY <2>2, ResumedType, ResumedFollows
  <2>4. Follows(Resumed(r), rows)
    <3>1. Follows(r, rows)
      BY <2>1, <2>2, Transitive
    <3> QED BY <2>3, <3>1, Transitive
  <2>5. (~Resumed(r).pending) \in BOOLEAN
    OBVIOUS
  <2>6. BootEnds(Resumed(r), ~Resumed(r).pending, TRUE)
    BY <1>4 DEF StartupRecovers, a, r
  <2>7. Follows(rows', rows)
    BY <2>3, <2>4, <2>5, <2>6, BootEndsFollows
  <2> QED BY <1>4, <2>7, BoardStep DEF StartupRecovers
<1>5. CASE StartupGivesUp
  <2>1. Asking(rows, "permission") \in Row /\ Follows(Asking(rows, "permission"), rows)
    BY RowSteps, RowsFollow, Words
  <2>2. Follows(rows', rows)
    BY <1>5, <2>1, BootEndsFollows DEF StartupGivesUp
  <2> QED BY <1>5, <2>2, BoardStep DEF StartupGivesUp
<1> QED BY <1>1, <1>2, <1>3, <1>4, <1>5 DEF Boot

LEMMA RecoverStep ==
  ASSUME TypeOK, InComposer, Recover
  PROVE  InComposer' /\ TypedWell
<1> USE DEF TypeOK
<1>1. Follows(rows, rows)
  BY DEF Follows
<1>2. CASE RecoverLists
  BY <1>1, <1>2, BoardStep DEF RecoverLists
<1>3. CASE RecoverAdopts
  <2> DEFINE told == \E i \in DOMAIN hooks : /\ hooks[i].turn = rows.turn.n
                                            /\ hooks[i].kind # "permission"
             r == IF told THEN rows ELSE Acknowledged(rows)
             why == IF rows.status = "blocked" THEN rows.why ELSE "decision"
             idle == Answered(Became(r, "idle"), {"permission"})
  <2>1. r \in Row /\ Follows(r, rows)
    BY <1>1, AcknowledgedType, RowsFollow
  <2> HIDE DEF told, r, why
  <2>2. /\ Became(r, "idle") \in Row /\ Follows(Became(r, "idle"), r)
        /\ Follows(Became(r, "working"), r) /\ Follows(Blocked(r, why), r)
    BY <2>1, RowSteps, RowsFollow, Words
  <2>3. Follows(idle, Became(r, "idle"))
    BY <2>2, RowsFollow
  <2> HIDE DEF idle
  <2>4. Follows(idle, r)
    BY <2>2, <2>3, Transitive
  <2>5. rows' \in {Became(r, "working"), Blocked(r, why), idle}
    BY <1>3 DEF RecoverAdopts, told, r, why, idle
  <2>6. Follows(rows', rows)
    BY <2>1, <2>2, <2>4, <2>5, Transitive
  <2> QED BY <1>3, <2>6, BoardStep DEF RecoverAdopts
<1>4. CASE RecoverRecreates
  <2>1. CASE rows.owner = "human"
    <3>1. Became(rows, "disconnected") \in Row /\ Follows(Became(rows, "disconnected"), rows)
      BY RowSteps, RowsFollow, Words
    <3>2. Follows(rows', Became(rows, "disconnected"))
      BY <1>4, <2>1, <3>1, RowsFollow, Words DEF RecoverRecreates
    <3>3. Follows(rows', rows)
      BY <3>1, <3>2, Transitive
    <3> QED BY <1>4, <2>1, <3>3, BoardStep DEF RecoverRecreates
  <2>2. CASE rows.owner # "human"
    BY <1>4, <2>2, StartBackendStep DEF RecoverRecreates
  <2> QED BY <2>1, <2>2
<1> QED BY <1>2, <1>3, <1>4 DEF Recover

LEMMA PumpFollows ==
  ASSUME TypeOK, InComposer, PumpStep \/ WatchObserves
  PROVE  InComposer' /\ TypedWell
<1> USE DEF TypeOK
<1>1. CASE PumpStep
  <2>1. Head(hooks) \in Hook
    BY <1>1, HeadTailProperties DEF PumpStep
  <2> DEFINE r == Applied(rows, Head(hooks))
  <2>2. r \in Row /\ Follows(r, rows)
    BY <2>1, AppliedType, AppliedFollows
  <2>3. rows' \in {r, Acknowledged(r)}
    BY <1>1 DEF PumpStep
  <2> HIDE DEF r
  <2>4. Follows(Acknowledged(r), r)
    BY <2>2, RowsFollow
  <2>5. Follows(rows', rows)
    BY <2>2, <2>3, <2>4, Transitive
  <2> QED BY <1>1, <2>5, BoardStep DEF PumpStep
<1>2. CASE WatchObserves
  <2>1. Follows(rows', rows)
    BY <1>2, RowsFollow, Words DEF WatchObserves
  <2> QED BY <1>2, <2>1, BoardStep DEF WatchObserves
<1> QED BY <1>1, <1>2

LEMMA CrashStep ==
  ASSUME TypeOK, InComposer, Crash \/ CrashBeforeCleared \/ StartBoard
  PROVE  InComposer' /\ TypedWell
<1>1. Follows(rows, rows)
  BY DEF Follows
<1>2. CASE Crash \/ StartBoard
  BY <1>1, <1>2, BoardStep DEF Crash, StartBoard
<1>3. CASE CrashBeforeCleared
  <2>1. Reached(rows) /\ Alive
    BY <1>3 DEF CrashBeforeCleared, MayType, Reached
  <2>2. Follows(rows', rows)
    BY <2>1 DEF Follows
  <2> QED BY <1>3, <2>2, BoardStep DEF CrashBeforeCleared
<1> QED BY <1>2, <1>3

LEMMA ClaudeStep ==
  ASSUME TypeOK, InComposer, Claude \/ \E said \in BOOLEAN : ClaudeExits(said)
  PROVE  InComposer' /\ TypedWell
<1> USE DEF TypeOK, InComposer, TypedWell, Reached
<1>1. ASSUME NEW dialog \in {"trust", "login"}, ClaudeShows(dialog)
      PROVE  InComposer' /\ TypedWell
  BY <1>1 DEF ClaudeShows
<1>2. CASE ClaudeIsReady
  BY <1>2 DEF ClaudeIsReady, Row
<1>3. CASE ClaudeTakesPrompt
  BY <1>3 DEF ClaudeTakesPrompt
<1>4. CASE ClaudeAsks
  BY <1>4 DEF ClaudeAsks, Turned, Row
<1>5. ASSUME NEW kind \in {"result", "error", "blocked"}, ClaudeStops(kind)
      PROVE  InComposer' /\ TypedWell
  BY <1>5 DEF ClaudeStops, Turned, Row
<1>6. ASSUME NEW said \in BOOLEAN, ClaudeExits(said)
      PROVE  InComposer' /\ TypedWell
  <2>1. pane' = "gone" /\ rows'.turn = rows.turn
    BY <1>6 DEF ClaudeExits, Row
  <2> QED BY <2>1
<1> QED BY <1>1, <1>2, <1>3, <1>4, <1>5, <1>6 DEF Claude

LEMMA LeaveStep ==
  ASSUME TypeOK, InComposer, NEW cleared \in BOOLEAN, LeaveSession(cleared)
  PROVE  InComposer' /\ TypedWell
<1> DEFINE m == [rows EXCEPT !.owner = "manager"]
           released == Released(rows)
           unblocked == Unblocked(released)
           reminded == Reminded(unblocked)
<1>1. m \in Row /\ Follows(m, rows)
  BY RowSteps, RowsFollow DEF TypeOK
<1>2. released \in Row /\ Follows(released, m)
  <2>1. released \in {Turned(m, "interrupted"), Acknowledged(m), m}
    BY DEF Released
  <2>2. m.turn.at = "pending" => Follows(Turned(m, "interrupted"), m)
    BY <1>1 DEF Turned, Follows, Reached, Row
  <2>3. released = Turned(m, "interrupted") => m.turn.at = "pending" \/ released \in {Acknowledged(m), m}
    BY DEF Released
  <2> HIDE DEF m, released
  <2>4. Turned(m, "interrupted") \in Row /\ Acknowledged(m) \in Row /\ Follows(m, m)
    BY <1>1, RowSteps, AcknowledgedType, Words DEF Follows
  <2>5. Follows(Acknowledged(m), m)
    BY <1>1, RowsFollow
  <2> QED BY <1>1, <2>1, <2>2, <2>3, <2>4, <2>5
<1> HIDE DEF m, released
<1>3. unblocked \in Row /\ Follows(unblocked, released)
  <2>1. Became(released, "idle") \in Row /\ Follows(Became(released, "idle"), released)
    BY <1>2, RowSteps, RowsFollow, Words
  <2> DEFINE idle == Answered(Became(released, "idle"), {"permission"})
  <2>2. idle \in Row /\ Follows(idle, Became(released, "idle"))
    BY <2>1, RowSteps, RowsFollow, Words
  <2> HIDE DEF idle
  <2>3. Follows(idle, released) /\ Follows(released, released)
    BY <2>1, <2>2, Transitive DEF Follows
  <2> QED BY <1>2, <2>2, <2>3 DEF Unblocked, idle
<1> HIDE DEF unblocked
<1>4. reminded \in Row /\ Follows(reminded, unblocked)
  <2>1. unblocked.why \in Kind
    BY <1>3 DEF Row
  <2>2. Asking(unblocked, unblocked.why) \in Row /\ Follows(Asking(unblocked, unblocked.why), unblocked)
    BY <1>3, <2>1, RowSteps, RowsFollow
  <2>3. Follows(unblocked, unblocked)
    BY DEF Follows
  <2> QED BY <1>3, <2>2, <2>3 DEF Reminded
<1> HIDE DEF reminded
<1>5. Follows(Resumed(reminded), reminded)
  BY <1>4, ResumedFollows
<1>6. Follows(reminded, rows)
  <2>1. Follows(released, rows)
    BY <1>1, <1>2, Transitive
  <2>2. Follows(unblocked, rows)
    BY <2>1, <1>3, Transitive
  <2> QED BY <2>2, <1>4, Transitive
<1>7. Follows(Resumed(reminded), rows) /\ Follows(rows, rows)
  BY <1>5, <1>6, Transitive DEF Follows
<1>8. rows' \in {Resumed(reminded), rows}
  BY DEF LeaveSession, released, unblocked, reminded
<1> QED BY <1>7, <1>8, BoardStep DEF LeaveSession

LEMMA UserStep ==
  ASSUME TypeOK, InComposer, User
  PROVE  InComposer' /\ TypedWell
<1> USE DEF TypeOK
<1>1. CASE GrantRepositoryTrust \/ AnswerWorkspaceTrust
  BY <1>1 DEF GrantRepositoryTrust, AnswerWorkspaceTrust, InComposer, TypedWell, Reached
<1>2. CASE SendMessage
  <2>1. Follows(rows', rows)
    BY <1>2, SendsFollows DEF SendMessage
  <2> QED BY <1>2, <2>1, BoardStep DEF SendMessage
<1>3. CASE InterruptWorker
  <2>1. Follows(rows', rows)
    BY <1>3 DEF InterruptWorker, Follows, Reached, Open, Row
  <2> QED BY <1>3, <2>1, BoardStep DEF InterruptWorker
<1>4. CASE StopWorker
  <2>1. Became(rows, "stopped") \in Row /\ Follows(Became(rows, "stopped"), rows)
    BY RowSteps, RowsFollow, Words
  <2>2. Follows(rows', Became(rows, "stopped"))
    BY <1>4, <2>1, RowsFollow, Words DEF StopWorker
  <2>3. Follows(rows', rows)
    BY <2>1, <2>2, Transitive
  <2> QED BY <1>4, <2>3, BoardStep DEF StopWorker
<1>5. CASE Attach
  <2>1. Follows(rows', rows)
    BY <1>5 DEF Attach, Follows, Reached, Row
  <2> QED BY <1>5, <2>1, BoardStep DEF Attach
<1>6. ASSUME NEW cleared \in BOOLEAN, LeaveSession(cleared)
      PROVE  InComposer' /\ TypedWell
  BY <1>6, LeaveStep
<1>7. CASE HumanAnswersDialog
  BY <1>7 DEF HumanAnswersDialog, InComposer, TypedWell, Reached
<1>8. CASE HumanAnswersPrompt
  BY <1>8 DEF HumanAnswersPrompt, Turned, Row, InComposer, TypedWell, Reached
<1>9. CASE HumanTypes
  <2>1. rows'.turn.at = "active"
    BY <1>9 DEF HumanTypes, NextTurn, Row
  <2> QED BY <1>9, <2>1 DEF HumanTypes, InComposer, TypedWell
<1> QED BY <1>1, <1>2, <1>3, <1>4, <1>5, <1>6, <1>7, <1>8, <1>9 DEF User

LEMMA ComposerStep ==
  ASSUME TypeOK, InComposer, [Next]_vars
  PROVE  InComposer' /\ TypedWell
<1>1. CASE CreateWorker
  BY <1>1, StartBackendStep DEF CreateWorker
<1>2. CASE UNCHANGED vars
  BY <1>2 DEF vars, InComposer, TypedWell, Reached
<1> QED
  BY <1>1, <1>2, BootStep, RecoverStep, PumpFollows, CrashStep, ClaudeStep, UserStep DEF Next

LEMMA ComposerInitial == Init => InComposer
BY DEF Init, InComposer, Reached, NoTurn

(***************************************************************************)
(* A prompt is only ever typed into Claude's composer: a session whose row *)
(* is READY, or has had a turn, is past every dialog or gone (_launch,     *)
(* resume_startup, send and the rewriting of the row in _start_backend).   *)
(***************************************************************************)
THEOREM PromptOnlyInComposer == Spec => PromptLandsInComposer
<1>1. Init => TypeOK /\ InComposer
  BY TypeInitial, ComposerInitial
<1>2. TypeOK /\ InComposer /\ [Next]_vars => (TypeOK /\ InComposer)'
  BY TypePreserved, ComposerStep
<1>3. TypeOK /\ InComposer /\ [Next]_vars
      => [rows'.turn.at = "pending" /\ rows.turn.at # "pending" => pane = "composer"]_vars
  BY ComposerStep DEF TypedWell
<1> QED BY <1>1, <1>2, <1>3, PTL DEF Spec, PromptLandsInComposer

----------------------------------------------------------------------------
(* The first prompt is typed once *)

(***************************************************************************)
(* A prompt that waits in its preference counts like one that was typed.   *)
(* Only a launch that holds the prompt itself may type it without asking   *)
(* the preference.  When one visit has delivered it meanwhile, the lane    *)
(* holds the launch back: its turn is open, or ended and not acknowledged. *)
(***************************************************************************)
Spent(r) == r.typed + (IF r.pending THEN 1 ELSE 0)
Allowed == 1 + used.crashes + (IF used.visits > 1 THEN used.visits - 1 ELSE 0)
Held(r) == r.turn.at # "none" /\ (Open(r.turn) \/ r.proc # "ready")

WithinBudget == Spent(rows) <= Allowed
BeforeLaunch ==
  board.boot = "create" => rows.typed = 0 /\ ~rows.pending /\ ~board.pump
FirstLaunch ==
  board.first => Spent(rows) <= 1 /\ ~board.pump /\ board.recovery = "none"
HeldBack ==
  board.first /\ board.boot = "launch" /\ ~rows.pending /\ used.visits <= 1
  => used.visits = 1 /\ ~board.inside /\ Held(rows)
Visited == board.inside => used.visits >= 1
OnceInv == WithinBudget /\ BeforeLaunch /\ FirstLaunch /\ HeldBack /\ Visited

Steady(s, r) == s.typed = r.typed /\ s.pending = r.pending

LEMMA Numbers ==
  ASSUME TypeOK
  PROVE  /\ rows.typed \in Nat /\ rows.pending \in BOOLEAN
         /\ used.crashes \in Nat /\ used.visits \in Nat
<1>1. /\ rows.typed \in Nat /\ rows.pending \in BOOLEAN
      /\ used.crashes \in 0..MaxCrashes /\ used.visits \in 0..MaxVisits
  BY DEF TypeOK, Row
<1> QED BY <1>1, StartupBounds

LEMMA NumbersNext ==
  ASSUME TypeOK'
  PROVE  /\ rows'.typed \in Nat /\ rows'.pending \in BOOLEAN
         /\ used'.crashes \in Nat /\ used'.visits \in Nat
<1>1. /\ rows'.typed \in Nat /\ rows'.pending \in BOOLEAN
      /\ used'.crashes \in 0..MaxCrashes /\ used'.visits \in 0..MaxVisits
  BY DEF TypeOK, Row
<1> QED BY <1>1, StartupBounds

LEMMA RowsSteady ==
  ASSUME NEW r \in Row
  PROVE
    /\ \A kind : Steady(Asking(r, kind), r) /\ Steady(Blocked(r, kind), r)
    /\ \A kinds : Steady(Answered(r, kinds), r)
    /\ \A status : Steady(Became(r, status), r)
    /\ \A at : Steady(Turned(r, at), r)
    /\ \A at, mine : Steady(NextTurn(r, at, mine), r)
    /\ \A proc : Steady([r EXCEPT !.proc = proc], r)
    /\ \A owner : Steady([r EXCEPT !.owner = owner], r)
    /\ \A kinds : Steady([r EXCEPT !.asked = kinds], r)
<1> USE DEF Steady
<1>1. /\ \A kind : Steady(Asking(r, kind), r) /\ Steady(Blocked(r, kind), r)
      /\ \A kinds : Steady(Answered(r, kinds), r)
      /\ \A status : Steady(Became(r, status), r)
  BY DEF Asking, Blocked, Answered, Became, Row
<1>2. /\ \A at : Steady(Turned(r, at), r)
      /\ \A at, mine : Steady(NextTurn(r, at, mine), r)
  BY DEF Turned, NextTurn, Row
<1>3. /\ \A proc : Steady([r EXCEPT !.proc = proc], r)
      /\ \A owner : Steady([r EXCEPT !.owner = owner], r)
      /\ \A kinds : Steady([r EXCEPT !.asked = kinds], r)
  BY DEF Row
<1> QED BY <1>1, <1>2, <1>3

LEMMA AcknowledgedSteady ==
  ASSUME NEW r \in Row
  PROVE  /\ Steady(Acknowledged(r), r)
         /\ Acknowledged(r).turn = r.turn
<1> QED BY DEF Acknowledged, Steady, Row

(* What a message does to the prompt, and to a lane that is held.          *)
LEMMA SendsSpends ==
  ASSUME NEW r \in Row, NEW first \in BOOLEAN
  PROVE  /\ Sends(r, first).pending = r.pending
         /\ Sends(r, first).turn.at # "none" \/ Sends(r, first).turn = r.turn
         /\ Held(r) => Held(Sends(r, first))
         /\ \/ /\ Sends(r, first).status = "disconnected"
               /\ Sends(r, first).typed = r.typed
            \/ /\ Sends(r, first).status = "working"
               /\ Sends(r, first).typed = r.typed + (IF first THEN 1 ELSE 0)
               /\ Held(Sends(r, first))
<1> DEFINE a == Acknowledged(r)
           typed == IF first THEN FirstTyped(a) ELSE Typed(a)
           failing == IF board.session # "none" /\ a.proc = "ready"
                      THEN NextTurn(a, "done", TRUE) ELSE a
<1>1. a \in Row /\ Steady(a, r) /\ a.turn = r.turn
  BY AcknowledgedType, AcknowledgedSteady
<1>2. CASE board.session # "none" /\ MayType(a)
  <2>1. /\ typed \in Row /\ typed.pending = a.pending
        /\ typed.typed = a.typed + (IF first THEN 1 ELSE 0)
        /\ typed.turn.at = "pending"
    <3>1. Typed(a) \in Row /\ Steady(Typed(a), a) /\ Typed(a).turn.at = "pending"
      BY <1>1, TypedType, RowsSteady DEF Typed, NextTurn, Row
    <3>2. /\ FirstTyped(a) \in Row /\ FirstTyped(a).pending = a.pending
          /\ FirstTyped(a).typed = a.typed + 1 /\ FirstTyped(a).turn.at = "pending"
      BY <1>1, <3>1, TypedType DEF FirstTyped, Steady, Row
    <3>3. a.typed \in Nat
      BY <1>1 DEF Row
    <3> HIDE DEF a
    <3>4. CASE first
      BY <3>2, <3>4
    <3>5. CASE ~first
      BY <3>1, <3>3, <3>5 DEF Steady
    <3> QED BY <3>4, <3>5
  <2> HIDE DEF a, typed
  <2>2. Sends(r, first) = [Became(typed, "working") EXCEPT !.asked = {}]
    BY <1>2 DEF Sends, a, typed
  <2>3. /\ Sends(r, first).status = "working" /\ Sends(r, first).pending = typed.pending
        /\ Sends(r, first).typed = typed.typed /\ Sends(r, first).turn = typed.turn
    BY <2>1, <2>2 DEF Became, Row
  <2>4. Held(Sends(r, first))
    BY <2>1, <2>3 DEF Held, Open
  <2> QED BY <1>1, <2>1, <2>3, <2>4 DEF Steady, Held
<1>3. CASE ~(board.session # "none" /\ MayType(a))
  <2>1. failing \in Row
    BY <1>1, RowSteps, Words
  <2>2. /\ failing.pending = a.pending /\ failing.typed = a.typed
        /\ failing.turn.at # "none" \/ failing.turn = a.turn
    BY <1>1, RowsSteady DEF NextTurn, Steady, Row
  <2> HIDE DEF a, failing
  <2>3. Sends(r, first) = [Became(failing, "disconnected") EXCEPT !.proc = "waiting"]
    BY <1>3 DEF Sends, a, failing
  <2>4. /\ Sends(r, first).status = "disconnected" /\ Sends(r, first).pending = failing.pending
        /\ Sends(r, first).typed = failing.typed /\ Sends(r, first).turn = failing.turn
        /\ Sends(r, first).proc = "waiting"
    BY <2>1, <2>3 DEF Became, Row
  <2>5. Held(r) => Held(Sends(r, first))
    BY <1>1, <2>2, <2>4 DEF Held
  <2> QED BY <1>1, <2>2, <2>4, <2>5 DEF Steady
<1> QED BY <1>2, <1>3

LEMMA ResumedSpends ==
  ASSUME NEW r \in Row
  PROVE  /\ Spent(Resumed(r)) = Spent(r)
         /\ Resumed(r).pending = r.pending \/ (~Resumed(r).pending /\ Held(Resumed(r)))
<1> DEFINE s == Sends(r, TRUE)
           cleared == [s EXCEPT !.pending = (s.status = "disconnected")]
<1>1. CASE ~r.pending \/ r.proc # "ready" \/ Refused(r)
  BY <1>1 DEF Resumed
<1>2. CASE ~(~r.pending \/ r.proc # "ready" \/ Refused(r))
  <2>1. s \in Row
    BY SendsType
  <2>2. /\ r.pending /\ r.typed \in Nat
        /\ \/ s.status = "disconnected" /\ s.typed = r.typed
           \/ s.status = "working" /\ s.typed = r.typed + 1 /\ Held(s)
    BY <1>2, SendsSpends DEF Row
  <2> HIDE DEF s
  <2>3. /\ cleared.pending = (s.status = "disconnected") /\ cleared.typed = s.typed
        /\ cleared.turn = s.turn /\ cleared.proc = s.proc
    BY <2>1 DEF Row
  <2> HIDE DEF cleared
  <2>4. Resumed(r) = cleared
    BY <1>2 DEF Resumed, s, cleared
  <2>5. CASE s.status = "disconnected" /\ s.typed = r.typed
    BY <2>2, <2>3, <2>4, <2>5 DEF Spent
  <2>6. CASE s.status = "working" /\ s.typed = r.typed + 1 /\ Held(s)
    <3>1. ~cleared.pending /\ cleared.typed = r.typed + 1
      BY <2>3, <2>6
    <3>2. Held(cleared)
      BY <2>3, <2>6 DEF Held
    <3>3. Spent(cleared) = r.typed + 1 /\ Spent(r) = r.typed + 1
      BY <2>2, <3>1 DEF Spent
    <3> QED BY <2>4, <3>1, <3>2, <3>3
  <2> QED BY <2>2, <2>5, <2>6
<1> QED BY <1>1, <1>2

(* A step that types nothing, and leaves a held lane held.                 *)
LEMMA QuietStep ==
  ASSUME TypeOK, OnceInv,
         Steady(rows', rows),
         /\ board.first /\ board.boot = "launch" /\ ~rows.pending /\ used.visits = 1
            /\ ~board.inside /\ Held(rows)
         => Held(rows'),
         used'.crashes = used.crashes, used'.visits = used.visits,
         board'.first = board.first, board'.boot = board.boot,
         board'.pump => board.pump, board'.recovery = board.recovery,
         board'.inside = board.inside
  PROVE  OnceInv'
<1>1. WithinBudget'
  BY DEF OnceInv, WithinBudget, Spent, Allowed, Steady
<1>2. BeforeLaunch'
  BY DEF OnceInv, BeforeLaunch, Steady
<1>3. FirstLaunch'
  BY DEF OnceInv, FirstLaunch, Spent, Steady
<1>4. HeldBack'
  BY DEF OnceInv, HeldBack, Steady
<1>5. Visited'
  BY DEF OnceInv, Visited
<1> QED BY <1>1, <1>2, <1>3, <1>4, <1>5 DEF OnceInv

(* A step after which no launch holds the prompt.                          *)
LEMMA LaunchOver ==
  ASSUME Visited', ~board'.first, board'.boot # "create", Spent(rows') <= Allowed'
  PROVE  OnceInv'
BY DEF OnceInv, WithinBudget, BeforeLaunch, FirstLaunch, HeldBack, Allowed

LEMMA RecoveredSpends ==
  ASSUME NEW r \in Row, NEW ok \in BOOLEAN
  PROVE  Spent(Recovered(r, ok)) = Spent(r)
<1>1. /\ Became(r, "idle") \in Row /\ Steady(Became(r, "idle"), r)
      /\ Steady(Became(r, "disconnected"), r)
  BY RowSteps, RowsSteady, Words
<1>2. Steady(Answered(Became(r, "idle"), {"permission"}), Became(r, "idle"))
  BY <1>1, RowsSteady
<1>3. Recovered(r, ok) \in {r, Answered(Became(r, "idle"), {"permission"}),
                           Became(r, "disconnected")}
  BY DEF Recovered
<1>4. Steady(Recovered(r, ok), r)
  BY <1>1, <1>2, <1>3 DEF Steady
<1> QED BY <1>4 DEF Spent, Steady

LEMMA BootIsOver ==
  ASSUME TypeOK, OnceInv, NEW r \in Row, NEW ok \in BOOLEAN, NEW pump,
         BootEnds(r, ok, pump), UNCHANGED used, Spent(r) <= Allowed
  PROVE  OnceInv'
<1>1. Spent(rows') <= Allowed'
  <2>1. Spent(rows') = Spent(r)
    BY RecoveredSpends DEF BootEnds
  <2> QED BY <2>1 DEF Allowed
<1>2. ~board'.first /\ board'.boot = "none" /\ board'.inside = board.inside
  BY DEF BootEnds, TypeOK, Board
<1>3. Visited'
  BY <1>2 DEF OnceInv, Visited
<1> QED BY <1>1, <1>2, <1>3, LaunchOver

LEMMA StartBackendOnce ==
  ASSUME TypeOK, OnceInv, CreateWorker \/ RecoverRecreates
  PROVE  OnceInv'
<1> USE Numbers
<1>1. CASE CreateWorker
  <2>1. rows.typed = 0 /\ ~rows.pending /\ ~board.pump
    BY <1>1 DEF CreateWorker, OnceInv, BeforeLaunch
  <2>2. rows'.typed = 0 /\ rows'.pending /\ used' = used
    BY <1>1, <2>1 DEF CreateWorker, StartBackend, TypeOK, Row
  <2>3. /\ board'.boot = "launch" /\ ~board'.pump /\ board'.recovery = "none"
        /\ board'.inside = board.inside
    BY <1>1, <2>1 DEF CreateWorker, StartBackend, TypeOK, Board
  <2>4. Spent(rows') = 1
    BY <2>2 DEF Spent
  <2>5. WithinBudget'
    BY <2>2, <2>4 DEF WithinBudget, Allowed
  <2>6. BeforeLaunch' /\ FirstLaunch' /\ HeldBack'
    BY <2>2, <2>3, <2>4 DEF BeforeLaunch, FirstLaunch, HeldBack
  <2>7. Visited'
    BY <2>2, <2>3 DEF OnceInv, Visited
  <2> QED BY <2>5, <2>6, <2>7 DEF OnceInv
<1>2. CASE RecoverRecreates
  <2>1. Steady(rows', rows) /\ used' = used
    <3>1. CASE rows.owner = "human"
      <4>1. Became(rows, "disconnected") \in Row /\ Steady(Became(rows, "disconnected"), rows)
        BY RowSteps, RowsSteady, Words DEF TypeOK
      <4>2. Steady(rows', Became(rows, "disconnected"))
        BY <1>2, <3>1, <4>1, RowsSteady DEF RecoverRecreates
      <4> QED BY <1>2, <3>1, <4>1, <4>2 DEF RecoverRecreates, Steady
    <3>2. CASE rows.owner # "human"
      <4>1. StartBackend(FALSE, "at")
        BY <1>2, <3>2 DEF RecoverRecreates
      <4>2. rows.pending \in BOOLEAN
        BY DEF TypeOK, Row
      <4>3. rows'.typed = rows.typed /\ rows'.pending = (rows.pending \/ FALSE) /\ used' = used
        BY <4>1 DEF StartBackend, TypeOK, Row
      <4> QED BY <4>2, <4>3 DEF Steady
    <3> QED BY <3>1, <3>2
  <2>2. Spent(rows') <= Allowed'
    BY <2>1 DEF OnceInv, WithinBudget, Spent, Allowed, Steady
  <2>3. ~board.first
    BY <1>2 DEF RecoverRecreates, OnceInv, FirstLaunch
  <2>4. ~board'.first /\ board'.boot # "create" /\ board'.inside = board.inside
    <3>1. \/ board' = [board EXCEPT !.recovery = "none"]
          \/ board' = [board EXCEPT !.boot = "launch", !.first = FALSE,
                                    !.session = "live", !.recovery = "at"]
      BY <1>2 DEF RecoverRecreates, StartBackend
    <3>2. board \in Board /\ board.boot # "create"
      BY <1>2 DEF RecoverRecreates, Running, TypeOK
    <3> QED BY <2>3, <3>1, <3>2 DEF Board
  <2>5. Visited'
    BY <2>1, <2>4 DEF OnceInv, Visited
  <2> QED BY <2>2, <2>4, <2>5, LaunchOver
<1> QED BY <1>1, <1>2

LEMMA LaunchSucceedsOnce ==
  ASSUME TypeOK, OnceInv, LaunchSucceeds
  PROVE  OnceInv'
<1> DEFINE typed == IF board.first THEN [FirstTyped(rows) EXCEPT !.pending = FALSE]
                    ELSE rows
           ok == Permitted(rows.status, "working")
           became == IF ok THEN Became(typed, "working") ELSE typed
<1>1. typed \in Row
  BY TypedType, RowSteps DEF TypeOK
<1>2. Spent(typed) <= Allowed
  <2>1. CASE board.first
    <3>1. typed.typed = rows.typed + 1 /\ ~typed.pending
      BY <2>1 DEF FirstTyped, Typed, NextTurn, TypeOK, Row
    <3>2. Spent(typed) = rows.typed + 1
      BY <3>1, Numbers DEF Spent
    <3> HIDE DEF typed
    <3>3. CASE rows.pending
      BY <3>2, <3>3, Numbers DEF OnceInv, WithinBudget, Spent, Allowed
    <3>4. CASE ~rows.pending
      <4>1. ~Held(rows)
        BY <2>1 DEF LaunchSucceeds, MayType, Held
      <4>2. used.visits > 1
        BY <2>1, <3>4, <4>1, Numbers DEF LaunchSucceeds, OnceInv, HeldBack
      <4>3. rows.typed <= 1
        BY <2>1, <3>4, Numbers DEF OnceInv, FirstLaunch, Spent
      <4>4. Allowed >= 2
        BY <4>2, Numbers DEF Allowed
      <4> QED BY <3>2, <4>3, <4>4, Numbers DEF Allowed
    <3> QED BY <3>3, <3>4
  <2>2. CASE ~board.first
    BY <2>2 DEF OnceInv, WithinBudget
  <2> QED BY <2>1, <2>2
<1> HIDE DEF typed
<1>3. became \in Row /\ Spent(became) = Spent(typed)
  <2>1. Became(typed, "working") \in Row /\ Steady(Became(typed, "working"), typed)
    BY <1>1, RowSteps, RowsSteady, Words
  <2> QED BY <1>1, <2>1 DEF Spent, Steady
<1>4. ok \in BOOLEAN
  BY DEF Permitted
<1> HIDE DEF became, ok
<1>5. BootEnds(became, ok, ok \/ board.pump) /\ UNCHANGED used
  BY DEF LaunchSucceeds, typed, became, ok
<1> QED BY <1>2, <1>3, <1>4, <1>5, BootIsOver

LEMMA LaunchDiesOnce ==
  ASSUME TypeOK, OnceInv, LaunchDies
  PROVE  OnceInv'
<1> DEFINE r == [rows EXCEPT !.proc = FailedProc]
           became == IF Permitted(r.status, "failed") THEN Became(r, "failed") ELSE r
<1>1. r \in Row /\ Steady(r, rows)
  BY FailedProcType, RowsSteady DEF TypeOK
<1> HIDE DEF r
<1>2. became \in Row /\ Steady(became, r)
  BY <1>1, RowSteps, RowsSteady, Words DEF Steady
<1> HIDE DEF became
<1>3. Spent(became) <= Allowed
  BY <1>1, <1>2 DEF Spent, Steady, OnceInv, WithinBudget
<1>4. BootEnds(became, FALSE, board.pump) /\ UNCHANGED used
  BY DEF LaunchDies, r, became
<1> QED BY <1>2, <1>3, <1>4, BootIsOver

LEMMA LaunchIsLateOnce ==
  ASSUME TypeOK, OnceInv, LaunchIsLate
  PROVE  OnceInv'
<1> DEFINE f == [rows EXCEPT !.proc = FailedProc]
           r == Blocked(f, "decision")
<1>1. f \in Row /\ Steady(f, rows)
  BY FailedProcType, RowsSteady DEF TypeOK
<1> HIDE DEF f
<1>2. r \in Row /\ Steady(r, f)
  BY <1>1, RowSteps, RowsSteady, Words
<1> HIDE DEF r
<1>3. Asking(r, "permission") \in Row /\ Steady(Asking(r, "permission"), r)
  BY <1>2, RowSteps, RowsSteady, Words
<1>4. Spent(f) <= Allowed /\ Spent(r) <= Allowed /\ Spent(Asking(r, "permission")) <= Allowed
  BY <1>1, <1>2, <1>3 DEF Spent, Steady, OnceInv, WithinBudget
<1>5. UNCHANGED used
  BY DEF LaunchIsLate
<1>6. CASE BootEnds(f, FALSE, board.pump)
  BY <1>1, <1>4, <1>5, <1>6, BootIsOver
<1>7. CASE SecondChance(r)
  <2>1. CASE BootEnds(Asking(r, "permission"), FALSE, TRUE)
    BY <1>3, <1>4, <1>5, <2>1, BootIsOver
  <2>2. CASE BootEnds(r, FALSE, board.pump)
    BY <1>2, <1>4, <1>5, <2>2, BootIsOver
  <2>3. CASE rows' = r /\ \E boot \in {"answered", "slow"} : board' = [board EXCEPT !.boot = boot]
    <3>1. Steady(rows', rows)
      BY <1>1, <1>2, <2>3 DEF Steady
    <3>2. /\ board'.boot \in {"answered", "slow"} /\ board'.first = board.first
          /\ board'.pump = board.pump /\ board'.recovery = board.recovery
          /\ board'.inside = board.inside
      BY <2>3 DEF TypeOK, Board
    <3>3. WithinBudget' /\ Visited'
      BY <1>5, <3>1, <3>2 DEF OnceInv, WithinBudget, Visited, Spent, Allowed, Steady
    <3>4. BeforeLaunch' /\ FirstLaunch' /\ HeldBack'
      BY <3>1, <3>2 DEF OnceInv, BeforeLaunch, FirstLaunch, HeldBack, Spent, Steady
    <3> QED BY <3>3, <3>4 DEF OnceInv
  <2> QED BY <1>7, <2>1, <2>2, <2>3 DEF SecondChance
<1> QED BY <1>6, <1>7 DEF LaunchIsLate, f, r

LEMMA StartupEndsOnce ==
  ASSUME TypeOK, OnceInv, StartupRecovers \/ StartupGivesUp
  PROVE  OnceInv'
<1>1. CASE StartupRecovers
  <2> DEFINE a == Answered(rows, {"permission"})
             r == Became(a, "working")
  <2>1. a \in Row /\ Steady(a, rows)
    BY RowSteps, RowsSteady, Words DEF TypeOK
  <2> HIDE DEF a
  <2>2. r \in Row /\ Steady(r, a)
    BY <2>1, RowSteps, RowsSteady, Words
  <2> HIDE DEF r
  <2>3. Resumed(r) \in Row /\ Spent(Resumed(r)) = Spent(r)
    BY <2>2, ResumedType, ResumedSpends
  <2>4. Spent(Resumed(r)) <= Allowed
    BY <2>1, <2>2, <2>3 DEF Spent, Steady, OnceInv, WithinBudget
  <2>5. (~Resumed(r).pending) \in BOOLEAN
    OBVIOUS
  <2>6. BootEnds(Resumed(r), ~Resumed(r).pending, TRUE) /\ UNCHANGED used
    BY <1>1 DEF StartupRecovers, a, r
  <2> QED BY <2>3, <2>4, <2>5, <2>6, BootIsOver
<1>2. CASE StartupGivesUp
  <2>1. Asking(rows, "permission") \in Row /\ Steady(Asking(rows, "permission"), rows)
    BY RowSteps, RowsSteady, Words DEF TypeOK
  <2>2. Spent(Asking(rows, "permission")) <= Allowed
    BY <2>1 DEF Spent, Steady, OnceInv, WithinBudget
  <2>3. BootEnds(Asking(rows, "permission"), FALSE, board.session # "none") /\ UNCHANGED used
    BY <1>2 DEF StartupGivesUp
  <2> QED BY <2>1, <2>2, <2>3, BootIsOver
<1> QED BY <1>1, <1>2

LEMMA RecoverOnce ==
  ASSUME TypeOK, OnceInv, RecoverLists \/ RecoverAdopts
  PROVE  OnceInv'
<1>1. ~board.first
  BY DEF RecoverLists, RecoverAdopts, OnceInv, FirstLaunch
<1>2. Steady(rows', rows)
  <2>1. CASE RecoverLists
    BY <2>1 DEF RecoverLists, Steady
  <2>2. CASE RecoverAdopts
    <3> DEFINE told == \E i \in DOMAIN hooks : /\ hooks[i].turn = rows.turn.n
                                              /\ hooks[i].kind # "permission"
               r == IF told THEN rows ELSE Acknowledged(rows)
               why == IF rows.status = "blocked" THEN rows.why ELSE "decision"
               idle == Answered(Became(r, "idle"), {"permission"})
    <3>1. r \in Row /\ Steady(r, rows)
      BY AcknowledgedType, AcknowledgedSteady DEF TypeOK, Steady
    <3> HIDE DEF told, r, why
    <3>2. /\ Became(r, "idle") \in Row /\ Steady(Became(r, "idle"), r)
          /\ Steady(Became(r, "working"), r) /\ Steady(Blocked(r, why), r)
      BY <3>1, RowSteps, RowsSteady, Words
    <3>3. Steady(idle, Became(r, "idle"))
      BY <3>2, RowsSteady
    <3> HIDE DEF idle
    <3>4. rows' \in {Became(r, "working"), Blocked(r, why), idle}
      BY <2>2 DEF RecoverAdopts, told, r, why, idle
    <3> QED BY <3>1, <3>2, <3>3, <3>4 DEF Steady
  <2> QED BY <2>1, <2>2
<1>3. /\ ~board'.first /\ board'.boot # "create" /\ board'.inside = board.inside
      /\ used' = used
  BY <1>1 DEF RecoverLists, RecoverAdopts, Running, TypeOK, Board
<1>4. Visited' /\ Spent(rows') <= Allowed'
  BY <1>2, <1>3 DEF OnceInv, Visited, WithinBudget, Spent, Allowed, Steady
<1> QED BY <1>3, <1>4, LaunchOver

LEMMA PumpOnce ==
  ASSUME TypeOK, OnceInv, PumpStep \/ WatchObserves
  PROVE  OnceInv'
<1>1. CASE PumpStep
  <2>1. Head(hooks) \in Hook
    BY <1>1, HeadTailProperties DEF PumpStep, TypeOK
  <2> DEFINE r == Applied(rows, Head(hooks))
  <2>2. r \in Row /\ Steady(r, rows)
    <3>1. r \in Row
      BY <2>1, AppliedType DEF TypeOK
    <3>2. \A e \in Hook : Steady(Applied(rows, e), rows)
      <4> SUFFICES ASSUME NEW e \in Hook
                   PROVE  Steady(Applied(rows, e), rows)
        OBVIOUS
      <4>1. e.kind \in Event
        BY DEF Hook
      <4> QED BY <4>1 DEF Applied, Event, Became, Asking, Steady, TypeOK, Row
    <3> QED BY <2>1, <3>1, <3>2
  <2>3. rows' \in {r, Acknowledged(r)}
    BY <1>1 DEF PumpStep
  <2> HIDE DEF r
  <2>4. Steady(rows', rows)
    BY <2>2, <2>3, AcknowledgedSteady DEF Steady
  <2>5. ~board.first
    BY <1>1 DEF PumpStep, OnceInv, FirstLaunch
  <2> QED BY <1>1, <2>4, <2>5, QuietStep DEF PumpStep
<1>2. CASE WatchObserves
  <2>1. Steady(rows', rows)
    BY <1>2, RowsSteady DEF WatchObserves, TypeOK
  <2>2. Held(rows) => Held(rows')
    BY <1>2 DEF WatchObserves, Held, TypeOK, Row
  <2>3. board' = [board EXCEPT !.session = "ended"] /\ used' = used
    BY <1>2 DEF WatchObserves
  <2>4. /\ board'.first = board.first /\ board'.boot = board.boot
        /\ board'.pump = board.pump /\ board'.recovery = board.recovery
        /\ board'.inside = board.inside
    BY <2>3 DEF TypeOK, Board
  <2> QED BY <2>1, <2>2, <2>3, <2>4, QuietStep
<1> QED BY <1>1, <1>2

LEMMA CrashOnce ==
  ASSUME TypeOK, OnceInv, Crash \/ CrashBeforeCleared \/ StartBoard
  PROVE  OnceInv'
<1>1. ~board'.first /\ board'.boot # "create" /\ Visited'
  <2>1. board' \in {Down, [Down EXCEPT !.up = TRUE, !.recovery = "due"]}
    BY DEF Crash, CrashBeforeCleared, StartBoard
  <2>2. \A b \in {Down, [Down EXCEPT !.up = TRUE, !.recovery = "due"]} :
          ~b.first /\ b.boot = "none" /\ ~b.inside
    <3>1. ~Down.first /\ Down.boot = "none" /\ ~Down.inside /\ Down \in Board
      BY DEF Down, Board
    <3> QED BY <3>1 DEF Board
  <2> QED BY <2>1, <2>2 DEF Visited
<1>2. CASE Crash
  <2>1. used'.crashes = used.crashes + 1 /\ used'.visits = used.visits /\ rows' = rows
    BY <1>2 DEF Crash, TypeOK
  <2>2. Spent(rows') <= Allowed'
    BY <2>1, Numbers DEF OnceInv, WithinBudget, Allowed, Spent
  <2> QED BY <1>1, <2>2, LaunchOver
<1>3. CASE CrashBeforeCleared
  <2> DEFINE a == Answered(rows, {"permission"})
             r == IF board.boot = "launch" THEN rows ELSE Became(a, "working")
  <2>1. a \in Row /\ Steady(a, rows)
    BY RowSteps, RowsSteady, Words DEF TypeOK
  <2> HIDE DEF a
  <2>2. r \in Row /\ Steady(r, rows)
    BY <2>1, RowSteps, RowsSteady, Words DEF TypeOK, Steady
  <2> HIDE DEF r
  <2>3. rows' = FirstTyped(r)
    BY <1>3 DEF CrashBeforeCleared, a, r
  <2>4. rows'.typed = rows.typed + 1 /\ rows'.pending = rows.pending
    BY <2>2, <2>3 DEF FirstTyped, Typed, NextTurn, Steady, Row
  <2>5. used'.crashes = used.crashes + 1 /\ used'.visits = used.visits
    BY <1>3 DEF CrashBeforeCleared, TypeOK
  <2>6. Spent(rows') <= Allowed'
    BY <2>4, <2>5, Numbers DEF OnceInv, WithinBudget, Allowed, Spent
  <2> QED BY <1>1, <2>6, LaunchOver
<1>4. CASE StartBoard
  <2>1. Spent(rows') <= Allowed'
    BY <1>4 DEF StartBoard, OnceInv, WithinBudget, Allowed
  <2> QED BY <1>1, <2>1, LaunchOver
<1> QED BY <1>2, <1>3, <1>4

LEMMA ClaudeOnce ==
  ASSUME TypeOK, InComposer, OnceInv, Claude \/ \E said \in BOOLEAN : ClaudeExits(said)
  PROVE  OnceInv'
<1> DEFINE Quiet == Steady(rows', rows) /\ (Held(rows) => Held(rows'))
<1>1. UNCHANGED <<board, used>>
  BY DEF Claude, ClaudeShows, ClaudeIsReady, ClaudeTakesPrompt, ClaudeAsks, ClaudeStops, ClaudeExits
<1>2. ASSUME NEW dialog \in {"trust", "login"}, ClaudeShows(dialog)
      PROVE  Quiet
  BY <1>2 DEF ClaudeShows, Steady, Held
<1>3. ASSUME ClaudeIsReady
      PROVE  Quiet
  <2>1. ~Held(rows)
    BY <1>3 DEF ClaudeIsReady, InComposer, Reached, Held
  <2>2. Steady(rows', rows)
    BY <1>3, RowsSteady DEF ClaudeIsReady, TypeOK
  <2> QED BY <2>1, <2>2
<1>4. ASSUME ClaudeTakesPrompt
      PROVE  Quiet
  BY <1>4 DEF ClaudeTakesPrompt, Turned, Steady, Held, Open, TypeOK, Row
<1>5. ASSUME ClaudeAsks
      PROVE  Quiet
  BY <1>5 DEF ClaudeAsks, Turned, Steady, Held, Open, TypeOK, Row
<1>6. ASSUME NEW kind \in {"result", "error", "blocked"}, ClaudeStops(kind)
      PROVE  Quiet
  BY <1>6 DEF ClaudeStops, Turned, Steady, Held, TypeOK, Row
<1>7. ASSUME NEW said \in BOOLEAN, ClaudeExits(said)
      PROVE  Quiet
  BY <1>7 DEF ClaudeExits, Steady, Held, TypeOK, Row
<1>8. Quiet
  BY <1>2, <1>3, <1>4, <1>5, <1>6, <1>7 DEF Claude
<1> QED BY <1>1, <1>8, QuietStep

LEMMA LeaveOnce ==
  ASSUME TypeOK, OnceInv, NEW cleared \in BOOLEAN, LeaveSession(cleared)
  PROVE  OnceInv'
<1> DEFINE m == [rows EXCEPT !.owner = "manager"]
           released == Released(rows)
           unblocked == Unblocked(released)
           reminded == Reminded(unblocked)
<1>1. m \in Row /\ Steady(m, rows)
  BY RowSteps, RowsSteady DEF TypeOK
<1>2. released \in Row /\ Steady(released, m)
  <2>1. released \in {Turned(m, "interrupted"), Acknowledged(m), m}
    BY DEF Released
  <2> HIDE DEF m, released
  <2>2. /\ Turned(m, "interrupted") \in Row /\ Acknowledged(m) \in Row
        /\ Steady(Turned(m, "interrupted"), m) /\ Steady(Acknowledged(m), m)
    BY <1>1, RowSteps, RowsSteady, AcknowledgedType, AcknowledgedSteady, Words
  <2> QED BY <1>1, <2>1, <2>2 DEF Steady
<1> HIDE DEF m, released
<1>3. unblocked \in Row /\ Steady(unblocked, released)
  <2> DEFINE idle == Became(released, "idle")
  <2>1. idle \in Row /\ Steady(idle, released)
    BY <1>2, RowSteps, RowsSteady, Words
  <2>2. unblocked \in {released, Answered(idle, {"permission"})}
    BY DEF Unblocked
  <2> HIDE DEF idle, unblocked
  <2>3. Answered(idle, {"permission"}) \in Row /\ Steady(Answered(idle, {"permission"}), idle)
    BY <2>1, RowSteps, RowsSteady, Words
  <2> QED BY <1>2, <2>1, <2>2, <2>3 DEF Steady
<1> HIDE DEF unblocked
<1>4. reminded \in Row /\ Steady(reminded, unblocked)
  <2>1. unblocked.why \in Kind
    BY <1>3 DEF Row
  <2>2. Asking(unblocked, unblocked.why) \in Row /\ Steady(Asking(unblocked, unblocked.why), unblocked)
    BY <1>3, <2>1, RowSteps, RowsSteady
  <2> QED BY <1>3, <2>2 DEF Reminded, Steady
<1> HIDE DEF reminded
<1>5. Steady(reminded, rows)
  BY <1>1, <1>2, <1>3, <1>4 DEF Steady
<1>6. /\ Spent(Resumed(reminded)) = Spent(rows)
      /\ \/ Resumed(reminded).pending = rows.pending
         \/ ~Resumed(reminded).pending /\ Held(Resumed(reminded))
  BY <1>4, <1>5, ResumedSpends DEF Spent, Steady
<1>7. rows' \in {Resumed(reminded), rows}
  BY DEF LeaveSession, released, unblocked, reminded
<1>8. /\ board.inside /\ ~board'.inside /\ board'.first = board.first /\ board'.boot = board.boot
      /\ board'.pump = board.pump /\ board'.recovery = board.recovery /\ used' = used
  BY DEF LeaveSession, TypeOK, Board
<1>9. used.visits >= 1
  BY <1>8 DEF OnceInv, Visited
<1>10. Spent(rows') = Spent(rows)
  BY <1>6, <1>7
<1>11. WithinBudget' /\ Visited'
  BY <1>8, <1>10 DEF OnceInv, WithinBudget, Visited, Allowed
<1>12. BeforeLaunch'
  <2>1. CASE rows' = rows
    BY <1>8, <2>1 DEF OnceInv, BeforeLaunch
  <2>2. CASE rows' = Resumed(reminded) /\ ~rows.pending
    <3>1. rows' = reminded
      BY <1>5, <2>2 DEF Resumed, Steady
    <3> QED BY <1>5, <1>8, <3>1 DEF OnceInv, BeforeLaunch, Steady
  <2>3. CASE rows.pending
    BY <1>8, <2>3 DEF OnceInv, BeforeLaunch
  <2> QED BY <1>7, <2>1, <2>2, <2>3
<1>13. FirstLaunch'
  BY <1>8, <1>10 DEF OnceInv, FirstLaunch
<1>14. HeldBack'
  <2> SUFFICES ASSUME board.first, board.boot = "launch", ~rows'.pending, used.visits <= 1
               PROVE  used.visits = 1 /\ Held(rows')
    BY <1>8 DEF HeldBack
  <2>1. rows.pending
    BY <1>8 DEF OnceInv, HeldBack
  <2>2. Held(rows')
    BY <1>6, <1>7, <2>1
  <2> QED BY <1>9, <2>2, Numbers
<1> QED BY <1>11, <1>12, <1>13, <1>14 DEF OnceInv

LEMMA UserOnce ==
  ASSUME TypeOK, OnceInv, User
  PROVE  OnceInv'
<1>1. CASE GrantRepositoryTrust \/ AnswerWorkspaceTrust
  BY <1>1, QuietStep DEF GrantRepositoryTrust, AnswerWorkspaceTrust, Steady
<1>2. CASE SendMessage
  <2> DEFINE s == Sends(rows, FALSE)
  <2>1. /\ s.pending = rows.pending /\ (Held(rows) => Held(s))
        /\ s.typed = rows.typed \/ s.typed = rows.typed + 0
    BY SendsSpends DEF TypeOK
  <2>2. rows' = s
    BY <1>2 DEF SendMessage
  <2> HIDE DEF s
  <2>3. s.typed = rows.typed
    BY <2>1, Numbers
  <2>4. Steady(rows', rows) /\ (Held(rows) => Held(rows'))
    BY <2>1, <2>2, <2>3 DEF Steady
  <2>5. board' = board /\ used'.crashes = used.crashes /\ used'.visits = used.visits
    BY <1>2 DEF SendMessage, TypeOK
  <2> QED BY <2>4, <2>5, QuietStep
<1>3. CASE InterruptWorker
  <2>1. Steady(rows', rows) /\ (Held(rows) => Held(rows'))
    BY <1>3 DEF InterruptWorker, Steady, Held, Open, TypeOK, Row
  <2>2. board' = board /\ used'.crashes = used.crashes /\ used'.visits = used.visits
    BY <1>3 DEF InterruptWorker, TypeOK
  <2> QED BY <2>1, <2>2, QuietStep
<1>4. CASE StopWorker
  <2>1. Steady(rows', rows) /\ (Held(rows) => Held(rows'))
    BY <1>4 DEF StopWorker, Became, Steady, Held, TypeOK, Row
  <2>2. /\ board'.first = board.first /\ board'.boot = board.boot /\ ~board'.pump
        /\ board'.recovery = board.recovery /\ board'.inside = board.inside /\ used' = used
    BY <1>4 DEF StopWorker, TypeOK, Board
  <2> QED BY <2>1, <2>2, QuietStep
<1>5. CASE Attach
  <2>1. Steady(rows', rows)
    BY <1>5 DEF Attach, Steady, TypeOK, Row
  <2>2. /\ board'.first = board.first /\ board'.boot = board.boot
        /\ board'.pump = board.pump /\ board'.recovery = board.recovery
        /\ used'.crashes = used.crashes /\ used'.visits = used.visits + 1
    BY <1>5 DEF Attach, TypeOK, Board
  <2>3. WithinBudget' /\ Visited'
    BY <2>1, <2>2, Numbers DEF OnceInv, WithinBudget, Visited, Spent, Allowed, Steady
  <2>4. BeforeLaunch' /\ FirstLaunch'
    BY <2>1, <2>2 DEF OnceInv, BeforeLaunch, FirstLaunch, Spent, Steady
  <2>5. HeldBack'
    BY <2>1, <2>2, Numbers DEF OnceInv, HeldBack, Steady
  <2> QED BY <2>3, <2>4, <2>5 DEF OnceInv
<1>6. ASSUME NEW cleared \in BOOLEAN, LeaveSession(cleared)
      PROVE  OnceInv'
  BY <1>6, LeaveOnce
<1>7. CASE HumanAnswersDialog \/ HumanAnswersPrompt \/ HumanTypes
  <2>1. Steady(rows', rows)
    BY <1>7 DEF HumanAnswersDialog, HumanAnswersPrompt, HumanTypes, Turned, NextTurn, Steady,
                TypeOK, Row
  <2>2. board.inside /\ UNCHANGED <<board, used>>
    BY <1>7 DEF HumanAnswersDialog, HumanAnswersPrompt, HumanTypes
  <2> QED BY <2>1, <2>2, QuietStep
<1> QED BY <1>1, <1>2, <1>3, <1>4, <1>5, <1>6, <1>7 DEF User

LEMMA OnceStep ==
  ASSUME TypeOK, InComposer, OnceInv, [Next]_vars
  PROVE  OnceInv'
<1>1. CASE Boot
  BY <1>1, LaunchSucceedsOnce, LaunchDiesOnce, LaunchIsLateOnce, StartupEndsOnce DEF Boot
<1>2. CASE CreateWorker \/ Recover
  BY <1>2, StartBackendOnce, RecoverOnce DEF Recover
<1>3. CASE UNCHANGED vars
  BY <1>3, QuietStep DEF vars, Steady
<1> QED BY <1>1, <1>2, <1>3, PumpOnce, CrashOnce, ClaudeOnce, UserOnce DEF Next

LEMMA OnceInitial == Init => OnceInv
<1> SUFFICES ASSUME Init
             PROVE  OnceInv
  OBVIOUS
<1>1. /\ rows.typed = 0 /\ ~rows.pending /\ used.crashes = 0 /\ used.visits = 0
      /\ ~board.first /\ ~board.pump /\ ~board.inside
  BY DEF Init, Down
<1> QED BY <1>1 DEF OnceInv, WithinBudget, BeforeLaunch, FirstLaunch, HeldBack, Visited, Spent, Allowed

(***************************************************************************)
(* The first prompt is typed once, and once more at most for each restart  *)
(* of the board and each visit after the first, whatever is sent, stopped, *)
(* interrupted and recovered (_launch, resume_startup, _recover_startup).  *)
(***************************************************************************)
THEOREM FirstPromptOnce == Spec => []PromptedOnce
<1>1. Init => TypeOK /\ InComposer /\ OnceInv
  BY TypeInitial, ComposerInitial, OnceInitial
<1>2. TypeOK /\ InComposer /\ OnceInv /\ [Next]_vars => (TypeOK /\ InComposer /\ OnceInv)'
  BY TypePreserved, ComposerStep, OnceStep
<1>3. TypeOK /\ InComposer /\ OnceInv => PromptedOnce
  <2> SUFFICES ASSUME TypeOK, OnceInv
               PROVE  PromptedOnce
    OBVIOUS
  <2> QED BY Numbers DEF OnceInv, WithinBudget, Spent, Allowed, PromptedOnce
<1> QED BY <1>1, <1>2, <1>3, PTL DEF Spec

----------------------------------------------------------------------------
(* A block is on the board *)


(***************************************************************************)
(* A row that is blocked with no item is on its way to one: the human has  *)
(* the session, whose leaving adds the item, or the second wait of a       *)
(* launch is on, whose end answers the block or calls the user.  Without a *)
(* restart there is no recovery, the one other thing that blocks a row.    *)
(***************************************************************************)
Unasked(r) == r.status = "blocked" /\ r.asked = {}
NoRestart == used.crashes = 0 => board.up /\ board.recovery = "none"
NotBlockedYet == board.boot = "create" => rows.status = "starting" /\ ~board.inside
Attended ==
  used.crashes = 0 /\ used.interrupts = 0 /\ Unasked(rows) =>
    rows.owner = "human" \/ board.boot \in {"answered", "slow"}
AttendedInv == NoRestart /\ NotBlockedYet /\ Attended

(* Whether a row is blocked without an item, in its status and its items. *)
LEMMA StatusOf ==
  ASSUME NEW r \in Row
  PROVE  /\ \A status \in Status :
              Became(r, status).status = status /\ Became(r, status).asked = r.asked
         /\ \A kind \in Kind : Asking(r, kind).asked # {} /\ Asking(r, kind).status = r.status
         /\ \A kinds : Answered(r, kinds).status = r.status
         /\ \A kind \in Kind : Blocked(r, kind).status = "blocked"
         /\ Acknowledged(r).status = r.status /\ Acknowledged(r).asked = r.asked
<1>1. \A status \in Status :
        Became(r, status).status = status /\ Became(r, status).asked = r.asked
  BY DEF Became, Row
<1>2. \A kind \in Kind : Asking(r, kind).asked # {} /\ Asking(r, kind).status = r.status
  BY DEF Asking, Row
<1>3. \A kinds : Answered(r, kinds).status = r.status
  BY DEF Answered, Row
<1>4. \A kind \in Kind : Blocked(r, kind).status = "blocked"
  BY DEF Blocked, Row
<1>5. Acknowledged(r).status = r.status /\ Acknowledged(r).asked = r.asked
  BY DEF Acknowledged, Row
<1> QED BY <1>1, <1>2, <1>3, <1>4, <1>5

(* A prompt that is sent leaves no block behind, delivered or not. *)
LEMMA ResumedIsSeen ==
  ASSUME NEW r \in Row, ~Unasked(r)
  PROVE  ~Unasked(Resumed(r))
<1> DEFINE s == Sends(r, TRUE)
<1>1. s \in Row /\ s.status \in {"working", "disconnected"}
  BY SendsType, SendsSpends
<1> HIDE DEF s
<1>2. Resumed(r) = r \/ Resumed(r) = [s EXCEPT !.pending = s.status = "disconnected"]
  BY DEF Resumed, s
<1>3. [s EXCEPT !.pending = s.status = "disconnected"].status = s.status
  BY <1>1 DEF Row
<1> QED BY <1>1, <1>2, <1>3 DEF Unasked

(* Without a recovery the end of a launch writes the row as it is given. *)
LEMMA BootEndsPlainly ==
  ASSUME TypeOK, board.recovery = "none",
         NEW r, NEW ok \in BOOLEAN, NEW pump, BootEnds(r, ok, pump)
  PROVE  rows' = r /\ board'.boot = "none" /\ board'.up = board.up
         /\ board'.recovery = "none"
BY DEF BootEnds, Recovered, TypeOK, Board

(* A step that leaves the board where it was and blocks no row unasked. *)
LEMMA SeenSteps ==
  ASSUME TypeOK, AttendedInv, used'.crashes = used.crashes,
         board'.up = board.up, board'.recovery = board.recovery,
         board'.boot # "create",
         ~Unasked(rows')
  PROVE  AttendedInv'
BY DEF AttendedInv, NoRestart, NotBlockedYet, Attended

LEMMA SameSteps ==
  ASSUME TypeOK, AttendedInv, used'.crashes = used.crashes,
         used'.interrupts = used.interrupts,
         board'.up = board.up, board'.recovery = board.recovery,
         board'.boot = board.boot, board'.boot # "create",
         rows'.status = rows.status, rows'.asked = rows.asked,
         rows'.owner = rows.owner
  PROVE  AttendedInv'
BY DEF AttendedInv, NoRestart, NotBlockedYet, Attended, Unasked

(* Once the board has been restarted nothing is promised. *)
LEMMA RestartedSteps ==
  ASSUME TypeOK, used'.crashes # 0, board'.boot # "create"
  PROVE  AttendedInv'
BY DEF AttendedInv, NoRestart, NotBlockedYet, Attended

LEMMA StartBackendAttended ==
  ASSUME TypeOK, AttendedInv, NEW first \in BOOLEAN, NEW recovery,
         StartBackend(first, recovery),
         used.crashes = 0 => ~Unasked(rows) /\ recovery = board.recovery
  PROVE  AttendedInv'
<1>1. /\ rows'.status = rows.status /\ rows'.asked = rows.asked
      /\ board'.boot = "launch" /\ board'.up = board.up
      /\ board'.recovery = recovery /\ used' = used
  BY DEF StartBackend, TypeOK, Row, Board
<1>2. CASE used.crashes # 0
  BY <1>1, <1>2, RestartedSteps
<1>3. CASE used.crashes = 0
  BY <1>1, <1>3, SeenSteps DEF Unasked
<1> QED BY <1>2, <1>3

LEMMA LaunchIsLateAttended ==
  ASSUME TypeOK, AttendedInv, used.crashes = 0, LaunchIsLate
  PROVE  AttendedInv'
<1> DEFINE f == [rows EXCEPT !.proc = FailedProc]
           r == Blocked(f, "decision")
<1>1. f \in Row /\ f.status = rows.status /\ f.asked = rows.asked
  BY FailedProcType DEF TypeOK, Row
<1>2. r \in Row /\ r.owner = rows.owner
  <2>1. f.owner = rows.owner
    BY FailedProcType DEF TypeOK, Row
  <2> HIDE DEF f
  <2>2. Blocked(f, "decision") \in Row
    BY <1>1, RowSteps, Words
  <2>3. Blocked(f, "decision").owner = f.owner
    BY <1>1 DEF Blocked, Row
  <2> QED BY <2>1, <2>2, <2>3
<1>3. used' = used /\ board.recovery = "none" /\ board.up
  BY DEF LaunchIsLate, AttendedInv, NoRestart
<1>4. \/ ~Permitted(rows.status, "blocked") /\ BootEnds(f, FALSE, board.pump)
      \/ SecondChance(r)
  BY DEF LaunchIsLate
<1> HIDE DEF f, r
<1>5. CASE ~Permitted(rows.status, "blocked") /\ BootEnds(f, FALSE, board.pump)
  <2>1. rows' = f /\ board'.boot = "none" /\ board'.up = board.up
        /\ board'.recovery = "none"
    BY <1>3, <1>5, BootEndsPlainly
  <2>2. ~Unasked(rows')
    BY <1>1, <1>5, <2>1 DEF Permitted, Unasked
  <2> QED BY <1>3, <2>1, <2>2, SeenSteps
<1>6. CASE BootEnds(Asking(r, "permission"), FALSE, TRUE)
  <2>1. rows' = Asking(r, "permission") /\ board'.boot = "none" /\ board'.up = board.up
        /\ board'.recovery = "none"
    BY <1>3, <1>6, BootEndsPlainly
  <2>2. ~Unasked(rows')
    BY <1>2, <2>1, StatusOf, Words DEF Unasked
  <2> QED BY <1>3, <2>1, <2>2, SeenSteps
<1>7. CASE r.owner = "human" /\ BootEnds(r, FALSE, board.pump)
  <2>1. rows' = r /\ board'.boot = "none" /\ board'.up = board.up
        /\ board'.recovery = "none"
    BY <1>3, <1>7, BootEndsPlainly
  <2> QED BY <1>3, <1>7, <2>1 DEF AttendedInv, NoRestart, NotBlockedYet, Attended
<1>8. CASE \E boot \in {"answered", "slow"} : board' = [board EXCEPT !.boot = boot]
  <2>1. board'.boot \in {"answered", "slow"} /\ board'.up = board.up
        /\ board'.recovery = board.recovery
    BY <1>8 DEF TypeOK, Board
  <2> QED BY <1>3, <2>1 DEF AttendedInv, NoRestart, NotBlockedYet, Attended
<1> QED BY <1>4, <1>5, <1>6, <1>7, <1>8 DEF SecondChance

(***************************************************************************)
(* A launch ends ready and working, dead and failed, or late: then an item *)
(* is there, or the human is, or a second wait is on that ends likewise.   *)
(***************************************************************************)
LEMMA BootAttended ==
  ASSUME TypeOK, AttendedInv, used.crashes = 0, Boot
  PROVE  AttendedInv'
<1>1. board.recovery = "none" /\ board.up
  BY DEF AttendedInv, NoRestart
<1>2. CASE LaunchSucceeds
  <2> DEFINE typed == IF board.first THEN [FirstTyped(rows) EXCEPT !.pending = FALSE]
                      ELSE rows
             ok == Permitted(rows.status, "working")
             became == IF ok THEN Became(typed, "working") ELSE typed
  <2>1. typed \in Row /\ typed.status = rows.status /\ ok \in BOOLEAN
    <3>1. FirstTyped(rows) \in Row /\ FirstTyped(rows).status = rows.status
      BY TypedType DEF TypeOK, FirstTyped, Typed, NextTurn, Row
    <3> QED BY <3>1 DEF TypeOK, Row, Permitted
  <2> HIDE DEF typed
  <2>2. ~Unasked(became)
    <3>1. CASE ok
      BY <2>1, <3>1, StatusOf, Words DEF Unasked
    <3>2. CASE ~ok
      BY <2>1, <3>2 DEF Unasked, Permitted
    <3> QED BY <3>1, <3>2
  <2> HIDE DEF ok, became
  <2>3. BootEnds(became, ok, ok \/ board.pump) /\ used' = used
    BY <1>2 DEF LaunchSucceeds, typed, became, ok
  <2>4. rows' = became /\ board'.boot = "none" /\ board'.up = board.up
        /\ board'.recovery = "none"
    BY <1>1, <2>1, <2>3, BootEndsPlainly
  <2> QED BY <1>1, <2>2, <2>3, <2>4, SeenSteps
<1>3. CASE LaunchDies
  <2> DEFINE r == [rows EXCEPT !.proc = FailedProc]
             became == IF Permitted(r.status, "failed") THEN Became(r, "failed") ELSE r
  <2>1. r \in Row
    BY FailedProcType DEF TypeOK
  <2> HIDE DEF r
  <2>2. ~Unasked(became)
    <3>1. CASE Permitted(r.status, "failed")
      BY <2>1, <3>1, StatusOf, Words DEF Unasked
    <3>2. CASE ~Permitted(r.status, "failed")
      BY <3>2 DEF Unasked, Permitted
    <3> QED BY <3>1, <3>2
  <2> HIDE DEF became
  <2>3. BootEnds(became, FALSE, board.pump) /\ used' = used
    BY <1>3 DEF LaunchDies, r, became
  <2>4. rows' = became /\ board'.boot = "none" /\ board'.up = board.up
        /\ board'.recovery = "none"
    BY <1>1, <2>3, BootEndsPlainly
  <2> QED BY <1>1, <2>2, <2>3, <2>4, SeenSteps
<1>4. CASE LaunchIsLate
  BY <1>4, LaunchIsLateAttended
<1>5. CASE StartupRecovers
  <2> DEFINE a == Answered(rows, {"permission"})
             r == Became(a, "working")
  <2>1. a \in Row
    BY RowSteps, Words DEF TypeOK
  <2> HIDE DEF a
  <2>2. r \in Row /\ ~Unasked(r)
    BY <2>1, RowSteps, StatusOf, Words DEF Unasked
  <2> HIDE DEF r
  <2>3. BootEnds(Resumed(r), ~Resumed(r).pending, TRUE) /\ used' = used
    BY <1>5 DEF StartupRecovers, a, r
  <2>4. (~Resumed(r).pending) \in BOOLEAN
    OBVIOUS
  <2>5. rows' = Resumed(r) /\ board'.boot = "none" /\ board'.up = board.up
        /\ board'.recovery = "none"
    BY <1>1, <2>3, <2>4, BootEndsPlainly
  <2> QED BY <1>1, <2>2, <2>3, <2>5, SeenSteps, ResumedIsSeen
<1>6. CASE StartupGivesUp
  <2>1. BootEnds(Asking(rows, "permission"), FALSE, board.session # "none") /\ used' = used
    BY <1>6 DEF StartupGivesUp
  <2>2. rows' = Asking(rows, "permission") /\ board'.boot = "none" /\ board'.up = board.up
        /\ board'.recovery = "none"
    BY <1>1, <2>1, BootEndsPlainly
  <2>3. ~Unasked(rows')
    BY <2>2, StatusOf, Words DEF TypeOK, Unasked
  <2> QED BY <1>1, <2>1, <2>2, <2>3, SeenSteps
<1> QED BY <1>2, <1>3, <1>4, <1>5, <1>6 DEF Boot

(* An event that blocks a row brings an item; the others end the block. *)
LEMMA AppliedIsSeen ==
  ASSUME NEW r \in Row, NEW e \in Hook
  PROVE  /\ Applied(r, e).owner = r.owner
         /\ Applied(r, e) = r \/ ~Unasked(Applied(r, e))
<1>1. e.kind \in Event
  BY DEF Hook
<1>2. /\ \A proc \in Process, kind \in Kind :
           [r EXCEPT !.proc = proc, !.why = kind] \in Row
           /\ [r EXCEPT !.proc = proc, !.why = kind].owner = r.owner
      /\ \A proc \in Process, kinds \in SUBSET Kind :
           [r EXCEPT !.proc = proc, !.asked = kinds] \in Row
           /\ [r EXCEPT !.proc = proc, !.asked = kinds].owner = r.owner
      /\ \A proc \in Process :
           [r EXCEPT !.proc = proc] \in Row /\ [r EXCEPT !.proc = proc].owner = r.owner
  BY DEF Row
<1>3. \A s \in Row, kind \in Kind :
        Asking(s, kind) \in Row /\ Asking(s, kind).owner = s.owner /\ Asking(s, kind).asked # {}
  BY RowSteps DEF Asking, Row
<1>4. \A s \in Row, status \in Status :
        /\ Became(s, status).owner = s.owner /\ Became(s, status).asked = s.asked
        /\ Became(s, status).status = status
  BY DEF Became, Row
<1>5. CASE e.kind = "permission"
  <2> DEFINE s == [r EXCEPT !.proc = "waiting", !.why = "permission"]
             t == Asking(s, "permission")
  <2>1. s \in Row /\ s.owner = r.owner
    BY <1>2, Words
  <2> HIDE DEF s
  <2>2. t \in Row /\ t.owner = r.owner /\ t.asked # {}
    BY <1>3, <2>1, Words
  <2>3. Applied(r, e) \in {r, Became(t, "blocked")}
    BY <1>5 DEF Applied, s
  <2> HIDE DEF t
  <2>4. Became(t, "blocked").owner = t.owner /\ Became(t, "blocked").asked = t.asked
    BY <1>4, <2>2, Words
  <2> QED BY <2>2, <2>3, <2>4 DEF Unasked
<1>6. CASE e.kind = "blocked"
  <2> DEFINE s == [r EXCEPT !.proc = "waiting", !.why = "decision"]
             t == Asking(s, "decision")
  <2>1. s \in Row /\ s.owner = r.owner
    BY <1>2, Words
  <2> HIDE DEF s
  <2>2. t \in Row /\ t.owner = r.owner /\ t.asked # {}
    BY <1>3, <2>1, Words
  <2>3. Applied(r, e) \in {r, Became(t, "blocked")}
    BY <1>6 DEF Applied, s
  <2> HIDE DEF t
  <2>4. Became(t, "blocked").owner = t.owner /\ Became(t, "blocked").asked = t.asked
    BY <1>4, <2>2, Words
  <2> QED BY <2>2, <2>3, <2>4 DEF Unasked
<1>7. CASE e.kind \in {"error", "failed", "result", "stopped"}
  <2>1. PICK t \in Row, status \in {"failed", "idle", "stopped"} :
          t.owner = r.owner /\ Applied(r, e) \in {r, Became(t, status)}
    <3>1. CASE e.kind = "error"
      <4> DEFINE t == [r EXCEPT !.proc = "turn_complete", !.asked = {"failed"}]
      <4>1. t \in Row /\ t.owner = r.owner
        BY <1>2, Words
      <4>2. Applied(r, e) \in {r, Became(t, "failed")}
        BY <3>1 DEF Applied
      <4> HIDE DEF t
      <4> QED BY <4>1, <4>2
    <3>2. CASE e.kind = "failed"
      <4> DEFINE s == [r EXCEPT !.proc = "exited"]
                 t == Asking(s, "failed")
      <4>1. s \in Row /\ s.owner = r.owner
        BY <1>2, Words
      <4>2. t \in Row /\ t.owner = r.owner
        BY <1>3, <4>1, Words
      <4>3. Applied(r, e) \in {r, Became(t, "failed")}
        BY <3>2 DEF Applied
      <4> HIDE DEF t, s
      <4> QED BY <4>2, <4>3
    <3>3. CASE e.kind = "result"
      <4> DEFINE t == [r EXCEPT !.proc = "turn_complete", !.asked = {}]
      <4>1. t \in Row /\ t.owner = r.owner
        BY <1>2, Words
      <4>2. Applied(r, e) \in {r, Became(t, "idle")}
        BY <3>3 DEF Applied
      <4> HIDE DEF t
      <4> QED BY <4>1, <4>2
    <3>4. CASE e.kind = "stopped"
      <4> DEFINE t == [r EXCEPT !.proc = "exited"]
      <4>1. t \in Row /\ t.owner = r.owner
        BY <1>2, Words
      <4>2. Applied(r, e) \in {r, Became(t, "stopped")}
        BY <3>4 DEF Applied
      <4> HIDE DEF t
      <4> QED BY <4>1, <4>2
    <3> QED BY <1>7, <3>1, <3>2, <3>3, <3>4
  <2>2. status \in Status /\ status # "blocked"
    BY Words
  <2>3. Became(t, status).owner = t.owner /\ Became(t, status).status = status
    BY <1>4, <2>2
  <2>4. ~Unasked(Became(t, status))
    BY <2>2, <2>3 DEF Unasked
  <2>5. CASE Applied(r, e) = r
    BY <2>5
  <2>6. CASE Applied(r, e) = Became(t, status)
    <3>1. Applied(r, e).owner = r.owner
      BY <2>1, <2>3, <2>6
    <3>2. ~Unasked(Applied(r, e))
      BY <2>4, <2>6
    <3> QED BY <3>1, <3>2
  <2> QED BY <2>1, <2>5, <2>6
<1> QED BY <1>1, <1>5, <1>6, <1>7 DEF Event

LEMMA PumpAttended ==
  ASSUME TypeOK, AttendedInv, PumpStep
  PROVE  AttendedInv'
<1> DEFINE e == Head(hooks)
           r == Applied(rows, e)
<1>1. rows \in Row /\ e \in Hook
  BY HeadTailProperties DEF PumpStep, TypeOK
<1> HIDE DEF e
<1>2. r \in Row /\ r.owner = rows.owner /\ (r = rows \/ ~Unasked(r))
  BY <1>1, AppliedType, AppliedIsSeen
<1>3. rows' \in {r, Acknowledged(r)} /\ board' = board /\ used' = used
  BY DEF PumpStep, e
<1> HIDE DEF r
<1>4. rows'.status = r.status /\ rows'.asked = r.asked /\ rows'.owner = r.owner
  BY <1>2, <1>3, StatusOf DEF Acknowledged, Row
<1>5. board.boot # "create"
  BY DEF PumpStep, Running
<1>6. CASE r = rows
  BY <1>3, <1>4, <1>5, <1>6, SameSteps
<1>7. CASE ~Unasked(r)
  BY <1>3, <1>4, <1>5, <1>7, SeenSteps DEF Unasked
<1> QED BY <1>2, <1>6, <1>7

(* Who leaves a blocked session hands it back with an item, or keeps it. *)
LEMMA LeaveAttended ==
  ASSUME TypeOK, AttendedInv, NEW cleared \in BOOLEAN, LeaveSession(cleared)
  PROVE  AttendedInv'
<1> DEFINE a == Released(rows)
           b == Unblocked(a)
           c == Reminded(b)
<1>1. /\ board'.boot = board.boot /\ board'.up = board.up
      /\ board'.recovery = board.recovery /\ used' = used
  BY DEF LeaveSession, TypeOK, Board
<1>4. board.boot # "create"
  BY DEF LeaveSession, AttendedInv, NotBlockedYet
<1>2. CASE cleared /\ Alive
  <2>1. a \in Row /\ a.status = rows.status
    <3> DEFINE m == [rows EXCEPT !.owner = "manager"]
    <3>1. m \in Row /\ m.status = rows.status
      BY RowSteps DEF TypeOK, Row
    <3>2. a \in {m, Turned(m, "interrupted"), Acknowledged(m)}
      BY DEF Released
    <3> HIDE DEF a, m
    <3>3. /\ Turned(m, "interrupted") \in Row /\ Turned(m, "interrupted").status = m.status
          /\ Acknowledged(m) \in Row /\ Acknowledged(m).status = m.status
      <4>1. Turned(m, "interrupted").status = m.status
        BY <3>1 DEF Turned, Row
      <4> QED BY <3>1, <4>1, RowSteps, Words, AcknowledgedType, StatusOf
    <3> QED BY <3>1, <3>2, <3>3
  <2> HIDE DEF a
  <2>2. b \in Row /\ (b.status = a.status \/ b.status = "idle")
    <3>1. Became(a, "idle") \in Row /\ Became(a, "idle").status = "idle"
      BY <2>1, RowSteps, StatusOf, Words
    <3> DEFINE n == Became(a, "idle")
    <3> HIDE DEF n
    <3>2. /\ Answered(n, {"permission"}) \in Row
          /\ Answered(n, {"permission"}).status = "idle"
      <4>1. {"permission"} \in SUBSET Kind
        BY Words
      <4>2. n \in Row /\ n.status = "idle"
        BY <3>1 DEF n
      <4>3. Answered(n, {"permission"}) \in Row
        BY <4>1, <4>2, RowSteps
      <4> QED BY <4>2, <4>3, StatusOf
    <3> USE DEF n
    <3> QED BY <2>1, <3>2 DEF Unblocked
  <2> HIDE DEF b
  <2>3. c \in Row /\ ~Unasked(c) /\ c.status = b.status
    <3>1. b.why \in Kind
      BY <2>2 DEF Row
    <3>2. /\ Asking(b, b.why) \in Row /\ Asking(b, b.why).asked # {}
          /\ Asking(b, b.why).status = b.status
      BY <2>2, <3>1, RowSteps, StatusOf
    <3> QED BY <2>2, <3>2 DEF Reminded, Unasked
  <2> HIDE DEF c
  <2>4. rows' = Resumed(c)
    BY <1>2 DEF LeaveSession, a, b, c
  <2>5. ~Unasked(rows')
    BY <2>3, <2>4, ResumedIsSeen
  <2> QED BY <1>1, <1>4, <2>5, SeenSteps
<1>3. CASE ~(cleared /\ Alive)
  <2>1. rows' = rows
    BY <1>3 DEF LeaveSession
  <2> QED BY <1>1, <1>4, <2>1, SameSteps
<1> QED BY <1>2, <1>3

LEMMA UserAttended ==
  ASSUME TypeOK, AttendedInv, User
  PROVE  AttendedInv'
<1>1. /\ GrantRepositoryTrust \/ AnswerWorkspaceTrust => UNCHANGED <<rows, board, used>>
      /\ HumanAnswersDialog => UNCHANGED <<rows, board, used>>
  BY DEF GrantRepositoryTrust, AnswerWorkspaceTrust, HumanAnswersDialog
<1>2. CASE UNCHANGED <<rows, board, used>>
  BY <1>2 DEF AttendedInv, NoRestart, NotBlockedYet, Attended, Unasked
<1>3. CASE SendMessage
  <2> DEFINE s == Sends(rows, FALSE)
  <2>1. s \in Row /\ s.status \in {"working", "disconnected"}
    BY SendsType, SendsSpends DEF TypeOK
  <2>2. rows' = s /\ board' = board /\ used'.crashes = used.crashes
        /\ board.boot # "create"
    BY <1>3 DEF SendMessage, Running, TypeOK
  <2> HIDE DEF s
  <2> QED BY <2>1, <2>2, SeenSteps DEF Unasked
<1>4. CASE InterruptWorker
  <2>1. used'.interrupts = 1 /\ used'.crashes = used.crashes /\ board' = board
        /\ board.boot # "create"
    BY <1>4 DEF InterruptWorker, Running, TypeOK
  <2> QED BY <2>1 DEF AttendedInv, NoRestart, NotBlockedYet, Attended
<1>5. CASE StopWorker
  <2>1. rows'.status = "stopped"
    BY <1>5 DEF StopWorker, Became, TypeOK, Row
  <2>2. used' = used /\ board'.boot = board.boot /\ board'.up = board.up
        /\ board'.recovery = board.recovery /\ board.boot # "create"
    BY <1>5 DEF StopWorker, Running, TypeOK, Board
  <2> QED BY <2>1, <2>2, SeenSteps DEF Unasked
<1>6. CASE Attach
  <2>1. rows'.owner = "human"
    BY <1>6 DEF Attach, TypeOK, Row
  <2>2. used'.crashes = used.crashes /\ board'.boot = board.boot /\ board'.up = board.up
        /\ board'.recovery = board.recovery /\ board.boot # "create"
    BY <1>6 DEF Attach, Running, TypeOK, Board
  <2> QED BY <2>1, <2>2 DEF AttendedInv, NoRestart, NotBlockedYet, Attended
<1>7. CASE \E cleared \in BOOLEAN : LeaveSession(cleared)
  BY <1>7, LeaveAttended
<1>8. CASE HumanAnswersPrompt \/ HumanTypes
  <2>1. /\ rows'.status = rows.status /\ rows'.asked = rows.asked
        /\ rows'.owner = rows.owner /\ board' = board /\ used' = used
    BY <1>8 DEF HumanAnswersPrompt, HumanTypes, Turned, NextTurn, TypeOK, Row
  <2>2. board.boot # "create"
    BY <1>8 DEF HumanAnswersPrompt, HumanTypes, AttendedInv, NotBlockedYet
  <2> QED BY <2>1, <2>2, SameSteps
<1> QED BY <1>1, <1>2, <1>3, <1>4, <1>5, <1>6, <1>7, <1>8 DEF User

(* Claude and its hooks change neither the status nor the items. *)
LEMMA ClaudeAttended ==
  ASSUME TypeOK, AttendedInv,
         Claude \/ (\E said \in BOOLEAN : ClaudeExits(said)) \/ WatchObserves
  PROVE  AttendedInv'
<1> SUFFICES /\ rows'.status = rows.status /\ rows'.asked = rows.asked
             /\ rows'.owner = rows.owner /\ board'.boot = board.boot
             /\ board'.inside = board.inside
             /\ board'.up = board.up /\ board'.recovery = board.recovery
             /\ used' = used
  BY DEF AttendedInv, NoRestart, NotBlockedYet, Attended, Unasked
<1>1. CASE WatchObserves
  BY <1>1 DEF WatchObserves, TypeOK, Row, Board
<1>2. CASE \E said \in BOOLEAN : ClaudeExits(said)
  BY <1>2 DEF ClaudeExits, TypeOK, Row
<1>3. CASE \E dialog \in {"trust", "login"} : ClaudeShows(dialog)
  BY <1>3 DEF ClaudeShows
<1>4. CASE ClaudeIsReady \/ ClaudeTakesPrompt \/ ClaudeAsks
  BY <1>4 DEF ClaudeIsReady, ClaudeTakesPrompt, ClaudeAsks, Turned, TypeOK, Row
<1>5. CASE \E kind \in {"result", "error", "blocked"} : ClaudeStops(kind)
  BY <1>5 DEF ClaudeStops, Turned, TypeOK, Row
<1> QED BY <1>1, <1>2, <1>3, <1>4, <1>5 DEF Claude

LEMMA RecoverAttended ==
  ASSUME TypeOK, AttendedInv, Recover
  PROVE  AttendedInv'
<1>1. board.recovery # "none" /\ board.boot # "create" /\ used' = used
  BY DEF Recover, RecoverLists, RecoverAdopts, RecoverRecreates, Running, StartBackend
<1>2. used'.crashes # 0
  BY <1>1 DEF AttendedInv, NoRestart
<1>3. board'.boot \in {board.boot, "launch"}
  BY DEF Recover, RecoverLists, RecoverAdopts, RecoverRecreates, StartBackend, TypeOK, Board
<1> QED BY <1>1, <1>2, <1>3, RestartedSteps

LEMMA AttendedStep == TypeOK /\ AttendedInv /\ [Next]_vars => AttendedInv'
<1> SUFFICES ASSUME TypeOK, AttendedInv, [Next]_vars
             PROVE  AttendedInv'
  OBVIOUS
<1>1. CASE CreateWorker
  <2>1. StartBackend(TRUE, "none") /\ rows.status = "starting"
    BY <1>1 DEF CreateWorker, AttendedInv, NotBlockedYet
  <2>2. used.crashes = 0 => board.recovery = "none"
    BY DEF AttendedInv, NoRestart
  <2> QED BY <2>1, <2>2, StartBackendAttended DEF Unasked
<1>2. CASE Boot
  <2>1. CASE used.crashes = 0
    BY <1>2, <2>1, BootAttended
  <2>2. CASE used.crashes # 0
    <3>1. used' = used
      BY <1>2 DEF Boot, LaunchSucceeds, LaunchDies, LaunchIsLate, StartupRecovers,
             StartupGivesUp
    <3>2. board'.boot # "create"
      BY <1>2 DEF Boot, LaunchSucceeds, LaunchDies, LaunchIsLate, SecondChance,
             StartupRecovers, StartupGivesUp, BootEnds, TypeOK, Board
    <3> QED BY <2>2, <3>1, <3>2, RestartedSteps
  <2> QED BY <2>1, <2>2
<1>3. CASE Recover
  BY <1>3, RecoverAttended
<1>4. CASE PumpStep
  BY <1>4, PumpAttended
<1>5. CASE Crash \/ CrashBeforeCleared
  <2>1. board' = Down /\ used'.crashes = used.crashes + 1 /\ used.crashes \in Nat
    BY <1>5, StartupBounds DEF Crash, CrashBeforeCleared, TypeOK
  <2> QED BY <2>1, RestartedSteps DEF Down
<1>6. CASE StartBoard
  <2>1. ~board.up /\ used' = used /\ board'.boot = "none"
    BY <1>6 DEF StartBoard, Down
  <2> QED BY <2>1, RestartedSteps DEF AttendedInv, NoRestart
<1>7. CASE Claude \/ (\E said \in BOOLEAN : ClaudeExits(said)) \/ WatchObserves
  BY <1>7, ClaudeAttended
<1>8. CASE User
  BY <1>8, UserAttended
<1>9. CASE UNCHANGED vars
  BY <1>9 DEF vars, AttendedInv, NoRestart, NotBlockedYet, Attended, Unasked
<1> QED BY <1>1, <1>2, <1>3, <1>4, <1>5, <1>6, <1>7, <1>8, <1>9 DEF Next

(***************************************************************************)
(* A worker that is blocked, and that nothing works on and nobody is in,   *)
(* has an item on the board, unless the user interrupted it or the board   *)
(* was restarted.                                                          *)
(***************************************************************************)
THEOREM BlocksAreOnTheBoard == Spec => []BlockedIsOnTheBoard
<1>1. Init => AttendedInv
  BY DEF Init, Down, AttendedInv, NoRestart, NotBlockedYet, Attended, Unasked
<1>2. TypeOK /\ AttendedInv => BlockedIsOnTheBoard
  <2> SUFFICES ASSUME TypeOK, AttendedInv, ~Booting, rows.owner = "manager",
                      rows.status = "blocked", used.crashes + used.interrupts = 0
               PROVE  rows.asked # {}
    BY DEF BlockedIsOnTheBoard
  <2>1. used.crashes \in Nat /\ used.interrupts \in Nat
    BY StartupBounds DEF TypeOK
  <2>2. used.crashes = 0 /\ used.interrupts = 0
    BY <2>1
  <2> QED BY <2>2 DEF AttendedInv, Attended, Unasked, Booting
<1> QED BY <1>1, <1>2, TypeCorrect, AttendedStep, PTL DEF Spec
=============================================================================
