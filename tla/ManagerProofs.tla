--------------------------- MODULE ManagerProofs ---------------------------
(***************************************************************************)
(* Proofs about the Manager's tool calls, for any number of boards,        *)
(* generations, turns and calls: what a call answers is true and it takes  *)
(* effect at most once, a tool that needs the user's own words takes       *)
(* effect only in a turn that has them, and every variable keeps its type. *)
(***************************************************************************)
EXTENDS NativeManager, TLAPS

----------------------------------------------------------------------------
(* What is true of a call wherever it is *)

(* Nothing is applied or answered before the board has read the request;   *)
(* a board that has read it has decided both at once.                      *)
Truthful(call) ==
  /\ call.at \in {"none", "open", "write", "sent"} => call.applied = 0 /\ call.answer = "none"
  /\ call.at = "replying" => \/ call.applied = 1 /\ call.answer = "result"
                             \/ call.applied = 0 /\ call.answer = "refused"
  /\ call.applied <= 1
  /\ call.answer \in {"nothing", "refused"} => call.applied = 0
  /\ call.answer = "result" => call.applied = 1

CallsOK ==
  /\ calls \in [Calls -> Call] /\ asked \in 0..MaxCalls
  /\ \A c \in Calls : Truthful(calls[c])

(* One call is rewritten: the rest is as it was.                           *)
LEMMA CallRewritten ==
  ASSUME CallsOK, NEW c \in Calls, NEW call \in Call, Truthful(call),
         calls' = [calls EXCEPT ![c] = call], asked' \in 0..MaxCalls
  PROVE  CallsOK'
BY DEF CallsOK

LEMMA CallMoved ==
  ASSUME NEW call \in Call,
         NEW at \in {"none", "open", "write", "sent", "replying", "over"},
         NEW answer \in {"none", "result", "refused", "nothing", "unknown", "gone"}
  PROVE  /\ [call EXCEPT !.at = at] \in Call
         /\ [call EXCEPT !.at = at, !.answer = answer] \in Call
BY DEF Call

(* A call that had not been read is over, with an answer that says no more.*)
LEMMA CallOver ==
  ASSUME NEW call \in Call, Truthful(call), NEW answer \in {"nothing", "unknown", "gone"},
         answer = "nothing" => call.at \in {"open", "write"}
  PROVE  /\ [call EXCEPT !.at = "over", !.answer = answer] \in Call
         /\ Truthful([call EXCEPT !.at = "over", !.answer = answer])
<1>1. [call EXCEPT !.at = "over", !.answer = answer] \in Call
  BY CallMoved
<1> QED BY <1>1 DEF Call, Truthful

LEMMA AbandonedCalls ==
  ASSUME CallsOK, NEW g, calls' = Abandoned(g), asked' = asked
  PROVE  CallsOK'
<1> DEFINE gone(c) == [calls[c] EXCEPT !.at = "over", !.answer = "gone"]
<1>1. \A c \in Calls : /\ calls[c] \in Call /\ Truthful(calls[c])
                       /\ gone(c) \in Call /\ Truthful(gone(c))
  BY CallOver DEF CallsOK
<1> HIDE DEF gone
<1>2. calls' = [c \in Calls |-> IF calls[c].gen = g /\ calls[c].at \in {"open", "write"}
                                THEN gone(c) ELSE calls[c]]
  BY DEF Abandoned, gone
<1> QED BY <1>1, <1>2 DEF CallsOK

----------------------------------------------------------------------------
(* The bridge keeps to the truth *)

LEMMA CalledTruthfully ==
  ASSUME CallsOK, NEW g \in Generations, CallTool(g)
  PROVE  CallsOK'
<1>1. asked + 1 \in Calls /\ asked + 1 \in 0..MaxCalls
  BY ManagerBounds DEF CallsOK, CallTool, Calls
<1>2. PICK guarded \in BOOLEAN :
        calls' = [calls EXCEPT ![asked + 1] =
                    [NoCall EXCEPT !.gen = g, !.at = "open", !.guarded = guarded]]
  BY DEF CallTool
<1> DEFINE call == [NoCall EXCEPT !.gen = g, !.at = "open", !.guarded = guarded]
<1>3. call \in Call /\ Truthful(call)
  <2>1. NoCall \in Call /\ NoCall.applied = 0 /\ NoCall.answer = "none"
    BY DEF NoCall, Call
  <2>2. call \in Call /\ call.at = "open" /\ call.applied = 0 /\ call.answer = "none"
    BY <2>1 DEF Call
  <2> HIDE DEF call
  <2> QED BY <2>2 DEF Truthful
<1> HIDE DEF call
<1>4. calls' = [calls EXCEPT ![asked + 1] = call] /\ asked' = asked + 1
  BY <1>2 DEF CallTool, call
<1> QED BY <1>1, <1>3, <1>4, CallRewritten

LEMMA ExchangedTruthfully ==
  ASSUME CallsOK, NEW c \in Calls, Exchange(c)
  PROVE  CallsOK'
<1> DEFINE call == calls[c]
<1>1. call \in Call /\ Truthful(call) /\ calls \in [Calls -> Call]
  BY DEF CallsOK
<1>2. asked' = asked /\ asked' \in 0..MaxCalls
  BY DEF Exchange, Reuse, Connect, Unreachable, Write, WriteFails, Serve, Reply, LoseReply, CallsOK
<1>3. \A answer \in {"nothing", "unknown"} :
        (answer = "nothing" => call.at \in {"open", "write"}) /\ calls' = Answer(c, answer) => CallsOK'
  <2> SUFFICES ASSUME NEW answer \in {"nothing", "unknown"},
                      answer = "nothing" => call.at \in {"open", "write"}, calls' = Answer(c, answer)
               PROVE  CallsOK'
    OBVIOUS
  <2> DEFINE over == [call EXCEPT !.at = "over", !.answer = answer]
  <2>1. over \in Call /\ Truthful(over)
    BY <1>1, CallOver
  <2>2. calls' = [calls EXCEPT ![c] = over]
    BY <1>1 DEF Answer
  <2> HIDE DEF over
  <2> QED BY <1>2, <2>1, <2>2, CallRewritten
<1>4. CASE Reuse(c) \/ Connect(c)
  <2>1. PICK reused \in BOOLEAN :
          calls' = [calls EXCEPT ![c].at = "write", ![c].reused = reused]
    BY <1>4 DEF Reuse, Connect
  <2> DEFINE written == [call EXCEPT !.at = "write", !.reused = reused]
  <2>2. written \in Call /\ Truthful(written)
    BY <1>1, <1>4 DEF Reuse, Connect, Call, Truthful
  <2>3. calls' = [calls EXCEPT ![c] = written]
    BY <1>1, <2>1
  <2> HIDE DEF written
  <2> QED BY <1>2, <2>2, <2>3, CallRewritten
<1>5. CASE Unreachable(c)
  BY <1>3, <1>5 DEF Unreachable
<1>6. CASE Write(c)
  <2> DEFINE written == [call EXCEPT !.at = "sent"]
  <2>1. written \in Call /\ Truthful(written)
    BY <1>1, <1>6 DEF Write, Call, Truthful
  <2>2. calls' = [calls EXCEPT ![c] = written]
    BY <1>1, <1>6 DEF Write, Advance
  <2> HIDE DEF written
  <2> QED BY <1>2, <2>1, <2>2, CallRewritten
<1>7. CASE WriteFails(c)
  <2>1. CASE calls[c].reused /\ ~calls[c].again
    <3> DEFINE again == [call EXCEPT !.at = "open", !.again = TRUE]
    <3>1. again \in Call /\ Truthful(again)
      BY <1>1, <1>7 DEF WriteFails, Call, Truthful
    <3>2. calls' = [calls EXCEPT ![c] = again]
      BY <1>1, <1>7, <2>1 DEF WriteFails
    <3> HIDE DEF again
    <3> QED BY <1>2, <3>1, <3>2, CallRewritten
  <2>2. CASE ~(calls[c].reused /\ ~calls[c].again)
    BY <1>3, <1>7, <2>2 DEF WriteFails
  <2> QED BY <2>1, <2>2
<1>8. CASE Serve(c)
  <2> DEFINE served == [call EXCEPT !.at = "replying",
                          !.applied = IF Granted(c) THEN @ + 1 ELSE @,
                          !.answer = IF Granted(c) THEN "result" ELSE "refused"]
  <2>1. served \in Call /\ Truthful(served)
    <3>1. call.at = "sent" /\ call.applied = 0
      BY <1>1, <1>8 DEF Serve, Truthful
    <3>2. served \in {[call EXCEPT !.at = "replying", !.applied = call.applied + 1, !.answer = "result"],
                      [call EXCEPT !.at = "replying", !.applied = call.applied, !.answer = "refused"]}
      OBVIOUS
    <3> HIDE DEF call, served
    <3>3. ASSUME NEW n \in Nat, NEW answer \in {"result", "refused"},
                 served = [call EXCEPT !.at = "replying", !.applied = n, !.answer = answer]
          PROVE  served \in Call /\ served.at = "replying" /\ served.applied = n /\ served.answer = answer
      BY <1>1, <3>3 DEF Call
    <3>4. call.applied + 1 = 1 /\ call.applied \in Nat /\ call.applied + 1 \in Nat
      BY <3>1
    <3>5. /\ served \in Call /\ served.at = "replying"
          /\ \/ served.applied = 1 /\ served.answer = "result"
             \/ served.applied = 0 /\ served.answer = "refused"
      BY <3>1, <3>2, <3>3, <3>4
    <3> QED BY <3>5 DEF Truthful
  <2>2. calls' = [calls EXCEPT ![c] = served]
    BY <1>1, <1>8 DEF Serve
  <2> HIDE DEF served
  <2> QED BY <1>2, <2>1, <2>2, CallRewritten
<1>9. CASE Reply(c)
  <2> DEFINE over == [call EXCEPT !.at = "over"]
  <2>1. over \in Call /\ Truthful(over)
    BY <1>1, <1>9 DEF Reply, Call, Truthful
  <2>2. calls' = [calls EXCEPT ![c] = over]
    BY <1>1, <1>9 DEF Reply, Advance
  <2> HIDE DEF over
  <2> QED BY <1>2, <2>1, <2>2, CallRewritten
<1>10. CASE LoseReply(c)
  BY <1>3, <1>10 DEF LoseReply
<1> QED BY <1>4, <1>5, <1>6, <1>7, <1>8, <1>9, <1>10 DEF Exchange

(* The boards, the hooks and the user leave the calls alone, but for a     *)
(* process that ends and takes its bridge along.                           *)
LEMMA OthersLeaveCalls ==
  ASSUME NEW b \in Boards,
         \/ StartBoard(b) \/ Crash(b) \/ Handle(b) \/ FreshManager(b) \/ Enter(b)
         \/ Progress(b) \/ Await(b)
  PROVE  asked' = asked /\ (calls' = calls \/ \E g : calls' = Abandoned(g))
<1> USE DEF bridge
<1>1. CASE StartBoard(b) \/ Crash(b) \/ Handle(b) \/ FreshManager(b) \/ Enter(b)
  BY <1>1 DEF StartBoard, Crash, Handle, FreshManager, Enter
<1>2. CASE StartOrRecover(b)
  BY <1>2 DEF StartOrRecover, FindNone, FindUnbound, FindBound, Observe
<1>3. CASE Rotate(b)
  BY <1>3 DEF Rotate, Revoke, Terminate, Terminated
<1>4. CASE NewGeneration(b)
  BY <1>4 DEF NewGeneration, Mint, SaveFingerprint, CreateSession, BindTarget, RecordLaunch, SeeReady,
              StartupTimesOut, StartupObserved
<1>5. CASE Deliver(b)
  BY <1>5 DEF Deliver, RotateAtLimit, Decline, Reserve, Paste
<1>6. CASE Hold(b)
  BY <1>6 DEF Hold, Claim, Claimed, Leave, Release, Released
<1>7. CASE Await(b)
  BY <1>7 DEF Await, Collect, GiveUp
<1> QED BY <1>1, <1>2, <1>3, <1>4, <1>5, <1>6, <1>7 DEF Progress

LEMMA CallsStep ==
  ASSUME CallsOK, [Next]_vars
  PROVE  CallsOK'
<1>1. ASSUME asked' = asked, calls' = calls
      PROVE  CallsOK'
  BY <1>1 DEF CallsOK
<1>2. ASSUME NEW b \in Boards,
             \/ StartBoard(b) \/ Crash(b) \/ Handle(b) \/ FreshManager(b) \/ Enter(b)
             \/ Progress(b) \/ Await(b)
      PROVE  CallsOK'
  BY <1>1, <1>2, OthersLeaveCalls, AbandonedCalls
<1>3. ASSUME NEW g \in Generations, AnswerDialog(g) \/ Hook(g)
      PROVE  CallsOK'
  BY <1>1, <1>3 DEF AnswerDialog, Hook, HookReads, SessionStart, UserPromptSubmit, Stop, bridge
<1>4. ASSUME NEW g \in Generations, Exit(g)
      PROVE  CallsOK'
  BY <1>4, AbandonedCalls DEF Exit
<1>5. CASE UNCHANGED vars
  BY <1>1, <1>5 DEF vars, bridge
<1> QED BY <1>2, <1>3, <1>4, <1>5, CalledTruthfully, ExchangedTruthfully DEF Next

LEMMA CallsInitial == Init => CallsOK
<1> SUFFICES ASSUME Init
             PROVE  CallsOK
  OBVIOUS
<1>1. NoCall \in Call /\ Truthful(NoCall)
  BY DEF NoCall, Call, Truthful
<1>2. 0 \in 0..MaxCalls
  BY ManagerBounds
<1> QED BY <1>1, <1>2 DEF Init, CallsOK

(***************************************************************************)
(* A tool call takes effect at most once and what the Manager is told of   *)
(* it is true, whichever boards quit, restart or rotate in between         *)
(* (_Bridge.exchange, handle_request and serve_connection).                *)
(***************************************************************************)
THEOREM CallsAnsweredTruly == Spec => []AnswersAreTrue
<1>1. CallsOK /\ [Next]_vars => CallsOK'
  BY CallsStep
<1>2. CallsOK => AnswersAreTrue
  BY DEF CallsOK, Truthful, AnswersAreTrue
<1> QED BY CallsInitial, <1>1, <1>2, PTL DEF Spec

----------------------------------------------------------------------------
(* Type correctness: where the boards are *)

OpsOK ==
  /\ generation \in 0..MaxGenerations /\ ops \in [Boards -> Op]
  /\ \A b \in Boards : At(b, "fingerprint") => ops[b].gen # 0

LEMMA OpsBegin ==
  ASSUME NEW at \in Position
  PROVE  /\ Resting(at) \in Op /\ Resting(at).at = at
         /\ \A then \in Purpose : Begun(at, then) \in Op /\ Begun(at, then).at = at
<1>1. Resting(at) \in Op /\ Resting(at).at = at
  BY DEF Resting, Op, Purpose
<1>2. \A then \in Purpose : Begun(at, then) \in Op /\ Begun(at, then).at = at
  BY <1>1 DEF Begun, Op
<1> QED BY <1>1, <1>2

LEMMA OpMoves ==
  ASSUME NEW op \in Op, NEW at \in Position
  PROVE  /\ [op EXCEPT !.at = at] \in Op /\ [op EXCEPT !.at = at].at = at
         /\ [op EXCEPT !.at = at].gen = op.gen
         /\ [op EXCEPT !.at = at, !.fit = "exact"] \in Op
         /\ [op EXCEPT !.at = at, !.fit = "exact"].at = at
BY DEF Op

(* One board moves; the generation is as it was. *)
LEMMA OpsRewritten ==
  ASSUME OpsOK, NEW b \in Boards, NEW op \in Op, op.at # "fingerprint",
         ops' = [ops EXCEPT ![b] = op], generation' = generation
  PROVE  OpsOK'
BY DEF OpsOK, At

LEMMA OpsGo ==
  ASSUME OpsOK, NEW b \in Boards, NEW at \in Position \ {"fingerprint"}, Go(b, at),
         generation' = generation
  PROVE  OpsOK'
<1> DEFINE op == [ops[b] EXCEPT !.at = at]
<1>1. op \in Op /\ op.at = at
  BY OpMoves DEF OpsOK
<1>2. ops' = [ops EXCEPT ![b] = op]
  BY DEF Go, OpsOK
<1> HIDE DEF op
<1> QED BY <1>1, <1>2, OpsRewritten

LEMMA OpsEnd ==
  ASSUME OpsOK, NEW b \in Boards, End(b), generation' = generation
  PROVE  OpsOK'
<1>1. "idle" \in Position
  BY DEF Position
<1> QED BY <1>1, OpsBegin, OpsRewritten DEF End

LEMMA Continued ==
  ASSUME NEW op \in Op
  PROVE  Continue(op) \in Op /\ Continue(op).at \in {"send", "claim", "idle"}
<1>1. {"send", "claim", "idle"} \subseteq Position
  BY DEF Position
<1>2. /\ [op EXCEPT !.at = "send"] \in Op /\ [op EXCEPT !.at = "send"].at = "send"
      /\ [op EXCEPT !.at = "claim"] \in Op /\ [op EXCEPT !.at = "claim"].at = "claim"
      /\ Resting("idle") \in Op /\ Resting("idle").at = "idle"
  BY <1>1, OpsBegin, OpMoves
<1> QED BY <1>2 DEF Continue

LEMMA Generation0 ==
  ASSUME OpsOK
  PROVE  generation \in {0} \union Generations
BY ManagerBounds DEF OpsOK, Generations

LEMMA BeginsOps ==
  ASSUME OpsOK, NEW b \in Boards,
         StartBoard(b) \/ Crash(b) \/ Handle(b) \/ FreshManager(b) \/ Enter(b)
  PROVE  OpsOK'
<1> USE DEF Position, Purpose
<1>1. PICK op \in {Begun("current", "recover"), Resting("down"), Begun("current", "handle"),
                  Begun("revoke", "fresh"), Begun("current", "enter")} :
        ops' = [ops EXCEPT ![b] = op]
  BY DEF StartBoard, Crash, Handle, FreshManager, Enter
<1>2. op \in Op /\ op.at # "fingerprint"
  BY <1>1, OpsBegin
<1>3. generation' = generation
  BY DEF StartBoard, Crash, Handle, FreshManager, Enter, db
<1> QED BY <1>1, <1>2, <1>3, OpsRewritten

LEMMA RecoversOps ==
  ASSUME OpsOK, NEW b \in Boards, StartOrRecover(b)
  PROVE  OpsOK'
<1> USE DEF Position, db
<1>1. CASE FindNone(b)
  BY <1>1, OpsGo DEF FindNone
<1>2. CASE FindUnbound(b)
  BY <1>2, OpsEnd DEF FindUnbound
<1>3. CASE FindBound(b)
  <2> DEFINE op == [ops[b] EXCEPT !.at = "observe", !.gen = generation, !.fit = Fit(b)]
  <2>1. Fit(b) \in {"exact", "mismatch", "kept"} /\ generation \in {0} \union Generations
    BY Generation0 DEF Fit
  <2>a. "observe" \in Position
    OBVIOUS
  <2>2. op \in Op /\ op.at = "observe"
    <3>1. ops[b] \in Op
      BY DEF OpsOK
    <3> HIDE DEF Position
    <3> QED BY <2>1, <2>a, <3>1 DEF Op
  <2>3. ops' = [ops EXCEPT ![b] = op] /\ generation' = generation
    BY <1>3 DEF FindBound, OpsOK
  <2> HIDE DEF op
  <2> QED BY <2>2, <2>3, OpsRewritten
<1>4. CASE Observe(b)
  <2> DEFINE old == ops[b]
             op == CASE ~Alive(old.gen) -> [old EXCEPT !.at = "mint", !.fit = "exact"]
                     [] Alive(old.gen) /\ old.fit = "exact" -> Continue(old)
                     [] Alive(old.gen) /\ old.fit = "kept" -> Resting("idle")
                     [] Alive(old.gen) /\ old.fit = "mismatch" -> [old EXCEPT !.at = "revoke", !.fit = "exact"]
  <2>1. old \in Op /\ old.fit \in {"exact", "mismatch", "kept"}
    BY DEF OpsOK, Op
  <2>2. ops' = [ops EXCEPT ![b] = op] /\ generation' = generation
    BY <1>4 DEF Observe
  <2> HIDE DEF old
  <2>a. {"mint", "revoke", "idle"} \subseteq Position
    OBVIOUS
  <2> HIDE DEF Position
  <2>b. /\ [old EXCEPT !.at = "mint", !.fit = "exact"] \in Op
        /\ [old EXCEPT !.at = "mint", !.fit = "exact"].at = "mint"
    BY <2>1, <2>a, OpMoves
  <2>c. /\ [old EXCEPT !.at = "revoke", !.fit = "exact"] \in Op
        /\ [old EXCEPT !.at = "revoke", !.fit = "exact"].at = "revoke"
    BY <2>1, <2>a, OpMoves
  <2>d. Resting("idle") \in Op /\ Resting("idle").at = "idle"
    BY <2>a, OpsBegin
  <2>3. Continue(old) \in Op /\ Continue(old).at # "fingerprint"
    BY <2>1, Continued
  <2>4. op \in Op /\ op.at # "fingerprint"
    BY <2>1, <2>b, <2>c, <2>d, <2>3
  <2> HIDE DEF op
  <2> QED BY <2>2, <2>4, OpsRewritten
<1> QED BY <1>1, <1>2, <1>3, <1>4 DEF StartOrRecover

LEMMA RotatesOps ==
  ASSUME OpsOK, NEW b \in Boards, Rotate(b)
  PROVE  OpsOK'
<1> USE DEF Position, db
<1>1. CASE Revoke(b)
  <2>1. CASE generation = 0
    BY <1>1, <2>1, OpsGo DEF Revoke
  <2>2. CASE generation # 0
    <3>1. PICK at \in {"terminate", "force"} :
            ops' = [ops EXCEPT ![b] = [@ EXCEPT !.at = at, !.gen = generation]]
      BY <1>1, <2>2 DEF Revoke
    <3> DEFINE op == [ops[b] EXCEPT !.at = at, !.gen = generation]
    <3>a. at \in Position /\ at # "fingerprint" /\ generation \in {0} \union Generations
      BY Generation0
    <3>2. op \in Op /\ op.at = at
      <4>1. ops[b] \in Op
        BY DEF OpsOK
      <4> HIDE DEF Position
      <4> QED BY <3>a, <4>1 DEF Op
    <3>3. ops' = [ops EXCEPT ![b] = op]
      BY <3>1 DEF OpsOK
    <3> HIDE DEF op
    <3> QED BY <1>1, <3>a, <3>2, <3>3, OpsRewritten DEF Revoke
  <2> QED BY <2>1, <2>2
<1>2. CASE Terminate(b)
  BY <1>2, OpsGo DEF Terminate
<1>3. CASE Terminated(b)
  BY <1>3, OpsGo DEF Terminated
<1> QED BY <1>1, <1>2, <1>3 DEF Rotate

LEMMA LaunchesOps ==
  ASSUME OpsOK, NEW b \in Boards, NewGeneration(b)
  PROVE  OpsOK'
<1> USE DEF Position, db
<1>1. CASE Mint(b)
  <2>1. CASE At(b, "force") \/ Expected(b)
    <3> DEFINE op == [ops[b] EXCEPT !.at = "fingerprint", !.gen = generation + 1]
    <3>1. generation' = generation + 1 /\ generation' \in 0..MaxGenerations /\ generation' \in Generations
      BY <1>1, <2>1, ManagerBounds DEF Mint, OpsOK, Generations
    <3>a. "fingerprint" \in Position /\ generation + 1 \in {0} \union Generations
      BY <3>1
    <3>2. op \in Op /\ op.gen = generation + 1
      <4>1. ops[b] \in Op
        BY DEF OpsOK
      <4> HIDE DEF Position
      <4> QED BY <3>a, <4>1 DEF Op
    <3>3. ops' = [ops EXCEPT ![b] = op]
      BY <1>1, <2>1 DEF Mint, OpsOK
    <3> HIDE DEF op
    <3>4. op.gen # 0
      BY <3>1, <3>2, ManagerBounds DEF Generations
    <3> QED BY <3>1, <3>2, <3>3, <3>4 DEF OpsOK, At
  <2>2. CASE ~(At(b, "force") \/ Expected(b))
    BY <1>1, <2>2, OpsGo DEF Mint
  <2> QED BY <2>1, <2>2
<1>2. CASE SaveFingerprint(b) \/ CreateSession(b)
  BY <1>2, OpsGo DEF SaveFingerprint, CreateSession
<1>3. CASE BindTarget(b) \/ RecordLaunch(b) \/ StartupTimesOut(b)
  BY <1>3, OpsGo DEF BindTarget, RecordLaunch, StartupTimesOut
<1>4. ASSUME ops' = [ops EXCEPT ![b] = Continue(@)], generation' = generation
      PROVE  OpsOK'
  <2>1. Continue(ops[b]) \in Op /\ Continue(ops[b]).at # "fingerprint"
    BY Continued DEF OpsOK
  <2> QED BY <1>4, <2>1, OpsRewritten
<1>5. CASE SeeReady(b) \/ StartupObserved(b)
  BY <1>4, <1>5, OpsEnd DEF SeeReady, StartupObserved
<1> QED BY <1>1, <1>2, <1>3, <1>5 DEF NewGeneration

LEMMA DeliversOps ==
  ASSUME OpsOK, NEW b \in Boards, Deliver(b) \/ Hold(b)
  PROVE  OpsOK'
<1> USE DEF Position, db
<1>1. CASE RotateAtLimit(b) \/ Decline(b) \/ Paste(b)
  BY <1>1, OpsGo, OpsEnd DEF RotateAtLimit, Decline, Paste
<1>2. CASE Reserve(b)
  <2>1. End(b) \/ Go(b, "paste")
    BY <1>2 DEF Reserve, Go
  <2> QED BY <1>2, <2>1, OpsGo, OpsEnd DEF Reserve
<1>3. CASE Claim(b) \/ Claimed(b) \/ Release(b) \/ Released(b)
  BY <1>3, OpsGo, OpsEnd DEF Claim, Claimed, Release, Released
<1>4. CASE Leave(b)
  <2>1. CASE End(b)
    BY <1>4, <2>1, OpsEnd DEF Leave
  <2>2. CASE ops' = [ops EXCEPT ![b] = [@ EXCEPT !.at = "leave", !.gen = generation]]
    <3> DEFINE op == [ops[b] EXCEPT !.at = "leave", !.gen = generation]
    <3>a. "leave" \in Position /\ generation \in {0} \union Generations
      BY Generation0
    <3>1. op \in Op /\ op.at = "leave"
      <4>1. ops[b] \in Op
        BY DEF OpsOK
      <4> HIDE DEF Position
      <4> QED BY <3>a, <4>1 DEF Op
    <3>2. ops' = [ops EXCEPT ![b] = op]
      BY <2>2 DEF OpsOK
    <3> HIDE DEF op
    <3> QED BY <1>4, <3>1, <3>2, OpsRewritten DEF Leave
  <2> QED BY <1>4, <2>1, <2>2 DEF Leave
<1> QED BY <1>1, <1>2, <1>3, <1>4 DEF Deliver, Hold

LEMMA OpsStep ==
  ASSUME OpsOK, [Next]_vars
  PROVE  OpsOK'
<1>1. ASSUME ops' = ops, generation' = generation
      PROVE  OpsOK'
  BY <1>1 DEF OpsOK, At
<1>2. ASSUME NEW b \in Boards, Await(b)
      PROVE  OpsOK'
  BY <1>1, <1>2 DEF Await, Collect, GiveUp, db
<1>3. ASSUME NEW g \in Generations, AnswerDialog(g) \/ Exit(g) \/ Hook(g) \/ CallTool(g)
      PROVE  OpsOK'
  BY <1>1, <1>3 DEF AnswerDialog, Exit, Hook, HookReads, SessionStart, UserPromptSubmit, Stop, CallTool, db
<1>4. ASSUME NEW c \in Calls, Exchange(c)
      PROVE  OpsOK'
  BY <1>1, <1>4 DEF Exchange, Reuse, Connect, Unreachable, Write, WriteFails, Serve, Reply, LoseReply, db
<1>5. CASE UNCHANGED vars
  BY <1>1, <1>5 DEF vars, db
<1>6. ASSUME NEW b \in Boards, Progress(b)
      PROVE  OpsOK'
  BY <1>6, RecoversOps, RotatesOps, LaunchesOps, DeliversOps DEF Progress
<1> QED BY <1>2, <1>3, <1>4, <1>5, <1>6, BeginsOps DEF Next

LEMMA OpsInitial == Init => OpsOK
<1> SUFFICES ASSUME Init
             PROVE  OpsOK
  OBVIOUS
<1>1. Resting("down") \in Op /\ Resting("down").at = "down"
  BY OpsBegin DEF Position
<1>2. 0 \in 0..MaxGenerations
  BY ManagerBounds
<1> QED BY <1>1, <1>2 DEF Init, OpsOK, At

----------------------------------------------------------------------------
(* The user's own words *)

(* The preference names a turn that was sent and whose message has them.    *)
(* What it needs of the rows: a turn that was not sent is not open.         *)
ConsentOK ==
  /\ sent \in 0..MaxTurns /\ turns \in [Turns -> Turn] /\ consent \in 0..sent
  /\ \A t \in Turns : t > sent => turns[t].status = "none"
  /\ consent # 0 => turns[consent].consent

(* The rows change their status and nothing else. *)
LEMMA StatusChanges ==
  ASSUME ConsentOK, NEW S \in SUBSET Turns, \A t \in S : t <= sent,
         NEW status \in {"active", "completed", "failed"},
         turns' = [t \in Turns |-> IF t \in S THEN [turns[t] EXCEPT !.status = status] ELSE turns[t]],
         sent' = sent, consent' = consent
  PROVE  ConsentOK'
<1> DEFINE changed(t) == [turns[t] EXCEPT !.status = status]
<1>1. \A t \in Turns : turns[t] \in Turn /\ changed(t) \in Turn /\ changed(t).consent = turns[t].consent
  BY DEF ConsentOK, Turn
<1>2. turns' = [t \in Turns |-> IF t \in S THEN changed(t) ELSE turns[t]]
  OBVIOUS
<1> HIDE DEF changed
<1>3. consent # 0 => consent \in Turns
  BY ManagerBounds DEF ConsentOK, Turns
<1>4. \A t \in Turns : turns'[t] \in Turn /\ turns'[t].consent = turns[t].consent
                       /\ (t \notin S => turns'[t] = turns[t])
  BY <1>1, <1>2
<1>5. turns' \in [Turns -> Turn]
  BY <1>2, <1>4
<1>6. \A t \in Turns : t > sent => t \notin S
  BY ManagerBounds DEF ConsentOK, Turns
<1> QED BY <1>3, <1>4, <1>5, <1>6 DEF ConsentOK

LEMMA OpenWasSent ==
  ASSUME ConsentOK, NEW g
  PROVE  OpenTurns(g) \subseteq Turns /\ \A t \in OpenTurns(g) : t <= sent
BY ManagerBounds DEF ConsentOK, OpenTurns, Turns

LEMMA HookConsent ==
  ASSUME ConsentOK, NEW g \in Generations, UserPromptSubmit(g) \/ Stop(g)
  PROVE  ConsentOK'
<1>1. PICK status \in {"active", "completed"} :
        turns' = [t \in Turns |-> IF t \in OpenTurns(g) THEN [turns[t] EXCEPT !.status = status] ELSE turns[t]]
  BY DEF UserPromptSubmit, Stop
<1>2. sent' = sent /\ consent' = consent
  BY DEF UserPromptSubmit, Stop
<1> QED BY <1>1, <1>2, OpenWasSent, StatusChanges

LEMMA PasteConsent ==
  ASSUME ConsentOK, NEW b \in Boards, Paste(b)
  PROVE  ConsentOK'
<1> DEFINE g == ops[b].gen
           mine == MyTurn(g)
<1>1. mine \in OpenTurns(g)
  BY DEF Paste, MyTurn
<1>2. mine \in Turns /\ mine <= sent
  BY <1>1, OpenWasSent
<1>3. \/ turns' = turns /\ consent' = IF turns[mine].consent THEN mine ELSE 0
      \/ turns' = [turns EXCEPT ![mine].status = "failed"] /\ consent' = consent
  BY DEF Paste
<1>4. sent' = sent
  BY DEF Paste
<1> HIDE DEF mine
<1>5. CASE turns' = turns /\ consent' = IF turns[mine].consent THEN mine ELSE 0
  BY <1>2, <1>4, <1>5, ManagerBounds DEF ConsentOK, Turns
<1>6. CASE turns' = [turns EXCEPT ![mine].status = "failed"] /\ consent' = consent
  <2>1. turns' = [t \in Turns |-> IF t \in {mine} THEN [turns[t] EXCEPT !.status = "failed"] ELSE turns[t]]
    BY <1>2, <1>6 DEF ConsentOK
  <2>2. {mine} \in SUBSET Turns /\ \A t \in {mine} : t <= sent
    BY <1>2
  <2> QED BY <1>4, <1>6, <2>1, <2>2, StatusChanges
<1> QED BY <1>3, <1>5, <1>6

LEMMA ReserveConsent ==
  ASSUME ConsentOK, OpsOK, NEW b \in Boards, Reserve(b)
  PROVE  ConsentOK'
<1>1. CASE turns' = turns /\ sent' = sent
  BY <1>1 DEF ConsentOK, Reserve
<1>2. CASE sent # MaxTurns /\ sent' = sent + 1
  <2>1. PICK spoken \in BOOLEAN : turns' = [turns EXCEPT ![sent + 1] =
          [generation |-> ops[b].gen, consent |-> spoken, status |-> "pending"]]
    <3>1. sent' # sent
      BY <1>2, ManagerBounds DEF ConsentOK
    <3> QED BY <3>1 DEF Reserve
  <2> DEFINE row == [generation |-> ops[b].gen, consent |-> spoken, status |-> "pending"]
  <2>2. row \in Turn
    BY DEF Turn, OpsOK, Op
  <2>3. sent + 1 \in Turns /\ sent' \in 0..MaxTurns
    BY <1>2, ManagerBounds DEF ConsentOK, Turns
  <2> HIDE DEF row
  <2>4. turns' = [turns EXCEPT ![sent + 1] = row]
    BY <2>1 DEF row
  <2>5. consent' = consent
    BY DEF Reserve
  <2>6. consent # 0 => consent \in Turns /\ consent # sent + 1
    BY ManagerBounds DEF ConsentOK, Turns
  <2>7. \A t \in Turns : t > sent + 1 => t > sent /\ t # sent + 1
    BY ManagerBounds DEF ConsentOK, Turns
  <2>8. consent \in 0..(sent + 1)
    BY ManagerBounds DEF ConsentOK
  <2> QED BY <1>2, <2>2, <2>3, <2>4, <2>5, <2>6, <2>7, <2>8 DEF ConsentOK
<1> QED BY <1>1, <1>2 DEF Reserve

LEMMA ConsentStep ==
  ASSUME ConsentOK, OpsOK, [Next]_vars
  PROVE  ConsentOK'
<1>1. ASSUME turns' = turns, sent' = sent, consent' = consent
      PROVE  ConsentOK'
  BY <1>1 DEF ConsentOK
<1>2. ASSUME NEW b \in Boards, StartBoard(b) \/ Crash(b) \/ Handle(b) \/ FreshManager(b) \/ Enter(b)
      PROVE  ConsentOK'
  BY <1>1, <1>2 DEF StartBoard, Crash, Handle, FreshManager, Enter, db
<1>3. ASSUME NEW b \in Boards, StartOrRecover(b) \/ Rotate(b)
      PROVE  ConsentOK'
  BY <1>1, <1>3 DEF StartOrRecover, FindNone, FindUnbound, FindBound, Observe, Rotate, Revoke,
                    Terminate, Terminated, db
<1>4. ASSUME NEW b \in Boards, NewGeneration(b)
      PROVE  ConsentOK'
  BY <1>1, <1>4 DEF NewGeneration, Mint, SaveFingerprint, CreateSession, BindTarget, RecordLaunch,
                    SeeReady, StartupTimesOut, StartupObserved, db
<1>5. ASSUME NEW b \in Boards, RotateAtLimit(b) \/ Decline(b) \/ Hold(b) \/ Await(b)
      PROVE  ConsentOK'
  BY <1>1, <1>5 DEF RotateAtLimit, Decline, Hold, Claim, Claimed, Leave, Release, Released,
                    Await, Collect, GiveUp, db
<1>6. ASSUME NEW g \in Generations, AnswerDialog(g) \/ Exit(g) \/ HookReads(g) \/ SessionStart(g) \/ CallTool(g)
      PROVE  ConsentOK'
  BY <1>1, <1>6 DEF AnswerDialog, Exit, HookReads, SessionStart, CallTool, db
<1>7. ASSUME NEW c \in Calls, Exchange(c)
      PROVE  ConsentOK'
  BY <1>1, <1>7 DEF Exchange, Reuse, Connect, Unreachable, Write, WriteFails, Serve, Reply, LoseReply, db
<1>8. CASE UNCHANGED vars
  BY <1>1, <1>8 DEF vars, db
<1> QED BY <1>2, <1>3, <1>4, <1>5, <1>6, <1>7, <1>8, HookConsent, PasteConsent, ReserveConsent
        DEF Next, Progress, Deliver, Hook

LEMMA ConsentInitial == Init => ConsentOK
<1> SUFFICES ASSUME Init
             PROVE  ConsentOK
  OBVIOUS
<1>1. [generation |-> 0, consent |-> FALSE, status |-> "none"] \in Turn
  BY DEF Turn
<1> QED BY <1>1, ManagerBounds DEF Init, ConsentOK

(* A call takes effect only where a board serves it, and there the user's   *)
(* words are asked for.                                                     *)
LEMMA AppliedOnConsent ==
  ASSUME ConsentOK, CallsOK, [Next]_vars, NEW c \in Calls,
         calls'[c].applied > calls[c].applied, calls[c].guarded
  PROVE  \E t \in OpenTurns(calls[c].gen) : turns[t].consent
<1>1. CASE Serve(c)
  <2>1. calls[c] \in Call
    BY DEF CallsOK
  <2>2. Granted(c)
    BY <1>1, <2>1 DEF Serve, CallsOK, Call
  <2>3. PICK t \in OpenTurns(calls[c].gen) : consent = t
    BY <2>2 DEF Granted, Spoken
  <2>4. t # 0
    BY <2>3, OpenWasSent, ManagerBounds DEF Turns
  <2> QED BY <2>3, <2>4 DEF ConsentOK
<1>2. ASSUME calls'[c].applied = calls[c].applied
      PROVE  FALSE
  BY <1>2 DEF CallsOK, Call
<1>3. ASSUME calls' = calls
      PROVE  FALSE
  BY <1>2, <1>3
<1>4. ASSUME NEW g, calls' = Abandoned(g)
      PROVE  FALSE
  BY <1>2, <1>4 DEF Abandoned, CallsOK, Call
<1>5. ASSUME NEW b \in Boards, StartBoard(b) \/ Crash(b) \/ Handle(b) \/ FreshManager(b) \/ Enter(b)
      PROVE  FALSE
  BY <1>3, <1>5 DEF StartBoard, Crash, Handle, FreshManager, Enter, bridge
<1>6. ASSUME NEW b \in Boards, StartOrRecover(b) \/ Rotate(b)
      PROVE  FALSE
  BY <1>3, <1>4, <1>6 DEF StartOrRecover, FindNone, FindUnbound, FindBound, Observe, Rotate, Revoke,
                          Terminate, Terminated, bridge
<1>7. ASSUME NEW b \in Boards, NewGeneration(b)
      PROVE  FALSE
  BY <1>3, <1>7 DEF NewGeneration, Mint, SaveFingerprint, CreateSession, BindTarget, RecordLaunch,
                    SeeReady, StartupTimesOut, StartupObserved, bridge
<1>8. ASSUME NEW b \in Boards, Deliver(b) \/ Hold(b) \/ Await(b)
      PROVE  FALSE
  BY <1>3, <1>8 DEF Deliver, RotateAtLimit, Decline, Reserve, Paste, Hold, Claim, Claimed, Leave,
                    Release, Released, Await, Collect, GiveUp, bridge
<1>9. ASSUME NEW g \in Generations, AnswerDialog(g) \/ Exit(g) \/ Hook(g) \/ CallTool(g)
      PROVE  FALSE
  <2>1. CASE CallTool(g)
    BY <1>2, <2>1, ManagerBounds DEF CallTool, CallsOK, Call, NoCall, Truthful, Calls
  <2> QED BY <1>3, <1>4, <1>9, <2>1 DEF AnswerDialog, Exit, Hook, HookReads, SessionStart,
                                        UserPromptSubmit, Stop, bridge
<1>10. ASSUME NEW d \in Calls, Exchange(d)
       PROVE  Serve(c)
  <2>1. CASE d # c
    BY <1>2, <1>10, <2>1 DEF Exchange, Reuse, Connect, Unreachable, Write, WriteFails, Serve, Reply,
                             LoseReply, Answer, Advance, CallsOK, Call
  <2>2. CASE d = c /\ ~Serve(c)
    BY <1>2, <1>10, <2>2 DEF Exchange, Reuse, Connect, Unreachable, Write, WriteFails, Reply,
                             LoseReply, Answer, Advance, CallsOK, Call
  <2> QED BY <1>10, <2>1, <2>2
<1>11. CASE UNCHANGED vars
  BY <1>3, <1>11 DEF vars, bridge
<1> QED BY <1>1, <1>5, <1>6, <1>7, <1>8, <1>9, <1>10, <1>11 DEF Next, Progress

(***************************************************************************)
(* A tool that needs the user's own words takes effect only in a turn whose*)
(* message has them, whoever waited for an earlier one and whatever        *)
(* generation that went to (_approval_context, handle_request).            *)
(***************************************************************************)
THEOREM ConsentKept == Spec => ConsentIsCurrent
<1> DEFINE Inv == CallsOK /\ OpsOK /\ ConsentOK
<1>1. Init => Inv
  BY CallsInitial, OpsInitial, ConsentInitial
<1>2. Inv /\ [Next]_vars => Inv'
  BY CallsStep, OpsStep, ConsentStep
<1>3. Inv /\ [Next]_vars =>
        [\A c \in Calls : calls'[c].applied > calls[c].applied /\ calls[c].guarded
           => \E t \in OpenTurns(calls[c].gen) : turns[t].consent]_vars
  BY AppliedOnConsent
<1> QED BY <1>1, <1>2, <1>3, PTL DEF Spec, ConsentIsCurrent

----------------------------------------------------------------------------
(* Type correctness: the rows, the sessions and what Claude and its hooks know *)

RowsOK ==
  /\ runtimes \in [Generations -> Runtime] /\ pane \in [Generations -> Pane]
  /\ claude \in [Generations -> Claude]

(* What the boards hold in memory, and who is at which end of a socket.     *)
HeldOK ==
  /\ blocked \in 0..MaxGenerations
  /\ waiting \in [Boards -> 0..MaxTurns] /\ servers \in [Boards -> SUBSET Generations]
  /\ conf \in [Boards -> Configuration]
  /\ listener \in [Generations -> 0..NumBoards]
  /\ conn \in [Generations -> [peer : 0..NumBoards, open : BOOLEAN]]
  /\ crashes \in Nat

LEMMA NewRow == NewRuntime \in Runtime /\ Claudeless \in Claude /\ NoPane \in Pane
<1>1. NewRuntime \in Runtime
  BY DEF NewRuntime, Runtime, ProcessState, Owner
<1> QED BY <1>1 DEF Claudeless, Claude, NoPane, Pane, Owner

(* What is written to a row, field by field. *)
LEMMA RowWritten ==
  ASSUME NEW row \in Runtime
  PROVE  /\ \A state \in ProcessState : [row EXCEPT !.state = state] \in Runtime
         /\ \A owner \in Owner : [row EXCEPT !.owner = owner] \in Runtime
         /\ \A owner \in Owner, state \in ProcessState :
              [row EXCEPT !.owner = owner, !.state = state] \in Runtime
         /\ \A f \in Configuration : [row EXCEPT !.fingerprint = f] \in Runtime
BY DEF Runtime

LEMMA RowBound ==
  ASSUME NEW row \in Runtime
  PROVE  Bound(row) \in Runtime
BY DEF Bound, Runtime, ProcessState, Owner

LEMMA RowRecorded ==
  ASSUME RowsOK, NEW g \in Generations
  PROVE  Recorded(g) \in Runtime
<1>1. runtimes[g] \in Runtime /\ pane[g].owner \in Owner /\ {"absent", "exited"} \subseteq ProcessState
  BY DEF RowsOK, Pane, ProcessState
<1>2. [runtimes[g] EXCEPT !.owner = pane[g].owner] \in Runtime
  BY <1>1 DEF Runtime
<1>3. [runtimes[g] EXCEPT !.state = IF pane[g].at = "none" THEN "absent" ELSE "exited"] \in Runtime
  BY <1>1 DEF Runtime
<1> QED BY <1>2, <1>3 DEF Recorded

(* One row, one session or one process changes. A board that holds no       *)
(* generation writes none.                                                  *)
LEMMA RowChanges ==
  ASSUME RowsOK, NEW g, NEW row, g \in Generations => row \in Runtime,
         runtimes' = [runtimes EXCEPT ![g] = row], pane' = pane, claude' = claude
  PROVE  RowsOK'
BY DEF RowsOK

LEMMA SessionChanges ==
  ASSUME RowsOK, NEW g, NEW session \in Pane, NEW process \in Claude,
         runtimes' = runtimes, pane' = [pane EXCEPT ![g] = session],
         claude' = claude \/ claude' = [claude EXCEPT ![g] = process]
  PROVE  RowsOK'
BY DEF RowsOK

LEMMA ProcessChanges ==
  ASSUME RowsOK, NEW g \in Generations, NEW process \in Claude,
         runtimes' = runtimes \/ \E row \in Runtime : runtimes' = [runtimes EXCEPT ![g] = row],
         pane' = pane, claude' = [claude EXCEPT ![g] = process]
  PROVE  RowsOK'
BY DEF RowsOK

(* What a board records of a session, and what it saves of a field. *)
LEMMA RecordsRow ==
  ASSUME RowsOK, NEW g, runtimes' = [runtimes EXCEPT ![g] = Recorded(g)],
         pane' = pane, claude' = claude
  PROVE  RowsOK'
BY RowRecorded, RowChanges

LEMMA SetsRow ==
  ASSUME RowsOK, NEW g, NEW field \in {"state", "owner"}, NEW value,
         field = "state" => value \in ProcessState, field = "owner" => value \in Owner,
         Set(g, field, value), pane' = pane, claude' = claude
  PROVE  RowsOK'
<1>1. CASE g \in Generations
  <2> DEFINE row == [runtimes[g] EXCEPT ![field] = value]
  <2>1. row \in Runtime
    BY <1>1 DEF RowsOK, Runtime
  <2>2. runtimes' = [runtimes EXCEPT ![g] = row]
    BY DEF Set
  <2> HIDE DEF row
  <2> QED BY <2>1, <2>2, RowChanges
<1>2. CASE g \notin Generations
  BY <1>2 DEF Set, RowsOK
<1> QED BY <1>1, <1>2

LEMMA BoardsWriteRows ==
  ASSUME RowsOK, HeldOK, NEW b \in Boards, StartOrRecover(b) \/ NewGeneration(b)
  PROVE  RowsOK'
<1> USE DEF db, outside
<1>1. ASSUME runtimes' = runtimes, pane' = pane, claude' = claude
      PROVE  RowsOK'
  BY <1>1 DEF RowsOK
<1>2. CASE FindNone(b) \/ FindUnbound(b) \/ FindBound(b) \/ SeeReady(b) \/ StartupTimesOut(b)
  BY <1>1, <1>2 DEF FindNone, FindUnbound, FindBound, SeeReady, StartupTimesOut
<1>3. CASE Observe(b) \/ RecordLaunch(b) \/ StartupObserved(b)
  BY <1>3, RecordsRow DEF Observe, RecordLaunch, StartupObserved
<1>4. CASE Mint(b)
  BY <1>1, <1>4, NewRow, RowChanges DEF Mint
<1>5. CASE SaveFingerprint(b)
  <2> DEFINE row == [NewRuntime EXCEPT !.fingerprint = conf[b]]
  <2>1. row \in Runtime
    BY NewRow, RowWritten DEF HeldOK
  <2> QED BY <1>5, <2>1, RowChanges DEF SaveFingerprint
<1>6. CASE CreateSession(b)
  <2>1. [NoPane EXCEPT !.at = "alive"] \in Pane
    BY DEF NoPane, Pane, Owner
  <2>2. PICK at \in {"boot", "dialog"} : claude' = [claude EXCEPT ![ops[b].gen].at = at]
    BY <1>6 DEF CreateSession
  <2>3. CASE ops[b].gen \in Generations
    <3> DEFINE process == [claude[ops[b].gen] EXCEPT !.at = at]
    <3>1. process \in Claude
      BY <2>3 DEF RowsOK, Claude
    <3>2. claude' = [claude EXCEPT ![ops[b].gen] = process]
      BY <2>2
    <3> HIDE DEF process
    <3> QED BY <1>6, <2>1, <3>1, <3>2, SessionChanges DEF CreateSession
  <2>4. CASE ops[b].gen \notin Generations
    BY <1>6, <2>2, <2>4 DEF CreateSession, RowsOK
  <2> QED BY <2>3, <2>4
<1>7. CASE BindTarget(b)
  <2>1. runtimes' = [runtimes EXCEPT ![ops[b].gen] = Bound(runtimes[ops[b].gen])]
    BY <1>7 DEF BindTarget
  <2>2. ops[b].gen \in Generations => Bound(runtimes[ops[b].gen]) \in Runtime
    BY RowBound DEF RowsOK
  <2> QED BY <1>7, <2>1, <2>2, RowChanges DEF BindTarget
<1> QED BY <1>2, <1>3, <1>4, <1>5, <1>6, <1>7 DEF StartOrRecover, NewGeneration

LEMMA RotationWritesRows ==
  ASSUME RowsOK, OpsOK, NEW b \in Boards, Rotate(b)
  PROVE  RowsOK'
<1> USE DEF db, outside
<1>1. CASE Revoke(b)
  <2>1. CASE generation = 0
    BY <1>1, <2>1 DEF Revoke, RowsOK
  <2>2. CASE generation # 0
    <3> DEFINE row == [runtimes[generation] EXCEPT !.owner = "human", !.state = "exited"]
    <3>1. generation \in Generations
      BY <2>2, Generation0
    <3>2. runtimes[generation] \in Runtime
      BY <3>1 DEF RowsOK
    <3>3. row \in Runtime
      BY <3>2 DEF Runtime, Owner, ProcessState
    <3>4. runtimes' = [runtimes EXCEPT ![generation] = row]
      BY <1>1, <2>2, <3>1 DEF Revoke, RowsOK
    <3> HIDE DEF row
    <3> QED BY <1>1, <3>3, <3>4, RowChanges DEF Revoke
  <2> QED BY <2>1, <2>2
<1>2. CASE Terminate(b)
  BY <1>2, NewRow, SessionChanges DEF Terminate, RowsOK
<1>3. CASE Terminated(b)
  BY <1>3, SetsRow DEF Terminated, ProcessState
<1> QED BY <1>1, <1>2, <1>3 DEF Rotate

LEMMA DeliveryWritesRows ==
  ASSUME RowsOK, NEW b \in Boards, Deliver(b) \/ Await(b)
  PROVE  RowsOK'
<1> USE DEF db, outside
<1>1. CASE RotateAtLimit(b) \/ Decline(b) \/ GiveUp(b)
  BY <1>1 DEF RotateAtLimit, Decline, GiveUp, RowsOK
<1>2. CASE Reserve(b)
  BY <1>2, SetsRow DEF Reserve, ProcessState
<1>3. CASE Paste(b)
  <2>1. runtimes' = runtimes /\ pane' = pane
    BY <1>3 DEF Paste
  <2>2. CASE claude' = claude
    BY <2>1, <2>2 DEF RowsOK
  <2>3. CASE claude' = [claude EXCEPT ![ops[b].gen].at = IF @ = "idle" THEN "prompted" ELSE @]
    <3> DEFINE process == [claude[ops[b].gen] EXCEPT !.at = IF @ = "idle" THEN "prompted" ELSE @]
    <3>1. CASE ops[b].gen \in Generations
      <4>1. process \in Claude
        BY <3>1 DEF RowsOK, Claude
      <4>2. claude' = [claude EXCEPT ![ops[b].gen] = process]
        BY <2>3
      <4> HIDE DEF process
      <4> QED BY <2>1, <3>1, <4>1, <4>2, ProcessChanges
    <3>2. CASE ops[b].gen \notin Generations
      BY <2>1, <2>3, <3>2 DEF RowsOK
    <3> QED BY <3>1, <3>2
  <2> QED BY <1>3, <2>2, <2>3 DEF Paste
<1>4. CASE Collect(b)
  <2> DEFINE g == turns[waiting[b]].generation
  <2>1. runtimes' = runtimes \/ runtimes' = [runtimes EXCEPT ![g].state = "ready"]
    BY <1>4 DEF Collect, Acknowledged
  <2>2. CASE runtimes' = runtimes
    BY <1>4, <2>2 DEF Collect, RowsOK
  <2>3. CASE runtimes' = [runtimes EXCEPT ![g].state = "ready"]
    <3> HIDE DEF g
    <3>1. g \in Generations => [runtimes[g] EXCEPT !.state = "ready"] \in Runtime
      BY DEF RowsOK, Runtime, ProcessState
    <3>2. runtimes' = [runtimes EXCEPT ![g] = [runtimes[g] EXCEPT !.state = "ready"]]
      BY <2>3
    <3> QED BY <1>4, <3>1, <3>2, RowChanges DEF Collect
  <2> QED BY <2>1, <2>2, <2>3
<1> QED BY <1>1, <1>2, <1>3, <1>4 DEF Deliver, Await

LEMMA HoldWritesRows ==
  ASSUME RowsOK, NEW b \in Boards, Hold(b)
  PROVE  RowsOK'
<1> USE DEF db, outside
<1>1. CASE Claim(b) \/ Release(b)
  <2>1. runtimes' = runtimes /\ claude' = claude
    BY <1>1 DEF Claim, Release
  <2>2. CASE pane' = pane
    BY <2>1, <2>2 DEF RowsOK
  <2>3. ASSUME NEW owner \in Owner, pane' = [pane EXCEPT ![ops[b].gen].owner = owner]
        PROVE  RowsOK'
    <3>1. CASE ops[b].gen \in Generations
      <4> DEFINE session == [pane[ops[b].gen] EXCEPT !.owner = owner]
      <4>1. session \in Pane
        BY <3>1 DEF RowsOK, Pane
      <4>2. pane' = [pane EXCEPT ![ops[b].gen] = session]
        BY <2>3
      <4> HIDE DEF session
      <4> QED BY <2>1, <4>1, <4>2, NewRow, SessionChanges
    <3>2. CASE ops[b].gen \notin Generations
      BY <2>1, <2>3, <3>2 DEF RowsOK
    <3> QED BY <3>1, <3>2
  <2> QED BY <1>1, <2>2, <2>3 DEF Claim, Release, Owner
<1>2. CASE Claimed(b)
  BY <1>2, SetsRow DEF Claimed, Owner
<1>3. CASE Leave(b)
  BY <1>3 DEF Leave, RowsOK
<1>4. CASE Released(b)
  <2> DEFINE g == ops[b].gen
             state == IF Finished(g) THEN "ready" ELSE runtimes[g].state
             row == [runtimes[g] EXCEPT !.owner = "manager", !.state = state]
  <2>1. g \in Generations => row \in Runtime
    BY DEF RowsOK, Runtime, ProcessState, Owner
  <2>2. runtimes' = [runtimes EXCEPT ![g] = row]
    BY <1>4 DEF Released, RowsOK
  <2> HIDE DEF g, row
  <2> QED BY <1>4, <2>1, <2>2, RowChanges DEF Released
<1> QED BY <1>1, <1>2, <1>3, <1>4 DEF Hold

LEMMA ClaudeWritesRows ==
  ASSUME RowsOK, NEW g \in Generations, AnswerDialog(g) \/ Exit(g) \/ Hook(g) \/ CallTool(g)
  PROVE  RowsOK'
<1> USE DEF db, outside
<1>1. runtimes[g] \in Runtime /\ claude[g] \in Claude /\ claude[g].seen \in Runtime /\ pane[g] \in Pane
  BY DEF RowsOK, Claude
<1>2. CASE AnswerDialog(g)
  <2> DEFINE process == [claude[g] EXCEPT !.at = "boot"]
  <2>1. process \in Claude
    BY <1>1 DEF Claude
  <2>2. claude' = [claude EXCEPT ![g] = process]
    BY <1>2 DEF AnswerDialog
  <2> HIDE DEF process
  <2> QED BY <1>2, <2>1, <2>2, ProcessChanges DEF AnswerDialog
<1>3. CASE Exit(g)
  <2> DEFINE session == [pane[g] EXCEPT !.at = "dead"]
  <2>1. session \in Pane
    BY <1>1 DEF Pane
  <2>2. pane' = [pane EXCEPT ![g] = session]
    BY <1>3 DEF Exit
  <2> HIDE DEF session
  <2> QED BY <1>3, <2>1, <2>2, NewRow, SessionChanges DEF Exit
<1>4. CASE HookReads(g)
  <2> DEFINE process == [claude[g] EXCEPT !.hook = TRUE, !.seen = runtimes[g]]
  <2>1. process \in Claude
    BY <1>1 DEF Claude
  <2>2. claude' = [claude EXCEPT ![g] = process]
    BY <1>4 DEF HookReads, RowsOK
  <2> HIDE DEF process
  <2> QED BY <1>4, <2>1, <2>2, ProcessChanges DEF HookReads
<1>5. CASE SessionStart(g) \/ UserPromptSubmit(g) \/ Stop(g)
  <2>1. PICK at \in {"idle", "work"} : claude' = [claude EXCEPT ![g] = [Claudeless EXCEPT !.at = at]]
    BY <1>5 DEF SessionStart, UserPromptSubmit, Stop
  <2>2. [Claudeless EXCEPT !.at = at] \in Claude
    BY NewRow DEF Claude
  <2>3. PICK state \in {"ready", "turn_active", "turn_complete"} :
          runtimes' = [runtimes EXCEPT ![g] = [claude[g].seen EXCEPT !.state = state]]
    BY <1>5 DEF SessionStart, UserPromptSubmit, Stop
  <2>4. [claude[g].seen EXCEPT !.state = state] \in Runtime
    BY <1>1 DEF Runtime, ProcessState
  <2> QED BY <1>5, <2>1, <2>2, <2>3, <2>4, ProcessChanges DEF SessionStart, UserPromptSubmit, Stop
<1>6. CASE CallTool(g)
  BY <1>6 DEF CallTool, RowsOK
<1> QED BY <1>2, <1>3, <1>4, <1>5, <1>6 DEF Hook

LEMMA RowsStep ==
  ASSUME RowsOK, HeldOK, OpsOK, [Next]_vars
  PROVE  RowsOK'
<1>1. ASSUME runtimes' = runtimes, pane' = pane, claude' = claude
      PROVE  RowsOK'
  BY <1>1 DEF RowsOK
<1>2. ASSUME NEW b \in Boards, StartBoard(b) \/ Crash(b) \/ Handle(b) \/ FreshManager(b) \/ Enter(b)
      PROVE  RowsOK'
  BY <1>1, <1>2 DEF StartBoard, Crash, Handle, FreshManager, Enter, db, outside
<1>3. ASSUME NEW c \in Calls, Exchange(c)
      PROVE  RowsOK'
  BY <1>1, <1>3 DEF Exchange, Reuse, Connect, Unreachable, Write, WriteFails, Serve, Reply, LoseReply,
                    db, outside
<1>4. CASE UNCHANGED vars
  BY <1>1, <1>4 DEF vars, db, outside
<1>5. ASSUME NEW b \in Boards, Progress(b) \/ Await(b)
      PROVE  RowsOK'
  BY <1>5, BoardsWriteRows, RotationWritesRows, DeliveryWritesRows, HoldWritesRows DEF Progress
<1> QED BY <1>2, <1>3, <1>4, <1>5, ClaudeWritesRows DEF Next

----------------------------------------------------------------------------
(* Type correctness: the boards' memory and the sockets *)

LEMMA ServingHeld ==
  ASSUME HeldOK, NEW b \in Boards, NEW g \in Generations, Serving(b, g),
         blocked' = blocked, waiting' = waiting, conf' = conf, conn' = conn, crashes' = crashes
  PROVE  HeldOK'
<1>1. b \in 0..NumBoards
  BY ManagerBounds DEF Boards
<1> QED BY <1>1 DEF HeldOK, Serving

LEMMA BoardsHeld ==
  ASSUME HeldOK, OpsOK, NEW b \in Boards, StartBoard(b) \/ Crash(b) \/ Handle(b) \/ FreshManager(b) \/ Enter(b)
  PROVE  HeldOK'
<1> USE DEF db, memory, bridge
<1>1. CASE StartBoard(b)
  <2>1. PICK c \in Configuration : conf' = [conf EXCEPT ![b] = c]
    BY <1>1 DEF StartBoard, HeldOK
  <2> QED BY <1>1, <2>1 DEF StartBoard, HeldOK
<1>2. CASE Crash(b)
  <2>1. 0 \in 0..NumBoards /\ 0 \in 0..MaxTurns
    BY ManagerBounds
  <2>2. listener' \in [Generations -> 0..NumBoards]
    BY <1>2, <2>1 DEF Crash, HeldOK
  <2> DEFINE shut(g) == [conn[g] EXCEPT !.open = FALSE]
  <2>3. \A g \in Generations : shut(g) \in [peer : 0..NumBoards, open : BOOLEAN]
    BY DEF HeldOK
  <2>4. conn' = [g \in Generations |-> IF conn[g].peer = b THEN shut(g) ELSE conn[g]]
    BY <1>2 DEF Crash
  <2> HIDE DEF shut
  <2>5. conn' \in [Generations -> [peer : 0..NumBoards, open : BOOLEAN]]
    BY <2>3, <2>4 DEF HeldOK
  <2> QED BY <1>2, <2>1, <2>2, <2>5 DEF Crash, HeldOK
<1>3. CASE Handle(b) \/ FreshManager(b) \/ Enter(b)
  BY <1>3 DEF Handle, FreshManager, Enter, HeldOK
<1> QED BY <1>1, <1>2, <1>3

LEMMA ProgressHeld ==
  ASSUME HeldOK, OpsOK, NEW b \in Boards, Progress(b) \/ Await(b)
  PROVE  HeldOK'
<1> USE DEF db, memory, bridge
<1>1. ASSUME blocked' \in 0..MaxGenerations, waiting' = waiting, servers' = servers, conf' = conf,
             listener' = listener, conn' = conn, crashes' = crashes
      PROVE  HeldOK'
  BY <1>1 DEF HeldOK
<1>2. blocked \in 0..MaxGenerations /\ 0 \in 0..MaxGenerations /\ ops[b].gen \in 0..MaxGenerations
  BY ManagerBounds DEF HeldOK, OpsOK, Op, Generations
<1>3. CASE FindUnbound(b) \/ FindBound(b)
  <2>1. generation \in Generations
    BY <1>3, Generation0 DEF FindUnbound, FindBound
  <2> QED BY <1>3, <2>1, ServingHeld DEF FindUnbound, FindBound
<1>4. CASE SaveFingerprint(b)
  <2>1. ops[b].gen \in Generations
    BY <1>4 DEF SaveFingerprint, OpsOK, Op
  <2> QED BY <1>4, <2>1, ServingHeld DEF SaveFingerprint
<1>5. CASE FindNone(b) \/ Observe(b) \/ Rotate(b)
  BY <1>1, <1>2, <1>5 DEF FindNone, Observe, Rotate, Revoke, Terminate, Terminated
<1>6. CASE Mint(b) \/ CreateSession(b) \/ BindTarget(b) \/ RecordLaunch(b) \/ SeeReady(b)
           \/ StartupTimesOut(b) \/ StartupObserved(b)
  BY <1>1, <1>2, <1>6 DEF Mint, CreateSession, BindTarget, RecordLaunch, SeeReady, StartupTimesOut,
                          StartupObserved
<1>7. CASE RotateAtLimit(b) \/ Decline(b) \/ Reserve(b) \/ Hold(b)
  BY <1>1, <1>2, <1>7 DEF RotateAtLimit, Decline, Reserve, Hold, Claim, Claimed, Leave, Release, Released
<1>8. ASSUME NEW t \in 0..MaxTurns, waiting' = waiting \/ waiting' = [waiting EXCEPT ![b] = t],
             blocked' = blocked, servers' = servers, conf' = conf, listener' = listener,
             conn' = conn, crashes' = crashes
      PROVE  HeldOK'
  BY <1>8 DEF HeldOK
<1>9. CASE Paste(b)
  <2>1. MyTurn(ops[b].gen) \in 0..MaxTurns
    BY <1>9, ManagerBounds DEF Paste, MyTurn, OpenTurns, Turns
  <2> HIDE DEF bridge
  <2> QED BY <1>8, <1>9, <2>1 DEF Paste, bridge
<1>10. CASE Await(b)
  <2>1. 0 \in 0..MaxTurns
    BY ManagerBounds
  <2> QED BY <1>8, <1>10, <2>1 DEF Await, Collect, GiveUp
<1> QED BY <1>3, <1>4, <1>5, <1>6, <1>7, <1>9, <1>10 DEF Progress, StartOrRecover, NewGeneration, Deliver

LEMMA BridgeHeld ==
  ASSUME HeldOK, NEW c \in Calls, Exchange(c)
  PROVE  HeldOK'
<1> USE DEF db, memory
<1> DEFINE g == calls[c].gen
<1>1. ASSUME conn' \in [Generations -> [peer : 0..NumBoards, open : BOOLEAN]], blocked' = blocked,
             waiting' = waiting, servers' = servers, conf' = conf, listener' = listener, crashes' = crashes
      PROVE  HeldOK'
  BY <1>1 DEF HeldOK
<1>2. CASE Reuse(c) \/ Unreachable(c) \/ Write(c) \/ Serve(c) \/ Reply(c)
  BY <1>1, <1>2 DEF Reuse, Unreachable, Write, Serve, Reply, HeldOK
<1>3. CASE Connect(c)
  <2>1. g \in Generations => [peer |-> listener[g], open |-> TRUE] \in [peer : 0..NumBoards, open : BOOLEAN]
    BY DEF HeldOK
  <2>2. conn' = [conn EXCEPT ![g] = [peer |-> listener[g], open |-> TRUE]]
    BY <1>3 DEF Connect
  <2>3. conn' \in [Generations -> [peer : 0..NumBoards, open : BOOLEAN]]
    BY <2>1, <2>2 DEF HeldOK
  <2> QED BY <1>1, <1>3, <2>3 DEF Connect
<1>4. CASE WriteFails(c) \/ LoseReply(c)
  <2>1. [peer |-> 0, open |-> FALSE] \in [peer : 0..NumBoards, open : BOOLEAN]
    BY ManagerBounds
  <2>2. conn' \in [Generations -> [peer : 0..NumBoards, open : BOOLEAN]]
    BY <1>4, <2>1 DEF WriteFails, LoseReply, Unlinked, HeldOK
  <2> QED BY <1>1, <1>4, <2>2 DEF WriteFails, LoseReply
<1> QED BY <1>2, <1>3, <1>4 DEF Exchange

LEMMA HeldStep ==
  ASSUME HeldOK, OpsOK, [Next]_vars
  PROVE  HeldOK'
<1>1. ASSUME NEW g \in Generations, AnswerDialog(g) \/ Exit(g) \/ Hook(g) \/ CallTool(g)
      PROVE  HeldOK'
  BY <1>1 DEF AnswerDialog, Exit, Hook, HookReads, SessionStart, UserPromptSubmit, Stop, CallTool,
              HeldOK, db, memory, bridge
<1>2. CASE UNCHANGED vars
  BY <1>2 DEF vars, db, memory, bridge, HeldOK
<1> QED BY <1>1, <1>2, BoardsHeld, ProgressHeld, BridgeHeld DEF Next

LEMMA InitialTypes == Init => OpsOK /\ RowsOK /\ HeldOK
<1>1. Init => RowsOK
  BY NewRow DEF Init, RowsOK
<1>2. Init => HeldOK
  <2> SUFFICES ASSUME Init
               PROVE  HeldOK
    OBVIOUS
  <2>1. 0 \in 0..NumBoards /\ 0 \in 0..MaxTurns /\ 0 \in 0..MaxGenerations /\ 0 \in Nat
    BY ManagerBounds
  <2> QED BY <2>1 DEF Init, HeldOK, Configuration
<1> QED BY <1>1, <1>2, OpsInitial

(***************************************************************************)
(* Every row, session, socket and board keeps to its type.                 *)
(***************************************************************************)
THEOREM TypeCorrect == Spec => []TypeOK
<1> DEFINE Inv == CallsOK /\ OpsOK /\ ConsentOK /\ RowsOK /\ HeldOK
<1>1. Init => Inv
  BY CallsInitial, ConsentInitial, InitialTypes
<1>2. Inv /\ [Next]_vars => Inv'
  BY CallsStep, OpsStep, ConsentStep, RowsStep, HeldStep
<1>3. Inv => TypeOK
  <2> SUFFICES ASSUME Inv
               PROVE  TypeOK
    OBVIOUS
  <2>1. consent \in 0..MaxTurns
    BY ManagerBounds DEF ConsentOK
  <2> QED BY <2>1 DEF CallsOK, OpsOK, ConsentOK, RowsOK, HeldOK, TypeOK
<1> QED BY <1>1, <1>2, <1>3, PTL DEF Spec
=============================================================================
