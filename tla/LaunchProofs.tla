---------------------------- MODULE LaunchProofs ----------------------------
(***************************************************************************)
(* Proofs about the Manager's generations, for any number of boards that   *)
(* launch, adopt and rotate them at once: a generation has one board that  *)
(* launches it, and until that has created the session it has no target to *)
(* adopt, no process and no hook. The three facts about what boards do to  *)
(* each other's launches follow from there. With one board, what was       *)
(* replaced has no process left.                                           *)
(***************************************************************************)
EXTENDS ManagerProofs

----------------------------------------------------------------------------
(* What is true of a launch *)

Launching(b) == ops[b].at \in {"fingerprint", "create"}
(* Where a board goes by the generation it holds. *)
HoldingPositions == {"fingerprint", "create", "bind", "record", "wait", "startup", "send", "observe", "mint"}
Holding(b) == ops[b].at \in HoldingPositions
(* Where it relies on the configuration of that. *)
Relying(op) == \/ op.at \in {"create", "bind", "record", "wait", "startup", "send"}
               \/ op.at = "observe" /\ op.fit = "exact"

Unborn(g) == pane[g].at = "none" /\ claude[g].at = "off" /\ ~claude[g].hook
Unlaunched(g) == Unborn(g) /\ ~runtimes[g].bound

FutureOK == \A g \in Generations : g > generation => Unborn(g)
LaunchingOK == \A b \in Boards : Launching(b) => ops[b].gen # 0 /\ Unlaunched(ops[b].gen)
AloneOK == \A b, c \in Boards : Launching(b) /\ Holding(c) /\ b # c => ops[b].gen # ops[c].gen
HeldGenerationOK ==
  \A b \in Boards :
    /\ ops[b].gen <= generation
    /\ At(b, "mint") => ops[b].gen = 0 \/ ~Alive(ops[b].gen)
    /\ Relying(ops[b]) => ops[b].gen # 0 /\ runtimes[ops[b].gen].fingerprint = conf[b]
HooksOK == \A g \in Generations : claude[g].hook => claude[g].seen.fingerprint = runtimes[g].fingerprint

LaunchOK == FutureOK /\ LaunchingOK /\ AloneOK /\ HeldGenerationOK /\ HooksOK

TypesOK == OpsOK /\ RowsOK /\ HeldOK

LEMMA HeldGeneration ==
  ASSUME OpsOK, NEW b \in Boards
  PROVE  ops[b].gen = 0 \/ ops[b].gen \in Generations
BY DEF OpsOK, Op

----------------------------------------------------------------------------
(* Steps that launch nothing *)

(* The step leaves every generation as launched as it was, but for the one *)
(* that board b launches, if it does.                                       *)
Undisturbed(b) ==
  /\ generation' = generation /\ conf' = conf
  /\ \A g \in Generations : /\ runtimes'[g].fingerprint = runtimes[g].fingerprint
                            /\ Alive(g)' => Alive(g)
                            /\ claude'[g].hook => claude'[g].seen.fingerprint = runtimes'[g].fingerprint
                            /\ g > generation => Unborn(g)'
  /\ \A g \in Generations, c \in Boards \ {b} : Launching(c) /\ ops[c].gen = g => Unlaunched(g)'

LEMMA BoardMoves ==
  ASSUME TypesOK, LaunchOK, NEW b \in Boards, Undisturbed(b), NEW op \in Op,
         ops' = [ops EXCEPT ![b] = op], op.gen <= generation,
         op.at \notin {"fingerprint", "create"},
         op.at \in HoldingPositions =>
           \A c \in Boards \ {b} : Launching(c) => ops[c].gen # op.gen,
         op.at = "mint" => op.gen = 0 \/ ~Alive(op.gen),
         Relying(op) => op.gen # 0 /\ runtimes[op.gen].fingerprint = conf[b]
  PROVE  LaunchOK'
<1>1. /\ ops'[b] = op /\ \A c \in Boards \ {b} : ops'[c] = ops[c]
      /\ \A c \in Boards : ops'[c].gen \in {0} \union Generations
  BY DEF TypesOK, OpsOK, Op
<1>2. FutureOK'
  BY DEF Undisturbed, FutureOK
<1>3. LaunchingOK'
  <2> SUFFICES ASSUME NEW c \in Boards, Launching(c)'
               PROVE  ops'[c].gen # 0 /\ Unlaunched(ops[c].gen)'
    BY DEF LaunchingOK
  <2>1. c # b /\ Launching(c) /\ ops'[c] = ops[c]
    BY <1>1 DEF Launching
  <2>2. PICK h \in Generations : ops[c].gen = h
    BY <2>1, HeldGeneration DEF TypesOK, LaunchOK, LaunchingOK
  <2>3. Unlaunched(h)'
    BY <2>1, <2>2 DEF Undisturbed
  <2>4. ops'[c].gen = h /\ h # 0
    BY <2>1, <2>2 DEF LaunchOK, LaunchingOK
  <2> QED BY <2>3, <2>4 DEF Unlaunched, Unborn
<1>4. AloneOK'
  BY <1>1 DEF AloneOK, LaunchOK, Launching, Holding
<1>5. HeldGenerationOK'
  BY <1>1 DEF Undisturbed, HeldGenerationOK, LaunchOK, At, Relying
<1>6. HooksOK'
  BY DEF Undisturbed, HooksOK
<1> QED BY <1>2, <1>3, <1>4, <1>5, <1>6 DEF LaunchOK

(* A row keeps its target and its fingerprint; a session may end.           *)
LEMMA Keeps ==
  ASSUME TypesOK, LaunchOK, NEW b, generation' = generation, conf' = conf,
         \A g \in Generations :
           /\ runtimes'[g].fingerprint = runtimes[g].fingerprint
           /\ runtimes'[g].bound = runtimes[g].bound
           /\ pane'[g].at = pane[g].at \/ pane'[g].at = "none"
           /\ \/ claude'[g] = Claudeless
              \/ /\ claude'[g].hook = claude[g].hook /\ claude'[g].seen = claude[g].seen
                 /\ claude[g].at = "off" => claude'[g].at = "off"
  PROVE  Undisturbed(b)
<1>1. Claudeless.at = "off" /\ ~Claudeless.hook
  BY DEF Claudeless
<1>2. \A g \in Generations : Unborn(g) => Unborn(g)'
  BY <1>1 DEF Unborn
<1>3. \A g \in Generations : Unlaunched(g) => Unlaunched(g)'
  BY <1>2 DEF Unlaunched
<1>5. \A g \in Generations, c \in Boards : Launching(c) /\ ops[c].gen = g => Unlaunched(g)'
  BY <1>3 DEF LaunchOK, LaunchingOK
<1>6. \A g \in Generations : claude'[g].hook => claude'[g].seen.fingerprint = runtimes'[g].fingerprint
  BY <1>1 DEF LaunchOK, HooksOK
<1>7. \A g \in Generations : Alive(g)' => Alive(g)
  BY DEF Alive
<1>8. \A g \in Generations : g > generation => Unborn(g)'
  BY <1>2 DEF LaunchOK, FutureOK
<1> QED BY <1>5, <1>6, <1>7, <1>8 DEF Undisturbed

LEMMA RowKept ==
  ASSUME TypesOK, LaunchOK, NEW b, NEW g, NEW row,
         g \in Generations => row.fingerprint = runtimes[g].fingerprint /\ row.bound = runtimes[g].bound,
         runtimes' = [runtimes EXCEPT ![g] = row],
         pane' = pane, claude' = claude, generation' = generation, conf' = conf
  PROVE  Undisturbed(b)
<1>1. \A h \in Generations : /\ runtimes'[h].fingerprint = runtimes[h].fingerprint
                             /\ runtimes'[h].bound = runtimes[h].bound
  BY DEF TypesOK, RowsOK
<1> QED BY <1>1, Keeps

LEMMA RowsKept ==
  ASSUME TypesOK, LaunchOK, NEW b, runtimes' = runtimes,
         pane' = pane, claude' = claude, generation' = generation, conf' = conf
  PROVE  Undisturbed(b)
BY Keeps

(* The board goes where it holds no generation. *)
LEMMA BoardLeaves ==
  ASSUME TypesOK, LaunchOK, NEW b \in Boards, Undisturbed(b), NEW op \in Op,
         ops' = [ops EXCEPT ![b] = op], op.gen <= generation, op.at \notin HoldingPositions
  PROVE  LaunchOK'
BY BoardMoves DEF HoldingPositions, Relying

LEMMA BoardGoes ==
  ASSUME TypesOK, LaunchOK, NEW b \in Boards, Undisturbed(b), NEW at \in Position \ HoldingPositions, Go(b, at)
  PROVE  LaunchOK'
<1> DEFINE op == [ops[b] EXCEPT !.at = at]
<1>1. op \in Op /\ op.at = at /\ op.gen = ops[b].gen
  BY OpMoves DEF TypesOK, OpsOK
<1>2. ops' = [ops EXCEPT ![b] = op]
  BY DEF Go, TypesOK, OpsOK
<1>3. op.gen <= generation
  BY <1>1 DEF LaunchOK, HeldGenerationOK
<1> HIDE DEF op
<1> QED BY <1>1, <1>2, <1>3, BoardLeaves

LEMMA BoardEnds ==
  ASSUME TypesOK, LaunchOK, NEW b \in Boards, Undisturbed(b), NEW at \in Position \ HoldingPositions, NEW then \in Purpose,
         ops' = [ops EXCEPT ![b] = Begun(at, then)] \/ ops' = [ops EXCEPT ![b] = Resting(at)]
  PROVE  LaunchOK'
<1>1. /\ Begun(at, then) \in Op /\ Begun(at, then).at = at /\ Begun(at, then).gen = 0
      /\ Resting(at) \in Op /\ Resting(at).at = at /\ Resting(at).gen = 0
  BY OpsBegin DEF Begun, Resting
<1>2. 0 <= generation
  BY ManagerBounds DEF TypesOK, OpsOK
<1>3. ASSUME NEW op \in {Begun(at, then), Resting(at)}, ops' = [ops EXCEPT ![b] = op]
      PROVE  LaunchOK'
  <2>1. op \in Op /\ op.gen <= generation /\ op.at \notin HoldingPositions
    BY <1>1, <1>2
  <2> QED BY <1>3, <2>1, BoardLeaves
<1> QED BY <1>3

(* It goes on with the generation it holds. *)
LEMMA BoardStays ==
  ASSUME TypesOK, LaunchOK, NEW b \in Boards, Undisturbed(b), Holding(b), NEW op \in Op,
         ops' = [ops EXCEPT ![b] = op], op.gen = ops[b].gen,
         op.at \notin {"fingerprint", "create"},
         op.at = "mint" => op.gen = 0 \/ ~Alive(op.gen),
         Relying(op) => Relying(ops[b])
  PROVE  LaunchOK'
<1>1. op.gen <= generation /\ (Relying(op) => op.gen # 0 /\ runtimes[op.gen].fingerprint = conf[b])
  BY DEF LaunchOK, HeldGenerationOK
<1>2. \A c \in Boards \ {b} : Launching(c) => ops[c].gen # op.gen
  BY DEF LaunchOK, AloneOK
<1> QED BY <1>1, <1>2, BoardMoves

(* No board moves. *)
LEMMA BoardsStand ==
  ASSUME TypesOK, LaunchOK, Undisturbed(0), ops' = ops
  PROVE  LaunchOK'
<1>1. FutureOK' /\ HooksOK'
  BY DEF Undisturbed, FutureOK, HooksOK
<1>2. LaunchingOK'
  <2> SUFFICES ASSUME NEW c \in Boards, Launching(c)
               PROVE  ops[c].gen # 0 /\ Unlaunched(ops[c].gen)'
    BY DEF LaunchingOK, Launching
  <2>1. PICK h \in Generations : ops[c].gen = h
    BY HeldGeneration DEF TypesOK, LaunchOK, LaunchingOK
  <2>2. c \in Boards \ {0}
    BY DEF Boards
  <2>3. Unlaunched(h)'
    BY <2>1, <2>2 DEF Undisturbed
  <2>4. h # 0
    BY <2>1 DEF LaunchOK, LaunchingOK
  <2> QED BY <2>1, <2>3, <2>4 DEF Unlaunched, Unborn
<1>3. AloneOK'
  BY DEF LaunchOK, AloneOK, Launching, Holding
<1>4. HeldGenerationOK'
  <2>1. \A c \in Boards : ops[c].gen \in {0} \union Generations
    BY DEF TypesOK, OpsOK, Op
  <2> QED BY <2>1 DEF LaunchOK, HeldGenerationOK, Undisturbed, At
<1> QED BY <1>1, <1>2, <1>3, <1>4 DEF LaunchOK

----------------------------------------------------------------------------
(* The boards *)

LEMMA StartsKeepLaunches ==
  ASSUME TypesOK, LaunchOK, NEW b \in Boards, StartBoard(b)
  PROVE  LaunchOK'
<1> DEFINE op == Begun("current", "recover")
<1>1. op.at = "current" /\ op.gen = 0 /\ ops' = [ops EXCEPT ![b] = op]
  BY DEF StartBoard, Begun, Resting
<1> HIDE DEF op
<1>2. ops'[b] = op /\ \A c \in Boards \ {b} : ops'[c] = ops[c] /\ conf'[c] = conf[c]
  BY <1>1 DEF StartBoard, TypesOK, OpsOK, HeldOK
<1>3. generation' = generation /\ runtimes' = runtimes /\ pane' = pane /\ claude' = claude
  BY DEF StartBoard, db, outside
<1>4. 0 <= generation
  BY ManagerBounds DEF TypesOK, OpsOK
<1>5. FutureOK' /\ HooksOK'
  BY <1>3 DEF LaunchOK, FutureOK, HooksOK, Unborn
<1>6. LaunchingOK'
  BY <1>1, <1>2, <1>3 DEF LaunchOK, LaunchingOK, Launching, Unlaunched, Unborn
<1>7. AloneOK'
  BY <1>1, <1>2 DEF LaunchOK, AloneOK, Launching, Holding, HoldingPositions
<1>8. HeldGenerationOK'
  BY <1>1, <1>2, <1>3, <1>4 DEF LaunchOK, HeldGenerationOK, Relying, At, Alive
<1> QED BY <1>5, <1>6, <1>7, <1>8 DEF LaunchOK

LEMMA BeginningsKeepLaunches ==
  ASSUME TypesOK, LaunchOK, NEW b \in Boards, Crash(b) \/ Handle(b) \/ FreshManager(b) \/ Enter(b)
  PROVE  LaunchOK'
<1>1. Undisturbed(b)
  BY RowsKept DEF Crash, Handle, FreshManager, Enter, db, outside, memory
<1>2. {"down", "current", "revoke"} \subseteq Position \ HoldingPositions
      /\ {"handle", "fresh", "enter", "none"} \subseteq Purpose
  BY DEF Position, HoldingPositions, Purpose
<1>3. \/ ops' = [ops EXCEPT ![b] = Resting("down")]
      \/ ops' = [ops EXCEPT ![b] = Begun("current", "handle")]
      \/ ops' = [ops EXCEPT ![b] = Begun("revoke", "fresh")]
      \/ ops' = [ops EXCEPT ![b] = Begun("current", "enter")]
  BY DEF Crash, Handle, FreshManager, Enter
<1> QED BY <1>1, <1>2, <1>3, BoardEnds

LEMMA EndKeepsLaunches ==
  ASSUME TypesOK, LaunchOK, NEW b \in Boards, Undisturbed(b), End(b)
  PROVE  LaunchOK'
<1>1. "idle" \in Position \ HoldingPositions /\ "none" \in Purpose
  BY DEF Position, HoldingPositions, Purpose
<1> QED BY <1>1, BoardEnds DEF End

(* Start_or_recover hands over the generation it has. *)
LEMMA HandingKeepsLaunches ==
  ASSUME TypesOK, LaunchOK, NEW b \in Boards, Undisturbed(b), Relying(ops[b]),
         ops' = [ops EXCEPT ![b] = Continue(ops[b])]
  PROVE  LaunchOK'
<1> DEFINE op == Continue(ops[b])
<1>1. ops[b] \in Op
  BY DEF TypesOK, OpsOK
<1>2. op \in Op /\ op.at \in {"send", "claim", "idle"} /\ (op.at # "idle" => op.gen = ops[b].gen)
      /\ (op.at = "idle" => op.gen = 0)
  BY <1>1, Continued DEF Continue, Resting, Op
<1>3. Holding(b)
  BY DEF Relying, Holding, HoldingPositions
<1> HIDE DEF op
<1>4. 0 <= generation /\ ops[b].gen <= generation
  BY ManagerBounds DEF TypesOK, OpsOK, LaunchOK, HeldGenerationOK
<1>5. CASE op.at = "send"
  BY <1>2, <1>3, <1>5, BoardStays DEF op
<1>6. CASE op.at # "send"
  <2>1. op.at \notin HoldingPositions /\ op.gen <= generation
    BY <1>2, <1>4, <1>6 DEF HoldingPositions
  <2> QED BY <1>2, <2>1, BoardLeaves DEF op
<1> QED BY <1>5, <1>6

LEMMA RecordKept ==
  ASSUME TypesOK, LaunchOK, NEW b, NEW g, runtimes' = [runtimes EXCEPT ![g] = Recorded(g)],
         pane' = pane, claude' = claude, generation' = generation, conf' = conf
  PROVE  Undisturbed(b)
<1>1. g \in Generations => runtimes[g] \in Runtime
  BY DEF TypesOK, RowsOK
<1>2. g \in Generations => Recorded(g).fingerprint = runtimes[g].fingerprint /\ Recorded(g).bound = runtimes[g].bound
  BY <1>1 DEF Recorded, Runtime
<1> QED BY <1>2, RowKept

LEMMA SetKept ==
  ASSUME TypesOK, LaunchOK, NEW b, NEW g, NEW field \in {"state", "owner"}, NEW value, Set(g, field, value),
         pane' = pane, claude' = claude, generation' = generation, conf' = conf
  PROVE  Undisturbed(b)
<1> DEFINE row == [runtimes[g] EXCEPT ![field] = value]
<1>1. g \in Generations => runtimes[g] \in Runtime
  BY DEF TypesOK, RowsOK
<1>2. g \in Generations => row.fingerprint = runtimes[g].fingerprint /\ row.bound = runtimes[g].bound
  BY <1>1 DEF Runtime
<1>3. runtimes' = [runtimes EXCEPT ![g] = row]
  BY DEF Set
<1> HIDE DEF row
<1> QED BY <1>2, <1>3, RowKept

LEMMA RecoveryKeepsLaunches ==
  ASSUME TypesOK, LaunchOK, NEW b \in Boards, StartOrRecover(b)
  PROVE  LaunchOK'
<1> USE DEF db, outside, memory
<1>o. ops[b] \in Op /\ ops[b].gen <= generation /\ generation \in Nat
  BY ManagerBounds DEF TypesOK, OpsOK, LaunchOK, HeldGenerationOK
<1>p. {"mint", "observe", "revoke", "idle"} \subseteq Position /\ HoldingPositions \subseteq Position
  BY DEF Position, HoldingPositions
<1>1. CASE FindNone(b)
  <2> DEFINE op == [ops[b] EXCEPT !.at = "mint"]
  <2>1. op \in Op /\ op.at = "mint" /\ op.gen = ops[b].gen
    BY <1>o, <1>p, OpMoves
  <2>2. ops[b].gen = 0
    BY <1>1, <1>o, ManagerBounds DEF FindNone, Op, Generations
  <2>3. ops' = [ops EXCEPT ![b] = op] /\ Undisturbed(b)
    BY <1>1, RowsKept DEF FindNone, Go, TypesOK, OpsOK
  <2>4. \A c \in Boards : Launching(c) => ops[c].gen # 0
    BY DEF LaunchOK, LaunchingOK
  <2> HIDE DEF op
  <2> QED BY <1>o, <2>1, <2>2, <2>3, <2>4, BoardMoves DEF Relying
<1>2. CASE FindUnbound(b)
  BY <1>2, RowsKept, EndKeepsLaunches DEF FindUnbound
<1>3. CASE FindBound(b)
  <2> DEFINE op == [ops[b] EXCEPT !.at = "observe", !.gen = generation, !.fit = Fit(b)]
  <2>1. Fit(b) \in {"exact", "mismatch", "kept"} /\ generation \in {0} \union Generations
        /\ (Fit(b) = "exact" => runtimes[generation].fingerprint = conf[b])
    BY Generation0 DEF Fit, TypesOK
  <2>2. op \in Op /\ op.at = "observe" /\ op.gen = generation /\ op.fit = Fit(b)
    BY <1>o, <1>p, <2>1 DEF Op
  <2>3. ops' = [ops EXCEPT ![b] = op] /\ Undisturbed(b)
    BY <1>3, RowsKept DEF FindBound, TypesOK, OpsOK
  <2>4. \A c \in Boards : Launching(c) => ops[c].gen # generation
    BY <1>3 DEF LaunchOK, LaunchingOK, Unlaunched, FindBound
  <2>5. generation # 0
    BY <1>3 DEF FindBound
  <2> HIDE DEF op
  <2>6. Relying(op) => op.gen # 0 /\ runtimes[op.gen].fingerprint = conf[b]
    BY <2>1, <2>2, <2>5 DEF Relying
  <2>7. op.gen <= generation /\ op.at \notin {"fingerprint", "create", "mint"}
        /\ \A c \in Boards \ {b} : Launching(c) => ops[c].gen # op.gen
    BY <1>o, <2>2, <2>4
  <2> QED BY <2>2, <2>3, <2>6, <2>7, BoardMoves
<1>4. CASE Observe(b)
  <2> DEFINE old == ops[b]
             op == CASE ~Alive(old.gen) -> [old EXCEPT !.at = "mint", !.fit = "exact"]
                     [] Alive(old.gen) /\ old.fit = "exact" -> Continue(old)
                     [] Alive(old.gen) /\ old.fit = "kept" -> Resting("idle")
                     [] Alive(old.gen) /\ old.fit = "mismatch" -> [old EXCEPT !.at = "revoke", !.fit = "exact"]
  <2>1. old \in Op /\ old.fit \in {"exact", "mismatch", "kept"} /\ Holding(b)
    BY <1>4, <1>o DEF Op, Observe, At, Holding, HoldingPositions
  <2>2. ops' = [ops EXCEPT ![b] = op] /\ Undisturbed(b)
    BY <1>4, RecordKept DEF Observe
  <2>3. CASE ~Alive(old.gen)
    <3>1. op = [old EXCEPT !.at = "mint", !.fit = "exact"]
      BY <2>3
    <3>2. op \in Op /\ op.at = "mint" /\ op.gen = ops[b].gen
      <4> HIDE DEF op
      <4> QED BY <1>o, <1>p, <3>1 DEF Op
    <3> HIDE DEF op
    <3> QED BY <2>1, <2>2, <2>3, <3>2, BoardStays DEF Relying
  <2>4. CASE Alive(old.gen) /\ old.fit = "exact"
    <3>1. op = Continue(ops[b]) /\ Relying(ops[b])
      BY <1>4, <2>4 DEF Observe, At, Relying
    <3> HIDE DEF op
    <3> QED BY <2>2, <3>1, HandingKeepsLaunches
  <2>5. CASE Alive(old.gen) /\ old.fit = "kept"
    <3>1. op = Resting("idle")
      BY <2>5
    <3> HIDE DEF op
    <3> QED BY <2>2, <3>1, EndKeepsLaunches DEF End
  <2>6. CASE Alive(old.gen) /\ old.fit = "mismatch"
    <3>1. op = [old EXCEPT !.at = "revoke", !.fit = "exact"]
      BY <2>6
    <3>2. op \in Op /\ op.at = "revoke" /\ op.gen = ops[b].gen
      <4> HIDE DEF op
      <4> QED BY <1>o, <1>p, <3>1 DEF Op
    <3> HIDE DEF op
    <3> QED BY <1>o, <2>2, <3>2, BoardLeaves DEF HoldingPositions
  <2> QED BY <2>1, <2>3, <2>4, <2>5, <2>6
<1> QED BY <1>1, <1>2, <1>3, <1>4 DEF StartOrRecover

LEMMA RotationKeepsLaunches ==
  ASSUME TypesOK, LaunchOK, NEW b \in Boards, Rotate(b)
  PROVE  LaunchOK'
<1> USE DEF db, outside, memory
<1>p. {"force", "terminate", "terminated"} \subseteq Position \ HoldingPositions
  BY DEF Position, HoldingPositions
<1>1. CASE Revoke(b)
  <2>1. CASE generation = 0
    BY <1>1, <1>p, <2>1, RowsKept, BoardGoes DEF Revoke
  <2>2. CASE generation # 0
    <3>1. PICK at \in {"terminate", "force"} :
            ops' = [ops EXCEPT ![b] = [@ EXCEPT !.at = at, !.gen = generation]]
      BY <1>1, <2>2 DEF Revoke
    <3> DEFINE op == [ops[b] EXCEPT !.at = at, !.gen = generation]
               row == [runtimes[generation] EXCEPT !.owner = "human", !.state = "exited"]
    <3>2. at \in Position \ HoldingPositions /\ generation \in Generations /\ ops[b] \in Op /\ generation <= generation
      BY <1>p, <2>2, Generation0, ManagerBounds DEF TypesOK, OpsOK, Generations
    <3>3. op \in Op /\ op.at = at /\ op.gen = generation
      BY <3>2 DEF Op
    <3>4. ops' = [ops EXCEPT ![b] = op]
      BY <3>1 DEF TypesOK, OpsOK
    <3>5. row.fingerprint = runtimes[generation].fingerprint /\ row.bound = runtimes[generation].bound
      BY <3>2 DEF TypesOK, RowsOK, Runtime
    <3>6. runtimes' = [runtimes EXCEPT ![generation] = row]
      BY <1>1, <2>2, <3>2 DEF Revoke, TypesOK, RowsOK
    <3> HIDE DEF op, row
    <3>7. Undisturbed(b)
      BY <1>1, <3>5, <3>6, RowKept DEF Revoke
    <3> QED BY <3>2, <3>3, <3>4, <3>7, BoardLeaves
  <2> QED BY <2>1, <2>2
<1>2. CASE Terminate(b)
  <2>1. Go(b, "terminated") \/ Go(b, "force")
    BY <1>2 DEF Terminate
  <2>2. \A g \in Generations :
          /\ pane'[g].at = pane[g].at \/ pane'[g].at = "none"
          /\ claude'[g] = Claudeless \/ claude'[g] = claude[g]
    BY <1>2 DEF Terminate, NoPane, TypesOK, RowsOK
  <2>3. Undisturbed(b)
    BY <1>2, <2>2, Keeps DEF Terminate
  <2> QED BY <1>p, <2>1, <2>3, BoardGoes
<1>3. CASE Terminated(b)
  BY <1>3, <1>p, SetKept, BoardGoes DEF Terminated
<1> QED BY <1>1, <1>2, <1>3 DEF Rotate

(* The new generation is nobody's but the board's that minted it. *)
LEMMA MintKeepsLaunches ==
  ASSUME TypesOK, LaunchOK, NEW b \in Boards, Mint(b)
  PROVE  LaunchOK'
<1> USE DEF db, outside, memory
<1>1. CASE At(b, "force") \/ Expected(b)
  <2> DEFINE new == generation + 1
             op == [ops[b] EXCEPT !.at = "fingerprint", !.gen = new]
  <2>1. new \in Generations /\ generation' = new /\ generation \in Nat /\ new > generation
    BY <1>1, ManagerBounds DEF Mint, TypesOK, OpsOK, Generations
  <2>2. op.at = "fingerprint" /\ op.gen = new /\ ops' = [ops EXCEPT ![b] = op]
    BY <1>1 DEF Mint, TypesOK, OpsOK, Op
  <2> HIDE DEF op
  <2>3. ops'[b] = op /\ \A c \in Boards \ {b} : ops'[c] = ops[c]
    BY <2>2 DEF TypesOK, OpsOK
  <2>4. runtimes' = [runtimes EXCEPT ![new] = NewRuntime] /\ pane' = pane /\ claude' = claude /\ conf' = conf
    BY <1>1 DEF Mint
  <2>5. runtimes'[new] = NewRuntime /\ \A g \in Generations \ {new} : runtimes'[g] = runtimes[g]
    BY <2>1, <2>4 DEF TypesOK, RowsOK
  <2>6. Unborn(new)
    BY <2>1 DEF LaunchOK, FutureOK
  <2>7. \A c \in Boards : /\ ops[c].gen <= generation /\ ops[c].gen # new /\ ops[c].gen <= new
                          /\ ops[c].gen \in {0} \union Generations
    BY <2>1, ManagerBounds DEF LaunchOK, HeldGenerationOK, TypesOK, OpsOK, Op, Generations
  <2>8. \A g \in Generations : g > new => g > generation
    BY <2>1 DEF Generations
  <2>9. new # 0 /\ new <= new
    BY <2>1
  <2> HIDE DEF new
  <2>10. FutureOK'
    BY <2>1, <2>4, <2>8 DEF LaunchOK, FutureOK, Unborn
  <2>11. LaunchingOK'
    <3>1. ASSUME NEW c \in Boards \ {b}, Launching(c)'
          PROVE  ops'[c].gen # 0 /\ Unlaunched(ops[c].gen)'
      BY <2>3, <2>4, <2>5, <2>7, <3>1 DEF LaunchOK, LaunchingOK, Launching, Unlaunched, Unborn
    <3>2. ops'[b].gen # 0 /\ Unlaunched(ops[b].gen)'
      BY <2>2, <2>3, <2>4, <2>5, <2>6, <2>9 DEF Unlaunched, Unborn, NewRuntime
    <3> QED BY <3>1, <3>2 DEF LaunchingOK
  <2>12. AloneOK'
    BY <2>2, <2>3, <2>7 DEF LaunchOK, AloneOK, Launching, Holding
  <2>13. HeldGenerationOK'
    BY <2>1, <2>2, <2>3, <2>4, <2>5, <2>7, <2>9 DEF LaunchOK, HeldGenerationOK, Relying, At, Alive
  <2>14. HooksOK'
    BY <2>4, <2>5, <2>6 DEF LaunchOK, HooksOK, Unborn
  <2> QED BY <2>10, <2>11, <2>12, <2>13, <2>14 DEF LaunchOK
<1>2. CASE ~(At(b, "force") \/ Expected(b))
  <2>1. "current" \in Position \ HoldingPositions
    BY DEF Position, HoldingPositions
  <2> QED BY <1>2, <2>1, RowsKept, BoardGoes DEF Mint
<1> QED BY <1>1, <1>2

(* What the board that launches a generation writes of it, nobody relies on.*)
LEMMA SaveKeepsLaunches ==
  ASSUME TypesOK, LaunchOK, NEW b \in Boards, SaveFingerprint(b) \/ CreateSession(b)
  PROVE  LaunchOK'
<1> USE DEF db, outside, memory
<1> DEFINE g == ops[b].gen
<1>1. Launching(b) /\ Holding(b)
  BY DEF SaveFingerprint, CreateSession, At, Launching, Holding, HoldingPositions
<1>2. g # 0 /\ g \in Generations /\ Unlaunched(g) /\ g <= generation
  BY <1>1, HeldGeneration DEF LaunchOK, LaunchingOK, HeldGenerationOK, TypesOK
<1>3. \A c \in Boards \ {b} : Holding(c) => ops[c].gen # g
  BY <1>1 DEF LaunchOK, AloneOK
<1>4. \A c \in Boards : (Launching(c) \/ Relying(ops[c]) \/ At(c, "mint")) => Holding(c)
  BY DEF Launching, Relying, At, Holding, HoldingPositions
<1>5. PICK at \in {"create", "bind"} :
        /\ Go(b, at) /\ (SaveFingerprint(b) => at = "create") /\ (CreateSession(b) => at = "bind")
  BY DEF SaveFingerprint, CreateSession, Go, At
<1>6. ops'[b].at = at /\ ops'[b].gen = g /\ \A c \in Boards \ {b} : ops'[c] = ops[c]
  BY <1>5 DEF Go, TypesOK, OpsOK, Op
<1>7. generation' = generation /\ conf' = conf
  BY DEF SaveFingerprint, CreateSession
<1>g. \A c \in Boards : ops[c].gen \in {0} \union Generations
  BY DEF TypesOK, OpsOK, Op
<1> HIDE DEF g
<1>8. AloneOK'
  BY <1>3, <1>4, <1>5, <1>6, <1>1 DEF LaunchOK, AloneOK, Launching, Holding
<1>9. CASE SaveFingerprint(b)
  <2>1. runtimes' = [runtimes EXCEPT ![g] = [NewRuntime EXCEPT !.fingerprint = conf[b]]]
        /\ pane' = pane /\ claude' = claude
    BY <1>9 DEF SaveFingerprint, g
  <2>2. /\ runtimes'[g].fingerprint = conf[b] /\ ~runtimes'[g].bound
        /\ \A h \in Generations \ {g} : runtimes'[h] = runtimes[h]
    BY <1>2, <2>1 DEF TypesOK, RowsOK, NewRuntime
  <2>3. FutureOK'
    BY <1>7, <2>1 DEF LaunchOK, FutureOK, Unborn
  <2>4. LaunchingOK'
    BY <1>2, <1>3, <1>4, <1>6, <1>g, <2>1, <2>2 DEF LaunchOK, LaunchingOK, Launching, Unlaunched, Unborn
  <2>5. HeldGenerationOK'
    BY <1>2, <1>3, <1>4, <1>5, <1>6, <1>7, <1>9, <1>g, <2>1, <2>2
    DEF LaunchOK, HeldGenerationOK, Relying, At, Alive
  <2>6. HooksOK'
    BY <1>2, <2>1, <2>2 DEF LaunchOK, HooksOK, Unlaunched, Unborn
  <2> QED BY <1>8, <2>3, <2>4, <2>5, <2>6 DEF LaunchOK
<1>10. CASE CreateSession(b)
  <2>1. runtimes' = runtimes /\ pane' = [pane EXCEPT ![g] = [NoPane EXCEPT !.at = "alive"]]
    BY <1>10 DEF CreateSession, g
  <2>2. PICK how \in {"boot", "dialog"} : claude' = [claude EXCEPT ![g].at = how]
    BY <1>10 DEF CreateSession, g
  <2>3. /\ ~claude'[g].hook
        /\ \A h \in Generations \ {g} : pane'[h] = pane[h] /\ claude'[h] = claude[h]
    BY <1>2, <2>1, <2>2 DEF TypesOK, RowsOK, Claude, Unlaunched, Unborn
  <2>4. FutureOK'
    <3>1. \A h \in Generations : h > generation => h # g
      BY <1>2, ManagerBounds DEF Generations, TypesOK, OpsOK
    <3> QED BY <1>7, <2>3, <3>1 DEF LaunchOK, FutureOK, Unborn
  <2>5. LaunchingOK'
    BY <1>3, <1>4, <1>5, <1>6, <1>10, <1>g, <2>1, <2>3 DEF LaunchOK, LaunchingOK, Launching, Unlaunched, Unborn
  <2>6. HeldGenerationOK'
    <3>1. Relying(ops[b])
      BY <1>10 DEF CreateSession, At, Relying
    <3>2. \A c \in Boards \ {b} : At(c, "mint") => ops[c].gen = 0 \/ ~Alive(ops[c].gen)'
      BY <1>3, <1>4, <1>6, <1>g, <2>3 DEF LaunchOK, HeldGenerationOK, Alive
    <3> QED BY <1>2, <1>5, <1>6, <1>7, <1>10, <2>1, <3>1, <3>2 DEF LaunchOK, HeldGenerationOK, Relying, At, g
  <2>7. HooksOK'
    BY <2>1, <2>3 DEF LaunchOK, HooksOK
  <2> QED BY <1>8, <2>4, <2>5, <2>6, <2>7 DEF LaunchOK
<1> QED BY <1>9, <1>10

LEMMA LaunchKeepsLaunches ==
  ASSUME TypesOK, LaunchOK, NEW b \in Boards, NewGeneration(b)
  PROVE  LaunchOK'
<1> USE DEF db, outside, memory
<1> DEFINE g == ops[b].gen
<1>o. ops[b] \in Op /\ HoldingPositions \subseteq Position
  BY DEF TypesOK, OpsOK, Position, HoldingPositions
<1>1. ASSUME NEW at \in {"record", "wait", "startup"}, Go(b, at), Undisturbed(b), Relying(ops[b])
      PROVE  LaunchOK'
  <2> DEFINE op == [ops[b] EXCEPT !.at = at]
  <2>1. at \in Position
    BY <1>o DEF HoldingPositions
  <2>2. op \in Op /\ op.at = at /\ op.gen = g
    BY <1>o, <2>1, OpMoves
  <2>3. ops' = [ops EXCEPT ![b] = op]
    BY <1>1 DEF Go, TypesOK, OpsOK
  <2> HIDE DEF op
  <2>4. Holding(b) /\ (Relying(op) => Relying(ops[b]))
    BY <1>1 DEF Relying, Holding, HoldingPositions
  <2> QED BY <1>1, <2>2, <2>3, <2>4, BoardStays
<1>2. CASE Mint(b) \/ SaveFingerprint(b) \/ CreateSession(b)
  BY <1>2, MintKeepsLaunches, SaveKeepsLaunches
<1>3. CASE BindTarget(b)
  <2> DEFINE row == Bound(runtimes[g])
  <2>1. Relying(ops[b]) /\ Holding(b)
    BY <1>3 DEF BindTarget, At, Relying, Holding, HoldingPositions
  <2>2. g \in Generations /\ g # 0 /\ ops[b].gen = g
    BY <2>1, HeldGeneration DEF LaunchOK, HeldGenerationOK, TypesOK
  <2>3. \A c \in Boards \ {b} : Launching(c) => ops[c].gen # g
    BY <2>1 DEF LaunchOK, AloneOK
  <2>4. row.fingerprint = runtimes[g].fingerprint
    BY <2>2 DEF TypesOK, RowsOK, Runtime, Bound
  <2>5. runtimes' = [runtimes EXCEPT ![g] = row] /\ pane' = pane /\ claude' = claude
        /\ generation' = generation /\ conf' = conf
    BY <1>3 DEF BindTarget
  <2> HIDE DEF row, g
  <2>6. /\ \A h \in Generations : runtimes'[h].fingerprint = runtimes[h].fingerprint
        /\ \A h \in Generations \ {g} : runtimes'[h] = runtimes[h]
    BY <2>2, <2>4, <2>5 DEF TypesOK, RowsOK
  <2>7. \A h \in Generations, c \in Boards \ {b} : Launching(c) /\ ops[c].gen = h => Unlaunched(h)'
    <3> SUFFICES ASSUME NEW h \in Generations, NEW c \in Boards \ {b}, Launching(c), ops[c].gen = h
                 PROVE  Unlaunched(h)'
      OBVIOUS
    <3>1. h # g /\ Unlaunched(h)
      BY <2>3 DEF LaunchOK, LaunchingOK
    <3> QED BY <2>5, <2>6, <3>1 DEF Unlaunched, Unborn
  <2>8. \A h \in Generations : Alive(h)' => Alive(h)
    BY <2>5 DEF Alive
  <2>9. \A h \in Generations : h > generation => Unborn(h)'
    BY <2>5 DEF LaunchOK, FutureOK, Unborn
  <2>10. \A h \in Generations : claude'[h].hook => claude'[h].seen.fingerprint = runtimes'[h].fingerprint
    BY <2>5, <2>6 DEF LaunchOK, HooksOK
  <2>11. Undisturbed(b)
    BY <2>5, <2>6, <2>7, <2>8, <2>9, <2>10 DEF Undisturbed
  <2> QED BY <1>1, <1>3, <2>1, <2>11 DEF BindTarget
<1>4. CASE RecordLaunch(b)
  <2>1. Relying(ops[b])
    BY <1>4 DEF RecordLaunch, At, Relying
  <2> QED BY <1>1, <1>4, <2>1, RecordKept DEF RecordLaunch
<1>5. CASE SeeReady(b)
  <2>1. Relying(ops[b])
    BY <1>5 DEF SeeReady, At, Relying
  <2>2. ops' = [ops EXCEPT ![b] = Continue(ops[b])]
    BY <1>5 DEF SeeReady
  <2> QED BY <1>5, <2>1, <2>2, RowsKept, HandingKeepsLaunches DEF SeeReady
<1>6. CASE StartupTimesOut(b)
  <2>1. Relying(ops[b])
    BY <1>6 DEF StartupTimesOut, At, Relying
  <2> QED BY <1>1, <1>6, <2>1, RowsKept DEF StartupTimesOut
<1>7. CASE StartupObserved(b)
  <2>1. Relying(ops[b])
    BY <1>7 DEF StartupObserved, At, Relying
  <2>2. ops' = [ops EXCEPT ![b] = Continue(ops[b])] \/ End(b)
    BY <1>7 DEF StartupObserved
  <2>3. Undisturbed(b)
    BY <1>7, RecordKept DEF StartupObserved
  <2> QED BY <2>1, <2>2, <2>3, HandingKeepsLaunches, EndKeepsLaunches
<1> QED BY <1>2, <1>3, <1>4, <1>5, <1>6, <1>7 DEF NewGeneration

LEMMA DeliveryKeepsLaunches ==
  ASSUME TypesOK, LaunchOK, NEW b \in Boards, Deliver(b) \/ Await(b)
  PROVE  LaunchOK'
<1> USE DEF db, outside, memory
<1>p. {"revoke", "paste"} \subseteq Position \ HoldingPositions
  BY DEF Position, HoldingPositions
<1>1. CASE RotateAtLimit(b) \/ Decline(b)
  BY <1>1, <1>p, RowsKept, BoardGoes, EndKeepsLaunches DEF RotateAtLimit, Decline
<1>2. CASE Reserve(b)
  <2>1. End(b) \/ Go(b, "paste")
    BY <1>2 DEF Reserve, Go
  <2>2. Undisturbed(b)
    BY <1>2, SetKept DEF Reserve
  <2> QED BY <1>p, <2>1, <2>2, BoardGoes, EndKeepsLaunches
<1>3. CASE Paste(b)
  <2>1. \/ claude' = claude
        \/ claude' = [claude EXCEPT ![ops[b].gen].at = IF @ = "idle" THEN "prompted" ELSE @]
    BY <1>3 DEF Paste
  <2>2. \A g \in Generations : /\ claude'[g].hook = claude[g].hook /\ claude'[g].seen = claude[g].seen
                               /\ claude[g].at = "off" => claude'[g].at = "off"
    BY <2>1 DEF TypesOK, RowsOK, Claude
  <2>3. Undisturbed(b)
    BY <1>3, <2>2, Keeps DEF Paste
  <2> QED BY <1>3, <2>3, EndKeepsLaunches DEF Paste
<1>4. CASE Collect(b)
  <2> DEFINE g == turns[waiting[b]].generation
             row == [runtimes[g] EXCEPT !.state = "ready"]
  <2>1. runtimes' = runtimes \/ runtimes' = [runtimes EXCEPT ![g] = row]
    BY <1>4 DEF Collect, Acknowledged
  <2>2. g \in Generations => row.fingerprint = runtimes[g].fingerprint /\ row.bound = runtimes[g].bound
    <3> HIDE DEF g
    <3> QED BY DEF TypesOK, RowsOK, Runtime
  <2> HIDE DEF g, row
  <2>3. Undisturbed(0)
    BY <1>4, <2>1, <2>2, RowKept, RowsKept DEF Collect
  <2> QED BY <1>4, <2>3, BoardsStand DEF Collect
<1>5. CASE GiveUp(b)
  BY <1>5, RowsKept, BoardsStand DEF GiveUp
<1> QED BY <1>1, <1>2, <1>3, <1>4, <1>5 DEF Deliver, Await

LEMMA HoldKeepsLaunches ==
  ASSUME TypesOK, LaunchOK, NEW b \in Boards, Hold(b)
  PROVE  LaunchOK'
<1> USE DEF db, outside, memory
<1>p. {"claimed", "inside", "leave", "released"} \subseteq Position \ HoldingPositions
  BY DEF Position, HoldingPositions
<1>1. CASE Claim(b) \/ Release(b)
  <2>1. End(b) \/ Go(b, "claimed") \/ Go(b, "released")
    BY <1>1 DEF Claim, Release
  <2>2. \/ pane' = pane
        \/ \E owner \in Owner : pane' = [pane EXCEPT ![ops[b].gen].owner = owner]
    BY <1>1 DEF Claim, Release, Owner
  <2>3. \A g \in Generations : pane'[g].at = pane[g].at
    <3>1. ASSUME NEW owner \in Owner, pane' = [pane EXCEPT ![ops[b].gen].owner = owner], NEW g \in Generations
          PROVE  pane'[g].at = pane[g].at
      BY <3>1 DEF TypesOK, RowsOK, Pane
    <3> QED BY <2>2, <3>1
  <2>4. Undisturbed(b)
    BY <1>1, <2>3, Keeps DEF Claim, Release
  <2> QED BY <1>p, <2>1, <2>4, BoardGoes, EndKeepsLaunches
<1>2. CASE Claimed(b)
  <2>1. End(b) \/ Go(b, "inside") \/ Go(b, "leave")
    BY <1>2 DEF Claimed
  <2>2. Undisturbed(b)
    BY <1>2, SetKept DEF Claimed
  <2> QED BY <1>p, <2>1, <2>2, BoardGoes, EndKeepsLaunches
<1>3. CASE Leave(b)
  <2>1. Undisturbed(b)
    BY <1>3, RowsKept DEF Leave
  <2>2. CASE ops' = [ops EXCEPT ![b] = [@ EXCEPT !.at = "leave", !.gen = generation]]
    <3> DEFINE op == [ops[b] EXCEPT !.at = "leave", !.gen = generation]
    <3>1. ops[b] \in Op /\ generation \in {0} \union Generations /\ "leave" \in Position \ HoldingPositions
          /\ generation <= generation
      BY <1>p, Generation0, ManagerBounds DEF TypesOK, OpsOK
    <3>2. op \in Op /\ op.at = "leave" /\ op.gen = generation
      BY <3>1 DEF Op
    <3>3. ops' = [ops EXCEPT ![b] = op]
      BY <2>2 DEF TypesOK, OpsOK
    <3> HIDE DEF op
    <3> QED BY <2>1, <3>1, <3>2, <3>3, BoardLeaves
  <2> QED BY <1>3, <2>1, <2>2, EndKeepsLaunches DEF Leave
<1>4. CASE Released(b)
  <2> DEFINE g == ops[b].gen
             state == IF Finished(g) THEN "ready" ELSE runtimes[g].state
             row == [runtimes[g] EXCEPT !.owner = "manager", !.state = state]
  <2>1. runtimes' = [runtimes EXCEPT ![g] = row]
    BY <1>4 DEF Released, TypesOK, RowsOK
  <2>2. g \in Generations => row.fingerprint = runtimes[g].fingerprint /\ row.bound = runtimes[g].bound
    <3> HIDE DEF g, state
    <3> QED BY DEF TypesOK, RowsOK, Runtime
  <2> HIDE DEF g, row
  <2>3. Undisturbed(b)
    BY <1>4, <2>1, <2>2, RowKept DEF Released
  <2> QED BY <1>4, <2>3, EndKeepsLaunches DEF Released
<1> QED BY <1>1, <1>2, <1>3, <1>4 DEF Hold

----------------------------------------------------------------------------
(* Claude, its hooks and the bridge *)

(* What happens to a generation that has been launched. *)
LEMMA OneStirs ==
  ASSUME TypesOK, LaunchOK, NEW g \in Generations, ~Unborn(g),
         generation' = generation, conf' = conf,
         \A h \in Generations \ {g} : runtimes'[h] = runtimes[h] /\ pane'[h] = pane[h] /\ claude'[h] = claude[h],
         runtimes'[g].fingerprint = runtimes[g].fingerprint, Alive(g)' => Alive(g),
         claude'[g].hook => claude'[g].seen.fingerprint = runtimes'[g].fingerprint
  PROVE  Undisturbed(0)
<1>1. \A h \in Generations : Unborn(h) => Unborn(h)' /\ h # g
  BY DEF Unborn
<1>2. \A h \in Generations : Unlaunched(h) => Unlaunched(h)'
  BY <1>1 DEF Unlaunched
<1>3. \A h \in Generations, c \in Boards : Launching(c) /\ ops[c].gen = h => Unlaunched(h)'
  BY <1>2 DEF LaunchOK, LaunchingOK
<1>4. \A h \in Generations : h > generation => Unborn(h)'
  BY <1>1 DEF LaunchOK, FutureOK
<1>5. \A h \in Generations : runtimes'[h].fingerprint = runtimes[h].fingerprint
  OBVIOUS
<1>6. \A h \in Generations : Alive(h)' => Alive(h)
  BY DEF Alive
<1>7. \A h \in Generations : claude'[h].hook => claude'[h].seen.fingerprint = runtimes'[h].fingerprint
  BY DEF LaunchOK, HooksOK
<1> QED BY <1>3, <1>4, <1>5, <1>6, <1>7 DEF Undisturbed

LEMMA ClaudeKeepsLaunches ==
  ASSUME TypesOK, LaunchOK, NEW g \in Generations, AnswerDialog(g) \/ Exit(g) \/ Hook(g) \/ CallTool(g)
  PROVE  LaunchOK'
<1> USE DEF db, outside, memory
<1>o. claude[g] \in Claude /\ claude[g].seen \in Runtime
  BY DEF TypesOK, RowsOK, Claude
<1>1. CASE AnswerDialog(g)
  <2>1. claude[g].at = "dialog" /\ ~Unborn(g)
    BY <1>1 DEF AnswerDialog, Unborn
  <2>2. claude'[g].hook = claude[g].hook /\ claude'[g].seen = claude[g].seen
        /\ \A h \in Generations \ {g} : claude'[h] = claude[h]
    BY <1>o, <1>1 DEF AnswerDialog, TypesOK, RowsOK, Claude
  <2>3. Undisturbed(0)
    BY <1>1, <2>1, <2>2, OneStirs DEF AnswerDialog, LaunchOK, HooksOK, Alive
  <2> QED BY <1>1, <2>3, BoardsStand DEF AnswerDialog
<1>2. CASE Exit(g)
  <2>1. pane[g].at = "alive" /\ ~Unborn(g)
    BY <1>2 DEF Exit, Unborn
  <2>2. ~claude'[g].hook
        /\ \A h \in Generations \ {g} : claude'[h] = claude[h] /\ pane'[h] = pane[h]
    BY <1>2 DEF Exit, TypesOK, RowsOK, Claudeless
  <2>3. Alive(g)
    BY <2>1 DEF Alive
  <2>4. Undisturbed(0)
    BY <1>2, <2>1, <2>2, <2>3, OneStirs DEF Exit
  <2> QED BY <1>2, <2>4, BoardsStand DEF Exit
<1>3. CASE HookReads(g)
  <2>1. ~Unborn(g)
    BY <1>3 DEF HookReads, Unborn
  <2>2. claude'[g].seen = runtimes[g] /\ \A h \in Generations \ {g} : claude'[h] = claude[h]
    BY <1>o, <1>3 DEF HookReads, TypesOK, RowsOK, Claude
  <2>3. Undisturbed(0)
    BY <1>3, <2>1, <2>2, OneStirs DEF HookReads, Alive
  <2> QED BY <1>3, <2>3, BoardsStand DEF HookReads
<1>4. CASE SessionStart(g) \/ UserPromptSubmit(g) \/ Stop(g)
  <2>1. ~Unborn(g) /\ claude[g].hook
    BY <1>4 DEF SessionStart, UserPromptSubmit, Stop, Unborn
  <2>2. PICK at \in {"idle", "work"} : claude' = [claude EXCEPT ![g] = [Claudeless EXCEPT !.at = at]]
    BY <1>4 DEF SessionStart, UserPromptSubmit, Stop
  <2>3. PICK state \in {"ready", "turn_active", "turn_complete"} :
          runtimes' = [runtimes EXCEPT ![g] = [claude[g].seen EXCEPT !.state = state]]
    BY <1>4 DEF SessionStart, UserPromptSubmit, Stop
  <2>4. ~claude'[g].hook /\ \A h \in Generations \ {g} : claude'[h] = claude[h]
    BY <2>2 DEF TypesOK, RowsOK, Claudeless
  <2>5. /\ runtimes'[g].fingerprint = claude[g].seen.fingerprint
        /\ \A h \in Generations \ {g} : runtimes'[h] = runtimes[h]
    BY <1>o, <2>3 DEF TypesOK, RowsOK, Runtime
  <2>6. claude[g].seen.fingerprint = runtimes[g].fingerprint
    BY <2>1 DEF LaunchOK, HooksOK
  <2>7. ops' = ops /\ pane' = pane /\ generation' = generation /\ conf' = conf
    BY <1>4 DEF SessionStart, UserPromptSubmit, Stop
  <2>8. Undisturbed(0)
    BY <2>1, <2>4, <2>5, <2>6, <2>7, OneStirs DEF Alive
  <2> QED BY <2>7, <2>8, BoardsStand
<1>5. CASE CallTool(g)
  BY <1>5, RowsKept, BoardsStand DEF CallTool
<1> QED BY <1>1, <1>2, <1>3, <1>4, <1>5 DEF Hook

LEMMA LaunchStep ==
  ASSUME TypesOK, LaunchOK, [Next]_vars
  PROVE  LaunchOK'
<1>1. ASSUME NEW c \in Calls, Exchange(c)
      PROVE  LaunchOK'
  BY <1>1, RowsKept, BoardsStand
  DEF Exchange, Reuse, Connect, Unreachable, Write, WriteFails, Serve, Reply, LoseReply, db, outside, memory
<1>2. CASE UNCHANGED vars
  BY <1>2, RowsKept, BoardsStand DEF vars, db, outside, memory
<1>3. ASSUME NEW b \in Boards, Progress(b) \/ Await(b)
      PROVE  LaunchOK'
  BY <1>3, RecoveryKeepsLaunches, RotationKeepsLaunches, LaunchKeepsLaunches, DeliveryKeepsLaunches,
     HoldKeepsLaunches DEF Progress
<1> QED BY <1>1, <1>2, <1>3, StartsKeepLaunches, BeginningsKeepLaunches, ClaudeKeepsLaunches DEF Next

LEMMA LaunchInitial == Init => LaunchOK
<1> SUFFICES ASSUME Init
             PROVE  LaunchOK
  OBVIOUS
<1>1. \A b \in Boards : ops[b].at = "down" /\ ops[b].gen = 0
  BY DEF Init, Resting
<1>2. \A g \in Generations : Unborn(g) /\ ~claude[g].hook
  BY DEF Init, Unborn, NoPane, Claudeless
<1>3. 0 <= generation
  BY DEF Init
<1> QED BY <1>1, <1>2, <1>3 DEF LaunchOK, FutureOK, LaunchingOK, Launching, AloneOK, HeldGenerationOK,
                                At, Relying, HooksOK

LEMMA Invariant ==
  Spec => [](CallsOK /\ OpsOK /\ ConsentOK /\ RowsOK /\ HeldOK /\ LaunchOK)
<1> DEFINE Inv == CallsOK /\ OpsOK /\ ConsentOK /\ RowsOK /\ HeldOK /\ LaunchOK
<1>1. Init => Inv
  BY CallsInitial, ConsentInitial, InitialTypes, LaunchInitial
<1>2. Inv /\ [Next]_vars => Inv'
  BY CallsStep, OpsStep, ConsentStep, RowsStep, HeldStep, LaunchStep DEF TypesOK
<1> QED BY <1>1, <1>2, PTL DEF Spec

----------------------------------------------------------------------------
(* What boards do to each other's launches *)

(* A turn is added where a board is about to send, to the generation it     *)
(* holds there.                                                             *)
LEMMA SentByReserve ==
  ASSUME ConsentOK, [Next]_vars, NEW t \in Turns, turns[t].status = "none", turns'[t].status = "pending"
  PROVE  \E b \in Boards : At(b, "send") /\ turns'[t].generation = ops[b].gen
<1>1. turns' # turns
  OBVIOUS
<1>2. ASSUME NEW b \in Boards, StartBoard(b) \/ Crash(b) \/ Handle(b) \/ FreshManager(b) \/ Enter(b)
      PROVE  FALSE
  BY <1>1, <1>2 DEF StartBoard, Crash, Handle, FreshManager, Enter, db
<1>3. ASSUME NEW b \in Boards, StartOrRecover(b) \/ Rotate(b) \/ NewGeneration(b)
      PROVE  FALSE
  BY <1>1, <1>3 DEF StartOrRecover, FindNone, FindUnbound, FindBound, Observe, Rotate, Revoke, Terminate,
                    Terminated, NewGeneration, Mint, SaveFingerprint, CreateSession, BindTarget,
                    RecordLaunch, SeeReady, StartupTimesOut, StartupObserved, db
<1>4. ASSUME NEW b \in Boards, RotateAtLimit(b) \/ Decline(b) \/ Hold(b) \/ Await(b)
      PROVE  FALSE
  BY <1>1, <1>4 DEF RotateAtLimit, Decline, Hold, Claim, Claimed, Leave, Release, Released, Await,
                    Collect, GiveUp, db
<1>5. ASSUME NEW g \in Generations, AnswerDialog(g) \/ Exit(g) \/ Hook(g) \/ CallTool(g)
      PROVE  FALSE
  <2>1. turns[t].status # "none" \/ t \notin OpenTurns(g)
    BY DEF OpenTurns
  <2> QED BY <1>1, <1>5, <2>1 DEF AnswerDialog, Exit, Hook, HookReads, SessionStart, UserPromptSubmit,
                                  Stop, CallTool, OpenTurns, db
<1>6. ASSUME NEW c \in Calls, Exchange(c)
      PROVE  FALSE
  BY <1>1, <1>6 DEF Exchange, Reuse, Connect, Unreachable, Write, WriteFails, Serve, Reply, LoseReply, db
<1>7. ASSUME NEW b \in Boards, Paste(b)
      PROVE  FALSE
  <2>1. turns' = [turns EXCEPT ![MyTurn(ops[b].gen)].status = "failed"]
    BY <1>1, <1>7 DEF Paste
  <2> QED BY <2>1 DEF ConsentOK, Turn
<1>8. ASSUME NEW b \in Boards, Reserve(b)
      PROVE  At(b, "send") /\ turns'[t].generation = ops[b].gen
  <2>1. PICK spoken \in BOOLEAN : turns' = [turns EXCEPT ![sent + 1] =
          [generation |-> ops[b].gen, consent |-> spoken, status |-> "pending"]]
    BY <1>1, <1>8 DEF Reserve
  <2>2. t = sent + 1
    BY <2>1 DEF ConsentOK
  <2> QED BY <1>8, <2>1, <2>2 DEF Reserve, ConsentOK
<1> QED BY <1>1, <1>2, <1>3, <1>4, <1>5, <1>6, <1>7, <1>8 DEF Next, Progress, Deliver, vars, db

(***************************************************************************)
(* A board sends messages only to a process that was launched the way it   *)
(* would launch one itself, whichever boards launched, adopted or rotated  *)
(* it meanwhile (start_or_recover, _launch_and_bind and their fingerprint).*)
(***************************************************************************)
THEOREM SentToItsLikes == Spec => AdoptedIsExact
<1> DEFINE Inv == CallsOK /\ OpsOK /\ ConsentOK /\ RowsOK /\ HeldOK /\ LaunchOK
<1>1. Spec => []Inv
  BY Invariant
<1>2. ASSUME Inv, [Next]_vars
      PROVE  [\A t \in Turns : turns[t].status = "none" /\ turns'[t].status = "pending"
                => \E b \in Boards : At(b, "send") /\ runtimes[turns'[t].generation].fingerprint = conf[b]]_vars
  <2>1. SUFFICES ASSUME NEW t \in Turns, turns[t].status = "none", turns'[t].status = "pending"
                 PROVE  \E b \in Boards : At(b, "send") /\ runtimes[turns'[t].generation].fingerprint = conf[b]
    OBVIOUS
  <2>2. PICK b \in Boards : At(b, "send") /\ turns'[t].generation = ops[b].gen
    BY <1>2, <2>1, SentByReserve
  <2>3. runtimes[ops[b].gen].fingerprint = conf[b]
    BY <1>2, <2>2 DEF LaunchOK, HeldGenerationOK, Relying, At
  <2> QED BY <2>2, <2>3
<1>3. Inv /\ [Next]_vars =>
        [\A t \in Turns : turns[t].status = "none" /\ turns'[t].status = "pending"
                => \E b \in Boards : At(b, "send") /\ runtimes[turns'[t].generation].fingerprint = conf[b]]_vars
  BY <1>2
<1> QED BY <1>1, <1>3, PTL DEF Spec, AdoptedIsExact

LEMMA OnlyMinted ==
  ASSUME [Next]_vars, generation' # generation
  PROVE  \E b \in Boards : Mint(b)
<1>1. ASSUME NEW b \in Boards, StartBoard(b) \/ Crash(b) \/ Handle(b) \/ FreshManager(b) \/ Enter(b)
      PROVE  FALSE
  BY <1>1 DEF StartBoard, Crash, Handle, FreshManager, Enter, db
<1>2. ASSUME NEW b \in Boards, StartOrRecover(b) \/ Rotate(b)
      PROVE  FALSE
  BY <1>2 DEF StartOrRecover, FindNone, FindUnbound, FindBound, Observe, Rotate, Revoke, Terminate,
              Terminated, db
<1>3. ASSUME NEW b \in Boards, NewGeneration(b), ~Mint(b)
      PROVE  FALSE
  BY <1>3 DEF NewGeneration, SaveFingerprint, CreateSession, BindTarget, RecordLaunch, SeeReady,
              StartupTimesOut, StartupObserved, db
<1>4. ASSUME NEW b \in Boards, Deliver(b) \/ Hold(b) \/ Await(b)
      PROVE  FALSE
  BY <1>4 DEF Deliver, RotateAtLimit, Decline, Reserve, Paste, Hold, Claim, Claimed, Leave, Release,
              Released, Await, Collect, GiveUp, db
<1>5. ASSUME NEW g \in Generations, AnswerDialog(g) \/ Exit(g) \/ Hook(g) \/ CallTool(g)
      PROVE  FALSE
  BY <1>5 DEF AnswerDialog, Exit, Hook, HookReads, SessionStart, UserPromptSubmit, Stop, CallTool, db
<1>6. ASSUME NEW c \in Calls, Exchange(c)
      PROVE  FALSE
  BY <1>6 DEF Exchange, Reuse, Connect, Unreachable, Write, WriteFails, Serve, Reply, LoseReply, db
<1> QED BY <1>1, <1>2, <1>3, <1>4, <1>5, <1>6 DEF Next, Progress, vars, db

(***************************************************************************)
(* Two boards that find the Manager lost mint one successor: recovery      *)
(* replaces a generation only when its process is gone (_new_generation    *)
(* with expected_current_id).                                              *)
(***************************************************************************)
THEOREM OneSuccessor == Spec => OnlyLostIsReplaced
<1> DEFINE Inv == CallsOK /\ OpsOK /\ ConsentOK /\ RowsOK /\ HeldOK /\ LaunchOK
<1>1. Spec => []Inv
  BY Invariant
<1>2. ASSUME Inv, [Next]_vars, generation' > generation, generation > 0
      PROVE  (\E b \in Boards : At(b, "force")) \/ ~Alive(generation)
  <2>1. PICK b \in Boards : Mint(b)
    <3>1. generation' # generation
      BY <1>2 DEF OpsOK
    <3> QED BY <3>1, <1>2, OnlyMinted
  <2>2. CASE At(b, "force")
    BY <2>2
  <2>3. CASE ~At(b, "force")
    <3>1. At(b, "mint") /\ ops[b].gen = generation
      BY <1>2, <2>1, <2>3 DEF Mint, Expected, OpsOK
    <3> QED BY <1>2, <3>1 DEF LaunchOK, HeldGenerationOK, OpsOK
  <2> QED BY <2>2, <2>3
<1>3. Inv /\ [Next]_vars =>
        [generation' > generation /\ generation > 0
           => (\E b \in Boards : At(b, "force")) \/ ~Alive(generation)]_vars
  BY <1>2
<1> QED BY <1>1, <1>3, PTL DEF Spec, OnlyLostIsReplaced

LEMMA ReadyStays ==
  ASSUME TypesOK, LaunchOK, [Next]_vars, NEW g \in Generations,
         runtimes[g].state = "ready", pane[g].at = "alive"
  PROVE  runtimes'[g].state \notin {"absent", "starting"}
<1> USE DEF db
<1>o. runtimes \in [Generations -> Runtime] /\ runtimes[g] \in Runtime
  BY DEF TypesOK, RowsOK
<1>1. ASSUME runtimes' = runtimes
      PROVE  runtimes'[g].state \notin {"absent", "starting"}
  BY <1>1
<1>2. ASSUME NEW h, NEW row, runtimes' = [runtimes EXCEPT ![h] = row],
             h = g => row.state \notin {"absent", "starting"}
      PROVE  runtimes'[g].state \notin {"absent", "starting"}
  BY <1>o, <1>2
<1>3. ASSUME NEW b \in Boards, StartOrRecover(b) \/ NewGeneration(b)
      PROVE  runtimes'[g].state \notin {"absent", "starting"}
  <2>1. CASE FindNone(b) \/ FindUnbound(b) \/ FindBound(b) \/ CreateSession(b) \/ SeeReady(b) \/ StartupTimesOut(b)
    BY <1>1, <2>1 DEF FindNone, FindUnbound, FindBound, CreateSession, SeeReady, StartupTimesOut
  <2>2. CASE Observe(b) \/ RecordLaunch(b) \/ StartupObserved(b)
    <3>1. Recorded(g).state \notin {"absent", "starting"}
      BY <1>o DEF Recorded, Alive, Runtime
    <3> QED BY <1>2, <2>2, <3>1 DEF Observe, RecordLaunch, StartupObserved
  <2>3. CASE Mint(b)
    <3>1. generation \in Nat /\ (generation + 1 = g => Unborn(g))
      BY ManagerBounds DEF LaunchOK, FutureOK, TypesOK, OpsOK, Generations
    <3> QED BY <1>1, <1>2, <2>3, <3>1 DEF Mint, Unborn
  <2>4. CASE SaveFingerprint(b)
    <3>1. Unlaunched(ops[b].gen)
      BY <2>4 DEF SaveFingerprint, At, LaunchOK, LaunchingOK, Launching
    <3> QED BY <1>2, <2>4, <3>1 DEF SaveFingerprint, Unlaunched, Unborn
  <2>5. CASE BindTarget(b)
    <3>1. Bound(runtimes[g]).state = "ready"
      BY <1>o DEF Bound, Runtime
    <3>2. runtimes' = [runtimes EXCEPT ![ops[b].gen] = Bound(runtimes[ops[b].gen])]
      BY <2>5 DEF BindTarget
    <3> QED BY <1>2, <3>1, <3>2
  <2> QED BY <1>3, <2>1, <2>2, <2>3, <2>4, <2>5 DEF StartOrRecover, NewGeneration
<1>4. ASSUME NEW b \in Boards, Rotate(b) \/ Deliver(b) \/ Await(b)
      PROVE  runtimes'[g].state \notin {"absent", "starting"}
  <2>1. CASE Terminate(b) \/ RotateAtLimit(b) \/ Decline(b) \/ Paste(b) \/ GiveUp(b)
    BY <1>1, <2>1 DEF Terminate, RotateAtLimit, Decline, Paste, GiveUp
  <2>2. CASE Terminated(b) \/ Reserve(b)
    BY <1>o, <2>2 DEF Terminated, Reserve, Set, Runtime
  <2>3. CASE Revoke(b)
    BY <1>o, <2>3 DEF Revoke, Runtime
  <2>4. CASE Collect(b)
    <3> DEFINE h == turns[waiting[b]].generation
    <3>1. runtimes' = runtimes \/ runtimes' = [runtimes EXCEPT ![h].state = "ready"]
      BY <2>4 DEF Collect, Acknowledged
    <3> HIDE DEF h
    <3> QED BY <1>o, <1>1, <3>1 DEF Runtime
  <2> QED BY <1>4, <2>1, <2>2, <2>3, <2>4 DEF Rotate, Deliver, Await
<1>5. ASSUME NEW b \in Boards, Hold(b)
      PROVE  runtimes'[g].state \notin {"absent", "starting"}
  <2>1. CASE Claim(b) \/ Leave(b) \/ Release(b)
    BY <1>1, <2>1 DEF Claim, Leave, Release
  <2>2. CASE Claimed(b)
    BY <1>o, <2>2 DEF Claimed, Set, Runtime
  <2>3. CASE Released(b)
    <3> DEFINE h == ops[b].gen
               state == IF Finished(h) THEN "ready" ELSE runtimes[h].state
               row == [runtimes[h] EXCEPT !.owner = "manager", !.state = state]
    <3>1. runtimes' = [runtimes EXCEPT ![h] = row]
      BY <2>3, <1>o DEF Released
    <3>2. h = g => state = "ready"
      OBVIOUS
    <3>3. h = g => row.state = "ready"
      <4> HIDE DEF h, state
      <4> QED BY <1>o, <3>2 DEF Runtime
    <3> HIDE DEF h, row
    <3> QED BY <1>2, <3>1, <3>3
  <2> QED BY <1>5, <2>1, <2>2, <2>3 DEF Hold
<1>6. ASSUME NEW h \in Generations, AnswerDialog(h) \/ Exit(h) \/ Hook(h) \/ CallTool(h)
      PROVE  runtimes'[g].state \notin {"absent", "starting"}
  <2>1. CASE AnswerDialog(h) \/ Exit(h) \/ HookReads(h) \/ CallTool(h)
    BY <1>1, <2>1 DEF AnswerDialog, Exit, HookReads, CallTool
  <2>2. CASE SessionStart(h) \/ UserPromptSubmit(h) \/ Stop(h)
    <3>1. claude[h].seen \in Runtime
      BY DEF TypesOK, RowsOK, Claude
    <3>2. PICK state \in {"ready", "turn_active", "turn_complete"} :
            runtimes' = [runtimes EXCEPT ![h] = [claude[h].seen EXCEPT !.state = state]]
      BY <2>2 DEF SessionStart, UserPromptSubmit, Stop
    <3> QED BY <1>o, <3>1, <3>2 DEF Runtime
  <2> QED BY <1>6, <2>1, <2>2 DEF Hook
<1>7. ASSUME NEW b \in Boards, StartBoard(b) \/ Crash(b) \/ Handle(b) \/ FreshManager(b) \/ Enter(b)
      PROVE  runtimes'[g].state \notin {"absent", "starting"}
  BY <1>1, <1>7 DEF StartBoard, Crash, Handle, FreshManager, Enter
<1>8. ASSUME NEW c \in Calls, Exchange(c)
      PROVE  runtimes'[g].state \notin {"absent", "starting"}
  BY <1>1, <1>8 DEF Exchange, Reuse, Connect, Unreachable, Write, WriteFails, Serve, Reply, LoseReply
<1> QED BY <1>1, <1>3, <1>4, <1>5, <1>6, <1>7, <1>8 DEF Next, Progress, vars

(***************************************************************************)
(* No write of a board or a hook takes the SessionStart of a live process  *)
(* back: it will not come again (_bind_target and _record read the row     *)
(* afresh; nobody else writes the rows of a launch).                       *)
(***************************************************************************)
THEOREM StartKept == Spec => StartIsKept
<1> DEFINE Inv == CallsOK /\ OpsOK /\ ConsentOK /\ RowsOK /\ HeldOK /\ LaunchOK
<1>1. Spec => []Inv
  BY Invariant
<1>2. Inv /\ [Next]_vars =>
        [\A g \in Generations : runtimes[g].state = "ready" /\ pane[g].at = "alive"
           => runtimes'[g].state \notin {"absent", "starting"}]_vars
  BY ReadyStays DEF TypesOK
<1> QED BY <1>1, <1>2, PTL DEF Spec, StartIsKept

----------------------------------------------------------------------------
(* One board: what was replaced is gone *)


(* Where the board that launches or ends a process holds the generation of *)
(* it, which is the current one as long as no other board can mint.        *)
CurrentPositions == {"fingerprint", "create", "bind", "terminate", "terminated"}
CurrentIsHeld == \A b \in Boards : ops[b].at \in CurrentPositions => ops[b].gen = generation /\ generation # 0
(* Whatever minted next finds the current one ended, or without a target.  *)
Ended(g) == g = 0 \/ ~Alive(g) \/ ~runtimes[g].bound
EndedFirst ==
  \A b \in Boards : /\ At(b, "force") => Ended(generation)
                    /\ At(b, "terminated") => ~Alive(generation)
(* A hook's copy has no target the row has lost.                           *)
TargetsSeen == \A g \in Generations : claude[g].hook /\ claude[g].seen.bound => runtimes[g].bound

SoloOK == CurrentIsHeld /\ EndedFirst /\ TargetsSeen /\ OneLiveManager

(* The step brings up no process and saves no target. *)
Calm ==
  /\ generation' = generation
  /\ \A g \in Generations : /\ Alive(g)' => Alive(g)
                            /\ runtimes'[g].bound => runtimes[g].bound
                            /\ claude'[g].hook /\ claude'[g].seen.bound => runtimes'[g].bound

LEMMA CalmKeeps ==
  ASSUME SoloOK, TypesOK, Calm
  PROVE  /\ TargetsSeen' /\ OneLiveManager'
         /\ Ended(generation) => Ended(generation)'
         /\ generation # 0 /\ ~Alive(generation) => ~Alive(generation)'
<1>1. generation # 0 => generation \in Generations
  BY Generation0 DEF TypesOK
<1>2. TargetsSeen' /\ OneLiveManager'
  BY DEF Calm, SoloOK, TargetsSeen, OneLiveManager
<1>3. PICK g : g = generation
  OBVIOUS
<1>4. g # 0 => (Alive(g)' => Alive(g)) /\ (runtimes'[g].bound => runtimes[g].bound) /\ generation' = g
  BY <1>1, <1>3 DEF Calm
<1>5. Ended(g) => Ended(g)'
  BY <1>4 DEF Ended
<1>6. generation' = g
  BY <1>3 DEF Calm
<1> QED BY <1>2, <1>3, <1>4, <1>5, <1>6 DEF Ended, Alive

(* The board goes on. *)
LEMMA SoloMoves ==
  ASSUME SoloOK, TypesOK, Calm, Boards = {1}, NEW b \in Boards, NEW op, ops' = [ops EXCEPT ![b] = op],
         op.at \in CurrentPositions => op.gen = generation /\ generation # 0,
         op.at = "force" => Ended(generation),
         op.at = "terminated" => ~Alive(generation)'
  PROVE  SoloOK'
<1>1. ops'[b] = op /\ \A c \in Boards : c = b
  BY DEF TypesOK, OpsOK
<1>2. generation' = generation
  BY DEF Calm
<1>3. CurrentIsHeld'
  BY <1>1, <1>2 DEF CurrentIsHeld
<1>4. EndedFirst'
  BY <1>1, <1>2, CalmKeeps DEF EndedFirst, At, Alive
<1> QED BY <1>3, <1>4, CalmKeeps DEF SoloOK

LEMMA SoloStands ==
  ASSUME SoloOK, TypesOK, Calm, ops' = ops
  PROVE  SoloOK'
<1>1. generation' = generation
  BY DEF Calm
<1>2. CurrentIsHeld'
  BY <1>1 DEF SoloOK, CurrentIsHeld
<1>3. \A b \in Boards : At(b, "terminated") => generation # 0
  BY DEF SoloOK, CurrentIsHeld, CurrentPositions, At
<1>4. EndedFirst'
  BY <1>1, <1>3, CalmKeeps DEF SoloOK, EndedFirst, At, Alive
<1> QED BY <1>2, <1>4, CalmKeeps DEF SoloOK

Elsewhere(at) == at \notin CurrentPositions \union {"force"}

LEMMA SoloLeaves ==
  ASSUME SoloOK, TypesOK, Calm, Boards = {1}, NEW b \in Boards, NEW at, Elsewhere(at),
         \/ Go(b, at)
         \/ ops' = [ops EXCEPT ![b] = Resting(at)]
         \/ \E then \in Purpose : ops' = [ops EXCEPT ![b] = Begun(at, then)]
  PROVE  SoloOK'
<1>1. PICK op : ops' = [ops EXCEPT ![b] = op] /\ op.at = at
  <2>1. CASE Go(b, at)
    <3> DEFINE op == [ops[b] EXCEPT !.at = at]
    <3>1. op.at = at /\ ops' = [ops EXCEPT ![b] = op]
      BY <2>1 DEF Go, TypesOK, OpsOK, Op
    <3> HIDE DEF op
    <3> QED BY <3>1
  <2>2. CASE ops' = [ops EXCEPT ![b] = Resting(at)]
    <3>1. Resting(at).at = at
      BY DEF Resting
    <3> QED BY <2>2, <3>1
  <2>3. ASSUME NEW then \in Purpose, ops' = [ops EXCEPT ![b] = Begun(at, then)]
        PROVE  \E op : ops' = [ops EXCEPT ![b] = op] /\ op.at = at
    <3>1. Begun(at, then).at = at
      BY DEF Begun, Resting
    <3> QED BY <2>3, <3>1
  <2> QED BY <2>1, <2>2, <2>3
<1> QED BY <1>1, SoloMoves DEF Elsewhere, CurrentPositions

LEMMA SoloEnds ==
  ASSUME SoloOK, TypesOK, Calm, Boards = {1}, NEW b \in Boards,
         End(b) \/ ops' = [ops EXCEPT ![b] = Continue(ops[b])]
  PROVE  SoloOK'
<1>1. CASE End(b)
  BY <1>1, SoloLeaves DEF End, Elsewhere, CurrentPositions
<1>2. CASE ops' = [ops EXCEPT ![b] = Continue(ops[b])]
  <2>1. Continue(ops[b]).at \in {"send", "claim", "idle"}
    BY Continued DEF TypesOK, OpsOK
  <2> QED BY <1>2, <2>1, SoloMoves DEF CurrentPositions
<1> QED BY <1>1, <1>2

(* What leaves the targets alone and starts no process. *)
LEMMA TargetsKept ==
  ASSUME SoloOK, TypesOK, generation' = generation,
         \A g \in Generations :
           /\ runtimes'[g].bound = runtimes[g].bound
           /\ pane'[g].at = pane[g].at \/ pane'[g].at = "none"
           /\ \/ claude'[g] = Claudeless
              \/ claude'[g].hook = claude[g].hook /\ claude'[g].seen = claude[g].seen
  PROVE  Calm
<1>1. ~Claudeless.hook
  BY DEF Claudeless
<1>2. \A g \in Generations : claude'[g].hook /\ claude'[g].seen.bound => runtimes'[g].bound
  BY <1>1 DEF SoloOK, TargetsSeen
<1> QED BY <1>2 DEF Calm, Alive

LEMMA RowCalm ==
  ASSUME SoloOK, TypesOK, NEW g, NEW row, g \in Generations => row.bound = runtimes[g].bound,
         \/ runtimes' = [runtimes EXCEPT ![g] = row]
         \/ runtimes' = runtimes,
         generation' = generation, pane' = pane, claude' = claude
  PROVE  Calm
<1>1. \A h \in Generations : runtimes'[h].bound = runtimes[h].bound
  BY DEF TypesOK, RowsOK
<1> QED BY <1>1, TargetsKept

LEMMA NoneCalm ==
  ASSUME SoloOK, TypesOK, runtimes' = runtimes, generation' = generation, pane' = pane, claude' = claude
  PROVE  Calm
BY TargetsKept

LEMMA RecordCalm ==
  ASSUME SoloOK, TypesOK, NEW g, runtimes' = [runtimes EXCEPT ![g] = Recorded(g)],
         generation' = generation, pane' = pane, claude' = claude
  PROVE  Calm
<1>1. g \in Generations => Recorded(g).bound = runtimes[g].bound
  BY DEF Recorded, TypesOK, RowsOK, Runtime
<1> QED BY <1>1, RowCalm

LEMMA SetCalm ==
  ASSUME SoloOK, TypesOK, NEW g, NEW field \in {"state", "owner"}, NEW value, Set(g, field, value),
         generation' = generation, pane' = pane, claude' = claude
  PROVE  Calm
<1> DEFINE row == [runtimes[g] EXCEPT ![field] = value]
<1>1. g \in Generations => row.bound = runtimes[g].bound
  BY DEF TypesOK, RowsOK, Runtime
<1>2. runtimes' = [runtimes EXCEPT ![g] = row]
  BY DEF Set
<1> HIDE DEF row
<1> QED BY <1>1, <1>2, RowCalm

LEMMA SoloRecovers ==
  ASSUME SoloOK, TypesOK, LaunchOK, Boards = {1}, NEW b \in Boards, StartOrRecover(b)
  PROVE  SoloOK'
<1> USE DEF db, outside
<1>1. CASE FindNone(b) \/ FindUnbound(b)
  BY <1>1, NoneCalm, SoloLeaves, SoloEnds DEF FindNone, FindUnbound, Elsewhere, CurrentPositions
<1>2. CASE FindBound(b)
  <2> DEFINE op == [ops[b] EXCEPT !.at = "observe", !.gen = generation, !.fit = Fit(b)]
  <2>1. ops' = [ops EXCEPT ![b] = op] /\ op.at = "observe"
    BY <1>2 DEF FindBound, TypesOK, OpsOK, Op
  <2> HIDE DEF op
  <2> QED BY <1>2, <2>1, NoneCalm, SoloMoves DEF FindBound, CurrentPositions
<1>3. CASE Observe(b)
  <2> DEFINE old == ops[b]
             op == CASE ~Alive(old.gen) -> [old EXCEPT !.at = "mint", !.fit = "exact"]
                     [] Alive(old.gen) /\ old.fit = "exact" -> Continue(old)
                     [] Alive(old.gen) /\ old.fit = "kept" -> Resting("idle")
                     [] Alive(old.gen) /\ old.fit = "mismatch" -> [old EXCEPT !.at = "revoke", !.fit = "exact"]
  <2>1. ops' = [ops EXCEPT ![b] = op] /\ Calm
    BY <1>3, RecordCalm DEF Observe
  <2>2. old \in Op /\ old.fit \in {"exact", "mismatch", "kept"} /\ Continue(old).at \in {"send", "claim", "idle"}
    BY Continued DEF TypesOK, OpsOK, Op
  <2>3. /\ [old EXCEPT !.at = "mint", !.fit = "exact"].at = "mint" /\ Resting("idle").at = "idle"
        /\ [old EXCEPT !.at = "revoke", !.fit = "exact"].at = "revoke"
    BY <2>2 DEF Op, Resting
  <2>4. op.at \in {"mint", "send", "claim", "idle", "revoke"}
    <3> HIDE DEF old
    <3> QED BY <2>2, <2>3
  <2> HIDE DEF op
  <2> QED BY <2>1, <2>4, SoloMoves DEF CurrentPositions
<1> QED BY <1>1, <1>2, <1>3 DEF StartOrRecover

(* Rotation ends the process whose target it has. *)
LEMMA SoloRotates ==
  ASSUME SoloOK, TypesOK, LaunchOK, Boards = {1}, NEW b \in Boards, Rotate(b)
  PROVE  SoloOK'
<1> USE DEF db, outside
<1>g. generation # 0 => generation \in Generations
  BY Generation0 DEF TypesOK
<1>1. CASE Revoke(b)
  <2>1. CASE generation = 0
    <3> DEFINE op == [ops[b] EXCEPT !.at = "force"]
    <3>1. op.at = "force" /\ ops' = [ops EXCEPT ![b] = op] /\ runtimes' = runtimes
      BY <1>1, <2>1 DEF Revoke, Go, TypesOK, OpsOK, Op
    <3> HIDE DEF op
    <3> QED BY <1>1, <2>1, <3>1, NoneCalm, SoloMoves DEF Revoke, CurrentPositions, Ended
  <2>2. CASE generation # 0
    <3> DEFINE at == IF TargetToEnd(generation) THEN "terminate" ELSE "force"
               op == [ops[b] EXCEPT !.at = at, !.gen = generation]
               row == [runtimes[generation] EXCEPT !.owner = "human", !.state = "exited"]
    <3>1. row.bound = runtimes[generation].bound
      BY <1>g, <2>2 DEF TypesOK, RowsOK, Runtime
    <3>2. runtimes' = [runtimes EXCEPT ![generation] = row]
      BY <1>1, <1>g, <2>2 DEF Revoke, TypesOK, RowsOK
    <3>3. ops' = [ops EXCEPT ![b] = op] /\ op.at = at /\ op.gen = generation
      BY <1>1, <2>2 DEF Revoke, TypesOK, OpsOK, Op
    <3>4. at = "terminate" \/ (at = "force" /\ Ended(generation))
      BY DEF TargetToEnd, Ended
    <3> HIDE DEF op, row, at
    <3>5. Calm
      BY <1>1, <3>1, <3>2, RowCalm DEF Revoke
    <3> QED BY <2>2, <3>3, <3>4, <3>5, SoloMoves
  <2> QED BY <2>1, <2>2
<1>2. CASE Terminate(b)
  <2> DEFINE g == ops[b].gen
  <2>1. g = generation /\ g \in Generations /\ generation # 0
    BY <1>2, <1>g DEF Terminate, At, SoloOK, CurrentIsHeld, CurrentPositions
  <2>2. PICK at \in {"terminated", "force"} :
          /\ Go(b, at)
          /\ at = "terminated" => pane' = [pane EXCEPT ![g] = NoPane] /\ claude' = [claude EXCEPT ![g] = Claudeless]
          /\ at = "force" => UNCHANGED outside /\ pane[g].at = "none"
    BY <1>2 DEF Terminate
  <2>3. \A h \in Generations :
          /\ pane'[h].at = pane[h].at \/ pane'[h].at = "none"
          /\ claude'[h] = Claudeless \/ claude'[h] = claude[h]
    BY <2>2 DEF NoPane, TypesOK, RowsOK
  <2>4. Calm
    BY <1>2, <2>3, TargetsKept DEF Terminate
  <2>5. at = "force" => Ended(generation)
    BY <2>1, <2>2 DEF Ended, Alive
  <2>6. at = "terminated" => ~Alive(generation)'
    <3>1. at = "terminated" => pane'[g].at = "none"
      BY <2>1, <2>2 DEF TypesOK, RowsOK, NoPane
    <3>2. generation' = generation
      BY <2>4 DEF Calm
    <3> QED BY <2>1, <3>1, <3>2 DEF Alive
  <2> DEFINE op == [ops[b] EXCEPT !.at = at]
  <2>7. op.at = at /\ op.gen = g /\ ops' = [ops EXCEPT ![b] = op]
    BY <2>2 DEF Go, TypesOK, OpsOK, Op
  <2> HIDE DEF op, g
  <2> QED BY <2>1, <2>4, <2>5, <2>6, <2>7, SoloMoves
<1>3. CASE Terminated(b)
  <2>1. ~Alive(generation)
    BY <1>3 DEF Terminated, SoloOK, EndedFirst
  <2>2. Calm
    BY <1>3, SetCalm DEF Terminated
  <2> DEFINE op == [ops[b] EXCEPT !.at = "force"]
  <2>3. op.at = "force" /\ ops' = [ops EXCEPT ![b] = op]
    BY <1>3 DEF Terminated, Go, TypesOK, OpsOK, Op
  <2> HIDE DEF op
  <2> QED BY <2>1, <2>2, <2>3, SoloMoves DEF CurrentPositions, Ended
<1> QED BY <1>1, <1>2, <1>3 DEF Rotate
(* What is minted has no process yet, and what it replaces has none left.  *)
LEMMA SoloMints ==
  ASSUME SoloOK, TypesOK, LaunchOK, Boards = {1}, NEW b \in Boards, Mint(b)
  PROVE  SoloOK'
<1> USE DEF db, outside
<1>1. CASE ~(At(b, "force") \/ Expected(b))
  BY <1>1, NoneCalm, SoloLeaves DEF Mint, Elsewhere, CurrentPositions
<1>2. CASE At(b, "force") \/ Expected(b)
  <2> DEFINE op == [ops[b] EXCEPT !.at = "fingerprint", !.gen = generation + 1]
  <2>1. PICK new : new = generation + 1
    OBVIOUS
  <2>2. new \in Generations /\ generation' = new /\ new # 0 /\ (\A g \in Generations : g < new => g <= generation /\ g # new)
        /\ (\A g \in Generations : g <= generation => g = generation \/ g < generation) /\ new > generation
        /\ generation \in Nat
    BY <1>2, <2>1, ManagerBounds DEF Mint, TypesOK, OpsOK, Generations
  <2>3. op.at = "fingerprint" /\ op.gen = new /\ ops' = [ops EXCEPT ![b] = op]
    BY <1>2, <2>1 DEF Mint, TypesOK, OpsOK, Op
  <2> HIDE DEF op
  <2>4. ops'[b] = op /\ \A c \in Boards : c = b
    BY <2>3 DEF TypesOK, OpsOK
  <2>5. /\ runtimes'[new] = NewRuntime /\ \A g \in Generations \ {new} : runtimes'[g] = runtimes[g]
        /\ pane' = pane /\ claude' = claude
    BY <1>2, <2>1, <2>2 DEF Mint, TypesOK, RowsOK
  <2>6. Unborn(new)
    BY <2>2 DEF LaunchOK, FutureOK
  <2>7. CurrentIsHeld' /\ EndedFirst'
    BY <2>2, <2>3, <2>4 DEF CurrentIsHeld, EndedFirst, At
  <2>8. TargetsSeen'
    BY <2>5, <2>6 DEF SoloOK, TargetsSeen, Unborn
  <2>9. Ended(generation)
    <3>1. CASE At(b, "force")
      BY <3>1 DEF SoloOK, EndedFirst
    <3>2. CASE At(b, "mint") /\ Expected(b)
      BY <3>2 DEF LaunchOK, HeldGenerationOK, Expected, Ended
    <3> QED BY <1>2, <3>1, <3>2 DEF Mint
  <2>10. OneLiveManager'
    <3> SUFFICES ASSUME NEW g \in Generations, g < new, pane[g].at = "alive"
                 PROVE  ~runtimes[g].bound
      BY <2>2, <2>5 DEF OneLiveManager, Alive
    <3>1. CASE g = generation
      BY <2>9, <3>1, <2>2 DEF Ended, Alive, Generations
    <3>2. CASE g < generation
      BY <3>2 DEF SoloOK, OneLiveManager, Alive
    <3> QED BY <2>2, <3>1, <3>2
  <2> QED BY <2>7, <2>8, <2>10 DEF SoloOK
<1> QED BY <1>1, <1>2

(* The launch of the current generation, by the board that minted it. *)
LEMMA SoloLaunches ==
  ASSUME SoloOK, TypesOK, LaunchOK, Boards = {1}, NEW b \in Boards,
         SaveFingerprint(b) \/ CreateSession(b) \/ BindTarget(b)
  PROVE  SoloOK'
<1> USE DEF db, outside
<1>1. PICK g : g = ops[b].gen
  OBVIOUS
<1>2. g = generation /\ g \in Generations /\ g # 0
  BY <1>1, Generation0 DEF SaveFingerprint, CreateSession, BindTarget, At, SoloOK, CurrentIsHeld, CurrentPositions,
     TypesOK
<1>3. PICK at \in {"create", "bind", "record"} : Go(b, at) /\ generation' = generation
  BY DEF SaveFingerprint, CreateSession, BindTarget
<1>4. /\ ops'[b].at = at /\ ops'[b].gen = g /\ \A c \in Boards : c = b
      /\ \A c \in Boards : ops'[c].at = at /\ ops'[c].gen = g
  BY <1>1, <1>3 DEF Go, TypesOK, OpsOK, Op
<1>5. CurrentIsHeld' /\ EndedFirst'
  BY <1>2, <1>3, <1>4 DEF CurrentIsHeld, EndedFirst, At
<1>6. \A h \in Generations : h < generation => h # g
  BY <1>2 DEF Generations
<1>7. CASE SaveFingerprint(b)
  <2>1. Unlaunched(g)
    BY <1>1, <1>7 DEF SaveFingerprint, At, LaunchOK, LaunchingOK, Launching
  <2>2. \A h \in Generations \ {g} : runtimes'[h] = runtimes[h]
    BY <1>1, <1>7 DEF SaveFingerprint, TypesOK, RowsOK
  <2>3. pane' = pane /\ claude' = claude
    BY <1>7 DEF SaveFingerprint
  <2>4. TargetsSeen' /\ OneLiveManager'
    BY <1>3, <1>6, <2>1, <2>2, <2>3 DEF SoloOK, TargetsSeen, OneLiveManager, Unlaunched, Unborn, Alive
  <2> QED BY <1>5, <2>4 DEF SoloOK
<1>8. CASE CreateSession(b)
  <2>1. Unlaunched(g)
    BY <1>1, <1>8 DEF CreateSession, At, LaunchOK, LaunchingOK, Launching
  <2>2. PICK how \in {"boot", "dialog"} : claude' = [claude EXCEPT ![g].at = how]
    BY <1>1, <1>8 DEF CreateSession
  <2>3. /\ ~claude'[g].hook
        /\ \A h \in Generations \ {g} : pane'[h] = pane[h] /\ claude'[h] = claude[h]
    BY <1>1, <1>2, <1>8, <2>1, <2>2 DEF CreateSession, TypesOK, RowsOK, Claude, Unlaunched, Unborn
  <2>4. runtimes' = runtimes
    BY <1>8 DEF CreateSession
  <2>5. TargetsSeen' /\ OneLiveManager'
    BY <1>3, <1>6, <2>3, <2>4 DEF SoloOK, TargetsSeen, OneLiveManager, Alive
  <2> QED BY <1>5, <2>5 DEF SoloOK
<1>9. CASE BindTarget(b)
  <2>1. runtimes' = [runtimes EXCEPT ![g] = Bound(runtimes[g])] /\ pane' = pane /\ claude' = claude
    BY <1>1, <1>9 DEF BindTarget, TypesOK, RowsOK
  <2>2. runtimes'[g].bound = TRUE /\ \A h \in Generations \ {g} : runtimes'[h] = runtimes[h]
    BY <1>2, <2>1 DEF Bound, TypesOK, RowsOK, Runtime
  <2>3. TargetsSeen' /\ OneLiveManager'
    BY <1>3, <1>6, <2>1, <2>2 DEF SoloOK, TargetsSeen, OneLiveManager, Alive
  <2> QED BY <1>5, <2>3 DEF SoloOK
<1> QED BY <1>7, <1>8, <1>9

LEMMA SoloAwaits ==
  ASSUME SoloOK, TypesOK, LaunchOK, Boards = {1}, NEW b \in Boards, NewGeneration(b)
  PROVE  SoloOK'
<1> USE DEF db, outside, Elsewhere, CurrentPositions
<1>1. CASE Mint(b) \/ SaveFingerprint(b) \/ CreateSession(b) \/ BindTarget(b)
  BY <1>1, SoloMints, SoloLaunches
<1>2. CASE RecordLaunch(b)
  BY <1>2, RecordCalm, SoloLeaves DEF RecordLaunch
<1>3. CASE SeeReady(b) \/ StartupTimesOut(b)
  BY <1>3, NoneCalm, SoloEnds, SoloLeaves DEF SeeReady, StartupTimesOut
<1>4. CASE StartupObserved(b)
  BY <1>4, RecordCalm, SoloEnds DEF StartupObserved
<1> QED BY <1>1, <1>2, <1>3, <1>4 DEF NewGeneration

LEMMA SoloDelivers ==
  ASSUME SoloOK, TypesOK, LaunchOK, Boards = {1}, NEW b \in Boards, Deliver(b) \/ Await(b)
  PROVE  SoloOK'
<1> USE DEF db, outside, Elsewhere, CurrentPositions
<1>1. CASE RotateAtLimit(b) \/ Decline(b)
  BY <1>1, NoneCalm, SoloLeaves, SoloEnds DEF RotateAtLimit, Decline
<1>2. CASE Reserve(b)
  <2>1. End(b) \/ Go(b, "paste")
    BY <1>2 DEF Reserve, Go
  <2> QED BY <1>2, <2>1, SetCalm, SoloLeaves, SoloEnds DEF Reserve
<1>3. CASE Paste(b)
  <2>1. \/ claude' = claude
        \/ claude' = [claude EXCEPT ![ops[b].gen].at = IF @ = "idle" THEN "prompted" ELSE @]
    BY <1>3 DEF Paste
  <2>2. \A g \in Generations : claude'[g].hook = claude[g].hook /\ claude'[g].seen = claude[g].seen
    BY <2>1 DEF TypesOK, RowsOK, Claude
  <2>3. Calm
    BY <1>3, <2>2, TargetsKept DEF Paste
  <2> QED BY <1>3, <2>3, SoloEnds DEF Paste
<1>4. CASE Collect(b)
  <2> DEFINE g == turns[waiting[b]].generation
             row == [runtimes[g] EXCEPT !.state = "ready"]
  <2>1. runtimes' = runtimes \/ runtimes' = [runtimes EXCEPT ![g] = row]
    BY <1>4 DEF Collect, Acknowledged
  <2>2. g \in Generations => row.bound = runtimes[g].bound
    <3> HIDE DEF g
    <3> QED BY DEF TypesOK, RowsOK, Runtime
  <2> HIDE DEF g, row
  <2> QED BY <1>4, <2>1, <2>2, RowCalm, SoloStands DEF Collect
<1>5. CASE GiveUp(b)
  BY <1>5, NoneCalm, SoloStands DEF GiveUp
<1> QED BY <1>1, <1>2, <1>3, <1>4, <1>5 DEF Deliver, Await

LEMMA SoloHolds ==
  ASSUME SoloOK, TypesOK, LaunchOK, Boards = {1}, NEW b \in Boards, Hold(b)
  PROVE  SoloOK'
<1> USE DEF db, outside, Elsewhere, CurrentPositions
<1>1. CASE Claim(b) \/ Release(b)
  <2>1. End(b) \/ Go(b, "claimed") \/ Go(b, "released")
    BY <1>1 DEF Claim, Release
  <2>2. \/ pane' = pane
        \/ \E owner \in Owner : pane' = [pane EXCEPT ![ops[b].gen].owner = owner]
    BY <1>1 DEF Claim, Release, Owner
  <2>3. ASSUME NEW owner \in Owner, pane' = [pane EXCEPT ![ops[b].gen].owner = owner]
        PROVE  \A g \in Generations : pane'[g].at = pane[g].at
    BY <2>3 DEF TypesOK, RowsOK, Pane
  <2>4. Calm
    BY <1>1, <2>2, <2>3, TargetsKept DEF Claim, Release
  <2> QED BY <2>1, <2>4, SoloLeaves, SoloEnds
<1>2. CASE Claimed(b)
  <2>1. End(b) \/ Go(b, "inside") \/ Go(b, "leave")
    BY <1>2 DEF Claimed
  <2> QED BY <1>2, <2>1, SetCalm, SoloLeaves, SoloEnds DEF Claimed
<1>3. CASE Leave(b)
  <2> DEFINE op == [ops[b] EXCEPT !.at = "leave", !.gen = generation]
  <2>1. End(b) \/ ops' = [ops EXCEPT ![b] = op]
    BY <1>3 DEF Leave, TypesOK, OpsOK
  <2>2. op.at = "leave"
    BY DEF TypesOK, OpsOK, Op
  <2> HIDE DEF op
  <2> QED BY <1>3, <2>1, <2>2, NoneCalm, SoloMoves, SoloEnds DEF Leave
<1>4. CASE Released(b)
  <2> DEFINE g == ops[b].gen
             state == IF Finished(g) THEN "ready" ELSE runtimes[g].state
             row == [runtimes[g] EXCEPT !.owner = "manager", !.state = state]
  <2>1. runtimes' = [runtimes EXCEPT ![g] = row]
    BY <1>4 DEF Released, TypesOK, RowsOK
  <2>2. g \in Generations => row.bound = runtimes[g].bound
    <3> HIDE DEF g, state
    <3> QED BY DEF TypesOK, RowsOK, Runtime
  <2> HIDE DEF g, row
  <2> QED BY <1>4, <2>1, <2>2, RowCalm, SoloEnds DEF Released
<1> QED BY <1>1, <1>2, <1>3, <1>4 DEF Hold

LEMMA SoloBegins ==
  ASSUME SoloOK, TypesOK, LaunchOK, Boards = {1}, NEW b \in Boards,
         StartBoard(b) \/ Crash(b) \/ Handle(b) \/ FreshManager(b) \/ Enter(b)
  PROVE  SoloOK'
<1> USE DEF db, outside, Elsewhere, CurrentPositions
<1>1. Calm
  BY NoneCalm DEF StartBoard, Crash, Handle, FreshManager, Enter
<1>2. {"recover", "handle", "fresh", "enter"} \subseteq Purpose
  BY DEF Purpose
<1> QED BY <1>1, <1>2, SoloLeaves DEF StartBoard, Crash, Handle, FreshManager, Enter

LEMMA ClaudeIsCalm ==
  ASSUME SoloOK, TypesOK, LaunchOK, NEW g \in Generations, AnswerDialog(g) \/ Exit(g) \/ Hook(g) \/ CallTool(g)
  PROVE  SoloOK'
<1> USE DEF db, outside
<1>o. claude[g] \in Claude /\ claude[g].seen \in Runtime
  BY DEF TypesOK, RowsOK, Claude
<1>1. CASE AnswerDialog(g)
  <2>1. \A h \in Generations : claude'[h].hook = claude[h].hook /\ claude'[h].seen = claude[h].seen
    BY <1>o, <1>1 DEF AnswerDialog, TypesOK, RowsOK, Claude
  <2> QED BY <1>1, <2>1, TargetsKept, SoloStands DEF AnswerDialog
<1>2. CASE Exit(g)
  <2>1. \A h \in Generations : /\ claude'[h] = Claudeless \/ claude'[h] = claude[h]
                               /\ pane'[h].at = "alive" => pane[h].at = "alive"
    BY <1>2 DEF Exit, TypesOK, RowsOK, Pane
  <2>2. ~Claudeless.hook
    BY DEF Claudeless
  <2>3. Calm
    BY <1>2, <2>1, <2>2 DEF Exit, Calm, Alive, SoloOK, TargetsSeen
  <2> QED BY <1>2, <2>3, SoloStands DEF Exit
<1>3. CASE HookReads(g)
  <2>1. claude'[g].seen = runtimes[g] /\ \A h \in Generations \ {g} : claude'[h] = claude[h]
    BY <1>o, <1>3 DEF HookReads, TypesOK, RowsOK, Claude
  <2>2. Calm
    BY <1>3, <2>1 DEF HookReads, Calm, Alive, SoloOK, TargetsSeen
  <2> QED BY <1>3, <2>2, SoloStands DEF HookReads
<1>4. CASE SessionStart(g) \/ UserPromptSubmit(g) \/ Stop(g)
  <2>1. PICK at \in {"idle", "work"} : claude' = [claude EXCEPT ![g] = [Claudeless EXCEPT !.at = at]]
    BY <1>4 DEF SessionStart, UserPromptSubmit, Stop
  <2>2. PICK state \in {"ready", "turn_active", "turn_complete"} :
          runtimes' = [runtimes EXCEPT ![g] = [claude[g].seen EXCEPT !.state = state]]
    BY <1>4 DEF SessionStart, UserPromptSubmit, Stop
  <2>3. ~claude'[g].hook /\ \A h \in Generations \ {g} : claude'[h] = claude[h]
    BY <2>1 DEF TypesOK, RowsOK, Claudeless
  <2>4. /\ runtimes'[g].bound = claude[g].seen.bound
        /\ \A h \in Generations \ {g} : runtimes'[h] = runtimes[h]
    BY <1>o, <2>2 DEF TypesOK, RowsOK, Runtime
  <2>5. ops' = ops /\ pane' = pane /\ generation' = generation /\ claude[g].hook
    BY <1>4 DEF SessionStart, UserPromptSubmit, Stop
  <2>6. Calm
    BY <2>3, <2>4, <2>5 DEF Calm, Alive, SoloOK, TargetsSeen
  <2> QED BY <2>5, <2>6, SoloStands
<1>5. CASE CallTool(g)
  BY <1>5, NoneCalm, SoloStands DEF CallTool
<1> QED BY <1>1, <1>2, <1>3, <1>4, <1>5 DEF Hook

LEMMA SoloStep ==
  ASSUME SoloOK, TypesOK, LaunchOK, NumBoards = 1, [Next]_vars
  PROVE  SoloOK'
<1>0. Boards = {1}
  BY DEF Boards
<1>1. ASSUME NEW c \in Calls, Exchange(c)
      PROVE  SoloOK'
  BY <1>1, NoneCalm, SoloStands
  DEF Exchange, Reuse, Connect, Unreachable, Write, WriteFails, Serve, Reply, LoseReply, db, outside
<1>2. CASE UNCHANGED vars
  BY <1>2, NoneCalm, SoloStands DEF vars, db, outside
<1>3. ASSUME NEW b \in Boards, Progress(b) \/ Await(b)
      PROVE  SoloOK'
  BY <1>0, <1>3, SoloRecovers, SoloRotates, SoloAwaits, SoloDelivers, SoloHolds DEF Progress
<1> QED BY <1>0, <1>1, <1>2, <1>3, SoloBegins, ClaudeIsCalm DEF Next

LEMMA SoloInitial == Init => SoloOK
<1> SUFFICES ASSUME Init
             PROVE  SoloOK
  OBVIOUS
<1>1. \A b \in Boards : ops[b].at = "down"
  BY DEF Init, Resting
<1>2. \A g \in Generations : ~claude[g].hook /\ ~Alive(g)
  BY DEF Init, NoPane, Claudeless, Alive
<1> QED BY <1>1, <1>2 DEF SoloOK, CurrentIsHeld, CurrentPositions, EndedFirst, TargetsSeen, OneLiveManager, At

(* With one board, a generation that was replaced and whose target was     *)
(* saved has no process left, however the rotation, the recovery of a lost  *)
(* process, crashes of the board and late hooks interleave.                 *)
THEOREM OneManagerLives ==
  ASSUME NumBoards = 1
  PROVE  Spec => []OneLiveManager
<1>1. OpsOK /\ RowsOK /\ HeldOK /\ LaunchOK /\ SoloOK /\ [Next]_vars => SoloOK'
  BY SoloStep DEF TypesOK
<1>2. SoloOK => OneLiveManager
  BY DEF SoloOK
<1> QED BY <1>1, <1>2, Invariant, SoloInitial, PTL DEF Spec
=============================================================================
