--------------------------- MODULE EvidenceProofs ---------------------------
(***************************************************************************)
(* Proofs about a job's evidence, for any history, contents, and number of *)
(* commits and crashes, where one writer works and one turn goes on at a   *)
(* time (the runs' case): evidence that is not marked stale is about the   *)
(* content the writer's worktree had at its baseline, or has now if there  *)
(* is none.                                                                *)
(***************************************************************************)
EXTENDS Evidence, TLAPS

Alone == NumWriters = 1 /\ ~Overlap

LEMMA OneWriter == ASSUME Alone PROVE Writers = {1} /\ lineage = 1
BY DEF Alone, Writers, lineage

(* With one writer a reconciliation is the consumption of its baseline. *)
LEMMA ReconcilesOne ==
  ASSUME Alone, DOMAIN base = Writers, base = [w \in Writers |-> base[w]]
  PROVE  Reconciled = InvalidatedIf(1, artifacts) /\ ReconciledBase = BaseAfter(1)
<1> DEFINE two == [n \in 0..NumWriters |-> IF n = 0 THEN artifacts ELSE InvalidatedIf(1, artifacts)]
           Upto(f) == f = [n \in 0..NumWriters |-> IF n = 0 THEN artifacts ELSE InvalidatedIf(n, f[n - 1])]
           upTo == CHOOSE f : Upto(f)
<1>1. NumWriters = 1 /\ 0..NumWriters = {0, 1}
  BY DEF Alone
<1>2. \A n \in 0..NumWriters : n # 0 => n = 1 /\ two[n - 1] = artifacts
  BY <1>1
<1>3. Upto(two)
  BY <1>1, <1>2
<1>4. Upto(upTo)
  BY <1>3
<1>5. Reconciled = upTo[NumWriters]
  BY DEF Reconciled
<1> HIDE DEF upTo
<1>6. upTo[0] = artifacts
  BY <1>1, <1>4
<1>7. upTo[1] = InvalidatedIf(1, upTo[0])
  BY <1>1, <1>4
<1>8. ReconciledBase = BaseAfter(1)
  BY OneWriter DEF ReconciledBase, BaseAfter
<1> QED BY <1>1, <1>5, <1>6, <1>7, <1>8

----------------------------------------------------------------------------
(* What is true of evidence, baselines and turns *)

(* A baseline is held for a turn or a human, and nobody moves the worktree  *)
(* without one.                                                             *)
BaselineOK ==
  /\ base[1] # 0 => turn[1] # "none" \/ owner[1] = "human"
  /\ turn[1] = "open" => base[1] # 0 /\ owner[1] = "manager"
  /\ turn[1] = "tainted" => owner[1] = "human"
  /\ owner[1] = "human" => base[1] # 0

(* A reader looks at the content the lineage has. *)
ReaderOK ==
  \A r \in Behavioral : reading[r] # "none" =>
    /\ turn[1] = "none" /\ owner[1] = "manager"
    /\ view[r] = 1 /\ seen[r] = {history[tip[1]]}

(* What evidence that is not stale is about. *)
Evidenced(artifact, at) ==
  artifact.head # 0 /\ ~artifact.stale =>
    artifact.seen = {history[artifact.head]} /\ history[artifact.head] = history[at]
Since == IF base[1] = 0 THEN tip[1] ELSE base[1]
ArtifactsOK == \A type \in Behavioral : Evidenced(artifacts[type], Since)

EvidenceOK == TypeOK /\ BaselineOK /\ ReaderOK /\ ArtifactsOK

(* The artifacts are of their type, and current about the content at a head.*)
ArtsTyped(arts) ==
  arts \in [ArtifactType -> Artifact] /\ \A type \in ArtifactType : arts[type].head <= Len(history)
ArtsAt(arts, at) == \A type \in Behavioral : Evidenced(arts[type], at)

(* What a change does to an artifact leaves it about both heads, or stale.  *)
LEMMA ChangeTold ==
  ASSUME NEW artifact \in Artifact, NEW before \in 1..MaxHead, NEW now \in 1..MaxHead,
         Evidenced(artifact, before)
  PROVE  /\ After(Change(before, now), artifact, now) \in Artifact
         /\ After(Change(before, now), artifact, now).head \in {artifact.head, now}
         /\ Evidenced(After(Change(before, now), artifact, now), before)
         /\ Evidenced(After(Change(before, now), artifact, now), now)
<1> DEFINE moved == [artifact EXCEPT !.head = now]
           marked == [artifact EXCEPT !.stale = TRUE]
<1>1. now \in 0..MaxHead
  BY EvidenceBounds
<1>2. /\ moved \in Artifact /\ moved.head = now /\ moved.stale = artifact.stale /\ moved.seen = artifact.seen
      /\ marked \in Artifact /\ marked.head = artifact.head /\ marked.stale
  BY <1>1 DEF Artifact
<1> HIDE DEF moved, marked
<1>3. After(Change(before, now), artifact, now) =
        IF artifact.stale \/ artifact.head = 0 \/ Change(before, now) = "none" THEN artifact
        ELSE IF Change(before, now) = "restack" THEN moved ELSE marked
  BY DEF After, moved, marked
<1>4. CASE artifact.stale \/ artifact.head = 0
  BY <1>3, <1>4 DEF Evidenced
<1>5. CASE ~artifact.stale /\ artifact.head # 0 /\ before = now
  <2>1. Change(before, now) = "none"
    BY <1>5 DEF Change
  <2> QED BY <1>3, <1>5, <2>1
<1>6. CASE ~artifact.stale /\ artifact.head # 0 /\ before # now /\ history[before] = history[now]
  <2>1. Change(before, now) = "restack"
    BY <1>6 DEF Change
  <2>2. After(Change(before, now), artifact, now) = moved
    BY <1>3, <1>6, <2>1
  <2> QED BY <1>2, <1>6, <2>2 DEF Evidenced
<1>7. CASE ~artifact.stale /\ artifact.head # 0 /\ before # now /\ history[before] # history[now]
  <2>1. Change(before, now) = "edit"
    BY <1>7 DEF Change
  <2>2. After(Change(before, now), artifact, now) = marked
    BY <1>3, <1>7, <2>1
  <2> QED BY <1>2, <2>2 DEF Evidenced
<1> QED BY <1>4, <1>5, <1>6, <1>7

LEMMA Heads ==
  ASSUME Alone, TypeOK
  PROVE  /\ tip[1] \in 1..MaxHead /\ tip[1] \in 1..Len(history) /\ Since \in 1..MaxHead
         /\ Since \in 1..Len(history) /\ Len(history) \in 1..MaxHead
         /\ (base[1] # 0 => Since = base[1]) /\ (base[1] = 0 => Since = tip[1])
BY OneWriter, EvidenceBounds DEF TypeOK, Since

(* A baseline is consumed. *)
LEMMA InvalidatedTold ==
  ASSUME Alone, TypeOK, NEW arts, ArtsTyped(arts), ArtsAt(arts, Since)
  PROVE  /\ ArtsTyped(Invalidated(1, arts))
         /\ ArtsAt(Invalidated(1, arts), Since) /\ ArtsAt(Invalidated(1, arts), tip[1])
<1> DEFINE new(type) == After(Change(base[1], tip[1]), arts[type], tip[1])
<1>1. Behavioral \subseteq ArtifactType
  BY DEF ArtifactType
<1>2. CASE base[1] # 0
  <2>1. \A type \in Behavioral : /\ new(type) \in Artifact /\ new(type).head \in {arts[type].head, tip[1]}
                                 /\ Evidenced(new(type), Since) /\ Evidenced(new(type), tip[1])
    BY <1>1, <1>2, Heads, ChangeTold DEF ArtsTyped, ArtsAt
  <2> HIDE DEF new
  <2>2. Invalidated(1, arts) = [type \in ArtifactType |-> IF type \in Behavioral THEN new(type) ELSE arts[type]]
    BY <1>2 DEF Invalidated, new
  <2>3. tip[1] <= Len(history)
    BY Heads
  <2> QED BY <1>1, <2>1, <2>2, <2>3 DEF ArtsTyped, ArtsAt
<1>3. CASE base[1] = 0
  <2>1. Invalidated(1, arts) = [type \in ArtifactType |-> arts[type]]
    BY <1>3 DEF Invalidated
  <2>2. Invalidated(1, arts) = arts
    BY <2>1 DEF ArtsTyped
  <2> QED BY <1>3, <2>2, Heads
<1> QED BY <1>2, <1>3

LEMMA InvalidatedIfTold ==
  ASSUME Alone, TypeOK, NEW arts, ArtsTyped(arts), ArtsAt(arts, Since)
  PROVE  /\ ArtsTyped(InvalidatedIf(1, arts)) /\ ArtsAt(InvalidatedIf(1, arts), Since)
         /\ owner[1] = "manager" => ArtsAt(InvalidatedIf(1, arts), tip[1])
BY InvalidatedTold DEF InvalidatedIf, Consumable

----------------------------------------------------------------------------
(* The parts of the type *)

RestTyped ==
  /\ owner \in [Writers -> {"manager", "human"}] /\ turn \in [Writers -> TurnState]
  /\ reading \in [Behavioral -> TurnState] /\ view \in [Behavioral -> {0} \union Writers]
  /\ seen \in [Behavioral -> SUBSET Trees]
  /\ completed \in BOOLEAN /\ up \in BOOLEAN /\ crashes \in Nat
GitTyped ==
  /\ history \in Seq(Trees) /\ Len(history) \in 1..MaxHead
  /\ tip \in [Writers -> 1..Len(history)]
  /\ base \in [Writers -> 0..Len(history)]

LEMMA TypeParts == TypeOK <=> GitTyped /\ RestTyped /\ ArtsTyped(artifacts)
BY DEF TypeOK, GitTyped, RestTyped, ArtsTyped

LEMMA TypePartsNext == TypeOK' <=> GitTyped' /\ RestTyped' /\ ArtsTyped(artifacts)'
BY DEF TypeOK, GitTyped, RestTyped, ArtsTyped

(* The one writer's baseline is set or consumed. *)
LEMMA BaseTyped ==
  ASSUME Alone, TypeOK, NEW b \in 0..Len(history), base' = [base EXCEPT ![1] = b], UNCHANGED git
  PROVE  GitTyped' /\ base'[1] = b /\ Since' = IF b = 0 THEN tip[1] ELSE b
<1>1. GitTyped'
  BY OneWriter DEF GitTyped, TypeOK, git
<1>2. base'[1] = b
  BY OneWriter DEF TypeOK
<1> QED BY <1>1, <1>2 DEF Since, git

LEMMA BaseUntouched ==
  ASSUME TypeOK, base' = base, UNCHANGED git
  PROVE  GitTyped' /\ Since' = Since
BY TypeParts DEF GitTyped, Since, git

(* snapshot_before_turn and the consumption of a baseline, with one writer. *)
LEMMA Baselines ==
  ASSUME Alone, TypeOK
  PROVE  /\ Snapshot(base, 1) = [base EXCEPT ![1] = Since]
         /\ BaseAfter(1) = IF owner[1] = "manager" THEN [base EXCEPT ![1] = 0] ELSE base
         /\ owner[1] = "manager" => Snapshot(BaseAfter(1), 1) = [base EXCEPT ![1] = tip[1]]
         /\ Reconciled = InvalidatedIf(1, artifacts) /\ ReconciledBase = BaseAfter(1)
<1>1. base \in [Writers -> 0..Len(history)] /\ 1 \in Writers
  BY OneWriter DEF TypeOK
<1>2. Snapshot(base, 1) = [base EXCEPT ![1] = Since]
  BY <1>1 DEF Snapshot, Since
<1>3. BaseAfter(1) = IF owner[1] = "manager" THEN [base EXCEPT ![1] = 0] ELSE base
  BY DEF BaseAfter, Consumable
<1>4. owner[1] = "manager" => Snapshot(BaseAfter(1), 1) = [base EXCEPT ![1] = tip[1]]
  BY <1>1, <1>3 DEF Snapshot
<1> QED BY <1>1, <1>2, <1>3, <1>4, ReconcilesOne

LEMMA QuietOne ==
  ASSUME Alone, MayBegin
  PROVE  turn[1] = "none" /\ owner[1] = "manager" /\ \A r \in Behavioral : reading[r] = "none"
BY OneWriter DEF Alone, MayBegin, Quiet

(* Artifacts stay typed and current where history stays. *)
LEMMA ArtsNext ==
  ASSUME NEW arts, artifacts' = arts, UNCHANGED git, ArtsTyped(arts), ArtsAt(arts, Since')
  PROVE  ArtsTyped(artifacts)' /\ ArtifactsOK'
BY DEF ArtsTyped, ArtsAt, ArtifactsOK, Evidenced, git

----------------------------------------------------------------------------
(* Turns *)

LEMMA StartsTold ==
  ASSUME Alone, EvidenceOK, NEW w \in Writers, StartWriter(w) \/ Send(w)
  PROVE  EvidenceOK'
<1>1. w = 1 /\ Writers = {1} /\ owner[1] = "manager" /\ turn[1] = "none" /\ \A r \in Behavioral : reading[r] = "none"
  BY OneWriter, QuietOne DEF StartWriter, Send
<1>2. base' = [base EXCEPT ![1] = tip[1]] /\ artifacts' = InvalidatedIf(1, artifacts)
  BY <1>1, Baselines DEF StartWriter, Send, EvidenceOK
<1>3. UNCHANGED <<history, tip, owner, reading, view, seen, completed, up, crashes>>
      /\ turn' = [turn EXCEPT ![1] = "open"]
  BY <1>1 DEF StartWriter, Send, git, readers, EvidenceOK, TypeOK
<1>4. tip[1] \in 0..Len(history) /\ tip[1] # 0
  BY Heads DEF EvidenceOK
<1>5. GitTyped' /\ base'[1] = tip[1] /\ Since' = tip[1]
  BY <1>2, <1>3, <1>4, BaseTyped DEF EvidenceOK, git
<1>6. ArtsTyped(artifacts)' /\ ArtifactsOK'
  BY <1>1, <1>2, <1>3, <1>5, TypeParts, InvalidatedIfTold, ArtsNext DEF EvidenceOK, ArtifactsOK, ArtsAt, git
<1>7. RestTyped' /\ turn'[1] = "open"
  BY <1>1, <1>3, TypeParts DEF EvidenceOK, RestTyped, TurnState
<1>8. BaselineOK' /\ ReaderOK'
  BY <1>1, <1>3, <1>4, <1>5, <1>7 DEF BaselineOK, ReaderOK
<1> QED BY <1>5, <1>6, <1>7, <1>8, TypePartsNext DEF EvidenceOK

LEMMA ReadersTold ==
  ASSUME Alone, EvidenceOK, NEW r \in Behavioral, StartReader(r) \/ Message(r)
  PROVE  EvidenceOK'
<1> DEFINE trees == {history[tip[1]]}
<1>1. Writers = {1} /\ owner[1] = "manager" /\ turn[1] = "none"
  BY OneWriter, QuietOne DEF StartReader, Message
<1>2. base[1] = 0 /\ Since = tip[1]
  BY <1>1 DEF EvidenceOK, BaselineOK, Since
<1>3. base' = base /\ artifacts' = artifacts
  <2>1. CASE Message(r)
    BY <2>1 DEF Message
  <2>2. CASE StartReader(r)
    <3>1. base' = [base EXCEPT ![1] = 0] /\ artifacts' = InvalidatedIf(1, artifacts)
      BY <1>1, <2>2, Baselines DEF StartReader, EvidenceOK
    <3>2. Invalidated(1, artifacts) = [type \in ArtifactType |-> artifacts[type]]
      BY <1>2 DEF Invalidated
    <3> QED BY <1>1, <1>2, <3>1, <3>2 DEF InvalidatedIf, EvidenceOK, TypeOK
  <2> QED BY <2>1, <2>2
<1>4. UNCHANGED <<history, tip, owner, turn, completed, up, crashes>>
  BY DEF StartReader, Message, git
<1>5. view[r] \in {0, 1}
  BY <1>1 DEF EvidenceOK, TypeOK
<1>6. reading' = [reading EXCEPT ![r] = "open"] /\ seen' = [seen EXCEPT ![r] = trees]
      /\ ((view' = view /\ view[r] = 1) \/ view' = [view EXCEPT ![r] = 1])
  BY <1>5, OneWriter DEF StartReader, Message
<1>7. trees \in SUBSET Trees
  BY Heads DEF EvidenceOK, TypeOK
<1> HIDE DEF trees
<1>8. RestTyped'
  BY <1>1, <1>4, <1>6, <1>7, TypeParts DEF EvidenceOK, RestTyped, TurnState
<1>9. GitTyped' /\ Since' = Since
  BY <1>3, <1>4, BaseUntouched DEF EvidenceOK, git
<1>10. ArtsTyped(artifacts)' /\ ArtifactsOK'
  BY <1>3, <1>4, <1>9, TypeParts, ArtsNext DEF EvidenceOK, ArtifactsOK, ArtsAt, git
<1>11. BaselineOK'
  BY <1>3, <1>4 DEF EvidenceOK, BaselineOK
<1>12. ReaderOK'
  BY <1>1, <1>4, <1>6 DEF EvidenceOK, ReaderOK, TypeOK, trees
<1> QED BY <1>8, <1>9, <1>10, <1>11, <1>12, TypePartsNext DEF EvidenceOK

(* The worktree moves in a turn or under a human, so with a baseline and no *)
(* reader.                                                                  *)
LEMMA MovesTold ==
  ASSUME Alone, EvidenceOK, NEW w \in Writers, Commit(w) \/ Reset(w)
  PROVE  EvidenceOK'
<1>1. w = 1 /\ Writers = {1}
  BY OneWriter
<1>2. turn[1] \in {"open", "tainted"} \/ owner[1] = "human"
  BY <1>1 DEF Commit, Reset, MoveTo
<1>3. base[1] # 0 /\ \A r \in Behavioral : reading[r] = "none"
  BY <1>2 DEF EvidenceOK, BaselineOK, ReaderOK
<1>4. PICK head \in Nat : MoveTo(1, head) /\ head \in 1..Len(history')
  BY <1>1 DEF Commit, Reset, EvidenceOK, TypeOK
<1>5. /\ history' \in Seq(Trees) /\ Len(history') \in 1..MaxHead /\ Len(history) <= Len(history')
      /\ \A i \in 1..Len(history) : history'[i] = history[i]
  <2>1. history \in Seq(Trees) /\ Len(history) \in 1..MaxHead
    BY DEF EvidenceOK, TypeOK
  <2>2. CASE Commit(w)
    <3>1. PICK tree \in Trees : history' = Append(history, tree)
      BY <2>2 DEF Commit
    <3>2. Len(history) < MaxHead
      BY <2>2 DEF Commit
    <3> QED BY <2>1, <3>1, <3>2, EvidenceBounds
  <2>3. CASE Reset(w)
    BY <2>1, <2>3 DEF Reset
  <2> QED BY <2>2, <2>3
<1>6. UNCHANGED <<base, owner, turn, reading, view, artifacts, completed, up, crashes>>
      /\ tip' = [tip EXCEPT ![1] = head]
  BY <1>4 DEF MoveTo
<1>7. seen' = seen
  <2>1. seen' = [r \in Behavioral |-> seen[r]]
    BY <1>3, <1>4 DEF MoveTo
  <2> QED BY <2>1 DEF EvidenceOK, TypeOK
<1>8. GitTyped'
  BY <1>1, <1>4, <1>5, <1>6 DEF EvidenceOK, TypeOK, GitTyped
<1>9. RestTyped'
  BY <1>6, <1>7, TypeParts DEF EvidenceOK, RestTyped
<1>10. ArtsTyped(artifacts)'
  <2>1. \A type \in ArtifactType : artifacts[type].head <= Len(history')
    BY <1>5 DEF EvidenceOK, TypeOK, Artifact
  <2> QED BY <1>6, <2>1, TypeParts DEF EvidenceOK, ArtsTyped
<1>11. Since' = base[1] /\ Since = base[1]
  BY <1>3, <1>6 DEF Since
<1>12. ArtifactsOK'
  <2> SUFFICES ASSUME NEW type \in Behavioral, artifacts[type].head # 0, ~artifacts[type].stale
               PROVE  /\ artifacts[type].seen = {history'[artifacts[type].head]}
                      /\ history'[artifacts[type].head] = history'[base[1]]
    BY <1>6, <1>11 DEF ArtifactsOK, Evidenced
  <2>1. artifacts[type] \in Artifact /\ artifacts[type].head <= Len(history)
    BY DEF EvidenceOK, TypeOK, ArtifactType
  <2>2. artifacts[type].head \in 1..Len(history) /\ base[1] \in 1..Len(history)
    BY <1>1, <1>3, <2>1 DEF Artifact, EvidenceOK, TypeOK
  <2>3. artifacts[type].seen = {history[artifacts[type].head]} /\ history[artifacts[type].head] = history[base[1]]
    BY <1>11 DEF EvidenceOK, ArtifactsOK, Evidenced
  <2> QED BY <1>5, <2>2, <2>3
<1>13. BaselineOK' /\ ReaderOK'
  BY <1>3, <1>6 DEF EvidenceOK, BaselineOK, ReaderOK
<1> QED BY <1>8, <1>9, <1>10, <1>12, <1>13, TypePartsNext DEF EvidenceOK

LEMMA EndsTold ==
  ASSUME Alone, EvidenceOK,
         (\E w \in Writers : WriterEnds(w)) \/ (\E r \in Behavioral : ReaderEnds(r))
  PROVE  EvidenceOK'
<1>1. UNCHANGED <<history, tip, base, owner, view, seen, artifacts, completed, up, crashes>>
  BY DEF WriterEnds, ReaderEnds, git, readers
<1>2. GitTyped' /\ Since' = Since
  BY <1>1, BaseUntouched DEF EvidenceOK, git
<1>3. ArtsTyped(artifacts)' /\ ArtifactsOK'
  BY <1>1, <1>2, TypeParts, ArtsNext DEF EvidenceOK, ArtifactsOK, ArtsAt, git
<1>4. CASE \E w \in Writers : WriterEnds(w)
  <2>1. turn[1] \in {"open", "tainted"} /\ reading' = reading
    BY <1>4, OneWriter DEF WriterEnds, readers
  <2>2. PICK end \in Ends(turn[1]) : turn' = [turn EXCEPT ![1] = end]
    <3>1. PICK w \in Writers : WriterEnds(w)
      BY <1>4
    <3>2. w = 1
      BY OneWriter
    <3> QED BY <3>1, <3>2 DEF WriterEnds
  <2>3. end \in {"none", "result", "error"} /\ (end = "none" => turn[1] = "tainted")
    BY <2>2 DEF Ends
  <2>4. RestTyped' /\ turn'[1] = end
    BY <1>1, <2>1, <2>2, <2>3, OneWriter, TypeParts DEF EvidenceOK, RestTyped, TurnState
  <2>5. BaselineOK' /\ ReaderOK'
    BY <1>1, <2>1, <2>3, <2>4 DEF EvidenceOK, BaselineOK, ReaderOK
  <2> QED BY <1>2, <1>3, <2>4, <2>5, TypePartsNext DEF EvidenceOK
<1>5. CASE \E r \in Behavioral : ReaderEnds(r)
  <2>1. PICK r \in Behavioral : ReaderEnds(r)
    BY <1>5
  <2>2. PICK end \in {"result", "error"} : reading' = [reading EXCEPT ![r] = end]
    BY <2>1 DEF ReaderEnds, Ends
  <2>3. reading[r] = "open" /\ turn' = turn
    BY <2>1 DEF ReaderEnds
  <2>4. RestTyped'
    BY <1>1, <2>2, <2>3, TypeParts DEF EvidenceOK, RestTyped, TurnState
  <2>5. BaselineOK' /\ ReaderOK'
    BY <1>1, <2>2, <2>3 DEF EvidenceOK, BaselineOK, ReaderOK, TypeOK
  <2> QED BY <1>2, <1>3, <2>4, <2>5, TypePartsNext DEF EvidenceOK
<1> QED BY <1>4, <1>5

----------------------------------------------------------------------------
(* The end of a turn, the human, the controller *)

LEMMA WriterAppliesTold ==
  ASSUME Alone, EvidenceOK, NEW w \in Writers, WriterApplies(w)
  PROVE  EvidenceOK'
<1>1. w = 1 /\ Writers = {1}
  BY OneWriter
<1>2. UNCHANGED <<history, tip, owner, reading, view, seen, up, crashes>> /\ turn' = [turn EXCEPT ![1] = "none"]
  BY <1>1 DEF WriterApplies, git, readers
<1>3. base' = (IF owner[1] = "manager" THEN [base EXCEPT ![1] = 0] ELSE base) /\ turn[1] # "none"
  BY <1>1, Baselines DEF WriterApplies, EvidenceOK
<1>4. GitTyped' /\ (owner[1] = "manager" => base'[1] = 0 /\ Since' = tip[1]) /\ (owner[1] # "manager" => base' = base /\ Since' = Since)
  <2>1. 0 \in 0..Len(history)
    BY Heads DEF EvidenceOK
  <2>2. CASE owner[1] = "manager"
    BY <1>2, <1>3, <2>1, <2>2, BaseTyped DEF EvidenceOK, git
  <2>3. CASE owner[1] # "manager"
    BY <1>2, <1>3, <2>3, BaseUntouched DEF EvidenceOK, git
  <2> QED BY <2>2, <2>3
<1>5. PICK arts : /\ artifacts' = InvalidatedIf(1, arts)
                  /\ \/ arts = artifacts
                     \/ \E ok \in BOOLEAN : arts = Harvested("comment_resolutions", 1, {}, ok)
  BY <1>1 DEF WriterApplies
<1>6. ArtsTyped(arts) /\ ArtsAt(arts, Since)
  <2>1. ArtsTyped(artifacts) /\ ArtsAt(artifacts, Since)
    BY TypeParts DEF EvidenceOK, ArtifactsOK, ArtsAt
  <2>2. ASSUME NEW ok \in BOOLEAN
        PROVE  ArtsTyped(Harvested("comment_resolutions", 1, {}, ok))
               /\ ArtsAt(Harvested("comment_resolutions", 1, {}, ok), Since)
    <3> DEFINE new == [head |-> tip[1], stale |-> FALSE, ok |-> ok, seen |-> {}]
    <3>1. new \in Artifact /\ new.head <= Len(history)
      BY Heads DEF EvidenceOK, Artifact
    <3> HIDE DEF new
    <3>2. Harvested("comment_resolutions", 1, {}, ok) = [artifacts EXCEPT !["comment_resolutions"] = new]
      BY DEF Harvested, new
    <3> QED BY <2>1, <3>1, <3>2 DEF ArtsTyped, ArtsAt, Behavioral, ArtifactType
  <2> QED BY <1>5, <2>1, <2>2
<1>7. ArtsTyped(artifacts)' /\ ArtifactsOK'
  <2>1. owner[1] \in {"manager", "human"}
    BY <1>1 DEF EvidenceOK, TypeOK
  <2>2. ArtsTyped(InvalidatedIf(1, arts)) /\ ArtsAt(InvalidatedIf(1, arts), Since')
    BY <1>4, <1>6, InvalidatedIfTold DEF EvidenceOK
  <2> QED BY <1>2, <1>5, <2>2, ArtsNext DEF git
<1>8. RestTyped' /\ turn'[1] = "none"
  <2>1. completed' \in BOOLEAN
    BY DEF WriterApplies, CheckCompletion, EvidenceOK, TypeOK, Ready, Fresh
  <2> QED BY <1>1, <1>2, <2>1, TypeParts DEF EvidenceOK, RestTyped, TurnState
<1>9. owner[1] \in {"manager", "human"}
  BY <1>1 DEF EvidenceOK, TypeOK
<1>10. BaselineOK' /\ ReaderOK'
  BY <1>2, <1>3, <1>4, <1>8, <1>9 DEF EvidenceOK, BaselineOK, ReaderOK
<1> QED BY <1>4, <1>7, <1>8, <1>10, TypePartsNext DEF EvidenceOK

LEMMA ReaderAppliesTold ==
  ASSUME Alone, EvidenceOK, NEW r \in Behavioral, ReaderApplies(r)
  PROVE  EvidenceOK'
<1>1. UNCHANGED <<history, tip, base, owner, turn, view, up, crashes>>
      /\ reading' = [reading EXCEPT ![r] = "none"] /\ seen' = [seen EXCEPT ![r] = {}]
  BY DEF ReaderApplies, git
<1>2. reading[r] # "none" /\ turn[1] = "none" /\ owner[1] = "manager" /\ view[r] = 1 /\ seen[r] = {history[tip[1]]}
  BY DEF ReaderApplies, EvidenceOK, ReaderOK
<1>3. GitTyped' /\ Since' = Since /\ Since = tip[1]
  BY <1>1, <1>2, BaseUntouched DEF EvidenceOK, BaselineOK, Since, git
<1>4. ArtsTyped(artifacts) /\ ArtsAt(artifacts, Since)
  BY TypeParts DEF EvidenceOK, ArtifactsOK, ArtsAt
<1>5. ArtsTyped(artifacts)' /\ ArtifactsOK'
  <2>1. CASE artifacts' = artifacts
    BY <1>1, <1>3, <1>4, <2>1, ArtsNext DEF git
  <2>2. ASSUME NEW ok \in BOOLEAN, artifacts' = Harvested(r, view[r], seen[r], ok)
        PROVE  ArtsTyped(artifacts)' /\ ArtifactsOK'
    <3> DEFINE new == [head |-> tip[1], stale |-> FALSE, ok |-> ok, seen |-> seen[r]]
    <3>1. new \in Artifact /\ new.head <= Len(history)
      BY Heads DEF EvidenceOK, Artifact, TypeOK
    <3>2. Evidenced(new, Since)
      BY <1>2, <1>3 DEF Evidenced
    <3>3. artifacts' = [artifacts EXCEPT ![r] = new]
      BY <1>2, <2>2 DEF Harvested
    <3> HIDE DEF new
    <3>4. ArtsTyped([artifacts EXCEPT ![r] = new]) /\ ArtsAt([artifacts EXCEPT ![r] = new], Since)
      BY <1>4, <3>1, <3>2 DEF ArtsTyped, ArtsAt, ArtifactType
    <3> QED BY <1>1, <1>3, <3>3, <3>4, ArtsNext DEF git
  <2> QED BY <2>1, <2>2 DEF ReaderApplies
<1>6. RestTyped'
  <2>1. completed' \in BOOLEAN
    BY DEF ReaderApplies, CheckCompletion, EvidenceOK, TypeOK, Ready, Fresh
  <2> QED BY <1>1, <2>1, TypeParts DEF EvidenceOK, RestTyped, TurnState
<1>7. BaselineOK' /\ ReaderOK'
  BY <1>1, <1>2 DEF EvidenceOK, BaselineOK, ReaderOK, TypeOK
<1> QED BY <1>3, <1>5, <1>6, <1>7, TypePartsNext DEF EvidenceOK

LEMMA AttachTold ==
  ASSUME Alone, EvidenceOK, NEW w \in Writers, Attach(w)
  PROVE  EvidenceOK'
<1>1. w = 1 /\ Writers = {1} /\ \A r \in Behavioral : reading[r] = "none"
  BY OneWriter DEF Attach, QuietBut, Alone
<1>2. UNCHANGED <<history, tip, reading, view, seen, artifacts, completed, up, crashes>>
      /\ owner' = [owner EXCEPT ![1] = "human"] /\ turn' = [turn EXCEPT ![1] = IF @ = "open" THEN "tainted" ELSE @]
  BY <1>1 DEF Attach, git, readers
<1>3. base' = [base EXCEPT ![1] = Since]
  BY <1>1, Baselines DEF Attach, EvidenceOK
<1>4. Since \in 0..Len(history) /\ Since # 0
  BY Heads DEF EvidenceOK
<1>5. GitTyped' /\ base'[1] = Since /\ Since' = Since
  BY <1>2, <1>3, <1>4, BaseTyped DEF EvidenceOK, git
<1>6. ArtsTyped(artifacts)' /\ ArtifactsOK'
  BY <1>2, <1>5, TypeParts, ArtsNext DEF EvidenceOK, ArtifactsOK, ArtsAt, git
<1>7. RestTyped' /\ owner'[1] = "human" /\ turn'[1] # "open"
  BY <1>1, <1>2, TypeParts DEF EvidenceOK, RestTyped, TurnState
<1>8. BaselineOK' /\ ReaderOK'
  BY <1>1, <1>2, <1>4, <1>5, <1>7 DEF BaselineOK, ReaderOK
<1> QED BY <1>5, <1>6, <1>7, <1>8, TypePartsNext DEF EvidenceOK

LEMMA DetachTold ==
  ASSUME Alone, EvidenceOK, NEW w \in Writers, Detach(w)
  PROVE  EvidenceOK'
<1>1. w = 1 /\ Writers = {1} /\ owner[1] = "human" /\ turn[1] # "tainted"
  BY OneWriter DEF Detach, Alone
<1>2. UNCHANGED <<history, tip, turn, reading, view, seen, completed, up, crashes>>
      /\ owner' = [owner EXCEPT ![1] = "manager"] /\ artifacts' = Invalidated(1, artifacts)
      /\ base' = [base EXCEPT ![1] = 0]
  BY <1>1 DEF Detach, git, readers
<1>3. GitTyped' /\ base'[1] = 0 /\ Since' = tip[1]
  <2>1. 0 \in 0..Len(history)
    BY Heads DEF EvidenceOK
  <2> QED BY <1>2, <2>1, BaseTyped DEF EvidenceOK, git
<1>4. ArtsTyped(artifacts)' /\ ArtifactsOK'
  BY <1>2, <1>3, TypeParts, InvalidatedTold, ArtsNext DEF EvidenceOK, ArtifactsOK, ArtsAt, git
<1>5. RestTyped' /\ owner'[1] = "manager"
  BY <1>1, <1>2, TypeParts DEF EvidenceOK, RestTyped
<1>6. turn[1] # "open" /\ \A r \in Behavioral : reading[r] = "none"
  BY <1>1 DEF EvidenceOK, BaselineOK, ReaderOK
<1>7. BaselineOK' /\ ReaderOK'
  BY <1>1, <1>2, <1>3, <1>5, <1>6 DEF BaselineOK, ReaderOK
<1> QED BY <1>3, <1>4, <1>5, <1>7, TypePartsNext DEF EvidenceOK

LEMMA CrashTold ==
  ASSUME Alone, EvidenceOK, Crash
  PROVE  EvidenceOK'
<1>1. UNCHANGED <<history, tip, base, owner, turn, reading, view, seen, artifacts, completed>>
      /\ up' = FALSE /\ crashes' = crashes + 1
  BY DEF Crash, git, readers
<1>2. GitTyped' /\ Since' = Since
  BY <1>1, BaseUntouched DEF EvidenceOK, git
<1>3. ArtsTyped(artifacts)' /\ ArtifactsOK'
  BY <1>1, <1>2, TypeParts, ArtsNext DEF EvidenceOK, ArtifactsOK, ArtsAt, git
<1>4. RestTyped'
  <2>1. RestTyped
    BY TypeParts DEF EvidenceOK
  <2>2. crashes' \in Nat
    BY <1>1, <2>1 DEF RestTyped
  <2> QED BY <1>1, <2>1, <2>2 DEF RestTyped
<1>5. BaselineOK' /\ ReaderOK'
  BY <1>1 DEF EvidenceOK, BaselineOK, ReaderOK
<1> QED BY <1>2, <1>3, <1>4, <1>5, TypePartsNext DEF EvidenceOK

(* The baseline of a runtime that is gone is applied and dropped, that of   *)
(* one that lives is applied and kept.                                      *)
LEMMA RecoverTold ==
  ASSUME Alone, EvidenceOK, Recover
  PROVE  EvidenceOK'
<1>1. Writers = {1} /\ base \in [{1} -> 0..Len(history)] /\ turn \in [{1} -> TurnState]
  BY OneWriter DEF EvidenceOK, TypeOK
<1>2. UNCHANGED <<history, tip, owner, reading, view, seen, completed, crashes>> /\ up' = TRUE
      /\ artifacts' = InvalidatedIf(1, artifacts)
  BY Baselines DEF Recover, git, readers, EvidenceOK
<1>3. PICK gone \in SUBSET {w \in Writers : owner[w] = "manager"} :
        /\ base' = [w \in Writers |-> IF w \in gone THEN 0 ELSE base[w]]
        /\ turn' = [w \in Writers |-> IF w \in gone THEN "none" ELSE turn[w]]
  BY DEF Recover, BaseAdopted
<1>4. ArtsTyped(artifacts) /\ ArtsAt(artifacts, Since)
  BY TypeParts DEF EvidenceOK, ArtifactsOK, ArtsAt
<1>5. CASE 1 \in gone
  <2>1. base' = [base EXCEPT ![1] = 0] /\ turn' = [turn EXCEPT ![1] = "none"] /\ owner[1] = "manager"
    BY <1>1, <1>3, <1>5
  <2>2. GitTyped' /\ base'[1] = 0 /\ Since' = tip[1]
    <3>1. 0 \in 0..Len(history)
      BY Heads DEF EvidenceOK
    <3> QED BY <1>2, <2>1, <3>1, BaseTyped DEF EvidenceOK, git
  <2>3. ArtsTyped(artifacts)' /\ ArtifactsOK'
    BY <1>2, <1>4, <2>1, <2>2, InvalidatedIfTold, ArtsNext DEF EvidenceOK, git
  <2>4. RestTyped' /\ turn'[1] = "none"
    BY <1>1, <1>2, <2>1, TypeParts DEF EvidenceOK, RestTyped, TurnState
  <2>5. BaselineOK' /\ ReaderOK'
    BY <1>2, <2>1, <2>2, <2>4 DEF EvidenceOK, BaselineOK, ReaderOK
  <2> QED BY <2>2, <2>3, <2>4, <2>5, TypePartsNext DEF EvidenceOK
<1>6. CASE 1 \notin gone
  <2>1. base' = base /\ turn' = turn
    BY <1>1, <1>3, <1>6
  <2>2. GitTyped' /\ Since' = Since
    BY <1>2, <2>1, BaseUntouched DEF EvidenceOK, git
  <2>3. ArtsTyped(artifacts)' /\ ArtifactsOK'
    BY <1>2, <1>4, <2>2, InvalidatedIfTold, ArtsNext DEF EvidenceOK, git
  <2>4. RestTyped'
    BY <1>2, <2>1, TypeParts DEF EvidenceOK, RestTyped
  <2>5. BaselineOK' /\ ReaderOK'
    BY <1>2, <2>1 DEF EvidenceOK, BaselineOK, ReaderOK
  <2> QED BY <2>2, <2>3, <2>4, <2>5, TypePartsNext DEF EvidenceOK
<1> QED BY <1>5, <1>6

----------------------------------------------------------------------------
(* The invariant *)

LEMMA EvidenceInitial == ASSUME Alone, Init PROVE EvidenceOK
<1>1. Writers = {1} /\ MaxHead \in Nat \ {0}
  BY OneWriter, EvidenceBounds
<1>2. history \in Seq(Trees) /\ Len(history) = 1
  <2>1. PICK one \in [1..1 -> Trees] : history = one
    BY DEF Init
  <2>2. 1..1 = 1..Len(<<one[1]>>) /\ <<one[1]>> \in Seq(Trees) /\ \A i \in 1..1 : <<one[1]>>[i] = one[i]
    OBVIOUS
  <2>3. one = [i \in 1..1 |-> one[i]] /\ <<one[1]>> = [i \in 1..1 |-> one[i]]
    BY <2>2
  <2>4. <<one[1]>> = one
    BY <2>3
  <2> QED BY <2>1, <2>2, <2>4
<1>3. NoArtifact \in Artifact /\ NoArtifact.head = 0
  BY <1>1 DEF NoArtifact, Artifact
<1>4. ArtsTyped(artifacts) /\ ArtifactsOK
  BY <1>2, <1>3 DEF Init, ArtsTyped, ArtifactsOK, Evidenced, ArtifactType
<1>5. GitTyped
  BY <1>1, <1>2 DEF Init, GitTyped
<1>6. RestTyped
  BY <1>1 DEF Init, RestTyped, TurnState
<1>7. BaselineOK /\ ReaderOK
  BY <1>1 DEF Init, BaselineOK, ReaderOK
<1> QED BY <1>4, <1>5, <1>6, <1>7, TypeParts DEF EvidenceOK

LEMMA EvidenceStutter == ASSUME EvidenceOK, UNCHANGED vars PROVE EvidenceOK'
<1>1. UNCHANGED <<history, tip, base, owner, turn, reading, view, seen, artifacts, completed, up, crashes>>
  BY DEF vars
<1>2. GitTyped' /\ Since' = Since
  BY <1>1, BaseUntouched DEF EvidenceOK, git
<1>3. ArtsTyped(artifacts)' /\ ArtifactsOK'
  BY <1>1, <1>2, TypeParts, ArtsNext DEF EvidenceOK, ArtifactsOK, ArtsAt, git
<1>4. RestTyped'
  BY <1>1, TypeParts DEF EvidenceOK, RestTyped
<1>5. BaselineOK' /\ ReaderOK'
  BY <1>1 DEF EvidenceOK, BaselineOK, ReaderOK
<1> QED BY <1>2, <1>3, <1>4, <1>5, TypePartsNext DEF EvidenceOK

LEMMA EvidenceStep == ASSUME Alone, EvidenceOK, [Next]_vars PROVE EvidenceOK'
<1>1. CASE \E w \in Writers : WriterStep(w)
  BY <1>1, StartsTold, MovesTold, EndsTold, WriterAppliesTold DEF WriterStep
<1>2. CASE \E w \in Writers : Intervention(w)
  BY <1>2, AttachTold, DetachTold DEF Intervention
<1>3. CASE \E r \in Behavioral : ReaderStep(r)
  BY <1>3, ReadersTold, EndsTold, ReaderAppliesTold DEF ReaderStep
<1>4. CASE Crash \/ Recover
  BY <1>4, CrashTold, RecoverTold
<1>5. CASE UNCHANGED vars
  BY <1>5, EvidenceStutter
<1> QED BY <1>1, <1>2, <1>3, <1>4, <1>5 DEF Next

LEMMA EvidenceInvariant == ASSUME Alone PROVE Spec => []EvidenceOK
<1>1. Init => EvidenceOK
  BY EvidenceInitial
<1>2. EvidenceOK /\ [Next]_vars => EvidenceOK'
  BY EvidenceStep
<1> QED BY <1>1, <1>2, PTL DEF Spec

----------------------------------------------------------------------------
(* What a step does to the evidence of a verification or a review *)

(* An edit outdates, a restack moves the head over the same tree. *)
LEMMA MarkedOrMoved ==
  ASSUME Alone, EvidenceOK, NEW type \in Behavioral, NEW arts, ArtsTyped(arts),
         arts[type] = artifacts[type]
  PROVE  LET new == Invalidated(1, arts)[type] IN
         /\ artifacts[type].head # 0 /\ ~artifacts[type].stale /\ new.stale
            => history[artifacts[type].head] # history[tip[1]]
         /\ new.head # artifacts[type].head => history[new.head] = history[artifacts[type].head]
<1> DEFINE old == artifacts[type]
           new == Invalidated(1, arts)[type]
           moved == [old EXCEPT !.head = tip[1]]
           marked == [old EXCEPT !.stale = TRUE]
           change == Change(base[1], tip[1])
<1>1. type \in ArtifactType /\ old \in Artifact
  BY DEF ArtifactType, EvidenceOK, TypeOK
<1>2. moved.head = tip[1] /\ moved.stale = old.stale /\ marked.head = old.head
  BY <1>1 DEF Artifact
<1>3. Evidenced(old, Since)
  BY DEF EvidenceOK, ArtifactsOK
<1> HIDE DEF moved, marked, old
<1>4. CASE new = old
  BY <1>4 DEF old
<1>5. CASE new # old
  <2>1. base[1] # 0 /\ new = After(change, old, tip[1])
    BY <1>1, <1>5 DEF Invalidated, old
  <2>2. Since = base[1]
    BY <2>1 DEF Since
  <2>3. new = IF old.stale \/ old.head = 0 \/ change = "none" THEN old
              ELSE IF change = "restack" THEN moved ELSE marked
    BY <2>1 DEF After, moved, marked
  <2>4. ~old.stale /\ old.head # 0 /\ change # "none" /\ history[old.head] = history[base[1]]
    BY <1>3, <1>5, <2>2, <2>3 DEF Evidenced
  <2>5. CASE history[base[1]] = history[tip[1]]
    <3>1. change = "restack"
      BY <2>4, <2>5 DEF Change
    <3>2. new = moved
      BY <2>3, <2>4, <3>1
    <3> QED BY <1>2, <2>4, <2>5, <3>2 DEF old
  <2>6. CASE history[base[1]] # history[tip[1]]
    <3>1. change = "edit"
      BY <2>4, <2>6 DEF Change
    <3>2. new = marked
      BY <2>3, <2>4, <3>1
    <3> QED BY <1>2, <2>4, <2>6, <3>2 DEF old
  <2> QED BY <2>5, <2>6
<1> QED BY <1>4, <1>5

(* Evidence is new, or is what it was with a baseline consumed. *)
LEMMA EvidenceMoves ==
  ASSUME Alone, EvidenceOK, [Next]_vars, NEW type \in Behavioral
  PROVE  \/ artifacts'[type] = artifacts[type]
         \/ \E arts : ArtsTyped(arts) /\ arts[type] = artifacts[type] /\ artifacts' = Invalidated(1, arts)
         \/ reading[type] = "result" /\ ~artifacts'[type].stale
<1>0. \A arts : InvalidatedIf(1, arts) = arts \/ InvalidatedIf(1, arts) = Invalidated(1, arts)
  BY DEF InvalidatedIf
<1>1. ArtsTyped(artifacts) /\ type \in ArtifactType /\ type # "comment_resolutions"
  BY TypeParts DEF EvidenceOK, ArtifactType, Behavioral
<1>2. Reconciled = InvalidatedIf(1, artifacts)
  BY Baselines DEF EvidenceOK
<1>3. CASE \E w \in Writers : WriterStep(w) \/ Intervention(w)
  <2>1. PICK w \in Writers : WriterStep(w) \/ Intervention(w)
    BY <1>3
  <2>2. w = 1
    BY OneWriter
  <2>3. CASE StartWriter(w) \/ Send(w)
    <3>1. artifacts' = InvalidatedIf(1, artifacts)
      BY <1>2, <2>2, <2>3 DEF StartWriter, Send
    <3> QED BY <1>0, <1>1, <3>1
  <2>4. CASE Commit(w) \/ Reset(w) \/ WriterEnds(w) \/ Attach(w)
    BY <2>4 DEF Commit, Reset, MoveTo, WriterEnds, Attach
  <2>5. CASE Detach(w)
    <3>1. artifacts' = Invalidated(1, artifacts) 
      BY <2>2, <2>5 DEF Detach
    <3> QED BY <1>0, <1>1, <3>1
  <2>6. CASE WriterApplies(w)
    <3>1. PICK arts : /\ artifacts' = InvalidatedIf(1, arts)
                      /\ \/ arts = artifacts
                         \/ \E ok \in BOOLEAN : arts = Harvested("comment_resolutions", 1, {}, ok)
      BY <2>2, <2>6 DEF WriterApplies
    <3>2. ASSUME NEW ok \in BOOLEAN
          PROVE  ArtsTyped(Harvested("comment_resolutions", 1, {}, ok))
                 /\ Harvested("comment_resolutions", 1, {}, ok)[type] = artifacts[type]
      <4> DEFINE new == [head |-> tip[1], stale |-> FALSE, ok |-> ok, seen |-> {}]
      <4>1. new \in Artifact /\ new.head <= Len(history)
        BY Heads DEF EvidenceOK, Artifact
      <4> HIDE DEF new
      <4>2. Harvested("comment_resolutions", 1, {}, ok) = [artifacts EXCEPT !["comment_resolutions"] = new]
        BY DEF Harvested, new
      <4> QED BY <1>1, <4>1, <4>2 DEF ArtsTyped, ArtifactType
    <3> QED BY <1>0, <1>1, <3>1, <3>2
  <2> QED BY <2>1, <2>3, <2>4, <2>5, <2>6 DEF WriterStep, Intervention
<1>4. CASE \E r \in Behavioral : ReaderStep(r)
  <2>1. PICK r \in Behavioral : ReaderStep(r)
    BY <1>4
  <2>2. CASE StartReader(r)
    <3>1. artifacts' = InvalidatedIf(1, artifacts)
      BY <1>2, <2>2 DEF StartReader
    <3> QED BY <1>0, <1>1, <3>1
  <2>3. CASE Message(r) \/ ReaderEnds(r)
    BY <2>3 DEF Message, ReaderEnds
  <2>4. CASE ReaderApplies(r)
    <3>1. CASE reading[r] = "error"
      BY <2>4, <3>1 DEF ReaderApplies
    <3>2. CASE reading[r] # "error"
      <4>1. PICK ok \in BOOLEAN : artifacts' = Harvested(r, view[r], seen[r], ok)
        BY <2>4, <3>2 DEF ReaderApplies
      <4> DEFINE new == [head |-> tip[view[r]], stale |-> FALSE, ok |-> ok, seen |-> seen[r]]
      <4>2. ~new.stale
        OBVIOUS
      <4> HIDE DEF new
      <4>3. artifacts' = [artifacts EXCEPT ![r] = new] /\ reading[r] = "result"
        BY <2>4, <3>2, <4>1 DEF Harvested, ReaderApplies, new
      <4>4. artifacts'[type] = IF type = r THEN new ELSE artifacts[type]
        BY <1>1, <4>3 DEF ArtsTyped
      <4> QED BY <4>2, <4>3, <4>4
    <3> QED BY <3>1, <3>2
  <2> QED BY <2>1, <2>2, <2>3, <2>4 DEF ReaderStep
<1>5. CASE Crash \/ UNCHANGED vars
  BY <1>5 DEF Crash, vars
<1>6. CASE Recover
  <2>1. artifacts' = InvalidatedIf(1, artifacts)
    BY <1>2, <1>6 DEF Recover
  <2> QED BY <1>0, <1>1, <2>1
<1> QED BY <1>3, <1>4, <1>5, <1>6 DEF Next

----------------------------------------------------------------------------
(* The theorems *)

(* Every variable keeps to its type, and no head is beyond the history.     *)
THEOREM TypeCorrect == ASSUME Alone PROVE Spec => []TypeOK
<1>1. EvidenceOK => TypeOK
  BY DEF EvidenceOK
<1> QED BY <1>1, EvidenceInvariant, PTL

LEMMA CurrentIsSeen ==
  ASSUME Alone, EvidenceOK
  PROVE  EvidenceSawItsTree
<1> SUFFICES ASSUME NEW type \in Behavioral, Stored(type), Fresh(artifacts[type], tip[1])
             PROVE  artifacts[type].seen = {history[tip[1]]}
  BY OneWriter DEF EvidenceSawItsTree
<1> QED BY DEF EvidenceOK, ArtifactsOK, Evidenced, Stored, Fresh

(* Evidence is_fresh passes for current was gained on exactly the content   *)
(* the lineage has, whatever was edited, reverted, restacked or reset, by   *)
(* whom, and however often the board was down meanwhile.                    *)
THEOREM SeenWhatItCertifies == ASSUME Alone PROVE Spec => []EvidenceSawItsTree
<1>1. EvidenceOK => EvidenceSawItsTree
  BY CurrentIsSeen
<1> QED BY <1>1, EvidenceInvariant, PTL

(* Content that left unmarked evidence behind has a baseline that will mark *)
(* it (snapshot_before_turn, apply_invalidation).                           *)
THEOREM MovementNoticed == ASSUME Alone PROVE Spec => []MovementIsNoticed
<1>1. EvidenceOK => MovementIsNoticed
  BY OneWriter DEF EvidenceOK, ArtifactsOK, Evidenced, Since, MovementIsNoticed, Stored
<1> QED BY <1>1, EvidenceInvariant, PTL

LEMMA CompletedSeen ==
  ASSUME Alone, EvidenceOK, EvidenceOK', [Next]_vars, ~completed, completed', NEW type \in Behavioral
  PROVE  artifacts'[type].seen = {history[tip[1]]}
<1>1. EvidenceSawItsTree'
  <2>1. \A t \in Behavioral : Evidenced(artifacts[t], Since)'
    BY DEF EvidenceOK, ArtifactsOK
  <2> QED BY <2>1, OneWriter DEF EvidenceSawItsTree, Evidenced, Stored, Fresh
<1>2. (\E w \in Writers : WriterApplies(w)) \/ (\E r \in Behavioral : ReaderApplies(r))
  BY DEF Next, WriterStep, Intervention, ReaderStep, StartWriter, Send, Commit, Reset, MoveTo, WriterEnds,
         Attach, Detach, StartReader, Message, ReaderEnds, Crash, Recover, vars
<1>3. Ready(artifacts') /\ UNCHANGED git
  BY <1>2 DEF WriterApplies, ReaderApplies, CheckCompletion
<1>4. artifacts'[type].head = tip[1] /\ ~artifacts'[type].stale /\ tip' = tip /\ history' = history
  BY <1>3, OneWriter DEF Ready, Fresh, git
<1>5. tip[1] # 0
  BY Heads DEF EvidenceOK
<1> QED BY <1>1, <1>4, <1>5, OneWriter DEF EvidenceSawItsTree, Stored, Fresh

(* _check_completion announces the job only on a verification and a review  *)
(* of the content it has at that moment.                                    *)
THEOREM CompletedOnSeen == ASSUME Alone PROVE Spec => CompletedOnEvidence
<1>1. EvidenceOK /\ EvidenceOK' /\ [Next]_vars =>
        [~completed /\ completed' =>
          \A type \in Behavioral : artifacts'[type].seen = {history[tip[lineage]]}]_vars
  BY CompletedSeen, OneWriter
<1> QED BY <1>1, EvidenceInvariant, PTL DEF Spec, CompletedOnEvidence

(* Evidence about the content the lineage has is never marked stale.        *)
THEOREM KeptIfSame == ASSUME Alone PROVE Spec => StaleOnlyIfMoved
<1>1. EvidenceOK /\ EvidenceOK' /\ [Next]_vars =>
        [\A type \in Behavioral :
           Stored(type) /\ ~artifacts[type].stale /\ artifacts'[type].stale
           => history[artifacts[type].head] # history[tip[lineage]]]_vars
  <2> SUFFICES ASSUME EvidenceOK, [Next]_vars, NEW type \in Behavioral,
                      Stored(type), ~artifacts[type].stale, artifacts'[type].stale
               PROVE  history[artifacts[type].head] # history[tip[1]]
    BY OneWriter
  <2> QED BY EvidenceMoves, MarkedOrMoved DEF Stored
<1> QED BY <1>1, EvidenceInvariant, PTL DEF Spec, StaleOnlyIfMoved

(* relineage moves evidence to a new head only over the tree it is about.   *)
THEOREM MovedOverItsTree == ASSUME Alone PROVE Spec => RelineageKeepsTree
<1>1. EvidenceOK /\ EvidenceOK' /\ [Next]_vars =>
        [\A type \in Behavioral :
           reading[type] # "result" /\ artifacts'[type].head # artifacts[type].head
           => history[artifacts'[type].head] = history[artifacts[type].head]]_vars
  BY EvidenceMoves, MarkedOrMoved
<1> QED BY <1>1, EvidenceInvariant, PTL DEF Spec, RelineageKeepsTree
=============================================================================
