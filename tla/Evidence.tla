------------------------------ MODULE Evidence ------------------------------
(***************************************************************************)
(* The evidence of one job and the Git history it is about: which head an  *)
(* artifact is stamped with, how a writer's baseline is taken and consumed,*)
(* what a change outdates, and when the job is announced complete.         *)
(*                                                                         *)
(* Writers are the job's writable workers, each in a worktree of its own;  *)
(* one worktree is the job's lineage.  Readers are the read-only workers,  *)
(* named by the artifact they produce; they look at a writer's worktree.   *)
(* A commit is its position in history, which holds its tree.              *)
(*                                                                         *)
(* Abstracted: uncommitted edits, how a turn is delivered (TurnLane), and  *)
(* everything of the gate but the evidence (plan, criteria, run, children).*)
(* The user choosing another lineage, and a git reading that fails, are not*)
(* modelled.                                                               *)
(***************************************************************************)
EXTENDS Naturals, Sequences, FiniteSets

CONSTANTS
  NumWriters,   \* writable workers of the job
  Trees,        \* contents a commit may have
  MaxHead,      \* bound on commits
  MaxCrashes,   \* bound on controller crashes
  Overlap       \* whether workers and humans work at the same time

ASSUME EvidenceBounds ==
  /\ NumWriters \in Nat \ {0} /\ MaxHead \in Nat \ {0}
  /\ MaxCrashes \in Nat /\ Overlap \in BOOLEAN /\ Trees # {}

VARIABLES
  history,    \* the tree of every commit, in the order they were made
  tip,        \* HEAD of every writer's worktree
  base,       \* HEAD before the writer's turn, 0 when there is no baseline
  owner,      \* who holds the writer's session
  turn,       \* the writer's turn
  reading,    \* the reader's turn
  view,       \* the worktree the reader looks at, 0 before it is started
  seen,       \* the trees the reader's open turn has looked at
  artifacts,  \* the latest artifact of each type
  completed,  \* Job.completed_at is set
  up,         \* the controller runs
  crashes     \* crashes so far

vars == <<history, tip, base, owner, turn, reading, view, seen, artifacts, completed, up, crashes>>
git == <<history, tip>>
readers == <<reading, view, seen>>

Writers == 1..NumWriters
\* the first writer's worktree is the authoritative one
lineage == 1
Behavioral == {"verification", "review"}
ArtifactType == Behavioral \union {"comment_resolutions"}
TurnState == {"none", "open", "tainted", "result", "error"}
Artifact == [head : 0..MaxHead, stale : BOOLEAN, ok : BOOLEAN, seen : SUBSET Trees]
NoArtifact == [head |-> 0, stale |-> FALSE, ok |-> FALSE, seen |-> {}]
Stored(type) == artifacts[type].head # 0

Init ==
  /\ history \in [1..1 -> Trees]
  /\ tip = [w \in Writers |-> 1]
  /\ base = [w \in Writers |-> 0]
  /\ owner = [w \in Writers |-> "manager"]
  /\ turn = [w \in Writers |-> "none"]
  /\ reading = [r \in Behavioral |-> "none"]
  /\ view = [r \in Behavioral |-> 0]
  /\ seen = [r \in Behavioral |-> {}]
  /\ artifacts = [type \in ArtifactType |-> NoArtifact]
  /\ completed = FALSE /\ up = TRUE
  /\ crashes = 0

----------------------------------------------------------------------------
(* Baselines and what a change outdates                                     *)

(* snapshot_before_turn: an existing baseline is kept. *)
SnapshotOfNext(b, w) == [b EXCEPT ![w] = tip[w] + 1]  \* mutation
Snapshot(b, w) == IF b[w] = 0 THEN [b EXCEPT ![w] = tip[w]] ELSE b

(* classify_change *)
ChangeByHead(before, after) ==  \* mutation
  IF before = after THEN "none" ELSE "restack"
ChangeOfAnyKind(before, after) ==  \* mutation
  IF before = after THEN "none" ELSE "edit"
Change(before, after) ==
  CASE before = after -> "none"
    [] before # after /\ history[before] = history[after] -> "restack"
    [] OTHER -> "edit"

(* relineage, or artifacts_invalidated_by *)
After(change, artifact, head) ==
  IF artifact.stale \/ artifact.head = 0 \/ change = "none" THEN artifact
  ELSE IF change = "restack" THEN [artifact EXCEPT !.head = head]
  ELSE [artifact EXCEPT !.stale = TRUE]

(* apply_invalidation: what becomes of the artifacts as w's baseline is     *)
(* consumed.                                                                *)
Invalidated(w, arts) ==
  [type \in ArtifactType |->
     IF type \in Behavioral /\ base[w] # 0
     THEN After(Change(base[w], tip[w]), arts[type], tip[w]) ELSE arts[type]]

(* A baseline is left alone while a human holds the session. *)
Consumable(w) == owner[w] = "manager"
InvalidatedIf(w, arts) == IF Consumable(w) THEN Invalidated(w, arts) ELSE arts
BaseAfter(w) == IF Consumable(w) THEN [base EXCEPT ![w] = 0] ELSE base

(* _reconcile_job_git: every writer's baseline in turn. *)
Reconciled ==
  LET upTo[n \in 0..NumWriters] ==
        IF n = 0 THEN artifacts ELSE InvalidatedIf(n, upTo[n - 1])
  IN  upTo[NumWriters]
ReconciledBase == [w \in Writers |-> IF Consumable(w) THEN 0 ELSE base[w]]

(* Without Overlap: one turn at a time, a human enters only the session     *)
(* whose turn it is or an idle one, and leaves when its turn is over.       *)
Quiet ==
  /\ \A w \in Writers : turn[w] = "none" /\ owner[w] = "manager"
  /\ \A r \in Behavioral : reading[r] = "none"
MayBegin == up /\ (Overlap \/ Quiet)

----------------------------------------------------------------------------
(* Turns                                                                    *)

(* start_workflow on the lineage's writer: the job is reconciled, then send *)
(* takes the baseline anew.                                                 *)
StartWriter(w) ==
  /\ MayBegin /\ w = lineage /\ owner[w] = "manager" /\ turn[w] = "none"
  /\ artifacts' = Reconciled
  /\ base' = Snapshot(ReconciledBase, w)
  /\ turn' = [turn EXCEPT ![w] = "open"]
  /\ UNCHANGED <<git, owner, readers, completed, up, crashes>>

(* send to any writer. A busy lane refuses after the baseline was renewed.  *)
Send(w) ==
  /\ MayBegin /\ owner[w] = "manager"
  /\ artifacts' = InvalidatedIf(w, artifacts)
  /\ base' = Snapshot(BaseAfter(w), w)
  /\ turn' = [turn EXCEPT ![w] = IF @ = "none" THEN "open" ELSE @]
  /\ UNCHANGED <<git, owner, readers, completed, up, crashes>>

(* start_workflow with a fresh reader: it is put in the lineage's worktree. *)
StartReader(r) ==
  /\ MayBegin /\ reading[r] = "none"
  /\ artifacts' = Reconciled /\ base' = ReconciledBase
  /\ reading' = [reading EXCEPT ![r] = "open"]
  /\ view' = [view EXCEPT ![r] = lineage]
  /\ seen' = [seen EXCEPT ![r] = {history[tip[lineage]]}]
  /\ UNCHANGED <<git, owner, turn, completed, up, crashes>>

(* send to a reader that exists: nothing is reconciled. *)
Message(r) ==
  /\ MayBegin /\ reading[r] = "none" /\ view[r] # 0
  /\ reading' = [reading EXCEPT ![r] = "open"]
  /\ seen' = [seen EXCEPT ![r] = {history[tip[view[r]]]}]
  /\ UNCHANGED <<git, base, owner, turn, view, artifacts, completed, up, crashes>>

(* A worker in its turn, or the human in the session, commits or resets:    *)
(* an edit, a revert, a restack.                                            *)
MoveTo(w, head) ==
  /\ turn[w] \in {"open", "tainted"} \/ owner[w] = "human"
  /\ tip' = [tip EXCEPT ![w] = head]
  /\ seen' = [r \in Behavioral |-> IF reading[r] = "open" /\ view[r] = w
                                   THEN seen[r] \union {history'[head]} ELSE seen[r]]
  /\ UNCHANGED <<base, owner, turn, reading, view, artifacts, completed, up, crashes>>
Commit(w) ==
  /\ Len(history) < MaxHead
  /\ \E tree \in Trees : history' = Append(history, tree)
  /\ MoveTo(w, Len(history) + 1)
Reset(w) ==
  /\ UNCHANGED history
  /\ \E head \in 1..Len(history) : head # tip[w] /\ MoveTo(w, head)

(* The turn ends; a tainted one yields nothing. *)
Ends(state) == IF state = "tainted" THEN {"none"} ELSE {"result", "error"}
WriterEnds(w) ==
  /\ turn[w] \in {"open", "tainted"}
  /\ \E end \in Ends(turn[w]) : turn' = [turn EXCEPT ![w] = end]
  /\ UNCHANGED <<git, base, owner, readers, artifacts, completed, up, crashes>>
ReaderEnds(r) ==
  /\ reading[r] = "open"
  /\ \E end \in Ends(reading[r]) : reading' = [reading EXCEPT ![r] = end]
  /\ UNCHANGED <<git, base, owner, turn, view, seen, artifacts, completed, up, crashes>>

----------------------------------------------------------------------------
(* _apply: the end of a turn takes effect                                   *)

(* job_completion, as far as it is about the evidence of unconditional      *)
(* steps.                                                                   *)
FreshOnceStored(artifact, head) == artifact.head # 0  \* mutation
Fresh(artifact, head) == artifact.head = head /\ ~artifact.stale
Ready(arts) == \A type \in Behavioral : Fresh(arts[type], tip[lineage]) /\ arts[type].ok
CheckCompletion == completed' = (completed \/ Ready(artifacts'))

(* _harvest_artifact: stamped with the worktree's head as it is now. *)
Harvested(type, w, trees, ok) ==
  [artifacts EXCEPT ![type] = [head |-> tip[w], stale |-> FALSE, ok |-> ok, seen |-> trees]]

WriterApplies(w) ==
  /\ up /\ turn[w] \in {"result", "error"}
  /\ turn' = [turn EXCEPT ![w] = "none"]
  /\ IF turn[w] = "error"
     THEN artifacts' = InvalidatedIf(w, artifacts) /\ UNCHANGED completed
     ELSE /\ \E arts \in {artifacts} \union
                          {Harvested("comment_resolutions", w, {}, ok) : ok \in BOOLEAN} :
               artifacts' = InvalidatedIf(w, arts)
          /\ CheckCompletion
  /\ base' = BaseAfter(w)
  /\ UNCHANGED <<git, owner, readers, up, crashes>>

ReaderApplies(r) ==
  /\ up /\ reading[r] \in {"result", "error"}
  /\ reading' = [reading EXCEPT ![r] = "none"]
  /\ seen' = [seen EXCEPT ![r] = {}]
  /\ IF reading[r] = "error" THEN UNCHANGED <<artifacts, completed>>
     ELSE /\ \E ok \in BOOLEAN : artifacts' = Harvested(r, view[r], seen[r], ok)
          /\ CheckCompletion
  /\ UNCHANGED <<git, base, owner, turn, view, up, crashes>>

----------------------------------------------------------------------------
(* A human enters a writer's session, and leaves it                         *)

QuietBut(w) ==
  /\ \A v \in Writers \ {w} : turn[v] = "none" /\ owner[v] = "manager"
  /\ \A r \in Behavioral : reading[r] = "none"

Attach(w) ==
  /\ up /\ owner[w] = "manager" /\ (Overlap \/ QuietBut(w))
  /\ base' = Snapshot(base, w)
  /\ owner' = [owner EXCEPT ![w] = "human"]
  /\ turn' = [turn EXCEPT ![w] = IF @ = "open" THEN "tainted" ELSE @]
  /\ UNCHANGED <<git, readers, artifacts, completed, up, crashes>>

(* detach forces the baseline, and does not ask whether the turn the human  *)
(* found there still goes on.                                               *)
Detach(w) ==
  /\ up /\ owner[w] = "human" /\ (Overlap \/ turn[w] # "tainted")
  /\ owner' = [owner EXCEPT ![w] = "manager"]
  /\ artifacts' = Invalidated(w, artifacts)
  /\ base' = [base EXCEPT ![w] = 0]
  /\ UNCHANGED <<git, turn, readers, completed, up, crashes>>

----------------------------------------------------------------------------
(* Crash and recover()                                                      *)

Crash ==
  /\ up /\ crashes < MaxCrashes
  /\ up' = FALSE
  /\ crashes' = crashes + 1
  /\ UNCHANGED <<git, base, owner, turn, readers, artifacts, completed>>

(* Every writer a human does not hold has its baseline applied. A runtime   *)
(* that is gone is replaced by one without a baseline; one that lives is    *)
(* adopted, and the row read before the baseline was consumed is saved: a   *)
(* turn that goes on keeps the baseline it began with.                      *)
BaseConsumed(w) == 0  \* mutation
BaseAdopted(w) == base[w]
Recover ==
  /\ ~up /\ up' = TRUE
  /\ artifacts' = Reconciled
  /\ \E gone \in SUBSET {w \in Writers : owner[w] = "manager"} :
       /\ base' = [w \in Writers |-> IF w \in gone THEN 0 ELSE BaseAdopted(w)]
       /\ turn' = [w \in Writers |-> IF w \in gone THEN "none" ELSE turn[w]]
  /\ UNCHANGED <<git, owner, readers, completed, crashes>>

----------------------------------------------------------------------------
(* The specification *)

WriterStep(w) ==
  StartWriter(w) \/ Send(w) \/ Commit(w) \/ Reset(w) \/ WriterEnds(w) \/ WriterApplies(w)
ReaderStep(r) == StartReader(r) \/ Message(r) \/ ReaderEnds(r) \/ ReaderApplies(r)
Intervention(w) == Attach(w) \/ Detach(w)

Next ==
  \/ \E w \in Writers : WriterStep(w) \/ Intervention(w)
  \/ \E r \in Behavioral : ReaderStep(r)
  \/ Crash \/ Recover

Spec == Init /\ [][Next]_vars

----------------------------------------------------------------------------
(* Properties *)

(* Every variable keeps to its type, and no head is beyond the history.     *)
TypeOK ==
  /\ history \in Seq(Trees) /\ Len(history) \in 1..MaxHead
  /\ tip \in [Writers -> 1..Len(history)]
  /\ base \in [Writers -> 0..Len(history)]
  /\ owner \in [Writers -> {"manager", "human"}]
  /\ turn \in [Writers -> TurnState]
  /\ reading \in [Behavioral -> TurnState]
  /\ view \in [Behavioral -> {0} \union Writers]
  /\ seen \in [Behavioral -> SUBSET Trees]
  /\ artifacts \in [ArtifactType -> Artifact]
  /\ \A type \in ArtifactType : artifacts[type].head <= Len(history)
  /\ completed \in BOOLEAN /\ up \in BOOLEAN
  /\ crashes \in Nat

(* Evidence the gate takes for current was gained by looking at exactly the *)
(* content the lineage has: through edits, reverts, restacks, resets and    *)
(* human sessions, stale marks and relineage never add up to an old report  *)
(* passing for a new one (apply_invalidation, is_fresh), also when a board  *)
(* that was down applies them late. (Not so when work overlaps.)            *)
EvidenceSawItsTree ==
  \A type \in Behavioral : Stored(type) /\ Fresh(artifacts[type], tip[lineage])
    => artifacts[type].seen = {history[tip[lineage]]}

(* The job is announced complete only on a verification and a review of the *)
(* content it has at that moment (_check_completion).                       *)
CompletedOnEvidence ==
  [][~completed /\ completed' =>
       \A type \in Behavioral : artifacts'[type].seen = {history[tip[lineage]]}]_vars

(* Evidence about the content the lineage has is never thrown away: a head  *)
(* that moves over the same tree takes it along.                            *)
StaleOnlyIfMoved ==
  [][\A type \in Behavioral :
       Stored(type) /\ ~artifacts[type].stale /\ artifacts'[type].stale
       => history[artifacts[type].head] # history[tip[lineage]]]_vars

(* "Same tree, different head": evidence is moved to a new head only if it  *)
(* is about the tree that head has (relineage). apply_invalidation moves    *)
(* everything that is not stale, so this rests on when evidence is taken.   *)
RelineageKeepsTree ==
  [][\A type \in Behavioral :
       reading[type] # "result" /\ artifacts'[type].head # artifacts[type].head
       => history[artifacts'[type].head] = history[artifacts[type].head]]_vars

(* Code that moved away from evidence nobody marked stale has a baseline    *)
(* that will mark it, also after a controller died in the middle of a turn. *)
MovementIsNoticed ==
  \A type \in Behavioral :
    /\ Stored(type) /\ ~artifacts[type].stale
    /\ history[artifacts[type].head] # history[tip[lineage]]
    => base[lineage] # 0

----------------------------------------------------------------------------
(* What the documentation says, and the code does not keep                  *)

(* Git invalidation inspects only the lineage: the turns of another writer  *)
(* leave the job's evidence alone. apply_invalidation never asks whether    *)
(* the worker's worktree is the authoritative one.                          *)
ForeignWritersChangeNothing ==
  [][\A w \in Writers \ {lineage} : WriterApplies(w) \/ Detach(w)
       => \A type \in Behavioral : artifacts'[type] = artifacts[type]]_vars

(* A conditional step's evidence "is still checked when it exists": comment *)
(* resolutions that need a human decision keep the job open. job_completion *)
(* checks the artifacts of unconditional steps and no other.                *)
ConditionalEvidenceChecked ==
  [][~completed /\ completed' =>
       artifacts'["comment_resolutions"].head = 0 \/ artifacts'["comment_resolutions"].ok]_vars
=============================================================================
