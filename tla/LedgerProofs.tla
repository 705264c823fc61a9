---------------------------- MODULE LedgerProofs ----------------------------
(***************************************************************************)
(* Proofs about the ledger and the turns, for every bound and every choice *)
(* of Possible and Stops: hook events take effect in order and at most     *)
(* once, the lane implements the delivery ledger, a turn is completed by   *)
(* its own prompt and has one result, only a command hook loses a taint,   *)
(* and only results of managed turns are applied.                          *)
(***************************************************************************)
EXTENDS TurnLaneProofs

Undelivered == DOMAIN hooks \ delivered

(* The queue holds hooks in the order they were recorded.                  *)
QueueInOrder ==
  \A i, j \in DOMAIN outbox :
    i < j /\ outbox[i].hook # 0 /\ outbox[j].hook # 0 => outbox[i].hook < outbox[j].hook

(* What is still to be polled is newer than what is queued.                *)
QueueBeforePending ==
  \A i \in DOMAIN outbox : \A h \in PendingHooks : outbox[i].hook < h

(* What is still to be settled is newer than what was applied.             *)
AppliedBeforeUndelivered ==
  \A i \in DOMAIN applied : \A h \in Undelivered : applied[i] < h

AppliedWereDelivered == \A i \in DOMAIN applied : applied[i] \in delivered

(* As long as the pump is not dead, an unsettled hook in flight is queued.  *)
InflightIsQueued ==
  pump # "dead" =>
    \A h \in inflight \ delivered : \E i \in DOMAIN outbox : outbox[i].hook = h

(* A board that is down holds no queue.                                    *)
DownIsEmpty == ctl.at = "down" => inflight = {} /\ outbox = <<>>

LedgerInv ==
  /\ QueueInOrder /\ QueueBeforePending
  /\ AppliedBeforeUndelivered /\ AppliedWereDelivered /\ InflightIsQueued
  /\ DownIsEmpty
  /\ AppliedInOrder

ledgerVars == <<hooks, delivered, inflight, applied, outbox, pump>>

(* What the types say about the ledger's variables. *)
LEMMA LedgerTypes ==
  ASSUME TypeOK
  PROVE  /\ Len(hooks) \in Nat /\ DOMAIN hooks = 1..Len(hooks)
         /\ Len(outbox) \in Nat /\ DOMAIN outbox = 1..Len(outbox)
         /\ \A i \in DOMAIN outbox : outbox[i].hook \in 0..Len(hooks)
         /\ Len(applied) \in Nat /\ DOMAIN applied = 1..Len(applied)
         /\ \A i \in DOMAIN applied : applied[i] \in Nat
         /\ delivered \subseteq DOMAIN hooks /\ inflight \subseteq DOMAIN hooks
  BY LenProperties, ElementOfSeq DEF TypeOK, RowTypes, ControllerTypes

(* Most of the lane never touches the ledger. *)
LEMMA Bystanders ==
  ASSUME TypeOK,
         \/ SendReserve \/ SendRefused \/ SendPaste \/ InterruptSend \/ InterruptSave
         \/ AttachTaint \/ AttachClaimTmux \/ AttachClaimOwner \/ AttachReturnOwner
         \/ LeaveSession \/ DetachReleaseTmux \/ DetachReleaseOwner
         \/ AbandonLane \/ Claude \/ Human
         \/ HookSavesTurn \/ HookSavesRuntime \/ HookDies \/ UNCHANGED vars
  PROVE  UNCHANGED ledgerVars /\ (ctl'.at = "down" => ctl.at = "down")
<1>1. CASE SendReserve \/ SendRefused \/ SendPaste
  <2>1. CASE SendReserve
    BY <2>1 DEF SendReserve, ledgerVars, session, At
  <2>2. CASE SendRefused
    BY <2>2 DEF SendRefused, ledgerVars, session
  <2>3. CASE SendPaste
    BY <2>3 DEF SendPaste, ledgerVars, session, At, Idle
  <2> QED BY <1>1, <2>1, <2>2, <2>3
<1>2. CASE InterruptSend \/ InterruptSave
  BY <1>2 DEF InterruptSend, InterruptSave, ledgerVars, rows, session, At, Idle
<1>3. CASE AttachTaint \/ AttachClaimTmux \/ AttachClaimOwner \/ AttachReturnOwner
  BY <1>3 DEF AttachTaint, AttachClaimTmux, AttachClaimOwner, AttachReturnOwner,
     ledgerVars, rows, session, At, Idle
<1>4. CASE LeaveSession \/ DetachReleaseTmux \/ DetachReleaseOwner \/ AbandonLane
  <2>1. CASE LeaveSession
    BY <2>1 DEF LeaveSession, ledgerVars, rows, session, At, Idle
  <2>2. CASE DetachReleaseTmux
    BY <2>2 DEF DetachReleaseTmux, ledgerVars, rows, session, At, Idle
  <2>3. CASE DetachReleaseOwner
    BY <2>3 DEF DetachReleaseOwner, ledgerVars, session, At, Idle
  <2>4. CASE AbandonLane
    BY <2>4 DEF AbandonLane, ledgerVars, session, At
  <2> QED BY <1>4, <2>1, <2>2, <2>3, <2>4
<1>5. CASE Claude
  BY <1>5 DEF Claude, ClaudeTakesPrompt, ClaudeCallsTool, ClaudeAsks, ClaudeStops, ClaudeExits,
     ledgerVars, rows, session
<1>6. CASE Human
  BY <1>6 DEF Human, HumanAttaches, HumanLeaves, HumanTypes, HumanClearsComposer, HumanAnswers,
     HumanEscapes, ledgerVars, rows, session
<1>7. CASE HookSavesTurn \/ HookSavesRuntime \/ HookDies \/ UNCHANGED vars
  BY <1>7 DEF HookSavesTurn, HookSavesRuntime, HookDies, vars, ledgerVars, rows, session
<1> QED BY <1>1, <1>2, <1>3, <1>4, <1>5, <1>6, <1>7

(* A new event is newer than everything queued or applied. *)
LEMMA RecordKeepsLedger ==
  ASSUME TypeOK, LedgerInv, HookRecordsEvent
  PROVE  LedgerInv'
<1>1. /\ DOMAIN hooks' = 1..(Len(hooks) + 1)
      /\ UNCHANGED <<delivered, inflight, applied, outbox, pump, ctl>>
  BY LedgerTypes, AppendProperties, LenProperties DEF HookRecordsEvent, session, TypeOK, RowTypes,
     HookTypes, HookProcess
<1>2. \A h \in Undelivered' : h \in Undelivered \/ h = Len(hooks) + 1
  BY <1>1, LedgerTypes DEF Undelivered
<1>3. \A h \in PendingHooks' : h \in PendingHooks \/ h = Len(hooks) + 1
  BY <1>1, LedgerTypes DEF PendingHooks
<1>4. \A i \in DOMAIN applied : applied[i] < Len(hooks) + 1
  BY LedgerTypes DEF LedgerInv, AppliedWereDelivered
<1>5. \A i \in DOMAIN outbox : outbox[i].hook < Len(hooks) + 1
  BY LedgerTypes
<1>6. QueueBeforePending'
  BY <1>1, <1>3, <1>5 DEF LedgerInv, QueueBeforePending
<1>7. AppliedBeforeUndelivered'
  BY <1>1, <1>2, <1>4 DEF LedgerInv, AppliedBeforeUndelivered
<1> QED BY <1>1, <1>6, <1>7 DEF LedgerInv, QueueInOrder, AppliedWereDelivered, InflightIsQueued,
      DownIsEmpty, AppliedInOrder

(* The oldest pending event is queued behind everything that is queued. *)
LEMMA WatchKeepsLedger ==
  ASSUME TypeOK, LedgerInv, WatchHook
  PROVE  LedgerInv'
<1>1. PICK h \in PendingHooks :
        /\ \A g \in PendingHooks : h <= g
        /\ IF Classified(h) = "none"
           THEN delivered' = delivered \union {h} /\ UNCHANGED <<outbox, inflight>>
           ELSE /\ outbox' = Append(outbox, [kind |-> Classified(h), hook |-> h,
                                             turn |-> hooks[h].turn])
                /\ inflight' = inflight \union {h}
                /\ UNCHANGED delivered
  BY DEF WatchHook, OldestOf
<1>2. /\ UNCHANGED <<hooks, applied, pump, ctl>> /\ ctl.at # "down"
      /\ h \in 1..Len(hooks) /\ h \in Undelivered /\ h \notin inflight
  BY LedgerTypes DEF WatchHook, Idle, At, PendingHooks, Undelivered
<1>3. /\ PendingHooks' = PendingHooks \ {h}
      /\ Undelivered' \subseteq Undelivered /\ delivered \subseteq delivered'
      /\ \A g \in PendingHooks' : h < g
  <2>1. /\ PendingHooks' = PendingHooks \ {h}
        /\ Undelivered' \subseteq Undelivered /\ delivered \subseteq delivered'
    BY <1>1, <1>2 DEF PendingHooks, Undelivered
  <2>2. PendingHooks \subseteq Nat
    BY LedgerTypes DEF PendingHooks
  <2> QED BY <1>1, <2>1, <2>2
<1>4. AppliedBeforeUndelivered' /\ AppliedWereDelivered' /\ AppliedInOrder' /\ DownIsEmpty'
  BY <1>2, <1>3 DEF LedgerInv, AppliedBeforeUndelivered, AppliedWereDelivered, AppliedInOrder,
     DownIsEmpty
<1>5. CASE Classified(h) = "none"
  <2>1. UNCHANGED <<outbox, inflight>>
    BY <1>1, <1>5
  <2> QED BY <1>2, <1>3, <1>4, <2>1 DEF LedgerInv, QueueInOrder, QueueBeforePending, InflightIsQueued
<1>6. CASE Classified(h) # "none"
  <2> DEFINE e == [kind |-> Classified(h), hook |-> h, turn |-> hooks[h].turn]
  <2>1. outbox' = Append(outbox, e) /\ inflight' = inflight \union {h} /\ UNCHANGED delivered
    BY <1>1, <1>6
  <2>2. /\ DOMAIN outbox' = 1..(Len(outbox) + 1) /\ Len(outbox) \in Nat /\ DOMAIN outbox = 1..Len(outbox)
        /\ \A i \in 1..Len(outbox) : outbox'[i] = outbox[i]
        /\ outbox'[Len(outbox) + 1].hook = h
    <3>1. /\ Len(Append(outbox, e)) = Len(outbox) + 1
          /\ \A i \in 1..Len(outbox) : Append(outbox, e)[i] = outbox[i]
          /\ Append(outbox, e)[Len(outbox) + 1] = e
          /\ DOMAIN Append(outbox, e) = 1..(Len(outbox) + 1)
      BY LedgerTypes DEF TypeOK, ControllerTypes
    <3> QED BY <2>1, <3>1, LedgerTypes
  <2>3. \A i \in 1..Len(outbox) : outbox[i].hook < h
    BY <2>2, <1>1 DEF LedgerInv, QueueBeforePending
  <2>4. QueueInOrder'
    <3>1. \A i, j \in 1..Len(outbox) : i < j /\ outbox[i].hook # 0 /\ outbox[j].hook # 0
            => outbox[i].hook < outbox[j].hook
      BY <2>2 DEF LedgerInv, QueueInOrder
    <3> QED BY <2>2, <2>3, <3>1 DEF QueueInOrder
  <2>5. QueueBeforePending'
    BY <2>2, <1>3 DEF LedgerInv, QueueBeforePending
  <2>6. InflightIsQueued'
    BY <1>2, <2>1, <2>2 DEF LedgerInv, InflightIsQueued
  <2> QED BY <1>4, <2>4, <2>5, <2>6 DEF LedgerInv
<1> QED BY <1>5, <1>6

(* The head of the queue is the oldest event that is not settled yet. *)
LEMMA PumpKeepsLedger ==
  ASSUME TypeOK, LedgerInv, PumpStep
  PROVE  LedgerInv'
<1> DEFINE k == Head(outbox).hook
<1>1. PICK done \in BOOLEAN, settled \in BOOLEAN :
        /\ done => k \notin delivered \/ k = 0
        /\ applied' = IF done /\ k # 0 THEN Append(applied, k) ELSE applied
        /\ delivered' = IF done \/ settled THEN delivered \union Marked(k) ELSE delivered
        /\ inflight' = IF settled THEN inflight \ Marked(k) ELSE inflight
        /\ ~settled => pump' = "dead"
  BY PumpEffect
<1>2. outbox # <<>> /\ outbox' = Tail(outbox) /\ pump = "up" /\ UNCHANGED <<hooks, ctl>> /\ ctl.at # "down"
  BY DEF PumpStep, Idle, At
<1>3. /\ Len(outbox) \in Nat \ {0} /\ DOMAIN outbox = 1..Len(outbox) /\ k = outbox[1].hook
      /\ k \in 0..Len(hooks) /\ DOMAIN hooks = 1..Len(hooks) /\ Len(hooks) \in Nat
  <2>1. /\ Len(outbox) \in Nat \ {0} /\ DOMAIN outbox = 1..Len(outbox) /\ Head(outbox) = outbox[1]
    BY <1>2, LedgerTypes, EmptySeq DEF TypeOK, ControllerTypes
  <2> QED BY <2>1, LedgerTypes
<1>4. /\ DOMAIN outbox' = 1..(Len(outbox) - 1)
      /\ \A i \in DOMAIN outbox' : outbox'[i] = outbox[i + 1] /\ i + 1 \in DOMAIN outbox
  <2>1. /\ Len(Tail(outbox)) = Len(outbox) - 1 /\ DOMAIN Tail(outbox) = 1..(Len(outbox) - 1)
        /\ \A i \in 1..(Len(outbox) - 1) : Tail(outbox)[i] = outbox[i + 1]
    BY <1>2, HeadTailProperties, LenProperties DEF TypeOK, ControllerTypes
  <2> QED BY <1>2, <1>3, <2>1
<1>5. \A h \in DOMAIN hooks : h \notin Marked(k) => h # k
  BY <1>3 DEF Marked
<1> HIDE DEF k
<1>6. Undelivered' \subseteq Undelivered /\ PendingHooks' \subseteq PendingHooks
  BY <1>1, <1>2 DEF Undelivered, PendingHooks
<1>7. QueueInOrder'
  <2> SUFFICES ASSUME NEW i \in DOMAIN outbox', NEW j \in DOMAIN outbox',
                      i < j, outbox'[i].hook # 0, outbox'[j].hook # 0
               PROVE  outbox'[i].hook < outbox'[j].hook
    BY DEF QueueInOrder
  <2>1. i + 1 \in DOMAIN outbox /\ j + 1 \in DOMAIN outbox /\ i + 1 < j + 1
    BY <1>3, <1>4
  <2> QED BY <1>4, <2>1 DEF LedgerInv, QueueInOrder
<1>8. QueueBeforePending'
  BY <1>4, <1>6 DEF LedgerInv, QueueBeforePending
<1>9. \A g \in Undelivered : g # k => k < g
  <2> SUFFICES ASSUME NEW g \in Undelivered, g # k PROVE k < g
    OBVIOUS
  <2>1. g \in 1..Len(hooks)
    BY <1>3 DEF Undelivered
  <2>2. CASE g \in PendingHooks
    <3>1. 1 \in DOMAIN outbox
      BY <1>3
    <3> QED BY <1>3, <2>2, <3>1 DEF LedgerInv, QueueBeforePending
  <2>3. CASE g \notin PendingHooks
    <3>1. PICK j \in DOMAIN outbox : outbox[j].hook = g
      BY <1>2, <2>3 DEF LedgerInv, InflightIsQueued, PendingHooks, Undelivered
    <3>2. 1 \in DOMAIN outbox /\ 1 < j
      BY <1>3, <3>1
    <3>3. CASE k = 0
      BY <2>1, <3>3
    <3>4. CASE k # 0
      BY <1>3, <2>1, <3>1, <3>2, <3>4 DEF LedgerInv, QueueInOrder
    <3> QED BY <3>3, <3>4
  <2> QED BY <2>2, <2>3
<1>10. ASSUME done, k # 0 PROVE AppliedBeforeUndelivered' /\ AppliedWereDelivered' /\ AppliedInOrder'
  <2>1. /\ DOMAIN applied' = 1..(Len(applied) + 1) /\ DOMAIN applied = 1..Len(applied) /\ Len(applied) \in Nat
        /\ \A i \in 1..Len(applied) : applied'[i] = applied[i]
        /\ applied'[Len(applied) + 1] = k
    BY <1>1, <1>3, <1>10, AppendProperties, LenProperties DEF TypeOK, RowTypes
  <2>2. k \in Undelivered /\ delivered' = delivered \union {k} /\ k \notin Undelivered'
    BY <1>1, <1>2, <1>3, <1>10 DEF Undelivered, Marked
  <2>3. AppliedBeforeUndelivered'
    BY <1>6, <1>9, <2>1, <2>2 DEF LedgerInv, AppliedBeforeUndelivered
  <2>4. AppliedWereDelivered'
    BY <2>1, <2>2 DEF LedgerInv, AppliedWereDelivered
  <2>5. AppliedInOrder'
    <3>1. \A i \in 1..Len(applied) : applied[i] < k
      BY <2>1, <2>2 DEF LedgerInv, AppliedBeforeUndelivered
    <3>2. \A i, j \in 1..Len(applied) : i < j => applied[i] < applied[j]
      BY <2>1 DEF LedgerInv, AppliedInOrder
    <3> QED BY <2>1, <3>1, <3>2 DEF AppliedInOrder
  <2> QED BY <2>3, <2>4, <2>5
<1>11. ASSUME ~(done /\ k # 0) PROVE AppliedBeforeUndelivered' /\ AppliedWereDelivered' /\ AppliedInOrder'
  <2>1. applied' = applied /\ delivered \subseteq delivered'
    BY <1>1, <1>11
  <2> QED BY <1>6, <2>1 DEF LedgerInv, AppliedBeforeUndelivered, AppliedWereDelivered, AppliedInOrder
<1>12. AppliedBeforeUndelivered' /\ AppliedWereDelivered' /\ AppliedInOrder'
  BY <1>10, <1>11
<1>13. InflightIsQueued'
  <2> SUFFICES ASSUME pump' # "dead", NEW h \in inflight' \ delivered'
               PROVE  \E i \in DOMAIN outbox' : outbox'[i].hook = h
    BY DEF InflightIsQueued
  <2>1. h \in inflight \ delivered /\ h \notin Marked(k)
    BY <1>1
  <2>2. h # k
    BY <1>5, <2>1, LedgerTypes
  <2>3. PICK j \in DOMAIN outbox : outbox[j].hook = h
    BY <1>2, <2>1 DEF LedgerInv, InflightIsQueued
  <2>4. j # 1 /\ j - 1 \in DOMAIN outbox' /\ (j - 1) + 1 = j
    BY <1>3, <1>4, <2>2, <2>3
  <2>5. outbox'[j - 1].hook = h
    BY <1>4, <2>3, <2>4
  <2> QED BY <2>4, <2>5
<1>14. DownIsEmpty'
  BY <1>2 DEF DownIsEmpty
<1> QED BY <1>7, <1>8, <1>12, <1>13, <1>14 DEF LedgerInv

(* The loss of the pane is queued without an event of its own. *)
LEMMA ObserveKeepsLedger ==
  ASSUME TypeOK, LedgerInv, WatchObserve
  PROVE  LedgerInv'
<1>1. UNCHANGED <<hooks, delivered, applied, inflight, pump, ctl>> /\ ctl.at # "down"
  BY DEF WatchObserve, Idle, At
<1>2. CASE outbox' = outbox
  BY <1>1, <1>2 DEF LedgerInv, QueueInOrder, QueueBeforePending, AppliedBeforeUndelivered,
     AppliedWereDelivered, InflightIsQueued, DownIsEmpty, AppliedInOrder, Undelivered, PendingHooks
<1>3. CASE outbox' = Append(outbox, [kind |-> "failed", hook |-> 0, turn |-> 0])
  <2>1. /\ DOMAIN outbox' = 1..(Len(outbox) + 1) /\ Len(outbox) \in Nat /\ DOMAIN outbox = 1..Len(outbox)
        /\ \A i \in 1..Len(outbox) : outbox'[i] = outbox[i]
        /\ outbox'[Len(outbox) + 1].hook = 0
    <3> DEFINE e == [kind |-> "failed", hook |-> 0, turn |-> 0]
    <3>1. /\ Len(Append(outbox, e)) = Len(outbox) + 1
          /\ \A i \in 1..Len(outbox) : Append(outbox, e)[i] = outbox[i]
          /\ Append(outbox, e)[Len(outbox) + 1] = e
          /\ DOMAIN Append(outbox, e) = 1..(Len(outbox) + 1)
      BY LedgerTypes DEF TypeOK, ControllerTypes
    <3> QED BY <1>3, <3>1, LedgerTypes
  <2>2. PendingHooks' = PendingHooks /\ \A h \in PendingHooks : 0 < h
    BY <1>1, LedgerTypes DEF PendingHooks
  <2>3. QueueInOrder'
    BY <2>1 DEF LedgerInv, QueueInOrder
  <2>4. QueueBeforePending'
    BY <2>1, <2>2 DEF LedgerInv, QueueBeforePending
  <2>5. InflightIsQueued'
    BY <1>1, <2>1 DEF LedgerInv, InflightIsQueued
  <2> QED BY <1>1, <2>3, <2>4, <2>5 DEF LedgerInv, AppliedBeforeUndelivered, AppliedWereDelivered,
        DownIsEmpty, AppliedInOrder, Undelivered
<1> QED BY <1>2, <1>3 DEF WatchObserve

(* A crash or a stop forgets the queue, and an adoption finds it forgotten. *)
LEMMA ResetKeepsLedger ==
  ASSUME TypeOK, LedgerInv, StopWorker \/ Crash \/ Adopt
  PROVE  LedgerInv'
<1>1. outbox' = <<>> /\ inflight' = {} /\ UNCHANGED <<hooks, delivered, applied>>
  BY DEF StopWorker, Crash, Adopt, rows, LedgerInv, DownIsEmpty
<1>2. DOMAIN outbox' = {}
  BY <1>1, EmptySeq
<1> QED BY <1>1, <1>2 DEF LedgerInv, QueueInOrder, QueueBeforePending, AppliedBeforeUndelivered,
      AppliedWereDelivered, InflightIsQueued, DownIsEmpty, AppliedInOrder, Undelivered

LEMMA LedgerStep ==
  ASSUME TypeOK, LedgerInv, [Next]_vars
  PROVE  LedgerInv'
<1>1. CASE UNCHANGED ledgerVars /\ (ctl'.at = "down" => ctl.at = "down")
  BY <1>1 DEF LedgerInv, QueueInOrder, QueueBeforePending, AppliedBeforeUndelivered,
     AppliedWereDelivered, InflightIsQueued, DownIsEmpty, AppliedInOrder, Undelivered,
     PendingHooks, ledgerVars
<1> QED BY <1>1, Bystanders, RecordKeepsLedger, WatchKeepsLedger, PumpKeepsLedger,
      ObserveKeepsLedger, ResetKeepsLedger DEF Next, Controller, Hook

LEMMA LedgerInit == Init => LedgerInv
<1> SUFFICES ASSUME Init PROVE LedgerInv
  OBVIOUS
<1>1. DOMAIN outbox = {} /\ DOMAIN applied = {}
  BY EmptySeq DEF Init
<1> QED BY <1>1 DEF Init, LedgerInv, QueueInOrder, QueueBeforePending, AppliedBeforeUndelivered,
      AppliedWereDelivered, InflightIsQueued, DownIsEmpty, AppliedInOrder, Idle, At

(* Every hook event takes effect at most once and in the order the hooks   *)
(* recorded them, across polling, queueing, crashes and adoption.          *)
THEOREM InOrder == Spec => []AppliedInOrder
<1>1. TypeOK /\ LedgerInv /\ [Next]_vars => LedgerInv'
  BY LedgerStep
<1>2. LedgerInv => AppliedInOrder
  BY DEF LedgerInv
<1> QED BY <1>1, <1>2, LedgerInit, TypeCorrect, PTL DEF Spec

(* The lane implements the delivery ledger: every step records, applies or  *)
(* drops one event, or leaves the ledger alone.                             *)
LEMMA LedgerRefined ==
  ASSUME TypeOK, TypeOK', LedgerInv, LedgerInv', [Next]_vars
  PROVE  [Ledger!Next]_(Ledger!ledger)
<1>1. /\ Len(hooks) \in Nat /\ DOMAIN hooks = 1..Len(hooks) /\ DOMAIN hooks' = 1..Len(hooks')
  BY LedgerTypes, LenProperties DEF TypeOK, RowTypes
<1>2. CASE UNCHANGED ledgerVars \/ StopWorker \/ Crash \/ Adopt \/ WatchObserve
  BY <1>2 DEF ledgerVars, Ledger!ledger, StopWorker, Crash, Adopt, WatchObserve, rows
<1>3. CASE HookRecordsEvent
  <2>1. Len(hooks') = Len(hooks) + 1
    BY <1>3, AppendProperties DEF HookRecordsEvent, TypeOK, RowTypes, HookTypes, HookProcess
  <2> QED BY <1>3, <2>1 DEF HookRecordsEvent, Ledger!Next, Ledger!Record
<1>4. CASE WatchHook
  <2>1. PICK h \in PendingHooks : delivered' = delivered \union {h} \/ delivered' = delivered
    BY <1>4 DEF WatchHook
  <2>2. h \in (1..Len(hooks)) \ delivered
    BY <1>1 DEF PendingHooks
  <2>3. UNCHANGED <<hooks, applied>>
    BY <1>4 DEF WatchHook
  <2> QED BY <2>1, <2>2, <2>3 DEF Ledger!Next, Ledger!Drop, Ledger!ledger
<1>5. CASE PumpStep
  <2> DEFINE k == Head(outbox).hook
  <2>1. PICK done \in BOOLEAN, settled \in BOOLEAN :
          /\ done => k \notin delivered \/ k = 0
          /\ applied' = IF done /\ k # 0 THEN Append(applied, k) ELSE applied
          /\ delivered' = IF done \/ settled THEN delivered \union Marked(k) ELSE delivered
    BY <1>5, PumpEffect
  <2>2. UNCHANGED hooks /\ outbox # <<>>
    BY <1>5 DEF PumpStep
  <2>3. k \in 0..Len(hooks)
    <3>1. Head(outbox) = outbox[1] /\ 1 \in DOMAIN outbox
      BY <2>2, LedgerTypes, EmptySeq DEF TypeOK, ControllerTypes
    <3> QED BY <3>1, LedgerTypes
  <2> HIDE DEF k
  <2>4. CASE done /\ k # 0
    <3>1. applied' = Append(applied, k) /\ delivered' = delivered \union {k} /\ k \in (1..Len(hooks)) \ delivered
      BY <1>1, <2>1, <2>3, <2>4 DEF Marked
    <3>2. /\ DOMAIN applied' = 1..(Len(applied) + 1) /\ Len(applied) \in Nat /\ DOMAIN applied = 1..Len(applied)
          /\ \A i \in 1..Len(applied) : applied'[i] = applied[i]
          /\ applied'[Len(applied) + 1] = k
      BY <3>1, AppendProperties, LenProperties DEF TypeOK, RowTypes
    <3>3. \A i \in DOMAIN applied : applied[i] < k
      BY <3>2 DEF LedgerInv, AppliedInOrder
    <3>4. Ledger!Apply(k)
      BY <2>2, <3>1, <3>3 DEF Ledger!Apply
    <3> QED BY <3>1, <3>4 DEF Ledger!Next
  <2>5. CASE ~(done /\ k # 0) /\ delivered' = delivered
    BY <2>1, <2>2, <2>5 DEF Ledger!ledger
  <2>6. CASE ~(done /\ k # 0) /\ delivered' # delivered
    <3>1. applied' = applied /\ delivered' = delivered \union {k} /\ k \in (1..Len(hooks)) \ delivered
      BY <1>1, <2>1, <2>3, <2>6 DEF Marked
    <3>2. Ledger!Drop(k)
      BY <2>2, <3>1 DEF Ledger!Drop
    <3> QED BY <3>1, <3>2 DEF Ledger!Next
  <2> QED BY <2>4, <2>5, <2>6
<1> QED BY <1>2, <1>3, <1>4, <1>5, Bystanders DEF Next, Controller, Hook

(* The lane implements the delivery ledger. *)
THEOREM LaneImplementsLedger == Spec => ImplementsLedger
<1>1. Init => Ledger!Init
  BY DEF Init, Ledger!Init
<1>2. TypeOK /\ LedgerInv /\ [Next]_vars => LedgerInv'
  BY LedgerStep
<1>3. TypeOK /\ TypeOK' /\ LedgerInv /\ LedgerInv' /\ [Next]_vars => [Ledger!Next]_(Ledger!ledger)
  BY LedgerRefined
<1> QED BY <1>1, <1>2, <1>3, LedgerInit, TypeCorrect, PTL DEF Spec, ImplementsLedger, Ledger!Spec

----------------------------------------------------------------------------
(* One result for each turn *)

(* OneResultPerTurn and CompletedByOwnPrompt rest on what the hook process  *)
(* holds in memory between reading a turn and recording the event.          *)
StopOf(t) == \E h \in DOMAIN hooks : hooks[h].name \in StopEvent /\ hooks[h].turn = t
Rewrites(t) == hook.at = "turn" /\ ~hook.fresh /\ hook.turn = t
(* Where a turn is left that Claude has ended or that is not sent: an       *)
(* operation that was in its tmux trip may have failed it, unsent, since.   *)
Over(row) == row.status # "pending" /\ row.prompt \in ended \union {0}

(* Claude ends each prompt once. *)
EndsOnce == claude \in {"busy", "asking"} => prompt \notin ended

(* The row the running command hook is about to save. *)
RowToSave ==
  hook.at = "turn" =>
    /\ hook.row.status # "pending" /\ hook.row.prompt <= prompt
    /\ hook.row.status = "completed" \/ hook.name \in StopEvent => hook.row.prompt \in ended
    /\ \A t \in DOMAIN turns : turns[t].prompt = hook.row.prompt /\ ~Rewrites(t) => hook.row.prompt = 0
    /\ IF hook.fresh THEN hook.name = "UserPromptSubmit"
                     ELSE hook.turn \in DOMAIN turns /\ ~StopOf(hook.turn)

(* The stop it is about to record. *)
StopToRecord ==
  hook.at \in {"runtime", "record"} /\ hook.name \in StopEvent /\ hook.turn # 0 =>
    ~StopOf(hook.turn) /\ Over(turns[hook.turn])

StopsRecorded ==
  /\ \A t \in DOMAIN turns : StopOf(t) => Over(turns[t])
  /\ \A g, h \in DOMAIN hooks :
       /\ hooks[g].name \in StopEvent /\ hooks[h].name \in StopEvent
       /\ hooks[g].turn = hooks[h].turn /\ hooks[g].turn # 0
       => g = h

PromptsGiven == \A t \in DOMAIN turns : turns[t].prompt <= prompt

(* What is queued, or was applied, for the stop of a turn names that turn. *)
StopsNameTurns ==
  /\ \A i \in DOMAIN outbox :
       outbox[i].hook # 0 /\ hooks[outbox[i].hook].name \in StopEvent => hooks[outbox[i].hook].turn # 0
  /\ \A i \in DOMAIN applied :
       hooks[applied[i]].name \in StopEvent => hooks[applied[i]].turn # 0

StopInv ==
  /\ EndsOnce /\ RowToSave /\ StopToRecord /\ StopsRecorded
  /\ PromptsGiven /\ CompletedByOwnPrompt

stopVars == <<turns, hooks, hook, claude, prompt, ended>>

(* What the controller may do to the rows: reserve a turn, fail one whose   *)
(* prompt was not sent, write one off, taint one, ask for an interruption.  *)
Edited ==
  /\ DOMAIN turns \subseteq DOMAIN turns' /\ 0 \notin DOMAIN turns'
  /\ \A t \in DOMAIN turns' :
       IF t \in DOMAIN turns
       THEN /\ turns'[t].prompt \in {turns[t].prompt, 0}
            /\ turns'[t].status = "pending" => turns[t].status = "pending"
            /\ turns'[t].status = "completed" => turns[t].status = "completed" /\ turns'[t].prompt = turns[t].prompt
       ELSE turns'[t].status = "pending" /\ turns'[t].prompt = 0

LEMMA StopFacts ==
  ASSUME TypeOK
  PROVE  /\ \A t : StopOf(t) => t \in DOMAIN turns \union {0}
         /\ prompt \in Nat /\ ended \subseteq 1..prompt
         /\ hook.turn # 0 => hook.turn \in DOMAIN turns
         /\ \A t \in DOMAIN turns : turns[t].prompt \in Nat /\ t # 0
BY TurnsTable DEF TypeOK, RowTypes, ExternalTypes, HookTypes, StopOf, TurnRow

LEMMA EditKeepsStops ==
  ASSUME TypeOK, StopInv, Edited, UNCHANGED <<hooks, hook, claude, prompt, ended>>
  PROVE  StopInv'
<1> USE StopFacts DEF StopInv
<1>1. \A t : StopOf(t)' <=> StopOf(t)
  BY DEF StopOf
<1>2. \A t : Rewrites(t)' <=> Rewrites(t)
  BY DEF Rewrites
<1>3. \A t \in DOMAIN turns : Over(turns[t]) => Over(turns[t])'
  BY DEF Edited, Over
<1>4. EndsOnce'
  BY DEF EndsOnce
<1>5. RowToSave'
  BY <1>1, <1>2 DEF RowToSave, Edited
<1>6. StopToRecord'
  BY <1>1, <1>3 DEF StopToRecord
<1>7. StopsRecorded'
  <2>1. \A t \in DOMAIN turns' : StopOf(t) => t \in DOMAIN turns
    BY DEF Edited
  <2> QED BY <1>1, <1>3, <2>1 DEF StopsRecorded
<1>8. PromptsGiven'
  BY DEF PromptsGiven, Edited
<1>9. CompletedByOwnPrompt'
  BY DEF CompletedByOwnPrompt, Edited
<1> QED BY <1>4, <1>5, <1>6, <1>7, <1>8, <1>9

LEMMA ControllerEdits ==
  ASSUME TypeOK, SendReserve \/ SendPaste \/ InterruptSave \/ AttachTaint \/ DetachReleaseOwner
  PROVE  Edited /\ UNCHANGED <<hooks, hook, claude, prompt, ended>>
<1> USE TurnsTable
<1>1. CASE SendReserve
  <2>1. turns' = Append(turns, ManagedRow)
    BY <1>1 DEF SendReserve
  <2>2. /\ DOMAIN turns' = 1..(Len(turns) + 1) /\ turns'[Len(turns) + 1] = ManagedRow
        /\ \A t \in 1..Len(turns) : turns'[t] = turns[t]
    BY <2>1, AppendProperties DEF TypeOK, RowTypes
  <2> QED BY <1>1, <2>2 DEF SendReserve, Edited, ManagedRow, external
<1>2. CASE SendPaste
  <2> DEFINE row == [ManagedRow EXCEPT !.status = "failed"]
  <2>1. turns' = turns \/ turns' = [turns EXCEPT ![ctl.turn] = row]
    BY <1>2 DEF SendPaste
  <2>2. row.prompt = 0 /\ row.status = "failed"
    BY DEF ManagedRow
  <2> HIDE DEF row
  <2>3. Edited
    BY <2>1, <2>2 DEF Edited
  <2> QED BY <1>2, <2>3 DEF SendPaste
<1>3. CASE InterruptSave
  <2> DEFINE row == [turns[ctl.turn] EXCEPT !.status = "interrupt_requested"]
  <2>1. turns' = turns \/ turns' = [turns EXCEPT ![ctl.turn] = row]
    BY <1>3 DEF InterruptSave
  <2>2. ctl.turn \in DOMAIN turns => row.prompt = turns[ctl.turn].prompt /\ row.status = "interrupt_requested"
    BY DEF TurnRow
  <2> HIDE DEF row
  <2>3. Edited
    BY <2>1, <2>2 DEF Edited
  <2> QED BY <1>3, <2>3 DEF InterruptSave, external
<1>4. CASE AttachTaint
  <2> DEFINE row(t) == [turns[t] EXCEPT !.human = TRUE]
  <2>1. turns' = turns \/ \E t \in DOMAIN turns : turns' = [turns EXCEPT ![t] = row(t)]
    BY <1>4 DEF AttachTaint, OpenTurns
  <2>2. \A t \in DOMAIN turns : row(t).prompt = turns[t].prompt /\ row(t).status = turns[t].status
    BY DEF TurnRow
  <2> HIDE DEF row
  <2>3. Edited
    BY <2>1, <2>2 DEF Edited
  <2> QED BY <1>4, <2>3 DEF AttachTaint, external
<1>5. CASE DetachReleaseOwner
  <2>1. turns' = turns \/ turns' = [turns EXCEPT ![latest] = WriteOff(turns[latest])]
    BY <1>5 DEF DetachReleaseOwner
  <2>2. \A t \in DOMAIN turns : /\ WriteOff(turns[t]).prompt = turns[t].prompt
                                /\ WriteOff(turns[t]).status = "interrupted"
    BY DEF TurnRow, WriteOff
  <2>3. Edited
    BY <2>1, <2>2 DEF Edited
  <2> QED BY <1>5, <2>3 DEF DetachReleaseOwner, external
<1> QED BY <1>1, <1>2, <1>3, <1>4, <1>5

LEMMA BystandersKeepStops ==
  ASSUME StopInv,
         \/ SendRefused \/ AttachClaimTmux \/ AttachClaimOwner \/ AttachReturnOwner \/ LeaveSession
         \/ DetachReleaseTmux \/ WatchHook \/ WatchObserve \/ PumpStep \/ Crash \/ Adopt \/ AbandonLane
         \/ HumanAttaches \/ HumanLeaves \/ HumanTypes \/ HumanClearsComposer \/ UNCHANGED vars
  PROVE  StopInv'
<1>1. UNCHANGED stopVars
  <2>1. CASE SendRefused \/ AttachClaimTmux \/ AttachClaimOwner \/ AttachReturnOwner \/ LeaveSession
             \/ DetachReleaseTmux
    BY <2>1 DEF SendRefused, AttachClaimTmux, AttachClaimOwner, AttachReturnOwner, LeaveSession,
       DetachReleaseTmux, rows, external, stopVars
  <2>2. CASE WatchHook \/ WatchObserve \/ PumpStep \/ Crash \/ Adopt \/ AbandonLane
    BY <2>2 DEF WatchHook, WatchObserve, PumpStep, Crash, Adopt, AbandonLane, rows, external, stopVars
  <2>3. CASE HumanAttaches \/ HumanLeaves \/ HumanTypes \/ HumanClearsComposer \/ UNCHANGED vars
    BY <2>3 DEF HumanAttaches, HumanLeaves, HumanTypes, HumanClearsComposer, rows, external, vars, stopVars
  <2> QED BY <2>1, <2>2, <2>3
<1> QED BY <1>1 DEF stopVars, StopInv, EndsOnce, RowToSave, StopToRecord, StopsRecorded, PromptsGiven,
       CompletedByOwnPrompt, StopOf, Rewrites, Over

(* A Claude that falls silent ends no prompt. *)
LEMMA SilenceKeepsStops ==
  ASSUME StopInv, InterruptSend \/ StopWorker \/ HumanEscapes
  PROVE  StopInv'
<1>1. UNCHANGED <<turns, hooks, hook, prompt, ended>> /\ claude' \in {claude, "idle", "exited"}
  BY DEF InterruptSend, StopWorker, HumanEscapes, rows
<1> QED BY <1>1 DEF StopInv, EndsOnce, RowToSave, StopToRecord, StopsRecorded, PromptsGiven,
       CompletedByOwnPrompt, StopOf, Rewrites, Over

(* Claude starts a command hook; the rows and the events stay.              *)
LEMMA HookStarts ==
  ASSUME TypeOK, StopInv, UNCHANGED <<turns, hooks>>, prompt <= prompt', prompt' \in Nat,
         ended \subseteq ended', EndsOnce', RowToSave', StopToRecord'
  PROVE  StopInv'
<1> USE StopFacts DEF StopInv
<1>1. \A t : StopOf(t)' <=> StopOf(t)
  BY DEF StopOf
<1>2. \A t \in DOMAIN turns : Over(turns[t]) => Over(turns[t])'
  BY DEF Over
<1>3. StopsRecorded'
  BY <1>1, <1>2 DEF StopsRecorded
<1>4. PromptsGiven'
  BY DEF PromptsGiven
<1>5. CompletedByOwnPrompt'
  BY DEF CompletedByOwnPrompt
<1> QED BY <1>3, <1>4, <1>5

LEMMA TakingKeepsStops ==
  ASSUME TypeOK, StopInv, ClaudeTakesPrompt
  PROVE  StopInv'
<1> USE StopFacts, TurnsTable
<1>0. PICK m, p : m = Head(composer) /\ p = prompt + 1
  OBVIOUS
<1> DEFINE row == [turns[m] EXCEPT !.status = "active", !.prompt = p]
<1>1. UNCHANGED <<turns, hooks, ended>> /\ prompt' = p
  BY <1>0 DEF ClaudeTakesPrompt, rows
<1>2. p \in Nat /\ p \notin ended /\ prompt <= p /\ \A t \in DOMAIN turns : turns[t].prompt # p
  BY <1>0 DEF StopInv, PromptsGiven
<1>3. m \in 0..Len(turns)
  <2>1. composer # <<>>
    BY DEF ClaudeTakesPrompt
  <2> QED BY <1>0, <2>1, EmptySeq, LenProperties DEF TypeOK, ExternalTypes
<1>4. CASE Correlates(m, p)
  <2>1. m \in DOMAIN turns
    BY <1>3, <1>4 DEF Correlates
  <2>2. row.status = "active" /\ row.prompt = p
    BY <2>1 DEF TurnRow
  <2>3. ~StopOf(m)
    BY <1>2, <1>4, <2>1 DEF Correlates, StopInv, StopsRecorded, Over
  <2>4. hook' = Reads("UserPromptSubmit", m, FALSE, row, "turn_active")
    BY <1>0, <1>4 DEF ClaudeTakesPrompt
  <2> HIDE DEF row
  <2>5. hook'.at = "turn" /\ hook'.name = "UserPromptSubmit" /\ hook'.turn = m /\ hook'.fresh = FALSE /\ hook'.row = row
    BY <2>1, <2>4 DEF Reads
  <2>6. ~StopOf(m)'
    BY <1>1, <2>3 DEF StopOf
  <2>7. RowToSave'
    BY <1>1, <1>2, <2>1, <2>2, <2>5, <2>6 DEF RowToSave, StopEvent
  <2>8. StopToRecord' /\ EndsOnce'
    BY <1>1, <1>2, <2>5 DEF StopToRecord, EndsOnce
  <2> QED BY <1>1, <1>2, <2>7, <2>8, HookStarts
<1>5. CASE ~Correlates(m, p)
  <2>1. hook' = Reads("UserPromptSubmit", 0, TRUE, HumanRow(p), "turn_active")
    BY <1>0, <1>5 DEF ClaudeTakesPrompt
  <2>2. hook'.at = "turn" /\ hook'.name = "UserPromptSubmit" /\ hook'.fresh = TRUE /\ hook'.row = HumanRow(p)
    BY <2>1 DEF Reads
  <2>3. RowToSave'
    BY <1>1, <1>2, <2>2 DEF RowToSave, StopEvent, HumanRow
  <2>4. StopToRecord' /\ EndsOnce'
    BY <1>1, <1>2, <2>2 DEF StopToRecord, EndsOnce
  <2> QED BY <1>1, <1>2, <2>3, <2>4, HookStarts
<1> QED BY <1>4, <1>5

(* The turn Claude is at, of a prompt that has not ended. *)
LEMMA ActiveTurnOpen ==
  ASSUME TypeInv, StopInv, claude \in {"busy", "asking"}, NEW t, t = ActiveTurn(prompt), t # 0
  PROVE  /\ t \in DOMAIN turns /\ turns[t].prompt = prompt /\ turns[t].status \in ActiveStatus
         /\ ~StopOf(t)
<1>1. t \in DOMAIN turns /\ turns[t].prompt = prompt /\ turns[t].status \in ActiveStatus
  BY DEF ActiveTurn
<1>2. prompt \notin ended /\ prompt # 0
  BY DEF StopInv, EndsOnce, TypeInv, PromptTaken
<1> QED BY <1>1, <1>2 DEF StopInv, StopsRecorded, Over

LEMMA ReadingKeepsStops ==
  ASSUME TypeInv, StopInv, ClaudeCallsTool \/ HumanAnswers \/ ClaudeExits
  PROVE  StopInv'
<1> USE StopFacts DEF TypeInv
<1>1. UNCHANGED <<turns, hooks, prompt, ended>> /\ (claude' \in {"busy", "asking"} => claude \in {"busy", "asking"})
  BY DEF ClaudeCallsTool, HumanAnswers, ClaudeExits, rows, external
<1>2. hook' = hook \/ (hook'.at = "runtime" /\ hook'.name \in {"PreToolUse", "PostToolUse", "SessionEnd"})
  BY DEF ClaudeCallsTool, HumanAnswers, ClaudeExits, ReadsOnly
<1>3. EndsOnce'
  BY <1>1 DEF StopInv, EndsOnce
<1>4. CASE hook' = hook
  BY <1>1, <1>3, <1>4 DEF StopInv, EndsOnce, RowToSave, StopToRecord, StopsRecorded, PromptsGiven,
       CompletedByOwnPrompt, StopOf, Rewrites, Over
<1>5. CASE hook'.at = "runtime" /\ hook'.name \in {"PreToolUse", "PostToolUse", "SessionEnd"}
  <2>1. RowToSave' /\ StopToRecord'
    BY <1>5 DEF RowToSave, StopToRecord, StopEvent
  <2> QED BY <1>1, <1>3, <2>1, HookStarts
<1> QED BY <1>2, <1>4, <1>5

LEMMA AskingKeepsStops ==
  ASSUME TypeInv, StopInv, ClaudeAsks
  PROVE  StopInv'
<1> USE StopFacts, TurnsTable DEF TypeInv
<1>0. PICK t : t = ActiveTurn(prompt)
  OBVIOUS
<1> DEFINE row == [turns[t] EXCEPT !.status = "waiting_permission"]
<1>1. UNCHANGED <<turns, hooks, prompt, ended>> /\ claude = "busy"
  BY DEF ClaudeAsks, rows
<1>2. EndsOnce'
  BY <1>1 DEF StopInv, EndsOnce
<1>3. CASE t = 0
  <2>1. hook' = ReadsOnly("PermissionRequest", 0)
    BY <1>0, <1>3 DEF ClaudeAsks
  <2>2. RowToSave' /\ StopToRecord'
    BY <2>1 DEF ReadsOnly, RowToSave, StopToRecord, StopEvent
  <2> QED BY <1>1, <1>2, <2>2, HookStarts
<1>4. CASE t # 0
  <2>1. hook' = Reads("PermissionRequest", t, FALSE, row, "waiting")
    BY <1>0, <1>4 DEF ClaudeAsks
  <2>2. t \in DOMAIN turns /\ turns[t].prompt = prompt /\ ~StopOf(t)
    BY <1>0, <1>1, <1>4, ActiveTurnOpen
  <2>3. row.status = "waiting_permission" /\ row.prompt = prompt
    BY <2>2 DEF TurnRow
  <2> HIDE DEF row
  <2>4. hook'.at = "turn" /\ hook'.name = "PermissionRequest" /\ hook'.turn = t /\ hook'.fresh = FALSE /\ hook'.row = row
    BY <1>4, <2>1 DEF Reads
  <2>5. ~StopOf(t)'
    BY <1>1, <2>2 DEF StopOf
  <2>6. \A u \in DOMAIN turns : turns[u].prompt = prompt /\ u # t => prompt = 0
    BY <2>2 DEF StopInv, CompletedByOwnPrompt
  <2>7. RowToSave'
    BY <1>1, <2>2, <2>3, <2>4, <2>5, <2>6 DEF RowToSave, Rewrites, StopEvent
  <2>8. StopToRecord'
    BY <2>4 DEF StopToRecord
  <2> QED BY <1>1, <1>2, <2>7, <2>8, HookStarts
<1> QED BY <1>3, <1>4

LEMMA StoppingKeepsStops ==
  ASSUME TypeInv, StopInv, NEW name \in StopEvent, ClaudeStops(name)
  PROVE  StopInv'
<1> USE StopFacts, TurnsTable DEF TypeInv
<1>0. PICK t : t = ActiveTurn(prompt)
  OBVIOUS
<1> DEFINE done == IF name = "StopFailure" THEN "failed" ELSE "completed"
           row == [turns[t] EXCEPT !.status = done]
<1>1. UNCHANGED <<turns, hooks, prompt>> /\ claude = "busy" /\ claude' = "idle" /\ ended' = ended \union {prompt}
  BY DEF ClaudeStops, rows
<1>2. EndsOnce'
  BY <1>1 DEF EndsOnce
<1>3. CASE t = 0
  <2>1. hook' = ReadsOnly(name, 0)
    BY <1>0, <1>3 DEF ClaudeStops
  <2>2. RowToSave' /\ StopToRecord'
    BY <2>1 DEF ReadsOnly, RowToSave, StopToRecord
  <2> QED BY <1>1, <1>2, <2>2, HookStarts
<1>4. CASE t # 0
  <2>1. hook' = Reads(name, t, FALSE, row, "turn_complete")
    BY <1>0, <1>4 DEF ClaudeStops
  <2>2. t \in DOMAIN turns /\ turns[t].prompt = prompt /\ ~StopOf(t)
    BY <1>0, <1>1, <1>4, ActiveTurnOpen
  <2>3. row.status = done /\ row.prompt = prompt /\ done # "pending"
    BY <2>2 DEF TurnRow
  <2> HIDE DEF row, done
  <2>4. hook'.at = "turn" /\ hook'.name = name /\ hook'.turn = t /\ hook'.fresh = FALSE /\ hook'.row = row
    BY <1>4, <2>1 DEF Reads
  <2>5. ~StopOf(t)'
    BY <1>1, <2>2 DEF StopOf
  <2>6. \A u \in DOMAIN turns : turns[u].prompt = prompt /\ u # t => prompt = 0
    BY <2>2 DEF StopInv, CompletedByOwnPrompt
  <2>7. RowToSave'
    BY <1>1, <2>2, <2>3, <2>4, <2>5, <2>6 DEF RowToSave, Rewrites
  <2>8. StopToRecord'
    BY <2>4 DEF StopToRecord
  <2> QED BY <1>1, <1>2, <2>7, <2>8, HookStarts
<1> QED BY <1>3, <1>4

(* What saving the row does to the table, if the index lets it. *)
LEMMA RowSaved ==
  ASSUME TypeOK, StopInv, HookSavesTurn, ~(hook' = NoHook /\ turns' = turns), NEW s,
         s = IF hook.fresh THEN Len(turns) + 1 ELSE hook.turn
  PROVE  /\ hook'.at = "runtime" /\ hook'.name = hook.name /\ hook'.turn = s
         /\ DOMAIN turns' = DOMAIN turns \union {s} /\ turns'[s] = hook.row
         /\ \A u \in DOMAIN turns : u # s => turns'[u] = turns[u] /\ ~Rewrites(u)
         /\ ~StopOf(s)
<1> USE TurnsTable
<1>1. /\ turns' = IF hook.fresh THEN Append(turns, hook.row) ELSE [turns EXCEPT ![s] = hook.row]
      /\ hook' = [hook EXCEPT !.at = "runtime", !.turn = s]
  BY DEF HookSavesTurn
<1>2. hook'.at = "runtime" /\ hook'.name = hook.name /\ hook'.turn = s /\ hook.row \in TurnRow
  BY <1>1 DEF TypeOK, HookTypes, HookProcess
<1>3. CASE hook.fresh
  <2>1. s = Len(turns) + 1 /\ turns' = Append(turns, hook.row)
    BY <1>1, <1>3
  <2>2. DOMAIN turns' = 1..s /\ turns'[s] = hook.row /\ \A u \in DOMAIN turns : turns'[u] = turns[u]
    BY <1>2, <2>1, AppendProperties DEF TypeOK, RowTypes
  <2>3. DOMAIN turns = 1..(s - 1) /\ s \in Nat \ {0}
    <3>1. PICK n \in Nat : n = Len(turns) /\ DOMAIN turns = 1..n
      OBVIOUS
    <3>2. s = n + 1
      BY <2>1, <3>1
    <3> QED BY <3>1, <3>2
  <2>4. DOMAIN turns' = DOMAIN turns \union {s} /\ s \notin DOMAIN turns /\ s # 0
    <3>1. \A n \in Nat \ {0} : 1..n = (1..(n - 1)) \union {n} /\ n \notin 1..(n - 1)
      OBVIOUS
    <3> QED BY <2>2, <2>3, <3>1
  <2>5. ~StopOf(s)
    BY <2>4, StopFacts
  <2> QED BY <1>2, <1>3, <2>2, <2>4, <2>5 DEF Rewrites
<1>4. CASE ~hook.fresh
  <2>1. s = hook.turn /\ s \in DOMAIN turns /\ ~StopOf(s)
    BY <1>4 DEF HookSavesTurn, StopInv, RowToSave
  <2>2. turns' = [turns EXCEPT ![s] = hook.row]
    BY <1>1, <1>4
  <2> QED BY <1>2, <1>4, <2>1, <2>2 DEF Rewrites
<1> QED BY <1>3, <1>4

LEMMA SavingKeepsStops ==
  ASSUME TypeOK, StopInv, HookSavesTurn
  PROVE  StopInv'
<1> USE StopFacts
<1>1. UNCHANGED <<hooks, claude, prompt, ended>> /\ hook.at = "turn"
  BY DEF HookSavesTurn, external
<1>2. CASE hook' = NoHook /\ turns' = turns
  BY <1>1, <1>2 DEF NoHook, StopInv, EndsOnce, RowToSave, StopToRecord, StopsRecorded, PromptsGiven,
     CompletedByOwnPrompt, StopOf, Over
<1>3. CASE ~(hook' = NoHook /\ turns' = turns)
  <2>1. PICK s : s = IF hook.fresh THEN Len(turns) + 1 ELSE hook.turn
    OBVIOUS
  <2>2. /\ hook'.at = "runtime" /\ hook'.name = hook.name /\ hook'.turn = s
        /\ DOMAIN turns' = DOMAIN turns \union {s} /\ turns'[s] = hook.row
        /\ \A u \in DOMAIN turns : u # s => turns'[u] = turns[u] /\ ~Rewrites(u)
        /\ ~StopOf(s)
    BY <1>3, <2>1, RowSaved
  <2>3. /\ hook.row.status # "pending" /\ hook.row.prompt <= prompt
        /\ hook.row.status = "completed" \/ hook.name \in StopEvent => hook.row.prompt \in ended
        /\ \A u \in DOMAIN turns : turns[u].prompt = hook.row.prompt /\ u # s => hook.row.prompt = 0
        /\ hook.fresh => hook.name = "UserPromptSubmit"
    BY <1>1, <2>2 DEF StopInv, RowToSave
  <2>4. \A u : StopOf(u)' <=> StopOf(u)
    BY <1>1 DEF StopOf
  <2>5. EndsOnce' /\ RowToSave'
    BY <1>1, <2>2 DEF StopInv, EndsOnce, RowToSave
  <2>6. StopToRecord'
    <3>1. hook.name \in StopEvent => ~StopOf(s) /\ Over(turns[s])'
      BY <1>1, <2>2, <2>3 DEF Over, StopEvent
    <3> QED BY <2>2, <2>4, <3>1 DEF StopToRecord
  <2>7. StopsRecorded'
    <3>1. \A u \in DOMAIN turns' : StopOf(u) => u \in DOMAIN turns /\ u # s
      BY <2>2
    <3>2. \A u \in DOMAIN turns' : StopOf(u) => Over(turns[u])'
      BY <1>1, <2>2, <3>1 DEF StopInv, StopsRecorded, Over
    <3> QED BY <1>1, <2>4, <3>2 DEF StopInv, StopsRecorded
  <2>8. PromptsGiven'
    BY <1>1, <2>2, <2>3 DEF StopInv, PromptsGiven
  <2>9. CompletedByOwnPrompt'
    BY <1>1, <2>2, <2>3 DEF StopInv, CompletedByOwnPrompt
  <2> QED BY <2>5, <2>6, <2>7, <2>8, <2>9 DEF StopInv
<1> QED BY <1>2, <1>3

LEMMA RecordingKeepsStops ==
  ASSUME TypeOK, StopInv, HookSavesRuntime \/ HookRecordsEvent \/ HookDies
  PROVE  StopInv'
<1> USE StopFacts
<1>1. UNCHANGED <<turns, claude, prompt, ended>>
  BY DEF HookSavesRuntime, HookRecordsEvent, HookDies, rows, external
<1>2. EndsOnce' /\ PromptsGiven' /\ CompletedByOwnPrompt'
  BY <1>1 DEF StopInv, EndsOnce, PromptsGiven, CompletedByOwnPrompt
<1>3. CASE HookSavesRuntime
  <2>1. hook.at = "runtime" /\ hook'.at = "record" /\ hook'.name = hook.name /\ hook'.turn = hook.turn
    BY <1>3 DEF HookSavesRuntime, TypeOK, HookTypes, HookProcess
  <2>2. UNCHANGED hooks
    BY <1>3 DEF HookSavesRuntime
  <2> QED BY <1>1, <1>2, <2>1, <2>2 DEF StopInv, RowToSave, StopToRecord, StopsRecorded, StopOf, Over
<1>4. CASE HookDies
  <2>1. hook'.at = "none" /\ UNCHANGED hooks
    BY <1>4 DEF HookDies, NoHook, rows
  <2> QED BY <1>1, <1>2, <2>1 DEF StopInv, RowToSave, StopToRecord, StopsRecorded, StopOf, Over
<1>5. CASE HookRecordsEvent
  <2>1. hook.at = "record" /\ hook'.at = "none"
    BY <1>5 DEF HookRecordsEvent, NoHook
  <2>2. PICK e : e = [name |-> hook.name, turn |-> hook.turn]
    OBVIOUS
  <2>3. /\ DOMAIN hooks' = 1..(Len(hooks) + 1) /\ DOMAIN hooks = 1..Len(hooks) /\ Len(hooks) \in Nat
        /\ \A h \in 1..Len(hooks) : hooks'[h] = hooks[h]
        /\ hooks'[Len(hooks) + 1] = e
    BY <1>5, <2>2, AppendProperties, LedgerTypes DEF HookRecordsEvent, TypeOK, RowTypes, HookTypes, HookProcess
  <2>4. \A u : StopOf(u)' => StopOf(u) \/ (hook.name \in StopEvent /\ hook.turn = u)
    BY <2>2, <2>3 DEF StopOf
  <2>5. \A t \in DOMAIN turns : StopOf(t)' => Over(turns[t])
    BY <1>1, <2>1, <2>4 DEF StopInv, StopToRecord, StopsRecorded
  <2>6. ASSUME NEW g \in DOMAIN hooks', NEW h \in DOMAIN hooks',
               hooks'[g].name \in StopEvent, hooks'[h].name \in StopEvent,
               hooks'[g].turn = hooks'[h].turn, hooks'[g].turn # 0
        PROVE  g = h
    <3>1. hook.name \in StopEvent /\ hook.turn # 0 =>
            \A k \in 1..Len(hooks) : hooks[k].name \in StopEvent => hooks[k].turn # hook.turn
      BY <2>1, <2>3 DEF StopInv, StopToRecord, StopOf
    <3> QED BY <2>2, <2>3, <2>6, <3>1 DEF StopInv, StopsRecorded
  <2>7. StopsRecorded'
    BY <1>1, <2>5, <2>6 DEF StopsRecorded, Over
  <2>8. RowToSave' /\ StopToRecord'
    BY <2>1 DEF RowToSave, StopToRecord
  <2> QED BY <1>2, <2>7, <2>8 DEF StopInv
<1> QED BY <1>3, <1>4, <1>5

LEMMA StopStep ==
  ASSUME TypeInv, StopInv, [Next]_vars
  PROVE  StopInv'
<1>1. TypeOK
  BY DEF TypeInv
<1>2. CASE SendReserve \/ SendPaste \/ InterruptSave \/ AttachTaint \/ DetachReleaseOwner
  BY <1>1, <1>2, ControllerEdits, EditKeepsStops
<1>3. CASE Claude
  BY <1>1, <1>3, TakingKeepsStops, ReadingKeepsStops, AskingKeepsStops, StoppingKeepsStops, LaneBounds
     DEF Claude, StopEvent
<1>4. CASE Hook
  BY <1>1, <1>4, SavingKeepsStops, RecordingKeepsStops DEF Hook
<1>5. CASE ~(SendReserve \/ SendPaste \/ InterruptSave \/ AttachTaint \/ DetachReleaseOwner) /\ ~Claude /\ ~Hook
  BY <1>5, BystandersKeepStops, SilenceKeepsStops, ReadingKeepsStops DEF Next, Controller, Human
<1> QED BY <1>2, <1>3, <1>4, <1>5

LEMMA StopInit == Init => StopInv
<1> SUFFICES ASSUME Init PROVE StopInv
  OBVIOUS
<1>1. DOMAIN turns = {} /\ DOMAIN hooks = {1} /\ hooks[1].name = "SessionStart"
  BY EmptySeq DEF Init
<1> QED BY <1>1 DEF Init, NoHook, StopInv, EndsOnce, RowToSave, StopToRecord, StopsRecorded, StopOf,
      PromptsGiven, CompletedByOwnPrompt, StopEvent

LEMMA NamesStay ==
  ASSUME TypeOK, LedgerInv, StopsNameTurns, UNCHANGED <<outbox, applied>>,
         UNCHANGED hooks \/ HookRecordsEvent
  PROVE  StopsNameTurns'
<1>1. \A h \in DOMAIN hooks : h \in DOMAIN hooks' /\ hooks'[h] = hooks[h]
  <2>1. CASE HookRecordsEvent
    <3>1. PICK e : e = [name |-> hook.name, turn |-> hook.turn]
      OBVIOUS
    <3>2. hooks' = Append(hooks, e) /\ e \in [name : HookName, turn : Nat]
      BY <2>1, <3>1 DEF HookRecordsEvent, TypeOK, HookTypes, HookProcess
    <3> QED BY <3>2, AppendProperties, LedgerTypes DEF TypeOK, RowTypes
  <2> QED BY <2>1
<1>2. \A i \in DOMAIN outbox : outbox[i].hook # 0 => outbox[i].hook \in DOMAIN hooks
  BY LedgerTypes
<1>3. \A i \in DOMAIN applied : applied[i] \in DOMAIN hooks
  BY LedgerTypes DEF LedgerInv, AppliedWereDelivered
<1> QED BY <1>1, <1>2, <1>3 DEF StopsNameTurns

LEMMA QueueingNamesTurns ==
  ASSUME TypeOK, StopsNameTurns, WatchHook \/ WatchObserve
  PROVE  StopsNameTurns'
<1>1. UNCHANGED <<hooks, applied>>
  BY DEF WatchHook, WatchObserve
<1>2. PICK e \in [kind : EventKind, hook : Nat, turn : Nat] :
        /\ outbox' = outbox \/ outbox' = Append(outbox, e)
        /\ e.hook # 0 /\ hooks[e.hook].name \in StopEvent => hooks[e.hook].turn # 0
  <2>1. CASE WatchHook
    <3>1. PICK h \in PendingHooks :
            \/ UNCHANGED outbox
            \/ /\ Classified(h) # "none"
               /\ outbox' = Append(outbox, [kind |-> Classified(h), hook |-> h, turn |-> hooks[h].turn])
      BY <2>1 DEF WatchHook
    <3>2. h \in Nat /\ hooks[h].turn \in Nat
      BY LedgerTypes, ElementOfSeq DEF PendingHooks, TypeOK, RowTypes
    <3>3. Classified(h) # "none" => Classified(h) \in EventKind
      BY DEF Classified, EventKind
    <3>4. Classified(h) # "none" /\ hooks[h].name \in StopEvent => hooks[h].turn # 0
      <4>1. Classified(h) # "none" /\ hooks[h].name \in StopEvent => Managed(hooks[h].turn)
        BY DEF Classified, StopEvent
      <4> QED BY <4>1, TurnsTable DEF Managed
    <3>5. [kind |-> "failed", hook |-> 0, turn |-> 0] \in [kind : EventKind, hook : Nat, turn : Nat]
      BY DEF EventKind
    <3>6. CASE UNCHANGED outbox
      <4> WITNESS [kind |-> "failed", hook |-> 0, turn |-> 0] \in [kind : EventKind, hook : Nat, turn : Nat]
      <4> QED BY <3>6
    <3>7. CASE Classified(h) # "none"
      <4>1. [kind |-> Classified(h), hook |-> h, turn |-> hooks[h].turn] \in [kind : EventKind, hook : Nat, turn : Nat]
        BY <3>2, <3>3, <3>7
      <4> WITNESS [kind |-> Classified(h), hook |-> h, turn |-> hooks[h].turn] \in [kind : EventKind, hook : Nat, turn : Nat]
      <4> QED BY <3>1, <3>4, <3>7
    <3> QED BY <3>1, <3>6, <3>7
  <2>2. CASE WatchObserve
    <3>1. outbox' = outbox \/ outbox' = Append(outbox, [kind |-> "failed", hook |-> 0, turn |-> 0])
      BY <2>2 DEF WatchObserve
    <3>2. [kind |-> "failed", hook |-> 0, turn |-> 0] \in [kind : EventKind, hook : Nat, turn : Nat]
      BY DEF EventKind
    <3> QED BY <3>1, <3>2
  <2> QED BY <2>1, <2>2
<1>3. CASE outbox' = Append(outbox, e)
  <2>1. /\ DOMAIN outbox' = 1..(Len(outbox) + 1) /\ \A i \in 1..Len(outbox) : outbox'[i] = outbox[i]
        /\ outbox'[Len(outbox) + 1] = e /\ DOMAIN outbox = 1..Len(outbox) /\ Len(outbox) \in Nat
    BY <1>3, AppendProperties, LedgerTypes DEF TypeOK, ControllerTypes
  <2>2. \A i \in DOMAIN outbox' : outbox'[i] = e \/ (i \in DOMAIN outbox /\ outbox'[i] = outbox[i])
    BY <2>1
  <2> QED BY <1>1, <1>2, <2>2 DEF StopsNameTurns
<1> QED BY <1>1, <1>2, <1>3 DEF StopsNameTurns

LEMMA PumpNamesTurns ==
  ASSUME TypeOK, StopsNameTurns, PumpStep
  PROVE  StopsNameTurns'
<1>1. PICK k : k = Head(outbox).hook
  OBVIOUS
<1>2. /\ UNCHANGED hooks /\ outbox # <<>> /\ outbox' = Tail(outbox)
      /\ applied' = applied \/ (k # 0 /\ applied' = Append(applied, k))
  <2>1. UNCHANGED hooks /\ outbox # <<>> /\ outbox' = Tail(outbox)
    BY DEF PumpStep
  <2> QED BY <1>1, <2>1, PumpEffect
<1>3. /\ Len(outbox) \in Nat \ {0} /\ DOMAIN outbox = 1..Len(outbox) /\ Head(outbox) = outbox[1]
      /\ DOMAIN outbox' = 1..(Len(outbox) - 1) /\ \A i \in DOMAIN outbox' : outbox'[i] = outbox[i + 1]
  BY <1>2, LedgerTypes, EmptySeq, HeadTailProperties DEF TypeOK, ControllerTypes
<1>4. \A i \in DOMAIN outbox' : \E j \in DOMAIN outbox : outbox'[i] = outbox[j]
  BY <1>3
<1>5. k \in Nat /\ (k # 0 /\ hooks[k].name \in StopEvent => hooks[k].turn # 0)
  <2>1. 1 \in DOMAIN outbox /\ k = outbox[1].hook
    BY <1>1, <1>3
  <2> QED BY <2>1, LedgerTypes DEF StopsNameTurns
<1>6. \A i \in DOMAIN applied' : (i \in DOMAIN applied /\ applied'[i] = applied[i])
                                 \/ (k # 0 /\ applied'[i] = k)
  <2>1. CASE k # 0 /\ applied' = Append(applied, k)
    <3>1. /\ DOMAIN applied' = 1..(Len(applied) + 1) /\ DOMAIN applied = 1..Len(applied) /\ Len(applied) \in Nat
          /\ \A i \in 1..Len(applied) : applied'[i] = applied[i]
          /\ applied'[Len(applied) + 1] = k
      BY <1>5, <2>1, AppendProperties, LedgerTypes DEF TypeOK, RowTypes
    <3> QED BY <2>1, <3>1
  <2> QED BY <1>2, <2>1
<1> QED BY <1>2, <1>4, <1>5, <1>6 DEF StopsNameTurns

LEMMA ResetNamesTurns ==
  ASSUME LedgerInv, StopsNameTurns, StopWorker \/ Crash \/ Adopt
  PROVE  StopsNameTurns'
<1>1. outbox' = <<>> /\ UNCHANGED <<hooks, applied>>
  BY DEF StopWorker, Crash, Adopt, rows, LedgerInv, DownIsEmpty
<1>2. DOMAIN outbox' = {}
  BY <1>1, EmptySeq
<1> QED BY <1>1, <1>2 DEF StopsNameTurns

LEMMA NamesStep ==
  ASSUME TypeOK, LedgerInv, StopsNameTurns, [Next]_vars
  PROVE  StopsNameTurns'
<1>1. CASE UNCHANGED ledgerVars \/ HookRecordsEvent
  <2>1. UNCHANGED <<outbox, applied>> /\ (UNCHANGED hooks \/ HookRecordsEvent)
    BY <1>1 DEF HookRecordsEvent, ledgerVars, session
  <2> QED BY <2>1, NamesStay
<1> QED BY <1>1, Bystanders, QueueingNamesTurns, PumpNamesTurns, ResetNamesTurns
     DEF Next, Controller, Hook

LEMMA NamesInit == Init => StopsNameTurns
<1> SUFFICES ASSUME Init PROVE StopsNameTurns
  OBVIOUS
<1>1. DOMAIN outbox = {} /\ DOMAIN applied = {}
  BY EmptySeq DEF Init
<1> QED BY <1>1 DEF StopsNameTurns

(* Two stops applied for one turn are one event, applied once. *)
LEMMA OneStopApplied ==
  ASSUME TypeOK, LedgerInv, StopInv, StopsNameTurns
  PROVE  OneResultPerTurn
<1> SUFFICES ASSUME NEW i \in DOMAIN applied, NEW j \in DOMAIN applied,
                    hooks[applied[i]].name \in StopEvent, hooks[applied[j]].name \in StopEvent,
                    hooks[applied[i]].turn = hooks[applied[j]].turn
             PROVE  i = j
  BY DEF OneResultPerTurn
<1>1. applied[i] \in DOMAIN hooks /\ applied[j] \in DOMAIN hooks /\ hooks[applied[i]].turn # 0
  BY LedgerTypes DEF LedgerInv, AppliedWereDelivered, StopsNameTurns
<1>2. applied[i] = applied[j]
  BY <1>1 DEF StopInv, StopsRecorded
<1>3. i \in Nat /\ j \in Nat /\ applied[i] \in Nat
  BY LedgerTypes
<1>4. ~(i < j) /\ ~(j < i)
  BY <1>2, <1>3 DEF LedgerInv, AppliedInOrder
<1> QED BY <1>3, <1>4

(* A managed turn is completed only by the end of the prompt it was sent    *)
(* as, however sends, human prompts, hooks that die and crashes interleave. *)
THEOREM OwnPrompt == Spec => []CompletedByOwnPrompt
<1>1. StopInv => CompletedByOwnPrompt
  BY DEF StopInv
<1> QED BY <1>1, InitTypes, TypesKept, StopInit, StopStep, PTL DEF Spec

(* The result of a turn is applied at most once: no two stops of a turn are *)
(* ever recorded, and no event is applied twice.                            *)
THEOREM OneResult == Spec => []OneResultPerTurn
<1>1. TypeInv => TypeOK
  BY DEF TypeInv
<1>2. TypeOK /\ LedgerInv /\ [Next]_vars => LedgerInv'
  BY LedgerStep
<1>3. TypeOK /\ LedgerInv /\ StopsNameTurns /\ [Next]_vars => StopsNameTurns'
  BY NamesStep
<1>4. TypeOK /\ LedgerInv /\ StopInv /\ StopsNameTurns => OneResultPerTurn
  BY OneStopApplied
<1> QED BY <1>1, <1>2, <1>3, <1>4, InitTypes, TypesKept, LedgerInit, StopInit, StopStep, NamesInit,
      PTL DEF Spec

(* While its prompt is being pasted a turn is untainted, in the table and   *)
(* in the hands of any command hook that read it.                           *)
Untouched ==
  ctl.at = "paste" =>
    /\ ctl.turn \in DOMAIN turns /\ ~turns[ctl.turn].human
    /\ Rewrites(ctl.turn) => ~hook.row.human

(* A hook starts from the row as it is in the table. *)
LEMMA ReadsTheTaint ==
  ASSUME TypeInv, Claude \/ HumanAnswers
  PROVE  \/ hook' = hook
         \/ \A t \in DOMAIN turns : Rewrites(t)' => hook'.row.human = turns[t].human
<1> USE TurnsTable DEF TypeInv
<1>1. CASE ClaudeTakesPrompt
  <2>1. PICK m, p : m = Head(composer) /\ p = prompt + 1
    OBVIOUS
  <2>2. \/ hook' = Reads("UserPromptSubmit", m, FALSE, [turns[m] EXCEPT !.status = "active", !.prompt = p], "turn_active")
        \/ hook' = Reads("UserPromptSubmit", 0, TRUE, HumanRow(p), "turn_active")
    BY <1>1, <2>1 DEF ClaudeTakesPrompt
  <2> DEFINE row == [turns[m] EXCEPT !.status = "active", !.prompt = p]
  <2>3. m \in DOMAIN turns => row.human = turns[m].human
    BY DEF TurnRow
  <2> HIDE DEF row
  <2>4. CASE hook' = Reads("UserPromptSubmit", m, FALSE, row, "turn_active")
    <3>1. hook'.turn = m /\ hook'.row = row
      BY <2>4 DEF Reads
    <3> QED BY <2>3, <3>1 DEF Rewrites
  <2>5. CASE hook' = Reads("UserPromptSubmit", 0, TRUE, HumanRow(p), "turn_active")
    <3>1. hook'.fresh
      BY <2>5 DEF Reads
    <3> QED BY <3>1 DEF Rewrites
  <2> QED BY <2>2, <2>4, <2>5 DEF row
<1>2. CASE ClaudeAsks
  <2>1. PICK t : t = ActiveTurn(prompt)
    OBVIOUS
  <2>2. \/ hook' = ReadsOnly("PermissionRequest", 0)
        \/ hook' = Reads("PermissionRequest", t, FALSE, [turns[t] EXCEPT !.status = "waiting_permission"], "waiting")
    BY <1>2, <2>1 DEF ClaudeAsks
  <2> DEFINE row == [turns[t] EXCEPT !.status = "waiting_permission"]
  <2>3. t \in DOMAIN turns => row.human = turns[t].human
    BY DEF TurnRow
  <2> HIDE DEF row
  <2>4. CASE hook' = Reads("PermissionRequest", t, FALSE, row, "waiting")
    <3>1. hook'.turn = t /\ hook'.row = row
      BY <2>4 DEF Reads
    <3> QED BY <2>3, <3>1 DEF Rewrites
  <2>5. CASE hook' = ReadsOnly("PermissionRequest", 0)
    <3>1. hook'.at = "runtime"
      BY <2>5 DEF ReadsOnly
    <3> QED BY <3>1 DEF Rewrites
  <2> QED BY <2>2, <2>4, <2>5 DEF row
<1>3. ASSUME NEW name \in Stops, ClaudeStops(name)
      PROVE  \A t \in DOMAIN turns : Rewrites(t)' => hook'.row.human = turns[t].human
  <2>1. PICK t, done : t = ActiveTurn(prompt) /\ done = (IF name = "StopFailure" THEN "failed" ELSE "completed")
    OBVIOUS
  <2>2. \/ hook' = ReadsOnly(name, 0)
        \/ hook' = Reads(name, t, FALSE, [turns[t] EXCEPT !.status = done], "turn_complete")
    BY <1>3, <2>1 DEF ClaudeStops
  <2> DEFINE row == [turns[t] EXCEPT !.status = done]
  <2>3. t \in DOMAIN turns => row.human = turns[t].human
    BY DEF TurnRow
  <2> HIDE DEF row
  <2>4. CASE hook' = Reads(name, t, FALSE, row, "turn_complete")
    <3>1. hook'.turn = t /\ hook'.row = row
      BY <2>4 DEF Reads
    <3> QED BY <2>3, <3>1 DEF Rewrites
  <2>5. CASE hook' = ReadsOnly(name, 0)
    <3>1. hook'.at = "runtime"
      BY <2>5 DEF ReadsOnly
    <3> QED BY <3>1 DEF Rewrites
  <2> QED BY <2>2, <2>4, <2>5 DEF row
<1>4. CASE ClaudeCallsTool \/ HumanAnswers \/ ClaudeExits
  <2>1. hook' = hook \/ hook'.at = "runtime"
    BY <1>4 DEF ClaudeCallsTool, HumanAnswers, ClaudeExits, ReadsOnly
  <2> QED BY <2>1 DEF Rewrites
<1> QED BY <1>1, <1>2, <1>3, <1>4 DEF Claude

LEMMA ReservedUntouched ==
  ASSUME TypeInv, SendReserve
  PROVE  Untouched'
<1> USE TurnsTable DEF TypeInv
<1>1. PICK s : s = Len(turns) + 1
  OBVIOUS
<1>2. turns' = Append(turns, ManagedRow) /\ ctl'.turn = s /\ UNCHANGED hook
  BY <1>1 DEF SendReserve, At
<1>3. s \in DOMAIN turns' /\ turns'[s] = ManagedRow
  BY <1>1, <1>2, AppendProperties DEF TypeOK, RowTypes
<1>4. hook.turn # s
  BY <1>1 DEF TypeOK, HookTypes
<1> QED BY <1>2, <1>3, <1>4 DEF Untouched, Rewrites, ManagedRow

LEMMA SavingLeavesUntouched ==
  ASSUME TypeInv, StopInv, Untouched, Hook
  PROVE  Untouched'
<1> USE DEF TypeInv
<1>1. UNCHANGED ctl
  BY DEF Hook, HookSavesTurn, HookSavesRuntime, HookRecordsEvent, HookDies
<1>2. CASE UNCHANGED turns /\ hook'.at # "turn"
  BY <1>1, <1>2 DEF Untouched, Rewrites
<1>3. CASE HookSavesTurn /\ ~(hook' = NoHook /\ turns' = turns)
  <2>1. PICK s : s = IF hook.fresh THEN Len(turns) + 1 ELSE hook.turn
    OBVIOUS
  <2>2. /\ hook'.at = "runtime" /\ DOMAIN turns' = DOMAIN turns \union {s} /\ turns'[s] = hook.row
        /\ \A u \in DOMAIN turns : u # s => turns'[u] = turns[u]
    BY <1>3, <2>1, RowSaved
  <2>3. s \in DOMAIN turns => Rewrites(s)
    BY <1>3, <2>1, TurnsTable DEF HookSavesTurn, Rewrites
  <2> QED BY <1>1, <2>2, <2>3 DEF Untouched, Rewrites
<1>4. HookSavesTurn \/ (UNCHANGED turns /\ hook'.at # "turn")
  <2>1. CASE HookSavesRuntime
    BY <2>1 DEF HookSavesRuntime, TypeOK, HookTypes, HookProcess
  <2>2. CASE HookRecordsEvent \/ HookDies
    BY <2>2 DEF HookRecordsEvent, HookDies, NoHook, rows
  <2> QED BY <2>1, <2>2 DEF Hook
<1> QED BY <1>2, <1>3, <1>4 DEF NoHook

LEMMA UntouchedStep ==
  ASSUME TypeInv, StopInv, Untouched, [Next]_vars
  PROVE  Untouched'
<1>1. CASE ctl'.at # "paste"
  BY <1>1 DEF Untouched
<1>2. CASE UNCHANGED <<turns, ctl, hook>>
  BY <1>2 DEF Untouched, Rewrites
<1>3. CASE Claude \/ HumanAnswers
  <2>1. UNCHANGED <<turns, ctl>>
    BY <1>3 DEF Claude, ClaudeTakesPrompt, ClaudeCallsTool, ClaudeAsks, ClaudeStops, ClaudeExits,
       HumanAnswers, rows
  <2> QED BY <1>3, <2>1, ReadsTheTaint DEF Untouched, Rewrites
<1>4. CASE Controller /\ ~SendReserve
  <2>1. CASE SendRefused \/ SendPaste \/ InterruptSend \/ InterruptSave
    <3>1. CASE SendRefused
      BY <1>2, <3>1 DEF SendRefused
    <3>2. CASE SendPaste \/ InterruptSave
      BY <1>1, <3>2 DEF SendPaste, InterruptSave, Idle, At
    <3>3. CASE InterruptSend
      BY <1>1, <3>3 DEF InterruptSend
    <3> QED BY <2>1, <3>1, <3>2, <3>3
  <2>2. CASE AttachTaint \/ AttachClaimTmux \/ AttachClaimOwner \/ AttachReturnOwner
    BY <1>1, <2>2 DEF AttachTaint, AttachClaimTmux, AttachClaimOwner, AttachReturnOwner, Idle, At
  <2>3. CASE LeaveSession \/ DetachReleaseTmux \/ DetachReleaseOwner
    <3>1. CASE LeaveSession
      BY <1>1, <3>1 DEF LeaveSession, Idle, At
    <3>2. CASE DetachReleaseTmux
      BY <1>1, <3>2 DEF DetachReleaseTmux, Idle, At
    <3>3. CASE DetachReleaseOwner
      BY <1>1, <3>3 DEF DetachReleaseOwner, Idle, At
    <3> QED BY <2>3, <3>1, <3>2, <3>3
  <2>4. CASE WatchHook \/ WatchObserve \/ PumpStep
    BY <1>1, <2>4 DEF WatchHook, WatchObserve, PumpStep, Idle, At
  <2>5. CASE StopWorker \/ Crash \/ Adopt \/ AbandonLane
    BY <1>1, <2>5 DEF StopWorker, Crash, Adopt, AbandonLane, Idle, At
  <2> QED BY <1>4, <2>1, <2>2, <2>3, <2>4, <2>5 DEF Controller
<1>5. CASE HumanAttaches \/ HumanLeaves \/ HumanTypes \/ HumanClearsComposer \/ HumanEscapes \/ UNCHANGED vars
  BY <1>2, <1>5 DEF HumanAttaches, HumanLeaves, HumanTypes, HumanClearsComposer, HumanEscapes, vars, rows
<1> QED BY <1>3, <1>4, <1>5, ReservedUntouched, SavingLeavesUntouched DEF Next, Human

LEMMA TaintStep ==
  ASSUME TypeInv, StopInv, Untouched, [Next]_vars, NEW t \in DOMAIN turns,
         turns[t].human, ~turns'[t].human
  PROVE  hook.at = "turn" /\ hook.turn = t
<1> USE TurnsTable DEF TypeInv
<1>1. turns' # turns
  OBVIOUS
<1>2. CASE SendReserve
  <2>1. turns' = Append(turns, ManagedRow)
    BY <1>2 DEF SendReserve
  <2>2. turns'[t] = turns[t]
    BY <2>1, AppendProperties DEF TypeOK, RowTypes
  <2> QED BY <2>2
<1>3. CASE SendPaste
  <2>1. turns'[t] = turns[t] \/ t = ctl.turn
    BY <1>3 DEF SendPaste
  <2> QED BY <1>3, <2>1 DEF SendPaste, Untouched
<1>4. CASE InterruptSave
  <2>1. turns'[t] \in {turns[t], [turns[t] EXCEPT !.status = "interrupt_requested"]}
    BY <1>4 DEF InterruptSave
  <2> QED BY <2>1 DEF TurnRow
<1>5. CASE AttachTaint
  <2>1. turns'[t] \in {turns[t], [turns[t] EXCEPT !.human = TRUE]}
    BY <1>5 DEF AttachTaint, OpenTurns
  <2> QED BY <2>1 DEF TurnRow
<1>6. CASE DetachReleaseOwner
  <2>1. turns'[t] \in {turns[t], [turns[t] EXCEPT !.status = "interrupted"]}
    BY <1>6 DEF DetachReleaseOwner, WriteOff
  <2> QED BY <2>1 DEF TurnRow
<1>7. CASE HookSavesTurn
  <2>1. PICK s : s = IF hook.fresh THEN Len(turns) + 1 ELSE hook.turn
    OBVIOUS
  <2>2. ~(hook' = NoHook /\ turns' = turns)
    BY <1>1
  <2>3. s = t
    BY <1>7, <2>1, <2>2, RowSaved
  <2> QED BY <1>7, <2>1, <2>3 DEF HookSavesTurn
<1>8. CASE ~(SendReserve \/ SendPaste \/ InterruptSave \/ AttachTaint \/ DetachReleaseOwner \/ HookSavesTurn)
  <2>1. UNCHANGED stopVars \/ UNCHANGED turns
    <3>1. CASE HookSavesRuntime \/ HookRecordsEvent \/ HookDies
      BY <3>1 DEF HookSavesRuntime, HookRecordsEvent, HookDies, rows
    <3>2. CASE Claude
      BY <3>2 DEF Claude, ClaudeTakesPrompt, ClaudeCallsTool, ClaudeAsks, ClaudeStops, ClaudeExits, rows
    <3>3. CASE Human \/ UNCHANGED vars
      BY <3>3 DEF Human, HumanAttaches, HumanLeaves, HumanTypes, HumanClearsComposer, HumanAnswers,
         HumanEscapes, rows, vars
    <3>4. CASE SendRefused \/ AttachClaimTmux \/ AttachClaimOwner \/ AttachReturnOwner \/ LeaveSession
               \/ DetachReleaseTmux
      BY <3>4 DEF SendRefused, AttachClaimTmux, AttachClaimOwner, AttachReturnOwner, LeaveSession,
         DetachReleaseTmux, rows
    <3>5. CASE InterruptSend \/ WatchHook \/ WatchObserve \/ PumpStep \/ StopWorker \/ Crash \/ Adopt \/ AbandonLane
      BY <3>5 DEF InterruptSend, WatchHook, WatchObserve, PumpStep, StopWorker, Crash, Adopt, AbandonLane, rows
    <3> QED BY <1>8, <3>1, <3>2, <3>3, <3>4, <3>5 DEF Next, Controller, Hook
  <2> QED BY <1>1, <2>1 DEF stopVars
<1> QED BY <1>2, <1>3, <1>4, <1>5, <1>6, <1>7, <1>8

LEMMA UntouchedInit == Init => Untouched
BY DEF Init, Untouched, Idle, At

(* Nothing the controller does takes a taint away: only a command hook that *)
(* had read the row before the human entered can.                           *)
THEOREM TaintLost == Spec => TaintOnlyLostToHook
<1>1. TypeInv /\ StopInv /\ Untouched /\ [Next]_vars => Untouched'
  BY UntouchedStep
<1>2. TypeInv /\ StopInv /\ Untouched /\ [Next]_vars =>
        [\A t \in DOMAIN turns :
           turns[t].human /\ ~turns'[t].human => hook.at = "turn" /\ hook.turn = t]_vars
  BY TaintStep
<1> QED BY <1>1, <1>2, InitTypes, TypesKept, StopInit, StopStep, UntouchedInit, PTL
     DEF Spec, TaintOnlyLostToHook

----------------------------------------------------------------------------
(* Whose results are applied *)


(* A turn whose stop is recorded, or is about to be, is over for good where *)
(* no interruption saves back a row it read before the stop.               *)
StoppedIsDone ==
  "interrupt" \notin Possible =>
    /\ ctl.at # "interruptSaved"
    /\ hook.at = "turn" /\ hook.name \in StopEvent => hook.row.status \in DoneStatus
    /\ hook.at \in {"runtime", "record"} /\ hook.name \in StopEvent /\ hook.turn # 0
         => turns[hook.turn].status \in DoneStatus
    /\ \A t \in DOMAIN turns : StopOf(t) => turns[t].status \in DoneStatus

(* The stop of a turn that is queued for the pump still speaks for the run. *)
QueuedTurn(h) == Managed(hooks[h].turn)
QueuedIsManaged ==
  \A i \in DOMAIN outbox :
    outbox[i].hook # 0 /\ hooks[outbox[i].hook].name \in StopEvent => QueuedTurn(outbox[i].hook)

(* What the controller's edits do to the provenance and the end of a turn. *)
LEMMA EditedProvenance ==
  ASSUME TypeOK, SendReserve \/ SendPaste \/ InterruptSave \/ AttachTaint \/ DetachReleaseOwner,
         NEW t \in DOMAIN turns
  PROVE  /\ turns[t].origin = "managed" => turns'[t].origin = "managed"
         /\ ~turns[t].human /\ turns'[t].human => AttachTaint /\ turns[t].status \in OpenStatus
         /\ turns[t].status \in DoneStatus /\ ~InterruptSave => turns'[t].status \in DoneStatus
<1> USE TurnsTable
<1>1. CASE SendReserve
  <2>1. turns' = Append(turns, ManagedRow)
    BY <1>1 DEF SendReserve
  <2>2. turns'[t] = turns[t]
    BY <2>1, AppendProperties DEF TypeOK, RowTypes
  <2> QED BY <2>2
<1>2. CASE SendPaste
  <2> DEFINE row == [ManagedRow EXCEPT !.status = "failed"]
  <2>1. turns' = turns \/ turns' = [turns EXCEPT ![ctl.turn] = row]
    BY <1>2 DEF SendPaste
  <2>2. row.origin = "managed" /\ row.status \in DoneStatus /\ row.human = FALSE
    BY DEF ManagedRow, DoneStatus
  <2> HIDE DEF row
  <2> QED BY <2>1, <2>2
<1>3. CASE InterruptSave
  <2> DEFINE row == [turns[ctl.turn] EXCEPT !.status = "interrupt_requested"]
  <2>1. turns' = turns \/ turns' = [turns EXCEPT ![ctl.turn] = row]
    BY <1>3 DEF InterruptSave
  <2>2. ctl.turn \in DOMAIN turns => row.origin = turns[ctl.turn].origin /\ row.human = turns[ctl.turn].human
    BY DEF TurnRow
  <2> HIDE DEF row
  <2> QED BY <1>3, <2>1, <2>2
<1>4. CASE AttachTaint
  <2> DEFINE row(u) == [turns[u] EXCEPT !.human = TRUE]
  <2>1. turns' = turns \/ \E u \in DOMAIN turns : /\ turns' = [turns EXCEPT ![u] = row(u)]
                                                /\ turns[u].status \in OpenStatus
    BY <1>4 DEF AttachTaint, OpenTurns
  <2>2. \A u \in DOMAIN turns : row(u).origin = turns[u].origin /\ row(u).status = turns[u].status
    BY DEF TurnRow
  <2> HIDE DEF row
  <2> QED BY <1>4, <2>1, <2>2
<1>5. CASE DetachReleaseOwner
  <2>1. turns' = turns \/ turns' = [turns EXCEPT ![latest] = WriteOff(turns[latest])]
    BY <1>5 DEF DetachReleaseOwner
  <2>2. \A u \in DOMAIN turns : /\ WriteOff(turns[u]).origin = turns[u].origin
                                /\ WriteOff(turns[u]).human = turns[u].human
                                /\ WriteOff(turns[u]).status = "interrupted"
    BY DEF TurnRow, WriteOff
  <2> QED BY <2>1, <2>2 DEF DoneStatus
<1> QED BY <1>1, <1>2, <1>3, <1>4, <1>5

(* A stop Claude reports is read from, and saved to, a turn that is over.  *)
LEMMA StopsAreRead ==
  ASSUME TypeInv, Claude \/ HumanAnswers
  PROVE  \/ hook' = hook
         \/ /\ hook'.at \in {"turn", "runtime"}
            /\ hook'.name \in StopEvent => \/ hook'.at = "turn" /\ hook'.row.status \in DoneStatus
                                           \/ hook'.at = "runtime" /\ hook'.turn = 0
<1> USE TurnsTable DEF TypeInv
<1>1. ASSUME NEW name \in Stops, ClaudeStops(name)
      PROVE  \/ hook'.at = "turn" /\ hook'.row.status \in DoneStatus
             \/ hook'.at = "runtime" /\ hook'.turn = 0
  <2>1. PICK t, done : t = ActiveTurn(prompt) /\ done = (IF name = "StopFailure" THEN "failed" ELSE "completed")
    OBVIOUS
  <2> DEFINE row == [turns[t] EXCEPT !.status = done]
  <2>2. IF t = 0 THEN hook' = ReadsOnly(name, 0) ELSE hook' = Reads(name, t, FALSE, row, "turn_complete")
    BY <1>1, <2>1 DEF ClaudeStops
  <2>3. t # 0 => t \in DOMAIN turns
    BY <2>1 DEF ActiveTurn
  <2>4. t # 0 => row.status \in DoneStatus
    BY <2>1, <2>3 DEF TurnRow, DoneStatus
  <2> HIDE DEF row
  <2> QED BY <2>2, <2>4 DEF Reads, ReadsOnly
<1>2. CASE ClaudeTakesPrompt
  <2>1. hook'.at = "turn" /\ hook'.name = "UserPromptSubmit"
    BY <1>2, EmptySeq DEF ClaudeTakesPrompt, Reads, Correlates
  <2> QED BY <2>1 DEF StopEvent
<1>3. CASE ClaudeAsks
  <2>1. hook'.at \in {"turn", "runtime"} /\ hook'.name = "PermissionRequest"
    BY <1>3 DEF ClaudeAsks, Reads, ReadsOnly
  <2> QED BY <2>1 DEF StopEvent
<1>4. CASE ClaudeCallsTool \/ HumanAnswers \/ ClaudeExits
  <2>1. hook' = hook \/ (hook'.at = "runtime" /\ hook'.name \in {"PreToolUse", "PostToolUse", "SessionEnd"})
    BY <1>4 DEF ClaudeCallsTool, HumanAnswers, ClaudeExits, ReadsOnly
  <2> QED BY <2>1 DEF StopEvent
<1> QED BY <1>1, <1>2, <1>3, <1>4 DEF Claude

LEMMA SavingKeepsDone ==
  ASSUME TypeInv, StopInv, StoppedIsDone, Hook
  PROVE  StoppedIsDone'
<1> SUFFICES ASSUME "interrupt" \notin Possible PROVE StoppedIsDone'
  BY DEF StoppedIsDone
<1> USE TurnsTable, StopFacts DEF TypeInv
<1>1. UNCHANGED ctl
  BY DEF Hook, HookSavesTurn, HookSavesRuntime, HookRecordsEvent, HookDies
<1>2. CASE HookSavesTurn /\ ~(hook' = NoHook /\ turns' = turns)
  <2>1. PICK s : s = IF hook.fresh THEN Len(turns) + 1 ELSE hook.turn
    OBVIOUS
  <2>2. /\ hook'.at = "runtime" /\ hook'.name = hook.name /\ hook'.turn = s
        /\ DOMAIN turns' = DOMAIN turns \union {s} /\ turns'[s] = hook.row
        /\ \A u \in DOMAIN turns : u # s => turns'[u] = turns[u]
        /\ ~StopOf(s)
    BY <1>2, <2>1, RowSaved
  <2>3. UNCHANGED hooks /\ hook.at = "turn"
    BY <1>2 DEF HookSavesTurn
  <2>4. \A u : StopOf(u)' <=> StopOf(u)
    BY <2>3 DEF StopOf
  <2> QED BY <1>1, <2>2, <2>3, <2>4 DEF StoppedIsDone
<1>3. CASE HookSavesTurn /\ hook' = NoHook /\ turns' = turns
  <2>1. UNCHANGED hooks
    BY <1>3 DEF HookSavesTurn
  <2> QED BY <1>1, <1>3, <2>1 DEF StoppedIsDone, StopOf, NoHook
<1>4. CASE HookSavesRuntime
  <2>1. hook.at = "runtime" /\ hook'.at = "record" /\ hook'.name = hook.name /\ hook'.turn = hook.turn
    BY <1>4 DEF HookSavesRuntime, TypeOK, HookTypes, HookProcess
  <2>2. UNCHANGED <<hooks, turns>>
    BY <1>4 DEF HookSavesRuntime
  <2> QED BY <1>1, <2>1, <2>2 DEF StoppedIsDone, StopOf
<1>5. CASE HookDies
  <2>1. hook'.at = "none" /\ UNCHANGED <<hooks, turns>>
    BY <1>5 DEF HookDies, NoHook, rows
  <2> QED BY <1>1, <2>1 DEF StoppedIsDone, StopOf
<1>6. CASE HookRecordsEvent
  <2>1. hook.at = "record" /\ hook'.at = "none" /\ UNCHANGED turns
    BY <1>6 DEF HookRecordsEvent, NoHook
  <2>2. PICK e : e = [name |-> hook.name, turn |-> hook.turn]
    OBVIOUS
  <2>3. /\ DOMAIN hooks' = 1..(Len(hooks) + 1) /\ DOMAIN hooks = 1..Len(hooks) /\ Len(hooks) \in Nat
        /\ \A h \in 1..Len(hooks) : hooks'[h] = hooks[h]
        /\ hooks'[Len(hooks) + 1] = e
    BY <1>6, <2>2, AppendProperties, LedgerTypes DEF HookRecordsEvent, TypeOK, RowTypes, HookTypes, HookProcess
  <2>4. \A u : StopOf(u)' => StopOf(u) \/ (hook.name \in StopEvent /\ hook.turn = u)
    BY <2>2, <2>3 DEF StopOf
  <2>5. \A t \in DOMAIN turns : StopOf(t)' => turns[t].status \in DoneStatus
    BY <2>1, <2>4 DEF StoppedIsDone
  <2> QED BY <1>1, <2>1, <2>5 DEF StoppedIsDone
<1> QED BY <1>2, <1>3, <1>4, <1>5, <1>6 DEF Hook

LEMMA DoneStep ==
  ASSUME TypeInv, StopInv, StoppedIsDone, [Next]_vars
  PROVE  StoppedIsDone'
<1> SUFFICES ASSUME "interrupt" \notin Possible PROVE StoppedIsDone'
  BY DEF StoppedIsDone
<1> USE TurnsTable, StopFacts DEF TypeInv
<1>1. CASE SendReserve \/ SendPaste \/ InterruptSave \/ AttachTaint \/ DetachReleaseOwner
  <2>1. /\ UNCHANGED <<hooks, hook>> /\ DOMAIN turns \subseteq DOMAIN turns'
        /\ \A t \in DOMAIN turns' : t \notin DOMAIN turns => ~StopOf(t)
    BY <1>1, ControllerEdits DEF Edited
  <2>2. ~InterruptSave
    BY DEF InterruptSave, StoppedIsDone
  <2>3. \A t \in DOMAIN turns : turns[t].status \in DoneStatus => turns'[t].status \in DoneStatus
    BY <1>1, <2>2, EditedProvenance
  <2>4. ctl'.at # "interruptSaved"
    <3>1. CASE SendReserve
      BY <3>1 DEF SendReserve, At
    <3>2. CASE SendPaste \/ InterruptSave
      BY <3>2 DEF SendPaste, InterruptSave, At, Idle
    <3>3. CASE AttachTaint \/ DetachReleaseOwner
      BY <3>3 DEF AttachTaint, DetachReleaseOwner, At, Idle
    <3> QED BY <1>1, <3>1, <3>2, <3>3
  <2>5. \A t : StopOf(t)' <=> StopOf(t)
    BY <2>1 DEF StopOf
  <2> QED BY <2>1, <2>3, <2>4, <2>5 DEF StoppedIsDone
<1>2. CASE Claude \/ HumanAnswers
  <2>1. UNCHANGED <<turns, hooks, ctl>>
    BY <1>2 DEF Claude, ClaudeTakesPrompt, ClaudeCallsTool, ClaudeAsks, ClaudeStops, ClaudeExits,
       HumanAnswers, rows
  <2> QED BY <1>2, <2>1, StopsAreRead DEF StoppedIsDone, StopOf
<1>3. CASE Hook
  BY <1>3, SavingKeepsDone
<1>4. CASE SendRefused \/ InterruptSend \/ AttachClaimTmux \/ AttachClaimOwner \/ AttachReturnOwner
           \/ LeaveSession \/ DetachReleaseTmux
  <2>1. UNCHANGED <<turns, hooks, hook>>
    BY <1>4 DEF SendRefused, InterruptSend, AttachClaimTmux, AttachClaimOwner, AttachReturnOwner,
       LeaveSession, DetachReleaseTmux, rows
  <2>2. ctl'.at # "interruptSaved"
    <3>1. CASE SendRefused \/ InterruptSend
      BY <3>1 DEF SendRefused, InterruptSend, StoppedIsDone
    <3>2. CASE AttachClaimTmux
      BY <3>2 DEF AttachClaimTmux, At, Idle
    <3>3. CASE AttachClaimOwner \/ AttachReturnOwner
      BY <3>3 DEF AttachClaimOwner, AttachReturnOwner, At, Idle
    <3>4. CASE LeaveSession
      BY <3>4 DEF LeaveSession, At, Idle
    <3>5. CASE DetachReleaseTmux
      BY <3>5 DEF DetachReleaseTmux, At, Idle
    <3> QED BY <1>4, <3>1, <3>2, <3>3, <3>4, <3>5
  <2> QED BY <2>1, <2>2 DEF StoppedIsDone, StopOf
<1>5. CASE WatchHook \/ WatchObserve \/ PumpStep \/ StopWorker \/ Crash \/ Adopt \/ AbandonLane
  <2>1. UNCHANGED <<turns, hooks, hook>>
    BY <1>5 DEF WatchHook, WatchObserve, PumpStep, StopWorker, Crash, Adopt, AbandonLane, rows
  <2>2. ctl'.at # "interruptSaved"
    BY <1>5 DEF WatchHook, WatchObserve, PumpStep, StopWorker, Crash, Adopt, AbandonLane, At, Idle, StoppedIsDone
  <2> QED BY <2>1, <2>2 DEF StoppedIsDone, StopOf
<1>6. CASE HumanAttaches \/ HumanLeaves \/ HumanTypes \/ HumanClearsComposer \/ HumanEscapes \/ UNCHANGED vars
  <2>1. UNCHANGED <<turns, hooks, hook, ctl>>
    BY <1>6 DEF HumanAttaches, HumanLeaves, HumanTypes, HumanClearsComposer, HumanEscapes, rows, vars
  <2> QED BY <2>1 DEF StoppedIsDone, StopOf
<1> QED BY <1>1, <1>2, <1>3, <1>4, <1>5, <1>6 DEF Next, Controller, Human

(* A turn that speaks for the run and whose stop is recorded keeps doing so *)
(* unless the session is both interrupted and entered.                      *)
LEMMA ManagedStays ==
  ASSUME TypeInv, StopInv, StoppedIsDone, [Next]_vars, ~({"interrupt", "enter"} \subseteq Possible),
         NEW t, Managed(t), StopOf(t)
  PROVE  Managed(t)'
<1> USE TurnsTable DEF TypeInv, Managed
<1>1. CASE SendReserve \/ SendPaste \/ InterruptSave \/ AttachTaint \/ DetachReleaseOwner
  <2>1. DOMAIN turns \subseteq DOMAIN turns'
    BY <1>1, ControllerEdits DEF Edited
  <2>2. turns'[t].origin = "managed"
    BY <1>1, EditedProvenance
  <2>3. ~(AttachTaint /\ turns[t].status \in OpenStatus)
    BY DEF AttachTaint, StoppedIsDone, OpenStatus, ActiveStatus, DoneStatus
  <2>4. ~turns'[t].human
    BY <1>1, <2>3, EditedProvenance
  <2> QED BY <2>1, <2>2, <2>4
<1>2. CASE HookSavesTurn /\ ~(hook' = NoHook /\ turns' = turns)
  <2>1. PICK s : s = IF hook.fresh THEN Len(turns) + 1 ELSE hook.turn
    OBVIOUS
  <2>2. /\ DOMAIN turns' = DOMAIN turns \union {s} /\ ~StopOf(s)
        /\ \A u \in DOMAIN turns : u # s => turns'[u] = turns[u]
    BY <1>2, <2>1, RowSaved
  <2> QED BY <2>2
<1>3. CASE UNCHANGED turns
  BY <1>3
<1>4. \/ SendReserve \/ SendPaste \/ InterruptSave \/ AttachTaint \/ DetachReleaseOwner
      \/ HookSavesTurn \/ UNCHANGED turns
  <2>1. CASE HookSavesRuntime \/ HookRecordsEvent \/ HookDies
    BY <2>1 DEF HookSavesRuntime, HookRecordsEvent, HookDies, rows
  <2>2. CASE Claude
    BY <2>2 DEF Claude, ClaudeTakesPrompt, ClaudeCallsTool, ClaudeAsks, ClaudeStops, ClaudeExits, rows
  <2>3. CASE Human \/ UNCHANGED vars
    BY <2>3 DEF Human, HumanAttaches, HumanLeaves, HumanTypes, HumanClearsComposer, HumanAnswers,
       HumanEscapes, rows, vars
  <2>4. CASE SendRefused \/ AttachClaimTmux \/ AttachClaimOwner \/ AttachReturnOwner \/ LeaveSession
             \/ DetachReleaseTmux
    BY <2>4 DEF SendRefused, AttachClaimTmux, AttachClaimOwner, AttachReturnOwner, LeaveSession,
       DetachReleaseTmux, rows
  <2>5. CASE InterruptSend \/ WatchHook \/ WatchObserve \/ PumpStep \/ StopWorker \/ Crash \/ Adopt \/ AbandonLane
    BY <2>5 DEF InterruptSend, WatchHook, WatchObserve, PumpStep, StopWorker, Crash, Adopt, AbandonLane, rows
  <2> QED BY <2>1, <2>2, <2>3, <2>4, <2>5 DEF Next, Controller, Hook
<1> QED BY <1>1, <1>2, <1>3, <1>4

LEMMA QueueStaysManaged ==
  ASSUME TypeInv, StopInv, StoppedIsDone, QueuedIsManaged, [Next]_vars,
         ~({"interrupt", "enter"} \subseteq Possible)
  PROVE  QueuedIsManaged'
<1> USE LedgerTypes DEF TypeInv
<1>1. \A h \in DOMAIN hooks : h \in DOMAIN hooks' /\ hooks'[h] = hooks[h]
  <2>1. CASE HookRecordsEvent
    <3>1. PICK e : e = [name |-> hook.name, turn |-> hook.turn]
      OBVIOUS
    <3>2. hooks' = Append(hooks, e) /\ e \in [name : HookName, turn : Nat]
      BY <2>1, <3>1 DEF HookRecordsEvent, TypeOK, HookTypes, HookProcess
    <3> QED BY <3>2, AppendProperties DEF TypeOK, RowTypes
  <2>2. UNCHANGED hooks \/ HookRecordsEvent
    <3>1. UNCHANGED hooks \/ WatchHook \/ WatchObserve \/ PumpStep \/ StopWorker \/ Crash \/ Adopt \/ HookRecordsEvent
      BY Bystanders DEF Next, Controller, Hook, ledgerVars
    <3> QED BY <3>1 DEF WatchHook, WatchObserve, PumpStep, StopWorker, Crash, Adopt, rows
  <2> QED BY <2>1, <2>2
<1>2. ASSUME NEW h \in DOMAIN hooks, hooks[h].name \in StopEvent, QueuedTurn(h)
      PROVE  hooks'[h].name \in StopEvent /\ QueuedTurn(h)'
  <2>1. PICK t : t = hooks[h].turn
    OBVIOUS
  <2>2. Managed(t) /\ StopOf(t)
    BY <1>2, <2>1 DEF StopOf, QueuedTurn
  <2>3. Managed(t)'
    BY <2>2, ManagedStays
  <2> QED BY <1>1, <1>2, <2>1, <2>3 DEF QueuedTurn, Managed
<1>3. CASE \A i \in DOMAIN outbox' : \/ outbox'[i].hook = 0
                                    \/ \E j \in DOMAIN outbox : outbox'[i] = outbox[j]
  <2>1. ASSUME NEW i \in DOMAIN outbox', NEW h, h = outbox'[i].hook, h # 0, hooks'[h].name \in StopEvent
        PROVE  QueuedTurn(h)'
    <3>1. PICK j \in DOMAIN outbox : outbox'[i] = outbox[j]
      BY <1>3, <2>1
    <3>2. h = outbox[j].hook
      BY <2>1, <3>1
    <3>3. h \in DOMAIN hooks /\ hooks[h].name \in StopEvent /\ outbox[j].hook # 0
      BY <1>1, <2>1, <3>1, <3>2
    <3>4. QueuedTurn(h)
      BY <3>2, <3>3 DEF QueuedIsManaged
    <3> QED BY <1>2, <3>3, <3>4
  <2> QED BY <2>1 DEF QueuedIsManaged, QueuedTurn, Managed
<1>4. CASE WatchHook \/ WatchObserve
  <2>1. /\ UNCHANGED <<hooks, turns>>
        /\ \/ UNCHANGED outbox
           \/ \E e : /\ outbox' = Append(outbox, e) /\ e \in [kind : EventKind, hook : Nat, turn : Nat]
                    /\ \/ e.hook = 0
                       \/ (e.hook \in DOMAIN hooks /\ (hooks[e.hook].name \in StopEvent => QueuedTurn(e.hook)))
    <3>1. CASE WatchHook
      <4>1. PICK h \in PendingHooks :
              \/ UNCHANGED outbox
              \/ /\ Classified(h) # "none"
                 /\ outbox' = Append(outbox, [kind |-> Classified(h), hook |-> h, turn |-> hooks[h].turn])
        BY <3>1 DEF WatchHook
      <4>2. h \in DOMAIN hooks /\ h \in Nat /\ hooks[h].turn \in Nat
        BY ElementOfSeq DEF PendingHooks, TypeOK, RowTypes
      <4>3. Classified(h) # "none" => Classified(h) \in EventKind
        BY DEF Classified, EventKind
      <4>4. Classified(h) # "none" /\ hooks[h].name \in StopEvent => QueuedTurn(h)
        BY DEF Classified, StopEvent, QueuedTurn
      <4> QED BY <3>1, <4>1, <4>2, <4>3, <4>4 DEF WatchHook
    <3>2. CASE WatchObserve
      <4>1. outbox' = outbox \/ outbox' = Append(outbox, [kind |-> "failed", hook |-> 0, turn |-> 0])
        BY <3>2 DEF WatchObserve
      <4>2. [kind |-> "failed", hook |-> 0, turn |-> 0] \in [kind : EventKind, hook : Nat, turn : Nat]
        BY DEF EventKind
      <4> QED BY <3>2, <4>1, <4>2 DEF WatchObserve
    <3> QED BY <1>4, <3>1, <3>2
  <2>2. CASE UNCHANGED outbox
    BY <1>3, <2>2
  <2>3. ASSUME NEW e, outbox' = Append(outbox, e), e \in [kind : EventKind, hook : Nat, turn : Nat],
               e.hook = 0 \/ (e.hook \in DOMAIN hooks /\ (hooks[e.hook].name \in StopEvent => QueuedTurn(e.hook)))
        PROVE  QueuedIsManaged'
    <3>1. /\ DOMAIN outbox' = 1..(Len(outbox) + 1) /\ \A i \in 1..Len(outbox) : outbox'[i] = outbox[i]
          /\ outbox'[Len(outbox) + 1] = e /\ DOMAIN outbox = 1..Len(outbox) /\ Len(outbox) \in Nat
      BY <2>3, AppendProperties DEF TypeOK, ControllerTypes
    <3>2. \A i \in DOMAIN outbox' : outbox'[i] = e \/ (i \in DOMAIN outbox /\ outbox'[i] = outbox[i])
      BY <3>1
    <3>3. ASSUME NEW i \in DOMAIN outbox', NEW h, h = outbox'[i].hook, h # 0, hooks'[h].name \in StopEvent
          PROVE  QueuedTurn(h)
      BY <2>1, <2>3, <3>2, <3>3 DEF QueuedIsManaged
    <3> QED BY <2>1, <3>3 DEF QueuedIsManaged, QueuedTurn, Managed
  <2> QED BY <2>1, <2>2, <2>3
<1>5. CASE PumpStep
  <2>1. outbox # <<>> /\ outbox' = Tail(outbox)
    BY <1>5 DEF PumpStep
  <2>2. \A i \in DOMAIN outbox' : \E j \in DOMAIN outbox : outbox'[i] = outbox[j]
    <3>1. /\ DOMAIN outbox' = 1..(Len(outbox) - 1) /\ \A i \in DOMAIN outbox' : outbox'[i] = outbox[i + 1]
          /\ Len(outbox) \in Nat /\ DOMAIN outbox = 1..Len(outbox)
      BY <2>1, EmptySeq, HeadTailProperties DEF TypeOK, ControllerTypes
    <3> QED BY <3>1
  <2> QED BY <1>3, <2>2
<1>6. CASE StopWorker \/ Crash \/ Adopt
  <2>1. outbox' = <<>> \/ UNCHANGED outbox
    BY <1>6 DEF StopWorker, Crash, Adopt
  <2> QED BY <1>3, <2>1, EmptySeq
<1>7. CASE HookRecordsEvent
  BY <1>3, <1>7 DEF HookRecordsEvent, session
<1>8. CASE UNCHANGED ledgerVars
  BY <1>3, <1>8 DEF ledgerVars
<1> QED BY <1>4, <1>5, <1>6, <1>7, <1>8, Bystanders DEF Next, Controller, Hook

(* What the pump applies for a stop is of a managed turn nobody entered.   *)
LEMMA AppliesManaged ==
  ASSUME TypeInv, QueuedIsManaged, [Next]_vars, NEW i \in DOMAIN applied' \ DOMAIN applied,
         hooks[applied'[i]].name \in StopEvent
  PROVE  LET t == hooks[applied'[i]].turn
         IN  t # 0 /\ turns[t].origin = "managed" /\ ~turns[t].human
<1> USE LedgerTypes, TurnsTable DEF TypeInv
<1>1. CASE PumpStep
  <2>1. PICK k : k = Head(outbox).hook
    OBVIOUS
  <2>2. outbox # <<>> /\ k # 0 /\ applied' = Append(applied, k)
    <3>1. applied' = applied \/ (k # 0 /\ applied' = Append(applied, k))
      BY <1>1, <2>1, PumpEffect
    <3> QED BY <1>1, <3>1 DEF PumpStep
  <2>3. Head(outbox) = outbox[1] /\ 1 \in DOMAIN outbox
    BY <2>2, EmptySeq, HeadTailProperties DEF TypeOK, ControllerTypes
  <2>4. k \in Nat
    BY <2>1, <2>3
  <2>5. applied'[i] = k
    <3>1. /\ DOMAIN applied' = 1..(Len(applied) + 1) /\ applied'[Len(applied) + 1] = k
      BY <2>2, <2>4, AppendProperties DEF TypeOK, RowTypes
    <3> QED BY <3>1
  <2>6. Managed(hooks[k].turn)
    BY <2>1, <2>2, <2>3, <2>5 DEF QueuedIsManaged, QueuedTurn
  <2> QED BY <2>5, <2>6 DEF Managed
<1>2. CASE UNCHANGED applied
  BY <1>2
<1>3. PumpStep \/ UNCHANGED applied
  BY Bystanders DEF Next, Controller, Hook, ledgerVars, WatchHook, WatchObserve, StopWorker, Crash, Adopt,
     HookRecordsEvent, rows
<1> QED BY <1>1, <1>2, <1>3

LEMMA ProvenanceInit == Init => StoppedIsDone /\ QueuedIsManaged
<1> SUFFICES ASSUME Init PROVE StoppedIsDone /\ QueuedIsManaged
  OBVIOUS
<1>1. DOMAIN outbox = {} /\ DOMAIN turns = {} /\ ctl.at = "idle" /\ hook.at = "none"
  BY EmptySeq DEF Init, Idle, At, NoHook
<1> QED BY <1>1 DEF StoppedIsDone, QueuedIsManaged

(* Where the user does not both interrupt and enter a session, no result of *)
(* a prompt a human typed, or of a turn a human has entered, is applied.    *)
THEOREM ManagedResults ==
  ASSUME ~({"interrupt", "enter"} \subseteq Possible)
  PROVE  Spec => ResultsAreManaged
<1>1. TypeInv /\ StopInv /\ StoppedIsDone /\ [Next]_vars => StoppedIsDone'
  BY DoneStep
<1>2. TypeInv /\ StopInv /\ StoppedIsDone /\ QueuedIsManaged /\ [Next]_vars => QueuedIsManaged'
  BY QueueStaysManaged
<1>3. TypeInv /\ QueuedIsManaged /\ [Next]_vars =>
        [\A i \in DOMAIN applied' \ DOMAIN applied :
           hooks[applied'[i]].name \in StopEvent =>
             LET t == hooks[applied'[i]].turn
             IN  t # 0 /\ turns[t].origin = "managed" /\ ~turns[t].human]_vars
  BY AppliesManaged
<1> QED BY <1>1, <1>2, <1>3, InitTypes, TypesKept, StopInit, StopStep, ProvenanceInit, PTL
     DEF Spec, ResultsAreManaged
=============================================================================
