--------------------------- MODULE TurnLaneProofs ---------------------------
(***************************************************************************)
(* Type correctness of the lane, for every bound and every choice of       *)
(* Possible and Stops. LedgerProofs builds on it.                          *)
(***************************************************************************)
EXTENDS TurnLane, SequenceTheorems, TLAPS

----------------------------------------------------------------------------
(* Type correctness *)

(* Claude works on a prompt it has been given.                              *)
PromptTaken == claude \in {"busy", "asking"} => prompt # 0

TypeInv == TypeOK /\ PromptTaken

(* A reference to a turn stays good while turns are only added or rewritten. *)
LEMMA ReferencesStay ==
  ASSUME TypeOK, turns' \in Seq(TurnRow), Len(turns') >= Len(turns)
  PROVE  /\ Len(turns') \in Nat
         /\ 0..Len(turns) \subseteq 0..Len(turns')
         /\ UNCHANGED hooks => \A h \in DOMAIN hooks' : hooks'[h].turn \in 0..Len(turns')
         /\ UNCHANGED external => ExternalTypes'
         /\ UNCHANGED hook => HookTypes'
         /\ UNCHANGED <<hooks, ctl, session>> => ControllerTypes'
         /\ UNCHANGED <<hooks, session>> =>
              \A i \in DOMAIN outbox' : outbox'[i].turn \in 0..Len(turns')
  <1>1. Len(turns) \in Nat /\ Len(turns') \in Nat
    BY LenProperties DEF TypeOK, RowTypes
  <1>2. 0..Len(turns) \subseteq 0..Len(turns')
    BY <1>1
  <1>3. UNCHANGED hooks => \A h \in DOMAIN hooks' : hooks'[h].turn \in 0..Len(turns')
    BY <1>2 DEF TypeOK, RowTypes
  <1>4. UNCHANGED external => ExternalTypes'
    BY <1>2 DEF TypeOK, ExternalTypes, external
  <1>5. UNCHANGED hook => HookTypes'
    BY <1>2 DEF TypeOK, HookTypes
  <1>6. UNCHANGED <<hooks, ctl, session>> => ControllerTypes'
    BY <1>2 DEF TypeOK, ControllerTypes, session
  <1>7. UNCHANGED <<hooks, session>> =>
              \A i \in DOMAIN outbox' : outbox'[i].turn \in 0..Len(turns')
    BY <1>2 DEF TypeOK, ControllerTypes, session
  <1> QED BY <1>1, <1>2, <1>3, <1>4, <1>5, <1>6, <1>7

(* Rewriting one row of the table. *)
LEMMA RowRewritten ==
  ASSUME TypeOK, NEW t \in DOMAIN turns, NEW row \in TurnRow
  PROVE  /\ [turns EXCEPT ![t] = row] \in Seq(TurnRow)
         /\ Len([turns EXCEPT ![t] = row]) = Len(turns)
  BY ExceptSeq, LenProperties DEF TypeOK, RowTypes

(* What the table holds, and what an edit of a row leaves. *)
LEMMA TurnsTable ==
  ASSUME TypeOK
  PROVE  /\ Len(turns) \in Nat /\ DOMAIN turns = 1..Len(turns)
         /\ \A t \in DOMAIN turns : turns[t] \in TurnRow
  BY LenProperties, ElementOfSeq DEF TypeOK, RowTypes

LEMMA RowEdited ==
  ASSUME NEW row \in TurnRow
  PROVE  /\ [row EXCEPT !.human = TRUE] \in TurnRow
         /\ \A st \in OpenStatus \union DoneStatus : [row EXCEPT !.status = st] \in TurnRow
         /\ \A p \in Nat : [row EXCEPT !.status = "active", !.prompt = p] \in TurnRow
  BY DEF TurnRow, OpenStatus, ActiveStatus

(* Adding a row. *)
LEMMA RowAdded ==
  ASSUME TypeOK, NEW row \in TurnRow
  PROVE  /\ Append(turns, row) \in Seq(TurnRow)
         /\ Len(Append(turns, row)) = Len(turns) + 1
         /\ Len(turns) \in Nat
  BY AppendProperties, LenProperties DEF TypeOK, RowTypes

LEMMA InitTypes == Init => TypeInv
<1> SUFFICES ASSUME Init PROVE TypeInv
  OBVIOUS
<1> USE LaneBounds DEF Init
<1>1. RowTypes
  <2>1. hooks \in Seq([name : HookName, turn : Nat]) /\ DOMAIN hooks = 1..1
    BY DEF HookName
  <2> QED BY <2>1, EmptySeq DEF RowTypes, ProcessState, Owner, WorkerStatus
<1>2. ExternalTypes
  <2>1. DOMAIN composer = {} /\ composer \in Seq(Nat)
    BY EmptySeq
  <2> QED BY <2>1 DEF ExternalTypes, Owner
<1>3. HookTypes
  BY EmptySeq DEF HookTypes, HookProcess, NoHook, HookName, TurnRow, ManagedRow, OpenStatus, ProcessState, Owner
<1>4. ControllerTypes
  BY EmptySeq DEF ControllerTypes, At, Idle, ControllerAt
<1>5. FaultTypes
  BY DEF FaultTypes
<1> QED BY <1>1, <1>2, <1>3, <1>4, <1>5 DEF TypeInv, TypeOK, PromptTaken

(* The controller's operations keep the types. *)
LEMMA SendTypes ==
  ASSUME TypeInv, SendReserve \/ SendRefused \/ SendPaste
  PROVE  TypeInv'
<1> USE DEF TypeInv
<1>0. Reconciled(TRUE) \in ProcessState
  BY DEF Reconciled, TypeOK, RowTypes, ProcessState
<1>1. CASE SendReserve
  <2>1. ManagedRow \in TurnRow
    BY DEF ManagedRow, TurnRow, OpenStatus
  <2>2. turns' \in Seq(TurnRow) /\ Len(turns') = Len(turns) + 1 /\ Len(turns) \in Nat
    BY <1>1, <2>1, RowAdded DEF SendReserve
  <2>3. RowTypes'
    BY <1>1, <2>2, ReferencesStay DEF SendReserve, TypeOK, RowTypes, ProcessState
  <2>4. ExternalTypes' /\ HookTypes'
    BY <1>1, <2>2, ReferencesStay DEF SendReserve
  <2>5. ControllerTypes'
    BY <1>1, <2>2, ReferencesStay DEF SendReserve, TypeOK, ControllerTypes, session, At, ControllerAt
  <2>6. FaultTypes' /\ PromptTaken'
    BY <1>1 DEF SendReserve, TypeOK, FaultTypes, faults, PromptTaken, external
  <2> QED BY <2>3, <2>4, <2>5, <2>6 DEF TypeOK
<1>2. CASE SendRefused
  <2>1. RowTypes'
    BY <1>0, <1>2 DEF SendRefused, SendFailed, TypeOK, RowTypes, ProcessState, WorkerStatus
  <2> QED BY <1>2, <2>1 DEF SendRefused, TypeOK, ExternalTypes, HookTypes, ControllerTypes,
        FaultTypes, PromptTaken, external, session, faults
<1>3. CASE SendPaste
  <2>1. [ManagedRow EXCEPT !.status = "failed"] \in TurnRow
    BY DEF ManagedRow, TurnRow, DoneStatus
  <2>2. turns' \in Seq(TurnRow) /\ Len(turns') = Len(turns) /\ latest' \in 0..Len(turns)
    <3>1. ctl.turn \in DOMAIN turns => [turns EXCEPT ![ctl.turn] = [ManagedRow EXCEPT !.status = "failed"]] \in Seq(TurnRow)
      BY <2>1, RowRewritten
    <3>2. ctl.turn \in DOMAIN turns => Len([turns EXCEPT ![ctl.turn] = [ManagedRow EXCEPT !.status = "failed"]]) = Len(turns)
      BY <2>1, RowRewritten
    <3>3. ctl.turn \notin DOMAIN turns => [turns EXCEPT ![ctl.turn] = [ManagedRow EXCEPT !.status = "failed"]] = turns
      BY TurnsTable DEF TypeOK, RowTypes
    <3>4. turns' = turns \/ turns' = [turns EXCEPT ![ctl.turn] = [ManagedRow EXCEPT !.status = "failed"]]
      BY <1>3 DEF SendPaste
    <3>5. latest' \in 0..Len(turns)
      BY <1>3 DEF SendPaste, TypeOK, RowTypes, ControllerTypes
    <3> QED BY <3>1, <3>2, <3>3, <3>4, <3>5 DEF TypeOK, RowTypes
  <2>3. proc' \in ProcessState /\ worker' \in WorkerStatus
    BY <1>3 DEF SendPaste, SendFailed, TypeOK, RowTypes, ProcessState, WorkerStatus
  <2>4. composer' \in Seq(Nat) /\ \A i \in DOMAIN composer' : composer'[i] \in 0..Len(turns)
    <3>1. Append(composer, ctl.turn) \in Seq(Nat) /\
          \A i \in DOMAIN Append(composer, ctl.turn) : Append(composer, ctl.turn)[i] \in 0..Len(turns)
      BY AppendProperties, LenProperties DEF TypeOK, ExternalTypes, ControllerTypes
    <3> QED BY <1>3, <3>1 DEF SendPaste, TypeOK, ExternalTypes
  <2>5. RowTypes' /\ HookTypes'
    BY <1>3, <2>2, <2>3 DEF SendPaste, TypeOK, RowTypes, HookTypes
  <2>6. ExternalTypes' /\ FaultTypes' /\ PromptTaken'
    BY <1>3, <2>2, <2>4 DEF SendPaste, TypeOK, ExternalTypes, FaultTypes, faults, PromptTaken
  <2>7. ControllerTypes'
    BY <1>3, <2>2 DEF SendPaste, TypeOK, ControllerTypes, session, At, Idle, ControllerAt
  <2> QED BY <2>5, <2>6, <2>7 DEF TypeOK
<1> QED BY <1>1, <1>2, <1>3

LEMMA InterruptTypes ==
  ASSUME TypeInv, InterruptSend \/ InterruptSave
  PROVE  TypeInv'
<1> USE DEF TypeInv
<1>1. CASE InterruptSend
  <2>1. ctl' \in [at : ControllerAt, turn : Nat] /\ ctl'.turn \in 0..Len(turns)
    BY <1>1, LenProperties DEF InterruptSend, OpenTurns, TypeOK, RowTypes, ControllerAt
  <2> QED BY <1>1, <2>1 DEF InterruptSend, TypeOK, RowTypes, ExternalTypes, HookTypes,
        ControllerTypes, FaultTypes, PromptTaken, rows, session, faults
<1>2. CASE InterruptSave
  <2> DEFINE row == [turns[ctl.turn] EXCEPT !.status = "interrupt_requested"]
  <2>1. ctl.turn \in DOMAIN turns => row \in TurnRow
    BY TurnsTable, RowEdited DEF OpenStatus, ActiveStatus
  <2>2. ctl.turn \notin DOMAIN turns => [turns EXCEPT ![ctl.turn] = row] = turns
    BY TurnsTable DEF TypeOK, RowTypes
  <2>3. [turns EXCEPT ![ctl.turn] = row] \in Seq(TurnRow) /\ Len([turns EXCEPT ![ctl.turn] = row]) = Len(turns)
    <3>1. CASE ctl.turn \in DOMAIN turns
      BY <3>1, <2>1, RowRewritten
    <3>2. CASE ctl.turn \notin DOMAIN turns
      BY <3>2, <2>2 DEF TypeOK, RowTypes
    <3> QED BY <3>1, <3>2
  <2>4. turns' = turns \/ turns' = [turns EXCEPT ![ctl.turn] = row]
    BY <1>2 DEF InterruptSave
  <2>5. turns' \in Seq(TurnRow) /\ Len(turns') = Len(turns)
    BY <2>3, <2>4 DEF TypeOK, RowTypes
  <2>6. RowTypes'
    BY <1>2, <2>5 DEF InterruptSave, TypeOK, RowTypes, ControllerTypes, ProcessState
  <2>7. ControllerTypes'
    BY <1>2, <2>5 DEF InterruptSave, TypeOK, ControllerTypes, session, At, Idle, ControllerAt
  <2> QED BY <1>2, <2>5, <2>6, <2>7, ReferencesStay
        DEF InterruptSave, TypeOK, FaultTypes, PromptTaken, external, faults
<1> QED BY <1>1, <1>2

LEMMA EntryTypes ==
  ASSUME TypeInv,
         \/ AttachTaint \/ AttachClaimTmux \/ AttachClaimOwner \/ LeaveSession
         \/ DetachReleaseTmux \/ AttachReturnOwner \/ DetachReleaseOwner
  PROVE  TypeInv'
<1> USE DEF TypeInv
<1>1. CASE AttachTaint
  <2>1. turns' \in Seq(TurnRow) /\ Len(turns') = Len(turns) /\ latest' \in 0..Len(turns)
    <3>1. \A t \in DOMAIN turns : [turns[t] EXCEPT !.human = TRUE] \in TurnRow
      BY TurnsTable, RowEdited
    <3>2. \A t \in DOMAIN turns :
            /\ [turns EXCEPT ![t] = [turns[t] EXCEPT !.human = TRUE]] \in Seq(TurnRow)
            /\ Len([turns EXCEPT ![t] = [turns[t] EXCEPT !.human = TRUE]]) = Len(turns)
            /\ t \in 0..Len(turns)
      BY <3>1, RowRewritten, LenProperties DEF TypeOK, RowTypes
    <3>3. \/ turns' = turns /\ latest' = latest
          \/ \E t \in DOMAIN turns : /\ turns' = [turns EXCEPT ![t] = [turns[t] EXCEPT !.human = TRUE]]
                                   /\ latest' = t
      BY <1>1 DEF AttachTaint, OpenTurns
    <3>4. CASE turns' = turns /\ latest' = latest
      BY <3>4 DEF TypeOK, RowTypes
    <3>5. ASSUME NEW t \in DOMAIN turns,
                 turns' = [turns EXCEPT ![t] = [turns[t] EXCEPT !.human = TRUE]], latest' = t
          PROVE  turns' \in Seq(TurnRow) /\ Len(turns') = Len(turns) /\ latest' \in 0..Len(turns)
      BY <3>2, <3>5
    <3> QED BY <3>3, <3>4, <3>5
  <2> QED BY <1>1, <2>1 DEF AttachTaint, TypeOK, RowTypes, ExternalTypes, HookTypes,
        ControllerTypes, FaultTypes, PromptTaken, external, session, faults, At, ControllerAt
<1>2. CASE AttachClaimTmux \/ LeaveSession \/ DetachReleaseTmux
  <2>1. ctl' \in [at : ControllerAt, turn : Nat] /\ ctl'.turn \in 0..Len(turns)
    <3>1. \E where \in ControllerAt : ctl' = [at |-> where, turn |-> 0]
      BY <1>2 DEF AttachClaimTmux, LeaveSession, DetachReleaseTmux, At, Idle, ControllerAt
    <3> QED BY <3>1, TurnsTable
  <2>2. paneOwner' \in Owner /\ attached' \in BOOLEAN
    BY <1>2 DEF AttachClaimTmux, LeaveSession, DetachReleaseTmux, TypeOK, ExternalTypes, Owner
  <2>3. UNCHANGED <<rows, pane, composer, claude, prompt, ended, hook, session, faults>>
    BY <1>2 DEF AttachClaimTmux, LeaveSession, DetachReleaseTmux
  <2> QED BY <2>1, <2>2, <2>3 DEF TypeOK, RowTypes, ExternalTypes, HookTypes,
        ControllerTypes, FaultTypes, PromptTaken, rows, session, faults
<1>3. CASE AttachClaimOwner \/ AttachReturnOwner
  <2>1. ctl' \in [at : ControllerAt, turn : Nat] /\ ctl'.turn \in 0..Len(turns)
    BY <1>3, TurnsTable DEF AttachClaimOwner, AttachReturnOwner, At, Idle, ControllerAt
  <2>2. owner' \in Owner
    BY <1>3 DEF AttachClaimOwner, AttachReturnOwner, Owner
  <2>3. UNCHANGED <<proc, turns, latest, hooks, delivered, applied, worker, external, hook, session, faults>>
    BY <1>3 DEF AttachClaimOwner, AttachReturnOwner
  <2> QED BY <2>1, <2>2, <2>3 DEF TypeOK, RowTypes, ExternalTypes, HookTypes,
        ControllerTypes, FaultTypes, PromptTaken, external, session, faults
<1>4. CASE DetachReleaseOwner
  <2>1. turns' \in Seq(TurnRow) /\ Len(turns') = Len(turns)
    <3>1. latest # 0 => /\ WriteOff(turns[latest]) \in TurnRow
                        /\ latest \in DOMAIN turns
      <4>1. latest # 0 => latest \in DOMAIN turns
        BY TurnsTable DEF TypeOK, RowTypes
      <4> QED BY <4>1, TurnsTable, RowEdited DEF WriteOff, DoneStatus
    <3>2. latest # 0 =>
            /\ [turns EXCEPT ![latest] = WriteOff(turns[latest])] \in Seq(TurnRow)
            /\ Len([turns EXCEPT ![latest] = WriteOff(turns[latest])]) = Len(turns)
      BY <3>1, RowRewritten
    <3> QED BY <1>4, <3>2 DEF DetachReleaseOwner, TypeOK, RowTypes
  <2>2. proc' \in ProcessState /\ worker' \in WorkerStatus
    BY <1>4 DEF DetachReleaseOwner, TypeOK, RowTypes, ProcessState, WorkerStatus
  <2> QED BY <1>4, <2>1, <2>2 DEF DetachReleaseOwner, TypeOK, RowTypes, ExternalTypes, HookTypes,
        ControllerTypes, FaultTypes, PromptTaken, external, session, faults, At, Idle,
        ControllerAt, Owner
<1> QED BY <1>1, <1>2, <1>3, <1>4

(* What one step of the pump does, whatever the event says. *)
Marked(h) == IF h # 0 THEN {h} ELSE {}

LEMMA PumpEffect ==
  ASSUME PumpStep
  PROVE  \E done, settled \in BOOLEAN :
           /\ done => Head(outbox).hook \notin delivered \/ Head(outbox).hook = 0
           /\ applied' = IF done /\ Head(outbox).hook # 0
                         THEN Append(applied, Head(outbox).hook) ELSE applied
           /\ delivered' = IF done \/ settled THEN delivered \union Marked(Head(outbox).hook) ELSE delivered
           /\ inflight' = IF settled THEN inflight \ Marked(Head(outbox).hook) ELSE inflight
           /\ pump' = IF ~settled THEN "dead" ELSE IF Head(outbox).kind = "failed" THEN "off" ELSE "up"
           /\ worker' \in {worker} \union StatusAfter(Head(outbox).kind)
           /\ proc' \in {"ready", proc, ProcessAfter(Head(outbox).kind)}
<1>1. PICK status \in StatusAfter(Head(outbox).kind), harvested \in ApplyOutcomes(Head(outbox).kind) :
        LET e == Head(outbox)
            fresh == e.hook # 0 => e.hook \notin delivered
            done == fresh /\ harvested /\ Permitted(worker, status)
            state == IF done THEN ProcessAfter(e.kind) ELSE proc
            result == e.kind \in {"result", "error"}
            settled == ~result \/ MayAcknowledge(e.turn, state)
            mark == IF e.hook # 0 THEN {e.hook} ELSE {}
        IN /\ worker' = IF done THEN status ELSE worker
           /\ applied' = IF done /\ e.hook # 0 THEN Append(applied, e.hook) ELSE applied
           /\ proc' = IF result /\ settled THEN "ready" ELSE state
           /\ delivered' = IF MarkedDelivered(done, settled) THEN delivered \union mark ELSE delivered
           /\ inflight' = IF settled THEN inflight \ mark ELSE inflight
           /\ pump' = IF ~settled THEN "dead" ELSE IF e.kind = "failed" THEN "off" ELSE "up"
  BY DEF PumpStep
<1> DEFINE done == /\ (Head(outbox).hook # 0 => Head(outbox).hook \notin delivered)
                   /\ harvested /\ Permitted(worker, status)
           state == IF done THEN ProcessAfter(Head(outbox).kind) ELSE proc
           settled == \/ ~(Head(outbox).kind \in {"result", "error"})
                      \/ MayAcknowledge(Head(outbox).turn, state)
<1>2. harvested \in BOOLEAN /\ done \in BOOLEAN /\ settled \in BOOLEAN
  BY DEF ApplyOutcomes, Permitted, MayAcknowledge, Terminal
<1> WITNESS done \in BOOLEAN, settled \in BOOLEAN
<1> QED BY <1>1, <1>2 DEF MarkedDelivered, Marked

(* The watcher, the pump, and the end of the board or of the worker. *)
LEMMA SessionTypes ==
  ASSUME TypeInv, WatchHook \/ WatchObserve \/ PumpStep
  PROVE  TypeInv'
<1> USE DEF TypeInv
<1> DEFINE Item == [kind : EventKind, hook : Nat, turn : Nat]
<1> DEFINE Good(e) == e \in Item /\ e.hook \in 0..Len(hooks) /\ e.turn \in 0..Len(turns)
<1>0. /\ Len(turns) \in Nat /\ Len(hooks) \in Nat /\ DOMAIN hooks = 1..Len(hooks)
      /\ outbox \in Seq(Item) /\ DOMAIN outbox = 1..Len(outbox) /\ Len(outbox) \in Nat
      /\ \A i \in DOMAIN outbox : Good(outbox[i])
  BY LenProperties, ElementOfSeq DEF TypeOK, RowTypes, ControllerTypes
<1>1. \A e : Good(e) => /\ Append(outbox, e) \in Seq(Item)
                       /\ \A i \in DOMAIN Append(outbox, e) : Good(Append(outbox, e)[i])
  <2> SUFFICES ASSUME NEW e, Good(e)
               PROVE  /\ Append(outbox, e) \in Seq(Item)
                      /\ \A i \in DOMAIN Append(outbox, e) : Good(Append(outbox, e)[i])
    OBVIOUS
  <2>1. /\ Append(outbox, e) \in Seq(Item)
        /\ DOMAIN Append(outbox, e) = 1..(Len(outbox) + 1)
        /\ \A i \in 1..Len(outbox) : Append(outbox, e)[i] = outbox[i]
        /\ Append(outbox, e)[Len(outbox) + 1] = e
    BY <1>0, AppendProperties, LenProperties
  <2>2. \A i \in 1..Len(outbox) : Good(outbox[i])
    BY <1>0, ElementOfSeq DEF TypeOK, ControllerTypes
  <2> QED BY <1>0, <2>1, <2>2
<1>2. CASE WatchHook
  <2>1. PICK h \in PendingHooks :
          IF Classified(h) = "none"
          THEN delivered' = delivered \union {h} /\ UNCHANGED <<outbox, inflight>>
          ELSE /\ outbox' = Append(outbox, [kind |-> Classified(h), hook |-> h,
                                            turn |-> hooks[h].turn])
               /\ inflight' = inflight \union {h}
               /\ UNCHANGED delivered
    BY <1>2 DEF WatchHook
  <2>2. /\ h \in DOMAIN hooks /\ hooks[h].turn \in Nat /\ hooks[h].turn \in 0..Len(turns)
        /\ Classified(h) \in EventKind \union {"none"}
    BY <1>0, TurnsTable DEF PendingHooks, TypeOK, RowTypes, Classified, EventKind
  <2>3. Classified(h) # "none" => Good([kind |-> Classified(h), hook |-> h, turn |-> hooks[h].turn])
    BY <1>0, <2>2
  <2>4. /\ outbox' \in Seq(Item) /\ (\A i \in DOMAIN outbox' : Good(outbox'[i]))
        /\ inflight' \subseteq DOMAIN hooks /\ delivered' \subseteq DOMAIN hooks
    <3>1. CASE Classified(h) = "none"
      BY <1>0, <2>1, <2>2, <3>1 DEF TypeOK, RowTypes, ControllerTypes
    <3>2. CASE Classified(h) # "none"
      BY <1>1, <2>1, <2>2, <2>3, <3>2 DEF TypeOK, RowTypes, ControllerTypes
    <3> QED BY <3>1, <3>2
  <2>5. RowTypes' /\ ControllerTypes'
    BY <1>2, <2>4 DEF WatchHook, TypeOK, RowTypes, ControllerTypes
  <2> QED BY <1>2, <2>5 DEF WatchHook, TypeOK, ExternalTypes, HookTypes, FaultTypes, PromptTaken,
        external, faults
<1>3. CASE WatchObserve
  <2>1. Good([kind |-> "failed", hook |-> 0, turn |-> 0])
    BY <1>0 DEF EventKind
  <2>2. outbox' \in Seq(Item) /\ \A i \in DOMAIN outbox' : Good(outbox'[i])
    <3>1. outbox' = outbox \/ outbox' = Append(outbox, [kind |-> "failed", hook |-> 0, turn |-> 0])
      BY <1>3 DEF WatchObserve
    <3> QED BY <1>0, <1>1, <2>1, <3>1, ElementOfSeq DEF TypeOK, ControllerTypes
  <2>3. RowTypes' /\ ControllerTypes'
    BY <1>3, <2>2 DEF WatchObserve, ObservedOwner, TypeOK, RowTypes, ExternalTypes,
      ControllerTypes, ProcessState
  <2> QED BY <1>3, <2>3 DEF WatchObserve, TypeOK, ExternalTypes, HookTypes, FaultTypes,
        PromptTaken, external, faults
<1>4. CASE PumpStep
  <2>1. outbox' = Tail(outbox) /\ outbox # <<>>
        /\ UNCHANGED <<owner, turns, latest, hooks, external, hook, ctl, watch, faults>>
    BY <1>4 DEF PumpStep
  <2>2. /\ outbox' \in Seq(Item) /\ DOMAIN outbox' = 1..(Len(outbox) - 1)
        /\ \A i \in DOMAIN outbox' : outbox'[i] = outbox[i + 1]
    BY <1>0, <2>1, HeadTailProperties, LenProperties
  <2>3. Head(outbox) \in Item /\ Head(outbox).hook \in 0..Len(hooks)
    <3>1. Head(outbox) = outbox[1] /\ 1 \in DOMAIN outbox
      BY <1>0, <2>1, EmptySeq
    <3> QED BY <1>0, <3>1
  <2>4. /\ ProcessAfter(Head(outbox).kind) \in ProcessState
        /\ StatusAfter(Head(outbox).kind) \subseteq WorkerStatus
    BY <2>3 DEF ProcessAfter, StatusAfter, TypeOK, RowTypes, ProcessState, WorkerStatus, EventKind
  <2>5. proc' \in ProcessState /\ worker' \in WorkerStatus /\ pump' \in {"up", "dead", "off"}
    BY <1>4, <2>4, PumpEffect DEF TypeOK, RowTypes, ProcessState
  <2>6. Marked(Head(outbox).hook) \subseteq DOMAIN hooks
    BY <1>0, <2>3 DEF Marked
  <2>7. delivered' \subseteq DOMAIN hooks /\ inflight' \subseteq DOMAIN hooks
    BY <1>4, <2>6, PumpEffect DEF TypeOK, RowTypes, ControllerTypes
  <2>8. applied' \in Seq(Nat)
    <3>1. Append(applied, Head(outbox).hook) \in Seq(Nat)
      BY <2>3, AppendProperties DEF TypeOK, RowTypes
    <3> QED BY <1>4, <3>1, PumpEffect DEF TypeOK, RowTypes
  <2>9. \A i \in DOMAIN outbox' : Good(outbox'[i])
    <3>1. \A i \in 1..(Len(outbox) - 1) : i + 1 \in DOMAIN outbox
      BY <1>0
    <3> QED BY <1>0, <2>2, <3>1
  <2> QED BY <2>1, <2>2, <2>5, <2>7, <2>8, <2>9 DEF TypeOK, RowTypes, ExternalTypes, HookTypes,
        ControllerTypes, FaultTypes, PromptTaken, external, faults
<1> QED BY <1>2, <1>3, <1>4

LEMMA LifeTypes ==
  ASSUME TypeInv, StopWorker \/ Crash \/ Adopt \/ AbandonLane
  PROVE  TypeInv'
<1> USE DEF TypeInv
<1>0. \A w \in ControllerAt : At(w, 0) \in [at : ControllerAt, turn : Nat] /\ At(w, 0).turn \in 0..Len(turns)
  BY TurnsTable DEF At
<1>1. CASE StopWorker
  <2>1. ExternalTypes'
    <3>1. composer' \in Seq(Nat) /\ DOMAIN composer' = {}
      BY <1>1, EmptySeq DEF StopWorker
    <3> QED BY <1>1, <3>1 DEF StopWorker, TypeOK, ExternalTypes
  <2>2. ControllerTypes'
    <3>1. outbox' \in Seq([kind : EventKind, hook : Nat, turn : Nat]) /\ DOMAIN outbox' = {}
      BY <1>1, EmptySeq DEF StopWorker
    <3> QED BY <1>1, <1>0, <3>1 DEF StopWorker, TypeOK, ControllerTypes, ControllerAt
  <2> QED BY <1>1, <2>1, <2>2 DEF StopWorker, TypeOK, RowTypes, HookTypes, FaultTypes,
        PromptTaken, faults, ProcessState, WorkerStatus
<1>2. CASE Crash
  <2>1. ControllerTypes'
    <3>1. outbox' \in Seq([kind : EventKind, hook : Nat, turn : Nat]) /\ DOMAIN outbox' = {}
      BY <1>2, EmptySeq DEF Crash
    <3> QED BY <1>2, <1>0, <3>1 DEF Crash, TypeOK, ControllerTypes, ControllerAt, rows
  <2>2. FaultTypes'
    BY <1>2, LaneBounds DEF Crash, TypeOK, FaultTypes
  <2> QED BY <1>2, <2>1, <2>2 DEF Crash, TypeOK, RowTypes, ExternalTypes, HookTypes,
        PromptTaken, rows, external
<1>3. CASE Adopt
  <2>1. RowTypes'
    BY <1>3 DEF Adopt, Reconciled, TypeOK, RowTypes, ExternalTypes, ProcessState, WorkerStatus
  <2>2. ControllerTypes'
    BY <1>3, <1>0 DEF Adopt, Idle, TypeOK, ControllerTypes, ControllerAt
  <2> QED BY <1>3, <2>1, <2>2 DEF Adopt, TypeOK, ExternalTypes, HookTypes, FaultTypes,
        PromptTaken, external, faults
<1>4. CASE AbandonLane
  <2>1. RowTypes'
    BY <1>4 DEF AbandonLane, TypeOK, RowTypes, ProcessState, WorkerStatus
  <2>2. ControllerTypes'
    BY <1>4, <1>0 DEF AbandonLane, TypeOK, ControllerTypes, session, ControllerAt
  <2> QED BY <1>4, <2>1, <2>2 DEF AbandonLane, TypeOK, ExternalTypes, HookTypes, FaultTypes,
        PromptTaken, external, faults
<1> QED BY <1>1, <1>2, <1>3, <1>4

(* What a hook reads when it starts. *)
LEMMA ReadsType ==
  ASSUME TypeOK, NEW name \in HookName, NEW t \in 0..Len(turns), NEW fresh \in BOOLEAN,
         NEW row \in TurnRow, NEW state \in ProcessState
  PROVE  /\ Reads(name, t, fresh, row, state) \in HookProcess
         /\ Reads(name, t, fresh, row, state).turn = t
<1>1. t \in Nat /\ owner \in Owner
  BY TurnsTable DEF TypeOK, RowTypes
<1> QED BY <1>1 DEF Reads, HookProcess

LEMMA ReadsOnlyType ==
  ASSUME TypeOK, NEW name \in HookName, NEW t \in 0..Len(turns)
  PROVE  ReadsOnly(name, t) \in HookProcess /\ ReadsOnly(name, t).turn = t
<1>1. t \in Nat /\ owner \in Owner /\ proc \in ProcessState /\ ManagedRow \in TurnRow
  BY TurnsTable DEF TypeOK, RowTypes, ManagedRow, TurnRow, OpenStatus
<1> QED BY <1>1 DEF ReadsOnly, HookProcess

LEMMA ActiveTurnType ==
  ASSUME TypeOK, NEW p
  PROVE  /\ ActiveTurn(p) \in 0..Len(turns)
         /\ ActiveTurn(p) # 0 => ActiveTurn(p) \in DOMAIN turns
  BY TurnsTable DEF ActiveTurn

(* Claude, its hooks and the human keep the types. *)
LEMMA ClaudeTypes ==
  ASSUME TypeInv,
         \/ ClaudeTakesPrompt \/ ClaudeCallsTool \/ ClaudeAsks
         \/ (\E name \in Stops : ClaudeStops(name)) \/ ClaudeExits
  PROVE  TypeInv'
<1> USE DEF TypeInv
<1>0. /\ Len(turns) \in Nat /\ DOMAIN turns = 1..Len(turns) /\ \A t \in DOMAIN turns : turns[t] \in TurnRow
      /\ 0 \in 0..Len(turns) /\ ManagedRow \in TurnRow
  BY TurnsTable DEF ManagedRow, TurnRow, OpenStatus
<1>1. CASE ClaudeTakesPrompt
  <2>1. /\ prompt' = prompt + 1 /\ prompt' \in Nat /\ prompt' # 0 /\ composer # <<>>
        /\ composer' = Tail(composer) /\ claude' = "busy"
        /\ UNCHANGED <<rows, paneOwner, pane, attached, ended, ctl, session, faults>>
    BY <1>1 DEF ClaudeTakesPrompt, TypeOK, ExternalTypes
  <2>2. /\ composer' \in Seq(Nat) /\ DOMAIN composer' = 1..(Len(composer) - 1)
        /\ \A i \in DOMAIN composer' : composer'[i] = composer[i + 1]
        /\ DOMAIN composer = 1..Len(composer) /\ Len(composer) \in Nat \ {0}
        /\ Head(composer) = composer[1]
    BY <2>1, HeadTailProperties, LenProperties, EmptySeq DEF TypeOK, ExternalTypes
  <2>3. \A i \in DOMAIN composer' : composer'[i] \in 0..Len(turns)
    <3>1. \A i \in 1..(Len(composer) - 1) : i + 1 \in DOMAIN composer
      BY <2>2
    <3> QED BY <2>2, <3>1 DEF TypeOK, ExternalTypes
  <2>4. Head(composer) \in 0..Len(turns)
    <3>1. 1 \in DOMAIN composer
      BY <2>2
    <3> QED BY <2>2, <3>1 DEF TypeOK, ExternalTypes
  <2>5. HookTypes'
    <3>1. HumanRow(prompt + 1) \in TurnRow
      BY <2>1 DEF HumanRow, TurnRow, OpenStatus, ActiveStatus
    <3>2. Head(composer) # 0 => [turns[Head(composer)] EXCEPT !.status = "active", !.prompt = prompt + 1] \in TurnRow
      <4>1. Head(composer) # 0 => Head(composer) \in DOMAIN turns
        BY <1>0, <2>4
      <4> QED BY <1>0, <2>1, <4>1, RowEdited
    <3>3. \/ /\ Head(composer) # 0
             /\ hook' = Reads("UserPromptSubmit", Head(composer), FALSE,
                  [turns[Head(composer)] EXCEPT !.status = "active", !.prompt = prompt + 1], "turn_active")
          \/ hook' = Reads("UserPromptSubmit", 0, TRUE, HumanRow(prompt + 1), "turn_active")
      BY <1>1 DEF ClaudeTakesPrompt, Correlates
    <3>4. "UserPromptSubmit" \in HookName /\ "turn_active" \in ProcessState
      BY DEF HookName, ProcessState
    <3>5. hook' \in HookProcess /\ hook'.turn \in 0..Len(turns)
      <4>1. CASE /\ Head(composer) # 0
                 /\ hook' = Reads("UserPromptSubmit", Head(composer), FALSE,
                      [turns[Head(composer)] EXCEPT !.status = "active", !.prompt = prompt + 1], "turn_active")
        BY <2>4, <3>2, <3>4, <4>1, ReadsType
      <4>2. CASE hook' = Reads("UserPromptSubmit", 0, TRUE, HumanRow(prompt + 1), "turn_active")
        BY <1>0, <3>1, <3>4, <4>2, ReadsType
      <4> QED BY <3>3, <4>1, <4>2
    <3> QED BY <2>1, <3>5 DEF HookTypes, rows
  <2>6. ended' \subseteq 1..prompt'
    BY <2>1 DEF TypeOK, ExternalTypes
  <2> QED BY <2>1, <2>2, <2>3, <2>5, <2>6 DEF TypeOK, RowTypes, ExternalTypes, ControllerTypes,
        FaultTypes, PromptTaken, rows, session, faults
<1>2. CASE ClaudeCallsTool
  <2>1. hook' \in HookProcess /\ hook'.turn \in 0..Len(turns)
    <3>1. "PreToolUse" \in HookName
      BY DEF HookName
    <3> QED BY <1>2, <3>1, ReadsOnlyType, ActiveTurnType DEF ClaudeCallsTool
  <2> QED BY <1>2, <2>1 DEF ClaudeCallsTool, TypeOK, RowTypes, ExternalTypes, HookTypes,
        ControllerTypes, FaultTypes, PromptTaken, rows, external, session, faults
<1>3. CASE ClaudeAsks
  <2>1. hook' \in HookProcess /\ hook'.turn \in 0..Len(turns)
    <3> DEFINE t == ActiveTurn(prompt)
    <3>1. t # 0 => [turns[t] EXCEPT !.status = "waiting_permission"] \in TurnRow
      BY <1>0, ActiveTurnType, RowEdited DEF OpenStatus, ActiveStatus
    <3>2. "PermissionRequest" \in HookName /\ "waiting" \in ProcessState
      BY DEF HookName, ProcessState
    <3>3. hook' = IF t = 0 THEN ReadsOnly("PermissionRequest", 0)
                  ELSE Reads("PermissionRequest", t, FALSE,
                             [turns[t] EXCEPT !.status = "waiting_permission"], "waiting")
      BY <1>3 DEF ClaudeAsks
    <3>4. t \in 0..Len(turns)
      BY ActiveTurnType
    <3> HIDE DEF t
    <3>5. CASE t = 0
      BY <1>0, <3>2, <3>3, <3>5, ReadsOnlyType
    <3>6. CASE t # 0
      BY <3>1, <3>2, <3>3, <3>4, <3>6, ReadsType
    <3> QED BY <3>5, <3>6
  <2> QED BY <1>3, <2>1 DEF ClaudeAsks, TypeOK, RowTypes, ExternalTypes, HookTypes,
        ControllerTypes, FaultTypes, PromptTaken, rows, session, faults
<1>4. ASSUME NEW name \in Stops, ClaudeStops(name) PROVE TypeInv'
  <2>1. hook' \in HookProcess /\ hook'.turn \in 0..Len(turns)
    <3> DEFINE t == ActiveTurn(prompt)
               done == IF name = "StopFailure" THEN "failed" ELSE "completed"
    <3>1. t # 0 => [turns[t] EXCEPT !.status = done] \in TurnRow
      BY <1>0, ActiveTurnType, RowEdited DEF DoneStatus
    <3>2. name \in HookName /\ "turn_complete" \in ProcessState
      BY LaneBounds DEF HookName, StopEvent, ProcessState
    <3>3. hook' = IF t = 0 THEN ReadsOnly(name, 0)
                  ELSE Reads(name, t, FALSE, [turns[t] EXCEPT !.status = done], "turn_complete")
      BY <1>4 DEF ClaudeStops
    <3>4. t \in 0..Len(turns)
      BY ActiveTurnType
    <3> HIDE DEF t, done
    <3>5. CASE t = 0
      BY <1>0, <3>2, <3>3, <3>5, ReadsOnlyType
    <3>6. CASE t # 0
      BY <3>1, <3>2, <3>3, <3>4, <3>6, ReadsType
    <3> QED BY <3>5, <3>6
  <2>2. ended' \subseteq 1..prompt
    BY <1>4 DEF ClaudeStops, TypeOK, ExternalTypes, PromptTaken
  <2> QED BY <1>4, <2>1, <2>2 DEF ClaudeStops, TypeOK, RowTypes, ExternalTypes, HookTypes,
        ControllerTypes, FaultTypes, PromptTaken, rows, session, faults
<1>5. CASE ClaudeExits
  <2>1. HookTypes'
    <3>1. /\ ReadsOnly("SessionEnd", 0) \in HookProcess /\ ReadsOnly("SessionEnd", 0).turn = 0
      BY <1>0, ReadsOnlyType DEF HookName
    <3>2. /\ [ReadsOnly("SessionEnd", 0) EXCEPT !.proc = "exited"] \in HookProcess
          /\ [ReadsOnly("SessionEnd", 0) EXCEPT !.proc = "exited"].turn = 0
      BY <3>1 DEF HookProcess, ProcessState
    <3> QED BY <1>0, <1>5, <3>2 DEF ClaudeExits, TypeOK, HookTypes, rows
  <2>2. composer' \in Seq(Nat) /\ DOMAIN composer' = {}
    BY <1>5, EmptySeq DEF ClaudeExits
  <2> QED BY <1>5, <2>1, <2>2 DEF ClaudeExits, TypeOK, RowTypes, ExternalTypes,
        ControllerTypes, FaultTypes, PromptTaken, rows, session, faults
<1> QED BY <1>1, <1>2, <1>3, <1>4, <1>5

LEMMA HookTypesKept ==
  ASSUME TypeInv, Hook
  PROVE  TypeInv'
<1> USE DEF TypeInv
<1>0. NoHook \in HookProcess /\ NoHook.turn = 0 /\ 0 \in 0..Len(turns)
  BY TurnsTable DEF NoHook, HookProcess, HookName, TurnRow, ManagedRow, OpenStatus, ProcessState, Owner
<1>1. CASE HookSavesTurn
  <2> DEFINE t == IF hook.fresh THEN Len(turns) + 1 ELSE hook.turn
             saved == IF hook.fresh THEN Append(turns, hook.row) ELSE [turns EXCEPT ![t] = hook.row]
  <2>1. hook.row \in TurnRow /\ hook.turn \in 0..Len(turns) /\ hook.fresh \in BOOLEAN
    BY DEF TypeOK, HookTypes, HookProcess
  <2>2. /\ saved \in Seq(TurnRow) /\ Len(saved) \in Nat /\ Len(saved) >= Len(turns)
        /\ t \in 0..Len(saved)
    <3>1. CASE hook.fresh
      BY <2>1, <3>1, RowAdded
    <3>2. CASE ~hook.fresh /\ hook.turn \in DOMAIN turns
      BY <2>1, <3>2, RowRewritten, TurnsTable
    <3>3. CASE ~hook.fresh /\ hook.turn \notin DOMAIN turns
      <4>1. saved = turns
        BY <3>3, TurnsTable DEF TypeOK, RowTypes
      <4>2. turns \in Seq(TurnRow) /\ Len(turns) \in Nat
        BY TurnsTable DEF TypeOK, RowTypes
      <4>3. t = hook.turn
        BY <3>3
      <4> HIDE DEF saved, t
      <4> QED BY <2>1, <4>1, <4>2, <4>3
    <3> QED BY <3>1, <3>2, <3>3
  <2>3. \/ turns' = saved /\ latest' = t /\ hook' = [hook EXCEPT !.at = "runtime", !.turn = t]
        \/ turns' = turns /\ latest' = latest /\ hook' = NoHook
    BY <1>1 DEF HookSavesTurn
  <2>4. [hook EXCEPT !.at = "runtime", !.turn = t] \in HookProcess /\ [hook EXCEPT !.at = "runtime", !.turn = t].turn = t
    <3>1. t \in Nat
      BY <2>2
    <3>2. hook \in HookProcess
      BY DEF TypeOK, HookTypes
    <3> HIDE DEF t, saved
    <3> QED BY <3>1, <3>2 DEF HookProcess
  <2>5. /\ turns' \in Seq(TurnRow) /\ Len(turns') >= Len(turns) /\ latest' \in 0..Len(turns')
        /\ hook' \in HookProcess /\ hook'.turn \in 0..Len(turns')
    <3> HIDE DEF t, saved
    <3>1. turns \in Seq(TurnRow) /\ Len(turns) \in Nat /\ latest \in 0..Len(turns)
      BY TurnsTable DEF TypeOK, RowTypes
    <3>2. CASE turns' = saved /\ latest' = t /\ hook' = [hook EXCEPT !.at = "runtime", !.turn = t]
      BY <2>2, <2>4, <3>2
    <3>3. CASE turns' = turns /\ latest' = latest /\ hook' = NoHook
      BY <1>0, <3>1, <3>3
    <3> QED BY <2>3, <3>2, <3>3
  <2>6. UNCHANGED <<proc, owner, hooks, delivered, applied, worker, external, ctl, session, faults>>
    BY <1>1 DEF HookSavesTurn
  <2> QED BY <2>5, <2>6, ReferencesStay DEF TypeOK, RowTypes, HookTypes, FaultTypes, PromptTaken,
        external, faults
<1>2. CASE HookSavesRuntime
  <2>1. hook' \in HookProcess /\ hook'.turn = hook.turn /\ hook.proc \in ProcessState /\ hook.owner \in Owner
    BY <1>2 DEF HookSavesRuntime, TypeOK, HookTypes, HookProcess
  <2> QED BY <1>2, <2>1 DEF HookSavesRuntime, TypeOK, RowTypes, ExternalTypes, HookTypes,
        ControllerTypes, FaultTypes, PromptTaken, external, session, faults
<1>3. CASE HookRecordsEvent
  <2>1. /\ hook.name \in HookName /\ hook.turn \in Nat /\ hook.turn \in 0..Len(turns)
        /\ hooks' = Append(hooks, [name |-> hook.name, turn |-> hook.turn])
    BY <1>3 DEF HookRecordsEvent, TypeOK, HookTypes, HookProcess
  <2>2. /\ hooks' \in Seq([name : HookName, turn : Nat]) /\ Len(hooks') = Len(hooks) + 1
        /\ DOMAIN hooks = 1..Len(hooks) /\ DOMAIN hooks' = 1..(Len(hooks) + 1) /\ Len(hooks) \in Nat
        /\ \A h \in DOMAIN hooks : hooks'[h] = hooks[h]
        /\ hooks'[Len(hooks) + 1] = [name |-> hook.name, turn |-> hook.turn]
    BY <2>1, AppendProperties, LenProperties DEF TypeOK, RowTypes
  <2>3. \A h \in DOMAIN hooks' : hooks'[h].turn \in 0..Len(turns)
    BY <2>1, <2>2 DEF TypeOK, RowTypes
  <2>4. DOMAIN hooks \subseteq DOMAIN hooks' /\ 0..Len(hooks) \subseteq 0..Len(hooks')
    BY <2>2
  <2>5. RowTypes'
    BY <1>3, <2>2, <2>3, <2>4 DEF HookRecordsEvent, TypeOK, RowTypes
  <2>6. ControllerTypes'
    BY <1>3, <2>4 DEF HookRecordsEvent, TypeOK, ControllerTypes, session
  <2> QED BY <1>0, <1>3, <2>5, <2>6 DEF HookRecordsEvent, TypeOK, ExternalTypes, HookTypes,
        FaultTypes, PromptTaken, external, faults
<1>4. CASE HookDies
  <2>1. FaultTypes'
    BY <1>4, LaneBounds DEF HookDies, TypeOK, FaultTypes
  <2> QED BY <1>0, <1>4, <2>1 DEF HookDies, TypeOK, RowTypes, ExternalTypes, HookTypes,
        ControllerTypes, PromptTaken, rows, external, session
<1> QED BY <1>1, <1>2, <1>3, <1>4 DEF Hook

LEMMA HumanTypesKept ==
  ASSUME TypeInv, Human
  PROVE  TypeInv'
<1> USE DEF TypeInv
<1>1. CASE HumanAttaches \/ HumanLeaves \/ HumanEscapes
  BY <1>1 DEF HumanAttaches, HumanLeaves, HumanEscapes, TypeOK, RowTypes, ExternalTypes, HookTypes,
     ControllerTypes, FaultTypes, PromptTaken, rows, session, faults
<1>2. CASE HumanTypes
  <2>1. PICK m \in 0..Len(turns) : composer' = Append(composer, m)
    BY <1>2, TurnsTable DEF HumanTypes
  <2>2. /\ composer' \in Seq(Nat) /\ DOMAIN composer' = 1..(Len(composer) + 1)
        /\ \A i \in 1..Len(composer) : composer'[i] = composer[i]
        /\ composer'[Len(composer) + 1] = m /\ DOMAIN composer = 1..Len(composer)
        /\ Len(composer) \in Nat
    BY <2>1, TurnsTable, AppendProperties, LenProperties DEF TypeOK, ExternalTypes
  <2>3. \A i \in DOMAIN composer' : composer'[i] \in 0..Len(turns)
    <3>1. \A i \in DOMAIN composer' : i \in 1..Len(composer) \/ i = Len(composer) + 1
      BY <2>2
    <3>2. \A i \in 1..Len(composer) : composer[i] \in 0..Len(turns)
      BY <2>2 DEF TypeOK, ExternalTypes
    <3> QED BY <2>2, <3>1, <3>2
  <2>4. UNCHANGED <<rows, session, faults>>
    BY <1>2 DEF HumanTypes
  <2>5. UNCHANGED <<paneOwner, pane, attached, claude, prompt, ended, hook, ctl>>
    BY <1>2 DEF HumanTypes
  <2>6. RowTypes' /\ PromptTaken'
    BY <2>4, <2>5 DEF TypeOK, RowTypes, PromptTaken, rows
  <2>7. ExternalTypes'
    BY <2>2, <2>3, <2>4, <2>5 DEF TypeOK, ExternalTypes, rows
  <2>8. HookTypes' /\ ControllerTypes' /\ FaultTypes'
    BY <2>4, <2>5 DEF TypeOK, HookTypes, ControllerTypes, FaultTypes, rows, session, faults
  <2> QED BY <2>6, <2>7, <2>8 DEF TypeOK
<1>3. CASE HumanClearsComposer
  <2>1. composer' \in Seq(Nat) /\ DOMAIN composer' = {}
    BY <1>3, EmptySeq DEF HumanClearsComposer
  <2> QED BY <1>3, <2>1 DEF HumanClearsComposer, TypeOK, RowTypes, ExternalTypes, HookTypes,
        ControllerTypes, FaultTypes, PromptTaken, rows, session, faults
<1>4. CASE HumanAnswers
  <2>1. hook' \in HookProcess /\ hook'.turn \in 0..Len(turns)
    <3>1. "PostToolUse" \in HookName
      BY DEF HookName
    <3> QED BY <1>4, <3>1, ReadsOnlyType, ActiveTurnType DEF HumanAnswers
  <2> QED BY <1>4, <2>1 DEF HumanAnswers, TypeOK, RowTypes, ExternalTypes, HookTypes,
        ControllerTypes, FaultTypes, PromptTaken, rows, session, faults
<1> QED BY <1>1, <1>2, <1>3, <1>4 DEF Human

LEMMA TypesKept ==
  ASSUME TypeInv, [Next]_vars
  PROVE  TypeInv'
<1>1. CASE Controller
  BY <1>1, SendTypes, InterruptTypes, EntryTypes, SessionTypes, LifeTypes DEF Controller
<1>2. CASE Claude
  BY <1>2, ClaudeTypes DEF Claude
<1>3. CASE UNCHANGED vars
  BY <1>3 DEF TypeInv, TypeOK, RowTypes, ExternalTypes, HookTypes, ControllerTypes, FaultTypes,
     PromptTaken, vars, rows, external, session, faults
<1> QED BY <1>1, <1>2, <1>3, HookTypesKept, HumanTypesKept DEF Next

(* Every variable keeps to its values, and no row, event, queue entry or    *)
(* marker ever names a turn or an event that does not exist.                *)
THEOREM TypeCorrect == Spec => []TypeOK
<1>1. TypeInv => TypeOK
  BY DEF TypeInv
<1> QED BY <1>1, InitTypes, TypesKept, PTL DEF Spec
=============================================================================
