----------------------------- MODULE HookLedger -----------------------------
(***************************************************************************)
(* What the durable hook-delivery ledger promises the orchestration layer, *)
(* whatever the watcher, the pump, crashes and restarts do in between:     *)
(* a recorded hook event is settled at most once, an event that changes    *)
(* orchestration state is settled by that very change, and events take     *)
(* effect in the order the hooks recorded them.                            *)
(***************************************************************************)
EXTENDS Naturals, Sequences

VARIABLES
  recorded,  \* how many hook events exist (runtime_hook_events)
  settled,   \* events with a row in worker_hook_deliveries
  applied    \* events whose effects were committed, in commit order

ledger == <<recorded, settled, applied>>

Init ==
  /\ recorded = 1
  /\ settled = {}
  /\ applied = <<>>

(* A command hook records one more event. *)
Record ==
  /\ recorded' = recorded + 1
  /\ UNCHANGED <<settled, applied>>

(* An event's effects and its delivery mark commit together. *)
Apply(h) ==
  /\ h \in (1..recorded) \ settled
  /\ \A i \in DOMAIN applied : applied[i] < h
  /\ applied' = Append(applied, h)
  /\ settled' = settled \union {h}
  /\ UNCHANGED recorded

(* An event nobody acts on, or whose effects were rolled back, is settled. *)
Drop(h) ==
  /\ h \in (1..recorded) \ settled
  /\ settled' = settled \union {h}
  /\ UNCHANGED <<recorded, applied>>

Next == Record \/ \E h \in 1..recorded : Apply(h) \/ Drop(h)

Spec == Init /\ [][Next]_ledger
=============================================================================
