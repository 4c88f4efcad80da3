------------------------------ MODULE MCFoundry ------------------------------
(* Instances of a Foundry collection for TLC: the shape of a way, and the one way in which an update comes late. *)
EXTENDS FoundryCollection, TLC

CONSTANTS o1, o2

MCWay(operations, ticks, ahead, loads, awaits, persisted, defers, troubles) ==
  [operations |-> operations, ticks |-> ticks, ahead |-> ahead, loads |-> loads, awaits |-> awaits,
   overtaken |-> FALSE, persisted |-> persisted, defers |-> defers,
   trouble |-> [t \in Troubles |-> IF t \in troubles THEN 1 ELSE 0]]

\* The history fails, then the subscription is lost once, and an update comes when a full refresh waits.
MCLateWay == {MCWay({{o1}}, 0, 0, {}, FALSE, TRUE, 1, {"history", "drop", "late"})}
MCLateSpec == FoundryInit /\ [][FoundryNext /\ (socket /\ ~socket' => unavailable)]_foundryVars
=============================================================================
