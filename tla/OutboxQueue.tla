---------------------------- MODULE OutboxQueue ----------------------------
(***************************************************************************)
(* What the outbox promises: one first-in first-out queue of accepted      *)
(* actions of which only the first is ever being executed.  Who drains it, *)
(* how often an execution is tried and what fails does not show here.      *)
(***************************************************************************)
CONSTANT Ids

VARIABLES waiting,    \* the accepted actions that have not ended
          before,     \* the pairs of them of which one was accepted before the other
          executing   \* the one that is being executed, if any

Init == waiting = {} /\ before = {} /\ executing = {}

First(id) == id \in waiting /\ \A other \in waiting \ {id} : <<id, other>> \in before

Accept(id) ==
  /\ id \notin waiting /\ waiting' = waiting \cup {id}
  /\ before' = before \cup (waiting \X {id}) /\ UNCHANGED executing

Start(id) == First(id) /\ executing = {} /\ executing' = {id} /\ UNCHANGED <<waiting, before>>

Abandon == executing' = {} /\ UNCHANGED <<waiting, before>>

Leave(gone) == waiting' = waiting \ gone /\ before' = before \cap (waiting' \X waiting')

Finish(id) == First(id) /\ executing = {id} /\ executing' = {} /\ Leave({id})

Withdraw(id) == id \in waiting \ executing /\ Leave({id}) /\ UNCHANGED executing

DiscardAll == Leave(waiting) /\ executing' = {}

Next == \/ \E id \in Ids : Accept(id) \/ Start(id) \/ Finish(id) \/ Withdraw(id)
        \/ Abandon \/ DiscardAll

Spec == Init /\ [][Next]_<<waiting, before, executing>>
=============================================================================
