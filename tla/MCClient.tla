------------------------------ MODULE MCClient ------------------------------
(***************************************************************************)
(* Instances for TLC of what a client of an ontology keeps beside its      *)
(* outbox: the connections, the life of a live ontology, and the           *)
(* projections of the outbox.  `focus' selects what a behaviour is about;  *)
(* the other components keep their initial state.                          *)
(***************************************************************************)
EXTENDS MCConnections, LiveOntology, Projections

CONSTANTS l1, l2, e1, e2, e3

MCManners ==
  {[c \in LiveCalls |-> IF c = l1 THEN [mode |-> "outbox", visibility |-> "confirmed"]
                      ELSE [mode |-> "direct", visibility |-> "optimistic"]]}

MCOccasion(enqueue, edit, fail, break, dispose, behind) ==
  [enqueue |-> enqueue, edit |-> edit, fail |-> fail, break |-> break, dispose |-> dispose, behind |-> behind]
MCOccasions ==
  {MCOccasion(3, 1, 0, 0, 0, 1), MCOccasion(2, 1, 0, 0, 0, 2), MCOccasion(2, 1, 1, 0, 1, 1), MCOccasion(2, 1, 0, 1, 0, 1)}

----------------------------------------------------------------------------
VARIABLE focus

MCInit ==
  /\ focus \in {"connections", "life", "projections"}
  /\ Init /\ LifeInit /\ ProjectionInit
  /\ focus = "connections" \/ (setting = MCAlone /\ status = "absent")
  /\ focus = "projections" \/ spare = MCOccasion(2, 1, 0, 1, 0, 1)

MCNext ==
  /\ UNCHANGED focus
  /\ \/ focus = "connections" /\ Next /\ UNCHANGED <<lifeVars, projectionVars>>
     \/ focus = "life" /\ LifeNext /\ UNCHANGED <<vars, projectionVars>>
     \/ focus = "projections" /\ ProjectionNext /\ UNCHANGED <<vars, lifeVars>>

Connects == focus = "connections"
Lives == focus = "life"
\* The fairness of each module, for the behaviours that are about it.
MCSpec ==
  /\ MCInit /\ [][MCNext]_<<vars, lifeVars, projectionVars, focus>>
  /\ \A a \in Actors : WF_moving(Connects /\ GoesOn(a))
  /\ \A c \in Contexts : WF_moving(Connects /\ Persist(c)) /\ WF_moving(Connects /\ RunsOn(c)) /\ WF_moving(Connects /\ c \in setting.contexts /\ Lead(c))
  /\ WF_lifeVars(Lives /\ Proceeds)

\* The state of every part has its type.
StateTyped == TypeOK /\ LifeTypeOK /\ ProjectionTypeOK

\* Connections that are due are handled, and everything that is awaited of a live ontology settles.
ClientSettles == []<>((Connects => NothingIsDue) /\ (Lives => NothingHangs))
=============================================================================
