---------------------------- MODULE Installation ----------------------------
(***************************************************************************)
(* A backend installation in one context: the live ontologies it opens for *)
(* connected users, one per key, the partition records by which it finds   *)
(* their local data again, and the calls that close, disconnect, forget    *)
(* and clean up.  All of it runs in one thread; steps are what happens     *)
(* between two awaits.                                                     *)
(***************************************************************************)
EXTENDS Naturals, Sequences, FiniteSets

CONSTANTS Users, OntologyKeys,  \* what is opened: an ontology, or its metadata, of one user
          Owner,                \* per key: its user
          Callers,              \* calls that end something, one after another each
          Instances,            \* bound on the live ontologies that are created
          Courses               \* how the application uses it, and bounds on what goes wrong

VARIABLES
  course,     \* the course that is followed
  connected,  \* users with an active connection
  disposed,   \* cleanup was called
  live,       \* per key: the cached live ontology, or 0
  opening,    \* per key: the step of the opening that is under way, or none
  keyOf,      \* the live ontologies that were created, with their keys
  running,    \* those whose resources are not released yet
  recorded,   \* keys with a partition record
  data,       \* keys with local data
  ending,     \* per caller: what it executes
  part,       \* per caller and key: how far it is with that key
  holds,      \* per caller and key: the live ontology it ends, or 0
  incidents   \* how much went wrong

\* What an instance assumes of its constants.
ASSUME InstallationAssumption ==
  /\ IsFiniteSet(OntologyKeys) /\ Instances \in Nat /\ Owner \in [OntologyKeys -> Users]
  /\ \A c \in Courses : c.keys \subseteq OntologyKeys

memory == <<connected, disposed, live, opening, running, ending, part, holds>>
installationVars == <<course, memory, keyOf, recorded, data, incidents>>

Idle == [call |-> "none", user |-> "none", step |-> "idle", off |-> FALSE, failed |-> FALSE]
Kinds == {"reload", "fault"}
NoParts == [k \in OntologyKeys |-> "none"]

InstallationInit ==
  /\ course \in Courses
  /\ connected = Users /\ disposed = FALSE
  /\ live = [k \in OntologyKeys |-> 0] /\ opening = [k \in OntologyKeys |-> "none"]
  /\ keyOf = <<>> /\ running = {}
  /\ recorded \in SUBSET course.keys /\ data = recorded
  /\ ending = [q \in Callers |-> Idle]
  /\ part = [q \in Callers |-> NoParts]
  /\ holds = [q \in Callers |-> [k \in OntologyKeys |-> 0]]
  /\ incidents = [kind \in Kinds |-> 0]

Of(u) == {k \in OntologyKeys : Owner[k] = u}
Mishap(kind) ==
  /\ incidents[kind] < course.incidents[kind]
  /\ incidents' = [incidents EXCEPT ![kind] = incidents[kind] + 1]
Free(q) == q \in course.callers /\ ending[q].step = "idle"
Forgets(q) == ending[q].call = "forget"

----------------------------------------------------------------------------
(* openConfiguredOntology *)

\* In a careful course nothing is opened for a user while a call ends what the user has.
MayOpen(k) ==
  course.careful => \A q \in Callers : ending[q].step = "idle" \/ ending[q].user # Owner[k]

\* A call that finds a live ontology or an opening that is under way returns it.
Opens(k) == ~disposed /\ Owner[k] \in connected /\ live[k] = 0 /\ opening[k] = "none"

OpenOntology(k) ==
  /\ k \in course.keys /\ MayOpen(k) /\ Opens(k)
  /\ Len(keyOf) + Cardinality({j \in OntologyKeys : opening[j] # "none"}) < Instances
  /\ opening' = [opening EXCEPT ![k] = "configuring"]
  /\ UNCHANGED <<course, connected, disposed, live, keyOf, running, recorded, data, ending, part, holds,
                 incidents>>

\* No route matches, or the route, the record or the backend fails.
OpeningFails(k) ==
  /\ opening[k] \in {"configuring", "recording", "creating"} /\ Mishap("fault")
  /\ opening' = [opening EXCEPT ![k] = "none"]
  /\ data' \in {data, IF opening[k] = "creating" THEN data \cup {k} ELSE data}
  /\ UNCHANGED <<course, connected, disposed, live, keyOf, running, recorded, ending, part, holds>>

Configure(k) ==
  /\ opening[k] = "configuring" /\ opening' = [opening EXCEPT ![k] = "recording"]
  /\ UNCHANGED <<course, connected, disposed, live, keyOf, running, recorded, data, ending, part, holds,
                 incidents>>

\* Mutant: the partition is not recorded.
RecordNothing(k) ==
  /\ opening[k] = "recording" /\ opening' = [opening EXCEPT ![k] = "creating"] /\ UNCHANGED recorded
  /\ UNCHANGED <<course, connected, disposed, live, keyOf, running, data, ending, part, holds, incidents>>

RecordPartition(k) ==
  /\ opening[k] = "recording" /\ opening' = [opening EXCEPT ![k] = "creating"]
  /\ recorded' = recorded \cup {k}
  /\ UNCHANGED <<course, connected, disposed, live, keyOf, running, data, ending, part, holds, incidents>>

OntologyCreated(k, cached) ==
  /\ opening[k] = "creating"
  /\ keyOf' = Append(keyOf, k) /\ running' = running \cup {Len(keyOf')} /\ data' = data \cup {k}
  /\ IF cached
     THEN /\ live' = [live EXCEPT ![k] = Len(keyOf')] /\ opening' = [opening EXCEPT ![k] = "none"]
     ELSE /\ UNCHANGED live /\ opening' = [opening EXCEPT ![k] = "withdrawing"]
  /\ UNCHANGED <<course, connected, disposed, recorded, ending, part, holds, incidents>>

\* The live ontology is cached, unless the installation was disposed of meanwhile.
CreateLiveOntology(k) == OntologyCreated(k, ~disposed)

LatestOf(k) == CHOOSE i \in 1..Len(keyOf) : keyOf[i] = k /\ \A j \in i + 1..Len(keyOf) : keyOf[j] # k

\* Mutant: it awaits the cleanup of the installation, which awaits the openings.
WithdrawLast(k) ==
  /\ opening[k] = "withdrawing" /\ \A q \in Callers : ending[q].step # "settling"
  /\ opening' = [opening EXCEPT ![k] = "none"] /\ running' = running \ {LatestOf(k)}
  /\ UNCHANGED <<course, connected, disposed, live, keyOf, recorded, data, ending, part, holds, incidents>>

\* It is cleaned up, and the opening fails.
Withdraw(k) ==
  /\ opening[k] = "withdrawing"
  /\ opening' = [opening EXCEPT ![k] = "none"] /\ running' = running \ {LatestOf(k)}
  /\ UNCHANGED <<course, connected, disposed, live, keyOf, recorded, data, ending, part, holds, incidents>>

----------------------------------------------------------------------------
(* One key that a call ends *)

Part(q, k, step) == part' = [part EXCEPT ![q][k] = step]

\* Mutant: a call does not wait for an opening that is under way.
Unopened(k) == TRUE

\* closeKey and destroyPartition wait for an opening that is under way.
OpeningSettled(k) == opening[k] = "none"

\* Mutant: the live ontology stays cached until it is cleaned up.
TakeLate(q, k) ==
  /\ part[q][k] = "waiting" /\ OpeningSettled(k)
  /\ IF live[k] # 0 THEN Part(q, k, "closing") ELSE Part(q, k, IF Forgets(q) THEN "erasing" ELSE "done")
  /\ holds' = [holds EXCEPT ![q][k] = live[k]] /\ UNCHANGED live
  /\ UNCHANGED <<course, connected, disposed, opening, keyOf, running, recorded, data, ending, incidents>>

\* The live ontology leaves the cache before it is cleaned up.
Take(q, k) ==
  /\ part[q][k] = "waiting" /\ OpeningSettled(k)
  /\ IF live[k] # 0 THEN Part(q, k, "closing") ELSE Part(q, k, IF Forgets(q) THEN "erasing" ELSE "done")
  /\ holds' = [holds EXCEPT ![q][k] = live[k]] /\ live' = [live EXCEPT ![k] = 0]
  /\ UNCHANGED <<course, connected, disposed, opening, keyOf, running, recorded, data, ending, incidents>>

CleanedUp(q, k) ==
  /\ part[q][k] = "closing" /\ Part(q, k, IF Forgets(q) THEN "erasing" ELSE "done")
  /\ running' = running \ {holds[q][k]} /\ holds' = [holds EXCEPT ![q][k] = 0]
  /\ UNCHANGED <<course, connected, disposed, live, opening, keyOf, recorded, data, ending, incidents>>

\* Mutant: the record goes first.
EraseRecord(q, k) ==
  /\ part[q][k] = "erasing" /\ Part(q, k, "unrecording") /\ recorded' = recorded \ {k}
  /\ UNCHANGED <<course, connected, disposed, live, opening, keyOf, running, data, ending, holds, incidents>>

\* The data goes, then the record of it.
Erase(q, k) ==
  /\ part[q][k] = "erasing" /\ Part(q, k, "unrecording") /\ data' = data \ {k}
  /\ UNCHANGED <<course, connected, disposed, live, opening, keyOf, running, recorded, ending, holds, incidents>>

RemoveRecord(q, k) ==
  /\ part[q][k] = "unrecording" /\ Part(q, k, "done") /\ recorded' = recorded \ {k}
  /\ UNCHANGED <<course, connected, disposed, live, opening, keyOf, running, data, ending, holds, incidents>>

\* Cleaning up, erasing or the record's removal fails, and with it the call.
PartFails(q, k) ==
  /\ part[q][k] \in {"closing", "erasing", "unrecording"} /\ Mishap("fault") /\ Part(q, k, "done")
  /\ running' = running \ {holds[q][k]} /\ holds' = [holds EXCEPT ![q][k] = 0]
  /\ ending' = [ending EXCEPT ![q].failed = TRUE]
  /\ UNCHANGED <<course, connected, disposed, live, opening, keyOf, recorded, data>>

----------------------------------------------------------------------------
(* The calls *)

Call(q, call, u, step) ==
  ending' = [ending EXCEPT ![q] = [Idle EXCEPT !.call = call, !.user = u, !.step = step]]
Proceed(q, step) == ending' = [ending EXCEPT ![q].step = step]
Calls(q, keys) == part' = [part EXCEPT ![q] = [k \in OntologyKeys |-> IF k \in keys THEN "waiting" ELSE "none"]]

CloseOntology(q, k) ==
  /\ Free(q) /\ k \in course.keys /\ Call(q, "close", Owner[k], "parts") /\ Calls(q, {k})
  /\ UNCHANGED <<course, connected, disposed, live, opening, keyOf, running, recorded, data, holds, incidents>>

Disconnect(q, u) ==
  /\ Free(q) /\ Call(q, "disconnect", u, "parts")
  /\ Calls(q, {k \in Of(u) : live[k] # 0 \/ opening[k] # "none"})
  /\ UNCHANGED <<course, connected, disposed, live, opening, keyOf, running, recorded, data, holds, incidents>>

\* The partitions are destroyed, once openings have settled, while the connection is forgotten.
Forget(q, u) ==
  /\ Free(q) /\ Call(q, "forget", u, "openings")
  /\ UNCHANGED <<course, connected, disposed, live, opening, keyOf, running, recorded, data, part, holds, incidents>>

DestroyUserPartitions(q) ==
  /\ ending[q].step = "openings" /\ \A k \in Of(ending[q].user) : OpeningSettled(k)
  /\ Proceed(q, "parts") /\ Calls(q, recorded \cap Of(ending[q].user))
  /\ UNCHANGED <<course, connected, disposed, live, opening, keyOf, running, recorded, data, holds, incidents>>

\* Mutant: an opening may go on while everything is cleaned up.
CleanupAtOnce(q) ==
  /\ Free(q) /\ ~disposed /\ disposed' = TRUE /\ Call(q, "cleanup", "none", "all")
  /\ UNCHANGED <<course, connected, live, opening, keyOf, running, recorded, data, part, holds, incidents>>

Cleanup(q) ==
  /\ Free(q) /\ ~disposed /\ disposed' = TRUE /\ Call(q, "cleanup", "none", "settling")
  /\ UNCHANGED <<course, connected, live, opening, keyOf, running, recorded, data, part, holds, incidents>>

CleanupContinues(q) ==
  /\ ending[q].step = "settling" /\ (\A k \in OntologyKeys : OpeningSettled(k)) /\ Proceed(q, "all")
  /\ UNCHANGED <<course, connected, disposed, live, opening, keyOf, running, recorded, data, part, holds,
                 incidents>>

\* All that is cached then is cleaned up; connections go with the installation.
CleanupEnds(q) ==
  /\ ending[q].step = "all" /\ Proceed(q, "ended")
  /\ running' = running \ {live[k] : k \in OntologyKeys}
  /\ live' = [k \in OntologyKeys |-> 0] /\ connected' = {}
  /\ UNCHANGED <<course, disposed, opening, keyOf, recorded, data, part, holds, incidents>>

AllDone(q) == \A k \in OntologyKeys : part[q][k] \in {"none", "done"}

\* The connection manager ends the connection, or fails to: beside the parts, or after them.
ConnectionEnds(q, ok) ==
  /\ ~ending[q].off
  /\ \/ Forgets(q) /\ ending[q].step \in {"openings", "parts"}
     \/ ending[q].call = "disconnect" /\ ending[q].step = "parts" /\ AllDone(q) /\ ~ending[q].failed
  /\ ending' = [ending EXCEPT ![q].off = TRUE, ![q].failed = ending[q].failed \/ ~ok]
  /\ IF ok THEN connected' = connected \ {ending[q].user} /\ UNCHANGED incidents
     ELSE Mishap("fault") /\ UNCHANGED connected
  /\ UNCHANGED <<course, disposed, live, opening, keyOf, running, recorded, data, part, holds>>

PartsEnd(q) ==
  /\ ending[q].step = "parts" /\ AllDone(q)
  /\ \/ ending[q].call = "close"
     \/ ending[q].call = "disconnect" /\ (ending[q].off \/ ending[q].failed)
     \/ Forgets(q) /\ ending[q].off
  /\ Proceed(q, "ended")
  /\ UNCHANGED <<course, connected, disposed, live, opening, keyOf, running, recorded, data, part, holds,
                 incidents>>

Return(q) ==
  /\ ending[q].step = "ended" /\ ending' = [ending EXCEPT ![q] = Idle]
  /\ part' = [part EXCEPT ![q] = NoParts]
  /\ UNCHANGED <<course, connected, disposed, live, opening, keyOf, running, recorded, data, holds, incidents>>

----------------------------------------------------------------------------
\* The user signs in again.
SignIn(u) ==
  /\ ~disposed /\ u \notin connected /\ connected' = connected \cup {u}
  /\ course.careful => \A q \in Callers : ending[q].user # u
  /\ UNCHANGED <<course, disposed, live, opening, keyOf, running, recorded, data, ending, part, holds, incidents>>

\* The context is reloaded: what it holds in memory is gone, and a new installation restores the
\* connections.
Reload ==
  /\ Mishap("reload") /\ connected' = Users /\ disposed' = FALSE
  /\ live' = [k \in OntologyKeys |-> 0] /\ opening' = NoParts /\ running' = {}
  /\ ending' = [q \in Callers |-> Idle] /\ part' = [q \in Callers |-> NoParts]
  /\ holds' = [q \in Callers |-> [k \in OntologyKeys |-> 0]]
  /\ UNCHANGED <<course, keyOf, recorded, data>>

Opening(k) == Configure(k) \/ RecordPartition(k) \/ CreateLiveOntology(k) \/ Withdraw(k)
Progress(q, k) == Take(q, k) \/ CleanedUp(q, k) \/ Erase(q, k) \/ RemoveRecord(q, k)
Going(q) ==
  \/ DestroyUserPartitions(q) \/ CleanupContinues(q) \/ CleanupEnds(q)
  \/ ConnectionEnds(q, TRUE) \/ PartsEnd(q) \/ Return(q)

InstallationNext ==
  \/ \E k \in OntologyKeys : OpenOntology(k) \/ OpeningFails(k) \/ Opening(k)
  \/ \E q \in Callers, k \in OntologyKeys : CloseOntology(q, k) \/ Progress(q, k) \/ PartFails(q, k)
  \/ \E q \in Callers, u \in Users : Disconnect(q, u) \/ Forget(q, u)
  \/ \E q \in Callers : Cleanup(q) \/ Going(q) \/ ConnectionEnds(q, FALSE)
  \/ (\E u \in Users : SignIn(u)) \/ Reload

InstallationSpec == InstallationInit /\ [][InstallationNext]_installationVars

\* What was started is continued.
Fairness ==
  /\ \A k \in OntologyKeys : WF_installationVars(Opening(k))
  /\ \A q \in Callers : WF_installationVars(Going(q) \/ \E k \in OntologyKeys : Progress(q, k))

----------------------------------------------------------------------------
(* What must hold *)

\* The variables have their types, and nothing is being opened once the cleanup has waited for it.
InstallationTypeOK ==
  /\ connected \subseteq Users /\ disposed \in BOOLEAN
  /\ live \in [OntologyKeys -> 0..Len(keyOf)] /\ keyOf \in Seq(OntologyKeys) /\ Len(keyOf) <= Instances
  /\ opening \in [OntologyKeys -> {"none", "configuring", "recording", "creating", "withdrawing"}]
  /\ running \subseteq 1..Len(keyOf) /\ recorded \cup data \subseteq OntologyKeys
  /\ part \in [Callers -> [OntologyKeys ->
       {"none", "waiting", "closing", "erasing", "unrecording", "done"}]]
  /\ holds \in [Callers -> [OntologyKeys -> 0..Len(keyOf)]]
  /\ \A q \in Callers : ending[q].step \in {"idle", "openings", "parts", "settling", "all", "ended"}
  /\ (\E q \in Callers : ending[q].call = "cleanup" /\ ending[q].step \in {"all", "ended"}) => opening = NoParts

\* The cache hands out only what nobody is ending, and what runs is in it, is being ended or is
\* withdrawn: for a key at most one live ontology is in use, and none is lost.
CacheIsExact ==
  /\ \A k \in OntologyKeys : live[k] # 0 => live[k] \in running /\ \A q \in Callers : holds[q][k] # live[k]
  /\ \A i \in running :
       LET k == keyOf[i]
       IN  \/ live[k] = i \/ (opening[k] = "withdrawing" /\ LatestOf(k) = i)
           \/ \E q \in Callers : holds[q][k] = i

\* Local data can be found again, and destroyed, after a crash or a failure at any time, unless it
\* was opened while it was destroyed.
StoredIsRecorded == course.careful => data \subseteq recorded

Succeeded(q, call) == ending[q].step = "ended" /\ ending[q].call = call /\ ~ending[q].failed

\* A call that returns has done what it is for, although openings were under way: what it closes
\* is closed, the user is disconnected, what is forgotten has left nothing, and after the cleanup
\* only what another call still ends is running.
CallsAreComplete ==
  course.careful =>
    \A q \in Callers :
      LET own == Of(ending[q].user)
      IN  /\ ending[q].step = "ended" => \A k \in OntologyKeys : part[q][k] = "done" => live[k] = 0
          /\ Succeeded(q, "disconnect") \/ Succeeded(q, "forget") =>
               ending[q].user \notin connected /\ \A k \in own : live[k] = 0
          /\ Succeeded(q, "forget") => own \cap (data \cup recorded) = {}
          /\ Succeeded(q, "cleanup") =>
               running \subseteq {holds[p][k] : p \in Callers, k \in OntologyKeys}

\* However openings, closings and failures meet, no live ontology and no local data is lost sight of,
\* and calls that end something have ended it.
NothingIsLost == CacheIsExact /\ StoredIsRecorded /\ CallsAreComplete

\* No call waits forever, for an opening or for another call.
Returned(q) == ending[q].step = "idle"
CallsReturn == \A q \in Callers : []<>Returned(q)
=============================================================================
