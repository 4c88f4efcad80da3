--------------------------- MODULE ObjectSetWatcher ---------------------------
(***************************************************************************)
(* The watcher that the collections of one Foundry client share: callers   *)
(* consume object sets, the set of desired subscriptions is sent whenever  *)
(* it changes and with every heartbeat, and a session reconnects.          *)
(*                                                                         *)
(* The server registers what it is asked for under new ids with each       *)
(* answer, numbered here by `generation' modulo 2, and may still send for  *)
(* the ids of the answer before.  One request is made at a time, so that   *)
(* an answer is always the one that is waited for.                         *)
(***************************************************************************)
EXTENDS Integers, Sequences, FiniteSets

CONSTANTS ObjectSets, Consumers,
          SetOf,        \* the object set of a consumer
          Plots         \* the object sets that are no good, bounds on subscriptions, changes and
                        \* what goes wrong

VARIABLES
  plot,         \* the plot that is followed
  desired,      \* desiredSubscriptions
  shared,       \* per object set: the number of consumers, none if it is not shared
  status,       \* per consumer: what it was told last
  told,         \* per consumer: the version of the object set it was last told to look at
  session,      \* "sleeping", "connected" or "stopped"
  asked,        \* the request that is under way
  listening,    \* the connection has subscribed to changes of what is desired
  queued,       \* such changes, while a request is under way
  mapping,      \* externalSubscriptionIdsToInternal
  version,      \* the server: per object set, how often it has changed
  registered,   \* the server: the object sets of the connection
  generation,   \* the server: the number of the last answer
  wire,         \* its messages under way
  spentOn       \* how often what is bounded has happened

local == <<desired, shared, status>>
connection == <<session, asked, listening, queued, mapping>>
server == <<version, registered, generation>>
watcherVars == <<plot, local, told, connection, server, wire, spentOn>>

Unasked == [busy |-> FALSE, sets |-> {}]
Unmapped == [generation |-> 0, sets |-> {}]
Counted == {"subscribe", "change", "late", "drop", "qos", "closed", "stop"}
Uncounted == [what \in Counted |-> 0]

\* What an instance assumes of its constants.
ASSUME WatcherAssumption ==
  /\ IsFiniteSet(Consumers) /\ SetOf \in [Consumers -> ObjectSets]
  /\ \A p \in Plots : \A what \in Counted : p[what] \in Nat

WatcherInit ==
  /\ plot \in Plots
  /\ desired = {} /\ shared = [s \in ObjectSets |-> 0] /\ status = [c \in Consumers |-> "off"]
  /\ told = [c \in Consumers |-> 0]
  /\ session = "sleeping" /\ asked = Unasked /\ listening = FALSE /\ queued = <<>> /\ mapping = Unmapped
  /\ version = [s \in ObjectSets |-> 0] /\ registered = {} /\ generation = 0 /\ wire = <<>>
  /\ spentOn = Uncounted

Spend(what) == spentOn[what] < plot[what] /\ spentOn' = [spentOn EXCEPT ![what] = @ + 1]

Present(s) == {c \in Consumers : SetOf[c] = s /\ status[c] # "off"}

\* The status of the consumers of some object sets.
Tell(sets, what) == [c \in Consumers |-> IF status[c] # "off" /\ SetOf[c] \in sets THEN what ELSE status[c]]

----------------------------------------------------------------------------
(* Consumers *)

\* The connection hears of every change of what is desired.
Desire(sets) ==
  /\ desired' = sets
  /\ queued' = IF listening THEN Append(queued, sets) ELSE queued

\* The object set is desired once, by whoever consumes it first.
Subscribe(c) ==
  LET s == SetOf[c]
  IN  /\ status[c] = "off" /\ session # "stopped" /\ Spend("subscribe")
      /\ status' = [status EXCEPT ![c] = "new"] /\ told' = [told EXCEPT ![c] = 0]
      /\ shared' = [shared EXCEPT ![s] = @ + 1]
      /\ IF s \in desired THEN UNCHANGED <<desired, queued>> ELSE Desire(desired \cup {s})
      /\ UNCHANGED <<plot, session, asked, listening, mapping, server, wire>>

\* Mutant: an object set that nobody consumes stays desired.
UnsubscribeAlone(c) ==
  /\ status[c] # "off" /\ session # "stopped"
  /\ status' = [status EXCEPT ![c] = "off"] /\ shared' = [shared EXCEPT ![SetOf[c]] = @ - 1]
  /\ UNCHANGED <<plot, desired, told, connection, server, wire, spentOn>>

Unsubscribe(c) ==
  LET s == SetOf[c]
  IN  /\ status[c] # "off" /\ session # "stopped"
      /\ status' = [status EXCEPT ![c] = "off"] /\ shared' = [shared EXCEPT ![s] = @ - 1]
      /\ IF shared[s] = 1 THEN Desire(desired \ {s}) ELSE UNCHANGED <<desired, queued>>
      /\ UNCHANGED <<plot, told, session, asked, listening, mapping, server, wire, spentOn>>

\* The manager is stopped: every stream ends.
Stop ==
  /\ session # "stopped" /\ Spend("stop") /\ session' = "stopped"
  /\ desired' = {} /\ shared' = [s \in ObjectSets |-> 0] /\ status' = [c \in Consumers |-> "off"]
  /\ asked' = Unasked /\ listening' = FALSE /\ queued' = <<>> /\ mapping' = Unmapped
  /\ registered' = {} /\ wire' = <<>> /\ UNCHANGED <<plot, told, version, generation>>

----------------------------------------------------------------------------
(* The connection *)

\* The first request of a connection is what is desired when it is open.
OpenConnection ==
  /\ session = "sleeping" /\ session' = "connected" /\ asked' = [busy |-> TRUE, sets |-> desired]
  /\ generation' = 0 /\ UNCHANGED <<plot, local, told, listening, queued, mapping, version, registered, wire, spentOn>>

\* The session tells all consumers why, and connects again after a while.
Disconnected(why) ==
  /\ session' = "sleeping" /\ status' = Tell(desired, why) /\ asked' = Unasked
  /\ listening' = FALSE /\ queued' = <<>> /\ mapping' = Unmapped /\ registered' = {} /\ wire' = <<>>

ConnectionLost ==
  /\ session # "stopped" /\ Spend("drop") /\ Disconnected("closed")
  /\ UNCHANGED <<plot, desired, shared, told, version, generation>>

\* Changes of what is desired are sent one after another.
SendChange ==
  /\ listening /\ ~asked.busy /\ queued # <<>>
  /\ asked' = [busy |-> TRUE, sets |-> Head(queued)] /\ queued' = Tail(queued)
  /\ UNCHANGED <<plot, local, told, session, listening, mapping, server, wire, spentOn>>

\* Mutant: the heartbeat is no request.
NoHeartbeat == FALSE /\ UNCHANGED watcherVars

Heartbeat ==
  /\ listening /\ ~asked.busy /\ queued = <<>> /\ asked' = [busy |-> TRUE, sets |-> desired]
  /\ UNCHANGED <<plot, local, told, session, listening, queued, mapping, server, wire, spentOn>>

Opened(answer) == {s \in DOMAIN answer.results : answer.results[s] = "success"}
Refused(answer, how) == {s \in DOMAIN answer.results : answer.results[s] = how}

\* Consumers that are told to look at an object set.
Look(sets, versions) ==
  [c \in Consumers |-> IF status[c] # "off" /\ SetOf[c] \in sets THEN versions[SetOf[c]] ELSE told[c]]

\* Mutant: the ids of the first answer are kept.
MappedOnce(answer) ==
  IF mapping = Unmapped THEN [generation |-> answer.generation, sets |-> Opened(answer)] ELSE mapping

Mapped(answer) == [generation |-> answer.generation, sets |-> Opened(answer)]

\* What is open gets its new id; an error is told and never asked for again, unless somebody
\* subscribes anew.  The connection subscribes to changes only after its first answer, when the
\* manager may or may not have removed what was refused.
ReceiveAnswer ==
  /\ wire # <<>> /\ Head(wire).type = "answer" /\ Refused(Head(wire), "qos") = {}
  /\ LET answer == Head(wire)
         refused == {s \in Refused(answer, "error") : shared[s] > 0}
     IN  /\ mapping' = Mapped(answer)
         /\ status' = [c \in Consumers |-> IF SetOf[c] \in refused THEN Tell(refused, "error")[c]
                                           ELSE Tell(Opened(answer), "open")[c]]
         /\ told' = Look(Opened(answer), answer.versions) /\ desired' = desired \ refused
         /\ queued' \in {queued, IF refused = {} THEN queued ELSE Append(queued, desired')}
         /\ listening /\ refused # {} => queued' # queued
  /\ asked' = Unasked /\ listening' = TRUE /\ wire' = Tail(wire)
  /\ UNCHANGED <<plot, shared, session, server, spentOn>>

\* One subscription too many ends the connection.
ReceiveQos ==
  /\ wire # <<>> /\ Head(wire).type = "answer" /\ Refused(Head(wire), "qos") # {}
  /\ Disconnected("qos")
  /\ UNCHANGED <<plot, desired, shared, told, version, generation, spentOn>>

Known(message) == message.generation = mapping.generation /\ message.set \in mapping.sets

\* A change or a refresh is for those whose id it has; it is dropped if the id is no longer known.
ReceiveChange ==
  /\ wire # <<>> /\ Head(wire).type = "change" /\ wire' = Tail(wire)
  /\ told' = IF Known(Head(wire)) THEN Look({Head(wire).set}, [s \in ObjectSets |-> Head(wire).version]) ELSE told
  /\ UNCHANGED <<plot, local, connection, server, spentOn>>

\* A subscription that the server ended stays desired.
ReceiveClosed ==
  /\ wire # <<>> /\ Head(wire).type = "closed" /\ wire' = Tail(wire)
  /\ status' = IF Known(Head(wire)) THEN Tell({Head(wire).set}, "closed") ELSE status
  /\ UNCHANGED <<plot, desired, shared, told, connection, server, spentOn>>

Receive == ReceiveAnswer \/ ReceiveQos \/ ReceiveChange \/ ReceiveClosed

----------------------------------------------------------------------------
(* Foundry *)

Change(s) ==
  /\ Spend("change") /\ version' = [version EXCEPT ![s] = @ + 1]
  /\ wire' = IF s \in registered
             THEN Append(wire, [type |-> "change", generation |-> generation, set |-> s, version |-> version[s] + 1])
             ELSE wire
  /\ UNCHANGED <<plot, local, told, connection, registered, generation>>

\* A message for an id of the answer before.
LateChange(s) ==
  /\ session = "connected" /\ Spend("late")
  /\ wire' = Append(wire, [type |-> "change", generation |-> 1 - generation, set |-> s, version |-> version[s]])
  /\ UNCHANGED <<plot, local, told, connection, server>>

Close(s) ==
  /\ s \in registered /\ Spend("closed") /\ registered' = registered \ {s}
  /\ wire' = Append(wire, [type |-> "closed", generation |-> generation, set |-> s])
  /\ UNCHANGED <<plot, local, told, connection, version, generation>>

AwaitsAnswer == asked.busy /\ \A i \in DOMAIN wire : wire[i].type # "answer"

\* The answer to a request, by what keeps an object set from being registered.
AnswerRequest(results) ==
  /\ AwaitsAnswer
  /\ registered' = {s \in asked.sets : results[s] = "success"} /\ generation' = 1 - generation
  /\ wire' = Append(wire, [type |-> "answer", generation |-> 1 - generation, results |-> results,
                           versions |-> version])
  /\ UNCHANGED <<plot, local, told, connection, version>>

ResultOf(s) == IF s \in plot.invalid THEN "error" ELSE "success"
Accept == AnswerRequest([s \in asked.sets |-> ResultOf(s)]) /\ UNCHANGED spentOn
Exceed(s) ==
  s \in asked.sets /\ Spend("qos") /\ AnswerRequest([t \in asked.sets |-> IF t = s THEN "qos" ELSE ResultOf(t)])

WatcherNext ==
  \/ \E c \in Consumers : Subscribe(c) \/ Unsubscribe(c)
  \/ Stop \/ OpenConnection \/ ConnectionLost \/ SendChange \/ Heartbeat
  \/ Receive \/ Accept
  \/ \E s \in ObjectSets : Change(s) \/ LateChange(s) \/ Close(s) \/ Exceed(s)

WatcherSpec == WatcherInit /\ [][WatcherNext]_watcherVars

----------------------------------------------------------------------------
(* What must hold *)

\* The variables have their types; the consumers are counted, nothing is desired that nobody consumes,
\* and what is consumed is desired or was refused.
WatcherTypeOK ==
  /\ plot \in Plots /\ session \in {"sleeping", "connected", "stopped"} /\ listening \in BOOLEAN
  /\ status \in [Consumers -> {"off", "new", "open", "closed", "qos", "error"}]
  /\ told \in [Consumers -> 0..plot["change"]] /\ generation \in 0..1
  /\ registered \subseteq ObjectSets /\ mapping.sets \subseteq ObjectSets /\ asked.sets \subseteq ObjectSets
  /\ \A s \in ObjectSets : shared[s] = Cardinality(Present(s))
  /\ \A s \in desired : Present(s) # {}
  /\ \A s \in ObjectSets \ desired : \A c \in Present(s) : status[c] = "error"

\* When nothing is under way, whoever was told that its object set is open was told of its last change,
\* after lost connections, late messages and subscriptions that came and went.
NoChangeIsMissed ==
  session = "connected" /\ wire = <<>> /\ ~asked.busy /\ queued = <<>> =>
    \A c \in Consumers : status[c] = "open" => told[c] = version[SetOf[c]]

Settled(c) == status[c] \in {"off", "open", "error"} \/ session = "stopped"

\* A consumer that stays learns that its object set is open, or that it was refused: also one that joins
\* others, or during the first request of a connection, or whose subscription the server has ended.
AllSettled == \A c \in Consumers : Settled(c)
ConsumersSettle == []<>AllSettled
===============================================================================
