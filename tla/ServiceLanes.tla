---------------------------- MODULE ServiceLanes ----------------------------
(***************************************************************************)
(* The service lanes of a coordination host (HostCore).  Every registered  *)
(* service executes its calls one at a time in accepted order; a handler   *)
(* may call its own service again, which executes at once, or another one, *)
(* whose lane it enters.  Callers cancel, servers and hosts close.         *)
(* A handler waits for the calls it makes; it need not notice its abort.   *)
(***************************************************************************)
EXTENDS Naturals, Sequences, FiniteSets

CONSTANTS Calls,       \* invocations
          Services,    \* service namespaces
          None,        \* no call, no service
          Uses,        \* <<s, t>>: handlers of s may call t
          MaxServes    \* how often a namespace may be registered

ASSUME NoneAssumption == None \notin Calls \cup Services
ASSUME UsesAssumption == Uses \subseteq Services \X Services
ASSUME ServesAssumption == MaxServes \in Nat

VARIABLES
  closed,     \* the host is closed
  server,     \* per service: "none", "serving" or "closing"
  serves,     \* per service: registrations so far
  queue,      \* per service: accepted calls that wait for the lane
  lane,       \* per service: the call its drain executes
  phase,      \* per call: "new", "queued", "running" (its handler) or "ended"
  service,    \* per call: the service it was sent to
  line,       \* per call: itself and the calls it is nested in
  reply,      \* per call: how its result settled
  accepted    \* per service: the calls it accepted, in order

registry == <<closed, server, serves>>
vars == <<closed, server, serves, queue, lane, phase, service, line, reply, accepted>>

Types ==
  /\ closed \in BOOLEAN
  /\ server \in [Services -> {"none", "serving", "closing"}]
  /\ serves \in [Services -> Nat]
  /\ queue \in [Services -> Seq(Calls)]
  /\ lane \in [Services -> Calls \cup {None}]
  /\ phase \in [Calls -> {"new", "queued", "running", "ended"}]
  /\ service \in [Calls -> Services \cup {None}]
  /\ line \in [Calls -> SUBSET Calls]
  /\ reply \in [Calls -> {"none", "value", "error"}]
  /\ accepted \in [Services -> Seq(Calls)]

\* The calls in a queue and in a lane were sent to the service that has the lane.
QueuesMatch ==
  \A s \in Services : \A n \in 1..Len(queue[s]) :
    service[queue[s][n]] = s /\ phase[queue[s][n]] # "new"
LanesMatch ==
  \A s \in Services :
    lane[s] # None => service[lane[s]] = s /\ phase[lane[s]] # "new"
ServersMatch == closed => \A s \in Services : server[s] # "serving"

\* The variables have their types, queues and lanes hold calls of their service, and a
\* closed host serves nothing.
TypeOK == Types /\ QueuesMatch /\ LanesMatch /\ ServersMatch

Init ==
  /\ closed = FALSE
  /\ server = [s \in Services |-> "none"] /\ serves = [s \in Services |-> 0]
  /\ queue = [s \in Services |-> <<>>] /\ lane = [s \in Services |-> None]
  /\ phase = [i \in Calls |-> "new"] /\ service = [i \in Calls |-> None]
  /\ line = [i \in Calls |-> {}] /\ reply = [i \in Calls |-> "none"]
  /\ accepted = [s \in Services |-> <<>>]

\* The results of the calls in C that have not settled are rejected.
Rejected(C) == [i \in Calls |-> IF i \in C /\ reply[i] = "none" THEN "error" ELSE reply[i]]

\* Call i is waiting for the result of a call it made.
Awaits(i) == \E k \in Calls : k # i /\ i \in line[k] /\ reply[k] = "none"

----------------------------------------------------------------------------
(* Registration *)

\* Mutant: a closed host accepts registrations.
ServeAlways(s) ==
  /\ server[s] = "none" /\ serves[s] < MaxServes
  /\ server' = [server EXCEPT ![s] = "serving"]
  /\ serves' = [serves EXCEPT ![s] = @ + 1]
  /\ UNCHANGED <<closed, queue, lane, phase, service, line, reply, accepted>>

Serve(s) ==
  /\ ~closed /\ server[s] = "none" /\ serves[s] < MaxServes
  /\ server' = [server EXCEPT ![s] = "serving"]
  /\ serves' = [serves EXCEPT ![s] = @ + 1]
  /\ UNCHANGED <<closed, queue, lane, phase, service, line, reply, accepted>>

\* Mutant: the queued calls of a closing registration are dropped without an answer.
ClosingAllSilently(S) ==
  /\ server' = [s \in Services |-> IF s \in S THEN "closing" ELSE server[s]]
  /\ reply' = Rejected({i \in Calls : phase[i] = "running" /\ service[i] \in S})
  /\ queue' = [s \in Services |-> IF s \in S THEN <<>> ELSE queue[s]]
  /\ phase' = [i \in Calls |->
       IF phase[i] = "queued" /\ service[i] \in S THEN "ended" ELSE phase[i]]
  /\ UNCHANGED <<serves, lane, service, line, accepted>>

\* The registrations in S close: their queued calls are dropped, and the calls that wait
\* or run in them, or are nested in such a call, are rejected.
ClosingAll(S) ==
  /\ server' = [s \in Services |-> IF s \in S THEN "closing" ELSE server[s]]
  /\ reply' = Rejected({i \in Calls : \E k \in line[i] : service[k] \in S})
  /\ queue' = [s \in Services |-> IF s \in S THEN <<>> ELSE queue[s]]
  /\ phase' = [i \in Calls |->
       IF phase[i] = "queued" /\ service[i] \in S THEN "ended" ELSE phase[i]]
  /\ UNCHANGED <<serves, lane, service, line, accepted>>

CloseServer(s) == server[s] = "serving" /\ ClosingAll({s}) /\ UNCHANGED closed

CloseHost ==
  /\ ~closed /\ closed' = TRUE
  /\ ClosingAll({s \in Services : server[s] = "serving"})

\* Mutant: a server is unregistered without waiting for the handler in its lane.
UnregisterAtOnce(s) ==
  /\ server[s] = "closing"
  /\ server' = [server EXCEPT ![s] = "none"]
  /\ UNCHANGED <<closed, serves, queue, lane, phase, service, line, reply, accepted>>

\* A closing server waits for its drain before it is unregistered.
Unregister(s) ==
  /\ server[s] = "closing" /\ lane[s] = None
  /\ server' = [server EXCEPT ![s] = "none"]
  /\ UNCHANGED <<closed, serves, queue, lane, phase, service, line, reply, accepted>>

----------------------------------------------------------------------------
(* Calls *)

Available(s) == ~closed /\ server[s] = "serving"

\* Call i is sent to s from within the calls l, and is at once in phase ph.
Sent(i, s, l, ph) ==
  /\ phase' = [phase EXCEPT ![i] = ph]
  /\ service' = [service EXCEPT ![i] = s]
  /\ line' = [line EXCEPT ![i] = l \cup {i}]

Refuse(i, s, l) ==
  /\ Sent(i, s, l, "ended")
  /\ reply' = [reply EXCEPT ![i] = "error"]
  /\ UNCHANGED <<registry, queue, lane, accepted>>

Enqueue(i, s, l) ==
  /\ Sent(i, s, l, "queued")
  /\ queue' = [queue EXCEPT ![s] = Append(@, i)]
  /\ accepted' = [accepted EXCEPT ![s] = Append(@, i)]
  /\ UNCHANGED <<registry, lane, reply>>

\* A call within a handler of the same service executes without the lane.
Reenter(i, s, l) ==
  /\ Sent(i, s, l, "running")
  /\ UNCHANGED <<registry, queue, lane, reply, accepted>>

Request(i, s) ==
  /\ phase[i] = "new"
  /\ IF Available(s) THEN Enqueue(i, s, {}) ELSE Refuse(i, s, {})

\* Mutant: a nested call is not checked against the chain of calls it comes from.
CyclicNever(p, s) == FALSE
\* A nested call may not return to a service its own chain of calls has left.
Cyclic(p, s) == s # service[p] /\ \E k \in line[p] : service[k] = s

\* The handler of p calls s; its own abort reaches the calls it makes.
Nest(p, i, s) ==
  /\ phase[p] = "running" /\ ~Awaits(p) /\ phase[i] = "new"
  /\ <<service[p], s>> \in Uses
  /\ IF ~Available(s) \/ reply[p] # "none" \/ Cyclic(p, s) THEN Refuse(i, s, line[p])
     ELSE IF s = service[p] THEN Reenter(i, s, line[p])
     ELSE Enqueue(i, s, line[p])

----------------------------------------------------------------------------
(* Lanes *)

LaneReady(s) == server[s] = "serving" /\ lane[s] = None /\ queue[s] # <<>>

\* The drain passes over a call that was cancelled while it waited.
Skip(s) ==
  /\ LaneReady(s) /\ reply[Head(queue[s])] # "none"
  /\ queue' = [queue EXCEPT ![s] = Tail(@)]
  /\ phase' = [phase EXCEPT ![Head(queue[s])] = "ended"]
  /\ UNCHANGED <<registry, lane, service, line, reply, accepted>>

\* Mutant: the drain executes the calls that were cancelled while they waited as well.
StartAny(s) ==
  /\ LaneReady(s)
  /\ queue' = [queue EXCEPT ![s] = Tail(@)]
  /\ lane' = [lane EXCEPT ![s] = Head(queue[s])]
  /\ phase' = [phase EXCEPT ![Head(queue[s])] = "running"]
  /\ UNCHANGED <<registry, service, line, reply, accepted>>

\* Mutant: a drain is scheduled although one is executing.
StartBeside(s) ==
  /\ server[s] = "serving" /\ queue[s] # <<>> /\ reply[Head(queue[s])] = "none"
  /\ queue' = [queue EXCEPT ![s] = Tail(@)]
  /\ lane' = [lane EXCEPT ![s] = Head(queue[s])]
  /\ phase' = [phase EXCEPT ![Head(queue[s])] = "running"]
  /\ UNCHANGED <<registry, service, line, reply, accepted>>

\* Mutant: the drain takes the call that was accepted last.
StartLatest(s) ==
  /\ LaneReady(s) /\ reply[queue[s][Len(queue[s])]] = "none"
  /\ queue' = [queue EXCEPT ![s] = SubSeq(@, 1, Len(@) - 1)]
  /\ lane' = [lane EXCEPT ![s] = queue[s][Len(queue[s])]]
  /\ phase' = [phase EXCEPT ![queue[s][Len(queue[s])]] = "running"]
  /\ UNCHANGED <<registry, service, line, reply, accepted>>

Start(s) ==
  /\ LaneReady(s) /\ reply[Head(queue[s])] = "none"
  /\ queue' = [queue EXCEPT ![s] = Tail(@)]
  /\ lane' = [lane EXCEPT ![s] = Head(queue[s])]
  /\ phase' = [phase EXCEPT ![Head(queue[s])] = "running"]
  /\ UNCHANGED <<registry, service, line, reply, accepted>>

\* The handler of i ends; its result counts only if nothing aborted it before.
Return(i) ==
  /\ phase[i] = "running" /\ ~Awaits(i)
  /\ phase' = [phase EXCEPT ![i] = "ended"]
  /\ \E r \in {"value", "error"} :
       reply' = [reply EXCEPT ![i] = IF @ = "none" THEN r ELSE @]
  /\ lane' = [s \in Services |-> IF lane[s] = i THEN None ELSE lane[s]]
  /\ UNCHANGED <<registry, queue, service, line, accepted>>

\* The caller of i gives up; the abort reaches the calls nested in i.
Cancel(i) ==
  /\ phase[i] \in {"queued", "running"} /\ reply[i] = "none"
  /\ reply' = Rejected({k \in Calls : i \in line[k]})
  /\ UNCHANGED <<registry, queue, lane, phase, service, line, accepted>>

Next ==
  \/ \E s \in Services : Serve(s) \/ CloseServer(s) \/ Unregister(s) \/ Skip(s) \/ Start(s)
  \/ \E i \in Calls, s \in Services : Request(i, s) \/ \E p \in Calls : Nest(p, i, s)
  \/ \E i \in Calls : Return(i) \/ Cancel(i)
  \/ CloseHost

Spec == Init /\ [][Next]_vars

\* Handlers end, drains run as microtasks, and a closing server sees its drain end.
FairSpec ==
  /\ Spec
  /\ \A s \in Services : WF_vars(Skip(s) \/ Start(s)) /\ WF_vars(Unregister(s))
  /\ \A i \in Calls : WF_vars(Return(i))

----------------------------------------------------------------------------
(* Properties *)

Reentrant(i) == \E k \in line[i] \ {i} : service[k] = service[i]

InLine(i, k) == i \in line[k] \/ k \in line[i]

\* Two handlers of a service run together only when one is nested in the other, or when an
\* aborted caller left a reentrant handler behind.
LanesSerial ==
  \A i, k \in Calls :
    phase[i] = "running" /\ phase[k] = "running" /\ service[i] = service[k]
    => \/ InLine(i, k)
       \/ Reentrant(i) /\ reply[i] # "none"
       \/ Reentrant(k) /\ reply[k] # "none"

\* No call runs or has been answered while one its service accepted earlier still waits:
\* cancellations and nested calls never reorder a lane.
AcceptedOrder ==
  \A s \in Services : \A n \in DOMAIN accepted[s] : \A m \in 1..(n - 1) :
    phase[accepted[s][n]] = "running" \/ reply[accepted[s][n]] = "value"
    => phase[accepted[s][m]] # "queued" \/ reply[accepted[s][m]] # "none"

\* A call rejected while it waited never reaches its handler: nothing happens on behalf of
\* a caller that was told it failed before it started.
RejectedStaysOut ==
  [][\A i \in Calls : phase[i] = "queued" /\ reply[i] # "none" => phase'[i] # "running"]_vars

\* Once a server is unregistered no handler of its lane is left, so a new registration of
\* the namespace never overlaps the old one (reentrant handlers of aborted callers aside).
ClosedIsQuiet ==
  \A i \in Calls : phase[i] = "running" /\ server[service[i]] = "none"
    => Reentrant(i) /\ reply[i] # "none"

\* The handler that holds the lane of s waits, itself or through the calls it made, in the
\* queue of t.
Waits(s, t) ==
  /\ lane[s] # None
  /\ \E i \in Calls :
       /\ lane[s] \in line[i]
       /\ phase[i] = "queued" /\ reply[i] = "none" /\ service[i] = t

\* No chain of calls waits for a lane it holds itself: the host refuses a nested call that
\* returns to a service of its own chain.  (It refuses nothing between chains.)
NeverBlocked == \A s \in Services : ~Waits(s, s)

\* A lane serves what it accepted in order, leaves nothing behind when it is closed, and never
\* waits for itself.
LanesInOrder == AcceptedOrder /\ ClosedIsQuiet /\ NeverBlocked

\* Handlers of separate chains of calls that each wait for a lane another of them holds.
Deadlocked ==
  \E S \in SUBSET Services : S # {} /\ \A s \in S : \E t \in S : Waits(s, t)

\* Every call settles, by its handler, its caller's abort or the closing of its server, unless the
\* chains of some callers have met in opposite directions: nothing else keeps a call waiting.
Settled == \A i \in Calls : phase[i] = "new" \/ reply[i] # "none"
CallsSettle == []<>(Settled \/ Deadlocked)
=============================================================================
