---------------------------- MODULE LockBroadcast ----------------------------
(***************************************************************************)
(* Coordination over a web lock and a broadcast channel.  The node that    *)
(* holds the lock leads: it serves the calls of all nodes in its lane and  *)
(* runs the leader callbacks.  Followers publish their requests, repeat    *)
(* them when no answer comes, and give up in the end.  Nodes close and die *)
(* at any time; what was published reaches the nodes that are open.        *)
(***************************************************************************)
EXTENDS Naturals, Sequences, FiniteSets

CONSTANTS Nodes,         \* coordination instances, one per context
          Calls,         \* calls that the nodes make
          NoOne,          \* no node, no call
          MaxAttempts    \* per call: how often its request is published

ASSUME NoOneAssumption == NoOne \notin Nodes \cup Calls
ASSUME AttemptsAssumption == MaxAttempts \in [Calls -> Nat \ {0}]

VARIABLES
  life,      \* per node: "open", "stopping" its term, "closing" its lane, or "closed"
  lock,      \* the node that holds the web lock
  inbox,     \* per node: messages of the channel under way to it
  call,      \* per call: its caller, how it stands and how often it was published
  lane,      \* per node: calls accepted and not started
  running,   \* per node: the call its handler executes
  aborted,   \* per node: accepted calls whose signal is aborted
  incoming,  \* per node: accepted requests of other nodes
  answers,   \* per node: the cached response of each request
  work,      \* per node: a leader callback runs
  runs       \* per call and node: how often its handler was started

hosts == <<lane, running, aborted, incoming, answers, runs>>
lockVars == <<life, lock, inbox, call, hosts, work>>

Messages == [type : {"request", "cancel", "ok", "error"}, id : Calls]
Message(type, i) == [type |-> type, id |-> i]

LockTypes ==
  /\ life \in [Nodes -> {"open", "stopping", "closing", "closed"}]
  /\ lock \in Nodes \cup {NoOne}
  /\ inbox \in [Nodes -> Seq(Messages)]
  /\ call \in [Calls -> [by : Nodes \cup {NoOne}, attempts : Nat,
                         state : {"new", "remote", "local", "ok", "error"}]]
  /\ lane \in [Nodes -> Seq(Calls)] /\ running \in [Nodes -> Calls \cup {NoOne}]
  /\ aborted \in [Nodes -> SUBSET Calls] /\ incoming \in [Nodes -> SUBSET Calls]
  /\ answers \in [Nodes -> [Calls -> {"none", "ok", "error"}]]
  /\ work \in [Nodes -> BOOLEAN] /\ runs \in [Calls -> [Nodes -> Nat]]

\* A node leads from the grant of its lock until its requests have been wound up.
Leads(n) == lock = n /\ life[n] \in {"open", "stopping"}

Waiting(i) == call[i].state \in {"remote", "local"}

LockInit ==
  /\ life = [n \in Nodes |-> "open"] /\ lock = NoOne
  /\ inbox = [n \in Nodes |-> <<>>]
  /\ call = [i \in Calls |-> [by |-> NoOne, attempts |-> 0, state |-> "new"]]
  /\ lane = [n \in Nodes |-> <<>>] /\ running = [n \in Nodes |-> NoOne]
  /\ aborted = [n \in Nodes |-> {}] /\ incoming = [n \in Nodes |-> {}]
  /\ answers = [n \in Nodes |-> [i \in Calls |-> "none"]]
  /\ work = [n \in Nodes |-> FALSE] /\ runs = [i \in Calls |-> [n \in Nodes |-> 0]]

----------------------------------------------------------------------------
(* The channel *)

\* What the channels hold once node n has published m; it reaches every other open node.
Published(n, m) ==
  [k \in Nodes |-> IF k # n /\ life[k] # "closed" THEN Append(inbox[k], m) ELSE inbox[k]]

Accept(n, i) == lane' = [lane EXCEPT ![n] = Append(@, i)]

----------------------------------------------------------------------------
(* Callers *)

\* A leader calls its own handlers; a follower publishes its request.
Send(i, n, attempts) ==
  IF Leads(n)
  THEN /\ call' = [call EXCEPT ![i] = [by |-> n, attempts |-> attempts, state |-> "local"]]
       /\ Accept(n, i) /\ UNCHANGED inbox
  ELSE /\ call' = [call EXCEPT ![i] = [by |-> n, attempts |-> attempts + 1, state |-> "remote"]]
       /\ inbox' = Published(n, Message("request", i)) /\ UNCHANGED lane

Invoke(i, n) ==
  /\ life[n] = "open" /\ call[i].state = "new"
  /\ Send(i, n, 0)
  /\ UNCHANGED <<life, lock, running, aborted, incoming, answers, work, runs>>

Retry(i) ==
  LET n == call[i].by IN
  /\ call[i].state = "remote" /\ life[n] = "open" /\ call[i].attempts < MaxAttempts[i]
  /\ Send(i, n, call[i].attempts)
  /\ UNCHANGED <<life, lock, running, aborted, incoming, answers, work, runs>>

Settle(i, state) == call' = [call EXCEPT ![i].state = state]

\* The last attempt timed out, or the caller's signal was aborted.
GiveUp(i) ==
  LET n == call[i].by IN
  /\ Waiting(i) /\ life[n] = "open" /\ Settle(i, "error")
  /\ IF call[i].state = "remote"
     THEN inbox' = Published(n, Message("cancel", i)) /\ UNCHANGED aborted
     ELSE aborted' = [aborted EXCEPT ![n] = @ \cup {i}] /\ UNCHANGED inbox
  /\ UNCHANGED <<life, lock, lane, running, incoming, answers, work, runs>>

----------------------------------------------------------------------------
(* Messages *)

Received(n) == [inbox EXCEPT ![n] = Tail(@)]

\* Mutant: a request that is being executed is accepted again when it is repeated.
ReceiveAgain(n) ==
  LET m == Head(inbox[n])  i == m.id IN
  /\ inbox[n] # <<>> /\ m.type = "request"
  /\ IF life[n] # "open" \/ ~Leads(n)
     THEN inbox' = Received(n) /\ UNCHANGED <<lane, incoming>>
     ELSE IF answers[n][i] # "none"
     THEN /\ inbox' = [Received(n) EXCEPT ![call[i].by] =
                         Append(@, Message(answers[n][i], i))]
          /\ UNCHANGED <<lane, incoming>>
     ELSE /\ inbox' = Received(n) /\ Accept(n, i)
          /\ incoming' = [incoming EXCEPT ![n] = @ \cup {i}]
  /\ UNCHANGED <<life, lock, call, running, aborted, answers, work, runs>>

\* Only a leader that is not closing takes requests.  One that was answered is answered
\* again, one that is being executed is not executed twice.
ReceiveRequest(n) ==
  LET m == Head(inbox[n])  i == m.id IN
  /\ inbox[n] # <<>> /\ m.type = "request"
  /\ IF life[n] # "open" \/ ~Leads(n) \/ i \in incoming[n]
     THEN inbox' = Received(n) /\ UNCHANGED <<lane, incoming>>
     ELSE IF answers[n][i] # "none"
     THEN /\ inbox' = [Received(n) EXCEPT ![call[i].by] =
                         IF life[call[i].by] = "closed" THEN @
                         ELSE Append(@, Message(answers[n][i], i))]
          /\ UNCHANGED <<lane, incoming>>
     ELSE /\ inbox' = Received(n) /\ Accept(n, i)
          /\ incoming' = [incoming EXCEPT ![n] = @ \cup {i}]
  /\ UNCHANGED <<life, lock, call, running, aborted, answers, work, runs>>

ReceiveCancel(n) ==
  LET m == Head(inbox[n]) IN
  /\ inbox[n] # <<>> /\ m.type = "cancel"
  /\ inbox' = Received(n)
  /\ aborted' = IF life[n] = "open" THEN [aborted EXCEPT ![n] = @ \cup (incoming[n] \cap {m.id})]
                ELSE aborted
  /\ UNCHANGED <<life, lock, call, lane, running, incoming, answers, work, runs>>

\* An answer counts while its request is still pending.
ReceiveAnswer(n) ==
  LET m == Head(inbox[n]) IN
  /\ inbox[n] # <<>> /\ m.type \in {"ok", "error"}
  /\ inbox' = Received(n)
  /\ IF life[n] = "open" /\ call[m.id].state = "remote" THEN Settle(m.id, m.type)
     ELSE UNCHANGED call
  /\ UNCHANGED <<life, lock, hosts, work>>

----------------------------------------------------------------------------
(* The leader's lane and callbacks *)

\* The call i of the lane of n has ended.  Its caller, if it is n, gets the result; a request
\* is answered unless the term is ending.
Complete(n, i, result) ==
  /\ incoming' = [incoming EXCEPT ![n] = @ \ {i}]
  /\ aborted' = [aborted EXCEPT ![n] = @ \ {i}]
  /\ IF i \notin incoming[n]
     THEN /\ IF call[i].state = "local" THEN Settle(i, result) ELSE UNCHANGED call
          /\ UNCHANGED <<answers, inbox>>
     ELSE IF life[n] = "open"
     THEN /\ answers' = [answers EXCEPT ![n][i] = result]
          /\ inbox' = [inbox EXCEPT ![call[i].by] =
                         IF life[call[i].by] = "closed" THEN @ ELSE Append(@, Message(result, i))]
          /\ UNCHANGED call
     ELSE UNCHANGED <<answers, inbox, call>>

StartCall(n) ==
  /\ lane[n] # <<>> /\ running[n] = NoOne /\ Head(lane[n]) \notin aborted[n]
  /\ running' = [running EXCEPT ![n] = Head(lane[n])]
  /\ lane' = [lane EXCEPT ![n] = Tail(@)]
  /\ runs' = [runs EXCEPT ![Head(lane[n])][n] = @ + 1]
  /\ UNCHANGED <<life, lock, inbox, call, aborted, incoming, answers, work>>

\* A call that was aborted while it waited is rejected without being started.
Skip(n) ==
  /\ lane[n] # <<>> /\ running[n] = NoOne /\ Head(lane[n]) \in aborted[n]
  /\ lane' = [lane EXCEPT ![n] = Tail(@)]
  /\ Complete(n, Head(lane[n]), "error")
  /\ UNCHANGED <<life, lock, running, work, runs>>

\* A handler returns; an aborted call is rejected whatever its handler says.
Return(n) ==
  /\ running[n] # NoOne /\ running' = [running EXCEPT ![n] = NoOne]
  /\ \E result \in IF running[n] \in aborted[n] THEN {"error"} ELSE {"ok", "error"} :
       Complete(n, running[n], result)
  /\ UNCHANGED <<life, lock, lane, work, runs>>

RunAsLeader(n) ==
  /\ life[n] = "open" /\ Leads(n) /\ ~work[n]
  /\ work' = [work EXCEPT ![n] = TRUE]
  /\ UNCHANGED <<life, lock, inbox, call, hosts>>

\* The callback returns.  Nobody waits for it: when its signal is aborted, runAsLeader is left
\* at once and the callback goes on until it has cleaned up.
WorkEnds(n) ==
  /\ work[n] /\ work' = [work EXCEPT ![n] = FALSE]
  /\ UNCHANGED <<life, lock, inbox, call, hosts>>

----------------------------------------------------------------------------
(* Lock and lifetime *)

Acquire(n) ==
  /\ lock = NoOne /\ life[n] = "open" /\ lock' = n
  /\ UNCHANGED <<life, inbox, call, hosts, work>>

\* A closing node takes no message and publishes none; it aborts the requests it serves.
CloseNode(n) ==
  /\ life[n] = "open" /\ life' = [life EXCEPT ![n] = "stopping"]
  /\ aborted' = [aborted EXCEPT ![n] = @ \cup incoming[n]]
  /\ UNCHANGED <<lock, inbox, call, lane, running, incoming, answers, work, runs>>

\* The term is over once its requests have ended; then the host closes its lane.
StopTerm(n) ==
  /\ life[n] = "stopping" /\ incoming[n] = {} /\ life' = [life EXCEPT ![n] = "closing"]
  /\ aborted' = [aborted EXCEPT ![n] = @ \cup {i \in Calls : call[i].by = n}]
  /\ UNCHANGED <<lock, inbox, call, lane, running, incoming, answers, work, runs>>

\* The calls of n are rejected.
RejectedCalls(n) ==
  [i \in Calls |-> IF call[i].by = n /\ Waiting(i) THEN [call[i] EXCEPT !.state = "error"]
                   ELSE call[i]]

\* Mutant: the lock is released while a handler still runs.
CloseEndsEarly(n) ==
  /\ life[n] = "closing"
  /\ life' = [life EXCEPT ![n] = "closed"]
  /\ lock' = IF lock = n THEN NoOne ELSE lock
  /\ call' = RejectedCalls(n) /\ inbox' = [inbox EXCEPT ![n] = <<>>]
  /\ UNCHANGED <<hosts, work>>

\* Mutant: the calls of the closed node are left pending.
CloseEndsSilently(n) ==
  /\ life[n] = "closing" /\ running[n] = NoOne /\ lane[n] = <<>>
  /\ life' = [life EXCEPT ![n] = "closed"]
  /\ lock' = IF lock = n THEN NoOne ELSE lock
  /\ inbox' = [inbox EXCEPT ![n] = <<>>]
  /\ UNCHANGED <<call, hosts, work>>

\* Mutant: the lock is kept although the node is closed.
CloseEndsLocked(n) ==
  /\ life[n] = "closing" /\ running[n] = NoOne /\ lane[n] = <<>>
  /\ life' = [life EXCEPT ![n] = "closed"]
  /\ call' = RejectedCalls(n) /\ inbox' = [inbox EXCEPT ![n] = <<>>]
  /\ UNCHANGED <<lock, hosts, work>>

\* The lane is empty and no handler runs: the lock is released.
CloseEnds(n) ==
  /\ life[n] = "closing" /\ running[n] = NoOne /\ lane[n] = <<>>
  /\ life' = [life EXCEPT ![n] = "closed"]
  /\ lock' = IF lock = n THEN NoOne ELSE lock
  /\ call' = RejectedCalls(n) /\ inbox' = [inbox EXCEPT ![n] = <<>>]
  /\ UNCHANGED <<hosts, work>>

\* The context dies with all it ran; the browser releases its lock.
NodeCrash(n) ==
  /\ life[n] # "closed" /\ life' = [life EXCEPT ![n] = "closed"]
  /\ lock' = IF lock = n THEN NoOne ELSE lock
  /\ call' = RejectedCalls(n) /\ inbox' = [inbox EXCEPT ![n] = <<>>]
  /\ lane' = [lane EXCEPT ![n] = <<>>] /\ running' = [running EXCEPT ![n] = NoOne]
  /\ aborted' = [aborted EXCEPT ![n] = {}] /\ incoming' = [incoming EXCEPT ![n] = {}]
  /\ work' = [work EXCEPT ![n] = FALSE]
  /\ UNCHANGED <<answers, runs>>

Receive(n) == ReceiveRequest(n) \/ ReceiveCancel(n) \/ ReceiveAnswer(n)
Drain(n) == StartCall(n) \/ Skip(n) \/ Return(n)

LockNext ==
  \/ \E n \in Nodes : Acquire(n) \/ Receive(n) \/ Drain(n) \/ RunAsLeader(n) \/ WorkEnds(n)
  \/ \E n \in Nodes : CloseNode(n) \/ StopTerm(n) \/ CloseEnds(n) \/ NodeCrash(n)
  \/ \E i \in Calls : Retry(i) \/ GiveUp(i) \/ \E n \in Nodes : Invoke(i, n)

LockSpec == LockInit /\ [][LockNext]_lockVars

\* The channel delivers, handlers and callbacks end, a closing node goes on closing, a free
\* lock is granted, and timers fire.
GoesOn ==
  \/ \E n \in Nodes : Receive(n) \/ Drain(n) \/ StopTerm(n) \/ CloseEnds(n) \/ Acquire(n)
  \/ \E i \in Calls : Retry(i) \/ (call[i].attempts = MaxAttempts[i] /\ GiveUp(i))

LockFairSpec == LockSpec /\ WF_lockVars(GoesOn) /\ WF_lockVars(\E n \in Nodes : WorkEnds(n))

----------------------------------------------------------------------------
(* Properties *)

\* What lanes hold are calls under way, and a node executes something only as the lock's
\* holder.
HostsMatch ==
  \A n \in Nodes :
    /\ incoming[n] \cup aborted[n] \cup {lane[n][k] : k \in 1..Len(lane[n])}
         \subseteq {i \in Calls : call[i].by # NoOne}
    /\ \A i \in incoming[n] : call[i].by # n
    /\ life[n] = "closed" => lane[n] = <<>> /\ running[n] = NoOne

\* The variables have their types and hosts execute calls that were made.
LockTypeOK == LockTypes /\ HostsMatch

\* Handlers run only while their node holds the lock, so those of an old leader have ended
\* before a new one starts its own.
ServedUnderLock == \A n \in Nodes : running[n] # NoOne => lock = n

\* However often a request is repeated, a leader executes it at most once.
OncePerLeader == \A i \in Calls, n \in Nodes : runs[i][n] <= 1

\* A closed node leaves none of its callers waiting.
ClosedSettles == \A i \in Calls : Waiting(i) => life[call[i].by] # "closed"

\* What a caller relies on: its request is executed once by a leader, and a closed node has let go of it.
CallersAreServed == OncePerLeader /\ ClosedSettles

\* Every call settles: answered, given up after its attempts, or rejected by the closing.  Again and
\* again nobody waits, and no node that is closing or closed holds the lock.
CallsSettled ==
  /\ \A i \in Calls : ~Waiting(i)
  /\ \A n \in Nodes : lock = n => life[n] = "open"
CallsSettle == []<>CallsSettled
=============================================================================
