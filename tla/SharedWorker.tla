---------------------------- MODULE SharedWorker ----------------------------
(***************************************************************************)
(* Coordination through a shared worker: every client has a message port   *)
(* to the one host, says hello, sends requests and cancels them, and       *)
(* receives answers and events.  A port delivers what was posted in order, *)
(* and tells its peer at last that it was closed.  What a request does is  *)
(* a handler of the host's lanes, which need not end.                      *)
(***************************************************************************)
EXTENDS Naturals, Sequences, FiniteSets

CONSTANTS Clients, Requests,
          By,         \* per invoked: its client
          Versions,   \* sets of the clients that speak the host's protocol
          MaxEvents,  \* events that are published
          Mishaps     \* failures to post, and clients that are killed

VARIABLES
  fits,       \* the clients that speak the host's protocol
  host,       \* "open", "closing" or "closed"
  client,     \* per client: new, waiting for the welcome, ready, closed or failed
  connection, \* per client at the host: none, open, accepted or gone
  up, down,   \* per client: what is on its way to the host, and to the client
  invoked,    \* per request, at its client
  handler,    \* per request, at the host
  published,  \* the number of events that were published
  since,      \* per client: how many before it was accepted
  got,        \* per client: the events it received
  seen,       \* per request: how many events were published when its handler ended
  mishaps     \* so far

\* A request is of one client.
ASSUME WorkerAssumption == By \in [Requests -> Clients]

ports == <<up, down>>
events == <<published, since, got, seen>>
workerVars == <<fits, host, client, connection, ports, invoked, handler, events, mishaps>>

WorkerInit ==
  /\ fits \in Versions /\ host = "open" /\ client = [k \in Clients |-> "new"]
  /\ connection = [k \in Clients |-> "none"]
  /\ up = [k \in Clients |-> <<>>] /\ down = [k \in Clients |-> <<>>]
  /\ invoked = [r \in Requests |-> "new"] /\ handler = [r \in Requests |-> "none"]
  /\ published = 0 /\ since = [k \in Clients |-> 0] /\ got = [k \in Clients |-> <<>>]
  /\ seen = [r \in Requests |-> 0] /\ mishaps = 0

Of(k) == {r \in Requests : By[r] = k}
Hello == [type |-> "hello"]
Closed == [type |-> "close"]
Welcome(accepted) == [type |-> "welcome", accepted |-> accepted]
Alive(k) == client[k] \in {"waiting", "ready"}
Ended(k) == client[k] \in {"closed", "failed"}

Mishap == mishaps < Mishaps /\ mishaps' = mishaps + 1

----------------------------------------------------------------------------
(* The host *)

Halted(k) == [r \in Requests |-> IF r \in Of(k) /\ handler[r] = "running" THEN "halted" ELSE handler[r]]

\* Mutant: the handlers of a connection go on when it is gone.
DisconnectOnly(k, last) ==
  /\ connection' = [connection EXCEPT ![k] = "gone"] /\ UNCHANGED handler
  /\ down' = [down EXCEPT ![k] = down[k] \o last \o <<Closed>>]

\* The connection is forgotten, its handlers are halted and its port is closed, after `last'.
DisconnectConnection(k, last) ==
  /\ connection' = [connection EXCEPT ![k] = "gone"] /\ handler' = Halted(k)
  /\ down' = [down EXCEPT ![k] = down[k] \o last \o <<Closed>>]

Post(k, message) == down' = [down EXCEPT ![k] = Append(down[k], message)]

\* Mutant: a client of another version is welcome.
OnHelloAny(k) ==
  /\ connection' = [connection EXCEPT ![k] = "accepted"] /\ Post(k, Welcome(TRUE))
  /\ since' = [since EXCEPT ![k] = published] /\ UNCHANGED handler

OnHello(k) ==
  IF k \in fits
  THEN /\ connection' = [connection EXCEPT ![k] = "accepted"] /\ Post(k, Welcome(TRUE))
       /\ since' = [since EXCEPT ![k] = published] /\ UNCHANGED handler
  ELSE DisconnectConnection(k, <<Welcome(FALSE)>>) /\ UNCHANGED since

\* A handler is started once, and halted by a cancellation.
OnMessage(k, message) ==
  CASE message.type = "hello" -> OnHello(k)
    [] message.type = "request" /\ connection[k] = "accepted" ->
         handler' = [handler EXCEPT ![message.request] = "running"] /\ UNCHANGED <<connection, down, since>>
    [] message.type = "cancel" /\ connection[k] = "accepted" ->
         /\ handler' = [handler EXCEPT ![message.request] = IF @ = "running" THEN "halted" ELSE @]
         /\ UNCHANGED <<connection, down, since>>
    [] message.type = "close" \/ (message.type = "disconnect" /\ connection[k] = "accepted") ->
         DisconnectConnection(k, <<>>) /\ UNCHANGED since
    [] OTHER -> UNCHANGED <<connection, down, handler, since>>

\* A connection that is gone, and a host that closes, read nothing.
HostReads(k) ==
  /\ up[k] # <<>> /\ up' = [up EXCEPT ![k] = Tail(up[k])]
  /\ IF host = "open" /\ connection[k] \in {"open", "accepted"}
     THEN OnMessage(k, Head(up[k]))
     ELSE UNCHANGED <<connection, down, handler, since>>
  /\ UNCHANGED <<fits, host, client, invoked, published, got, seen, mishaps>>

Answer(r, ok) == [type |-> "response", request |-> r, ok |-> ok]

\* Mutant: an answer overtakes the messages before it.
RespondFirst(r, ok) ==
  LET k == By[r]
  IN  /\ handler' = [handler EXCEPT ![r] = "done"] /\ seen' = [seen EXCEPT ![r] = published]
      /\ IF host = "open" THEN down' = [down EXCEPT ![k] = <<Answer(r, ok)>> \o down[k]] ELSE UNCHANGED down
      /\ UNCHANGED <<connection, mishaps>>

\* The answer is posted; one that cannot be cloned costs the client its connection.
Respond(r, ok) ==
  LET k == By[r]
  IN  /\ handler' = [handler EXCEPT ![r] = "done"] /\ seen' = [seen EXCEPT ![r] = published]
      /\ IF host = "open" THEN Post(k, Answer(r, ok)) ELSE UNCHANGED down
      /\ UNCHANGED <<connection, mishaps>>

PostFails(k) == host = "open" /\ Mishap /\ DisconnectConnection(k, <<>>)

HandlerEnds(r, ok) ==
  /\ handler[r] = "running" /\ (Respond(r, ok) \/ (PostFails(By[r]) /\ UNCHANGED seen))
  /\ UNCHANGED <<fits, host, client, up, invoked, published, since, got>>

Event(n) == [type |-> "event", number |-> n]
Accepted(k) == connection[k] = "accepted"

\* A handler publishes an event to all clients that were accepted.  One that cannot be cloned
\* costs every one of them its connection.
PublishEvent ==
  /\ published < MaxEvents /\ host = "open" /\ \E r \in Requests : handler[r] \in {"running", "halted"}
  /\ \/ /\ published' = published + 1
        /\ down' = [k \in Clients |-> IF Accepted(k) THEN Append(down[k], Event(published + 1)) ELSE down[k]]
        /\ UNCHANGED <<connection, handler, mishaps>>
     \/ /\ Mishap /\ UNCHANGED published
        /\ connection' = [k \in Clients |-> IF Accepted(k) THEN "gone" ELSE connection[k]]
        /\ down' = [k \in Clients |-> IF Accepted(k) THEN Append(down[k], Closed) ELSE down[k]]
        /\ handler' = [r \in Requests |-> IF Accepted(By[r]) /\ handler[r] = "running" THEN "halted" ELSE handler[r]]
  /\ UNCHANGED <<fits, host, client, up, invoked, since, got, seen>>

\* The clients are told first; one that was not accepted yet does not know its own id in it.
HostCloses ==
  /\ host = "open" /\ host' = "closing"
  /\ down' = [k \in Clients |->
       IF Accepted(k) THEN Append(down[k], [type |-> "disconnect"]) ELSE down[k]]
  /\ UNCHANGED <<fits, client, connection, up, invoked, handler, events, mishaps>>

HostEnds ==
  /\ host = "closing" /\ host' = "closed"
  /\ handler' = [r \in Requests |-> IF handler[r] = "running" THEN "halted" ELSE handler[r]]
  /\ connection' = [k \in Clients |-> IF connection[k] = "none" THEN "none" ELSE "gone"]
  /\ down' = [k \in Clients |->
       IF connection[k] \in {"open", "accepted"} THEN Append(down[k], Closed) ELSE down[k]]
  /\ UNCHANGED <<fits, client, up, invoked, events, mishaps>>

----------------------------------------------------------------------------
(* A client *)

Send(k, message) == up' = [up EXCEPT ![k] = Append(up[k], message)]

Connect(k) ==
  /\ client[k] = "new" /\ client' = [client EXCEPT ![k] = "waiting"] /\ Send(k, Hello)
  /\ connection' = [connection EXCEPT ![k] = IF host = "open" THEN "open" ELSE "none"]
  /\ UNCHANGED <<fits, host, down, invoked, handler, events, mishaps>>

\* Mutant: only the calls that were sent are rejected.
SentCallsRejected(k) ==
  [r \in Requests |-> IF r \in Of(k) /\ invoked[r] = "pending" THEN "rejected" ELSE invoked[r]]

\* The calls of a client that ends are rejected, those that wait until it is ready too.
CallsRejected(k) ==
  [r \in Requests |-> IF r \in Of(k) /\ invoked[r] \in {"waiting", "pending"} THEN "rejected" ELSE invoked[r]]

\* The client ends: its calls are rejected and its port is closed, after `last'.
End(k, how, last) ==
  /\ client' = [client EXCEPT ![k] = how] /\ invoked' = CallsRejected(k)
  /\ up' = [up EXCEPT ![k] = up[k] \o last \o <<Closed>>]

ClientReads(k) ==
  /\ Alive(k) /\ down[k] # <<>> /\ down' = [down EXCEPT ![k] = Tail(down[k])]
  /\ LET message == Head(down[k])
     IN  CASE message.type = "welcome" /\ message.accepted /\ k \in fits ->
                client' = [client EXCEPT ![k] = "ready"] /\ UNCHANGED <<up, invoked, got>>
           [] message.type = "response" ->
                /\ invoked' = [invoked EXCEPT ![message.request] =
                     IF @ # "pending" THEN @ ELSE IF message.ok THEN "value" ELSE "rejected"]
                /\ UNCHANGED <<client, up, got>>
           [] message.type = "event" ->
                got' = [got EXCEPT ![k] = Append(got[k], message.number)] /\ UNCHANGED <<client, up, invoked>>
           [] OTHER -> End(k, "failed", <<>>) /\ UNCHANGED got
  /\ UNCHANGED <<fits, host, connection, handler, published, since, seen, mishaps>>

HandshakeTimesOut(k) ==
  /\ client[k] = "waiting" /\ End(k, "failed", <<>>)
  /\ UNCHANGED <<fits, host, connection, down, handler, events, mishaps>>

Close(k) ==
  /\ Alive(k) /\ End(k, "closed", <<[type |-> "disconnect"]>>)
  /\ UNCHANGED <<fits, host, connection, down, handler, events, mishaps>>

\* The client is killed with its context; some of its last messages do not get through, the end
\* of its port does.
Killed(k) ==
  /\ Alive(k) /\ Mishap /\ client' = [client EXCEPT ![k] = "failed"] /\ invoked' = CallsRejected(k)
  /\ \E n \in 0..Len(up[k]) : up' = [up EXCEPT ![k] = Append(SubSeq(up[k], 1, n), Closed)]
  /\ UNCHANGED <<fits, host, connection, down, handler, events>>

----------------------------------------------------------------------------
(* A call *)

InvokeRequest(r) ==
  /\ invoked[r] = "new" /\ client[By[r]] # "new"
  /\ invoked' = [invoked EXCEPT ![r] = IF Ended(By[r]) THEN "rejected" ELSE "waiting"]
  /\ UNCHANGED <<fits, host, client, connection, ports, handler, events, mishaps>>

RequestWhenReady(r) ==
  /\ invoked[r] = "waiting" /\ client[By[r]] = "ready"
  /\ invoked' = [invoked EXCEPT ![r] = "pending"] /\ Send(By[r], [type |-> "request", request |-> r])
  /\ UNCHANGED <<fits, host, client, connection, down, handler, events, mishaps>>

\* Mutant: the host is not told.
CancelAlone(r) ==
  /\ invoked[r] = "pending" /\ invoked' = [invoked EXCEPT ![r] = "rejected"]
  /\ UNCHANGED <<fits, host, client, connection, ports, handler, events, mishaps>>

\* The caller gives up before the client is ready.
Abort(r) ==
  /\ invoked[r] = "waiting" /\ invoked' = [invoked EXCEPT ![r] = "rejected"]
  /\ UNCHANGED <<fits, host, client, connection, ports, handler, events, mishaps>>

\* The caller's abort or the timeout; the host is told.
CancelRequest(r) ==
  /\ invoked[r] = "pending" /\ invoked' = [invoked EXCEPT ![r] = "rejected"]
  /\ Send(By[r], [type |-> "cancel", request |-> r])
  /\ UNCHANGED <<fits, host, client, connection, down, handler, events, mishaps>>

WorkerNext ==
  \/ PublishEvent \/ HostCloses \/ HostEnds
  \/ \E k \in Clients : Connect(k) \/ Close(k) \/ Killed(k) \/ HandshakeTimesOut(k)
  \/ \E k \in Clients : HostReads(k) \/ ClientReads(k)
  \/ \E r \in Requests : InvokeRequest(r) \/ RequestWhenReady(r) \/ Abort(r) \/ CancelRequest(r)
  \/ \E r \in Requests, ok \in BOOLEAN : HandlerEnds(r, ok)

WorkerSpec == WorkerInit /\ [][WorkerNext]_workerVars

\* Ports deliver, timers fire, and calls and closing go on; handlers need not end.
WorkerFairness ==
  /\ \A k \in Clients : WF_workerVars(HostReads(k)) /\ WF_workerVars(ClientReads(k)) /\ WF_workerVars(HandshakeTimesOut(k))
  /\ \A r \in Requests : WF_workerVars(RequestWhenReady(r)) /\ WF_workerVars(CancelRequest(r))
  /\ WF_workerVars(HostEnds)

----------------------------------------------------------------------------
(* What must hold *)

WorkerTypeOK ==
  /\ fits \in Versions /\ host \in {"open", "closing", "closed"}
  /\ client \in [Clients -> {"new", "waiting", "ready", "closed", "failed"}]
  /\ connection \in [Clients -> {"none", "open", "accepted", "gone"}]
  /\ invoked \in [Requests -> {"new", "waiting", "pending", "value", "rejected"}]
  /\ handler \in [Requests -> {"none", "running", "halted", "done"}]
  /\ \A k \in Clients : client[k] = "ready" \/ connection[k] = "accepted" => k \in fits

\* When a connection is gone, none of its handlers works for it.
GoneIsHalted == \A r \in Requests : connection[By[r]] = "gone" => handler[r] # "running"

\* A client that has the answer of a request has every event that was published since it was
\* accepted and before the handler ended, in order and without a gap.
EventsPrecedeAnswers ==
  \A k \in Clients :
    /\ got[k] = [i \in 1..Len(got[k]) |-> since[k] + i]
    /\ \A r \in Of(k) : invoked[r] = "value" => since[k] + Len(got[k]) >= seen[r]

\* However a connection ends, no handler works for a client that is gone, and a client that has an
\* answer has the events before it.
ConnectionsHold == GoneIsHalted /\ EventsPrecedeAnswers

\* Every call settles, whatever happens to the client, the host or the handler; and what nobody waits
\* for is not worked on for ever: the handler of a call that was rejected ends or is halted, and with
\* the client its connection goes.
AllSettled ==
  /\ \A r \in Requests : invoked[r] \notin {"waiting", "pending"}
  /\ \A r \in Requests : invoked[r] = "rejected" => handler[r] # "running"
  /\ \A k \in Clients : Ended(k) => connection[k] \notin {"open", "accepted"}
RequestsSettle == []<>AllSettled
=============================================================================
