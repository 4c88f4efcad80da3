------------------------------- MODULE Outbox -------------------------------
(***************************************************************************)
(* The ontology outbox: client contexts enqueue, edit, remove and retry    *)
(* actions through the coordination service, the leader's handlers change  *)
(* the durable table one at a time, and the leader's executor drains it    *)
(* from the head, calling the backend outside the service lane.            *)
(*                                                                         *)
(* A handler that answers a caller or publishes results takes two steps:   *)
(* its change is persisted, then its posts leave the context (Post).  A    *)
(* context may die between the two.                                        *)
(***************************************************************************)
EXTENDS OutboxRepository, Sequences, FiniteSets

CONSTANTS Contexts,         \* client contexts (tabs) that share the outbox
          Nobody            \* no context

Disruptions == {"crash", "handover", "timeout", "user", "outage"}

ASSUME NobodyAssumption == Nobody \notin Contexts
ASSUME BudgetAssumption == \A s \in Settings : s.budget \in [Disruptions -> Nat]

VARIABLES
  box,        \* the durable table
  alive,      \* the contexts that are open
  leader,     \* the context that holds leadership, or Nobody
  lane,       \* per host: posts of the handler whose change is persisted
  pc,         \* where the leader's executor is
  claim,      \* the entry the executor claimed: [id, run, attempts]
  effect,     \* whether the backend has applied the claimed execution
  outcome,    \* how the execution ended, until it is reported
  wake,       \* a buffered wake signal of the executor
  online,     \* runtime connectivity
  active,     \* the connection is active (authenticated)
  call,       \* per context: its outstanding service call
  promise,    \* per context and action: the completion it returned
  inbox,      \* per context: batches of result events under way
  runs,       \* executions claimed so far (executionId is fresh)
  applied,    \* per action: how often the backend applied it
  used,       \* actions that have been enqueued
  spent       \* disruptions that have happened

durable == <<box, runs>>
executor == <<pc, claim, effect, outcome>>
surroundings == <<alive, leader, online, active>>
clients == <<call, promise, inbox, used>>
moving == <<box, alive, leader, lane, pc, claim, effect, outcome, wake, online, active,
            call, promise, inbox, runs, applied, used, spent>>
vars == <<setting, moving>>

Endings == {"completed", "removed", "discarded", "failed"}
Event == [id : Ids, kind : Endings]
Outcomes == {"complete", "retry", "fail", "reject", "discard", "unauthenticated"}
Claim == [id : Ids, run : Nat, attempts : Nat]
NoCall == [state |-> "none"]
Operations == {"enqueue", "edit", "remove", "retry"}
Call == [state : {"sent", "handled", "answered"}, op : Operations, id : Ids]
Idle == [busy |-> FALSE]
Posts == [busy : {TRUE}, events : SUBSET Event, caller : Contexts \cup {Nobody}]

SurroundingsOK ==
  /\ alive \subseteq Contexts
  /\ leader \in alive \cup {Nobody}
  /\ online \in BOOLEAN /\ active \in BOOLEAN
  /\ spent \in [Disruptions -> Nat]

ExecutorOK ==
  /\ pc \in {"off", "recovering", "ready", "claiming", "asking", "asleep", "backoff",
             "running", "reporting"}
  /\ claim \in {<<>>} \cup Claim
  /\ pc \in {"running", "reporting"} => claim \in Claim
  /\ effect \in BOOLEAN /\ wake \in BOOLEAN
  /\ outcome \in {"none"} \cup Outcomes
  /\ pc = "reporting" => outcome \in Outcomes

ClientsOK ==
  /\ call \in [Contexts -> {NoCall} \cup Call]
  /\ promise \in [Contexts -> [Ids -> {"none", "pending", "timeout"} \cup Endings]]
  /\ inbox \in [Contexts -> Seq(SUBSET Event)]
  /\ used \subseteq Ids

StateOK ==
  /\ IsTable(box) /\ runs \in Nat /\ applied \in [Ids -> Nat]
  /\ lane \in [Contexts -> {Idle} \cup Posts]
  /\ SurroundingsOK /\ ExecutorOK /\ ClientsOK

TypeOK == setting \in Settings /\ StateOK

Init ==
  /\ setting \in Settings /\ box = [id \in {} |-> NewEntry(1)]
  /\ alive = Contexts /\ leader = Nobody
  /\ lane = [c \in Contexts |-> Idle]
  /\ pc = "off" /\ claim = <<>> /\ effect = FALSE /\ outcome = "none"
  /\ wake = FALSE /\ online = TRUE /\ active = TRUE
  /\ call = [c \in Contexts |-> NoCall]
  /\ promise = [c \in Contexts |-> [id \in Ids |-> "none"]]
  /\ inbox = [c \in Contexts |-> <<>>]
  /\ runs = 0 /\ applied = [id \in Ids |-> 0] /\ used = {}
  /\ spent = [d \in Disruptions |-> 0]

Disrupt(d) == spent[d] < setting.budget[d] /\ spent' = [spent EXCEPT ![d] = @ + 1]

----------------------------------------------------------------------------
(* Leadership and the life of contexts *)

BecomeLeader(c) ==
  /\ leader = Nobody /\ c \in alive
  /\ leader' = c /\ pc' = "recovering" /\ wake' = FALSE
  /\ UNCHANGED <<box, alive, lane, claim, effect, outcome, online, active, clients,
                 runs, applied, spent>>

HaltExecutor == pc' = "off" /\ claim' = <<>> /\ effect' = FALSE /\ outcome' = "none"

\* The executor is halted; the lane of a context that stays open goes on.  A service call
\* the executor has issued is ahead of the next term's in that lane, so it counts as
\* handled before the loss or not at all.
LoseLeadership ==
  /\ leader # Nobody /\ Disrupt("handover")
  /\ leader' = Nobody /\ HaltExecutor
  /\ UNCHANGED <<box, alive, lane, wake, online, active, clients, runs, applied>>

\* Nobody waits any more for the answer to c's call.
Uncalled(l, c) == IF l.busy /\ l.caller = c THEN [l EXCEPT !.caller = Nobody] ELSE l

\* What a context keeps in memory dies with it; the table does not.
Crash(c) ==
  /\ c \in alive /\ Disrupt("crash")
  /\ alive' = alive \ {c}
  /\ lane' = [h \in Contexts |-> IF h = c THEN Idle ELSE Uncalled(lane[h], c)]
  /\ promise' = [promise EXCEPT ![c] = [id \in Ids |-> "none"]]
  /\ inbox' = [inbox EXCEPT ![c] = <<>>]
  /\ call' = [d \in Contexts |-> IF d = c THEN NoCall
                                 ELSE IF lane[c].busy /\ lane[c].caller = d
                                   THEN [call[d] EXCEPT !.state = "sent"] ELSE call[d]]
  /\ IF leader = c THEN leader' = Nobody /\ HaltExecutor ELSE UNCHANGED <<leader, executor>>
  /\ UNCHANGED <<box, wake, online, active, runs, applied, used>>

Reopen(c) ==
  /\ c \notin alive /\ alive' = alive \cup {c}
  /\ UNCHANGED <<box, leader, lane, executor, wake, online, active, clients, runs,
                 applied, spent>>

----------------------------------------------------------------------------
(* Results: what a context does with the events the leader publishes *)

Settled(old, events) ==
  [id \in Ids |->
    IF old[id] = "pending" /\ \E e \in events : e.id = id
      THEN (CHOOSE e \in events : e.id = id).kind
      ELSE old[id]]

\* The host's own listeners run at once, the other contexts get a message.
Post(h) ==
  /\ lane[h].busy /\ lane' = [lane EXCEPT ![h] = Idle]
  /\ promise' = [promise EXCEPT ![h] = Settled(@, lane[h].events)]
  /\ inbox' = [c \in Contexts |-> IF c \in alive \ {h} /\ lane[h].events # {}
                                    THEN Append(inbox[c], lane[h].events) ELSE inbox[c]]
  /\ call' = [c \in Contexts |-> IF c = lane[h].caller THEN [call[c] EXCEPT !.state = "answered"]
                                 ELSE call[c]]
  /\ UNCHANGED <<box, alive, leader, executor, wake, online, active, runs, applied,
                 used, spent>>

DeliverResults(c) ==
  /\ inbox[c] # <<>>
  /\ promise' = [promise EXCEPT ![c] = Settled(@, Head(inbox[c]))]
  /\ inbox' = [inbox EXCEPT ![c] = Tail(@)]
  /\ UNCHANGED <<box, alive, leader, lane, executor, wake, online, active, call, runs,
                 applied, used, spent>>

----------------------------------------------------------------------------
(* Calls of the clients *)

Send(c, op, id) ==
  /\ c \in alive /\ call[c].state = "none"
  /\ call' = [call EXCEPT ![c] = [state |-> "sent", op |-> op, id |-> id]]
  /\ UNCHANGED <<box, alive, leader, lane, executor, wake, online, active, inbox, runs,
                 applied>>

\* The completion is registered before the service is called.
SendEnqueue(c, id) ==
  /\ id \notin used /\ used' = used \cup {id}
  /\ promise' = [promise EXCEPT ![c][id] = "pending"]
  /\ Send(c, "enqueue", id) /\ UNCHANGED spent

SendChange(c, op, id) ==
  /\ op # "enqueue" /\ id \in DOMAIN box /\ Disrupt("user")
  /\ Send(c, op, id) /\ UNCHANGED <<promise, used>>

\* The lane of the leader takes the call of c, and its change is persisted.
Handle(c, op, id, posted) ==
  /\ leader # Nobody /\ ~lane[leader].busy
  /\ call[c] = [state |-> "sent", op |-> op, id |-> id]
  /\ call' = [call EXCEPT ![c].state = "handled"]
  /\ lane' = [lane EXCEPT ![leader] = [busy |-> TRUE, events |-> posted, caller |-> c]]
  /\ UNCHANGED <<alive, leader, executor, online, active, promise, inbox, runs, applied,
                 used, spent>>

HandleEnqueue(c, id) ==
  /\ Handle(c, "enqueue", id, {})
  /\ IF id \in DOMAIN box
       THEN UNCHANGED <<box, wake>>
       ELSE /\ \E n \in {1} \cup {box[i].sequence + 1 : i \in DOMAIN box} :
                 IsNextSequence(box, n) /\ box' = Enqueued(box, id, n)
            /\ wake' = TRUE

HandleEdit(c, id) ==
  /\ Handle(c, "edit", id, {}) /\ Editable(box, id)
  /\ box' = Edited(box, id) /\ wake' = TRUE

\* Mutant: the removal is not announced to the client that awaits the completion.
HandleRemoveSilently(c, id) ==
  /\ Handle(c, "remove", id, {}) /\ Removable(box, id)
  /\ box' = Without(box, {id}) /\ wake' = (wake \/ id \in DOMAIN box)

HandleRemove(c, id) ==
  /\ Handle(c, "remove", id, {[id |-> id, kind |-> "removed"]}) /\ Removable(box, id)
  /\ box' = Without(box, {id}) /\ wake' = (wake \/ id \in DOMAIN box)

HandleRetry(c, id) ==
  /\ Handle(c, "retry", id, {}) /\ Retriable(box, id)
  /\ box' = Retried(box, id) /\ wake' = TRUE

Refused(op, id) ==
  \/ op = "edit" /\ ~Editable(box, id)
  \/ op = "remove" /\ ~Removable(box, id)
  \/ op = "retry" /\ ~Retriable(box, id)

HandleRefused(c, op, id) ==
  /\ Handle(c, op, id, {}) /\ Refused(op, id) /\ UNCHANGED <<box, wake>>

Return(c) ==
  /\ call[c].state = "answered" /\ call' = [call EXCEPT ![c] = NoCall]
  /\ UNCHANGED <<durable, surroundings, lane, executor, wake, promise, inbox, applied,
                 used, spent>>

\* The last attempt times out and the caller cancels: an enqueue rejects its
\* completion, whether or not the leader has handled it.
GiveUp(c) ==
  /\ call[c].state \in {"sent", "handled"} /\ c # leader /\ Disrupt("timeout")
  /\ call' = [call EXCEPT ![c] = NoCall]
  /\ lane' = [h \in Contexts |-> Uncalled(lane[h], c)]
  /\ promise' = IF call[c].op = "enqueue" /\ promise[c][call[c].id] = "pending"
                  THEN [promise EXCEPT ![c][call[c].id] = "timeout"] ELSE promise
  /\ UNCHANGED <<durable, surroundings, executor, wake, inbox, applied, used>>

----------------------------------------------------------------------------
(* The executor of the leader *)

LaneIsFree == leader # Nobody /\ ~lane[leader].busy

Publish(h, posted) == lane' = [lane EXCEPT ![h] = [busy |-> TRUE, events |-> posted,
                                                    caller |-> Nobody]]

EventsFor(ids, kind) == {[id |-> id, kind |-> kind] : id \in ids}

Recover ==
  /\ pc = "recovering" /\ LaneIsFree /\ pc' = "ready" /\ wake' = FALSE
  /\ \/ /\ \E id \in DOMAIN box : RecoverDiscards(box, id)
        /\ box' = Without(box, DOMAIN box)
        /\ Publish(leader, EventsFor(DOMAIN box, "discarded"))
     \/ /\ UNCHANGED lane
        /\ \/ \E id \in DOMAIN box : RecoverResumes(box, id) /\ box' = Resumed(box, id)
           \/ \E id \in DOMAIN box : RecoverInterrupts(box, id) /\ box' = MarkedInterrupted(box, id)
           \/ /\ \A id \in DOMAIN box : /\ ~RecoverDiscards(box, id) /\ ~RecoverResumes(box, id)
                                        /\ ~RecoverInterrupts(box, id)
              /\ UNCHANGED box
  /\ UNCHANGED <<surroundings, clients, claim, effect, outcome, runs, applied, spent>>

CanExecute == online /\ active

CheckConnection ==
  /\ pc = "ready" /\ pc' = IF CanExecute THEN "claiming" ELSE "asleep"
  /\ UNCHANGED <<durable, surroundings, clients, lane, claim, effect, outcome, wake,
                 applied, spent>>

ClaimHead(id) ==
  /\ pc = "claiming" /\ LaneIsFree /\ Claimable(box, id)
  /\ runs' = runs + 1 /\ box' = Claimed(box, id, runs')
  /\ claim' = [id |-> id, run |-> runs', attempts |-> box[id].attempts]
  /\ pc' = "running" /\ effect' = FALSE /\ wake' = TRUE
  /\ UNCHANGED <<surroundings, clients, lane, outcome, applied, spent>>

ClaimNothing ==
  /\ pc = "claiming" /\ LaneIsFree /\ (\A id \in DOMAIN box : ~Claimable(box, id))
  /\ pc' = "asking"
  /\ UNCHANGED <<durable, surroundings, clients, lane, claim, effect, outcome, wake,
                 applied, spent>>

AskNextRetry ==
  /\ pc = "asking" /\ LaneIsFree
  /\ pc' = IF \E id \in DOMAIN box : IsHead(box, id) /\ box[id].status = "queued"
             THEN IF \E id \in DOMAIN box : Claimable(box, id) THEN "ready" ELSE "backoff"
             ELSE "asleep"
  /\ UNCHANGED <<durable, surroundings, clients, lane, claim, effect, outcome, wake,
                 applied, spent>>

WakeUp ==
  /\ pc \in {"asleep", "backoff"} /\ wake
  /\ pc' = "ready" /\ wake' = FALSE
  /\ UNCHANGED <<durable, surroundings, clients, lane, claim, effect, outcome, applied,
                 spent>>

TimerFires ==
  /\ pc = "backoff" /\ (\E id \in DOMAIN box : Claimable(box, id))
  /\ pc' = "ready"
  /\ UNCHANGED <<durable, surroundings, clients, lane, claim, effect, outcome, wake,
                 applied, spent>>

\* The backend is external: it may apply an execution whose answer is lost.
Apply ==
  /\ pc = "running" /\ ~effect /\ effect' = TRUE
  /\ applied' = [applied EXCEPT ![claim.id] = @ + 1]
  /\ UNCHANGED <<durable, surroundings, clients, lane, pc, claim, outcome, wake, spent>>

End(how) == pc = "running" /\ pc' = "reporting" /\ outcome' = how

Succeed ==
  /\ effect /\ End("complete")
  /\ UNCHANGED <<durable, surroundings, clients, lane, claim, effect, wake, applied, spent>>

\* Mutant: the failure strategy is ignored.
GivenUpByDiscarding(retryable) == "discard"

\* Mutant: after the last failure the executor falls through to complete.
GivenUpAsComplete(retryable) == "complete"

GivenUp(retryable) == IF FailureStrategy = "discard-all" THEN "discard"
                      ELSE IF retryable THEN "fail" ELSE "reject"

\* Mutant: one retry too many.
RetryScheduledOnceMore == claim.attempts <= MaxRetries

RetryScheduled == claim.attempts < MaxRetries

ExecutionFails ==
  /\ End(IF RetryScheduled THEN "retry" ELSE GivenUp(TRUE))
  /\ UNCHANGED <<durable, surroundings, clients, lane, claim, effect, wake, applied, spent>>

BackendRefuses ==
  /\ ~effect /\ End(GivenUp(FALSE))
  /\ UNCHANGED <<durable, surroundings, clients, lane, claim, effect, wake, applied, spent>>

Unauthenticated ==
  /\ ~effect /\ End("unauthenticated") /\ Disrupt("outage")
  /\ active' \in BOOLEAN /\ wake' = (wake \/ active' # active)
  /\ UNCHANGED <<durable, alive, leader, online, clients, lane, claim, effect, applied>>

\* Mutant: every later action is rejected, but only the failed one is deleted.
ReportedDiscardingOne(h, c, how) ==
  \/ /\ how = "complete" /\ box' = Without(box, {c.id})
     /\ Publish(h, EventsFor({c.id}, "completed"))
  \/ /\ how = "discard" /\ box' = Without(box, {c.id})
     /\ Publish(h, EventsFor(DiscardedFrom(box, c.id), "discarded"))
  \/ how = "retry" /\ box' = Rescheduled(box, c.id, FALSE) /\ UNCHANGED lane

\* What the handlers complete, fail and discardAll do to the table and publish.
Reported(h, c, how) ==
  \/ /\ how = "complete" /\ box' = Without(box, {c.id})
     /\ Publish(h, EventsFor({c.id}, "completed"))
  \/ /\ how = "discard" /\ box' = Without(box, DiscardedFrom(box, c.id))
     /\ Publish(h, EventsFor(DiscardedFrom(box, c.id), "discarded"))
  \/ /\ how = "reject" /\ box' = Failed(box, c.id, FALSE)
     /\ Publish(h, EventsFor({c.id}, "failed"))
  \/ how = "fail" /\ box' = Failed(box, c.id, TRUE) /\ UNCHANGED lane
  \/ how = "retry" /\ box' = Rescheduled(box, c.id, FALSE) /\ UNCHANGED lane
  \/ how = "unauthenticated" /\ box' = Rescheduled(box, c.id, TRUE) /\ UNCHANGED lane

Report ==
  /\ pc = "reporting" /\ LaneIsFree /\ IsCurrent(box, claim.id, claim.run)
  /\ Reported(leader, claim, outcome) /\ wake' = TRUE
  /\ pc' = IF outcome \in {"complete", "retry"} THEN "ready" ELSE "asleep"
  /\ outcome' = "none" /\ effect' = FALSE /\ claim' = <<>>
  /\ UNCHANGED <<surroundings, clients, runs, applied, spent>>

----------------------------------------------------------------------------
(* The surroundings *)

BackoffElapses(id) ==
  /\ id \in DOMAIN box /\ ~box[id].due /\ box' = [box EXCEPT ![id].due = TRUE]
  /\ UNCHANGED <<surroundings, clients, lane, executor, wake, runs, applied, spent>>

GoOffline ==
  /\ online /\ online' = FALSE /\ wake' = TRUE /\ Disrupt("outage")
  /\ UNCHANGED <<durable, alive, leader, active, clients, lane, executor, applied>>

ComeOnline ==
  /\ ~online /\ online' = TRUE /\ wake' = TRUE
  /\ UNCHANGED <<durable, alive, leader, active, clients, lane, executor, applied, spent>>

\* Mutant: a renewed connection does not wake the executor.
SignInSilently ==
  /\ ~active /\ active' = TRUE
  /\ UNCHANGED <<durable, alive, leader, online, clients, lane, executor, wake, applied, spent>>

SignIn ==
  /\ ~active /\ active' = TRUE /\ wake' = TRUE
  /\ UNCHANGED <<durable, alive, leader, online, clients, lane, executor, applied, spent>>

ExecutorStep == Recover \/ CheckConnection \/ (\E id \in Ids : ClaimHead(id)) \/ ClaimNothing
                \/ AskNextRetry \/ WakeUp \/ TimerFires \/ Report

BackendAnswers == Succeed \/ ExecutionFails \/ BackendRefuses

HandleCall(c) ==
  \E id \in Ids : \/ HandleEnqueue(c, id) \/ HandleEdit(c, id) \/ HandleRemove(c, id)
                  \/ HandleRetry(c, id) \/ \E op \in Operations : HandleRefused(c, op, id)

ClientStep(c) ==
  \/ \E id \in Ids : SendEnqueue(c, id) \/ \E op \in Operations : SendChange(c, op, id)
  \/ HandleCall(c) \/ Return(c) \/ GiveUp(c) \/ DeliverResults(c)

Step ==
  \/ \E c \in Contexts : BecomeLeader(c) \/ Crash(c) \/ Reopen(c) \/ Post(c) \/ ClientStep(c)
  \/ LoseLeadership \/ ExecutorStep
  \/ Apply \/ BackendAnswers \/ Unauthenticated
  \/ \E id \in Ids : BackoffElapses(id)
  \/ GoOffline \/ ComeOnline \/ SignIn

Next == Step /\ UNCHANGED setting

Spec == Init /\ [][Next]_vars

\* The lock is granted to a waiting context, the lane and the executor run when they can,
\* the backend answers, a backoff ends, and outages are repaired.
Fairness ==
  /\ \A c \in Contexts : /\ WF_moving(BecomeLeader(c)) /\ WF_moving(Reopen(c)) /\ WF_moving(Post(c))
                         /\ SF_moving(HandleCall(c)) /\ WF_moving(Return(c))
                         /\ WF_moving(DeliverResults(c))
  /\ SF_moving(ExecutorStep) /\ WF_moving(BackendAnswers)
  /\ \A id \in Ids : WF_moving(BackoffElapses(id))
  /\ WF_moving(ComeOnline) /\ WF_moving(SignIn)

FairSpec == Spec /\ Fairness

----------------------------------------------------------------------------
(* Properties *)

\* The strict barrier: whatever is executing has the lowest sequence of the table, so no
\* action overtakes an earlier one that is still pending (claim, enqueue and recover).
ExecutingIsHead == \A id \in DOMAIN box : box[id].status = "executing" => IsHead(box, id)

\* While the leader executes an entry its claim stands: no edit, removal, retry or recovery
\* changes the entry under it, so complete, fail and discardAll never meet STALE_EXECUTION.
ClaimIsCurrent ==
  pc \in {"running", "reporting"} =>
    IsCurrent(box, claim.id, claim.run) /\ box[claim.id].attempts = claim.attempts

\* A completion is resolved only for an action that the backend applied.
ResolvedOnlyIfApplied ==
  \A c \in Contexts, id \in Ids : promise[c][id] = "completed" => applied[id] > 0

\* As long as no context crashes, a client that was told that its action is gone can rely on
\* it: the action is not pending any more and will not be executed.
RejectedStaysOut ==
  spent["crash"] = 0 =>
    \A c \in Contexts, id \in Ids :
      promise[c][id] \in {"completed", "removed", "discarded"} => id \notin DOMAIN box

Announced(c, id) ==
  \/ \E h \in Contexts : lane[h].busy /\ \E e \in lane[h].events : e.id = id
  \/ \E n \in DOMAIN inbox[c] : \E e \in inbox[c][n] : e.id = id

\* As long as no context crashes, no completion is forgotten: the action of a pending one is
\* being enqueued, is in the table, or its result is on the way to the client.
PendingIsTracked ==
  spent["crash"] = 0 =>
    \A c \in Contexts, id \in Ids :
      promise[c][id] = "pending" =>
        \/ id \in DOMAIN box \/ Announced(c, id)
        \/ call[c].state = "sent" /\ call[c].op = "enqueue" /\ call[c].id = id

TotalSpent == spent["crash"] + spent["handover"] + spent["timeout"] + spent["user"] + spent["outage"]

\* Retries end: without disruptions an action is executed at most MaxRetries + 1 times, and
\* every disruption buys at most one more round.
RunsBounded == runs <= (MaxRetries + 1) * Cardinality(used) + (MaxRetries + 2) * TotalSpent

\* What a client may rely on, through failures, retries and changes of leader: it is told the truth
\* about its actions, and nothing it waits for is forgotten.
ClientsCanRely == ResolvedOnlyIfApplied /\ RejectedStaysOut /\ PendingIsTracked

UserCall(op, id) ==
  \E c \in Contexts : /\ call[c] = [state |-> "sent", op |-> op, id |-> id]
                      /\ call'[c].state = "handled"

Lost == {id \in DOMAIN box \ DOMAIN box' : applied[id] = 0 /\ ~UserCall("remove", id)}

\* Under pause an accepted action leaves the table only after the backend applied it or when a
\* client removes it, whatever fails in between.
AcceptedWritesSurvive == [][FailureStrategy = "pause" => Lost = {}]_vars

\* Discarding never leaves a later action behind whose predecessor was thrown away.
DiscardTakesSuccessors ==
  [][\A id \in Lost, later \in DOMAIN box :
       box[later].sequence > box[id].sequence => later \notin DOMAIN box']_vars

\* No accepted write is lost silently, and none outlives a write it may depend on.
WritesAreKept == AcceptedWritesSurvive /\ DiscardTakesSuccessors

\* Refinement: the queue is the table in the order of its sequences.
Queue ==
  INSTANCE OutboxQueue WITH
    waiting <- DOMAIN box,
    before <- {pair \in (DOMAIN box) \X (DOMAIN box) :
                 box[pair[1]].sequence < box[pair[2]].sequence},
    executing <- {id \in DOMAIN box : box[id].status = "executing"}

\* The outbox implements the first-in first-out queue, through crashes and changes of leader.
ImplementsQueue == Queue!Spec

\* Once disruptions stop, the outbox drains, or (pausing) waits behind a failed head.
Drains ==
  <>[](\/ DOMAIN box = {}
       \/ FailureStrategy = "pause" /\ \E id \in DOMAIN box : IsHead(box, id) /\ box[id].status = "failed")

\* Under discard-all every completion settles, unless a crash takes its result away.
CompletionsSettle ==
  []<>(spent["crash"] > 0 \/ \A c \in Contexts, id \in Ids : promise[c][id] # "pending")
=============================================================================
