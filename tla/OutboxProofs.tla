---------------------------- MODULE OutboxProofs ----------------------------
(***************************************************************************)
(* Proofs about the outbox, for every number of contexts and actions, any  *)
(* retry limit, either strategy and any number of disruptions.             *)
(***************************************************************************)
EXTENDS Outbox, FiniteSetTheorems, TLAPS

(***************************************************************************)
(* The table: what the changes of the repository preserve.                 *)
(***************************************************************************)
LEMMA EntryKeepsTable ==
  ASSUME NEW t, IsTable(t), NEW id \in DOMAIN t, NEW e \in Entry
  PROVE  IsTable([t EXCEPT ![id] = e])
BY DEF IsTable

LEMMA ChangesKeepTable ==
  ASSUME NEW t, IsTable(t), NEW id \in DOMAIN t, NEW run \in Nat, NEW b \in BOOLEAN,
         NEW gone
  PROVE  /\ IsTable(Without(t, gone)) /\ IsTable(Edited(t, id)) /\ IsTable(Retried(t, id))
         /\ IsTable(Resumed(t, id)) /\ IsTable(MarkedInterrupted(t, id))
         /\ IsTable(Claimed(t, id, run)) /\ IsTable(Failed(t, id, b))
         /\ IsTable(Rescheduled(t, id, b)) /\ IsTable([t EXCEPT ![id].due = TRUE])
<1> USE DEF Statuses, NoRun
<1>1. IsTable(Without(t, gone))
  BY DEF Without, Restrict, IsTable
<1>2. t[id] \in Entry /\ t[id].attempts + 1 \in Nat
  BY DEF IsTable, Entry
<1>3. IsTable(Edited(t, id))
  BY <1>2, EntryKeepsTable DEF Edited, Entry
<1>4. IsTable(Retried(t, id))
  BY <1>2, EntryKeepsTable DEF Retried, Entry
<1>5. IsTable(Resumed(t, id))
  BY <1>2, EntryKeepsTable DEF Resumed, Entry
<1>6. IsTable(MarkedInterrupted(t, id))
  BY <1>2, EntryKeepsTable DEF MarkedInterrupted, Entry
<1>7. IsTable(Claimed(t, id, run))
  BY <1>2, EntryKeepsTable DEF Claimed, Entry
<1>8. IsTable(Failed(t, id, b))
  BY <1>2, EntryKeepsTable DEF Failed, Entry
<1>9. IsTable(Rescheduled(t, id, b))
  BY <1>2, EntryKeepsTable DEF Rescheduled, Entry
<1>10. IsTable([t EXCEPT ![id].due = TRUE])
  BY <1>2, EntryKeepsTable DEF Entry
<1> QED BY <1>1, <1>3, <1>4, <1>5, <1>6, <1>7, <1>8, <1>9, <1>10

LEMMA EnqueuedIsTable ==
  ASSUME NEW t, IsTable(t), NEW id \in Ids, NEW n, IsNextSequence(t, n)
  PROVE  IsTable(Enqueued(t, id, n)) /\ \A other \in DOMAIN t : t[other].sequence < n
BY DEF IsTable, Entry, Statuses, NoRun, IsNextSequence, Enqueued, NewEntry

LEMMA SettledType ==
  ASSUME NEW S, Endings \subseteq S, NEW old \in [Ids -> S], NEW events \in SUBSET Event
  PROVE  Settled(old, events) \in [Ids -> S]
<1>1. SUFFICES ASSUME NEW id \in Ids, \E e \in events : e.id = id
               PROVE  (CHOOSE e \in events : e.id = id).kind \in S
  BY DEF Settled
<1>2. (CHOOSE e \in events : e.id = id) \in events
  BY <1>1
<1> QED BY <1>2 DEF Event

(***************************************************************************)
(* Typing.  An answer is posted to a call that is still waiting for it, so *)
(* the type invariant needs to know which call every busy lane serves.     *)
(***************************************************************************)
Serves(h, c) == lane[h].busy /\ lane[h].caller = c

LanesServeCalls ==
  /\ \A h, c \in Contexts : Serves(h, c) => call[c].state = "handled"
  /\ \A h, g, c \in Contexts : Serves(h, c) /\ Serves(g, c) => h = g

Typed == StateOK /\ LanesServeCalls

LEMMA DisruptType ==
  ASSUME spent \in [Disruptions -> Nat], NEW d \in Disruptions, Disrupt(d)
  PROVE  spent' \in [Disruptions -> Nat]
BY DEF Disrupt

LEMMA CallStep ==
  ASSUME NEW m \in {NoCall} \cup Call, m.state # "none", NEW st \in {"sent", "handled", "answered"}
  PROVE  [m EXCEPT !.state = st] \in Call
BY DEF NoCall, Call

LEMMA InitTyped == Init => Typed
<1> SUFFICES ASSUME Init PROVE Typed
  OBVIOUS
<1>1. IsTable(box) /\ runs \in Nat /\ applied \in [Ids -> Nat]
  BY DEF Init, IsTable
<1>2. SurroundingsOK /\ ExecutorOK
  BY DEF Init, SurroundingsOK, ExecutorOK
<1>3. ClientsOK
  BY DEF Init, ClientsOK
<1>4. lane \in [Contexts -> {Idle} \cup Posts] /\ LanesServeCalls
  BY DEF Init, LanesServeCalls, Serves, Idle
<1> QED BY <1>1, <1>2, <1>3, <1>4 DEF Typed, StateOK

\* Leadership and the life of contexts.
LEMMA ContextsTyped ==
  ASSUME Typed, NEW c \in Contexts,
         BecomeLeader(c) \/ LoseLeadership \/ Crash(c) \/ Reopen(c)
  PROVE  Typed'
<1> USE DEF Typed, StateOK
<1>1. CASE BecomeLeader(c)
  BY <1>1 DEF BecomeLeader, SurroundingsOK, ExecutorOK, ClientsOK, clients, LanesServeCalls, Serves
<1>2. CASE LoseLeadership
  <2>1. spent' \in [Disruptions -> Nat]
    BY <1>2, DisruptType DEF LoseLeadership, SurroundingsOK, Disruptions
  <2>2. SurroundingsOK' /\ ExecutorOK'
    BY <1>2, <2>1 DEF LoseLeadership, HaltExecutor, SurroundingsOK, ExecutorOK
  <2> QED BY <1>2, <2>2 DEF LoseLeadership, ClientsOK, clients, LanesServeCalls, Serves
<1>3. CASE Crash(c)
  <2>5. spent' \in [Disruptions -> Nat]
    BY <1>3, DisruptType DEF Crash, SurroundingsOK, Disruptions
  <2>1. SurroundingsOK' /\ ExecutorOK'
    BY <1>3, <2>5 DEF Crash, HaltExecutor, SurroundingsOK, ExecutorOK, executor
  <2>2. lane' \in [Contexts -> {Idle} \cup Posts]
    BY <1>3 DEF Crash, Uncalled, Posts, Idle
  <2>3. ClientsOK'
    <3>1. ASSUME NEW d \in Contexts PROVE call'[d] \in {NoCall} \cup Call
      BY <1>3, CallStep DEF Crash, ClientsOK, LanesServeCalls, Serves
    <3>2. inbox' \in [Contexts -> Seq(SUBSET Event)]
      BY <1>3 DEF Crash, ClientsOK
    <3> QED BY <1>3, <3>1, <3>2 DEF Crash, ClientsOK
  <2>4. LanesServeCalls'
    BY <1>3, <2>2, NobodyAssumption DEF Crash, LanesServeCalls, Serves, Uncalled, Idle, Posts, ClientsOK, NoCall, Call
  <2> QED BY <1>3, <2>1, <2>2, <2>3, <2>4 DEF Crash
<1>4. CASE Reopen(c)
  BY <1>4 DEF Reopen, SurroundingsOK, ExecutorOK, ClientsOK, clients, executor, LanesServeCalls, Serves
<1> QED BY <1>1, <1>2, <1>3, <1>4

\* Posts and the delivery of results.
LEMMA ResultsTyped ==
  ASSUME Typed, NEW c \in Contexts, Post(c) \/ DeliverResults(c)
  PROVE  Typed'
<1> USE DEF Typed, StateOK
<1>1. ASSUME NEW events \in SUBSET Event
      PROVE  Settled(promise[c], events) \in [Ids -> {"none", "pending", "timeout"} \cup Endings]
  BY SettledType DEF ClientsOK
<1>2. CASE Post(c)
  <2>1. lane[c] \in Posts
    BY <1>2 DEF Post, Idle
  <2>2. lane' \in [Contexts -> {Idle} \cup Posts]
    BY <1>2 DEF Post
  <2>3. promise' \in [Contexts -> [Ids -> {"none", "pending", "timeout"} \cup Endings]]
    BY <1>2, <2>1, <1>1 DEF Post, ClientsOK, Posts
  <2>4. inbox' \in [Contexts -> Seq(SUBSET Event)]
    BY <1>2, <2>1 DEF Post, ClientsOK, Posts
  <2>5. ASSUME NEW d \in Contexts PROVE call'[d] \in {NoCall} \cup Call
    BY <1>2, CallStep DEF Post, ClientsOK, LanesServeCalls, Serves
  <2>6. LanesServeCalls'
    BY <1>2, <2>2 DEF Post, LanesServeCalls, Serves, Idle
  <2> QED BY <1>2, <2>2, <2>3, <2>4, <2>5, <2>6
          DEF Post, ClientsOK, SurroundingsOK, ExecutorOK, executor
<1>3. CASE DeliverResults(c)
  <2>1. Head(inbox[c]) \in SUBSET Event /\ Tail(inbox[c]) \in Seq(SUBSET Event)
    BY <1>3 DEF DeliverResults, ClientsOK
  <2>2. ClientsOK'
    BY <1>3, <2>1, <1>1 DEF DeliverResults, ClientsOK
  <2> QED BY <1>3, <2>2
          DEF DeliverResults, SurroundingsOK, ExecutorOK, executor, LanesServeCalls, Serves
<1> QED BY <1>2, <1>3

LEMMA UncalledType ==
  ASSUME Typed, NEW c \in Contexts
  PROVE  [h \in Contexts |-> Uncalled(lane[h], c)] \in [Contexts -> {Idle} \cup Posts]
<1>1. ASSUME NEW h \in Contexts PROVE Uncalled(lane[h], c) \in {Idle} \cup Posts
  <2>1. lane[h] = Idle \/ lane[h] \in Posts
    BY DEF Typed, StateOK
  <2>2. CASE lane[h] = Idle
    BY <2>2 DEF Uncalled, Idle
  <2>3. CASE lane[h] \in Posts
    BY <2>3 DEF Uncalled, Posts
  <2> QED BY <2>1, <2>2, <2>3
<1> QED BY <1>1

\* Calls of the clients, until the leader takes them.
LEMMA ClientsTyped ==
  ASSUME Typed, NEW c \in Contexts, NEW id \in Ids, NEW op \in Operations,
         SendEnqueue(c, id) \/ SendChange(c, op, id) \/ Return(c) \/ GiveUp(c)
  PROVE  Typed'
<1> USE DEF Typed, StateOK, surroundings, executor, durable
<1>1. CASE SendEnqueue(c, id)
  <2>1. ClientsOK'
    BY <1>1 DEF SendEnqueue, Send, ClientsOK, Call, Operations
  <2> QED BY <1>1, <2>1 DEF SendEnqueue, Send, SurroundingsOK, ExecutorOK, LanesServeCalls, Serves
<1>2. CASE SendChange(c, op, id)
  <2>1. spent' \in [Disruptions -> Nat]
    BY <1>2, DisruptType DEF SendChange, SurroundingsOK, Disruptions
  <2>2. ClientsOK'
    BY <1>2 DEF SendChange, Send, ClientsOK, Call
  <2> QED BY <1>2, <2>1, <2>2 DEF SendChange, Send, SurroundingsOK, ExecutorOK, LanesServeCalls, Serves
<1>3. CASE Return(c)
  <2>1. ClientsOK'
    BY <1>3 DEF Return, ClientsOK
  <2> QED BY <1>3, <2>1 DEF Return, SurroundingsOK, ExecutorOK, LanesServeCalls, Serves
<1>4. CASE GiveUp(c)
  <2>1. spent' \in [Disruptions -> Nat]
    BY <1>4, DisruptType DEF GiveUp, SurroundingsOK, Disruptions
  <2>2. call[c] \in Call
    BY <1>4 DEF GiveUp, ClientsOK, NoCall
  <2>3. ClientsOK'
    BY <1>4, <2>2 DEF GiveUp, ClientsOK, Call
  <2>4. lane' \in [Contexts -> {Idle} \cup Posts]
    BY <1>4, UncalledType DEF GiveUp
  <2>5. LanesServeCalls'
    BY <1>4, <2>4, NobodyAssumption DEF GiveUp, LanesServeCalls, Serves, Uncalled, Idle, Posts, ClientsOK
  <2> QED BY <1>4, <2>1, <2>3, <2>4, <2>5 DEF GiveUp, SurroundingsOK, ExecutorOK
<1> QED BY <1>1, <1>2, <1>3, <1>4

\* A handler takes the call of a client: what it does to lane and call, whatever it changes.
LEMMA HandleTyped ==
  ASSUME Typed, NEW c \in Contexts, NEW id \in Ids, NEW op \in Operations,
         NEW posted \in SUBSET Event, Handle(c, op, id, posted),
         IsTable(box'), wake' \in BOOLEAN
  PROVE  Typed'
<1> USE DEF Typed, StateOK, Handle
<1>1. leader \in Contexts
  BY DEF SurroundingsOK
<1>2. lane' \in [Contexts -> {Idle} \cup Posts]
  BY <1>1 DEF Posts
<1>3. ClientsOK'
  BY CallStep DEF ClientsOK
<1>4. LanesServeCalls'
  <2>1. ASSUME NEW h \in Contexts, NEW d \in Contexts, Serves(h, d)'
        PROVE  \/ Serves(h, d) /\ h # leader
               \/ h = leader /\ d = c
    BY <2>1, <1>1 DEF Serves
  <2>2. ASSUME NEW h \in Contexts PROVE ~Serves(h, c)
    BY DEF LanesServeCalls
  <2> QED BY <2>1, <2>2 DEF LanesServeCalls, ClientsOK
<1> QED BY <1>2, <1>3, <1>4 DEF SurroundingsOK, ExecutorOK, executor

LEMMA HandlersTyped ==
  ASSUME Typed, NEW c \in Contexts, HandleCall(c)
  PROVE  Typed'
<1> USE DEF Typed, StateOK
<1>1. PICK id \in Ids : \/ HandleEnqueue(c, id) \/ HandleEdit(c, id) \/ HandleRemove(c, id)
                        \/ HandleRetry(c, id) \/ \E op \in Operations : HandleRefused(c, op, id)
  BY DEF HandleCall
<1>2. wake \in BOOLEAN /\ {} \in SUBSET Event /\ {[id |-> id, kind |-> "removed"]} \in SUBSET Event
  BY DEF ExecutorOK, Event, Endings
<1>3. CASE HandleEnqueue(c, id)
  <2>1. CASE id \in DOMAIN box
    BY <1>3, <1>2, <2>1, HandleTyped DEF HandleEnqueue, Operations
  <2>2. CASE id \notin DOMAIN box
    <3>1. PICK n : IsNextSequence(box, n) /\ box' = Enqueued(box, id, n) /\ wake' = TRUE
      BY <1>3, <2>2 DEF HandleEnqueue
    <3> QED BY <1>3, <1>2, <3>1, EnqueuedIsTable, HandleTyped DEF HandleEnqueue, Operations
  <2> QED BY <2>1, <2>2
<1>4. CASE HandleEdit(c, id)
  <2>1. IsTable(box')
    BY <1>4, ChangesKeepTable DEF HandleEdit, Editable
  <2> QED BY <1>4, <1>2, <2>1, HandleTyped DEF HandleEdit, Operations
<1>5. CASE HandleRemove(c, id)
  <2>1. IsTable(box') /\ wake' \in BOOLEAN
    BY <1>5, <1>2 DEF HandleRemove, Without, Restrict, IsTable
  <2> QED BY <1>5, <1>2, <2>1, HandleTyped DEF HandleRemove, Operations
<1>6. CASE HandleRetry(c, id)
  <2>1. IsTable(box')
    BY <1>6, ChangesKeepTable DEF HandleRetry, Retriable
  <2> QED BY <1>6, <1>2, <2>1, HandleTyped DEF HandleRetry, Operations
<1>7. CASE \E op \in Operations : HandleRefused(c, op, id)
  BY <1>7, <1>2, HandleTyped DEF HandleRefused
<1> QED BY <1>1, <1>3, <1>4, <1>5, <1>6, <1>7

\* The executor: its recovery, its claims and its reports change the table.
LEMMA PublishType ==
  ASSUME lane \in [Contexts -> {Idle} \cup Posts], NEW h \in Contexts,
         NEW posted \in SUBSET Event, Publish(h, posted)
  PROVE  lane' \in [Contexts -> {Idle} \cup Posts]
BY DEF Publish, Posts

LEMMA EventsForType ==
  ASSUME NEW ids \in SUBSET Ids, NEW kind \in Endings
  PROVE  EventsFor(ids, kind) \in SUBSET Event
BY DEF EventsFor, Event

LEMMA LanesKept ==
  ASSUME LanesServeCalls, lane \in [Contexts -> {Idle} \cup Posts], UNCHANGED call,
         \/ UNCHANGED lane
         \/ \E h \in Contexts, posted \in SUBSET Event : Publish(h, posted)
  PROVE  LanesServeCalls'
BY NobodyAssumption DEF LanesServeCalls, Serves, Publish

LEMMA RecoverTyped == ASSUME Typed, Recover PROVE Typed'
<1> USE DEF Typed, StateOK, Recover
<1>1. leader \in Contexts
  BY DEF LaneIsFree, SurroundingsOK
<1>2. IsTable(box')
  BY ChangesKeepTable DEF RecoverDiscards, Without, Restrict, IsTable
<1>3. EventsFor(DOMAIN box, "discarded") \in SUBSET Event
  BY EventsForType DEF IsTable, Endings
<1>4. lane' \in [Contexts -> {Idle} \cup Posts] /\ LanesServeCalls'
  BY <1>1, <1>3, PublishType, LanesKept DEF clients
<1> QED BY <1>2, <1>4 DEF SurroundingsOK, surroundings, ExecutorOK, ClientsOK, clients

LEMMA ReportTyped == ASSUME Typed, Report PROVE Typed'
<1> USE DEF Typed, StateOK, Report
<1>1. leader \in Contexts
  BY DEF LaneIsFree, SurroundingsOK
<1>2. claim.id \in DOMAIN box /\ claim.id \in Ids
  BY DEF IsCurrent, IsTable
<1>3. DiscardedFrom(box, claim.id) \in SUBSET Ids /\ {claim.id} \in SUBSET Ids
  BY <1>2 DEF DiscardedFrom, IsTable
<1>4. /\ EventsFor(DiscardedFrom(box, claim.id), "discarded") \in SUBSET Event
      /\ EventsFor({claim.id}, "completed") \in SUBSET Event
      /\ EventsFor({claim.id}, "failed") \in SUBSET Event
  BY <1>3, EventsForType DEF Endings
<1>5. IsTable(box')
  BY <1>2, ChangesKeepTable DEF Reported, Without, Restrict, IsTable
<1>6. lane' \in [Contexts -> {Idle} \cup Posts] /\ LanesServeCalls'
  BY <1>1, <1>4, PublishType, LanesKept DEF Reported, clients
<1> QED BY <1>5, <1>6 DEF SurroundingsOK, surroundings, ExecutorOK, ClientsOK, clients

LEMMA ExecutorTyped ==
  ASSUME Typed, ExecutorStep
  PROVE  Typed'
<1> USE DEF Typed, StateOK, durable, surroundings, clients, SurroundingsOK, ClientsOK
<1>1. CASE Recover
  BY <1>1, RecoverTyped
<1>2. CASE Report
  BY <1>2, ReportTyped
<1>3. CASE CheckConnection \/ ClaimNothing \/ AskNextRetry \/ WakeUp \/ TimerFires
  <2>1. UNCHANGED <<durable, surroundings, clients, lane, claim, effect, outcome, applied, spent>>
    BY <1>3 DEF CheckConnection, ClaimNothing, AskNextRetry, WakeUp, TimerFires
  <2>2. ExecutorOK'
    BY <1>3, <2>1 DEF CheckConnection, ClaimNothing, AskNextRetry, WakeUp, TimerFires, ExecutorOK
  <2> QED BY <2>1, <2>2, LanesKept
<1>4. ASSUME NEW id \in Ids, ClaimHead(id) PROVE Typed'
  <2>1. runs' \in Nat /\ id \in DOMAIN box /\ box' = Claimed(box, id, runs')
    BY <1>4 DEF ClaimHead, Claimable, IsHead
  <2>4. IsTable(box')
    BY <2>1, ChangesKeepTable
  <2>2. claim' \in Claim
    BY <1>4, <2>1 DEF ClaimHead, Claim, Claimable, IsHead, IsTable, Entry
  <2>3. ExecutorOK'
    BY <1>4, <2>2 DEF ClaimHead, ExecutorOK
  <2> QED BY <1>4, <2>1, <2>3, <2>4, LanesKept DEF ClaimHead
<1> QED BY <1>1, <1>2, <1>3, <1>4 DEF ExecutorStep

\* The backend and the surroundings.
LEMMA SurroundingsTyped ==
  ASSUME Typed, \/ Apply \/ BackendAnswers \/ Unauthenticated
                \/ \E id \in Ids : BackoffElapses(id)
                \/ GoOffline \/ ComeOnline \/ SignIn
  PROVE  Typed'
<1> USE DEF Typed, StateOK, durable, surroundings, clients, executor, SurroundingsOK, ClientsOK
<1>1. CASE Apply
  <2>1. claim.id \in Ids
    BY <1>1 DEF Apply, ExecutorOK, Claim
  <2> QED BY <1>1, <2>1, LanesKept DEF Apply, ExecutorOK
<1>2. CASE BackendAnswers
  BY <1>2, LanesKept
     DEF BackendAnswers, Succeed, ExecutionFails, BackendRefuses, End, GivenUp, ExecutorOK, Outcomes
<1>3. CASE Unauthenticated
  <2>1. spent' \in [Disruptions -> Nat]
    BY <1>3, DisruptType DEF Unauthenticated, Disruptions
  <2> QED BY <1>3, <2>1, LanesKept DEF Unauthenticated, End, ExecutorOK, Outcomes
<1>4. ASSUME NEW id \in Ids, BackoffElapses(id) PROVE Typed'
  <2>1. IsTable(box')
    BY <1>4, ChangesKeepTable DEF BackoffElapses
  <2> QED BY <1>4, <2>1, LanesKept DEF BackoffElapses, ExecutorOK
<1>5. CASE GoOffline
  <2>1. spent' \in [Disruptions -> Nat]
    BY <1>5, DisruptType DEF GoOffline, Disruptions
  <2> QED BY <1>5, <2>1, LanesKept DEF GoOffline, ExecutorOK
<1>6. CASE ComeOnline \/ SignIn
  BY <1>6, LanesKept DEF ComeOnline, SignIn, ExecutorOK
<1> QED BY <1>1, <1>2, <1>3, <1>4, <1>5, <1>6

LEMMA NextTyped == Typed /\ [Next]_vars => Typed'
<1> SUFFICES ASSUME Typed, [Next]_vars PROVE Typed'
  OBVIOUS
<1>1. CASE UNCHANGED vars
  BY <1>1 DEF vars, moving, Typed, StateOK, SurroundingsOK, ExecutorOK, ClientsOK, LanesServeCalls, Serves
<1>2. ASSUME NEW c \in Contexts,
             BecomeLeader(c) \/ Crash(c) \/ Reopen(c) \/ Post(c) \/ ClientStep(c)
      PROVE  Typed'
  <2>1. CASE BecomeLeader(c) \/ Crash(c) \/ Reopen(c)
    BY <2>1, ContextsTyped
  <2>2. CASE Post(c) \/ DeliverResults(c)
    BY <2>2, ResultsTyped
  <2>3. CASE HandleCall(c)
    BY <2>3, HandlersTyped
  <2>4. ASSUME NEW id \in Ids, NEW op \in Operations,
               SendEnqueue(c, id) \/ SendChange(c, op, id) \/ Return(c) \/ GiveUp(c)
        PROVE  Typed'
    BY <2>4, ClientsTyped
  <2>5. CASE Return(c) \/ GiveUp(c)
    <3>1. call[c] \in Call
      BY <2>5 DEF Return, GiveUp, Typed, StateOK, ClientsOK, NoCall
    <3> QED BY <2>4, <2>5, <3>1 DEF Call
  <2>6. "enqueue" \in Operations
    BY DEF Operations
  <2> QED BY <1>2, <2>1, <2>2, <2>3, <2>4, <2>5, <2>6 DEF ClientStep
<1>3. CASE LoseLeadership
  <2>1. \E c : c \in Contexts
    BY <1>3 DEF LoseLeadership, Typed, StateOK, SurroundingsOK
  <2> QED BY <1>3, <2>1, ContextsTyped
<1>4. CASE ExecutorStep
  BY <1>4, ExecutorTyped
<1> QED BY <1>1, <1>2, <1>3, <1>4, SurroundingsTyped DEF Next, Step

\* Every reachable state is well typed.
THEOREM TypeCorrect == Spec => []TypeOK
<1>1. Init => setting \in Settings
  BY DEF Init
<1>2. setting \in Settings /\ [Next]_vars => (setting \in Settings)'
  BY DEF Next, vars
<1>3. setting \in Settings /\ Typed => TypeOK
  BY DEF Typed, TypeOK
<1> QED BY <1>1, <1>2, <1>3, InitTyped, NextTyped, PTL DEF Spec

(***************************************************************************)
(* The strict barrier and the standing claim.  Both say something about    *)
(* the table only, so the steps that leave it and the executor's claim     *)
(* alone keep them; each change of the table gets a step of its own.       *)
(***************************************************************************)
Claims == ExecutingIsHead /\ ClaimIsCurrent

LEMMA ClaimsKept ==
  ASSUME Claims, UNCHANGED <<box, claim>>,
         pc' \in {"running", "reporting"} => pc \in {"running", "reporting"}
  PROVE  Claims'
BY DEF Claims, ExecutingIsHead, IsHead, ClaimIsCurrent, IsCurrent

\* A change that drops entries or stops them from executing, without moving any.
Loosens(t, u) ==
  /\ DOMAIN u \subseteq DOMAIN t
  /\ \A id \in DOMAIN u : /\ u[id].sequence = t[id].sequence
                          /\ u[id].status = "executing" => t[id].status = "executing"

LEMMA LooseningKeepsBarrier ==
  ASSUME ExecutingIsHead, Loosens(box, box')
  PROVE  ExecutingIsHead'
BY DEF ExecutingIsHead, IsHead, Loosens

LEMMA ReportsLoosen ==
  ASSUME NEW t, IsTable(t), NEW id \in DOMAIN t, NEW b, NEW gone
  PROVE  /\ Loosens(t, Without(t, gone)) /\ Loosens(t, Resumed(t, id))
         /\ Loosens(t, MarkedInterrupted(t, id)) /\ Loosens(t, Failed(t, id, b))
         /\ Loosens(t, Rescheduled(t, id, b))
<1> USE DEF Loosens, IsTable, Entry
<1>1. Loosens(t, Without(t, gone))
  BY DEF Without, Restrict
<1>2. Loosens(t, Resumed(t, id)) /\ Loosens(t, MarkedInterrupted(t, id))
  BY DEF Resumed, MarkedInterrupted
<1>3. Loosens(t, Failed(t, id, b))
  BY DEF Failed
<1>4. Loosens(t, Rescheduled(t, id, b))
  BY DEF Rescheduled
<1> QED BY <1>1, <1>2, <1>3, <1>4

\* Enqueueing, editing, removing and retrying leave executing entries at the head and alone.
LEMMA HandlersKeepClaims ==
  ASSUME Typed, Claims, NEW c \in Contexts, HandleCall(c)
  PROVE  Claims'
<1> USE DEF Claims, ExecutingIsHead, IsHead, ClaimIsCurrent, IsCurrent
<1>1. PICK id \in Ids : \/ HandleEnqueue(c, id) \/ HandleEdit(c, id) \/ HandleRemove(c, id)
                        \/ HandleRetry(c, id) \/ \E op \in Operations : HandleRefused(c, op, id)
  BY DEF HandleCall
<1>2. /\ UNCHANGED <<pc, claim>>
      /\ pc \in {"running", "reporting"} => claim.id \in DOMAIN box
      /\ IsTable(box)
  BY <1>1 DEF HandleEnqueue, HandleEdit, HandleRemove, HandleRetry, HandleRefused, Handle, executor,
     Typed, StateOK
<1>3. CASE HandleEnqueue(c, id)
  <2>1. CASE id \in DOMAIN box
    BY <1>2, <1>3, <2>1 DEF HandleEnqueue
  <2>2. CASE id \notin DOMAIN box
    <3>1. PICK n : IsNextSequence(box, n) /\ box' = Enqueued(box, id, n)
      BY <1>3, <2>2 DEF HandleEnqueue
    <3>2. \A other \in DOMAIN box : box[other].sequence < n /\ box[other].sequence \in Nat
      BY <1>1, <1>2, <3>1, EnqueuedIsTable DEF IsTable, Entry
    <3>3. /\ DOMAIN box' = DOMAIN box \cup {id} /\ box'[id] = NewEntry(n)
          /\ \A other \in DOMAIN box : box'[other] = box[other]
      BY <3>1, <2>2 DEF Enqueued
    <3>4. n \in Nat
      BY <1>2, <3>1 DEF IsNextSequence, IsTable, Entry
    <3> QED BY <1>2, <2>2, <3>2, <3>3, <3>4 DEF NewEntry
  <2> QED BY <2>1, <2>2
<1>4. CASE HandleEdit(c, id)
  BY <1>2, <1>4 DEF HandleEdit, Editable, Edited, IsTable, Entry
<1>5. CASE HandleRemove(c, id)
  BY <1>2, <1>5 DEF HandleRemove, Removable, Without, Restrict
<1>6. CASE HandleRetry(c, id)
  BY <1>2, <1>6 DEF HandleRetry, Retriable, Retried, IsTable, Entry
<1>7. CASE \E op \in Operations : HandleRefused(c, op, id)
  BY <1>2, <1>7 DEF HandleRefused
<1> QED BY <1>1, <1>3, <1>4, <1>5, <1>6, <1>7

\* Recovering, claiming and reporting: the claimed entry is the head, and no claim outlives
\* its report.
LEMMA ExecutorKeepsClaims ==
  ASSUME Typed, Claims, ExecutorStep
  PROVE  Claims'
<1> USE DEF Claims, ExecutingIsHead, IsHead, ClaimIsCurrent, IsCurrent
<1>1. IsTable(box) /\ ExecutorOK
  BY DEF Typed, StateOK
<1>2. CASE Recover
  <2>1. pc' \notin {"running", "reporting"}
    BY <1>2 DEF Recover
  <2>2. Loosens(box, box')
    <3>1. CASE UNCHANGED box
      BY <3>1 DEF Loosens
    <3>2. CASE \E id \in DOMAIN box : box' \in {Without(box, DOMAIN box), Resumed(box, id),
                                              MarkedInterrupted(box, id)}
      BY <1>1, <3>2, ReportsLoosen
    <3> QED BY <1>2, <3>1, <3>2 DEF Recover
  <2> QED BY <2>1, <2>2, LooseningKeepsBarrier
<1>3. CASE CheckConnection \/ ClaimNothing \/ AskNextRetry \/ WakeUp \/ TimerFires
  BY <1>3, ClaimsKept DEF CheckConnection, ClaimNothing, AskNextRetry, WakeUp, TimerFires, durable
<1>4. ASSUME NEW id \in Ids, ClaimHead(id) PROVE Claims'
  <2>1. id \in DOMAIN box /\ box[id] \in Entry
    BY <1>1, <1>4 DEF ClaimHead, Claimable, IsTable
  <2>2. /\ DOMAIN box' = DOMAIN box
        /\ \A other \in DOMAIN box : box'[other].sequence = box[other].sequence
        /\ \A other \in DOMAIN box \ {id} : box'[other] = box[other]
        /\ box'[id].status = "executing" /\ box'[id].run = runs'
        /\ box'[id].attempts = box[id].attempts
    BY <1>4, <2>1 DEF ClaimHead, Claimed, Entry
  <2>3. ExecutingIsHead'
    BY <1>4, <2>2 DEF ClaimHead, Claimable
  <2>4. claim'.id = id /\ claim'.run = runs' /\ claim'.attempts = box[id].attempts
    BY <1>4 DEF ClaimHead
  <2>5. ClaimIsCurrent'
    BY <2>1, <2>2, <2>4
  <2> QED BY <2>3, <2>5
<1>5. CASE Report
  <2>1. pc' \notin {"running", "reporting"}
    BY <1>5 DEF Report
  <2>2. ExecutingIsHead'
    BY <1>1, <1>5, ReportsLoosen, LooseningKeepsBarrier DEF Report, Reported
  <2> QED BY <2>1, <2>2
<1> QED BY <1>2, <1>3, <1>4, <1>5 DEF ExecutorStep

LEMMA NextKeepsClaims == Typed /\ Claims /\ [Next]_vars => Claims'
<1> SUFFICES ASSUME Typed, Claims, [Next]_vars PROVE Claims'
  OBVIOUS
<1> USE DEF durable, executor
<1>1. CASE UNCHANGED vars
  BY <1>1, ClaimsKept DEF vars, moving
<1>2. ASSUME NEW c \in Contexts, BecomeLeader(c) \/ Crash(c) \/ Reopen(c) \/ Post(c)
      PROVE  Claims'
  BY <1>2, ClaimsKept DEF BecomeLeader, Crash, HaltExecutor, Reopen, Post, Claims, ExecutingIsHead,
     IsHead, ClaimIsCurrent
<1>3. ASSUME NEW c \in Contexts, ClientStep(c) PROVE Claims'
  BY <1>3, HandlersKeepClaims, ClaimsKept
     DEF ClientStep, SendEnqueue, SendChange, Send, Return, GiveUp, DeliverResults
<1>4. CASE LoseLeadership
  BY <1>4 DEF LoseLeadership, HaltExecutor, Claims, ExecutingIsHead, IsHead, ClaimIsCurrent
<1>5. CASE ExecutorStep
  BY <1>5, ExecutorKeepsClaims
<1>6. CASE Apply \/ BackendAnswers \/ Unauthenticated
  BY <1>6, ClaimsKept
     DEF Apply, BackendAnswers, Succeed, ExecutionFails, BackendRefuses, Unauthenticated, End
<1>7. ASSUME NEW id \in Ids, BackoffElapses(id) PROVE Claims'
  BY <1>7 DEF BackoffElapses, Typed, StateOK, IsTable, Entry, Claims, ExecutingIsHead, IsHead,
     ClaimIsCurrent, IsCurrent
<1>8. CASE GoOffline \/ ComeOnline \/ SignIn
  BY <1>8, ClaimsKept DEF GoOffline, ComeOnline, SignIn
<1> QED BY <1>1, <1>2, <1>3, <1>4, <1>5, <1>6, <1>7, <1>8 DEF Next, Step

\* The strict barrier: the entry being executed has the lowest sequence of the table, through
\* edits, removals, retries, crashes and changes of leader.
THEOREM StrictBarrier == Spec => []ExecutingIsHead
<1>1. Init => Claims
  BY DEF Init, Claims, ExecutingIsHead, ClaimIsCurrent
<1>2. Claims => ExecutingIsHead
  BY DEF Claims
<1> QED BY <1>1, <1>2, InitTyped, NextTyped, NextKeepsClaims, PTL DEF Spec

\* The claim of a running executor stands until it reports: it never meets STALE_EXECUTION.
THEOREM ClaimStands == Spec => []ClaimIsCurrent
<1>1. Init => Claims
  BY DEF Init, Claims, ExecutingIsHead, ClaimIsCurrent
<1>2. Claims => ClaimIsCurrent
  BY DEF Claims
<1> QED BY <1>1, <1>2, InitTyped, NextTyped, NextKeepsClaims, PTL DEF Spec

(***************************************************************************)
(* The outbox implements the queue.  The mapping reads the table only: an  *)
(* entry waits while it is in the table, before those of higher sequence.  *)
(* A change of the table is one of three: it adds the last entry, it drops *)
(* some, or it changes what the entries say and at most who executes.      *)
(***************************************************************************)
Waiting == DOMAIN box
Before == {pair \in (DOMAIN box) \X (DOMAIN box) : box[pair[1]].sequence < box[pair[2]].sequence}
Executing == {id \in DOMAIN box : box[id].status = "executing"}

QueueStep == [Queue!Next]_<<Waiting, Before, Executing>>

Distinct == \A a, b \in DOMAIN box : box[a].sequence = box[b].sequence => a = b

Barrier == IsTable(box) /\ Distinct /\ ExecutingIsHead /\ ClaimIsCurrent

SamePlaces ==
  DOMAIN box' = DOMAIN box /\ \A id \in DOMAIN box : box'[id].sequence = box[id].sequence

LEMMA PlacesKept ==
  ASSUME SamePlaces
  PROVE  Waiting' = Waiting /\ Before' = Before /\ (Distinct => Distinct')
<1>1. Waiting' = Waiting
  BY DEF SamePlaces, Waiting
<1>2. Before' = Before
  BY DEF SamePlaces, Before
<1> QED BY <1>1, <1>2 DEF SamePlaces, Distinct

LEMMA EntriesLeave ==
  ASSUME NEW gone, box' = Without(box, gone)
  PROVE  /\ Waiting' = Waiting \ gone /\ Executing' = Executing \ gone
         /\ Before' = Before \cap (Waiting' \X Waiting')
         /\ Distinct => Distinct'
<1>1. DOMAIN box' = DOMAIN box \ gone /\ \A id \in DOMAIN box' : box'[id] = box[id]
  BY DEF Without, Restrict
<1>2. Waiting' = Waiting \ gone /\ Executing' = Executing \ gone
  BY <1>1 DEF Waiting, Executing
<1>3. Before' = Before \cap (Waiting' \X Waiting')
  BY <1>1 DEF Before, Waiting
<1> QED BY <1>1, <1>2, <1>3 DEF Distinct

LEMMA HeadIsFirst ==
  ASSUME Barrier, NEW id, IsHead(box, id)
  PROVE  Queue!First(id)
<1>1. \A other \in DOMAIN box : box[other].sequence \in Nat
  BY DEF Barrier, IsTable, Entry
<1>2. id \in DOMAIN box
  BY DEF IsHead
<1>3. ASSUME NEW other \in DOMAIN box \ {id}
      PROVE  box[id].sequence < box[other].sequence
  BY <1>1, <1>2 DEF Barrier, Distinct, IsHead
<1> QED BY <1>2, <1>3 DEF Queue!First

LEMMA OneExecutes ==
  ASSUME Barrier, NEW id \in Executing
  PROVE  Executing = {id} /\ IsHead(box, id)
<1>1. \A other \in DOMAIN box : box[other].sequence \in Nat
  BY DEF Barrier, IsTable, Entry
<1> QED BY <1>1 DEF Barrier, Distinct, ExecutingIsHead, IsHead, Executing

LEMMA HandlersAreQueueSteps ==
  ASSUME Barrier, NEW c \in Contexts, HandleCall(c)
  PROVE  QueueStep /\ Distinct'
<1>1. PICK id \in Ids : \/ HandleEnqueue(c, id) \/ HandleEdit(c, id) \/ HandleRemove(c, id)
                        \/ HandleRetry(c, id) \/ \E op \in Operations : HandleRefused(c, op, id)
  BY DEF HandleCall
<1>2. CASE HandleEnqueue(c, id) /\ id \notin DOMAIN box
  <2>1. PICK n : IsNextSequence(box, n) /\ box' = Enqueued(box, id, n)
    BY <1>2 DEF HandleEnqueue
  <2>2. \A other \in DOMAIN box : box[other].sequence < n /\ box[other].sequence \in Nat
    BY <2>1, EnqueuedIsTable DEF Barrier, IsTable, Entry
  <2>3. n \in Nat
    BY <2>1, <2>2 DEF IsNextSequence
  <2>4. /\ DOMAIN box' = DOMAIN box \cup {id}
        /\ \A other \in DOMAIN box : box'[other] = box[other]
        /\ box'[id].sequence = n /\ box'[id].status = "queued"
    BY <1>2, <2>1 DEF Enqueued, NewEntry
  <2>5. Distinct'
    BY <2>2, <2>3, <2>4 DEF Barrier, Distinct
  <2>6. Waiting' = Waiting \cup {id} /\ Executing' = Executing
    BY <1>2, <2>4 DEF Waiting, Executing
  <2>7. Before' = Before \cup (Waiting \X {id})
    BY <1>2, <2>2, <2>3, <2>4 DEF Before, Waiting
  <2>8. Queue!Accept(id)
    BY <1>2, <2>6, <2>7 DEF Queue!Accept, Waiting, Before, Executing
  <2> QED BY <2>5, <2>8 DEF QueueStep, Queue!Next
<1>3. CASE HandleEdit(c, id) \/ HandleRetry(c, id)
  <2>1. id \in DOMAIN box /\ box[id] \in Entry /\ box[id].status # "executing"
    BY <1>3 DEF HandleEdit, Editable, HandleRetry, Retriable, Barrier, IsTable
  <2>2. /\ SamePlaces /\ box'[id].status = "queued"
        /\ \A other \in DOMAIN box \ {id} : box'[other] = box[other]
    <3>1. CASE HandleEdit(c, id)
      BY <3>1, <2>1 DEF HandleEdit, Edited, SamePlaces, Entry
    <3>2. CASE HandleRetry(c, id)
      BY <3>2, <2>1 DEF HandleRetry, Retried, SamePlaces, Entry
    <3> QED BY <1>3, <3>1, <3>2
  <2>3. Executing' = Executing
    BY <2>1, <2>2 DEF Executing, SamePlaces
  <2> QED BY <2>2, <2>3, PlacesKept DEF QueueStep, Barrier
<1>4. CASE HandleRemove(c, id)
  <2>1. box' = Without(box, {id}) /\ id \notin Executing
    BY <1>4 DEF HandleRemove, Removable, Executing
  <2>2. /\ Waiting' = Waiting \ {id} /\ Executing' = Executing
        /\ Before' = Before \cap (Waiting' \X Waiting') /\ Distinct'
    BY <2>1, EntriesLeave DEF Barrier
  <2>3. CASE id \in Waiting
    <3>1. Queue!Withdraw(id)
      BY <2>1, <2>2, <2>3 DEF Queue!Withdraw, Queue!Leave, Waiting, Before, Executing
    <3> QED BY <2>2, <3>1 DEF QueueStep, Queue!Next
  <2>4. CASE id \notin Waiting
    <3>1. Before \subseteq Waiting \X Waiting
      BY DEF Before, Waiting
    <3> QED BY <2>2, <2>4, <3>1 DEF QueueStep
  <2> QED BY <2>3, <2>4
<1>5. CASE UNCHANGED box
  BY <1>5 DEF QueueStep, Waiting, Before, Executing, Barrier, Distinct
<1> QED BY <1>1, <1>2, <1>3, <1>4, <1>5 DEF HandleEnqueue, HandleRefused

\* What an executor's change of one entry does to the queue, by the status it leaves.
LEMMA EntryChanges ==
  ASSUME Barrier, NEW id \in DOMAIN box, SamePlaces,
         \A other \in DOMAIN box \ {id} : box'[other] = box[other]
  PROVE  /\ Distinct' /\ Waiting' = Waiting /\ Before' = Before
         /\ (box'[id].status = "executing") = (box[id].status = "executing") => Executing' = Executing
         /\ box'[id].status # "executing" => Executing' = Executing \ {id}
         /\ box'[id].status = "executing" => Executing' = Executing \cup {id}
BY PlacesKept DEF Barrier, SamePlaces, Executing

LEMMA RecoveryIsQueueStep ==
  ASSUME Barrier, Recover
  PROVE  QueueStep /\ Distinct'
<1>1. CASE UNCHANGED box
  BY <1>1 DEF QueueStep, Waiting, Before, Executing, Barrier, Distinct
<1>2. CASE box' = Without(box, DOMAIN box)
  <2>1. /\ Waiting' = Waiting \ Waiting /\ Executing' = {}
        /\ Before' = Before \cap (Waiting' \X Waiting') /\ Distinct'
    BY <1>2, EntriesLeave DEF Barrier, Waiting, Executing
  <2>2. Queue!DiscardAll
    BY <2>1 DEF Queue!DiscardAll, Queue!Leave, Waiting, Before, Executing
  <2> QED BY <2>1, <2>2 DEF QueueStep, Queue!Next
<1>3. ASSUME NEW id \in DOMAIN box, RecoverResumes(box, id), box' = Resumed(box, id)
      PROVE  QueueStep /\ Distinct'
  <2>1. box[id] \in Entry /\ box[id].status = "failed"
    BY <1>3 DEF RecoverResumes, Barrier, IsTable
  <2>2. /\ SamePlaces /\ box'[id].status = "queued"
        /\ \A other \in DOMAIN box \ {id} : box'[other] = box[other]
    BY <1>3, <2>1 DEF Resumed, SamePlaces, Entry
  <2>3. Executing' = Executing
    BY <2>1, <2>2 DEF Executing, SamePlaces
  <2> QED BY <2>2, <2>3, PlacesKept DEF QueueStep, Barrier
<1>4. ASSUME NEW id \in DOMAIN box, RecoverInterrupts(box, id), box' = MarkedInterrupted(box, id)
      PROVE  QueueStep /\ Distinct'
  <2>1. box[id] \in Entry /\ id \in Executing
    BY <1>4 DEF RecoverInterrupts, Barrier, IsTable, Executing
  <2>2. /\ SamePlaces /\ box'[id].status = "failed"
        /\ \A other \in DOMAIN box \ {id} : box'[other] = box[other]
    BY <1>4, <2>1 DEF MarkedInterrupted, SamePlaces, Entry
  <2>3. Executing' = {}
    BY <2>1, <2>2, EntryChanges, OneExecutes
  <2>4. Waiting' = Waiting /\ Before' = Before /\ Distinct'
    BY <2>2, PlacesKept DEF Barrier
  <2>5. Queue!Abandon
    BY <2>3, <2>4 DEF Queue!Abandon, Waiting, Before, Executing
  <2> QED BY <2>4, <2>5 DEF QueueStep, Queue!Next
<1> QED BY <1>1, <1>2, <1>3, <1>4 DEF Recover

LEMMA ClaimIsQueueStep ==
  ASSUME Barrier, NEW id \in Ids, ClaimHead(id)
  PROVE  QueueStep /\ Distinct'
<1>1. id \in DOMAIN box /\ box[id] \in Entry /\ IsHead(box, id) /\ box[id].status = "queued"
  BY DEF ClaimHead, Claimable, IsHead, Barrier, IsTable
<1>2. /\ SamePlaces /\ box'[id].status = "executing"
      /\ \A other \in DOMAIN box \ {id} : box'[other] = box[other]
  BY <1>1 DEF ClaimHead, Claimed, SamePlaces, Entry
<1>3. Executing = {}
  <2>1. ASSUME NEW other \in Executing PROVE FALSE
    <3>1. IsHead(box, other) /\ other # id
      BY <1>1, <2>1, OneExecutes DEF Executing
    <3>2. box[other].sequence \in Nat /\ box[id].sequence \in Nat /\ other \in DOMAIN box
      BY <1>1, <3>1 DEF IsHead, Barrier, IsTable, Entry
    <3> QED BY <1>1, <3>1, <3>2 DEF IsHead, Barrier, Distinct
  <2> QED BY <2>1
<1>4. Executing' = {id}
  BY <1>1, <1>2, <1>3, EntryChanges
<1>5. Waiting' = Waiting /\ Before' = Before /\ Distinct'
  BY <1>2, PlacesKept DEF Barrier
<1>6. Queue!First(id)
  BY <1>1, HeadIsFirst
<1>7. Queue!Start(id)
  BY <1>3, <1>4, <1>5, <1>6 DEF Queue!Start, Waiting, Before, Executing
<1> QED BY <1>5, <1>7 DEF QueueStep, Queue!Next

\* The entry reported is the head, so a report that discards it discards the whole queue.
LEMMA DiscardIsWhole ==
  ASSUME NEW t, IsTable(t), NEW id, IsHead(t, id)
  PROVE  DiscardedFrom(t, id) = DOMAIN t
BY DEF DiscardedFrom, IsHead, IsTable, Entry

LEMMA ReportIsQueueStep ==
  ASSUME Barrier, Report
  PROVE  QueueStep /\ Distinct'
<1>0. PICK id \in Ids : id = claim.id
  BY DEF Report, IsCurrent, Barrier, IsTable
<1>1. id \in DOMAIN box /\ box[id] \in Entry /\ id \in Executing
  BY <1>0 DEF Report, IsCurrent, Barrier, IsTable, Executing
<1>2. Executing = {id} /\ IsHead(box, id)
  BY <1>1, OneExecutes
<1>3. CASE box' = Without(box, {id})
  <2>1. /\ Waiting' = Waiting \ {id} /\ Executing' = {}
        /\ Before' = Before \cap (Waiting' \X Waiting') /\ Distinct'
    BY <1>2, <1>3, EntriesLeave DEF Barrier
  <2>2. Queue!First(id)
    BY <1>2, HeadIsFirst
  <2>3. Queue!Finish(id)
    BY <1>2, <2>1, <2>2 DEF Queue!Finish, Queue!Leave, Waiting, Before, Executing
  <2> QED BY <2>1, <2>3 DEF QueueStep, Queue!Next
<1>4. CASE box' = Without(box, DiscardedFrom(box, id))
  <2>1. DiscardedFrom(box, id) = Waiting
    BY <1>2, DiscardIsWhole DEF Barrier, Waiting
  <2>2. /\ Waiting' = Waiting \ Waiting /\ Executing' = {}
        /\ Before' = Before \cap (Waiting' \X Waiting') /\ Distinct'
    BY <1>4, <2>1, EntriesLeave DEF Barrier, Waiting, Executing
  <2>3. Queue!DiscardAll
    BY <2>2 DEF Queue!DiscardAll, Queue!Leave, Waiting, Before, Executing
  <2> QED BY <2>2, <2>3 DEF QueueStep, Queue!Next
<1>5. ASSUME NEW b \in BOOLEAN, box' = Failed(box, id, b) \/ box' = Rescheduled(box, id, b)
      PROVE  QueueStep /\ Distinct'
  <2>1. SamePlaces /\ box'[id].status # "executing"
        /\ \A other \in DOMAIN box \ {id} : box'[other] = box[other]
    <3>1. CASE box' = Failed(box, id, b)
      BY <1>1, <3>1 DEF Failed, SamePlaces, Entry
    <3>2. CASE box' = Rescheduled(box, id, b)
      BY <1>1, <3>2 DEF Rescheduled, SamePlaces, Entry
    <3> QED BY <1>5, <3>1, <3>2
  <2>2. Executing' = {}
    BY <1>1, <1>2, <2>1, EntryChanges
  <2>3. Waiting' = Waiting /\ Before' = Before /\ Distinct'
    BY <2>1, PlacesKept DEF Barrier
  <2>4. Queue!Abandon
    BY <2>2, <2>3 DEF Queue!Abandon, Waiting, Before, Executing
  <2> QED BY <2>3, <2>4 DEF QueueStep, Queue!Next
<1> QED BY <1>0, <1>3, <1>4, <1>5 DEF Report, Reported

\* Every step of the outbox is a step of the queue, or the queue does not see it.
LEMMA NextIsQueueStep == Barrier /\ [Next]_vars => QueueStep /\ Distinct'
<1> SUFFICES ASSUME Barrier, [Next]_vars PROVE QueueStep /\ Distinct'
  OBVIOUS
<1> USE DEF durable, executor
<1>1. CASE UNCHANGED box
  BY <1>1 DEF QueueStep, Waiting, Before, Executing, Barrier, Distinct
<1>2. ASSUME NEW c \in Contexts, HandleCall(c) PROVE QueueStep /\ Distinct'
  BY <1>2, HandlersAreQueueSteps
<1>3. CASE Recover \/ Report
  BY <1>3, RecoveryIsQueueStep, ReportIsQueueStep
<1>4. ASSUME NEW id \in Ids, ClaimHead(id) PROVE QueueStep /\ Distinct'
  BY <1>4, ClaimIsQueueStep
<1>5. ASSUME NEW id \in Ids, BackoffElapses(id) PROVE QueueStep /\ Distinct'
  <2>1. /\ id \in DOMAIN box /\ SamePlaces /\ box'[id].status = box[id].status
        /\ \A other \in DOMAIN box \ {id} : box'[other] = box[other]
    BY <1>5 DEF BackoffElapses, SamePlaces, Barrier, IsTable, Entry
  <2>2. Executing' = Executing
    BY <2>1 DEF Executing, SamePlaces
  <2> QED BY <2>1, <2>2, PlacesKept DEF QueueStep, Barrier
<1>6. ASSUME NEW c \in Contexts, BecomeLeader(c) \/ Crash(c) \/ Reopen(c) \/ Post(c)
      PROVE  UNCHANGED box
  BY <1>6 DEF BecomeLeader, Crash, Reopen, Post
<1>7. ASSUME NEW c \in Contexts, ClientStep(c) PROVE UNCHANGED box \/ HandleCall(c)
  BY <1>7 DEF ClientStep, SendEnqueue, SendChange, Send, Return, GiveUp, DeliverResults
<1>8. ASSUME CheckConnection \/ ClaimNothing \/ AskNextRetry \/ WakeUp \/ TimerFires
      PROVE  UNCHANGED box
  BY <1>8 DEF CheckConnection, ClaimNothing, AskNextRetry, WakeUp, TimerFires
<1>9. ASSUME LoseLeadership \/ Apply \/ BackendAnswers \/ Unauthenticated \/ GoOffline
             \/ ComeOnline \/ SignIn
      PROVE  UNCHANGED box
  BY <1>9 DEF LoseLeadership, Apply, BackendAnswers, Succeed, ExecutionFails, BackendRefuses,
     Unauthenticated, GoOffline, ComeOnline, SignIn
<1>10. CASE UNCHANGED vars
  BY <1>1, <1>10 DEF vars, moving
<1> QED BY <1>1, <1>2, <1>3, <1>4, <1>5, <1>6, <1>7, <1>8, <1>9, <1>10
     DEF Next, Step, ExecutorStep

\* The outbox is a first-in first-out queue of which only the first is ever being executed, for
\* every client and through every crash, failure and change of leader.
THEOREM QueueIsImplemented == Spec => ImplementsQueue
<1>1. Init => Claims /\ Distinct /\ Queue!Init
  BY DEF Init, Claims, ExecutingIsHead, ClaimIsCurrent, Distinct, Queue!Init
<1>2. Typed /\ Claims /\ Distinct => Barrier
  BY DEF Typed, StateOK, Claims, Barrier
<1> QED BY <1>1, <1>2, InitTyped, NextTyped, NextKeepsClaims, NextIsQueueStep, PTL
     DEF Spec, ImplementsQueue, Queue!Spec, QueueStep, Waiting, Before, Executing

(***************************************************************************)
(* What clients are told.  A completion is announced only for an execution *)
(* that the backend applied, and a write is discarded only under the       *)
(* strategy that says so.                                                  *)
(***************************************************************************)
Telling(events, done) == \A e \in events : e.kind = "completed" => done[e.id] > 0

MessagesTrue ==
  /\ ResolvedOnlyIfApplied
  /\ \A h \in Contexts : lane[h].busy => Telling(lane[h].events, applied)
  /\ \A c \in Contexts : \A n \in DOMAIN inbox[c] : Telling(inbox[c][n], applied)

OutcomeTrue ==
  /\ pc \in {"running", "reporting"} /\ effect => applied[claim.id] > 0
  /\ pc = "reporting" =>
       /\ outcome = "complete" => effect
       /\ outcome = "discard" => FailureStrategy = "discard-all"

Truthful == MessagesTrue /\ OutcomeTrue

(***************************************************************************)
(* Without a crash every call reaches the leader once.  An action that is  *)
(* still to be enqueued has left no trace but its call, so what has ended  *)
(* is not enqueued again; and results are never lost on their way.         *)
(***************************************************************************)
Gone == {"completed", "removed", "discarded"}

About(events, id) == \E e \in events : e.id = id

Mentioned(id) ==
  \/ \E h \in Contexts : lane[h].busy /\ About(lane[h].events, id)
  \/ \E c \in Contexts : \E n \in DOMAIN inbox[c] : About(inbox[c][n], id)

Calls(c, id) == call[c].state # "none" /\ call[c].id = id

Enqueueing(c, id) == call[c].state = "sent" /\ call[c].op = "enqueue" /\ call[c].id = id

OnlyUsed ==
  \A id \in Ids :
    (\/ id \in DOMAIN box \/ Mentioned(id)
     \/ \E c \in Contexts : Calls(c, id) \/ promise[c][id] # "none") => id \in used

EnqueuedOnce ==
  \A c \in Contexts, id \in Ids :
    Enqueueing(c, id) =>
      /\ id \notin DOMAIN box /\ ~Mentioned(id)
      /\ \A d \in Contexts : promise[d][id] \notin Gone /\ (Calls(d, id) => d = c)

AllGone(events, t) == \A e \in events : e.kind \in Gone => e.id \notin DOMAIN t

AnnouncedStayOut ==
  /\ \A h \in Contexts : lane[h].busy => AllGone(lane[h].events, box)
  /\ \A c \in Contexts : \A n \in DOMAIN inbox[c] : AllGone(inbox[c][n], box)
  /\ \A c \in Contexts, id \in Ids : promise[c][id] \in Gone => id \notin DOMAIN box

AwaitedIsTracked ==
  \A c \in Contexts, id \in Ids :
    promise[c][id] = "pending" => id \in DOMAIN box \/ Announced(c, id) \/ Enqueueing(c, id)

Undisturbed ==
  alive = Contexts /\ OnlyUsed /\ EnqueuedOnce /\ AnnouncedStayOut /\ AwaitedIsTracked

Reliable == Truthful /\ (spent["crash"] = 0 => Undisturbed)

LEMMA SettledValue ==
  ASSUME NEW old, NEW events, NEW id \in Ids
  PROVE  /\ \/ Settled(old, events)[id] = old[id]
            \/ \E e \in events : e.id = id /\ Settled(old, events)[id] = e.kind
         /\ ~About(events, id) => Settled(old, events)[id] = old[id]
<1>1. CASE old[id] = "pending" /\ \E e \in events : e.id = id
  <2>1. Settled(old, events)[id] = (CHOOSE e \in events : e.id = id).kind
    BY <1>1 DEF Settled
  <2>2. (CHOOSE e \in events : e.id = id) \in events /\ (CHOOSE e \in events : e.id = id).id = id
    BY <1>1
  <2> QED BY <1>1, <2>1, <2>2 DEF About
<1>2. CASE ~(old[id] = "pending" /\ \E e \in events : e.id = id)
  <2>1. Settled(old, events)[id] = old[id]
    BY <1>2 DEF Settled
  <2> QED BY <2>1
<1> QED BY <1>1, <1>2

LEMMA SettledPending ==
  ASSUME NEW old, NEW events \in SUBSET Event, NEW id \in Ids, About(events, id)
  PROVE  Settled(old, events)[id] # "pending"
<1>1. CASE old[id] = "pending"
  <2>1. Settled(old, events)[id] = (CHOOSE e \in events : e.id = id).kind
    BY <1>1 DEF Settled, About
  <2>2. (CHOOSE e \in events : e.id = id) \in events
    BY DEF About
  <2>3. (CHOOSE e \in events : e.id = id).kind \in Endings
    BY <2>2 DEF Event
  <2> QED BY <2>1, <2>3 DEF Endings
<1>2. CASE old[id] # "pending"
  BY <1>2 DEF Settled
<1> QED BY <1>1, <1>2

LEMMA BusyLane ==
  ASSUME NEW l \in {Idle} \cup Posts, l.busy
  PROVE  l \in Posts /\ l.events \in SUBSET Event
<1>1. l \in Posts
  BY DEF Idle
<1> QED BY <1>1 DEF Posts

\* The messages stay true when nothing new is said and nothing applied is forgotten.
LEMMA QuietMessages ==
  ASSUME MessagesTrue, UNCHANGED inbox,
         lane \in [Contexts -> {Idle} \cup Posts], inbox \in [Contexts -> Seq(SUBSET Event)],
         \A id \in Ids : applied[id] > 0 => applied'[id] > 0,
         \A h \in Contexts : lane'[h].busy => lane[h].busy /\ lane'[h].events = lane[h].events,
         \A c \in Contexts, id \in Ids :
           promise'[c][id] = "completed" => promise[c][id] = "completed"
  PROVE  MessagesTrue'
<1>1. ASSUME NEW events \in SUBSET Event, Telling(events, applied) PROVE Telling(events, applied')
  BY <1>1 DEF Telling, Event
<1>2. ASSUME NEW h \in Contexts, lane'[h].busy PROVE Telling(lane'[h].events, applied')
  <2>1. lane[h].events \in SUBSET Event /\ Telling(lane[h].events, applied)
    BY <1>2, BusyLane DEF MessagesTrue
  <2> QED BY <1>1, <1>2, <2>1
<1>3. ASSUME NEW c \in Contexts, NEW n \in DOMAIN inbox[c] PROVE Telling(inbox[c][n], applied')
  <2>1. inbox[c][n] \in SUBSET Event /\ Telling(inbox[c][n], applied)
    BY DEF MessagesTrue
  <2> QED BY <1>1, <2>1
<1>4. ResolvedOnlyIfApplied'
  BY DEF MessagesTrue, ResolvedOnlyIfApplied
<1> QED BY <1>2, <1>3, <1>4 DEF MessagesTrue

LEMMA ResultsAreTrue ==
  ASSUME Typed, MessagesTrue, NEW c \in Contexts, Post(c) \/ DeliverResults(c)
  PROVE  MessagesTrue'
<1>1. PICK events \in SUBSET Event :
        /\ Telling(events, applied)
        /\ promise' = [promise EXCEPT ![c] = Settled(promise[c], events)]
        /\ \A d \in Contexts : \/ inbox'[d] = inbox[d]
                               \/ inbox'[d] = Append(inbox[d], events)
                               \/ inbox[d] # <<>> /\ inbox'[d] = Tail(inbox[d])
        /\ \A h \in Contexts : lane'[h].busy => lane'[h] = lane[h]
        /\ applied' = applied
  <2>1. CASE Post(c)
    <3>1. lane[c].busy /\ lane \in [Contexts -> {Idle} \cup Posts]
      BY <2>1 DEF Post, Typed, StateOK
    <3>2. lane[c].events \in SUBSET Event /\ Telling(lane[c].events, applied)
      BY <3>1, BusyLane DEF MessagesTrue
    <3>3. \A h \in Contexts : lane'[h].busy => lane'[h] = lane[h]
      BY <2>1, <3>1 DEF Post, Idle
    <3>4. \A d \in Contexts : inbox'[d] \in {inbox[d], Append(inbox[d], lane[c].events)}
      BY <2>1 DEF Post
    <3>5. /\ promise' = [promise EXCEPT ![c] = Settled(promise[c], lane[c].events)]
          /\ applied' = applied
      BY <2>1 DEF Post
    <3>6. /\ Telling(lane[c].events, applied)
          /\ promise' = [promise EXCEPT ![c] = Settled(promise[c], lane[c].events)]
          /\ \A d \in Contexts : \/ inbox'[d] = inbox[d]
                                 \/ inbox'[d] = Append(inbox[d], lane[c].events)
                                 \/ inbox[d] # <<>> /\ inbox'[d] = Tail(inbox[d])
          /\ \A h \in Contexts : lane'[h].busy => lane'[h] = lane[h]
          /\ applied' = applied
      BY <3>2, <3>3, <3>4, <3>5
    <3> QED BY <3>2, <3>6
  <2>2. CASE DeliverResults(c)
    <3>1. inbox \in [Contexts -> Seq(SUBSET Event)] /\ inbox[c] # <<>>
      BY <2>2 DEF DeliverResults, Typed, StateOK, ClientsOK
    <3>2. Head(inbox[c]) \in SUBSET Event /\ Telling(Head(inbox[c]), applied)
      BY <3>1 DEF MessagesTrue
    <3>3. \A d \in Contexts : inbox'[d] = IF d = c THEN Tail(inbox[d]) ELSE inbox[d]
      BY <2>2, <3>1 DEF DeliverResults
    <3>4. /\ promise' = [promise EXCEPT ![c] = Settled(promise[c], Head(inbox[c]))]
          /\ applied' = applied /\ lane' = lane
      BY <2>2 DEF DeliverResults
    <3>5. \A h \in Contexts : lane'[h].busy => lane'[h] = lane[h]
      BY <3>4
    <3>6. \A d \in Contexts : \/ inbox'[d] = inbox[d]
                              \/ inbox'[d] = Append(inbox[d], Head(inbox[c]))
                              \/ inbox[d] # <<>> /\ inbox'[d] = Tail(inbox[d])
      BY <3>1, <3>3
    <3> QED BY <3>2, <3>4, <3>5, <3>6
  <2> QED BY <2>1, <2>2
<1>2. ASSUME NEW d \in Contexts, NEW n \in DOMAIN inbox'[d] PROVE Telling(inbox'[d][n], applied)
  <2>1. inbox[d] \in Seq(SUBSET Event) /\ \A m \in DOMAIN inbox[d] : Telling(inbox[d][m], applied)
    BY DEF Typed, StateOK, ClientsOK, MessagesTrue
  <2>2. CASE inbox'[d] = inbox[d]
    BY <2>1, <2>2
  <2>3. CASE inbox'[d] = Append(inbox[d], events)
    BY <1>1, <2>1, <2>3
  <2>4. CASE inbox'[d] = Tail(inbox[d]) /\ inbox[d] # <<>>
    BY <2>1, <2>4
  <2> QED BY <1>1, <2>2, <2>3, <2>4
<1>3. ASSUME NEW d \in Contexts, NEW id \in Ids, promise'[d][id] = "completed"
      PROVE  applied[id] > 0
  <2>1. CASE d = c
    <3>1. promise'[d][id] = Settled(promise[c], events)[id]
      BY <1>1, <2>1 DEF Typed, StateOK, ClientsOK
    <3> QED BY <1>1, <1>3, <3>1, SettledValue DEF Telling, MessagesTrue, ResolvedOnlyIfApplied
  <2>2. CASE d # c
    BY <1>1, <1>3, <2>2 DEF Typed, StateOK, ClientsOK, MessagesTrue, ResolvedOnlyIfApplied
  <2> QED BY <2>1, <2>2
<1> QED BY <1>1, <1>2, <1>3 DEF MessagesTrue, ResolvedOnlyIfApplied

\* A report announces a completion only for what the backend applied.
LEMMA PublishedIsTrue ==
  ASSUME Typed, MessagesTrue, NEW h \in Contexts, NEW posted \in SUBSET Event,
         Telling(posted, applied), UNCHANGED <<promise, inbox, applied>>,
         lane'[h].events = posted,
         \A other \in Contexts \ {h} : lane'[other] = lane[other]
  PROVE  MessagesTrue'
<1>1. ASSUME NEW g \in Contexts, lane'[g].busy PROVE Telling(lane'[g].events, applied)
  BY <1>1 DEF MessagesTrue
<1> QED BY <1>1 DEF MessagesTrue, ResolvedOnlyIfApplied

LEMMA HandlersAreTrue ==
  ASSUME Typed, Truthful, NEW c \in Contexts, HandleCall(c), UNCHANGED setting
  PROVE  Truthful'
<1>1. PICK id \in Ids : \/ HandleEnqueue(c, id) \/ HandleEdit(c, id) \/ HandleRemove(c, id)
                        \/ HandleRetry(c, id) \/ \E op \in Operations : HandleRefused(c, op, id)
  BY DEF HandleCall
<1>2. PICK op \in Operations, posted \in {{}, {[id |-> id, kind |-> "removed"]}} :
        Handle(c, op, id, posted)
  BY <1>1 DEF HandleEnqueue, HandleEdit, HandleRemove, HandleRetry, HandleRefused, Operations
<1>3. posted \in SUBSET Event /\ Telling(posted, applied)
  BY <1>2 DEF Telling, Event, Endings
<1>4. /\ leader \in Contexts /\ lane' = [lane EXCEPT ![leader] = [busy |-> TRUE, events |-> posted, caller |-> c]]
      /\ UNCHANGED <<executor, promise, inbox, applied>>
  BY <1>2 DEF Handle, Typed, StateOK, SurroundingsOK
<1>5. lane \in [Contexts -> {Idle} \cup Posts]
  BY DEF Typed, StateOK
<1>6. /\ lane'[leader].events = posted
      /\ \A other \in Contexts \ {leader} : lane'[other] = lane[other]
  BY <1>4, <1>5
<1>7. MessagesTrue'
  BY <1>3, <1>4, <1>6, PublishedIsTrue DEF Truthful
<1> QED BY <1>4, <1>7 DEF Truthful, OutcomeTrue, executor, FailureStrategy

LEMMA ReportsAreTrue ==
  ASSUME Typed, Truthful, Recover \/ Report
  PROVE  Truthful'
<1>1. lane \in [Contexts -> {Idle} \cup Posts] /\ leader \in Contexts
  BY DEF Recover, Report, LaneIsFree, Typed, StateOK, SurroundingsOK
<1>2. OutcomeTrue'
  BY DEF Recover, Report, OutcomeTrue
<1>3. UNCHANGED <<promise, inbox, applied>>
  BY DEF Recover, Report, clients
<1>4. CASE UNCHANGED lane
  BY <1>1, <1>2, <1>3, <1>4, QuietMessages DEF Truthful, Typed, StateOK, ClientsOK
<1>5. ASSUME NEW kind \in Endings, NEW ids \in SUBSET Ids, Publish(leader, EventsFor(ids, kind)),
             kind = "completed" => \A id \in ids : applied[id] > 0
      PROVE  Truthful'
  <2>1. EventsFor(ids, kind) \in SUBSET Event /\ Telling(EventsFor(ids, kind), applied)
    BY <1>5, EventsForType DEF EventsFor, Telling
  <2>2. /\ lane'[leader].events = EventsFor(ids, kind)
        /\ \A other \in Contexts \ {leader} : lane'[other] = lane[other]
    BY <1>1, <1>5 DEF Publish
  <2> QED BY <1>1, <1>2, <1>3, <2>1, <2>2, PublishedIsTrue DEF Truthful
<1>6. DOMAIN box \in SUBSET Ids
  BY DEF Typed, StateOK, IsTable
<1>7. CASE Recover
  BY <1>4, <1>5, <1>6, <1>7 DEF Recover, Endings
<1>8. CASE Report
  <2>1. claim.id \in Ids /\ DiscardedFrom(box, claim.id) \in SUBSET Ids
    BY <1>6, <1>8 DEF Report, IsCurrent, DiscardedFrom
  <2>2. outcome = "complete" => applied[claim.id] > 0
    BY <1>8 DEF Report, Truthful, OutcomeTrue
  <2> QED BY <1>4, <1>5, <1>8, <2>1, <2>2 DEF Report, Reported, Endings
<1> QED BY <1>7, <1>8

LEMMA ApplyIsTrue ==
  ASSUME Typed, Truthful, Apply, UNCHANGED setting
  PROVE  Truthful'
<1>1. /\ applied' = [applied EXCEPT ![claim.id] = applied[claim.id] + 1] /\ effect' = TRUE
      /\ pc = "running" /\ UNCHANGED <<promise, inbox, lane, pc, claim, outcome>>
  BY DEF Apply, clients
<1>2. applied \in [Ids -> Nat] /\ claim.id \in Ids
  BY <1>1 DEF Typed, StateOK, ExecutorOK, Claim
<1>3. \A id \in Ids : applied[id] > 0 => applied'[id] > 0
  BY <1>1, <1>2
<1>4. applied'[claim.id] > 0
  BY <1>1, <1>2
<1>5. MessagesTrue'
  BY <1>1, <1>3, QuietMessages DEF Truthful, Typed, StateOK, ClientsOK
<1> QED BY <1>1, <1>4, <1>5 DEF Truthful, OutcomeTrue

LEMMA NextIsTruthful == Typed /\ Truthful /\ [Next]_vars => Truthful'
<1> SUFFICES ASSUME Typed, Truthful, [Next]_vars PROVE Truthful'
  OBVIOUS
<1>1. /\ lane \in [Contexts -> {Idle} \cup Posts] /\ inbox \in [Contexts -> Seq(SUBSET Event)]
      /\ applied \in [Ids -> Nat]
      /\ promise \in [Contexts -> [Ids -> {"none", "pending", "timeout"} \cup Endings]]
  BY DEF Typed, StateOK, ClientsOK
<1>2. ASSUME UNCHANGED <<lane, inbox, applied, promise>>, OutcomeTrue' PROVE Truthful'
  BY <1>1, <1>2, QuietMessages DEF Truthful
<1>3. UNCHANGED setting
  BY DEF Next, vars
<1>4. ASSUME UNCHANGED <<executor, setting>> PROVE OutcomeTrue' \/ applied' # applied
  BY <1>4 DEF Truthful, OutcomeTrue, executor, FailureStrategy
<1>5. CASE UNCHANGED vars
  BY <1>2, <1>4, <1>5 DEF vars, moving, executor
<1>6. ASSUME NEW c \in Contexts, BecomeLeader(c) \/ Reopen(c) PROVE Truthful'
  <2>1. UNCHANGED <<lane, inbox, applied, promise>> /\ OutcomeTrue'
    BY <1>3, <1>4, <1>6 DEF BecomeLeader, Reopen, clients, OutcomeTrue
  <2> QED BY <1>2, <2>1
<1>7. ASSUME NEW c \in Contexts, Crash(c) PROVE Truthful'
  <2>1. OutcomeTrue' /\ applied' = applied
    BY <1>3, <1>4, <1>7 DEF Crash, HaltExecutor, OutcomeTrue
  <2>2. \A h \in Contexts : lane'[h].busy => lane[h].busy /\ lane'[h].events = lane[h].events
    <3>1. ASSUME NEW h \in Contexts, lane'[h].busy PROVE lane[h].busy /\ lane'[h].events = lane[h].events
      <4>1. lane'[h] = Uncalled(lane[h], c)
        BY <1>7, <3>1 DEF Crash, Idle
      <4>2. lane[h].busy
        BY <3>1, <4>1 DEF Uncalled
      <4>3. lane[h] \in Posts
        BY <1>1, <4>2, BusyLane
      <4> QED BY <4>1, <4>2, <4>3 DEF Uncalled, Posts
    <3> QED BY <3>1
  <2>3. \A d \in Contexts, id \in Ids : promise'[d][id] = "completed" => promise[d][id] = "completed"
    BY <1>1, <1>7 DEF Crash
  <2>4. \A d \in Contexts : inbox'[d] = IF d = c THEN <<>> ELSE inbox[d]
    BY <1>1, <1>7 DEF Crash
  <2>5. ASSUME NEW h \in Contexts, lane'[h].busy PROVE Telling(lane'[h].events, applied)
    BY <2>2, <2>5 DEF Truthful, MessagesTrue
  <2>6. ASSUME NEW d \in Contexts, NEW n \in DOMAIN inbox'[d] PROVE Telling(inbox'[d][n], applied)
    BY <2>4 DEF Truthful, MessagesTrue
  <2> QED BY <2>1, <2>3, <2>5, <2>6 DEF Truthful, MessagesTrue, ResolvedOnlyIfApplied
<1>8. ASSUME NEW c \in Contexts, Post(c) \/ DeliverResults(c) PROVE Truthful'
  <2>1. OutcomeTrue'
    BY <1>3, <1>4, <1>8 DEF Post, DeliverResults
  <2> QED BY <1>8, <2>1, ResultsAreTrue DEF Truthful
<1>9. ASSUME NEW c \in Contexts, HandleCall(c) PROVE Truthful'
  BY <1>3, <1>9, HandlersAreTrue
<1>10. ASSUME NEW c \in Contexts, NEW id \in Ids, NEW op \in Operations,
              SendEnqueue(c, id) \/ SendChange(c, op, id)
       PROVE  Truthful'
  <2>1. OutcomeTrue' /\ UNCHANGED <<lane, inbox, applied>>
    BY <1>3, <1>4, <1>10 DEF SendEnqueue, SendChange, Send
  <2>2. \A d \in Contexts, one \in Ids : promise'[d][one] = "completed" => promise[d][one] = "completed"
    <3>1. CASE SendEnqueue(c, id)
      <4>1. promise' = [promise EXCEPT ![c][id] = "pending"]
        BY <3>1 DEF SendEnqueue
      <4> QED BY <1>1, <4>1
    <3>2. CASE SendChange(c, op, id)
      BY <3>2 DEF SendChange
    <3> QED BY <1>10, <3>1, <3>2
  <2> QED BY <1>1, <2>1, <2>2, QuietMessages DEF Truthful
<1>11. ASSUME NEW c \in Contexts, Return(c) \/ GiveUp(c) PROVE Truthful'
  <2>1. OutcomeTrue' /\ UNCHANGED <<inbox, applied>>
    BY <1>3, <1>4, <1>11 DEF Return, GiveUp
  <2>2. \A d \in Contexts, one \in Ids : promise'[d][one] = "completed" => promise[d][one] = "completed"
    <3>1. promise' = promise \/ promise' = [promise EXCEPT ![c][call[c].id] = "timeout"]
      BY <1>11 DEF Return, GiveUp
    <3>2. ASSUME NEW d \in Contexts, NEW one \in Ids
          PROVE  promise'[d][one] \in {promise[d][one], "timeout"}
      <4>1. CASE d # c \/ promise' = promise
        BY <1>1, <3>1, <4>1
      <4>2. CASE promise'[c] = [promise[c] EXCEPT ![call[c].id] = "timeout"] /\ d = c
        BY <1>1, <4>2
      <4> QED BY <1>1, <3>1, <4>1, <4>2
    <3> QED BY <3>2
  <2>3. ASSUME NEW h \in Contexts, lane'[h].busy PROVE lane[h].busy /\ lane'[h].events = lane[h].events
    <3>1. lane'[h] \in {lane[h], Uncalled(lane[h], c)}
      BY <1>11 DEF Return, GiveUp
    <3>2. lane[h].busy
      BY <2>3, <3>1 DEF Uncalled
    <3>3. lane[h] \in Posts
      BY <1>1, <3>2, BusyLane
    <3> QED BY <3>1, <3>2, <3>3 DEF Uncalled, Posts
  <2> QED BY <1>1, <2>1, <2>2, <2>3, QuietMessages DEF Truthful
<1>12. CASE LoseLeadership
  BY <1>2, <1>12 DEF LoseLeadership, HaltExecutor, clients, OutcomeTrue
<1>13. CASE Recover \/ Report
  BY <1>13, ReportsAreTrue
<1>14. CASE CheckConnection \/ ClaimNothing \/ AskNextRetry \/ WakeUp \/ TimerFires
  <2>1. UNCHANGED <<lane, inbox, applied, promise, claim, effect, outcome>>
    BY <1>14 DEF CheckConnection, ClaimNothing, AskNextRetry, WakeUp, TimerFires, clients
  <2>2. pc' \notin {"running", "reporting"}
    BY <1>14 DEF CheckConnection, ClaimNothing, AskNextRetry, WakeUp, TimerFires
  <2>3. OutcomeTrue'
    BY <2>2 DEF OutcomeTrue
  <2> QED BY <1>2, <2>1, <2>3
<1>15. ASSUME NEW id \in Ids, ClaimHead(id) PROVE Truthful'
  BY <1>2, <1>15 DEF ClaimHead, clients, OutcomeTrue
<1>16. CASE Apply
  BY <1>3, <1>16, ApplyIsTrue
<1>17. CASE BackendAnswers \/ Unauthenticated
  <2>1. UNCHANGED <<lane, inbox, applied, promise, claim, effect>> /\ pc = "running"
    BY <1>17 DEF BackendAnswers, Succeed, ExecutionFails, BackendRefuses, Unauthenticated, End, clients
  <2>2. /\ outcome' = "complete" => effect
        /\ outcome' = "discard" => FailureStrategy = "discard-all"
    BY <1>17 DEF BackendAnswers, Succeed, ExecutionFails, BackendRefuses, Unauthenticated, End, GivenUp
  <2>3. OutcomeTrue'
    BY <1>3, <2>1, <2>2 DEF Truthful, OutcomeTrue, FailureStrategy
  <2> QED BY <1>2, <2>1, <2>3
<1>18. ASSUME (\E id \in Ids : BackoffElapses(id)) \/ GoOffline \/ ComeOnline \/ SignIn
       PROVE  Truthful'
  <2>1. UNCHANGED <<executor, lane, inbox, applied, promise>>
    BY <1>18 DEF BackoffElapses, GoOffline, ComeOnline, SignIn, clients
  <2> QED BY <1>2, <1>3, <1>4, <2>1
<1>19. "enqueue" \in Operations
  BY DEF Operations
<1> QED BY <1>5, <1>6, <1>7, <1>8, <1>9, <1>10, <1>11, <1>12, <1>13, <1>14, <1>15, <1>16, <1>17,
           <1>18, <1>19 DEF Next, Step, ExecutorStep, ClientStep

(***************************************************************************)
(* What leaves the table: each step that drops an entry has its reason.    *)
(***************************************************************************)
SuccessorsToo ==
  \A id \in Lost, later \in DOMAIN box :
    box[later].sequence > box[id].sequence => later \notin DOMAIN box'

WriteStep == (FailureStrategy = "pause" => Lost = {}) /\ SuccessorsToo

LEMMA NothingLost == ASSUME Lost = {} PROVE WriteStep
BY DEF WriteStep, SuccessorsToo

LEMMA AllLost ==
  ASSUME FailureStrategy = "discard-all", DOMAIN box' = {}
  PROVE  WriteStep
BY DEF WriteStep, SuccessorsToo

LEMMA HandlersKeepWrites ==
  ASSUME NEW c \in Contexts, HandleCall(c), Typed
  PROVE  Lost = {}
<1>1. PICK id \in Ids : \/ HandleEnqueue(c, id) \/ HandleEdit(c, id) \/ HandleRemove(c, id)
                        \/ HandleRetry(c, id) \/ \E op \in Operations : HandleRefused(c, op, id)
  BY DEF HandleCall
<1>2. CASE DOMAIN box \subseteq DOMAIN box'
  BY <1>2 DEF Lost
<1>3. CASE HandleRemove(c, id)
  <2>1. DOMAIN box \ DOMAIN box' \subseteq {id}
    BY <1>3 DEF HandleRemove, Without, Restrict
  <2>2. call[c] = [state |-> "sent", op |-> "remove", id |-> id] /\ call'[c].state = "handled"
    BY <1>3 DEF HandleRemove, Handle, Typed, StateOK, ClientsOK
  <2>3. UserCall("remove", id)
    BY <2>2 DEF UserCall
  <2> QED BY <2>1, <2>3 DEF Lost
<1>4. CASE HandleEnqueue(c, id) /\ id \notin DOMAIN box
  BY <1>2, <1>4 DEF HandleEnqueue, Enqueued
<1>5. CASE HandleEdit(c, id) \/ HandleRetry(c, id)
  BY <1>2, <1>5 DEF HandleEdit, Edited, HandleRetry, Retried
<1> QED BY <1>1, <1>2, <1>3, <1>4, <1>5 DEF HandleEnqueue, HandleRefused

LEMMA ReportsKeepWrites ==
  ASSUME Barrier, Truthful, Recover \/ Report
  PROVE  WriteStep
<1>1. CASE DOMAIN box \subseteq DOMAIN box'
  BY <1>1, NothingLost DEF Lost
<1>2. CASE Recover
  <2>1. CASE box' = Without(box, DOMAIN box) /\ \E id \in DOMAIN box : RecoverDiscards(box, id)
    <3>1. DOMAIN box' = {}
      BY <2>1 DEF Without, Restrict
    <3> QED BY <2>1, <3>1, AllLost DEF RecoverDiscards
  <2>2. CASE \E id \in DOMAIN box : box' \in {Resumed(box, id), MarkedInterrupted(box, id)}
    BY <1>1, <2>2 DEF Resumed, MarkedInterrupted
  <2> QED BY <1>1, <1>2, <2>1, <2>2 DEF Recover
<1>3. CASE Report
  <2>1. claim.id \in Executing
    BY <1>3 DEF Report, IsCurrent, Executing
  <2>2. IsHead(box, claim.id)
    BY <2>1, OneExecutes
  <2>3. CASE outcome = "complete" /\ box' = Without(box, {claim.id})
    <3>1. DOMAIN box \ DOMAIN box' \subseteq {claim.id}
      BY <2>3 DEF Without, Restrict
    <3>2. applied[claim.id] > 0
      BY <1>3, <2>3 DEF Report, Truthful, OutcomeTrue
    <3> QED BY <3>1, <3>2, NothingLost DEF Lost
  <2>4. CASE outcome = "discard" /\ box' = Without(box, DiscardedFrom(box, claim.id))
    <3>1. DOMAIN box' = {}
      BY <2>2, <2>4, DiscardIsWhole DEF Barrier, Without, Restrict
    <3> QED BY <1>3, <2>4, <3>1, AllLost DEF Report, Truthful, OutcomeTrue
  <2>5. CASE \E b \in BOOLEAN : box' \in {Failed(box, claim.id, b), Rescheduled(box, claim.id, b)}
    BY <1>1, <2>5 DEF Failed, Rescheduled
  <2> QED BY <1>3, <2>3, <2>4, <2>5 DEF Report, Reported
<1> QED BY <1>2, <1>3

LEMMA NextKeepsWrites ==
  ASSUME Typed, Barrier, Truthful, [Next]_vars
  PROVE  WriteStep
<1> USE DEF durable, executor
<1>1. CASE DOMAIN box \subseteq DOMAIN box'
  BY <1>1, NothingLost DEF Lost
<1>2. ASSUME NEW c \in Contexts, HandleCall(c) PROVE WriteStep
  BY <1>2, HandlersKeepWrites, NothingLost
<1>3. CASE Recover \/ Report
  BY <1>3, ReportsKeepWrites
<1>4. ASSUME (\E id \in Ids : ClaimHead(id) \/ BackoffElapses(id)) PROVE DOMAIN box' = DOMAIN box
  BY <1>4 DEF ClaimHead, Claimed, BackoffElapses
<1>5. ASSUME NEW c \in Contexts, BecomeLeader(c) \/ Crash(c) \/ Reopen(c) \/ Post(c)
      PROVE  UNCHANGED box
  BY <1>5 DEF BecomeLeader, Crash, Reopen, Post
<1>6. ASSUME NEW c \in Contexts, ClientStep(c) PROVE UNCHANGED box \/ HandleCall(c)
  BY <1>6 DEF ClientStep, SendEnqueue, SendChange, Send, Return, GiveUp, DeliverResults
<1>7. ASSUME CheckConnection \/ ClaimNothing \/ AskNextRetry \/ WakeUp \/ TimerFires
      PROVE  UNCHANGED box
  BY <1>7 DEF CheckConnection, ClaimNothing, AskNextRetry, WakeUp, TimerFires
<1>8. ASSUME LoseLeadership \/ Apply \/ BackendAnswers \/ Unauthenticated \/ GoOffline
             \/ ComeOnline \/ SignIn
      PROVE  UNCHANGED box
  BY <1>8 DEF LoseLeadership, Apply, BackendAnswers, Succeed, ExecutionFails, BackendRefuses,
     Unauthenticated, GoOffline, ComeOnline, SignIn
<1>9. CASE UNCHANGED vars
  BY <1>1, <1>9 DEF vars, moving
<1> QED BY <1>1, <1>2, <1>3, <1>4, <1>5, <1>6, <1>7, <1>8, <1>9 DEF Next, Step, ExecutorStep

\* No accepted write is lost silently, and none outlives a write it may depend on: under pause an
\* action leaves the table only when it was applied or removed, and a discard leaves nothing later
\* behind (complete, discardAll, recover and remove).
THEOREM WritesStay == Spec => WritesAreKept
<1>1. Init => Claims /\ Distinct
  BY DEF Init, Claims, ExecutingIsHead, ClaimIsCurrent, Distinct
<1>2. Init => Truthful
  BY DEF Init, Truthful, MessagesTrue, OutcomeTrue, ResolvedOnlyIfApplied, Idle
<1>3. Typed /\ Claims /\ Distinct => Barrier
  BY DEF Typed, StateOK, Claims, Barrier
<1>4. Typed /\ Barrier /\ Truthful /\ [Next]_vars
      => [FailureStrategy = "pause" => Lost = {}]_vars
         /\ [\A id \in Lost, later \in DOMAIN box :
               box[later].sequence > box[id].sequence => later \notin DOMAIN box']_vars
  BY NextKeepsWrites DEF WriteStep, SuccessorsToo
<1> QED BY <1>1, <1>2, <1>3, <1>4, InitTyped, NextTyped, NextKeepsClaims, NextIsQueueStep,
           NextIsTruthful, PTL
        DEF Spec, WritesAreKept, AcceptedWritesSurvive, DiscardTakesSuccessors

(***************************************************************************)
(* Without a crash: what each kind of step does to the traces of actions.  *)
(***************************************************************************)
LEMMA LeftAlone ==
  ASSUME Undisturbed, UNCHANGED <<call, promise, inbox, used, lane>>, alive' = Contexts,
         DOMAIN box' = DOMAIN box
  PROVE  Undisturbed'
<1>1. OnlyUsed'
  BY DEF Undisturbed, OnlyUsed, Mentioned, Calls
<1>2. EnqueuedOnce'
  BY DEF Undisturbed, EnqueuedOnce, Mentioned, Calls, Enqueueing
<1>3. AnnouncedStayOut'
  BY DEF Undisturbed, AnnouncedStayOut, AllGone
<1>4. AwaitedIsTracked'
  BY DEF Undisturbed, AwaitedIsTracked, Announced, Enqueueing
<1> QED BY <1>1, <1>2, <1>3, <1>4 DEF Undisturbed

LEMMA SendKeepsTraces ==
  ASSUME Typed, Undisturbed, NEW c \in Contexts, NEW id \in Ids, NEW op \in Operations,
         SendEnqueue(c, id) \/ SendChange(c, op, id)
  PROVE  Undisturbed'
<1>1. /\ call \in [Contexts -> {NoCall} \cup Call]
      /\ promise \in [Contexts -> [Ids -> {"none", "pending", "timeout"} \cup Endings]]
  BY DEF Typed, StateOK, ClientsOK
<1>2. /\ UNCHANGED <<box, alive, lane, inbox>> /\ call[c].state = "none"
      /\ \A d \in Contexts \ {c} : call'[d] = call[d]
  BY <1>1 DEF SendEnqueue, SendChange, Send
<1>3. CASE SendEnqueue(c, id)
  <2>1. /\ id \notin used /\ used' = used \cup {id}
        /\ promise' = [promise EXCEPT ![c] = [promise[c] EXCEPT ![id] = "pending"]]
        /\ call'[c] = [state |-> "sent", op |-> "enqueue", id |-> id]
    BY <1>1, <1>3 DEF SendEnqueue, Send
  <2>2. \A d \in Contexts, one \in Ids :
          promise'[d][one] = IF d = c /\ one = id THEN "pending" ELSE promise[d][one]
    BY <1>1, <2>1
  <2>3. /\ \A one \in Ids : Mentioned(one)' <=> Mentioned(one)
        /\ \A d \in Contexts, one \in Ids :
             Calls(d, one)' <=> (IF d = c THEN one = id ELSE Calls(d, one))
        /\ \A d \in Contexts, one \in Ids :
             Enqueueing(d, one)' <=> (IF d = c THEN one = id ELSE Enqueueing(d, one))
    BY <1>2, <2>1 DEF Mentioned, Calls, Enqueueing
  <2>4. OnlyUsed'
    BY <1>2, <2>1, <2>2, <2>3 DEF Undisturbed, OnlyUsed
  <2>5. EnqueuedOnce'
    <3>1. /\ id \notin DOMAIN box /\ ~Mentioned(id)
          /\ \A d \in Contexts : ~Calls(d, id) /\ promise[d][id] = "none"
      BY <2>1 DEF Undisturbed, OnlyUsed
    <3>2. \A d \in Contexts, one \in Ids : Enqueueing(d, one) => Calls(d, one)
      BY DEF Enqueueing, Calls
    <3>3. ~Enqueueing(c, id) /\ \A one \in Ids : ~Calls(c, one)
      BY <1>2, <3>1, <3>2 DEF Calls
    <3> QED BY <1>2, <2>2, <2>3, <3>1, <3>2, <3>3 DEF Undisturbed, EnqueuedOnce, Gone
  <2>6. AnnouncedStayOut'
    BY <1>2, <2>2 DEF Undisturbed, AnnouncedStayOut, Gone
  <2>7. AwaitedIsTracked'
    <3>1. \A one \in Ids : ~Enqueueing(c, one)
      BY <1>2 DEF Enqueueing
    <3>2. \A d \in Contexts, one \in Ids : Announced(d, one)' <=> Announced(d, one)
      BY <1>2 DEF Announced
    <3> QED BY <1>2, <2>2, <2>3, <3>1, <3>2 DEF Undisturbed, AwaitedIsTracked
  <2> QED BY <1>2, <2>4, <2>5, <2>6, <2>7 DEF Undisturbed
<1>4. CASE SendChange(c, op, id)
  <2>1. /\ id \in DOMAIN box /\ op # "enqueue" /\ UNCHANGED <<promise, used>>
        /\ call'[c] = [state |-> "sent", op |-> op, id |-> id]
    BY <1>1, <1>4 DEF SendChange, Send
  <2>2. /\ \A one \in Ids : Mentioned(one)' <=> Mentioned(one)
        /\ \A d \in Contexts, one \in Ids :
             Calls(d, one)' <=> (IF d = c THEN one = id ELSE Calls(d, one))
        /\ \A d \in Contexts, one \in Ids : Enqueueing(d, one)' <=> Enqueueing(d, one)
    BY <1>2, <2>1 DEF Mentioned, Calls, Enqueueing
  <2>3. OnlyUsed'
    BY <1>2, <2>1, <2>2 DEF Undisturbed, OnlyUsed
  <2>4. EnqueuedOnce'
    BY <1>2, <2>1, <2>2 DEF Undisturbed, EnqueuedOnce
  <2>5. AnnouncedStayOut'
    BY <1>2, <2>1 DEF Undisturbed, AnnouncedStayOut
  <2>6. AwaitedIsTracked'
    BY <1>2, <2>1, <2>2 DEF Undisturbed, AwaitedIsTracked, Announced
  <2> QED BY <1>2, <2>3, <2>4, <2>5, <2>6 DEF Undisturbed
<1> QED BY <1>3, <1>4

\* The leader posts events about entries that it changes or drops; nothing else is said.
LEMMA SpeakingKeepsTraces ==
  ASSUME Typed, Undisturbed, leader \in Contexts, ~lane[leader].busy, NEW posted \in SUBSET Event,
         lane'[leader].busy /\ lane'[leader].events = posted,
         \A h \in Contexts \ {leader} : lane'[h] = lane[h],
         UNCHANGED <<promise, inbox, used, alive>>,
         \A e \in posted : /\ e.id \in used /\ (e.kind \in Gone => e.id \notin DOMAIN box')
                           /\ \A c \in Contexts : ~Enqueueing(c, e.id)',
         \A id \in DOMAIN box \ DOMAIN box' : About(posted, id),
         \A id \in DOMAIN box' \ DOMAIN box :
           /\ id \in used /\ ~Mentioned(id)
           /\ \A c \in Contexts : promise[c][id] \notin Gone /\ ~Enqueueing(c, id)',
         \A c \in Contexts, id \in Ids :
           /\ Calls(c, id)' => Calls(c, id)
           /\ Enqueueing(c, id)' => Enqueueing(c, id)
           /\ Enqueueing(c, id) => Enqueueing(c, id)' \/ id \in DOMAIN box'
  PROVE  Undisturbed'
<1>1. \A id \in Ids : Mentioned(id)' => Mentioned(id) \/ About(posted, id)
  BY DEF Mentioned
<1>2. \A c \in Contexts, id \in Ids :
        /\ Announced(c, id) => Announced(c, id)'
        /\ About(posted, id) => Announced(c, id)'
  BY DEF Announced, About
<1>3. \A id \in Ids : About(posted, id) => id \in used /\ \A c \in Contexts : ~Enqueueing(c, id)'
  BY DEF About
<1>4. OnlyUsed'
  BY <1>1, <1>3 DEF Undisturbed, OnlyUsed
<1>5. EnqueuedOnce'
  BY <1>1, <1>3 DEF Undisturbed, EnqueuedOnce
<1>6. AnnouncedStayOut'
  <2>1. ASSUME NEW events \in SUBSET Event, AllGone(events, box),
               \A id \in Ids : About(events, id) => Mentioned(id)
        PROVE  AllGone(events, box')
    BY <2>1 DEF AllGone, About, Event
  <2>2. lane \in [Contexts -> {Idle} \cup Posts] /\ inbox \in [Contexts -> Seq(SUBSET Event)]
    BY DEF Typed, StateOK, ClientsOK
  <2>3. ASSUME NEW h \in Contexts, lane'[h].busy PROVE AllGone(lane'[h].events, box')
    <3>1. CASE h = leader
      BY <3>1 DEF AllGone
    <3>2. CASE h # leader
      <4>1. lane'[h] = lane[h] /\ lane[h].busy
        BY <2>3, <3>2
      <4>2. lane[h].events \in SUBSET Event /\ AllGone(lane[h].events, box)
        BY <2>2, <4>1, BusyLane DEF Undisturbed, AnnouncedStayOut
      <4>3. \A id \in Ids : About(lane[h].events, id) => Mentioned(id)
        BY <4>1 DEF Mentioned
      <4> QED BY <2>1, <4>1, <4>2, <4>3
    <3> QED BY <3>1, <3>2
  <2>4. ASSUME NEW c \in Contexts, NEW n \in DOMAIN inbox[c] PROVE AllGone(inbox[c][n], box')
    <3>1. inbox[c][n] \in SUBSET Event /\ AllGone(inbox[c][n], box)
      BY <2>2 DEF Undisturbed, AnnouncedStayOut
    <3>2. \A id \in Ids : About(inbox[c][n], id) => Mentioned(id)
      BY DEF Mentioned
    <3> QED BY <2>1, <3>1, <3>2
  <2>5. \A c \in Contexts, id \in Ids : promise[c][id] \in Gone => id \notin DOMAIN box'
    BY DEF Undisturbed, AnnouncedStayOut
  <2> QED BY <2>3, <2>4, <2>5 DEF AnnouncedStayOut
<1>7. AwaitedIsTracked'
  BY <1>2 DEF Undisturbed, AwaitedIsTracked
<1> QED BY <1>4, <1>5, <1>6, <1>7 DEF Undisturbed

\* The handler of a call: what the call is about was enqueued by it, or long before.
LEMMA HandlersKeepTraces ==
  ASSUME Typed, Undisturbed, NEW c \in Contexts, HandleCall(c)
  PROVE  Undisturbed'
<1>1. PICK id \in Ids : \/ HandleEnqueue(c, id) \/ HandleEdit(c, id) \/ HandleRemove(c, id)
                        \/ HandleRetry(c, id) \/ \E op \in Operations : HandleRefused(c, op, id)
  BY DEF HandleCall
<1> DEFINE Removal == {[id |-> id, kind |-> "removed"]}
<1>2. PICK op \in Operations, posted \in {{}, Removal} :
        /\ Handle(c, op, id, posted)
        /\ op = "enqueue" => posted = {} /\ DOMAIN box' = DOMAIN box \cup {id}
        /\ op # "enqueue" => \/ posted = {} /\ DOMAIN box' = DOMAIN box
                             \/ posted = Removal /\ DOMAIN box' = DOMAIN box \ {id}
  <2>1. CASE HandleEnqueue(c, id)
    BY <2>1 DEF HandleEnqueue, Operations, Enqueued
  <2>2. CASE HandleEdit(c, id)
    BY <2>2 DEF HandleEdit, Operations, Edited
  <2>3. CASE HandleRemove(c, id)
    <3>1. DOMAIN box' = DOMAIN box \ {id} /\ Handle(c, "remove", id, Removal)
      BY <2>3 DEF HandleRemove, Without, Restrict
    <3> QED BY <3>1 DEF Operations
  <2>4. CASE HandleRetry(c, id)
    BY <2>4 DEF HandleRetry, Operations, Retried
  <2>5. CASE \E op \in Operations : HandleRefused(c, op, id)
    BY <2>5 DEF HandleRefused, Refused
  <2> QED BY <1>1, <2>1, <2>2, <2>3, <2>4, <2>5
<1>3. /\ leader \in Contexts /\ ~lane[leader].busy /\ UNCHANGED <<promise, inbox, used, alive>>
      /\ lane' = [lane EXCEPT ![leader] = [busy |-> TRUE, events |-> posted, caller |-> c]]
      /\ call[c] = [state |-> "sent", op |-> op, id |-> id]
      /\ call' = [call EXCEPT ![c] = [call[c] EXCEPT !.state = "handled"]]
  BY <1>2 DEF Handle, Typed, StateOK, SurroundingsOK
<1>4. /\ lane \in [Contexts -> {Idle} \cup Posts] /\ call \in [Contexts -> {NoCall} \cup Call]
  BY DEF Typed, StateOK, ClientsOK
<1>5. /\ lane'[leader].busy /\ lane'[leader].events = posted
      /\ \A h \in Contexts \ {leader} : lane'[h] = lane[h]
  BY <1>3, <1>4
<1>6. /\ call'[c].state = "handled" /\ call'[c].id = id
      /\ \A d \in Contexts \ {c} : call'[d] = call[d]
  BY <1>3, <1>4
<1>7. Calls(c, id) /\ id \in used
  BY <1>3 DEF Calls, Undisturbed, OnlyUsed
<1>8. \A d \in Contexts, one \in Ids :
        /\ Calls(d, one)' => Calls(d, one)
        /\ Enqueueing(d, one)' => Enqueueing(d, one) /\ d # c
  BY <1>3, <1>6 DEF Calls, Enqueueing
<1>9. \A d \in Contexts : ~Enqueueing(d, id)'
  BY <1>7, <1>8 DEF Undisturbed, EnqueuedOnce
<1>10. op = "enqueue" => /\ ~Mentioned(id) /\ \A d \in Contexts : promise[d][id] \notin Gone
  <2>1. op = "enqueue" => Enqueueing(c, id)
    BY <1>3 DEF Enqueueing
  <2> QED BY <2>1 DEF Undisturbed, EnqueuedOnce
<1>11. \A d \in Contexts, one \in Ids :
         Enqueueing(d, one) => Enqueueing(d, one)' \/ one \in DOMAIN box'
  BY <1>2, <1>3, <1>6 DEF Enqueueing
<1>12. posted \in SUBSET Event
  BY DEF Event, Endings
<1>13. /\ \A e \in posted : e.id = id /\ id \notin DOMAIN box'
       /\ \A one \in DOMAIN box \ DOMAIN box' : About(posted, one)
       /\ \A one \in DOMAIN box' \ DOMAIN box : one = id /\ op = "enqueue"
  <2>1. CASE posted = {}
    BY <1>2, <2>1
  <2>2. CASE posted = Removal /\ op # "enqueue" /\ DOMAIN box' = DOMAIN box \ {id}
    BY <2>2 DEF About
  <2> QED BY <1>2, <2>1, <2>2
<1> HIDE DEF Removal
<1> QED BY <1>3, <1>5, <1>7, <1>8, <1>9, <1>10, <1>11, <1>12, <1>13, SpeakingKeepsTraces

LEMMA ExecutorKeepsTraces ==
  ASSUME Typed, Undisturbed, Recover \/ Report
  PROVE  Undisturbed'
<1>1. /\ UNCHANGED <<call, promise, inbox, used, alive>> /\ leader \in Contexts
      /\ ~lane[leader].busy /\ lane \in [Contexts -> {Idle} \cup Posts]
  BY DEF Recover, Report, clients, surroundings, LaneIsFree, Typed, StateOK, SurroundingsOK
<1>2. CASE UNCHANGED lane /\ DOMAIN box' = DOMAIN box
  BY <1>1, <1>2, LeftAlone DEF Undisturbed
<1>3. ASSUME NEW kind \in Endings, NEW ids \in SUBSET DOMAIN box,
             Publish(leader, EventsFor(ids, kind)), DOMAIN box' \subseteq DOMAIN box,
             DOMAIN box \ DOMAIN box' \subseteq ids,
             kind \in Gone => ids \cap DOMAIN box' = {}
      PROVE  Undisturbed'
  <2>1. DOMAIN box \subseteq Ids
    BY DEF Typed, StateOK, IsTable
  <2>2. EventsFor(ids, kind) \in SUBSET Event
    BY <2>1, EventsForType
  <2>3. /\ lane'[leader].busy /\ lane'[leader].events = EventsFor(ids, kind)
        /\ \A h \in Contexts \ {leader} : lane'[h] = lane[h]
    BY <1>1, <1>3 DEF Publish
  <2>4. \A d \in Contexts, id \in Ids :
          /\ Calls(d, id)' => Calls(d, id)
          /\ Enqueueing(d, id)' => Enqueueing(d, id)
          /\ Enqueueing(d, id) => Enqueueing(d, id)' \/ id \in DOMAIN box'
    BY <1>1 DEF Calls, Enqueueing
  <2>5. \A one \in DOMAIN box : one \in used /\ \A d \in Contexts : ~Enqueueing(d, one)
    BY <2>1 DEF Undisturbed, OnlyUsed, EnqueuedOnce
  <2>6. \A e \in EventsFor(ids, kind) : e.id \in ids /\ e.kind = kind
    BY DEF EventsFor
  <2>7. \A one \in ids : About(EventsFor(ids, kind), one)
    <3>1. ASSUME NEW one \in ids PROVE About(EventsFor(ids, kind), one)
      <4>1. [id |-> one, kind |-> kind] \in EventsFor(ids, kind)
        BY DEF EventsFor
      <4> QED BY <4>1 DEF About
    <3> QED BY <3>1
  <2>8. \A e \in EventsFor(ids, kind) :
          /\ e.id \in used /\ (e.kind \in Gone => e.id \notin DOMAIN box')
          /\ \A c \in Contexts : ~Enqueueing(c, e.id)'
    <3>1. ASSUME NEW e \in EventsFor(ids, kind)
          PROVE  /\ e.id \in used /\ (e.kind \in Gone => e.id \notin DOMAIN box')
                 /\ \A c \in Contexts : ~Enqueueing(c, e.id)'
      <4>1. PICK one \in ids : one = e.id
        BY <2>6
      <4>2. one \in Ids /\ one \in DOMAIN box
        BY <2>1
      <4>3. \A c \in Contexts : ~Enqueueing(c, one)'
        BY <1>1, <2>5, <4>2 DEF Enqueueing
      <4> QED BY <1>3, <2>5, <2>6, <4>1, <4>2, <4>3
    <3> QED BY <3>1
  <2>9. /\ \A id \in DOMAIN box \ DOMAIN box' : About(EventsFor(ids, kind), id)
        /\ DOMAIN box' \ DOMAIN box = {}
    BY <1>3, <2>7
  <2> QED BY <1>1, <2>2, <2>3, <2>4, <2>8, <2>9, SpeakingKeepsTraces
<1>4. CASE Recover
  <2>1. CASE box' = Without(box, DOMAIN box) /\ Publish(leader, EventsFor(DOMAIN box, "discarded"))
    <3>1. DOMAIN box' = {}
      BY <2>1 DEF Without, Restrict
    <3> QED BY <1>3, <2>1, <3>1 DEF Endings
  <2>2. CASE UNCHANGED lane
    <3>1. DOMAIN box' = DOMAIN box \/ box' = Without(box, DOMAIN box)
      BY <1>4 DEF Recover, Resumed, MarkedInterrupted
    <3>2. CASE DOMAIN box' = DOMAIN box
      BY <1>2, <2>2, <3>2
    <3> QED BY <1>2, <1>4, <2>1, <2>2, <3>2 DEF Recover, Resumed, MarkedInterrupted
  <2> QED BY <1>4, <2>1, <2>2 DEF Recover
<1>5. CASE Report
  <2>1. claim.id \in DOMAIN box
    BY <1>5 DEF Report, IsCurrent
  <2>2. DiscardedFrom(box, claim.id) \subseteq DOMAIN box
    BY DEF DiscardedFrom
  <2>3. CASE box' = Without(box, {claim.id}) /\ Publish(leader, EventsFor({claim.id}, "completed"))
    <3>1. DOMAIN box' = DOMAIN box \ {claim.id}
      BY <2>3 DEF Without, Restrict
    <3> QED BY <1>3, <2>1, <2>3, <3>1 DEF Endings
  <2>4. CASE /\ box' = Without(box, DiscardedFrom(box, claim.id))
             /\ Publish(leader, EventsFor(DiscardedFrom(box, claim.id), "discarded"))
    <3>1. DOMAIN box' = DOMAIN box \ DiscardedFrom(box, claim.id)
      BY <2>4 DEF Without, Restrict
    <3> QED BY <1>3, <2>2, <2>4, <3>1 DEF Endings
  <2>5. CASE DOMAIN box' = DOMAIN box /\ Publish(leader, EventsFor({claim.id}, "failed"))
    BY <1>3, <2>1, <2>5 DEF Endings, Gone
  <2> QED BY <1>2, <1>5, <2>3, <2>4, <2>5 DEF Report, Reported, Failed, Rescheduled
<1> QED BY <1>4, <1>5

\* Results that leave the leader or reach a client: what is under way afterwards was before,
\* and the client that takes some results waits for none of these actions any more.
LEMMA ResultsKeepTraces ==
  ASSUME Typed, Undisturbed, NEW c \in Contexts, NEW events \in SUBSET Event,
         promise' = [promise EXCEPT ![c] = Settled(promise[c], events)],
         UNCHANGED <<box, used, alive>>,
         AllGone(events, box), \A id \in Ids : About(events, id) => Mentioned(id),
         \A id \in Ids : Mentioned(id)' => Mentioned(id),
         \A d \in Contexts, id \in Ids :
           Announced(d, id) => Announced(d, id)' \/ (d = c /\ About(events, id)),
         \A d \in Contexts, id \in Ids : /\ Calls(d, id)' => Calls(d, id)
                                         /\ Enqueueing(d, id)' <=> Enqueueing(d, id),
         \A h \in Contexts : lane'[h].busy => AllGone(lane'[h].events, box),
         \A d \in Contexts : \A n \in DOMAIN inbox'[d] : AllGone(inbox'[d][n], box)
  PROVE  Undisturbed'
<1>1. promise \in [Contexts -> [Ids -> {"none", "pending", "timeout"} \cup Endings]]
  BY DEF Typed, StateOK, ClientsOK
<1>2. /\ \A d \in Contexts \ {c} : promise'[d] = promise[d]
      /\ promise'[c] = Settled(promise[c], events)
  BY <1>1
<1>3. ASSUME NEW d \in Contexts, NEW id \in Ids
      PROVE  /\ promise'[d][id] = promise[d][id] \/ (d = c /\ About(events, id))
             /\ d = c /\ About(events, id) => promise'[d][id] # "pending"
             /\ promise'[d][id] \in Gone => promise[d][id] \in Gone \/ id \notin DOMAIN box
  <2>1. CASE d # c
    BY <1>2, <2>1
  <2>2. CASE d = c /\ ~About(events, id)
    BY <1>2, <2>2, SettledValue
  <2>3. CASE d = c /\ About(events, id)
    <3>1. promise'[c][id] # "pending"
      BY <1>2, <2>3, SettledPending
    <3>2. promise'[c][id] = promise[c][id] \/ \E e \in events : e.id = id /\ promise'[c][id] = e.kind
      BY <1>2, SettledValue
    <3> QED BY <2>3, <3>1, <3>2 DEF AllGone
  <2> QED BY <2>1, <2>2, <2>3
<1>4. OnlyUsed'
  BY <1>3 DEF Undisturbed, OnlyUsed
<1>5. EnqueuedOnce'
  <2>1. ASSUME NEW d \in Contexts, NEW id \in Ids, Enqueueing(d, id)'
        PROVE  /\ id \notin DOMAIN box /\ ~Mentioned(id)'
               /\ \A g \in Contexts : promise'[g][id] \notin Gone /\ (Calls(g, id)' => g = d)
    <3>1. /\ id \notin DOMAIN box /\ ~Mentioned(id) /\ ~About(events, id)
          /\ \A g \in Contexts : promise[g][id] \notin Gone /\ (Calls(g, id) => g = d)
      BY <2>1 DEF Undisturbed, EnqueuedOnce
    <3> QED BY <1>3, <3>1
  <2> QED BY <2>1 DEF EnqueuedOnce
<1>6. AnnouncedStayOut'
  BY <1>3 DEF Undisturbed, AnnouncedStayOut
<1>7. AwaitedIsTracked'
  BY <1>3 DEF Undisturbed, AwaitedIsTracked
<1> QED BY <1>4, <1>5, <1>6, <1>7 DEF Undisturbed

LEMMA AppendedItems ==
  ASSUME NEW S, NEW s \in Seq(S), NEW e \in S
  PROVE  /\ \A n \in DOMAIN Append(s, e) :
              Append(s, e)[n] = e \/ (n \in DOMAIN s /\ Append(s, e)[n] = s[n])
         /\ \A n \in DOMAIN s : n \in DOMAIN Append(s, e) /\ Append(s, e)[n] = s[n]
OBVIOUS

LEMMA TailItems ==
  ASSUME NEW S, NEW s \in Seq(S), s # <<>>
  PROVE  /\ \A n \in DOMAIN Tail(s) : n + 1 \in DOMAIN s /\ Tail(s)[n] = s[n + 1]
         /\ \A n \in DOMAIN s \ {1} : n - 1 \in DOMAIN Tail(s) /\ Tail(s)[n - 1] = s[n]
OBVIOUS

LEMMA PostKeepsTraces ==
  ASSUME Typed, Undisturbed, NEW c \in Contexts, Post(c)
  PROVE  Undisturbed'
<1>1. /\ lane \in [Contexts -> {Idle} \cup Posts] /\ inbox \in [Contexts -> Seq(SUBSET Event)]
      /\ call \in [Contexts -> {NoCall} \cup Call]
  BY DEF Typed, StateOK, ClientsOK
<1>2. PICK events \in SUBSET Event : events = lane[c].events
  BY <1>1, BusyLane DEF Post
<1>3. /\ lane[c].busy /\ ~lane'[c].busy /\ \A h \in Contexts \ {c} : lane'[h] = lane[h]
      /\ promise' = [promise EXCEPT ![c] = Settled(promise[c], events)]
      /\ UNCHANGED <<box, used, alive>> /\ alive = Contexts
  BY <1>1, <1>2 DEF Post, Idle, Undisturbed
<1>4. \A d \in Contexts : inbox'[d] = IF d # c /\ events # {} THEN Append(inbox[d], events)
                                      ELSE inbox[d]
  BY <1>2, <1>3 DEF Post
<1>5. \A d \in Contexts : call'[d] = call[d] \/
        (call[d].state = "handled" /\ call'[d] = [call[d] EXCEPT !.state = "answered"])
  BY <1>2, <1>3 DEF Post, Typed, LanesServeCalls, Serves
<1>6. ASSUME NEW d \in Contexts, NEW n \in DOMAIN inbox'[d]
      PROVE  inbox'[d][n] = events \/ (n \in DOMAIN inbox[d] /\ inbox'[d][n] = inbox[d][n])
  <2>1. CASE inbox'[d] = Append(inbox[d], events)
    BY <1>1, <2>1, AppendedItems
  <2>2. CASE inbox'[d] = inbox[d]
    BY <2>2
  <2> QED BY <1>4, <2>1, <2>2
<1>7. ASSUME NEW d \in Contexts, NEW n \in DOMAIN inbox[d]
      PROVE  n \in DOMAIN inbox'[d] /\ inbox'[d][n] = inbox[d][n]
  <2>1. CASE inbox'[d] = Append(inbox[d], events)
    BY <1>1, <2>1, AppendedItems
  <2>2. CASE inbox'[d] = inbox[d]
    BY <2>2
  <2> QED BY <1>4, <2>1, <2>2
<1>8. ASSUME NEW d \in Contexts, d # c, events # {}
      PROVE  \E n \in DOMAIN inbox'[d] : inbox'[d][n] = events
  <2>1. inbox'[d] = Append(inbox[d], events) /\ inbox[d] \in Seq(SUBSET Event)
    BY <1>1, <1>4, <1>8
  <2>2. Len(inbox[d]) + 1 \in DOMAIN inbox'[d] /\ inbox'[d][Len(inbox[d]) + 1] = events
    BY <2>1
  <2> QED BY <2>2
<1>9. AllGone(events, box) /\ \A id \in Ids : About(events, id) => Mentioned(id)
  BY <1>2, <1>3 DEF Undisturbed, AnnouncedStayOut, Mentioned
<1>10. ASSUME NEW id \in Ids, Mentioned(id)' PROVE Mentioned(id)
  <2>1. CASE \E h \in Contexts : lane'[h].busy /\ About(lane'[h].events, id)
    BY <1>3, <2>1 DEF Mentioned
  <2>2. CASE \E d \in Contexts : \E n \in DOMAIN inbox'[d] : About(inbox'[d][n], id)
    BY <1>6, <1>9, <2>2 DEF Mentioned
  <2> QED BY <1>10, <2>1, <2>2 DEF Mentioned
<1>11. ASSUME NEW d \in Contexts, NEW id \in Ids, Announced(d, id)
       PROVE  Announced(d, id)' \/ (d = c /\ About(events, id))
  <2>1. CASE \E h \in Contexts \ {c} : lane[h].busy /\ \E e \in lane[h].events : e.id = id
    BY <1>3, <2>1 DEF Announced
  <2>2. CASE \E n \in DOMAIN inbox[d] : \E e \in inbox[d][n] : e.id = id
    BY <1>7, <2>2 DEF Announced
  <2>3. CASE About(events, id) /\ d # c
    <3>1. PICK n \in DOMAIN inbox'[d] : inbox'[d][n] = events
      BY <1>8, <2>3 DEF About
    <3> QED BY <2>3, <3>1 DEF Announced, About
  <2> QED BY <1>2, <1>11, <2>1, <2>2, <2>3 DEF Announced, About
<1>12. \A d \in Contexts, id \in Ids : /\ Calls(d, id)' => Calls(d, id)
                                       /\ Enqueueing(d, id)' <=> Enqueueing(d, id)
  <2>1. ASSUME NEW d \in Contexts
        PROVE  /\ call'[d].state # "none" => call[d].state # "none" /\ call'[d].id = call[d].id
               /\ call'[d].state = "sent" => call'[d] = call[d]
               /\ call[d].state = "sent" => call'[d] = call[d]
    <3>1. CASE call'[d] = call[d]
      BY <3>1
    <3>2. CASE call[d].state = "handled" /\ call'[d] = [call[d] EXCEPT !.state = "answered"]
      <4>1. call[d] \in Call
        BY <1>1, <3>2 DEF NoCall
      <4> QED BY <3>2, <4>1 DEF Call
    <3> QED BY <1>5, <3>1, <3>2
  <2> QED BY <2>1 DEF Calls, Enqueueing
<1>13. \A h \in Contexts : lane'[h].busy => AllGone(lane'[h].events, box)
  BY <1>3 DEF Undisturbed, AnnouncedStayOut
<1>14. ASSUME NEW d \in Contexts, NEW n \in DOMAIN inbox'[d] PROVE AllGone(inbox'[d][n], box)
  BY <1>6, <1>9 DEF Undisturbed, AnnouncedStayOut
<1>15. \A id \in Ids : Mentioned(id)' => Mentioned(id)
  BY <1>10
<1>16. \A d \in Contexts, id \in Ids :
         Announced(d, id) => Announced(d, id)' \/ (d = c /\ About(events, id))
  BY <1>11
<1> QED BY <1>3, <1>9, <1>12, <1>13, <1>14, <1>15, <1>16, ResultsKeepTraces

LEMMA DeliveryKeepsTraces ==
  ASSUME Typed, Undisturbed, NEW c \in Contexts, DeliverResults(c)
  PROVE  Undisturbed'
<1>1. inbox \in [Contexts -> Seq(SUBSET Event)] /\ inbox[c] # <<>>
  BY DEF DeliverResults, Typed, StateOK, ClientsOK
<1>2. PICK events \in SUBSET Event : events = Head(inbox[c])
  BY <1>1
<1>3. /\ promise' = [promise EXCEPT ![c] = Settled(promise[c], events)]
      /\ UNCHANGED <<box, used, alive, lane, call>>
  BY <1>2 DEF DeliverResults
<1>4. \A d \in Contexts : inbox'[d] = IF d = c THEN Tail(inbox[d]) ELSE inbox[d]
  BY <1>1 DEF DeliverResults
<1>5. ASSUME NEW d \in Contexts, NEW n \in DOMAIN inbox'[d]
      PROVE  \E m \in DOMAIN inbox[d] : inbox'[d][n] = inbox[d][m]
  <2>1. CASE d = c
    <3>1. n + 1 \in DOMAIN inbox[d] /\ inbox'[d][n] = inbox[d][n + 1]
      <4>1. inbox'[d] = Tail(inbox[c]) /\ inbox[c] \in Seq(SUBSET Event)
        BY <1>1, <1>4, <2>1
      <4> QED BY <1>1, <2>1, <4>1, TailItems
    <3> QED BY <3>1
  <2>2. CASE d # c
    BY <1>4, <2>2
  <2> QED BY <2>1, <2>2
<1>6. ASSUME NEW d \in Contexts, NEW n \in DOMAIN inbox[d]
      PROVE  (d = c /\ inbox[d][n] = events) \/ \E m \in DOMAIN inbox'[d] : inbox'[d][m] = inbox[d][n]
  <2>1. CASE d = c /\ n = 1
    BY <1>1, <1>2, <2>1
  <2>2. CASE d = c /\ n # 1
    <3>1. n - 1 \in DOMAIN inbox'[d] /\ inbox'[d][n - 1] = inbox[d][n]
      <4>1. inbox'[d] = Tail(inbox[c]) /\ inbox[c] \in Seq(SUBSET Event)
        BY <1>1, <1>4, <2>2
      <4> QED BY <1>1, <2>2, <4>1, TailItems
    <3> QED BY <3>1
  <2>3. CASE d # c
    BY <1>4, <2>3
  <2> QED BY <2>1, <2>2, <2>3
<1>7. 1 \in DOMAIN inbox[c] /\ inbox[c][1] = events
  BY <1>1, <1>2
<1>8. AllGone(events, box) /\ \A id \in Ids : About(events, id) => Mentioned(id)
  BY <1>7 DEF Undisturbed, AnnouncedStayOut, Mentioned
<1>9. ASSUME NEW id \in Ids, Mentioned(id)' PROVE Mentioned(id)
  BY <1>3, <1>5, <1>9 DEF Mentioned
<1>10. ASSUME NEW d \in Contexts, NEW id \in Ids, Announced(d, id)
       PROVE  Announced(d, id)' \/ (d = c /\ About(events, id))
  BY <1>3, <1>6, <1>10 DEF Announced, About
<1>11. \A d \in Contexts, id \in Ids : /\ Calls(d, id)' => Calls(d, id)
                                       /\ Enqueueing(d, id)' <=> Enqueueing(d, id)
  BY <1>3 DEF Calls, Enqueueing
<1>12. \A h \in Contexts : lane'[h].busy => AllGone(lane'[h].events, box)
  BY <1>3 DEF Undisturbed, AnnouncedStayOut
<1>13. ASSUME NEW d \in Contexts, NEW n \in DOMAIN inbox'[d] PROVE AllGone(inbox'[d][n], box)
  BY <1>5 DEF Undisturbed, AnnouncedStayOut
<1>15. \A id \in Ids : Mentioned(id)' => Mentioned(id)
  BY <1>9
<1>16. \A d \in Contexts, id \in Ids :
         Announced(d, id) => Announced(d, id)' \/ (d = c /\ About(events, id))
  BY <1>10
<1> QED BY <1>3, <1>8, <1>11, <1>12, <1>13, <1>15, <1>16, ResultsKeepTraces

\* A call ends: answered, or given up with a completion that is rejected.
LEMMA EndingKeepsTraces ==
  ASSUME Typed, Undisturbed, NEW c \in Contexts, Return(c) \/ GiveUp(c)
  PROVE  Undisturbed'
<1>1. /\ lane \in [Contexts -> {Idle} \cup Posts] /\ call \in [Contexts -> {NoCall} \cup Call]
      /\ promise \in [Contexts -> [Ids -> {"none", "pending", "timeout"} \cup Endings]]
  BY DEF Typed, StateOK, ClientsOK
<1>2. /\ UNCHANGED <<box, used, alive, inbox>> /\ call'[c].state = "none"
      /\ \A d \in Contexts \ {c} : call'[d] = call[d]
  BY <1>1 DEF Return, GiveUp, durable, surroundings, NoCall
<1>3. ASSUME NEW h \in Contexts
      PROVE  /\ lane'[h].busy <=> lane[h].busy
             /\ lane[h].busy => lane'[h].events = lane[h].events
  <2>1. lane'[h] \in {lane[h], Uncalled(lane[h], c)}
    BY DEF Return, GiveUp
  <2>2. CASE lane[h].busy
    <3>1. lane[h] \in Posts
      BY <1>1, <2>2, BusyLane
    <3>2. CASE lane'[h] = [lane[h] EXCEPT !.caller = Nobody]
      BY <3>1, <3>2 DEF Posts
    <3> QED BY <2>1, <3>2 DEF Uncalled
  <2>3. CASE ~lane[h].busy
    BY <2>1, <2>3 DEF Uncalled
  <2> QED BY <2>2, <2>3
<1>4. /\ \A id \in Ids : Mentioned(id)' <=> Mentioned(id)
      /\ \A d \in Contexts, id \in Ids : Announced(d, id)' <=> Announced(d, id)
  BY <1>2, <1>3 DEF Mentioned, Announced
<1>5. \A d \in Contexts, id \in Ids :
        /\ Calls(d, id)' => Calls(d, id)
        /\ Enqueueing(d, id)' <=> Enqueueing(d, id) /\ d # c
  BY <1>2 DEF Calls, Enqueueing
<1>6. ASSUME NEW d \in Contexts, NEW id \in Ids
      PROVE  /\ promise'[d][id] \in {promise[d][id], "timeout"}
             /\ promise[d][id] = "none" => promise'[d][id] = "none"
             /\ d = c /\ Enqueueing(c, id) => promise'[d][id] # "pending"
  <2>1. CASE Return(c)
    BY <2>1 DEF Return, Enqueueing
  <2>2. CASE GiveUp(c)
    <3>1. call[c] \in Call
      BY <1>1, <2>2 DEF GiveUp, NoCall
    <3>2. PICK one \in Ids : one = call[c].id
      BY <3>1 DEF Call
    <3>3. CASE call[c].op = "enqueue" /\ promise[c][one] = "pending"
      <4>1. promise' = [promise EXCEPT ![c] = [promise[c] EXCEPT ![one] = "timeout"]]
        BY <2>2, <3>2, <3>3 DEF GiveUp
      <4>2. promise'[d][id] = IF d = c /\ id = one THEN "timeout" ELSE promise[d][id]
        BY <1>1, <4>1
      <4> QED BY <3>2, <3>3, <4>2 DEF Enqueueing
    <3>4. CASE ~(call[c].op = "enqueue" /\ promise[c][one] = "pending")
      <4>1. promise' = promise
        BY <2>2, <3>2, <3>4 DEF GiveUp
      <4> QED BY <3>2, <3>4, <4>1 DEF Enqueueing
    <3> QED BY <3>3, <3>4
  <2> QED BY <2>1, <2>2
<1>7. OnlyUsed'
  BY <1>2, <1>4, <1>5, <1>6 DEF Undisturbed, OnlyUsed
<1>8. EnqueuedOnce'
  BY <1>2, <1>4, <1>5, <1>6 DEF Undisturbed, EnqueuedOnce, Gone
<1>9. AnnouncedStayOut'
  <2>1. \A h \in Contexts : lane'[h].busy => AllGone(lane'[h].events, box)
    BY <1>3 DEF Undisturbed, AnnouncedStayOut
  <2> QED BY <1>2, <1>6, <2>1 DEF Undisturbed, AnnouncedStayOut, Gone
<1>10. AwaitedIsTracked'
  BY <1>2, <1>4, <1>5, <1>6 DEF Undisturbed, AwaitedIsTracked
<1> QED BY <1>2, <1>7, <1>8, <1>9, <1>10 DEF Undisturbed

\* As long as no context crashes, every step keeps the traces of actions together.
LEMMA NextKeepsTraces ==
  (spent["crash"] = 0 => Undisturbed) /\ Typed /\ [Next]_vars
    => (spent["crash"] = 0 => Undisturbed)'
<1> SUFFICES ASSUME spent["crash"] = 0 => Undisturbed, Typed, [Next]_vars, spent'["crash"] = 0
             PROVE  Undisturbed'
  OBVIOUS
<1> USE DEF durable, executor, surroundings, clients
<1>1. spent \in [Disruptions -> Nat] /\ "crash" \in Disruptions
  BY DEF Typed, StateOK, SurroundingsOK, Disruptions
<1>2. \A d \in Disruptions : Disrupt(d) => spent'[d] = spent[d] + 1
  BY <1>1 DEF Disrupt
<1>3. \A c \in Contexts : ~Crash(c)
  BY <1>1, <1>2 DEF Crash
<1>4. ASSUME NEW d \in Disruptions, Disrupt(d), d # "crash" PROVE spent["crash"] = 0
  BY <1>1, <1>4 DEF Disrupt
<1>5. ASSUME UNCHANGED <<call, promise, inbox, used, lane, alive>>, DOMAIN box' = DOMAIN box, Undisturbed
      PROVE  Undisturbed'
  BY <1>5, LeftAlone DEF Undisturbed
<1>6. CASE UNCHANGED vars
  <2>1. spent["crash"] = 0
    BY <1>6 DEF vars, moving
  <2> QED BY <1>5, <1>6, <2>1 DEF vars, moving
<1>7. ASSUME NEW c \in Contexts, BecomeLeader(c) \/ Reopen(c) PROVE Undisturbed'
  <2>1. spent["crash"] = 0
    BY <1>7 DEF BecomeLeader, Reopen
  <2>2. c \in alive /\ BecomeLeader(c)
    BY <1>7, <2>1 DEF Undisturbed, Reopen, BecomeLeader
  <2> QED BY <1>5, <2>1, <2>2 DEF BecomeLeader
<1>8. ASSUME NEW c \in Contexts, Post(c) \/ DeliverResults(c) PROVE Undisturbed'
  <2>1. spent["crash"] = 0
    BY <1>8 DEF Post, DeliverResults
  <2> QED BY <1>8, <2>1, PostKeepsTraces, DeliveryKeepsTraces
<1>9. ASSUME NEW c \in Contexts, NEW id \in Ids, NEW op \in Operations,
             SendEnqueue(c, id) \/ SendChange(c, op, id)
      PROVE  Undisturbed'
  <2>1. spent["crash"] = 0
    BY <1>4, <1>9 DEF SendEnqueue, SendChange, Disruptions
  <2> QED BY <1>9, <2>1, SendKeepsTraces
<1>10. ASSUME NEW c \in Contexts, HandleCall(c) PROVE Undisturbed'
  <2>1. spent["crash"] = 0
    BY <1>10 DEF HandleCall, HandleEnqueue, HandleEdit, HandleRemove, HandleRetry, HandleRefused, Handle
  <2> QED BY <1>10, <2>1, HandlersKeepTraces
<1>11. ASSUME NEW c \in Contexts, Return(c) \/ GiveUp(c) PROVE Undisturbed'
  <2>1. spent["crash"] = 0
    BY <1>4, <1>11 DEF Return, GiveUp, Disruptions
  <2> QED BY <1>11, <2>1, EndingKeepsTraces
<1>12. CASE LoseLeadership
  <2>1. spent["crash"] = 0
    BY <1>4, <1>12 DEF LoseLeadership, Disruptions
  <2> QED BY <1>5, <1>12, <2>1 DEF LoseLeadership
<1>13. CASE Recover \/ Report
  <2>1. spent["crash"] = 0
    BY <1>13 DEF Recover, Report
  <2> QED BY <1>13, <2>1, ExecutorKeepsTraces
<1>14. CASE CheckConnection \/ ClaimNothing \/ AskNextRetry \/ WakeUp \/ TimerFires \/ Apply
            \/ BackendAnswers
  <2>1. UNCHANGED <<call, promise, inbox, used, lane, alive, box, spent>>
    BY <1>14 DEF CheckConnection, ClaimNothing, AskNextRetry, WakeUp, TimerFires, Apply,
       BackendAnswers, Succeed, ExecutionFails, BackendRefuses
  <2> QED BY <1>5, <2>1
<1>15. CASE Unauthenticated \/ GoOffline
  <2>1. UNCHANGED <<call, promise, inbox, used, lane, alive, box>> /\ spent["crash"] = 0
    BY <1>4, <1>15 DEF Unauthenticated, GoOffline, Disruptions
  <2> QED BY <1>5, <2>1
<1>16. CASE ComeOnline \/ SignIn
  <2>1. UNCHANGED <<call, promise, inbox, used, lane, alive, box, spent>>
    BY <1>16 DEF ComeOnline, SignIn
  <2> QED BY <1>5, <2>1
<1>17. ASSUME NEW id \in Ids, ClaimHead(id) \/ BackoffElapses(id) PROVE Undisturbed'
  <2>1. UNCHANGED <<call, promise, inbox, used, lane, alive, spent>> /\ DOMAIN box' = DOMAIN box
    BY <1>17 DEF ClaimHead, Claimed, BackoffElapses
  <2> QED BY <1>5, <2>1
<1>18. "enqueue" \in Operations
  BY DEF Operations
<1> QED BY <1>3, <1>6, <1>7, <1>8, <1>9, <1>10, <1>11, <1>12, <1>13, <1>14, <1>15, <1>16, <1>17,
           <1>18 DEF Next, Step, ExecutorStep, ClientStep

\* What a client may rely on: a completion is resolved only for what the backend applied; and
\* without a crash, what it is told has ended stays out of the table, and the result of every
\* action it awaits is in the table or on its way (createOntologyOutbox, outboxService).
THEOREM ClientsRely == Spec => []ClientsCanRely
<1>1. Init => Truthful
  BY DEF Init, Truthful, MessagesTrue, OutcomeTrue, ResolvedOnlyIfApplied, Idle
<1>2. Init => Undisturbed
  BY DEF Init, Undisturbed, OnlyUsed, EnqueuedOnce, AnnouncedStayOut, AwaitedIsTracked, Mentioned,
     Calls, Enqueueing, Gone, Idle, NoCall
<1>3. Truthful /\ (spent["crash"] = 0 => Undisturbed) => ClientsCanRely
  BY DEF Truthful, MessagesTrue, Undisturbed, AnnouncedStayOut, AwaitedIsTracked, ClientsCanRely,
     RejectedStaysOut, PendingIsTracked, Gone, Enqueueing
<1> QED BY <1>1, <1>2, <1>3, InitTyped, NextTyped, NextIsTruthful, NextKeepsTraces, PTL DEF Spec

(***************************************************************************)
(* How often the outbox executes.  An entry still owes the executions its  *)
(* retries allow; claiming it spends one of them, and what gives it new    *)
(* ones is a call of a client or a disruption.  The balance is kept as     *)
(* the cardinality of the set of executions that are owed, so that it      *)
(* needs no sum over the table.                                            *)
(***************************************************************************)
AtLeast(low, n) == IF n < low THEN low ELSE n

\* The executions an entry may still have before its retries are exhausted.
Rounds(most, e) ==
  IF e.status = "queued" THEN AtLeast(1, most + 1 - e.attempts)
  ELSE IF e.status = "executing" THEN AtLeast(0, most - e.attempts)
  ELSE AtLeast(0, most + 1 - e.attempts)

Owed(most, t) == {r \in (DOMAIN t) \X (Nat \ {0}) : r[2] <= Rounds(most, t[r[1]])}

LEMMA RoundsType ==
  ASSUME NEW most \in Nat, NEW e \in Entry
  PROVE  Rounds(most, e) \in Nat
BY DEF Rounds, AtLeast, Entry

\* A set that gains at most n pairs with the same first component.
LEMMA GainsFew ==
  ASSUME NEW S, IsFiniteSet(S), NEW T, NEW id, NEW low \in Nat, NEW n \in Nat,
         T \subseteq S \cup ({id} \X ((low + 1)..(low + n)))
  PROVE  IsFiniteSet(T) /\ Cardinality(T) <= Cardinality(S) + n
<1> DEFINE I == (low + 1)..(low + n)
           P == {id} \X I
<1>1. IsFiniteSet(I) /\ Cardinality(I) = n
  <2>1. low + 1 \in Int /\ low + n \in Int
    OBVIOUS
  <2>2. Cardinality(I) = IF low + 1 > low + n THEN 0 ELSE (low + n) - (low + 1) + 1
    BY <2>1, FS_Interval
  <2> QED BY <2>1, <2>2, FS_Interval
<1>2. IsFiniteSet({id}) /\ Cardinality({id}) = 1
  BY FS_Singleton
<1>3. IsFiniteSet(P) /\ Cardinality(P) = 1 * Cardinality(I)
  <2> HIDE DEF I
  <2> QED BY <1>1, <1>2, FS_Product
<1> HIDE DEF I, P
<1>4. IsFiniteSet(S \cap P)
  BY <1>3, FS_Intersection
<1>5. IsFiniteSet(S \cup P) /\ Cardinality(S \cup P) = Cardinality(S) + Cardinality(P) - Cardinality(S \cap P)
  BY <1>3, FS_Union
<1>6. T \in SUBSET (S \cup P)
  BY DEF P, I
<1>7. IsFiniteSet(T) /\ Cardinality(T) <= Cardinality(S \cup P)
  BY <1>5, <1>6, FS_Subset
<1>8. /\ Cardinality(S) \in Nat /\ Cardinality(P) = n /\ Cardinality(S \cap P) \in Nat
      /\ Cardinality(T) \in Nat
  BY <1>1, <1>3, <1>4, <1>7, FS_CardinalityType
<1> QED BY <1>5, <1>7, <1>8

\* A change of one entry, or none, that gives it at most n new rounds.
Gives(most, t, u, id, n) ==
  /\ \A other \in DOMAIN u \ {id} :
       other \in DOMAIN t /\ Rounds(most, u[other]) <= Rounds(most, t[other])
  /\ id \in DOMAIN u =>
       Rounds(most, u[id]) <= (IF id \in DOMAIN t THEN Rounds(most, t[id]) ELSE 0) + n

LEMMA OwedGains ==
  ASSUME NEW most \in Nat, NEW t, NEW u, IsTable(t), IsTable(u), IsFiniteSet(Owed(most, t)),
         NEW id, NEW n \in Nat, Gives(most, t, u, id, n)
  PROVE  IsFiniteSet(Owed(most, u)) /\ Cardinality(Owed(most, u)) <= Cardinality(Owed(most, t)) + n
<1> DEFINE low == IF id \in DOMAIN t THEN Rounds(most, t[id]) ELSE 0
<1>1. /\ \A i \in DOMAIN t : Rounds(most, t[i]) \in Nat
      /\ \A i \in DOMAIN u : Rounds(most, u[i]) \in Nat
  BY RoundsType DEF IsTable
<1>2. low \in Nat
  BY <1>1
<1>3. ASSUME NEW r \in Owed(most, u), r \notin Owed(most, t)
      PROVE  r \in {id} \X ((low + 1)..(low + n))
  <2>1. PICK i \in DOMAIN u, k \in Nat \ {0} : r = <<i, k>> /\ k <= Rounds(most, u[i])
    BY <1>3 DEF Owed
  <2>2. i = id
    <3>1. SUFFICES ASSUME i # id PROVE FALSE
      OBVIOUS
    <3>2. i \in DOMAIN t /\ k <= Rounds(most, t[i])
      BY <1>1, <2>1, <3>1 DEF Gives
    <3> QED BY <1>3, <2>1, <3>2 DEF Owed
  <2>3. k <= low + n
    BY <1>1, <2>1, <2>2 DEF Gives
  <2>4. k > low
    <3>1. CASE id \in DOMAIN t
      BY <1>1, <1>3, <2>1, <2>2, <3>1 DEF Owed
    <3>2. CASE id \notin DOMAIN t
      BY <2>1, <3>2
    <3> QED BY <3>1, <3>2
  <2> HIDE DEF low
  <2> QED BY <1>2, <2>1, <2>2, <2>3, <2>4
<1> HIDE DEF low
<1>4. Owed(most, u) \subseteq Owed(most, t) \cup ({id} \X ((low + 1)..(low + n)))
  BY <1>3
<1> QED BY <1>2, <1>4, GainsFew

\* Claiming an entry spends one of its rounds.
LEMMA ClaimSpendsOne ==
  ASSUME NEW most \in Nat, NEW t, NEW u, IsTable(t), IsTable(u), IsFiniteSet(Owed(most, t)),
         NEW id \in DOMAIN t, NEW run, t[id].status = "queued", u = Claimed(t, id, run)
  PROVE  IsFiniteSet(Owed(most, u)) /\ Cardinality(Owed(most, u)) + 1 <= Cardinality(Owed(most, t))
<1> DEFINE last == <<id, Rounds(most, t[id])>>
           S == Owed(most, t) \ {last}
<1>1. /\ \A i \in DOMAIN t : Rounds(most, t[i]) \in Nat
      /\ t[id] \in Entry
  BY RoundsType DEF IsTable
<1>2. /\ DOMAIN u = DOMAIN t
      /\ \A other \in DOMAIN t \ {id} : u[other] = t[other]
      /\ u[id].status = "executing" /\ u[id].attempts = t[id].attempts
  BY <1>1 DEF Claimed, Entry
<1>3. Rounds(most, t[id]) \in Nat \ {0} /\ Rounds(most, u[id]) < Rounds(most, t[id])
      /\ Rounds(most, u[id]) \in Nat
  BY <1>1, <1>2 DEF Rounds, AtLeast, Entry
<1>4. last \in Owed(most, t)
  BY <1>3 DEF Owed
<1>5. ASSUME NEW r \in Owed(most, u) PROVE r \in S
  <2>1. PICK i \in DOMAIN u, k \in Nat \ {0} : r = <<i, k>> /\ k <= Rounds(most, u[i])
    BY <1>5 DEF Owed
  <2>2. CASE i = id
    <3>1. k < Rounds(most, t[id])
      BY <1>3, <2>1, <2>2
    <3> QED BY <1>1, <1>3, <2>1, <2>2, <3>1 DEF Owed
  <2>3. CASE i # id
    BY <1>2, <2>1, <2>3 DEF Owed
  <2> QED BY <2>2, <2>3
<1>6. IsFiniteSet(S) /\ Cardinality(S) = Cardinality(Owed(most, t)) - 1
  BY <1>4, FS_RemoveElement
<1>7. Owed(most, u) \in SUBSET S
  BY <1>5
<1> HIDE DEF S
<1>8. /\ IsFiniteSet(Owed(most, u)) /\ Cardinality(Owed(most, u)) <= Cardinality(S)
  BY <1>6, <1>7, FS_Subset
<1>9. Cardinality(Owed(most, t)) \in Nat /\ Cardinality(Owed(most, u)) \in Nat
  BY <1>8, FS_CardinalityType
<1> QED BY <1>6, <1>8, <1>9

One(b) == IF b THEN 1 ELSE 0

\* Calls that the leader has still to handle, and an execution that nobody will report.
Asked == {c \in Contexts : call[c].state = "sent"}
Orphaned == pc \notin {"running", "reporting"} /\ Executing # {}

Balance == runs + Cardinality(Owed(MaxRetries, box)) + One(Orphaned) + One(outcome = "unauthenticated")

Finite == IsFiniteSet(Owed(MaxRetries, box)) /\ IsFiniteSet(Asked) /\ IsFiniteSet(used)

\* Every action brings one series of executions along, every disruption one series and one more.
Solvent ==
  Balance + (MaxRetries + 1) * Cardinality(Asked)
    <= (MaxRetries + 1) * Cardinality(used) + (MaxRetries + 2) * TotalSpent

RetryIsAllowed == pc = "reporting" /\ outcome = "retry" => claim.attempts < MaxRetries

\* What a step may do to the balance: nothing, let a call renew an entry, add a call for a new
\* action, or disrupt.
BalanceStep ==
  /\ IsFiniteSet(Owed(MaxRetries, box)')
  /\ \/ Balance' <= Balance /\ Asked' = Asked /\ UNCHANGED used /\ TotalSpent' = TotalSpent
     \/ /\ Balance' <= Balance + MaxRetries + 1 /\ \E c \in Asked : Asked' = Asked \ {c}
        /\ UNCHANGED used /\ TotalSpent' = TotalSpent
     \/ /\ Balance' <= Balance /\ \E c : Asked' \subseteq Asked \cup {c}
        /\ \E id : id \notin used /\ used' = used \cup {id} /\ TotalSpent' = TotalSpent
     \/ /\ Balance' <= Balance + 1 /\ \E c : Asked' \subseteq Asked \cup {c}
        /\ UNCHANGED used /\ TotalSpent' = TotalSpent + 1

LEMMA DuesCovered ==
  ASSUME NEW k \in Nat, NEW x \in Nat, NEW s \in Nat, NEW u \in Nat, NEW n \in Nat,
         NEW x2 \in Nat, NEW s2 \in Nat, NEW u2 \in Nat, NEW n2 \in Nat,
         x + k * s <= k * u + (k + 1) * n,
         \/ x2 <= x /\ s2 = s /\ u2 = u /\ n2 = n
         \/ x2 <= x + k /\ s2 + 1 = s /\ u2 = u /\ n2 = n
         \/ x2 <= x /\ s2 <= s + 1 /\ u2 = u + 1 /\ n2 = n
         \/ x2 <= x + 1 /\ s2 <= s + 1 /\ u2 = u /\ n2 = n + 1
  PROVE  x2 + k * s2 <= k * u2 + (k + 1) * n2
<1>1. CASE x2 <= x /\ s2 = s /\ u2 = u /\ n2 = n
  BY <1>1
<1>2. CASE x2 <= x + k /\ s2 + 1 = s /\ u2 = u /\ n2 = n
  <2>1. k * s = k * s2 + k
    BY <1>2
  <2> QED BY <1>2, <2>1
<1>3. CASE x2 <= x /\ s2 <= s + 1 /\ u2 = u + 1 /\ n2 = n
  <2>1. k * s2 <= k * (s + 1) /\ k * (s + 1) = k * s + k
    BY <1>3
  <2>2. k * u2 = k * u + k
    BY <1>3
  <2> QED BY <1>3, <2>1, <2>2
<1>4. CASE x2 <= x + 1 /\ s2 <= s + 1 /\ u2 = u /\ n2 = n + 1
  <2>1. k * s2 <= k * (s + 1) /\ k * (s + 1) = k * s + k
    BY <1>4
  <2>2. (k + 1) * n2 = (k + 1) * n + (k + 1)
    BY <1>4
  <2> QED BY <1>4, <2>1, <2>2
<1> QED BY <1>1, <1>2, <1>3, <1>4

LEMMA GainsOne ==
  ASSUME NEW S, IsFiniteSet(S), NEW x
  PROVE  /\ \A T \in SUBSET (S \cup {x}) : IsFiniteSet(T) /\ Cardinality(T) <= Cardinality(S) + 1
         /\ x \notin S => IsFiniteSet(S \cup {x}) /\ Cardinality(S \cup {x}) = Cardinality(S) + 1
         /\ x \in S => IsFiniteSet(S \ {x}) /\ Cardinality(S \ {x}) + 1 = Cardinality(S)
<1>1. Cardinality(S) \in Nat
  BY FS_CardinalityType
<1>2. x \notin S => IsFiniteSet(S \cup {x}) /\ Cardinality(S \cup {x}) = Cardinality(S) + 1
  BY FS_AddElement
<1>3. ASSUME x \in S PROVE IsFiniteSet(S \ {x}) /\ Cardinality(S \ {x}) + 1 = Cardinality(S)
  <2>1. IsFiniteSet(S \ {x}) /\ Cardinality(S \ {x}) = Cardinality(S) - 1
    BY <1>3, FS_RemoveElement
  <2> QED BY <1>1, <2>1
<1>4. IsFiniteSet(S \cup {x}) /\ Cardinality(S \cup {x}) <= Cardinality(S) + 1
  <2>1. CASE x \in S
    <3>1. S \cup {x} = S
      BY <2>1
    <3>2. IsFiniteSet(S \cup {x}) /\ Cardinality(S \cup {x}) = Cardinality(S)
      BY <3>1, Zenon
    <3> QED BY <1>1, <3>2
  <2>2. CASE x \notin S
    BY <1>1, <1>2, <2>2
  <2> QED BY <2>1, <2>2
<1>5. ASSUME NEW T \in SUBSET (S \cup {x})
      PROVE  IsFiniteSet(T) /\ Cardinality(T) <= Cardinality(S) + 1
  <2>1. IsFiniteSet(T) /\ Cardinality(T) <= Cardinality(S \cup {x})
    BY <1>4, FS_Subset
  <2>2. Cardinality(T) \in Nat /\ Cardinality(S \cup {x}) \in Nat
    BY <1>4, <2>1, FS_CardinalityType
  <2> QED BY <1>1, <1>4, <2>1, <2>2
<1> QED BY <1>2, <1>3, <1>5

LEMMA BalanceType ==
  ASSUME setting \in Settings, Typed, IsFiniteSet(Owed(MaxRetries, box))
  PROVE  /\ MaxRetries \in Nat /\ Balance \in Nat /\ TotalSpent \in Nat
         /\ Cardinality(Owed(MaxRetries, box)) \in Nat
<1>1. MaxRetries \in Nat
  BY SettingsAssumption DEF MaxRetries
<1>2. Cardinality(Owed(MaxRetries, box)) \in Nat
  BY FS_CardinalityType
<1>3. runs \in Nat /\ spent \in [Disruptions -> Nat]
  BY DEF Typed, StateOK, SurroundingsOK
<1>4. One(Orphaned) \in Nat /\ One(outcome = "unauthenticated") \in Nat
  BY DEF One
<1>5. TotalSpent \in Nat
  BY <1>3 DEF TotalSpent, Disruptions
<1> QED BY <1>1, <1>2, <1>3, <1>4, <1>5 DEF Balance

LEMMA BalanceStepKeeps ==
  ASSUME setting \in Settings, UNCHANGED setting, Typed, Typed', Finite, Solvent, BalanceStep
  PROVE  Finite' /\ Solvent'
<1>1. MaxRetries' = MaxRetries
  BY DEF MaxRetries
<1>2. IsFiniteSet(Owed(MaxRetries, box)')
  BY DEF BalanceStep
<1>3. /\ MaxRetries \in Nat /\ Balance \in Nat /\ TotalSpent \in Nat
      /\ Balance' \in Nat /\ TotalSpent' \in Nat
  <2>1. /\ MaxRetries \in Nat /\ Balance \in Nat /\ TotalSpent \in Nat
    BY BalanceType DEF Finite
  <2>2. runs' \in Nat /\ spent' \in [Disruptions -> Nat]
    BY DEF Typed, StateOK, SurroundingsOK
  <2>3. Cardinality(Owed(MaxRetries, box)') \in Nat
    BY <1>2, FS_CardinalityType
  <2>4. One(Orphaned)' \in Nat /\ One(outcome = "unauthenticated")' \in Nat
    BY DEF One
  <2>5. TotalSpent' \in Nat
    BY <2>2 DEF TotalSpent, Disruptions
  <2> QED BY <2>1, <2>2, <2>3, <2>4, <2>5 DEF Balance
<1>4. IsFiniteSet(Asked)' /\ IsFiniteSet(used)' /\ Cardinality(Asked) \in Nat /\ Cardinality(used) \in Nat
      /\ \/ Balance' <= Balance /\ Cardinality(Asked') = Cardinality(Asked)
            /\ Cardinality(used') = Cardinality(used) /\ TotalSpent' = TotalSpent
         \/ Balance' <= Balance + (MaxRetries + 1) /\ Cardinality(Asked') + 1 = Cardinality(Asked)
            /\ Cardinality(used') = Cardinality(used) /\ TotalSpent' = TotalSpent
         \/ Balance' <= Balance /\ Cardinality(Asked') <= Cardinality(Asked) + 1
            /\ Cardinality(used') = Cardinality(used) + 1 /\ TotalSpent' = TotalSpent
         \/ Balance' <= Balance + 1 /\ Cardinality(Asked') <= Cardinality(Asked) + 1
            /\ Cardinality(used') = Cardinality(used) /\ TotalSpent' = TotalSpent + 1
  <2>1. IsFiniteSet(Asked) /\ IsFiniteSet(used) /\ Cardinality(Asked) \in Nat /\ Cardinality(used) \in Nat
    BY FS_CardinalityType DEF Finite
  <2>2. ASSUME NEW c, Asked' \subseteq Asked \cup {c}
        PROVE  IsFiniteSet(Asked') /\ Cardinality(Asked') <= Cardinality(Asked) + 1
    BY <2>1, <2>2, GainsOne
  <2>3. ASSUME NEW c \in Asked, Asked' = Asked \ {c}
        PROVE  IsFiniteSet(Asked') /\ Cardinality(Asked') + 1 = Cardinality(Asked)
    BY <2>1, <2>3, GainsOne
  <2>4. ASSUME NEW id, id \notin used, used' = used \cup {id}
        PROVE  IsFiniteSet(used') /\ Cardinality(used') = Cardinality(used) + 1
    BY <2>1, <2>4, GainsOne
  <2>5. CASE Balance' <= Balance /\ Asked' = Asked /\ UNCHANGED used /\ TotalSpent' = TotalSpent
    BY <2>1, <2>5
  <2>6. CASE /\ Balance' <= Balance + MaxRetries + 1 /\ \E c \in Asked : Asked' = Asked \ {c}
             /\ UNCHANGED used /\ TotalSpent' = TotalSpent
    <3>1. Balance' <= Balance + (MaxRetries + 1)
      BY <1>3, <2>6
    <3> QED BY <2>1, <2>3, <2>6, <3>1
  <2>7. CASE /\ Balance' <= Balance /\ \E c : Asked' \subseteq Asked \cup {c}
             /\ \E id : id \notin used /\ used' = used \cup {id} /\ TotalSpent' = TotalSpent
    BY <2>1, <2>2, <2>4, <2>7
  <2>8. CASE /\ Balance' <= Balance + 1 /\ \E c : Asked' \subseteq Asked \cup {c}
             /\ UNCHANGED used /\ TotalSpent' = TotalSpent + 1
    BY <2>1, <2>2, <2>8
  <2> QED BY <2>5, <2>6, <2>7, <2>8 DEF BalanceStep
<1>5. Cardinality(Asked') \in Nat /\ Cardinality(used') \in Nat
  BY <1>4, FS_CardinalityType
<1>6. MaxRetries + 1 \in Nat /\ MaxRetries + 2 = (MaxRetries + 1) + 1
  BY <1>3
<1>7. Balance' + (MaxRetries + 1) * Cardinality(Asked')
        <= (MaxRetries + 1) * Cardinality(used') + ((MaxRetries + 1) + 1) * TotalSpent'
  BY <1>3, <1>4, <1>5, <1>6, DuesCovered DEF Solvent
<1>8. Finite'
  BY <1>2, <1>4 DEF Finite
<1> QED BY <1>1, <1>6, <1>7, <1>8 DEF Solvent

\* What a change of the table or of the executor does to the terms of the balance.
LEMMA BalanceChange ==
  ASSUME setting \in Settings, UNCHANGED setting, Typed, Typed', Finite, UNCHANGED runs,
         NEW id, NEW n \in Nat, Gives(MaxRetries, box, box', id, n)
  PROVE  /\ IsFiniteSet(Owed(MaxRetries, box)')
         /\ Balance' + One(Orphaned) + One(outcome = "unauthenticated")
              <= Balance + n + One(Orphaned') + One(outcome' = "unauthenticated")
<1>1. MaxRetries' = MaxRetries
  BY DEF MaxRetries
<1>2. MaxRetries \in Nat /\ Cardinality(Owed(MaxRetries, box)) \in Nat
  BY BalanceType DEF Finite
<1>3. IsTable(box) /\ IsTable(box') /\ runs \in Nat
  BY DEF Typed, StateOK
<1>4. /\ IsFiniteSet(Owed(MaxRetries, box'))
      /\ Cardinality(Owed(MaxRetries, box')) <= Cardinality(Owed(MaxRetries, box)) + n
  BY <1>2, <1>3, OwedGains DEF Finite
<1>5. Cardinality(Owed(MaxRetries, box')) \in Nat
  BY <1>4, FS_CardinalityType
<1>6. One(Orphaned) \in Nat /\ One(outcome = "unauthenticated") \in Nat
      /\ One(Orphaned') \in Nat /\ One(outcome' = "unauthenticated") \in Nat
  BY DEF One
<1>7. Owed(MaxRetries, box)' = Owed(MaxRetries, box')
  BY <1>1
<1>8. Balance' = runs + Cardinality(Owed(MaxRetries, box')) + One(Orphaned')
                 + One(outcome' = "unauthenticated")
  BY <1>7 DEF Balance
<1> QED BY <1>2, <1>3, <1>4, <1>5, <1>6, <1>7, <1>8 DEF Balance

\* Steps that leave the table alone and neither orphan an execution nor end one unauthenticated.
LEMMA BalanceStays ==
  ASSUME setting \in Settings, UNCHANGED setting, Typed, Typed', Finite, UNCHANGED <<box, runs>>,
         Orphaned' => Orphaned,
         outcome' = "unauthenticated" => outcome = "unauthenticated"
  PROVE  IsFiniteSet(Owed(MaxRetries, box)') /\ Balance' <= Balance
<1>1. Gives(MaxRetries, box, box', 0, 0)
  <2>1. \A id \in DOMAIN box : Rounds(MaxRetries, box[id]) \in Nat
    BY BalanceType, RoundsType DEF Finite, Typed, StateOK, IsTable
  <2> QED BY <2>1 DEF Gives
<1>2. /\ IsFiniteSet(Owed(MaxRetries, box)')
      /\ Balance' + One(Orphaned) + One(outcome = "unauthenticated")
           <= Balance + 0 + One(Orphaned') + One(outcome' = "unauthenticated")
  BY <1>1, BalanceChange
<1>3. One(Orphaned') <= One(Orphaned) /\ One(Orphaned) \in Nat /\ One(Orphaned') \in Nat
  BY DEF One
<1>4. /\ One(outcome' = "unauthenticated") <= One(outcome = "unauthenticated")
      /\ One(outcome = "unauthenticated") \in Nat /\ One(outcome' = "unauthenticated") \in Nat
  BY DEF One
<1>5. Balance \in Nat /\ Balance' \in Int
  <2>1. Balance \in Nat
    BY BalanceType DEF Finite
  <2>2. Cardinality(Owed(MaxRetries, box)') \in Nat /\ runs' \in Nat
    BY <1>2, FS_CardinalityType DEF Typed, StateOK
  <2> QED BY <1>3, <1>4, <2>1, <2>2 DEF Balance
<1> QED BY <1>2, <1>3, <1>4, <1>5

\* A change of one entry costs what that entry gains.
LEMMA OneEntryGives ==
  ASSUME NEW most \in Nat, NEW t, NEW u, IsTable(t), NEW id \in DOMAIN t, NEW n \in Nat,
         DOMAIN u = DOMAIN t, \A other \in DOMAIN t \ {id} : u[other] = t[other],
         Rounds(most, u[id]) <= Rounds(most, t[id]) + n
  PROVE  Gives(most, t, u, id, n)
<1>1. \A other \in DOMAIN t : Rounds(most, t[other]) \in Nat
  BY RoundsType DEF IsTable
<1> QED BY <1>1 DEF Gives

LEMMA ChangesGive ==
  ASSUME NEW most \in Nat, NEW t, IsTable(t), NEW id \in DOMAIN t, NEW b, NEW gone
  PROVE  /\ Gives(most, t, Without(t, gone), id, 0)
         /\ Gives(most, t, [t EXCEPT ![id].due = TRUE], id, 0)
         /\ Gives(most, t, Edited(t, id), id, most + 1)
         /\ t[id].status # "executing" => Gives(most, t, Retried(t, id), id, most + 1)
         /\ t[id].status = "failed" /\ t[id].attempts <= most => Gives(most, t, Resumed(t, id), id, 0)
         /\ t[id].status = "executing" => /\ Gives(most, t, MarkedInterrupted(t, id), id, 1)
                                          /\ Gives(most, t, Failed(t, id, b), id, 0)
                                          /\ Gives(most, t, Rescheduled(t, id, b), id, 1)
         /\ t[id].status = "executing" /\ t[id].attempts < most =>
              Gives(most, t, Rescheduled(t, id, b), id, 0)
<1>1. t[id] \in Entry /\ \A other \in DOMAIN t : Rounds(most, t[other]) \in Nat
  BY RoundsType DEF IsTable
<1>2. t[id].attempts \in Nat /\ t[id].status \in Statuses
  BY <1>1 DEF Entry
<1> USE DEF Rounds, AtLeast, Statuses
<1>3. Gives(most, t, Without(t, gone), id, 0)
  <2> HIDE DEF Rounds
  <2> QED BY <1>1 DEF Without, Restrict, Gives
<1>4. Gives(most, t, [t EXCEPT ![id].due = TRUE], id, 0)
  <2> DEFINE u == [t EXCEPT ![id].due = TRUE]
  <2>1. u[id].status = t[id].status /\ u[id].attempts = t[id].attempts
    BY <1>1 DEF Entry
  <2>2. DOMAIN u = DOMAIN t /\ \A other \in DOMAIN t \ {id} : u[other] = t[other]
    OBVIOUS
  <2> HIDE DEF u
  <2>3. Rounds(most, u[id]) <= Rounds(most, t[id]) + 0
    BY <1>2, <2>1
  <2> HIDE DEF Rounds
  <2>4. Gives(most, t, u, id, 0)
    BY <2>2, <2>3, OneEntryGives
  <2> QED BY <2>4 DEF u
<1>5. Gives(most, t, Edited(t, id), id, most + 1)
  <2>1. Edited(t, id)[id].status = "queued" /\ Edited(t, id)[id].attempts = 0
    BY <1>1 DEF Edited, Entry
  <2>2. DOMAIN Edited(t, id) = DOMAIN t /\ \A other \in DOMAIN t \ {id} : Edited(t, id)[other] = t[other]
    BY DEF Edited
  <2> QED BY <1>2, <2>1, <2>2, OneEntryGives
<1>6. ASSUME t[id].status # "executing" PROVE Gives(most, t, Retried(t, id), id, most + 1)
  <2>1. Retried(t, id)[id].status = "queued" /\ Retried(t, id)[id].attempts = t[id].attempts
    BY <1>1 DEF Retried, Entry
  <2>2. DOMAIN Retried(t, id) = DOMAIN t /\ \A other \in DOMAIN t \ {id} : Retried(t, id)[other] = t[other]
    BY DEF Retried
  <2> QED BY <1>2, <1>6, <2>1, <2>2, OneEntryGives
<1>7. ASSUME t[id].status = "failed", t[id].attempts <= most
      PROVE  Gives(most, t, Resumed(t, id), id, 0)
  <2>1. Resumed(t, id)[id].status = "queued" /\ Resumed(t, id)[id].attempts = t[id].attempts
    BY <1>1 DEF Resumed, Entry
  <2>2. DOMAIN Resumed(t, id) = DOMAIN t /\ \A other \in DOMAIN t \ {id} : Resumed(t, id)[other] = t[other]
    BY DEF Resumed
  <2> QED BY <1>2, <1>7, <2>1, <2>2, OneEntryGives
<1>8. ASSUME t[id].status = "executing"
      PROVE  Gives(most, t, MarkedInterrupted(t, id), id, 1)
  <2> DEFINE u == MarkedInterrupted(t, id)
  <2>1. u[id].status = "failed" /\ u[id].attempts = t[id].attempts
    BY <1>1 DEF MarkedInterrupted, Entry
  <2>2. DOMAIN u = DOMAIN t /\ \A other \in DOMAIN t \ {id} : u[other] = t[other]
    BY DEF MarkedInterrupted
  <2> HIDE DEF u
  <2>3. Rounds(most, u[id]) <= Rounds(most, t[id]) + 1
    BY <1>2, <1>8, <2>1
  <2> HIDE DEF Rounds
  <2>4. Gives(most, t, u, id, 1)
    BY <2>2, <2>3, OneEntryGives
  <2> QED BY <2>4 DEF u
<1>9. ASSUME t[id].status = "executing" PROVE Gives(most, t, Failed(t, id, b), id, 0)
  <2> DEFINE u == Failed(t, id, b)
  <2>1. u[id].status = "failed" /\ u[id].attempts = t[id].attempts + 1
    BY <1>1 DEF Failed, Entry
  <2>2. DOMAIN u = DOMAIN t /\ \A other \in DOMAIN t \ {id} : u[other] = t[other]
    BY DEF Failed
  <2> HIDE DEF u
  <2>3. Rounds(most, u[id]) <= Rounds(most, t[id]) + 0
    BY <1>2, <1>9, <2>1
  <2> HIDE DEF Rounds
  <2>4. Gives(most, t, u, id, 0)
    BY <2>2, <2>3, OneEntryGives
  <2> QED BY <2>4 DEF u
<1>10. ASSUME t[id].status = "executing"
       PROVE  /\ Gives(most, t, Rescheduled(t, id, b), id, 1)
              /\ t[id].attempts < most => Gives(most, t, Rescheduled(t, id, b), id, 0)
  <2> DEFINE u == Rescheduled(t, id, b)
  <2>1. u[id].status = "queued" /\ u[id].attempts = t[id].attempts + 1
    BY <1>1 DEF Rescheduled, Entry
  <2>2. DOMAIN u = DOMAIN t /\ \A other \in DOMAIN t \ {id} : u[other] = t[other]
    BY DEF Rescheduled
  <2> HIDE DEF u
  <2>3. /\ Rounds(most, u[id]) <= Rounds(most, t[id]) + 1
        /\ t[id].attempts < most => Rounds(most, u[id]) <= Rounds(most, t[id]) + 0
    BY <1>2, <1>10, <2>1
  <2> HIDE DEF Rounds
  <2>4. Gives(most, t, u, id, 1) /\ (t[id].attempts < most => Gives(most, t, u, id, 0))
    BY <2>2, <2>3, OneEntryGives
  <2> QED BY <2>4 DEF u
<1> HIDE DEF Rounds
<1> QED BY <1>3, <1>4, <1>5, <1>6, <1>7, <1>8, <1>9, <1>10

\* A call that the leader handles: it renews at most one entry, which the call pays for.
LEMMA HandlersBalance ==
  ASSUME setting \in Settings, UNCHANGED setting, Typed, Typed', Finite,
         NEW c \in Contexts, HandleCall(c)
  PROVE  BalanceStep
<1>1. PICK id \in Ids : \/ HandleEnqueue(c, id) \/ HandleEdit(c, id) \/ HandleRemove(c, id)
                        \/ HandleRetry(c, id) \/ \E op \in Operations : HandleRefused(c, op, id)
  BY DEF HandleCall
<1>2. /\ UNCHANGED <<pc, outcome, used, spent, runs>> /\ call[c].state = "sent"
      /\ call' = [call EXCEPT ![c].state = "handled"]
  <2>1. \E op \in Operations : \E posted : Handle(c, op, id, posted)
    BY <1>1 DEF HandleEnqueue, HandleEdit, HandleRemove, HandleRetry, HandleRefused, Operations
  <2> QED BY <2>1 DEF Handle, executor
<1>3. /\ IsTable(box) /\ call \in [Contexts -> {NoCall} \cup Call] /\ MaxRetries \in Nat
      /\ Balance \in Nat
  BY BalanceType DEF Typed, StateOK, ClientsOK, Finite
<1>4. c \in Asked /\ Asked' = Asked \ {c}
  <2>1. call'[c].state = "handled" /\ \A d \in Contexts \ {c} : call'[d] = call[d]
    BY <1>2, <1>3 DEF Call, NoCall
  <2> QED BY <1>2, <2>1 DEF Asked
<1>5. TotalSpent' = TotalSpent
  BY <1>2 DEF TotalSpent
<1>6. \/ \E i, n : /\ n \in {0, MaxRetries + 1} /\ Gives(MaxRetries, box, box', i, n)
                   /\ Executing' \subseteq Executing
      \/ UNCHANGED box
  <2>1. CASE HandleEnqueue(c, id) /\ id \notin DOMAIN box
    <3>1. PICK n : box' = Enqueued(box, id, n)
      BY <2>1 DEF HandleEnqueue
    <3>2. /\ DOMAIN box' = DOMAIN box \cup {id} /\ box'[id] = NewEntry(n)
          /\ \A other \in DOMAIN box : box'[other] = box[other]
      BY <2>1, <3>1 DEF Enqueued
    <3>3. Rounds(MaxRetries, box'[id]) = MaxRetries + 1
      BY <1>3, <3>2 DEF Rounds, AtLeast, NewEntry
    <3>4. \A other \in DOMAIN box : Rounds(MaxRetries, box[other]) \in Nat
      BY <1>3, RoundsType DEF IsTable
    <3>5. Gives(MaxRetries, box, box', id, MaxRetries + 1)
      BY <1>3, <2>1, <3>2, <3>3, <3>4 DEF Gives
    <3>6. Executing' \subseteq Executing
      BY <3>2 DEF Executing, NewEntry
    <3> QED BY <3>5, <3>6
  <2>2. CASE HandleEdit(c, id)
    <3>1. id \in DOMAIN box /\ box' = Edited(box, id)
      BY <2>2 DEF HandleEdit, Editable
    <3>2. Executing' \subseteq Executing
      BY <1>3, <3>1 DEF Executing, Edited, IsTable, Entry
    <3> QED BY <1>3, <3>1, <3>2, ChangesGive
  <2>3. CASE HandleRemove(c, id)
    <3>1. box' = Without(box, {id})
      BY <2>3 DEF HandleRemove
    <3>2. CASE DOMAIN box = {}
      BY <3>1, <3>2 DEF Without, Restrict, Gives, Executing
    <3>3. ASSUME NEW i \in DOMAIN box
          PROVE  Gives(MaxRetries, box, box', i, 0) /\ Executing' \subseteq Executing
      <4>1. Gives(MaxRetries, box, box', i, 0)
        BY <1>3, <3>1, ChangesGive
      <4> QED BY <3>1, <4>1, EntriesLeave
    <3> QED BY <3>2, <3>3
  <2>4. CASE HandleRetry(c, id)
    <3>1. id \in DOMAIN box /\ box' = Retried(box, id) /\ box[id].status # "executing"
      BY <2>4 DEF HandleRetry, Retriable
    <3>2. Executing' \subseteq Executing
      BY <1>3, <3>1 DEF Executing, Retried, IsTable, Entry
    <3> QED BY <1>3, <3>1, <3>2, ChangesGive
  <2> QED BY <1>1, <2>1, <2>2, <2>3, <2>4 DEF HandleEnqueue, HandleRefused
<1>7. CASE UNCHANGED box
  <2>1. Executing' = Executing
    BY <1>7 DEF Executing
  <2>2. IsFiniteSet(Owed(MaxRetries, box)') /\ Balance' <= Balance
    BY <1>2, <1>7, <2>1, BalanceStays DEF Orphaned
  <2>3. Balance' \in Int
    <3>1. (runs \in Nat)' /\ Cardinality(Owed(MaxRetries, box)') \in Nat
      BY <2>2, FS_CardinalityType DEF Typed, StateOK
    <3> QED BY <3>1 DEF Balance, One
  <2>4. Balance' <= Balance + MaxRetries + 1
    BY <1>3, <2>2, <2>3
  <2> QED BY <1>2, <1>4, <1>5, <2>2, <2>4 DEF BalanceStep
<1>8. ASSUME NEW i, NEW n \in {0, MaxRetries + 1}, Gives(MaxRetries, box, box', i, n),
             Executing' \subseteq Executing
      PROVE  BalanceStep
  <2>1. /\ IsFiniteSet(Owed(MaxRetries, box)')
        /\ Balance' + One(Orphaned) + One(outcome = "unauthenticated")
             <= Balance + n + One(Orphaned') + One(outcome' = "unauthenticated")
    BY <1>2, <1>3, <1>8, BalanceChange
  <2>2. One(Orphaned') <= One(Orphaned) /\ One(Orphaned) \in Nat /\ One(Orphaned') \in Nat
    BY <1>2, <1>8 DEF Orphaned, One
  <2>3. /\ One(outcome' = "unauthenticated") = One(outcome = "unauthenticated")
        /\ One(outcome = "unauthenticated") \in Nat
    BY <1>2 DEF One
  <2>4. Balance' \in Int
    <3>1. (runs \in Nat)' /\ Cardinality(Owed(MaxRetries, box)') \in Nat
      BY <2>1, FS_CardinalityType DEF Typed, StateOK
    <3> QED BY <3>1 DEF Balance, One
  <2>5. Balance' <= Balance + MaxRetries + 1
    BY <1>3, <2>1, <2>2, <2>3, <2>4
  <2> QED BY <1>2, <1>4, <1>5, <2>1, <2>5 DEF BalanceStep
<1> QED BY <1>6, <1>7, <1>8

\* Steps of the executor: recovering a cut execution and ending one unauthenticated use up
\* what the disruption before them brought.
LEMMA ExecutorBalance ==
  ASSUME setting \in Settings, UNCHANGED setting, Typed, Typed', Finite, Barrier, RetryIsAllowed,
         ExecutorStep
  PROVE  BalanceStep
<1> USE DEF durable, surroundings, clients
<1>1. Asked' = Asked /\ UNCHANGED used /\ TotalSpent' = TotalSpent
  <2>1. UNCHANGED <<call, used, spent>>
    BY DEF ExecutorStep, Recover, CheckConnection, ClaimHead, ClaimNothing, AskNextRetry, WakeUp,
       TimerFires, Report
  <2> QED BY <2>1 DEF Asked, TotalSpent
<1>2. SUFFICES IsFiniteSet(Owed(MaxRetries, box)') /\ Balance' <= Balance
  BY <1>1 DEF BalanceStep
<1>3. /\ IsTable(box) /\ IsTable(box') /\ runs \in Nat /\ runs' \in Nat /\ MaxRetries \in Nat
      /\ Balance \in Nat
  BY BalanceType DEF Typed, StateOK, Finite
<1>4. ASSUME NEW id, NEW n \in {0, 1}, Gives(MaxRetries, box, box', id, n), UNCHANGED runs,
             n + One(Orphaned') + One(outcome' = "unauthenticated")
               <= One(Orphaned) + One(outcome = "unauthenticated")
      PROVE  IsFiniteSet(Owed(MaxRetries, box)') /\ Balance' <= Balance
  <2>1. /\ IsFiniteSet(Owed(MaxRetries, box)')
        /\ Balance' + One(Orphaned) + One(outcome = "unauthenticated")
             <= Balance + n + One(Orphaned') + One(outcome' = "unauthenticated")
    BY <1>4, BalanceChange
  <2>2. /\ One(Orphaned) \in Nat /\ One(Orphaned') \in Nat
        /\ One(outcome = "unauthenticated") \in Nat /\ One(outcome' = "unauthenticated") \in Nat
    BY DEF One
  <2>3. Balance' \in Int
    <3>1. Cardinality(Owed(MaxRetries, box)') \in Nat
      BY <2>1, FS_CardinalityType
    <3> QED BY <1>3, <2>2, <3>1 DEF Balance
  <2> QED BY <1>3, <1>4, <2>1, <2>2, <2>3
<1>5. CASE /\ UNCHANGED <<box, runs, outcome>>
           /\ pc \in {"running", "reporting"} <=> pc' \in {"running", "reporting"}
  <2>1. Orphaned' => Orphaned
    BY <1>5 DEF Orphaned, Executing
  <2> QED BY <1>5, <2>1, BalanceStays
<1>6. CASE CheckConnection \/ ClaimNothing \/ AskNextRetry \/ WakeUp \/ TimerFires
  BY <1>5, <1>6 DEF CheckConnection, ClaimNothing, AskNextRetry, WakeUp, TimerFires
<1>7. CASE Recover
  <2>1. /\ pc \notin {"running", "reporting"} /\ pc' \notin {"running", "reporting"}
        /\ UNCHANGED <<runs, outcome>>
    BY <1>7 DEF Recover
  <2>2. CASE UNCHANGED box
    BY <1>5, <2>1, <2>2
  <2>3. ASSUME NEW id \in DOMAIN box, box' = Without(box, DOMAIN box)
        PROVE  IsFiniteSet(Owed(MaxRetries, box)') /\ Balance' <= Balance
    <3>1. Gives(MaxRetries, box, box', id, 0)
      BY <1>3, <2>3, ChangesGive
    <3>2. Executing' = {}
      BY <2>3 DEF Executing, Without, Restrict
    <3> QED BY <1>4, <2>1, <3>1, <3>2 DEF One, Orphaned
  <2>4. ASSUME NEW id \in DOMAIN box, RecoverResumes(box, id), box' = Resumed(box, id)
        PROVE  IsFiniteSet(Owed(MaxRetries, box)') /\ Balance' <= Balance
    <3>1. Gives(MaxRetries, box, box', id, 0)
      BY <1>3, <2>4, ChangesGive DEF RecoverResumes
    <3>2. Loosens(box, box')
      BY <1>3, <2>4, ReportsLoosen
    <3>3. Executing' \subseteq Executing
      BY <3>2 DEF Loosens, Executing
    <3> QED BY <1>4, <2>1, <3>1, <3>3 DEF One, Orphaned
  <2>5. ASSUME NEW id \in DOMAIN box, RecoverInterrupts(box, id), box' = MarkedInterrupted(box, id)
        PROVE  IsFiniteSet(Owed(MaxRetries, box)') /\ Balance' <= Balance
    <3>1. Gives(MaxRetries, box, box', id, 1)
      BY <1>3, <2>5, ChangesGive DEF RecoverInterrupts
    <3>2. id \in Executing
      BY <2>5 DEF RecoverInterrupts, Executing
    <3>3. Executing = {id}
      BY <3>2, OneExecutes
    <3>4. box'[id].status # "executing"
      BY <1>3, <2>5 DEF MarkedInterrupted, IsTable, Entry
    <3>5. Loosens(box, box')
      BY <1>3, <2>5, ReportsLoosen
    <3>6. Executing' = {}
      BY <3>3, <3>4, <3>5 DEF Loosens, Executing
    <3>7. Orphaned /\ ~Orphaned'
      BY <2>1, <3>2, <3>6 DEF Orphaned
    <3>8. 1 + One(Orphaned') + One(outcome' = "unauthenticated")
            <= One(Orphaned) + One(outcome = "unauthenticated")
      BY <2>1, <3>7 DEF One
    <3> QED BY <1>4, <2>1, <3>1, <3>8
  <2> QED BY <1>7, <2>2, <2>3, <2>4, <2>5 DEF Recover
<1>8. ASSUME NEW id \in Ids, ClaimHead(id)
      PROVE  IsFiniteSet(Owed(MaxRetries, box)') /\ Balance' <= Balance
  <2>1. /\ id \in DOMAIN box /\ box[id].status = "queued" /\ box' = Claimed(box, id, runs')
        /\ runs' = runs + 1 /\ pc' = "running" /\ UNCHANGED outcome
    BY <1>8 DEF ClaimHead, Claimable, IsHead
  <2>2. MaxRetries' = MaxRetries /\ Owed(MaxRetries, box)' = Owed(MaxRetries, box')
    BY DEF MaxRetries
  <2>3. /\ IsFiniteSet(Owed(MaxRetries, box'))
        /\ Cardinality(Owed(MaxRetries, box')) + 1 <= Cardinality(Owed(MaxRetries, box))
    BY <1>3, <2>1, ClaimSpendsOne DEF Finite
  <2>4. /\ Cardinality(Owed(MaxRetries, box')) \in Nat
        /\ Cardinality(Owed(MaxRetries, box)) \in Nat
    BY <2>3, FS_CardinalityType DEF Finite
  <2>5. One(Orphaned') = 0 /\ One(Orphaned) \in Nat
    BY <2>1 DEF One, Orphaned
  <2>6. One(outcome' = "unauthenticated") = One(outcome = "unauthenticated")
        /\ One(outcome = "unauthenticated") \in Nat
    BY <2>1 DEF One
  <2>7. Balance' = runs' + Cardinality(Owed(MaxRetries, box')) + One(Orphaned')
                   + One(outcome' = "unauthenticated")
    BY <2>2 DEF Balance
  <2> QED BY <1>3, <2>1, <2>2, <2>3, <2>4, <2>5, <2>6, <2>7 DEF Balance
<1>9. CASE Report
  <2>1. /\ pc = "reporting" /\ pc' \notin {"running", "reporting"} /\ outcome' = "none"
        /\ UNCHANGED runs /\ claim.id \in DOMAIN box /\ box[claim.id].status = "executing"
        /\ Reported(leader, claim, outcome)
    BY <1>9 DEF Report, IsCurrent
  <2>2. box[claim.id].attempts = claim.attempts
    BY <2>1 DEF Barrier, ClaimIsCurrent
  <2> DEFINE id == claim.id
  <2>3. Executing = {id}
    <3>1. id \in Executing
      BY <2>1 DEF Executing
    <3> QED BY <3>1, OneExecutes
  <2>4. \/ \E gone : id \in gone /\ box' = Without(box, gone)
        \/ \E b : box' = Failed(box, id, b)
        \/ \E b : box' = Rescheduled(box, id, b) /\ outcome \in {"retry", "unauthenticated"}
    <3>1. id \in DiscardedFrom(box, id)
      BY <1>3, <2>1 DEF DiscardedFrom, IsTable, Entry
    <3> QED BY <2>1, <3>1 DEF Reported
  <2>5. ~Orphaned /\ ~Orphaned'
    <3>1. Executing' = {}
      <4>1. CASE \E gone : id \in gone /\ box' = Without(box, gone)
        BY <2>3, <4>1, EntriesLeave
      <4>2. CASE Loosens(box, box') /\ box'[id].status # "executing"
        BY <2>3, <4>2 DEF Loosens, Executing
      <4>3. ASSUME NEW b, box' = Failed(box, id, b) \/ box' = Rescheduled(box, id, b)
            PROVE  Loosens(box, box') /\ box'[id].status # "executing"
        <5>1. Loosens(box, box')
          BY <1>3, <2>1, <4>3, ReportsLoosen
        <5>2. box[id] \in Entry
          BY <1>3, <2>1 DEF IsTable
        <5>3. CASE box' = Failed(box, id, b)
          <6>1. box'[id].status = "failed"
            BY <2>1, <5>2, <5>3 DEF Failed, Entry
          <6> QED BY <5>1, <6>1
        <5>4. CASE box' = Rescheduled(box, id, b)
          <6>1. box'[id].status = "queued"
            BY <2>1, <5>2, <5>4 DEF Rescheduled, Entry
          <6> QED BY <5>1, <6>1
        <5> QED BY <4>3, <5>3, <5>4
      <4> QED BY <2>4, <4>1, <4>2, <4>3
    <3> QED BY <2>1, <3>1 DEF Orphaned
  <2>6. One(Orphaned) = 0 /\ One(Orphaned') = 0 /\ One(outcome' = "unauthenticated") = 0
        /\ One(outcome = "unauthenticated") \in Nat
    BY <2>1, <2>5 DEF One
  <2>7. CASE outcome # "unauthenticated"
    <3>1. Gives(MaxRetries, box, box', id, 0)
      <4>1. outcome = "retry" => box[id].attempts < MaxRetries
        BY <2>1, <2>2 DEF RetryIsAllowed
      <4>2. id \in DOMAIN box /\ box[id].status = "executing"
        BY <2>1
      <4> HIDE DEF id
      <4>3. ASSUME NEW gone PROVE Gives(MaxRetries, box, Without(box, gone), id, 0)
        BY <1>3, <4>2, ChangesGive
      <4>4. ASSUME NEW b PROVE Gives(MaxRetries, box, Failed(box, id, b), id, 0)
        BY <1>3, <4>2, ChangesGive
      <4>5. ASSUME outcome = "retry", NEW b PROVE Gives(MaxRetries, box, Rescheduled(box, id, b), id, 0)
        BY <1>3, <4>1, <4>2, <4>5, ChangesGive
      <4> QED BY <2>4, <2>7, <4>3, <4>4, <4>5
    <3> QED BY <1>4, <2>1, <2>6, <3>1
  <2>8. CASE outcome = "unauthenticated"
    <3>1. PICK b : box' = Rescheduled(box, id, b)
      BY <2>1, <2>8 DEF Reported
    <3>2. Gives(MaxRetries, box, box', id, 1)
      BY <1>3, <2>1, <3>1, ChangesGive
    <3>3. One(outcome = "unauthenticated") = 1
      BY <2>8 DEF One
    <3> QED BY <1>4, <2>1, <2>6, <3>2, <3>3
  <2> QED BY <2>7, <2>8
<1> QED BY <1>6, <1>7, <1>8, <1>9 DEF ExecutorStep

\* A disruption may orphan an execution, make one end unauthenticated or send a call again.
LEMMA DisruptionBalance ==
  ASSUME setting \in Settings, UNCHANGED setting, Typed, Typed', Finite, UNCHANGED <<box, runs>>,
         outcome' = "unauthenticated" => outcome = "unauthenticated" \/ Orphaned' = Orphaned
  PROVE  IsFiniteSet(Owed(MaxRetries, box)') /\ Balance' <= Balance + 1
<1>1. Gives(MaxRetries, box, box', 0, 0)
  <2>1. \A id \in DOMAIN box : Rounds(MaxRetries, box[id]) \in Nat
    BY BalanceType, RoundsType DEF Finite, Typed, StateOK, IsTable
  <2> QED BY <2>1 DEF Gives
<1>2. /\ IsFiniteSet(Owed(MaxRetries, box)')
      /\ Balance' + One(Orphaned) + One(outcome = "unauthenticated")
           <= Balance + 0 + One(Orphaned') + One(outcome' = "unauthenticated")
  BY <1>1, BalanceChange
<1>3. One(Orphaned') + One(outcome' = "unauthenticated")
        <= One(Orphaned) + One(outcome = "unauthenticated") + 1
  BY DEF One
<1>4. /\ One(Orphaned') \in Nat /\ One(Orphaned) \in Nat
      /\ One(outcome = "unauthenticated") \in Nat /\ One(outcome' = "unauthenticated") \in Nat
  BY DEF One
<1>5. Balance \in Nat /\ Balance' \in Int
  <2>1. Balance \in Nat
    BY BalanceType DEF Finite
  <2>2. Cardinality(Owed(MaxRetries, box)') \in Nat /\ runs' \in Nat
    BY <1>2, FS_CardinalityType DEF Typed, StateOK
  <2> QED BY <1>4, <2>1, <2>2 DEF Balance
<1> QED BY <1>2, <1>3, <1>4, <1>5

LEMMA DisruptionSpends ==
  ASSUME Typed, NEW d \in Disruptions, Disrupt(d)
  PROVE  TotalSpent' = TotalSpent + 1
<1>1. spent \in [Disruptions -> Nat]
  BY DEF Typed, StateOK, SurroundingsOK
<1> QED BY <1>1 DEF Disrupt, TotalSpent, Disruptions

OffWithoutLeader == leader = Nobody => pc = "off"

LEMMA NextIsBalanced ==
  ASSUME setting \in Settings, Typed, Typed', Finite, Barrier, RetryIsAllowed, OffWithoutLeader, Next
  PROVE  BalanceStep
<1> USE DEF durable, executor, surroundings, clients
<1>1. UNCHANGED setting /\ call \in [Contexts -> {NoCall} \cup Call]
  BY DEF Next, Typed, StateOK, ClientsOK
<1>2. ASSUME UNCHANGED <<box, runs, spent>>, Orphaned' => Orphaned,
             outcome' = "unauthenticated" => outcome = "unauthenticated"
      PROVE  IsFiniteSet(Owed(MaxRetries, box)') /\ Balance' <= Balance /\ TotalSpent' = TotalSpent
  BY <1>1, <1>2, BalanceStays DEF TotalSpent
<1>3. ASSUME UNCHANGED <<box, runs, used, spent>>, Asked' = Asked,
             pc \in {"running", "reporting"} => pc' \in {"running", "reporting"},
             outcome' = "unauthenticated" => outcome = "unauthenticated"
      PROVE  BalanceStep
  <2>1. Orphaned' => Orphaned
    BY <1>3 DEF Orphaned, Executing
  <2> QED BY <1>2, <1>3, <2>1 DEF BalanceStep
<1>4. ASSUME UNCHANGED <<box, runs, used>>, NEW d \in Disruptions, Disrupt(d),
             outcome' = "unauthenticated" => outcome = "unauthenticated" \/ Orphaned' = Orphaned,
             NEW c, Asked' \subseteq Asked \cup {c}
      PROVE  BalanceStep
  BY <1>1, <1>4, DisruptionBalance, DisruptionSpends DEF BalanceStep
<1>5. ASSUME NEW c \in Contexts, BecomeLeader(c) \/ Reopen(c) PROVE BalanceStep
  BY <1>3, <1>5 DEF BecomeLeader, Reopen, Asked, OffWithoutLeader
<1>6. ASSUME NEW c \in Contexts, Crash(c) PROVE BalanceStep
  <2>1. Asked' \subseteq Asked \cup {lane[c].caller}
    BY <1>1, <1>6 DEF Crash, Asked, NoCall
  <2>2. outcome' = "unauthenticated" => outcome = "unauthenticated"
    BY <1>6 DEF Crash, HaltExecutor
  <2>3. UNCHANGED <<box, runs, used>> /\ Disrupt("crash")
    BY <1>6 DEF Crash
  <2> QED BY <1>4, <2>1, <2>2, <2>3 DEF Disruptions
<1>7. ASSUME NEW c \in Contexts, Post(c) PROVE BalanceStep
  <2>1. Asked' = Asked
    <3>1. ASSUME NEW d \in Contexts, d = lane[c].caller
          PROVE  d \notin Asked /\ d \notin Asked'
      <4>1. call[d].state = "handled" /\ call[d] \in Call
        BY <1>1, <1>7, <3>1 DEF Post, Typed, LanesServeCalls, Serves, NoCall
      <4>2. call'[d].state = "answered"
        BY <1>7, <3>1, <4>1 DEF Post, Call
      <4> QED BY <4>1, <4>2 DEF Asked
    <3>2. ASSUME NEW d \in Contexts, d # lane[c].caller PROVE call'[d] = call[d]
      BY <1>7, <3>2 DEF Post
    <3> QED BY <3>1, <3>2 DEF Asked
  <2> QED BY <1>3, <1>7, <2>1 DEF Post
<1>8. ASSUME NEW c \in Contexts, ClientStep(c) PROVE BalanceStep
  <2>1. CASE \E id \in Ids : SendEnqueue(c, id)
    <3>1. PICK id \in Ids : SendEnqueue(c, id)
      BY <2>1
    <3>2. Asked' \subseteq Asked \cup {c}
      BY <1>1, <3>1 DEF SendEnqueue, Send, Asked
    <3>3. UNCHANGED <<box, runs, spent, pc, outcome>> /\ id \notin used /\ used' = used \cup {id}
      BY <3>1 DEF SendEnqueue, Send
    <3>4. Orphaned' = Orphaned
      BY <3>3 DEF Orphaned, Executing
    <3> QED BY <1>2, <3>2, <3>3, <3>4 DEF BalanceStep
  <2>2. CASE \E id \in Ids, op \in Operations : SendChange(c, op, id)
    <3>1. Asked' \subseteq Asked \cup {c}
      BY <1>1, <2>2 DEF SendChange, Send, Asked
    <3>2. UNCHANGED <<box, runs, used, outcome>> /\ Disrupt("user")
      BY <2>2 DEF SendChange, Send
    <3> QED BY <1>4, <3>1, <3>2 DEF Disruptions
  <2>3. CASE HandleCall(c)
    BY <1>1, <2>3, HandlersBalance
  <2>4. CASE Return(c)
    <3>1. Asked' = Asked
      BY <1>1, <2>4 DEF Return, Asked, NoCall
    <3> QED BY <1>3, <2>4, <3>1 DEF Return
  <2>5. CASE GiveUp(c)
    <3>1. Asked' \subseteq Asked \cup {c}
      BY <1>1, <2>5 DEF GiveUp, Asked
    <3>2. UNCHANGED <<box, runs, used, outcome>> /\ Disrupt("timeout")
      BY <2>5 DEF GiveUp
    <3> QED BY <1>4, <3>1, <3>2 DEF Disruptions
  <2>6. CASE DeliverResults(c)
    BY <1>3, <2>6 DEF DeliverResults, Asked
  <2> QED BY <1>8, <2>1, <2>2, <2>3, <2>4, <2>5, <2>6 DEF ClientStep
<1>9. CASE LoseLeadership
  <2>1. UNCHANGED <<box, runs, used, call>> /\ outcome' = "none" /\ Disrupt("handover")
    BY <1>9 DEF LoseLeadership, HaltExecutor
  <2>2. Asked' \subseteq Asked \cup {Nobody}
    BY <2>1 DEF Asked
  <2> QED BY <1>4, <2>1, <2>2 DEF Disruptions
<1>10. CASE ExecutorStep
  BY <1>1, <1>10, ExecutorBalance
<1>11. CASE Apply \/ BackendAnswers
  BY <1>3, <1>11 DEF Apply, BackendAnswers, Succeed, ExecutionFails, BackendRefuses, End, GivenUp,
     Asked
<1>12. CASE Unauthenticated
  <2>1. /\ UNCHANGED <<box, runs, used, call>> /\ Disrupt("outage")
        /\ pc \in {"running", "reporting"} /\ pc' \in {"running", "reporting"}
    BY <1>12 DEF Unauthenticated, End
  <2>2. Asked' \subseteq Asked \cup {Nobody} /\ Orphaned' = Orphaned
    BY <2>1 DEF Asked, Orphaned
  <2> QED BY <1>4, <2>1, <2>2 DEF Disruptions
<1>13. ASSUME NEW id \in Ids, BackoffElapses(id) PROVE BalanceStep
  <2>1. /\ id \in DOMAIN box /\ box' = [box EXCEPT ![id].due = TRUE] /\ MaxRetries \in Nat
        /\ IsTable(box) /\ UNCHANGED <<runs, pc, outcome, used, spent, call>>
    BY <1>13, BalanceType DEF BackoffElapses, Typed, StateOK, Finite
  <2>2. Gives(MaxRetries, box, box', id, 0)
    BY <2>1, ChangesGive
  <2>3. Executing' = Executing
    BY <2>1 DEF Executing, IsTable, Entry
  <2>4. Orphaned' = Orphaned
    BY <2>1, <2>3 DEF Orphaned
  <2>5. /\ IsFiniteSet(Owed(MaxRetries, box)')
        /\ Balance' + One(Orphaned) + One(outcome = "unauthenticated")
             <= Balance + 0 + One(Orphaned') + One(outcome' = "unauthenticated")
    BY <1>1, <2>1, <2>2, BalanceChange
  <2>6. One(Orphaned) \in Nat /\ One(outcome = "unauthenticated") \in Nat /\ One(Orphaned') = One(Orphaned)
        /\ One(outcome' = "unauthenticated") = One(outcome = "unauthenticated")
    BY <2>1, <2>4 DEF One
  <2>7. Balance \in Nat /\ Balance' \in Int
    <3>1. Cardinality(Owed(MaxRetries, box)') \in Nat /\ runs' \in Nat
      BY <2>5, FS_CardinalityType DEF Typed, StateOK
    <3> QED BY <2>6, <3>1, BalanceType DEF Balance, Finite
  <2>8. Balance' <= Balance
    BY <2>5, <2>6, <2>7
  <2> QED BY <2>1, <2>5, <2>8 DEF BalanceStep, Asked, TotalSpent
<1>14. CASE GoOffline
  <2>1. UNCHANGED <<box, runs, used, call, outcome>> /\ Disrupt("outage")
    BY <1>14 DEF GoOffline
  <2>2. Asked' \subseteq Asked \cup {Nobody}
    BY <2>1 DEF Asked
  <2> QED BY <1>4, <2>1, <2>2 DEF Disruptions
<1>15. CASE ComeOnline \/ SignIn
  BY <1>3, <1>15 DEF ComeOnline, SignIn, Asked
<1> QED BY <1>5, <1>6, <1>7, <1>8, <1>9, <1>10, <1>11, <1>12, <1>13, <1>14, <1>15 DEF Next, Step

\* A retry is scheduled only while retries are left, and without a leader no executor runs.
ExecutorInOrder == RetryIsAllowed /\ OffWithoutLeader

LEMMA NextKeepsOrder ==
  ASSUME Typed, ExecutorInOrder, [Next]_vars
  PROVE  ExecutorInOrder'
<1> USE DEF ExecutorInOrder, RetryIsAllowed, OffWithoutLeader, durable, executor, surroundings
<1>1. CASE UNCHANGED vars
  BY <1>1 DEF vars, moving, MaxRetries
<1>2. CASE Next
  <2>1. MaxRetries' = MaxRetries
    BY <1>2 DEF Next, MaxRetries
  <2>2. ASSUME NEW c \in Contexts, BecomeLeader(c) \/ Crash(c) \/ Reopen(c) \/ Post(c)
        PROVE  ExecutorInOrder'
    BY <2>1, <2>2, NobodyAssumption DEF BecomeLeader, Crash, HaltExecutor, Reopen, Post
  <2>3. ASSUME NEW c \in Contexts, ClientStep(c) PROVE ExecutorInOrder'
    <3>1. UNCHANGED <<leader, pc, outcome, claim>>
      BY <2>3 DEF ClientStep, SendEnqueue, SendChange, Send, HandleCall, HandleEnqueue, HandleEdit,
         HandleRemove, HandleRetry, HandleRefused, Handle, Return, GiveUp, DeliverResults
    <3> QED BY <2>1, <3>1
  <2>4. CASE LoseLeadership
    BY <2>4 DEF LoseLeadership, HaltExecutor
  <2>5. CASE ExecutorStep
    BY <2>1, <2>5 DEF ExecutorStep, Recover, CheckConnection, ClaimHead, ClaimNothing, AskNextRetry,
       WakeUp, TimerFires, Report, LaneIsFree
  <2>6. CASE Apply \/ BackendAnswers \/ Unauthenticated
    BY <2>1, <2>6 DEF Apply, BackendAnswers, Succeed, ExecutionFails, BackendRefuses, Unauthenticated,
       End, GivenUp, RetryScheduled
  <2>7. CASE (\E id \in Ids : BackoffElapses(id)) \/ GoOffline \/ ComeOnline \/ SignIn
    BY <2>1, <2>7 DEF BackoffElapses, GoOffline, ComeOnline, SignIn
  <2> QED BY <1>2, <2>2, <2>3, <2>4, <2>5, <2>6, <2>7 DEF Next, Step
<1> QED BY <1>1, <1>2

Accounted == setting \in Settings /\ Distinct /\ ExecutorInOrder /\ Finite /\ Solvent

LEMMA InitIsAccounted == Init => Accounted
<1> SUFFICES ASSUME Init PROVE Accounted
  OBVIOUS
<1>1. setting \in Settings /\ Distinct /\ ExecutorInOrder
  BY DEF Init, Distinct, ExecutorInOrder, RetryIsAllowed, OffWithoutLeader
<1>2. Owed(MaxRetries, box) = {} /\ Asked = {} /\ used = {}
  BY DEF Init, Owed, Asked, NoCall
<1>3. IsFiniteSet({}) /\ Cardinality({}) = 0
  BY FS_EmptySet
<1>4. Finite
  BY <1>2, <1>3 DEF Finite
<1>5. Balance = 0
  <2>1. Executing = {} /\ outcome = "none" /\ runs = 0
    BY DEF Init, Executing
  <2>2. One(Orphaned) = 0 /\ One(outcome = "unauthenticated") = 0
    BY <2>1 DEF One, Orphaned
  <2> QED BY <1>2, <1>3, <2>1, <2>2 DEF Balance
<1>6. TotalSpent = 0 /\ MaxRetries \in Nat
  BY SettingsAssumption DEF Init, TotalSpent, Disruptions, MaxRetries
<1>7. Solvent
  BY <1>2, <1>3, <1>5, <1>6 DEF Solvent
<1> QED BY <1>1, <1>4, <1>7 DEF Accounted

LEMMA NextIsAccounted ==
  Typed /\ Typed' /\ Claims /\ Accounted /\ [Next]_vars => Accounted'
<1> SUFFICES ASSUME Typed, Typed', Claims, Accounted, [Next]_vars PROVE Accounted'
  OBVIOUS
<1>1. Barrier
  BY DEF Typed, StateOK, Claims, Accounted, Barrier
<1>2. Distinct' /\ ExecutorInOrder'
  BY <1>1, NextIsQueueStep, NextKeepsOrder DEF Accounted
<1>3. UNCHANGED setting
  BY DEF Next, vars
<1>4. Finite' /\ Solvent'
  <2>1. CASE Next
    <3>1. BalanceStep
      BY <1>1, <2>1, NextIsBalanced DEF Accounted, ExecutorInOrder
    <3> QED BY <1>3, <3>1, BalanceStepKeeps DEF Accounted
  <2>2. CASE UNCHANGED vars
    BY <2>2 DEF Accounted, Finite, Solvent, Balance, Owed, Rounds, Asked, Orphaned, Executing,
       TotalSpent, MaxRetries, vars, moving
  <2> QED BY <2>1, <2>2
<1> QED BY <1>2, <1>3, <1>4 DEF Accounted

\* Retries end: an action is executed at most MaxRetries + 1 times, and a crash, a change of leader,
\* a timeout, an outage or a call of the user buys at most one more round.  What an execution may
\* still cost is owed before it is claimed, so the number of executions never outruns what clients
\* asked for.
THEOREM RetriesEnd == Spec => []RunsBounded
<1>1. Typed /\ Accounted => RunsBounded
  <2> SUFFICES ASSUME Typed, Accounted PROVE RunsBounded
    OBVIOUS
  <2>1. /\ MaxRetries \in Nat /\ Cardinality(Asked) \in Nat /\ Cardinality(used) \in Nat
        /\ Cardinality(Owed(MaxRetries, box)) \in Nat /\ TotalSpent \in Nat /\ runs \in Nat
    BY BalanceType, FS_CardinalityType DEF Accounted, Finite, Typed, StateOK
  <2>2. One(Orphaned) \in Nat /\ One(outcome = "unauthenticated") \in Nat
    BY DEF One
  <2> DEFINE cost == (MaxRetries + 1) * Cardinality(Asked)
             paid == (MaxRetries + 1) * Cardinality(used) + (MaxRetries + 2) * TotalSpent
  <2>3. cost \in Nat /\ paid \in Nat
    BY <2>1
  <2>4. Balance + cost <= paid
    BY DEF Accounted, Solvent
  <2> HIDE DEF cost, paid
  <2>5. runs <= paid
    BY <2>1, <2>2, <2>3, <2>4 DEF Balance
  <2> QED BY <2>5 DEF RunsBounded, paid
<1>2. Init => Claims
  BY DEF Init, Claims, ExecutingIsHead, ClaimIsCurrent
<1> QED BY <1>1, <1>2, InitTyped, NextTyped, NextKeepsClaims, InitIsAccounted, NextIsAccounted, PTL
     DEF Spec
=============================================================================
