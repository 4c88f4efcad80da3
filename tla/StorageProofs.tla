---------------------------- MODULE StorageProofs ----------------------------
(***************************************************************************)
(* What holds of the lock and its broadcast channel, for any number of     *)
(* nodes, calls and attempts, and of the SQLite ontology and its byte      *)
(* store, for any applications, attachments and collections, whatever      *)
(* fails between them.                                                     *)
(***************************************************************************)
EXTENDS LockBroadcast, SQLiteOntology, TLAPS

----------------------------------------------------------------------------
(* The lock: its types *)

\* The parts of LockTypes that different actions disturb.
CallTypes == call \in [Calls -> [by : Nodes \cup {NoOne}, attempts : Nat,
                                 state : {"new", "remote", "local", "ok", "error"}]]
InboxTypes == inbox \in [Nodes -> Seq(Messages)]
LaneTypes ==
  /\ lane \in [Nodes -> Seq(Calls)]
  /\ running \in [Nodes -> Calls \cup {NoOne}]
  /\ lock \in Nodes \cup {NoOne}

\* A call has a caller from the moment it is made.
Callers == \A i \in Calls : call[i].state = "new" <=> call[i].by = NoOne

\* What is known of the state before and after any step.
Typed == LockTypes /\ Callers

LEMMA MessageTypes ==
  ASSUME NEW type \in {"request", "cancel", "ok", "error"}, NEW i \in Calls
  PROVE  Message(type, i) \in Messages
  BY DEF Message, Messages

LEMMA PublishedTypes ==
  ASSUME InboxTypes, NEW n \in Nodes, NEW m \in Messages
  PROVE  Published(n, m) \in [Nodes -> Seq(Messages)]
  BY DEF InboxTypes, Published

LEMMA HeadTypes ==
  ASSUME InboxTypes, NEW n \in Nodes, inbox[n] # <<>>
  PROVE  /\ Head(inbox[n]) \in Messages
         /\ Head(inbox[n]).id \in Calls
         /\ Tail(inbox[n]) \in Seq(Messages)
<1>1. inbox[n] \in Seq(Messages)
  BY DEF InboxTypes
<1>2. Head(inbox[n]) \in Messages /\ Tail(inbox[n]) \in Seq(Messages)
  BY <1>1
<1> QED BY <1>2 DEF Messages

LEMMA ReceivedTypes ==
  ASSUME InboxTypes, NEW n \in Nodes, inbox[n] # <<>>
  PROVE  Received(n) \in [Nodes -> Seq(Messages)]
  BY HeadTypes DEF InboxTypes, Received

\* An answer put into any inbox keeps the types.
LEMMA AnswerTypes ==
  ASSUME NEW q \in [Nodes -> Seq(Messages)], NEW m \in Messages, NEW k
  PROVE  [q EXCEPT ![k] = IF life[k] = "closed" THEN @ ELSE Append(@, m)]
           \in [Nodes -> Seq(Messages)]
<1>1. CASE k \in Nodes
  <2>1. Append(q[k], m) \in Seq(Messages)
    BY <1>1
  <2> QED BY <1>1, <2>1
<1>2. CASE k \notin Nodes
  BY <1>2
<1> QED BY <1>1, <1>2

LEMMA AddTypes ==
  ASSUME NEW f \in [Nodes -> SUBSET Calls], NEW n \in Nodes, NEW s \in SUBSET Calls
  PROVE  [f EXCEPT ![n] = f[n] \cup s] \in [Nodes -> SUBSET Calls]
<1>1. f[n] \cup s \in SUBSET Calls
  OBVIOUS
<1> QED BY <1>1

\* Only the state of a call changes, and not to or from "new".
LEMMA SettleKeeps ==
  ASSUME Typed, NEW i \in Calls, Waiting(i), NEW s \in {"ok", "error"}, Settle(i, s)
  PROVE  CallTypes' /\ Callers'
<1>1. call' = [call EXCEPT ![i] = [call[i] EXCEPT !.state = s]]
  BY DEF Settle
<1>2. [call[i] EXCEPT !.state = s] \in [by : Nodes \cup {NoOne}, attempts : Nat,
                                      state : {"new", "remote", "local", "ok", "error"}]
  <2>1. CallTypes
    BY DEF Typed, LockTypes, CallTypes
  <2> QED BY <2>1 DEF CallTypes
<1>3. \A j \in Calls : call'[j].by = call[j].by
                       /\ (call'[j].state = "new" <=> call[j].state = "new")
  BY <1>1 DEF Typed, LockTypes, Waiting
<1>4. CallTypes'
  BY <1>1, <1>2 DEF Typed, LockTypes, CallTypes
<1> QED BY <1>3, <1>4 DEF Typed, Callers

\* A call that is sent has its caller and stays within its attempts.
LEMMA SendKeeps ==
  ASSUME Typed, NEW i \in Calls, NEW n \in Nodes, NEW a \in Nat, Send(i, n, a)
  PROVE  /\ CallTypes' /\ Callers' /\ InboxTypes'
         /\ lane' = lane \/ (Leads(n) /\ Accept(n, i))
<1>1. CallTypes' /\ Callers'
  <2>1. PICK t \in Nat, s \in {"local", "remote"} :
          call' = [call EXCEPT ![i] = [by |-> n, attempts |-> t, state |-> s]]
    BY AttemptsAssumption DEF Send
  <2>2. CallTypes'
    BY <2>1 DEF Typed, LockTypes, CallTypes
  <2>3. Callers'
    BY <2>1, NoOneAssumption DEF Typed, LockTypes, Callers
  <2> QED BY <2>2, <2>3
<1>2. InboxTypes'
  BY PublishedTypes, MessageTypes DEF Typed, LockTypes, Send, InboxTypes
<1> QED BY <1>1, <1>2 DEF Send

LEMMA AcceptTypes ==
  ASSUME LockTypes, NEW n \in Nodes, NEW i \in Calls, Accept(n, i)
  PROVE  lane' \in [Nodes -> Seq(Calls)]
  BY DEF LockTypes, Accept

\* Closing rejects calls that wait, so no new one.
LEMMA AbandonedKeeps ==
  ASSUME Typed, NEW n \in Nodes, call' = RejectedCalls(n)
  PROVE  CallTypes' /\ Callers'
<1>1. ASSUME NEW i \in Calls
      PROVE  /\ call'[i] = call[i] \/ (Waiting(i) /\ call'[i] = [call[i] EXCEPT !.state = "error"])
             /\ call[i] \in [by : Nodes \cup {NoOne}, attempts : Nat,
                             state : {"new", "remote", "local", "ok", "error"}]
  <2>1. CallTypes
    BY DEF Typed, LockTypes, CallTypes
  <2>2. call'[i] = IF call[i].by = n /\ Waiting(i) THEN [call[i] EXCEPT !.state = "error"]
                   ELSE call[i]
    BY DEF RejectedCalls
  <2>3. call[i] \in [by : Nodes \cup {NoOne}, attempts : Nat,
                     state : {"new", "remote", "local", "ok", "error"}]
    BY <2>1 DEF CallTypes
  <2>4. CASE call[i].by = n /\ Waiting(i)
    <3>1. call'[i] = [call[i] EXCEPT !.state = "error"]
      BY <2>2, <2>4, Zenon
    <3> QED BY <2>4, <2>3, <3>1, Zenon
  <2>5. CASE ~(call[i].by = n /\ Waiting(i))
    <3>1. call'[i] = call[i]
      BY <2>2, <2>5, Zenon
    <3> QED BY <2>3, <3>1, Zenon
  <2> QED BY <2>4, <2>5
<1>2. \A i \in Calls : call'[i].by = call[i].by
                       /\ (call'[i].state = "new" <=> call[i].state = "new")
  <2>1. SUFFICES ASSUME NEW i \in Calls
        PROVE  call'[i].by = call[i].by /\ (call'[i].state = "new" <=> call[i].state = "new")
    OBVIOUS
  <2>2. CASE call'[i] = call[i]
    BY <2>2
  <2>3. CASE Waiting(i) /\ call'[i] = [call[i] EXCEPT !.state = "error"]
    BY <1>1, <2>3 DEF Waiting
  <2> QED BY <1>1, <2>2, <2>3
<1>3. CallTypes'
  <2>1. call' = [i \in Calls |-> call'[i]]
    BY DEF RejectedCalls
  <2> QED BY <1>1, <2>1 DEF CallTypes
<1> QED BY <1>2, <1>3 DEF Typed, Callers

\* The end of a call in a lane.
LEMMA CompleteKeeps ==
  ASSUME Typed, NEW n \in Nodes, NEW i \in Calls, NEW r \in {"ok", "error"}, Complete(n, i, r)
  PROVE  /\ CallTypes' /\ Callers' /\ InboxTypes'
         /\ incoming' \in [Nodes -> SUBSET Calls] /\ aborted' \in [Nodes -> SUBSET Calls]
         /\ answers' \in [Nodes -> [Calls -> {"none", "ok", "error"}]]
<1>1. incoming' \in [Nodes -> SUBSET Calls] /\ aborted' \in [Nodes -> SUBSET Calls]
  BY DEF Typed, LockTypes, Complete
<1>2. answers' \in [Nodes -> [Calls -> {"none", "ok", "error"}]]
  <2>1. answers' = answers \/ answers' = [answers EXCEPT ![n][i] = r]
    BY DEF Complete
  <2>2. answers \in [Nodes -> [Calls -> {"none", "ok", "error"}]]
    BY DEF Typed, LockTypes
  <2>3. [answers[n] EXCEPT ![i] = r] \in [Calls -> {"none", "ok", "error"}]
    BY <2>2
  <2>4. CASE answers' = [answers EXCEPT ![n][i] = r]
    BY <2>2, <2>3, <2>4
  <2> QED BY <2>1, <2>2, <2>4
<1>3. CallTypes' /\ Callers'
  <2>1. CASE call' = call
    BY <2>1 DEF Typed, LockTypes, Callers, CallTypes
  <2>2. CASE Waiting(i) /\ Settle(i, r)
    BY <2>2, SettleKeeps
  <2> QED BY <2>1, <2>2 DEF Complete, Waiting
<1>4. InboxTypes'
  <2>1. Message(r, i) \in Messages
    BY MessageTypes
  <2>2. CASE inbox' = inbox
    BY <2>2 DEF Typed, LockTypes, InboxTypes
  <2>3. CASE inbox' = [inbox EXCEPT ![call[i].by] =
                         IF life[call[i].by] = "closed" THEN @ ELSE Append(@, Message(r, i))]
    BY <2>1, <2>3, AnswerTypes DEF Typed, LockTypes, InboxTypes
  <2> QED BY <2>2, <2>3 DEF Complete
<1> QED BY <1>1, <1>2, <1>3, <1>4

----------------------------------------------------------------------------
(* The lock: every step keeps the types *)

LEMMA InitTyped == LockInit => Typed
  BY AttemptsAssumption, NoOneAssumption DEF LockInit, Typed, LockTypes, Callers

\* LockTypes, put together from what changed and what did not.
LEMMA CallerSteps ==
  ASSUME Typed, NEW i \in Calls, Retry(i) \/ GiveUp(i) \/ \E n \in Nodes : Invoke(i, n)
  PROVE  Typed'
<1>1. CASE Retry(i)
  <2>1. call[i].by \in Nodes /\ call[i].attempts \in Nat
    BY <1>1, AttemptsAssumption DEF Retry, Typed, LockTypes, Callers
  <2>2. Send(i, call[i].by, call[i].attempts)
    BY <1>1 DEF Retry
  <2>3. CallTypes' /\ Callers' /\ InboxTypes'
    BY <2>1, <2>2, SendKeeps
  <2>4. lane' \in [Nodes -> Seq(Calls)]
    BY <2>1, <2>2, SendKeeps, AcceptTypes DEF Typed, LockTypes
  <2> QED BY <1>1, <2>3, <2>4 DEF Retry, Typed, LockTypes, CallTypes, InboxTypes
<1>2. CASE GiveUp(i)
  <2>1. call[i].by \in Nodes /\ Waiting(i) /\ Settle(i, "error")
    BY <1>2 DEF GiveUp, Typed, LockTypes, Callers, Waiting
  <2>2. CallTypes' /\ Callers'
    BY <2>1, SettleKeeps
  <2>3. InboxTypes'
    BY <1>2, <2>1, PublishedTypes, MessageTypes DEF GiveUp, Typed, LockTypes, InboxTypes
  <2>4. aborted' \in [Nodes -> SUBSET Calls]
    <3>1. aborted' = aborted
          \/ aborted' = [aborted EXCEPT ![call[i].by] = aborted[call[i].by] \cup {i}]
      BY <1>2 DEF GiveUp
    <3>2. {i} \in SUBSET Calls
      OBVIOUS
    <3>3. aborted \in [Nodes -> SUBSET Calls]
      BY DEF Typed, LockTypes
    <3> QED BY <2>1, <3>1, <3>2, <3>3, AddTypes
  <2> QED BY <1>2, <2>2, <2>3, <2>4 DEF GiveUp, Typed, LockTypes, CallTypes, InboxTypes
<1>3. ASSUME NEW n \in Nodes, Invoke(i, n)
      PROVE  Typed'
  <2>1. Send(i, n, 0) /\ 0 \in Nat
    BY <1>3, AttemptsAssumption DEF Invoke
  <2>2. CallTypes' /\ Callers' /\ InboxTypes'
    BY <2>1, SendKeeps
  <2>3. lane' \in [Nodes -> Seq(Calls)]
    BY <2>1, SendKeeps, AcceptTypes DEF Typed, LockTypes
  <2> QED BY <1>3, <2>2, <2>3 DEF Invoke, Typed, LockTypes, CallTypes, InboxTypes
<1> QED BY <1>1, <1>2, <1>3

LEMMA ReceiveSteps ==
  ASSUME Typed, NEW n \in Nodes, Receive(n)
  PROVE  Typed'
<1>1. InboxTypes /\ inbox[n] # <<>>
  BY DEF Typed, LockTypes, InboxTypes, Receive, ReceiveRequest, ReceiveCancel, ReceiveAnswer
<1>2. Received(n) \in [Nodes -> Seq(Messages)]
  BY <1>1, ReceivedTypes
<1> DEFINE m == Head(inbox[n])
<1>3. m \in Messages /\ m.id \in Calls
  BY <1>1, HeadTypes
<1> HIDE DEF m
<1>4. CASE ReceiveRequest(n)
  <2>1. lane' = lane \/ Accept(n, m.id)
    BY <1>4 DEF ReceiveRequest, m
  <2>2. lane' \in [Nodes -> Seq(Calls)]
    BY <1>3, <2>1, AcceptTypes DEF Typed, LockTypes
  <2>3. incoming' \in [Nodes -> SUBSET Calls]
    <3>1. incoming' = incoming \/ incoming' = [incoming EXCEPT ![n] = @ \cup {m.id}]
      BY <1>4 DEF ReceiveRequest, m
    <3>2. {m.id} \in SUBSET Calls
      BY <1>3
    <3>3. incoming \in [Nodes -> SUBSET Calls]
      BY DEF Typed, LockTypes
    <3> QED BY <3>1, <3>2, <3>3, AddTypes
  <2>4. InboxTypes'
    <3>1. CASE inbox' = Received(n)
      BY <1>2, <3>1 DEF InboxTypes
    <3>2. CASE /\ answers[n][m.id] # "none"
               /\ inbox' = [Received(n) EXCEPT ![call[m.id].by] =
                              IF life[call[m.id].by] = "closed" THEN @
                              ELSE Append(@, Message(answers[n][m.id], m.id))]
      <4>1. answers[n][m.id] \in {"ok", "error"}
        BY <1>3, <3>2 DEF Typed, LockTypes
      <4>2. Message(answers[n][m.id], m.id) \in Messages
        BY <1>3, <4>1, MessageTypes
      <4> QED BY <1>2, <3>2, <4>2, AnswerTypes DEF InboxTypes
    <3> QED BY <1>4, <3>1, <3>2 DEF ReceiveRequest, m
  <2> QED BY <1>4, <2>2, <2>3, <2>4 DEF ReceiveRequest, Typed, LockTypes, Callers, InboxTypes
<1>5. CASE ReceiveCancel(n)
  <2>1. aborted' \in [Nodes -> SUBSET Calls]
    BY <1>5 DEF ReceiveCancel, Typed, LockTypes
  <2>2. InboxTypes'
    BY <1>2, <1>5 DEF ReceiveCancel, InboxTypes
  <2> QED BY <1>5, <2>1, <2>2 DEF ReceiveCancel, Typed, LockTypes, Callers, InboxTypes
<1>6. CASE ReceiveAnswer(n)
  <2>1. InboxTypes'
    BY <1>2, <1>6 DEF ReceiveAnswer, InboxTypes
  <2>2. CallTypes' /\ Callers'
    <3>1. CASE call' = call
      BY <3>1 DEF Typed, LockTypes, Callers, CallTypes
    <3>2. CASE Waiting(m.id) /\ m.type \in {"ok", "error"} /\ Settle(m.id, m.type)
      BY <1>3, <3>2, SettleKeeps
    <3> QED BY <1>6, <3>1, <3>2 DEF ReceiveAnswer, Waiting, m
  <2> QED BY <1>6, <2>1, <2>2 DEF ReceiveAnswer, Typed, LockTypes, hosts, CallTypes, InboxTypes
<1> QED BY <1>4, <1>5, <1>6 DEF Receive

LEMMA DrainSteps ==
  ASSUME Typed, NEW n \in Nodes, Drain(n)
  PROVE  Typed'
<1>1. lane[n] # <<>> => Head(lane[n]) \in Calls /\ Tail(lane[n]) \in Seq(Calls)
  BY DEF Typed, LockTypes
<1>2. CASE StartCall(n)
  <2>1. lane' \in [Nodes -> Seq(Calls)] /\ running' \in [Nodes -> Calls \cup {NoOne}]
    BY <1>1, <1>2 DEF StartCall, Typed, LockTypes
  <2>2. runs' \in [Calls -> [Nodes -> Nat]]
    <3> DEFINE i == Head(lane[n])
    <3>1. i \in Calls /\ runs[i] \in [Nodes -> Nat] /\ runs[i][n] + 1 \in Nat
      <4>1. lane[n] # <<>> /\ i \in Calls
        BY <1>1, <1>2 DEF StartCall
      <4>2. runs \in [Calls -> [Nodes -> Nat]]
        BY DEF Typed, LockTypes
      <4> HIDE DEF i
      <4>3. runs[i] \in [Nodes -> Nat]
        BY <4>1, <4>2
      <4> QED BY <4>1, <4>3
    <3>2. [runs[i] EXCEPT ![n] = runs[i][n] + 1] \in [Nodes -> Nat]
      BY <3>1
    <3>3. runs' = [runs EXCEPT ![i] = [runs[i] EXCEPT ![n] = runs[i][n] + 1]]
      BY <1>2 DEF StartCall
    <3> HIDE DEF i
    <3> QED BY <3>1, <3>2, <3>3 DEF Typed, LockTypes
  <2> QED BY <1>2, <2>1, <2>2 DEF StartCall, Typed, LockTypes, Callers
<1>3. CASE Skip(n)
  <2>1. Complete(n, Head(lane[n]), "error") /\ Head(lane[n]) \in Calls
    BY <1>1, <1>3 DEF Skip
  <2>2. lane' \in [Nodes -> Seq(Calls)]
    BY <1>1, <1>3 DEF Skip, Typed, LockTypes
  <2> QED BY <1>3, <2>1, <2>2, CompleteKeeps DEF Skip, Typed, LockTypes, CallTypes, InboxTypes
<1>4. CASE Return(n)
  <2>1. PICK r \in {"ok", "error"} : Complete(n, running[n], r)
    BY <1>4 DEF Return
  <2>2. running[n] \in Calls /\ running' \in [Nodes -> Calls \cup {NoOne}]
    BY <1>4 DEF Return, Typed, LockTypes
  <2> QED BY <1>4, <2>1, <2>2, CompleteKeeps DEF Return, Typed, LockTypes, CallTypes, InboxTypes
<1> QED BY <1>2, <1>3, <1>4 DEF Drain

LEMMA WorkSteps ==
  ASSUME Typed, NEW n \in Nodes, RunAsLeader(n) \/ WorkEnds(n)
  PROVE  Typed'
<1>1. \E b \in BOOLEAN : work' = [work EXCEPT ![n] = b]
  BY DEF RunAsLeader, WorkEnds
<1>2. work' \in [Nodes -> BOOLEAN]
  BY <1>1 DEF Typed, LockTypes
<1>3. UNCHANGED <<life, lock, inbox, call, hosts>>
  BY DEF RunAsLeader, WorkEnds
<1> QED BY <1>2, <1>3 DEF Typed, LockTypes, Callers, hosts

LEMMA LockSteps ==
  ASSUME Typed, NEW n \in Nodes,
         Acquire(n) \/ CloseNode(n) \/ StopTerm(n) \/ CloseEnds(n) \/ NodeCrash(n)
  PROVE  Typed'
<1>1. CASE Acquire(n)
  BY <1>1 DEF Acquire, hosts, Typed, LockTypes, Callers
<1>2. CASE CloseNode(n) \/ StopTerm(n)
  <2>1. aborted' \in [Nodes -> SUBSET Calls]
    <3>1. PICK s \in SUBSET Calls : aborted' = [aborted EXCEPT ![n] = aborted[n] \cup s]
      <4>1. incoming[n] \in SUBSET Calls
        BY DEF Typed, LockTypes
      <4>2. {i \in Calls : call[i].by = n} \in SUBSET Calls
        OBVIOUS
      <4> QED BY <1>2, <4>1, <4>2 DEF CloseNode, StopTerm
    <3> QED BY <3>1, AddTypes DEF Typed, LockTypes
  <2>2. life' \in [Nodes -> {"open", "stopping", "closing", "closed"}]
    BY <1>2 DEF CloseNode, StopTerm, Typed, LockTypes
  <2>3. UNCHANGED <<lock, inbox, call, lane, running, incoming, answers, work, runs>>
    BY <1>2 DEF CloseNode, StopTerm
  <2> QED BY <2>1, <2>2, <2>3 DEF Typed, LockTypes, Callers
<1>3. CASE CloseEnds(n) \/ NodeCrash(n)
  <2>1. call' = RejectedCalls(n) /\ inbox' = [inbox EXCEPT ![n] = <<>>]
        /\ lock' = (IF lock = n THEN NoOne ELSE lock) /\ life' = [life EXCEPT ![n] = "closed"]
    BY <1>3 DEF CloseEnds, NodeCrash
  <2>2. CallTypes' /\ Callers'
    BY <2>1, AbandonedKeeps
  <2>3. inbox' \in [Nodes -> Seq(Messages)]
    BY <2>1 DEF Typed, LockTypes
  <2>4. lock' \in Nodes \cup {NoOne}
        /\ life' \in [Nodes -> {"open", "stopping", "closing", "closed"}]
    BY <2>1 DEF Typed, LockTypes
  <2>5. CASE CloseEnds(n)
    BY <2>2, <2>3, <2>4, <2>5 DEF CloseEnds, hosts, Typed, LockTypes, CallTypes
  <2>6. CASE NodeCrash(n)
    <3>1. /\ lane' \in [Nodes -> Seq(Calls)] /\ running' \in [Nodes -> Calls \cup {NoOne}]
          /\ aborted' \in [Nodes -> SUBSET Calls] /\ incoming' \in [Nodes -> SUBSET Calls]
      BY <2>6 DEF NodeCrash, Typed, LockTypes
    <3>2. work' \in [Nodes -> BOOLEAN]
      BY <2>6 DEF NodeCrash, Typed, LockTypes
    <3> QED BY <2>2, <2>3, <2>4, <2>6, <3>1, <3>2 DEF NodeCrash, Typed, LockTypes, CallTypes
  <2> QED BY <1>3, <2>5, <2>6
<1> QED BY <1>1, <1>2, <1>3

LEMMA StepTyped ==
  ASSUME Typed, [LockNext]_lockVars
  PROVE  Typed'
<1>1. ASSUME NEW n \in Nodes,
             \/ Acquire(n) \/ Receive(n) \/ Drain(n) \/ RunAsLeader(n) \/ WorkEnds(n)
             \/ CloseNode(n) \/ StopTerm(n) \/ CloseEnds(n) \/ NodeCrash(n)
      PROVE  Typed'
  BY <1>1, ReceiveSteps, DrainSteps, WorkSteps, LockSteps
<1>2. ASSUME NEW i \in Calls, Retry(i) \/ GiveUp(i) \/ \E n \in Nodes : Invoke(i, n)
      PROVE  Typed'
  BY <1>2, CallerSteps
<1>3. CASE UNCHANGED lockVars
  BY <1>3 DEF lockVars, hosts, Typed, LockTypes, Callers
<1> QED BY <1>1, <1>2, <1>3 DEF LockNext

LEMMA AlwaysTyped == LockSpec => []Typed
  BY InitTyped, StepTyped, PTL DEF LockSpec

----------------------------------------------------------------------------
(* The lock: handlers and the lock *)

\* The inductive invariant: what is accepted or executed is the lock holder's.
LanesUnderLock == \A n \in Nodes : lane[n] # <<>> \/ running[n] # NoOne => lock = n

\* Calls are accepted by leaders only.
LEMMA AcceptKeeps ==
  ASSUME LockTypes, LanesUnderLock, NEW n \in Nodes, NEW i,
         lane' = lane \/ (Leads(n) /\ Accept(n, i)), UNCHANGED <<running, lock>>
  PROVE  LanesUnderLock'
  BY DEF LockTypes, LanesUnderLock, Leads, Accept

LEMMA StepUnderLock ==
  ASSUME Typed, LanesUnderLock, [LockNext]_lockVars
  PROVE  LanesUnderLock'
<1>1. ASSUME NEW i \in Calls, Retry(i) \/ GiveUp(i) \/ \E n \in Nodes : Invoke(i, n)
      PROVE  LanesUnderLock'
  <2>1. CASE Retry(i)
    <3>1. call[i].by \in Nodes
      BY <2>1 DEF Retry, Typed, LockTypes, Callers
    <3> QED BY <2>1, <3>1, AcceptKeeps DEF Retry, Send, Typed
  <2>2. CASE GiveUp(i)
    BY <2>2 DEF GiveUp, LanesUnderLock
  <2>3. ASSUME NEW n \in Nodes, Invoke(i, n)
        PROVE  LanesUnderLock'
    BY <2>3, AcceptKeeps DEF Invoke, Send, Typed
  <2> QED BY <1>1, <2>1, <2>2, <2>3
<1>2. ASSUME NEW n \in Nodes, Receive(n)
      PROVE  LanesUnderLock'
  <2>1. lane' = lane \/ (Leads(n) /\ Accept(n, Head(inbox[n]).id))
    BY <1>2 DEF Receive, ReceiveRequest, ReceiveCancel, ReceiveAnswer, hosts
  <2>2. UNCHANGED <<running, lock>>
    BY <1>2 DEF Receive, ReceiveRequest, ReceiveCancel, ReceiveAnswer, hosts
  <2> QED BY <2>1, <2>2, AcceptKeeps DEF Typed
\* Lanes are emptied where they are.
<1>3. ASSUME NEW n \in Nodes, Drain(n)
      PROVE  LanesUnderLock'
  BY <1>3 DEF Drain, StartCall, Skip, Return, Typed, LockTypes, LanesUnderLock
\* The lock is granted when nobody holds it, and released with nothing left to execute.
<1>4. ASSUME NEW n \in Nodes, Acquire(n)
      PROVE  LanesUnderLock'
  BY <1>4, NoOneAssumption DEF Acquire, hosts, LanesUnderLock
<1>5. ASSUME NEW n \in Nodes, CloseEnds(n) \/ NodeCrash(n)
      PROVE  LanesUnderLock'
  BY <1>5 DEF CloseEnds, NodeCrash, hosts, Typed, LockTypes, LanesUnderLock
<1>6. ASSUME NEW n \in Nodes, RunAsLeader(n) \/ WorkEnds(n) \/ CloseNode(n) \/ StopTerm(n)
      PROVE  LanesUnderLock'
  BY <1>6 DEF RunAsLeader, WorkEnds, CloseNode, StopTerm, hosts, LanesUnderLock
<1>7. CASE UNCHANGED lockVars
  BY <1>7 DEF lockVars, hosts, LanesUnderLock
<1> QED BY <1>1, <1>2, <1>3, <1>4, <1>5, <1>6, <1>7 DEF LockNext

\* A handler runs only while its node holds the lock, whatever closes, dies, is repeated or
\* cancelled: closing waits for the lane before the lock is released.
THEOREM UnderLock == LockSpec => []ServedUnderLock
<1>1. LockInit => LanesUnderLock
  BY DEF LockInit, LanesUnderLock
<1>2. LanesUnderLock => ServedUnderLock
  BY DEF LanesUnderLock, ServedUnderLock
<1> QED BY <1>1, <1>2, AlwaysTyped, StepUnderLock, PTL DEF LockSpec

----------------------------------------------------------------------------
(* The lock: what callers rely on *)

Held(x, q) == \E k \in 1..Len(q) : q[k] = x

Distinct(q) == \A k, l \in 1..Len(q) : q[k] = q[l] => k = l

\* Node n serves or has answered the request of i, or takes no requests any more.
Engaged(i, n) == i \in incoming[n] \/ answers[n][i] # "none" \/ life[n] # "open"

\* Node n will not accept call i any more: as its caller it called its own handlers or has
\* settled the call; another node is engaged.
Taken(i, n) ==
  IF call[i].by = n THEN call[i].state \notin {"new", "remote"} ELSE Engaged(i, n)

\* A call that waits in a lane was not started there; one that may still be accepted, and one
\* that was not made, was neither started nor accepted.
Once(i, n) ==
  /\ runs[i][n] <= 1
  /\ Held(i, lane[n]) => runs[i][n] = 0
  /\ ~Taken(i, n) \/ call[i].state = "new" => runs[i][n] = 0 /\ ~Held(i, lane[n])

Executions == \A i \in Calls, n \in Nodes : Once(i, n)

LanesDistinct == \A n \in Nodes : Distinct(lane[n])

\* Requests come from calls that were made, and no node is asked by itself.
Requests ==
  \A n \in Nodes, i \in Calls :
    Held(Message("request", i), inbox[n]) => call[i].by \notin {NoOne, n}

Serving == Executions /\ LanesDistinct /\ Requests /\ ClosedSettles

LEMMA Appended ==
  ASSUME NEW S, NEW q \in Seq(S), NEW x \in S
  PROVE  /\ \A y : Held(y, Append(q, x)) => y = x \/ Held(y, q)
         /\ Distinct(q) /\ ~Held(x, q) => Distinct(Append(q, x))
<1>1. /\ Len(Append(q, x)) = Len(q) + 1 /\ Len(q) \in Nat
      /\ Append(q, x)[Len(q) + 1] = x
      /\ \A k \in 1..Len(q) : Append(q, x)[k] = q[k]
  OBVIOUS
<1>2. \A k \in 1..(Len(q) + 1) : k = Len(q) + 1 \/ k \in 1..Len(q)
  BY <1>1
<1>3. \A y : Held(y, Append(q, x)) => y = x \/ Held(y, q)
  BY <1>1, <1>2 DEF Held
<1>4. ASSUME Distinct(q), ~Held(x, q)
      PROVE  Distinct(Append(q, x))
  BY <1>1, <1>2, <1>4 DEF Distinct, Held
<1> QED BY <1>3, <1>4

LEMMA Removed ==
  ASSUME NEW S, NEW q \in Seq(S), q # <<>>
  PROVE  /\ Held(Head(q), q) /\ \A y : Held(y, Tail(q)) => Held(y, q)
         /\ Distinct(q) => Distinct(Tail(q)) /\ ~Held(Head(q), Tail(q))
<1>1. /\ Len(q) \in Nat /\ Len(q) # 0 /\ Len(Tail(q)) = Len(q) - 1 /\ Head(q) = q[1]
      /\ \A k \in 1..Len(Tail(q)) : Tail(q)[k] = q[k + 1]
  OBVIOUS
<1>2. 1 \in 1..Len(q) /\ \A k \in 1..Len(Tail(q)) : k + 1 \in 1..Len(q) /\ k + 1 # 1
  BY <1>1
<1>3. Held(Head(q), q) /\ \A y : Held(y, Tail(q)) => Held(y, q)
  BY <1>1, <1>2 DEF Held
<1>4. ASSUME Distinct(q)
      PROVE  ~Held(Head(q), Tail(q))
  BY <1>1, <1>2, <1>4 DEF Distinct, Held
<1>5. ASSUME Distinct(q)
      PROVE  Distinct(Tail(q))
  BY <1>1, <1>2, <1>5 DEF Distinct
<1> QED BY <1>3, <1>4, <1>5

\* Calls keep their callers and only settle.
Settling ==
  \A i \in Calls :
    /\ call'[i].by = call[i].by
    /\ \/ call'[i].state = call[i].state
       \/ Waiting(i) /\ call'[i].state \in {"ok", "error"}

LEMMA Settlings ==
  ASSUME Typed,
         \/ call' = call
         \/ \E i \in Calls, s \in {"ok", "error"} : Waiting(i) /\ Settle(i, s)
         \/ \E n \in Nodes : call' = RejectedCalls(n)
  PROVE  Settling
<1>1. CASE call' = call
  BY <1>1 DEF Settling
<1>2. CASE \E i \in Calls, s \in {"ok", "error"} : Waiting(i) /\ Settle(i, s)
  BY <1>2 DEF Settle, Settling, Typed, LockTypes
<1>3. CASE \E n \in Nodes : call' = RejectedCalls(n)
  <2> SUFFICES ASSUME NEW i \in Calls
               PROVE  /\ call'[i].by = call[i].by
                      /\ \/ call'[i].state = call[i].state
                         \/ Waiting(i) /\ call'[i].state \in {"ok", "error"}
    BY DEF Settling
  <2>1. call'[i] = call[i] \/ (Waiting(i) /\ call'[i] = [call[i] EXCEPT !.state = "error"])
    BY <1>3 DEF RejectedCalls
  <2>2. call[i] \in [by : Nodes \cup {NoOne}, attempts : Nat,
                     state : {"new", "remote", "local", "ok", "error"}]
    BY DEF Typed, LockTypes
  <2> QED BY <2>1, <2>2
<1> QED BY <1>1, <1>2, <1>3

\* Steps that start and accept nothing.
LEMMA NothingStarts ==
  ASSUME Typed, Executions, Settling, runs' = runs,
         \A i \in Calls, n \in Nodes : Held(i, lane'[n]) => Held(i, lane[n]),
         \A i \in Calls, n \in Nodes : Engaged(i, n) => Engaged(i, n)'
  PROVE  Executions'
<1> SUFFICES ASSUME NEW i \in Calls, NEW n \in Nodes
             PROVE  Once(i, n)'
  BY DEF Executions
<1>1. Once(i, n)
  BY DEF Executions
<1>2. /\ call'[i].by = call[i].by
      /\ \/ call'[i].state = call[i].state
         \/ Waiting(i) /\ call'[i].state \in {"ok", "error"}
  BY DEF Settling
<1>3. call'[i].state = "new" => call[i].state = "new"
  BY <1>2
<1>4. Taken(i, n) => Taken(i, n)'
  BY <1>2 DEF Taken, Waiting
<1>5. runs'[i][n] = runs[i][n] /\ (Held(i, lane'[n]) => Held(i, lane[n]))
  OBVIOUS
<1> HIDE DEF Taken
<1> QED BY <1>1, <1>3, <1>4, <1>5 DEF Once

\* Steps that publish no request.
LEMMA NothingAsked ==
  ASSUME Requests, Settling,
         \A i \in Calls, n \in Nodes :
           Held(Message("request", i), inbox'[n]) => Held(Message("request", i), inbox[n])
  PROVE  Requests'
  BY DEF Requests, Settling

\* Steps by which nobody who waits loses its node.
LEMMA NobodyLost ==
  ASSUME Typed, ClosedSettles, Settling,
         \A i \in Calls : call'[i].state \in {"remote", "local"} =>
           life'[call[i].by] = life[call[i].by] \/ life'[call[i].by] # "closed"
  PROVE  ClosedSettles'
<1> SUFFICES ASSUME NEW i \in Calls, call'[i].state \in {"remote", "local"}
             PROVE  life'[call'[i].by] # "closed"
  BY DEF ClosedSettles, Waiting
<1>1. call'[i].by = call[i].by /\ Waiting(i)
  BY DEF Settling, Waiting
<1> QED BY <1>1 DEF ClosedSettles

----------------------------------------------------------------------------
(* The lock: requests on the channel *)

\* The requests held by the inboxes q are held by the inboxes o.
NoneAsked(q, o) ==
  \A i \in Calls, n \in Nodes :
    Held(Message("request", i), q[n]) => Held(Message("request", i), o[n])

LEMMA RemovedAsks ==
  ASSUME InboxTypes, NEW k \in Nodes, inbox[k] # <<>>
  PROVE  NoneAsked(Received(k), inbox)
<1> SUFFICES ASSUME NEW i \in Calls, NEW n \in Nodes,
                    Held(Message("request", i), Received(k)[n])
             PROVE  Held(Message("request", i), inbox[n])
  BY DEF NoneAsked
<1>1. CASE n = k
  <2>1. Received(k)[n] = Tail(inbox[n])
    BY <1>1 DEF Received, InboxTypes
  <2>2. inbox[n] \in Seq(Messages) /\ inbox[n] # <<>>
    BY <1>1 DEF InboxTypes
  <2> QED BY <2>1, <2>2, Removed
<1>2. CASE n # k
  BY <1>2 DEF Received, InboxTypes
<1> QED BY <1>1, <1>2

LEMMA AnsweredAsks ==
  ASSUME NEW q \in [Nodes -> Seq(Messages)], NEW m \in Messages, m.type # "request", NEW c,
         inbox' = [q EXCEPT ![c] = IF life[c] = "closed" THEN @ ELSE Append(@, m)],
         NoneAsked(q, inbox)
  PROVE  NoneAsked(inbox', inbox)
<1> SUFFICES ASSUME NEW i \in Calls, NEW n \in Nodes,
                    Held(Message("request", i), inbox'[n])
             PROVE  Held(Message("request", i), q[n])
  BY DEF NoneAsked
<1>1. inbox'[n] = q[n] \/ inbox'[n] = Append(q[n], m)
  OBVIOUS
<1>2. Message("request", i) # m
  BY DEF Message
<1>3. q[n] \in Seq(Messages)
  OBVIOUS
<1>4. CASE inbox'[n] = q[n]
  BY <1>4
<1>5. CASE inbox'[n] = Append(q[n], m)
  BY <1>2, <1>3, <1>5, Appended
<1> QED BY <1>1, <1>4, <1>5

LEMMA PublishedAsks ==
  ASSUME InboxTypes, NEW k \in Nodes, NEW m \in Messages, NEW i \in Calls, NEW n \in Nodes,
         Held(Message("request", i), Published(k, m)[n])
  PROVE  Held(Message("request", i), inbox[n]) \/ (m = Message("request", i) /\ n # k)
<1>1. inbox[n] \in Seq(Messages)
  BY DEF InboxTypes
<1>2. Published(k, m)[n] = inbox[n] \/ (n # k /\ Published(k, m)[n] = Append(inbox[n], m))
  BY DEF Published
<1>3. CASE Published(k, m)[n] = inbox[n]
  BY <1>3
<1>4. CASE n # k /\ Published(k, m)[n] = Append(inbox[n], m)
  BY <1>1, <1>4, Appended
<1> QED BY <1>2, <1>3, <1>4

LEMMA ClearedAsks ==
  ASSUME InboxTypes, NEW k \in Nodes, inbox' = [inbox EXCEPT ![k] = <<>>]
  PROVE  NoneAsked(inbox', inbox)
<1> SUFFICES ASSUME NEW i \in Calls, NEW n \in Nodes,
                    Held(Message("request", i), inbox'[n])
             PROVE  Held(Message("request", i), inbox[n])
  BY DEF NoneAsked
<1>1. CASE n = k
  <2>1. inbox'[n] = <<>>
    BY <1>1 DEF InboxTypes
  <2>2. 1..Len(inbox'[n]) = {}
    BY <2>1
  <2> QED BY <2>2 DEF Held
<1>2. CASE n # k
  BY <1>2 DEF InboxTypes
<1> QED BY <1>1, <1>2

\* A request at the head of an inbox was sent by another node.
LEMMA AskedByOther ==
  ASSUME LockTypes, Requests, NEW n \in Nodes, inbox[n] # <<>>, Head(inbox[n]).type = "request"
  PROVE  call[Head(inbox[n]).id].by \notin {NoOne, n}
<1> DEFINE m == Head(inbox[n])
<1>1. inbox[n] \in Seq(Messages)
  BY DEF LockTypes
<1>2. m \in Messages /\ Held(m, inbox[n])
  BY <1>1, Removed
<1> HIDE DEF m
<1>3. m.type = "request"
  BY DEF m
<1>4. m.id \in Calls /\ m = Message("request", m.id)
  BY <1>2, <1>3 DEF Messages, Message
<1>5. call[m.id].by \notin {NoOne, n}
  BY <1>2, <1>4 DEF Requests
<1> QED BY <1>5 DEF m

\* The end of a call in the lane of a node whose lane empties.
LEMMA CompleteServes ==
  ASSUME Typed, NEW n \in Nodes, NEW i \in Calls, NEW r \in {"ok", "error"}, Complete(n, i, r),
         life' = life
  PROVE  /\ Settling /\ NoneAsked(inbox', inbox)
         /\ \A j \in Calls, m \in Nodes : Engaged(j, m) => Engaged(j, m)'
<1>1. Settling
  <2>1. call' = call \/ (Waiting(i) /\ Settle(i, r))
    BY DEF Complete, Waiting
  <2> QED BY <2>1, Settlings
<1>2. NoneAsked(inbox', inbox)
  <2>1. CASE inbox' = inbox
    BY <2>1 DEF NoneAsked
  <2>2. CASE inbox' = [inbox EXCEPT ![call[i].by] =
                         IF life[call[i].by] = "closed" THEN @ ELSE Append(@, Message(r, i))]
    <3>1. Message(r, i) \in Messages /\ Message(r, i).type # "request"
      BY MessageTypes DEF Message
    <3>2. NoneAsked(inbox, inbox)
      BY DEF NoneAsked
    <3> QED BY <2>2, <3>1, <3>2, AnsweredAsks DEF Typed, LockTypes
  <2> QED BY <2>1, <2>2 DEF Complete
<1>3. ASSUME NEW j \in Calls, NEW m \in Nodes, Engaged(j, m)
      PROVE  Engaged(j, m)'
  <2>1. answers \in [Nodes -> [Calls -> {"none", "ok", "error"}]]
    BY DEF Typed, LockTypes
  <2>2. answers[m][j] # "none" => answers'[m][j] # "none"
    BY <2>1 DEF Complete
  <2>3. j \in incoming[m] /\ ~(j = i /\ m = n) => j \in incoming'[m]
    BY DEF Complete, Typed, LockTypes
  <2>4. j = i /\ m = n /\ j \in incoming[m] /\ life[m] = "open" => answers'[m][j] # "none"
    BY <2>1 DEF Complete
  <2> QED BY <1>3, <2>2, <2>3, <2>4 DEF Engaged
<1> QED BY <1>1, <1>2, <1>3

----------------------------------------------------------------------------
(* The lock: what callers rely on, one action at a time *)

\* Steps that keep lanes, inboxes and calls; nodes may go on closing.
LEMMA QuietServes ==
  ASSUME Typed, Serving, UNCHANGED <<call, inbox, lane, incoming, answers, runs>>,
         \A n \in Nodes : /\ life[n] # "open" => life'[n] # "open"
                          /\ life[n] # "closed" => life'[n] # "closed"
  PROVE  Serving'
<1>1. Settling
  BY Settlings
<1>2. Executions'
  <2>1. \A i \in Calls, n \in Nodes : Engaged(i, n) => Engaged(i, n)'
    BY DEF Engaged
  <2> QED BY <1>1, <2>1, NothingStarts DEF Serving
<1>3. LanesDistinct' /\ Requests'
  BY DEF Serving, LanesDistinct, Requests
<1>4. ClosedSettles'
  <2>1. ASSUME NEW i \in Calls, Waiting(i)
        PROVE  life'[call[i].by] # "closed"
    BY <2>1 DEF Serving, ClosedSettles, Typed, LockTypes, Callers, Waiting
  <2> QED BY <2>1 DEF ClosedSettles, Waiting
<1> QED BY <1>2, <1>3, <1>4 DEF Serving

LEMMA TermServes ==
  ASSUME Typed, Serving, NEW n \in Nodes,
         RunAsLeader(n) \/ WorkEnds(n) \/ Acquire(n) \/ CloseNode(n) \/ StopTerm(n)
  PROVE  Serving'
<1>1. UNCHANGED <<call, inbox, lane, incoming, answers, runs>>
  BY DEF RunAsLeader, WorkEnds, Acquire, CloseNode, StopTerm, hosts
<1>2. life' = life \/ \E s \in {"stopping", "closing"} :
                        life[n] # "closed" /\ life' = [life EXCEPT ![n] = s]
  BY DEF RunAsLeader, WorkEnds, Acquire, CloseNode, StopTerm
<1>3. \A m \in Nodes : /\ life[m] # "open" => life'[m] # "open"
                       /\ life[m] # "closed" => life'[m] # "closed"
  BY <1>2 DEF Typed, LockTypes
<1> QED BY <1>1, <1>3, QuietServes

\* A node that closes or dies rejects its callers.
LEMMA EndServes ==
  ASSUME Typed, Serving, NEW n \in Nodes, CloseEnds(n) \/ NodeCrash(n)
  PROVE  Serving'
<1>1. /\ call' = RejectedCalls(n) /\ inbox' = [inbox EXCEPT ![n] = <<>>]
      /\ life' = [life EXCEPT ![n] = "closed"] /\ UNCHANGED <<answers, runs>>
      /\ lane' = lane \/ lane' = [lane EXCEPT ![n] = <<>>]
      /\ incoming' = incoming \/ incoming' = [incoming EXCEPT ![n] = {}]
  BY DEF CloseEnds, NodeCrash, hosts
<1>2. Settling
  BY <1>1, Settlings
<1>3. \A m \in Nodes : lane'[m] = lane[m] \/ lane'[m] = <<>>
  BY <1>1 DEF Typed, LockTypes
<1>4. \A x : ~Held(x, <<>>)
  <2>1. 1..Len(<<>>) = {}
    OBVIOUS
  <2> QED BY <2>1 DEF Held
<1>5. Executions'
  <2>1. \A i \in Calls, m \in Nodes : Held(i, lane'[m]) => Held(i, lane[m])
    BY <1>3, <1>4
  <2>2. \A i \in Calls, m \in Nodes : Engaged(i, m) => Engaged(i, m)'
    BY <1>1 DEF Engaged, Typed, LockTypes
  <2> QED BY <1>1, <1>2, <2>1, <2>2, NothingStarts DEF Serving
<1>6. LanesDistinct'
  <2>1. Distinct(<<>>)
    <3>1. 1..Len(<<>>) = {}
      OBVIOUS
    <3> QED BY <3>1 DEF Distinct
  <2>2. \A m \in Nodes : Distinct(lane[m])
    BY DEF Serving, LanesDistinct
  <2>3. \A m \in Nodes : Distinct(lane'[m])
    BY <1>3, <2>1, <2>2
  <2> QED BY <2>3 DEF LanesDistinct
<1>7. Requests'
  <2>1. NoneAsked(inbox', inbox)
    BY <1>1, ClearedAsks DEF Typed, LockTypes, InboxTypes
  <2> QED BY <1>2, <2>1, NothingAsked DEF NoneAsked, Serving
<1>8. ClosedSettles'
  <2>1. ASSUME NEW i \in Calls, call'[i].state \in {"remote", "local"}
        PROVE  life'[call[i].by] = life[call[i].by]
    <3>1. call'[i] = IF call[i].by = n /\ Waiting(i) THEN [call[i] EXCEPT !.state = "error"]
                     ELSE call[i]
      BY <1>1 DEF RejectedCalls
    <3>2. call[i] \in [by : Nodes \cup {NoOne}, attempts : Nat,
                       state : {"new", "remote", "local", "ok", "error"}]
      BY DEF Typed, LockTypes
    <3>3. call[i].by # n
      BY <2>1, <3>1, <3>2 DEF Waiting
    <3> QED BY <1>1, <3>3 DEF Typed, LockTypes
  <2> QED BY <1>2, <2>1, NobodyLost DEF Serving
<1> QED BY <1>5, <1>6, <1>7, <1>8 DEF Serving

\* Steps that leave the lanes alone and publish no request.
LEMMA MessageServes ==
  ASSUME Typed, Serving, Settling, UNCHANGED <<life, lane, incoming, answers, runs>>,
         NoneAsked(inbox', inbox)
  PROVE  Serving'
<1>1. Executions'
  <2>1. \A i \in Calls, n \in Nodes : Engaged(i, n) => Engaged(i, n)'
    BY DEF Engaged
  <2> QED BY <2>1, NothingStarts DEF Serving
<1>2. LanesDistinct'
  BY DEF Serving, LanesDistinct
<1>3. Requests'
  BY NothingAsked DEF NoneAsked, Serving
<1>4. ClosedSettles'
  BY NobodyLost DEF Serving
<1> QED BY <1>1, <1>2, <1>3, <1>4 DEF Serving

LEMMA GiveUpServes ==
  ASSUME Typed, Serving, NEW i \in Calls, GiveUp(i)
  PROVE  Serving'
<1> DEFINE n == call[i].by
<1>1. n \in Nodes
  BY DEF GiveUp, Typed, LockTypes, Callers, Waiting
<1>2. Settling
  BY Settlings DEF GiveUp
<1>3. NoneAsked(inbox', inbox)
  <2>1. CASE inbox' = inbox
    BY <2>1 DEF NoneAsked
  <2>2. CASE inbox' = Published(n, Message("cancel", i))
    <3>1. Message("cancel", i) \in Messages
      BY MessageTypes
    <3>2. \A j \in Calls : Message("cancel", i) # Message("request", j)
      BY DEF Message
    <3> HIDE DEF n
    <3> QED BY <1>1, <2>2, <3>1, <3>2, PublishedAsks DEF NoneAsked, Typed, LockTypes, InboxTypes
  <2> QED BY <2>1, <2>2 DEF GiveUp
<1> QED BY <1>2, <1>3, MessageServes DEF GiveUp

LEMMA AnswerServes ==
  ASSUME Typed, Serving, NEW n \in Nodes, ReceiveCancel(n) \/ ReceiveAnswer(n)
  PROVE  Serving'
<1>1. inbox' = Received(n) /\ inbox[n] # <<>>
      /\ UNCHANGED <<life, lane, incoming, answers, runs>>
  BY DEF ReceiveCancel, ReceiveAnswer, hosts
<1>2. NoneAsked(inbox', inbox)
  BY <1>1, RemovedAsks DEF Typed, LockTypes, InboxTypes
<1>3. Settling
  <2>1. CASE call' = call
    BY <2>1, Settlings
  <2>2. CASE ReceiveAnswer(n) /\ call' # call
    <3> DEFINE m == Head(inbox[n])
    <3>1. m.id \in Calls
      BY <1>1, HeadTypes DEF Typed, LockTypes, InboxTypes
    <3>2. m.type \in {"ok", "error"} /\ Waiting(m.id) /\ Settle(m.id, m.type)
      BY <2>2 DEF ReceiveAnswer, Waiting
    <3> QED BY <3>1, <3>2, Settlings
  <2> QED BY <2>1, <2>2 DEF ReceiveCancel
<1> QED BY <1>1, <1>2, <1>3, MessageServes

\* A node accepts a call that it did not accept before and will not accept again.
LEMMA AcceptServes ==
  ASSUME LockTypes, Executions, LanesDistinct, NEW n \in Nodes, NEW i \in Calls,
         Accept(n, i), runs' = runs,
         runs[i][n] = 0, ~Held(i, lane[n]), Taken(i, n)', call'[i].state # "new",
         \A j \in Calls, m \in Nodes : (j # i \/ m # n) =>
           /\ Taken(j, m) => Taken(j, m)'
           /\ call'[j].state = "new" => call[j].state = "new"
  PROVE  Executions' /\ LanesDistinct'
<1>1. lane[n] \in Seq(Calls)
  BY DEF LockTypes
<1>2. lane'[n] = Append(lane[n], i) /\ \A m \in Nodes \ {n} : lane'[m] = lane[m]
  BY DEF Accept, LockTypes
<1>3. ASSUME NEW j \in Calls, NEW m \in Nodes
      PROVE  Once(j, m)'
  <2>1. Once(j, m)
    BY DEF Executions
  <2>2. runs'[j][m] = runs[j][m]
    OBVIOUS
  <2>3. CASE j = i /\ m = n
    BY <2>2, <2>3 DEF Once
  <2>4. CASE j # i \/ m # n
    <3>1. Held(j, lane'[m]) => Held(j, lane[m])
      <4>1. CASE m = n
        <5>1. \A y : Held(y, Append(lane[n], i)) => y = i \/ Held(y, lane[n])
          BY <1>1, Appended
        <5> QED BY <1>2, <2>4, <4>1, <5>1
      <4>2. CASE m # n
        BY <1>2, <4>2
      <4> QED BY <4>1, <4>2
    <3>2. /\ Taken(j, m) => Taken(j, m)'
          /\ call'[j].state = "new" => call[j].state = "new"
      BY <2>4
    <3> QED BY <2>1, <2>2, <3>1, <3>2 DEF Once
  <2> QED BY <2>3, <2>4
<1>4. ASSUME NEW m \in Nodes
      PROVE  Distinct(lane'[m])
  <2>1. Distinct(lane[m])
    BY DEF LanesDistinct
  <2>2. CASE m = n
    BY <1>1, <1>2, <2>1, <2>2, Appended
  <2>3. CASE m # n
    BY <1>2, <2>1, <2>3
  <2> QED BY <2>2, <2>3
<1> QED BY <1>3, <1>4 DEF Executions, LanesDistinct

LEMMA RequestServes ==
  ASSUME Typed, Serving, NEW n \in Nodes, ReceiveRequest(n)
  PROVE  Serving'
<1> DEFINE m == Head(inbox[n])
           i == m.id
<1>1. /\ inbox[n] # <<>> /\ m.type = "request"
      /\ UNCHANGED <<life, call, answers, runs>>
  BY DEF ReceiveRequest
<1>2. i \in Calls /\ call[i].by # n /\ call[i].by # NoOne
  BY <1>1, HeadTypes, AskedByOther DEF Typed, LockTypes, InboxTypes, Serving
<1>3. Settling
  BY <1>1, Settlings
<1>4. NoneAsked(Received(n), inbox) /\ Received(n) \in [Nodes -> Seq(Messages)]
  BY <1>1, RemovedAsks, ReceivedTypes DEF Typed, LockTypes, InboxTypes
<1>5. CASE inbox' = Received(n) /\ UNCHANGED <<lane, incoming>>
  BY <1>1, <1>3, <1>4, <1>5, MessageServes
<1>6. CASE /\ answers[n][i] # "none"
           /\ inbox' = [Received(n) EXCEPT ![call[i].by] =
                          IF life[call[i].by] = "closed" THEN @
                          ELSE Append(@, Message(answers[n][i], i))]
           /\ UNCHANGED <<lane, incoming>>
  <2>1. answers[n][i] \in {"ok", "error"}
    BY <1>2, <1>6 DEF Typed, LockTypes
  <2>2. Message(answers[n][i], i) \in Messages /\ Message(answers[n][i], i).type # "request"
    <3>1. \A type \in {"ok", "error"} : Message(type, i) \in Messages /\ Message(type, i).type = type
      BY <1>2, MessageTypes DEF Message
    <3> QED BY <2>1, <3>1
  <2>3. NoneAsked(inbox', inbox)
    BY <1>4, <1>6, <2>2, AnsweredAsks
  <2> QED BY <1>1, <1>3, <1>6, <2>3, MessageServes
<1>7. CASE /\ life[n] = "open" /\ i \notin incoming[n] /\ answers[n][i] = "none"
           /\ inbox' = Received(n) /\ Accept(n, i)
           /\ incoming' = [incoming EXCEPT ![n] = @ \cup {i}]
  <2>0. PICK c \in Calls : c = i
    BY <1>2
  <2> HIDE DEF i
  <2>1. Once(c, n)
    BY DEF Serving, Executions
  <2>2. call[c].by \notin {NoOne, n} /\ ~Taken(c, n)
    BY <1>2, <1>7, <2>0 DEF Taken, Engaged
  <2>3. /\ c \in incoming'[n] /\ \A k \in Nodes : incoming[k] \subseteq incoming'[k]
        /\ Accept(n, c)
    BY <1>7, <2>0 DEF Typed, LockTypes
  <2>4. Taken(c, n)' /\ \A j \in Calls, k \in Nodes : Taken(j, k) => Taken(j, k)'
    BY <1>1, <2>2, <2>3 DEF Taken, Engaged
  <2>5. call'[c].state # "new" /\ \A j \in Calls : call'[j].state = call[j].state
    BY <1>1, <2>2 DEF Typed, Callers
  <2>6. Executions' /\ LanesDistinct'
    <3>1. runs[c][n] = 0 /\ ~Held(c, lane[n])
      BY <2>1, <2>2 DEF Once
    <3>2. \A j \in Calls, k \in Nodes : (j # c \/ k # n) =>
            /\ Taken(j, k) => Taken(j, k)'
            /\ call'[j].state = "new" => call[j].state = "new"
      BY <2>4, <2>5
    <3> QED BY <1>1, <2>3, <2>4, <2>5, <3>1, <3>2, AcceptServes DEF Typed, Serving
  <2>7. Requests'
    BY <1>3, <1>4, <1>7, NothingAsked DEF NoneAsked, Serving
  <2>8. ClosedSettles'
    BY <1>1, <1>3, NobodyLost DEF Serving
  <2> QED BY <2>6, <2>7, <2>8 DEF Serving
<1> QED BY <1>5, <1>6, <1>7 DEF ReceiveRequest

LEMMA DrainServes ==
  ASSUME Typed, Serving, NEW n \in Nodes, Drain(n)
  PROVE  Serving'
<1>1. lane[n] \in Seq(Calls)
  BY DEF Typed, LockTypes
<1>2. ASSUME lane[n] # <<>>, lane' = [lane EXCEPT ![n] = Tail(@)]
      PROVE  /\ Head(lane[n]) \in Calls /\ Held(Head(lane[n]), lane[n])
             /\ ~Held(Head(lane[n]), lane'[n])
             /\ \A j \in Calls, m \in Nodes : Held(j, lane'[m]) => Held(j, lane[m])
             /\ LanesDistinct'
  <2>1. lane'[n] = Tail(lane[n]) /\ \A m \in Nodes \ {n} : lane'[m] = lane[m]
    BY <1>2 DEF Typed, LockTypes
  <2>2. \A m \in Nodes : Distinct(lane[m])
    BY DEF Serving, LanesDistinct
  <2>3. /\ Held(Head(lane[n]), lane[n]) /\ ~Held(Head(lane[n]), Tail(lane[n]))
        /\ Distinct(Tail(lane[n])) /\ \A y : Held(y, Tail(lane[n])) => Held(y, lane[n])
    BY <1>1, <1>2, <2>2, Removed
  <2>4. \A m \in Nodes : Distinct(lane'[m])
    BY <2>1, <2>2, <2>3
  <2>5. \A j \in Calls, m \in Nodes : Held(j, lane'[m]) => Held(j, lane[m])
    BY <2>1, <2>3
  <2>6. Head(lane[n]) \in Calls
    BY <1>1, <1>2
  <2> QED BY <2>1, <2>3, <2>4, <2>5, <2>6 DEF LanesDistinct
<1>3. CASE StartCall(n)
  <2> DEFINE i == Head(lane[n])
  <2>1. /\ lane[n] # <<>> /\ lane' = [lane EXCEPT ![n] = Tail(@)]
        /\ runs' = [runs EXCEPT ![i][n] = @ + 1]
        /\ UNCHANGED <<life, inbox, call, incoming, answers>>
    BY <1>3 DEF StartCall
  <2>2. /\ i \in Calls /\ Held(i, lane[n]) /\ ~Held(i, lane'[n]) /\ LanesDistinct'
        /\ \A j \in Calls, m \in Nodes : Held(j, lane'[m]) => Held(j, lane[m])
    BY <1>2, <2>1
  <2> HIDE DEF i
  <2>3. runs \in [Calls -> [Nodes -> Nat]]
    BY DEF Typed, LockTypes
  <2>4. runs[i][n] = 0 /\ Taken(i, n) /\ call[i].state # "new"
    BY <2>2 DEF Serving, Executions, Once
  <2>5. ASSUME NEW j \in Calls, NEW m \in Nodes
        PROVE  Once(j, m)'
    <3>1. Once(j, m) /\ (Held(j, lane'[m]) => Held(j, lane[m]))
      BY <2>2 DEF Serving, Executions
    <3>2. (Taken(j, m)' <=> Taken(j, m)) /\ call' = call
      BY <2>1 DEF Taken, Engaged
    <3>3. CASE j = i /\ m = n
      <4>1. runs'[j][m] = 1
        BY <2>1, <2>2, <2>3, <2>4, <3>3
      <4> QED BY <2>2, <2>4, <3>2, <3>3, <4>1 DEF Once
    <3>4. CASE j # i \/ m # n
      <4>1. runs'[j][m] = runs[j][m]
        BY <2>1, <2>2, <2>3, <3>4
      <4> QED BY <3>1, <3>2, <4>1 DEF Once
    <3> QED BY <3>3, <3>4
  <2>6. Requests' /\ ClosedSettles'
    BY <2>1 DEF Serving, Requests, ClosedSettles, Waiting
  <2> QED BY <2>2, <2>5, <2>6 DEF Serving, Executions
<1>4. ASSUME NEW i \in Calls, NEW r \in {"ok", "error"}, Complete(n, i, r),
             UNCHANGED <<life, runs>>, LanesDistinct',
             \A j \in Calls, m \in Nodes : Held(j, lane'[m]) => Held(j, lane[m])
      PROVE  Serving'
  <2>1. /\ Settling /\ NoneAsked(inbox', inbox)
        /\ \A j \in Calls, m \in Nodes : Engaged(j, m) => Engaged(j, m)'
    BY <1>4, CompleteServes
  <2>2. Executions'
    BY <1>4, <2>1, NothingStarts DEF Serving
  <2>3. Requests'
    BY <2>1, NothingAsked DEF NoneAsked, Serving
  <2>4. ClosedSettles'
    BY <1>4, <2>1, NobodyLost DEF Serving
  <2> QED BY <1>4, <2>2, <2>3, <2>4 DEF Serving
<1>5. CASE Skip(n)
  <2>1. /\ lane[n] # <<>> /\ lane' = [lane EXCEPT ![n] = Tail(@)]
        /\ Complete(n, Head(lane[n]), "error") /\ UNCHANGED <<life, runs>>
    BY <1>5 DEF Skip
  <2> QED BY <1>2, <1>4, <2>1
<1>6. CASE Return(n)
  <2>1. PICK r \in {"ok", "error"} : Complete(n, running[n], r)
    BY <1>6 DEF Return
  <2>2. running[n] \in Calls /\ UNCHANGED <<life, runs, lane>>
    BY <1>6 DEF Return, Typed, LockTypes
  <2>3. LanesDistinct'
    BY <2>2 DEF Serving, LanesDistinct
  <2> QED BY <1>4, <2>1, <2>2, <2>3
<1> QED BY <1>3, <1>5, <1>6 DEF Drain

\* A call is sent once to the handlers of its own node, and to the other nodes as a request.
LEMMA SendServes ==
  ASSUME Typed, Serving, NEW i \in Calls, NEW n \in Nodes, NEW a \in Nat, Send(i, n, a),
         UNCHANGED <<life, incoming, answers, runs>>, life[n] = "open",
         call[i].state = "new" \/ (call[i].state = "remote" /\ call[i].by = n)
  PROVE  Serving'
<1>1. /\ call'[i].by = n /\ call'[i].state \in {"local", "remote"}
      /\ call'[i].state = "local" => Accept(n, i)
      /\ call'[i].state = "remote" => lane' = lane
      /\ \A j \in Calls \ {i} : call'[j] = call[j]
  BY DEF Send, Typed, LockTypes
<1>2. runs[i][n] = 0 /\ ~Held(i, lane[n])
  <2>1. Once(i, n)
    BY DEF Serving, Executions
  <2>2. call[i].state = "new" \/ ~Taken(i, n)
    BY DEF Taken
  <2> QED BY <2>1, <2>2 DEF Once
<1>3. ASSUME NEW j \in Calls, NEW m \in Nodes, j # i \/ m # n
      PROVE  /\ Taken(j, m) => Taken(j, m)'
             /\ call'[j].state = "new" => call[j].state = "new"
  <2>1. (call'[j].by = m) <=> (call[j].by = m)
    <3>1. CASE j = i
      <4>1. call[i].by \in {NoOne, n} /\ m # n /\ m # NoOne
        BY <1>3, <3>1, NoOneAssumption DEF Typed, Callers
      <4> QED BY <1>1, <3>1, <4>1
    <3>2. CASE j # i
      BY <1>1, <3>2
    <3> QED BY <3>1, <3>2
  <2>2. CASE j = i
    <3>1. call[i].by # m
      BY <1>1, <1>3, <2>1, <2>2
    <3> QED BY <1>1, <2>1, <2>2, <3>1 DEF Taken, Engaged
  <2>3. CASE j # i
    BY <1>1, <2>1, <2>3 DEF Taken, Engaged
  <2> QED BY <2>2, <2>3
<1>4. Executions' /\ LanesDistinct'
  <2>1. CASE call'[i].state = "local"
    <3>1. Taken(i, n)' /\ Accept(n, i)
      BY <1>1, <2>1 DEF Taken
    <3> QED BY <1>2, <1>3, <2>1, <3>1, AcceptServes DEF Typed, Serving
  <2>2. CASE call'[i].state = "remote"
    <3>1. lane' = lane /\ runs' = runs
      BY <1>1, <2>2
    <3>2. ASSUME NEW j \in Calls, NEW m \in Nodes
          PROVE  Once(j, m)'
      <4>1. Once(j, m)
        BY DEF Serving, Executions
      <4>2. CASE j = i /\ m = n
        BY <1>2, <3>1, <4>2 DEF Once
      <4>3. CASE j # i \/ m # n
        <5>1. /\ Taken(j, m) => Taken(j, m)'
              /\ call'[j].state = "new" => call[j].state = "new"
          BY <1>3, <4>3
        <5> QED BY <3>1, <4>1, <5>1 DEF Once
      <4> QED BY <4>2, <4>3
    <3> QED BY <3>1, <3>2 DEF Serving, Executions, LanesDistinct
  <2> QED BY <1>1, <2>1, <2>2
<1>5. Requests'
  <2> SUFFICES ASSUME NEW m \in Nodes, NEW j \in Calls,
                      Held(Message("request", j), inbox'[m])
               PROVE  call'[j].by \notin {NoOne, m}
    BY DEF Requests
  <2>1. Held(Message("request", j), inbox[m]) \/ (j = i /\ m # n)
    <3>1. CASE inbox' = inbox
      BY <3>1
    <3>2. CASE inbox' = Published(n, Message("request", i))
      <4>1. Message("request", i) \in Messages
        BY MessageTypes
      <4>2. \/ Held(Message("request", j), inbox[m])
            \/ Message("request", i) = Message("request", j) /\ m # n
        BY <3>2, <4>1, PublishedAsks DEF Typed, LockTypes, InboxTypes
      <4> QED BY <4>2 DEF Message
    <3> QED BY <3>1, <3>2 DEF Send
  <2>2. CASE j = i
    <3>1. m # n
      <4>1. CASE Held(Message("request", i), inbox[m])
        <5>1. call[i].by \notin {NoOne, m}
          BY <4>1 DEF Serving, Requests
        <5> QED BY <5>1 DEF Typed, Callers
      <4> QED BY <2>1, <2>2, <4>1
    <3> QED BY <1>1, <2>2, <3>1, NoOneAssumption
  <2>3. CASE j # i
    BY <1>1, <2>1, <2>3 DEF Serving, Requests
  <2> QED BY <2>2, <2>3
<1>6. ClosedSettles'
  <2>1. ASSUME NEW j \in Calls, call'[j].state \in {"remote", "local"}
        PROVE  life[call'[j].by] # "closed"
    <3>1. CASE j = i
      BY <1>1, <3>1
    <3>2. CASE j # i
      BY <1>1, <2>1, <3>2 DEF Serving, ClosedSettles, Waiting
    <3> QED BY <3>1, <3>2
  <2> QED BY <2>1 DEF ClosedSettles, Waiting
<1> QED BY <1>4, <1>5, <1>6 DEF Serving

LEMMA StepServes ==
  ASSUME Typed, Serving, [LockNext]_lockVars
  PROVE  Serving'
<1>1. ASSUME NEW n \in Nodes, Receive(n) \/ Drain(n)
      PROVE  Serving'
  BY <1>1, RequestServes, AnswerServes, DrainServes DEF Receive
<1>2. ASSUME NEW n \in Nodes,
             \/ RunAsLeader(n) \/ WorkEnds(n) \/ Acquire(n) \/ CloseNode(n) \/ StopTerm(n)
             \/ CloseEnds(n) \/ NodeCrash(n)
      PROVE  Serving'
  BY <1>2, TermServes, EndServes
<1>3. ASSUME NEW i \in Calls, Retry(i)
      PROVE  Serving'
  <2>1. call[i].by \in Nodes /\ call[i].attempts \in Nat
    BY <1>3, AttemptsAssumption DEF Retry, Typed, LockTypes, Callers
  <2> QED BY <1>3, <2>1, SendServes DEF Retry
<1>4. ASSUME NEW i \in Calls, NEW n \in Nodes, Invoke(i, n)
      PROVE  Serving'
  <2>1. 0 \in Nat
    OBVIOUS
  <2> QED BY <1>4, <2>1, SendServes DEF Invoke
<1>5. CASE UNCHANGED lockVars
  <2>1. /\ UNCHANGED <<call, inbox, lane, incoming, answers, runs>>
        /\ life' = life
    BY <1>5 DEF lockVars, hosts
  <2> QED BY <2>1, QuietServes
<1> QED BY <1>1, <1>2, <1>3, <1>4, <1>5, GiveUpServes DEF LockNext

\* However often a request is repeated and whoever leads, a node executes a call at most once,
\* and no caller is left waiting on a closed node.
THEOREM CallersServed == LockSpec => []CallersAreServed
<1>1. ASSUME LockInit PROVE Serving
  <2>1. /\ \A n \in Nodes : lane[n] = <<>> /\ inbox[n] = <<>>
        /\ \A i \in Calls, n \in Nodes : runs[i][n] = 0
        /\ \A i \in Calls : call[i].state = "new"
    BY <1>1 DEF LockInit
  <2>2. Distinct(<<>>) /\ \A x : ~Held(x, <<>>)
    <3>1. 1..Len(<<>>) = {}
      OBVIOUS
    <3> QED BY <3>1 DEF Held, Distinct
  <2> QED BY <2>1, <2>2
          DEF Serving, Executions, Once, LanesDistinct, Requests, ClosedSettles, Waiting
<1>2. Serving => CallersAreServed
  BY DEF Serving, Executions, Once, CallersAreServed, OncePerLeader
<1> QED BY <1>1, <1>2, AlwaysTyped, StepServes, PTL DEF LockSpec

----------------------------------------------------------------------------
(* The store: its inductive invariant *)

\* The bytes of a key are there; those of an upload that was recovered early may have gone with a
\* deletion that failed, or with one whose claim was recovered early too.
Safe(k) == k \in store \/ (k \in late /\ (failures["fault"] > 0 \/ k \in hasty))

\* What the journal and the rows say of a key, by how far its upload is.
Journaled(k) ==
  /\ journal[k].state # "none" => journal[k].token \in {"upload", "replaced"}
  /\ journal[k].state # "collecting" => journal[k].claim = Nothing
  /\ progress[k[2]].pc \in {"idle", "mutated"} =>
       journal[k].state = "none" /\ k \notin store /\ k \notin puts /\ k \notin late /\ k \notin hasty
  /\ Linked(k) => journal[k].state = "none" /\ progress[k[2]].pc = "committed"

\* A key that is being uploaded is journaled as that, unless it was recovered early; what has been
\* uploaded is there unless a collection has claimed it, and that collection is still at it.
Uploading(k) ==
  progress[k[2]].pc = "writing" =>
    /\ k[1] \in plan.uploads[k[2]] => k \in late \/ journal[k].state = "uploading"
    /\ journal[k].state = "collecting" => k \in hasty \/ \E c \in Collectors : k \in collector[c].at
    /\ ~Doomed /\ k[1] \in plan.uploads[k[2]] \ progress[k[2]].left =>
         Safe(k) \/ journal[k].state \notin {"uploading", "pending"}

ClaimedBy(k, c) == journal[k].state = "collecting" /\ journal[k].claim = c

\* What the store holds or is about to, and what is being deleted from it.
Stored(k) ==
  /\ k \in store \ late => Linked(k) \/ journal[k].state # "none"
  /\ k \in puts => k[1] \in plan.uploads[k[2]]
  /\ k \in puts \ late => progress[k[2]].pc = "writing" /\ k[1] \in progress[k[2]].left
  /\ \A c \in Collectors : <<k, c>> \in deletes => k \in hasty \/ ClaimedBy(k, c)
  /\ ~Doomed /\ Linked(k) => Safe(k)

\* A collection deletes the bytes it has claimed, unless the claim was recovered from under it.
Claimed(k) ==
  \A c \in Collectors : k \in collector[c].at =>
    /\ k \in hasty \/ ClaimedBy(k, c)
    /\ <<k, c>> \in deletes \/ k \notin store \/ k \in late

\* A claim is recovered early from under an upload only if the upload was recovered before.
Hurried(k) ==
  k \in hasty =>
    /\ Linked(k) => k \in late
    /\ progress[k[2]].pc = "writing" /\ k[1] \in plan.uploads[k[2]] => k \in late

Sound(k) == Journaled(k) /\ Uploading(k) /\ Stored(k) /\ Claimed(k) /\ Hurried(k)

\* An application that writes attachments uploads the ones of its plan, one after another.
Working(w) ==
  /\ progress[w].pc = "writing" => progress[w].external
  /\ progress[w].pc = "mutated" => progress[w].left = plan.uploads[w]
  /\ progress[w].pc = "writing" => progress[w].left \subseteq plan.uploads[w]
  /\ \A j, k \in KeysOf(w) \cap puts : j = k

\* A collection deletes one orphan at a time.
Visiting(c) ==
  /\ collector[c].pc # "deleting" => collector[c].at = {}
  /\ \A j, k \in collector[c].at : j = k

\* As long as there is a database.
Living ==
  status # "destroyed" =>
    /\ \A k \in Keys : Sound(k)
    /\ \A w \in Applications : Working(w)
    /\ \A c \in Collectors : Visiting(c)

\* Destruction waits for writes, so that only late ones arrive after the page they would be on.
Destroying ==
  /\ Doomed => puts \subseteq late
  /\ status = "last" => store \ listing \subseteq late
  /\ DestroyedIsEmpty

StoreInv == StoreTypeOK /\ Living /\ Destroying /\ OneCollector

----------------------------------------------------------------------------
(* The store: keys, and what the variables are made of *)

LEMMA KeyParts ==
  ASSUME NEW k \in Keys
  PROVE  /\ k[1] \in Ids /\ k[2] \in Applications /\ k = <<k[1], k[2]>>
         /\ \A w \in Applications : k \in KeysOf(w) <=> k[2] = w /\ k[1] \in plan.uploads[w]
<1>1. PICK i \in Ids, v \in Applications : k = <<i, v>> BY DEF Keys
<1> QED BY <1>1 DEF KeysOf

Steps == {"idle", "mutated", "writing", "committed", "failed"}
Statuses == {"open", "closed", "listing", "deleting", "last", "destroyed"}

LEMMA StoreMembers ==
  ASSUME StoreTypeOK
  PROVE  /\ plan \in Plans /\ plan.uploads \in [Applications -> SUBSET Ids] /\ plan.budget \in [Mishaps -> Nat]
         /\ \A w \in Applications :
              /\ progress[w].pc \in Steps /\ progress[w].seen \subseteq Applications
              /\ progress[w].external \in BOOLEAN /\ progress[w].left \subseteq Ids
              /\ plan.uploads[w] \subseteq Ids
         /\ \A k \in Keys :
              /\ journal[k].state \in {"none", "uploading", "pending", "collecting"}
              /\ journal[k].token \in {"none", "upload", "replaced"}
         /\ \A c \in Collectors :
              /\ collector[c].pc \in {"idle", "visiting", "deleting"}
              /\ collector[c].list \subseteq Keys \X {"upload", "replaced"} /\ collector[c].at \subseteq Keys
         /\ status \in Statuses /\ failures["fault"] \in Nat
<1>1. plan \in Plans BY DEF StoreTypeOK
<1>2. plan \in [uploads : [Applications -> SUBSET Ids], budget : [Mishaps -> Nat]] BY <1>1, StoreAssumption
<1>3. plan.uploads \in [Applications -> SUBSET Ids] /\ plan.budget \in [Mishaps -> Nat] BY <1>2
<1> QED BY <1>1, <1>3 DEF StoreTypeOK, Rows, Steps, Statuses, Mishaps

\* Counting what went wrong.
LEMMA SpendCounts ==
  ASSUME StoreTypeOK, NEW kind \in Mishaps, Spend(kind)
  PROVE  /\ failures' \in [Mishaps -> Nat] /\ failures'["fault"] \in Nat
         /\ failures["fault"] > 0 \/ kind = "fault" => failures'["fault"] > 0
<1>1. failures \in [Mishaps -> Nat] BY DEF StoreTypeOK
<1>2. failures' = [failures EXCEPT ![kind] = failures[kind] + 1] BY DEF Spend
<1>3. "fault" \in Mishaps /\ failures["fault"] \in Nat /\ failures[kind] \in Nat BY <1>1 DEF Mishaps
<1> QED BY <1>1, <1>2, <1>3

Tasks == [pc : Steps, seen : SUBSET Applications, external : BOOLEAN, left : SUBSET Ids]

LEMMA NewTaskTyped ==
  /\ NewTask \in Tasks /\ NewTask.pc = "idle" /\ NewTask.left = {}
  /\ \A pc \in Steps : /\ [NewTask EXCEPT !.pc = pc] \in Tasks /\ [NewTask EXCEPT !.pc = pc].pc = pc
                       /\ [NewTask EXCEPT !.pc = pc].left = {}
<1>1. NewTask \in Tasks /\ NewTask.pc = "idle" /\ NewTask.left = {} BY DEF NewTask, Tasks, Steps
<1> QED BY <1>1 DEF Tasks

\* What w does afterwards, and nobody else.
LEMMA EndsMoves ==
  ASSUME StoreTypeOK, NEW w \in Applications, NEW pc \in Steps, Ends(w, pc)
  PROVE  /\ progress' \in [Applications -> Tasks]
         /\ progress'[w].pc = pc /\ progress'[w].left = {}
         /\ \A v \in Applications : v # w => progress'[v] = progress[v]
<1>1. progress \in [Applications -> Tasks] BY DEF StoreTypeOK, Tasks, Steps
<1> QED BY <1>1, NewTaskTyped DEF Ends

----------------------------------------------------------------------------
(* The store: what a step does to one key *)

\* A key that the step says nothing of is as sound as it was.
LEMMA KeyStays ==
  ASSUME NEW k \in Keys, Sound(k), plan' = plan, journal'[k] = journal[k],
         attached'[k[1]] = attached[k[1]],
         progress'[k[2]].pc = progress[k[2]].pc,
         k[1] \in progress'[k[2]].left <=> k[1] \in progress[k[2]].left,
         \A c \in Collectors : k \in collector'[c].at <=> k \in collector[c].at,
         k \in store' <=> k \in store, k \in puts' <=> k \in puts,
         \A c \in Collectors : <<k, c>> \in deletes' <=> <<k, c>> \in deletes,
         k \in late' <=> k \in late, k \in hasty' <=> k \in hasty,
         failures["fault"] > 0 => failures'["fault"] > 0, Doomed => Doomed'
  PROVE  Sound(k)'
<1>1. Linked(k)' <=> Linked(k) BY DEF Linked
<1>2. Safe(k) => Safe(k)' BY DEF Safe
<1>3. Journaled(k)' BY <1>1 DEF Sound, Journaled
<1>4. Uploading(k)' BY <1>2 DEF Sound, Uploading
<1>5. Stored(k)' BY <1>1, <1>2 DEF Sound, Stored, ClaimedBy
<1>6. Claimed(k)' BY DEF Sound, Claimed, ClaimedBy
<1>7. Hurried(k)' BY <1>1 DEF Sound, Hurried
<1> QED BY <1>3, <1>4, <1>5, <1>6, <1>7 DEF Sound

\* A key of an application that fails has no write under way but a late one.
LEMMA KeyFails ==
  ASSUME NEW k \in Keys, Sound(k), plan' = plan, journal'[k] = journal[k],
         attached'[k[1]] = attached[k[1]],
         progress[k[2]].pc \in {"mutated", "writing"}, progress'[k[2]].pc = "failed",
         \A c \in Collectors : k \in collector'[c].at <=> k \in collector[c].at,
         k \in store' <=> k \in store, k \in hasty' <=> k \in hasty,
         \A c \in Collectors : <<k, c>> \in deletes' <=> <<k, c>> \in deletes,
         k \in puts' => k \in puts /\ k \in late', k \in late => k \in late'
  PROVE  Sound(k)'
<1>1. ~Linked(k) /\ ~Linked(k)' BY DEF Linked, Sound, Journaled
<1>3. Journaled(k)' BY <1>1 DEF Sound, Journaled
<1>4. Uploading(k)' BY DEF Sound, Uploading
<1>5. Stored(k)' BY <1>1 DEF Sound, Stored, ClaimedBy
<1>6. Claimed(k)' BY DEF Sound, Claimed, ClaimedBy
<1>7. Hurried(k)' BY <1>1 DEF Sound, Hurried
<1> QED BY <1>3, <1>4, <1>5, <1>6, <1>7 DEF Sound

----------------------------------------------------------------------------
(* The store: applying an action *)

LEMMA StoreInitEstablishes ==
  ASSUME StoreInit
  PROVE  StoreInv
<1>1. StoreTypeOK
  BY StoreAssumption DEF StoreInit, StoreTypeOK, NoRow, Rows, NewTask, Resting, Steps, Mishaps
<1>2. /\ \A k \in Keys : journal[k] = NoRow /\ ~Linked(k)
      /\ \A w \in Applications : progress[w] = NewTask
      /\ \A c \in Collectors : collector[c] = Resting
  <2>1. ASSUME NEW k \in Keys PROVE ~Linked(k)
    BY <2>1, KeyParts, StoreAssumption DEF StoreInit, Linked
  <2> QED BY <2>1 DEF StoreInit
<1>3. Living
  <2>1. ASSUME NEW k \in Keys PROVE Sound(k)
    BY <1>2, <2>1, KeyParts
    DEF StoreInit, Sound, Journaled, Uploading, Stored, Claimed, Hurried, ClaimedBy, NoRow, NewTask, Resting
  <2> QED BY <1>2, <2>1 DEF Living, Working, Visiting, NewTask, Resting, StoreInit
<1> QED BY <1>1, <1>2, <1>3 DEF StoreInv, Destroying, Doomed, DestroyedIsEmpty, OneCollector, Resting, StoreInit

LEMMA MutateKeeps ==
  ASSUME StoreInv, NEW w \in Applications, NEW external \in BOOLEAN, Mutate(w, external)
  PROVE  StoreInv'
<1>1. /\ status = "open" /\ progress[w].pc = "idle"
      /\ progress' = [progress EXCEPT ![w] =
           [pc |-> "mutated", seen |-> Overlaid \cup {w}, external |-> external, left |-> plan.uploads[w]]]
      /\ UNCHANGED <<plan, saved, attached, journal, collector, store, puts, deletes, status, listing, late, hasty, failures>>
  BY DEF Mutate, database, contents, closing, rushed
<1>2. StoreTypeOK /\ plan.uploads[w] \subseteq Ids BY StoreMembers DEF StoreInv
<1>3. Overlaid \subseteq Applications BY <1>2 DEF Overlaid, StoreTypeOK
<1>4. /\ progress'[w].pc = "mutated" /\ progress'[w].left = plan.uploads[w]
      /\ \A v \in Applications : v # w => progress'[v] = progress[v]
  BY <1>1, <1>2 DEF StoreTypeOK
<1>5. StoreTypeOK' BY <1>1, <1>2, <1>3 DEF StoreTypeOK
<1>6. ASSUME NEW k \in Keys PROVE Sound(k)'
  <2>1. Sound(k) BY <1>1 DEF StoreInv, Living
  <2> QED BY <1>1, <1>4, <2>1, KeyParts DEF Sound, Journaled, Uploading, Stored, Claimed, Hurried, ClaimedBy, Safe, Linked, Doomed
<1>7. \A v \in Applications : Working(v)' BY <1>1, <1>4 DEF Working, KeysOf, StoreInv, Living
<1>8. \A c \in Collectors : Visiting(c)' BY <1>1 DEF Visiting, StoreInv, Living
<1> QED BY <1>1, <1>5, <1>6, <1>7, <1>8 DEF StoreInv, Living, Destroying, Doomed, DestroyedIsEmpty, OneCollector

LEMMA RecordKeeps ==
  ASSUME StoreInv, NEW w \in Applications, Record(w)
  PROVE  StoreInv'
<1>1. /\ progress[w].pc = "mutated" /\ progress[w].external
      /\ journal' = [k \in Keys |-> IF k \in KeysOf(w)
                                    THEN [state |-> "uploading", token |-> "upload", claim |-> Nothing]
                                    ELSE journal[k]]
      /\ progress' = [progress EXCEPT ![w].pc = "writing"]
      /\ UNCHANGED <<plan, saved, attached, collector, store, puts, deletes, status, listing, late, hasty, failures>>
  BY DEF Record, contents, closing, rushed
<1>2. StoreTypeOK /\ progress \in [Applications -> Tasks] BY DEF StoreInv, StoreTypeOK, Tasks, Steps
<1>3. /\ progress' \in [Applications -> Tasks] /\ progress'[w].pc = "writing"
      /\ progress'[w].external = progress[w].external /\ progress'[w].left = progress[w].left
      /\ \A v \in Applications : v # w => progress'[v] = progress[v]
  BY <1>1, <1>2 DEF Tasks, Steps
<1>4. journal' \in [Keys -> Rows] BY <1>1, <1>2 DEF StoreTypeOK, Rows
<1>5. StoreTypeOK' BY <1>1, <1>2, <1>3, <1>4 DEF StoreTypeOK, Tasks, Steps
<1>6. ASSUME NEW k \in Keys, status # "destroyed" PROVE Sound(k)'
  <2>1. Sound(k) BY <1>1, <1>6 DEF StoreInv, Living
  <2>2. CASE k[2] # w
    <3>1. journal'[k] = journal[k] /\ progress'[k[2]] = progress[k[2]] BY <1>1, <1>3, <2>2, KeyParts
    <3> QED BY <1>1, <2>1, <3>1 DEF Sound, Journaled, Uploading, Stored, Claimed, Hurried, ClaimedBy, Safe, Linked, Doomed
  <2>3. CASE k[2] = w
    <3>1. /\ journal[k].state = "none" /\ ~Linked(k) /\ k \notin puts \ late /\ k \notin hasty
          /\ \A c \in Collectors : <<k, c>> \notin deletes /\ k \notin collector[c].at
      BY <1>1, <2>1, <2>3 DEF Sound, Journaled, Stored, Claimed, ClaimedBy
    <3>2. progress[w].left = plan.uploads[w] BY <1>1, <1>6 DEF StoreInv, Living, Working
    <3>3. IF k[1] \in plan.uploads[w] THEN journal'[k] = [state |-> "uploading", token |-> "upload", claim |-> Nothing]
          ELSE journal'[k] = journal[k]
      BY <1>1, <2>3, KeyParts
    <3>4. ~Linked(k)' BY <1>1, <3>1 DEF Linked
    <3>5. Journaled(k)' BY <1>3, <2>1, <2>3, <3>3, <3>4 DEF Sound, Journaled
    <3>6. Uploading(k)' BY <1>1, <1>3, <2>3, <3>1, <3>2, <3>3 DEF Uploading
    <3>7. Stored(k)' BY <1>1, <1>3, <2>1, <2>3, <3>1, <3>4 DEF Sound, Stored, Journaled
    <3>8. Claimed(k)' /\ Hurried(k)' BY <1>1, <3>1 DEF Claimed, Hurried
    <3> QED BY <3>5, <3>6, <3>7, <3>8 DEF Sound
  <2> QED BY <2>2, <2>3
<1>7. \A v \in Applications : status # "destroyed" => Working(v)' BY <1>1, <1>3 DEF Working, KeysOf, StoreInv, Living
<1>8. \A c \in Collectors : status # "destroyed" => Visiting(c)' BY <1>1 DEF Visiting, StoreInv, Living
<1> QED BY <1>1, <1>5, <1>6, <1>7, <1>8 DEF StoreInv, Living, Destroying, Doomed, DestroyedIsEmpty, OneCollector

LEMMA PutBeginsKeeps ==
  ASSUME StoreInv, NEW w \in Applications, NEW id \in Ids, PutBegins(w, id)
  PROVE  StoreInv'
<1>1. /\ progress[w].pc = "writing" /\ id \in progress[w].left /\ KeysOf(w) \cap puts = {}
      /\ UNCHANGED <<plan, saved, attached, journal, collector, store, deletes, status, listing, late, hasty, failures>>
  BY DEF PutBegins, database, closing, rushed
<1>2. StoreTypeOK /\ <<id, w>> \in Keys BY DEF StoreInv, Keys
<1>3. CASE status = "open"
  <2>1. puts' = puts \cup {<<id, w>>} /\ progress' = progress BY <1>3 DEF PutBegins
  <2>2. StoreTypeOK' BY <1>1, <1>2, <2>1 DEF StoreTypeOK
  <2>3. ASSUME NEW k \in Keys PROVE Sound(k)'
    <3>1. Sound(k) BY <1>3, <2>3 DEF StoreInv, Living
    <3>2. CASE k # <<id, w>>
      <4>1. k \in puts' <=> k \in puts BY <2>1, <3>2
      <4> QED BY <1>1, <2>1, <3>1, <4>1, KeyStays, Zenon DEF Doomed
    <3>3. CASE k = <<id, w>>
      <4>1. k[1] = id /\ k[2] = w BY <3>3
      <4>2. id \in plan.uploads[w] BY <1>1, <1>3 DEF StoreInv, Living, Working
      <4> QED BY <1>1, <2>1, <3>1, <4>1, <4>2
              DEF Sound, Journaled, Uploading, Stored, Claimed, Hurried, ClaimedBy, Safe, Linked, Doomed
    <3> QED BY <3>2, <3>3
  <2>4. ASSUME NEW v \in Applications PROVE Working(v)'
    <3>1. Working(v) BY <1>3, <2>4 DEF StoreInv, Living
    <3>2. CASE v = w BY <1>1, <2>1, <3>1, <3>2 DEF Working, KeysOf
    <3>3. CASE v # w
      <4>1. <<id, w>> \notin KeysOf(v) BY <3>3 DEF KeysOf
      <4> QED BY <1>1, <2>1, <3>1, <4>1 DEF Working, KeysOf
    <3> QED BY <3>2, <3>3
  <2>5. \A c \in Collectors : Visiting(c)' BY <1>1, <1>3 DEF Visiting, StoreInv, Living
  <2> QED BY <1>1, <1>3, <2>2, <2>3, <2>4, <2>5
          DEF StoreInv, Living, Destroying, Doomed, DestroyedIsEmpty, OneCollector
<1>4. CASE status # "open"
  <2>1. Ends(w, "failed") /\ puts' = puts BY <1>4 DEF PutBegins
  <2>2. /\ progress' \in [Applications -> Tasks] /\ progress'[w].pc = "failed" /\ progress'[w].left = {}
        /\ \A v \in Applications : v # w => progress'[v] = progress[v]
    BY <1>2, <2>1, EndsMoves DEF Steps
  <2>3. StoreTypeOK' BY <1>1, <1>2, <2>1, <2>2 DEF StoreTypeOK, Tasks, Steps
  <2>4. ASSUME NEW k \in Keys, status # "destroyed" PROVE Sound(k)'
    <3>1. Sound(k) BY <2>4 DEF StoreInv, Living
    <3>2. CASE k[2] # w
      <4>1. progress'[k[2]] = progress[k[2]] BY <2>2, <3>2, KeyParts
      <4> QED BY <1>1, <2>1, <3>1, <4>1, KeyStays, Zenon DEF Doomed
    <3>3. CASE k[2] = w
      <4>1. k \in puts' => k \in puts /\ k \in late'
        <5>1. progress[w].left \subseteq plan.uploads[w] BY <1>1, <2>4 DEF StoreInv, Living, Working
        <5> QED BY <1>1, <2>1, <3>1, <3>3, <5>1, KeyParts DEF Sound, Stored
      <4> QED BY <1>1, <2>2, <3>1, <3>3, <4>1, KeyFails, Zenon
    <3> QED BY <3>2, <3>3
  <2>5. ASSUME NEW v \in Applications, status # "destroyed" PROVE Working(v)'
    BY <1>1, <2>1, <2>2, <2>5 DEF Working, KeysOf, StoreInv, Living
  <2>6. \A c \in Collectors : status # "destroyed" => Visiting(c)' BY <1>1 DEF Visiting, StoreInv, Living
  <2> QED BY <1>1, <2>1, <2>3, <2>4, <2>5, <2>6
          DEF StoreInv, Living, Destroying, Doomed, DestroyedIsEmpty, OneCollector
<1> QED BY <1>3, <1>4

LEMMA PutLandsKeeps ==
  ASSUME StoreInv, NEW k \in Keys, PutLands(k)
  PROVE  StoreInv'
<1>1. /\ k \in puts /\ store' = store \cup {k} /\ puts' = puts \ {k}
      /\ UNCHANGED <<plan, saved, attached, journal, collector, deletes, status, listing, late, hasty, failures>>
  BY DEF PutLands, database, closing, rushed
<1>2. StoreTypeOK /\ k[2] \in Applications /\ progress \in [Applications -> Tasks]
  BY KeyParts DEF StoreInv, StoreTypeOK, Tasks, Steps
<1>3. /\ progress' \in [Applications -> Tasks]
      /\ \A w \in Applications :
           /\ progress'[w].pc = progress[w].pc /\ progress'[w].external = progress[w].external
           /\ w # k[2] => progress'[w] = progress[w]
      /\ Running(k[2]) => progress'[k[2]].left = progress[k[2]].left \ {k[1]}
      /\ ~Running(k[2]) => progress' = progress
  <2>1. CASE Running(k[2])
    <3>1. progress' = [progress EXCEPT ![k[2]].left = progress[k[2]].left \ {k[1]}] BY <2>1 DEF PutLands
    <3> QED BY <1>2, <2>1, <3>1 DEF Tasks
  <2>2. CASE ~Running(k[2]) BY <1>2, <2>2 DEF PutLands
  <2> QED BY <2>1, <2>2
<1>4. StoreTypeOK' BY <1>1, <1>2, <1>3 DEF StoreTypeOK, Tasks, Steps
<1>5. status # "destroyed" => progress[k[2]].pc \notin {"idle", "mutated"}
  BY <1>1 DEF StoreInv, Living, Sound, Journaled
<1>6. ASSUME NEW j \in Keys, status # "destroyed" PROVE Sound(j)'
  <2>1. Sound(j) BY <1>6 DEF StoreInv, Living
  <2>2. CASE j # k
    <3>1. (j \in store' <=> j \in store) /\ (j \in puts' <=> j \in puts) BY <1>1, <2>2
    <3>2. /\ progress'[j[2]].pc = progress[j[2]].pc
          /\ j[1] \in progress'[j[2]].left <=> j[1] \in progress[j[2]].left
      <4>1. j[2] = k[2] => j[1] # k[1] BY <2>2, KeyParts
      <4> QED BY <1>3, <4>1, KeyParts
    <3> QED BY <1>1, <2>1, <3>1, <3>2, KeyStays, Zenon DEF Doomed
  <2>3. CASE j = k
    <3>1. /\ k \in late \/ (progress[k[2]].pc = "writing" /\ journal[k].state = "uploading")
      <4>1. k \notin late => progress[k[2]].pc = "writing" /\ k[1] \in progress[k[2]].left
        BY <1>1, <2>1, <2>3 DEF Sound, Stored
      <4>2. progress[k[2]].pc = "writing" => progress[k[2]].left \subseteq plan.uploads[k[2]]
        BY <1>2, <1>6 DEF StoreInv, Living, Working
      <4> QED BY <2>1, <2>3, <4>1, <4>2 DEF Sound, Uploading
    <3>7. k \in hasty => k \in late
      <4>1. k \notin late => progress[k[2]].pc = "writing" /\ k[1] \in plan.uploads[k[2]]
        BY <1>1, <2>1, <2>3 DEF Sound, Stored
      <4> QED BY <2>1, <2>3, <4>1 DEF Sound, Hurried
    <3>2. progress'[k[2]].pc = progress[k[2]].pc BY <1>2, <1>3
    <3>3. Journaled(k)' BY <1>1, <1>5, <1>6, <2>1, <2>3, <3>2 DEF Sound, Journaled, Linked
    <3>4. Uploading(k)' BY <1>1, <2>1, <2>3, <3>2 DEF Sound, Uploading, Safe
    <3>5. Stored(k)' BY <1>1, <2>1, <2>3, <3>1 DEF Sound, Stored, Safe, Linked, ClaimedBy
    <3>6. Claimed(k)' BY <1>1, <2>1, <2>3, <3>1, <3>7 DEF Sound, Claimed, ClaimedBy
    <3>8. Hurried(k)' BY <1>1, <3>7 DEF Hurried
    <3> QED BY <2>3, <3>3, <3>4, <3>5, <3>6, <3>8 DEF Sound
  <2> QED BY <2>2, <2>3
<1>7. ASSUME NEW w \in Applications, status # "destroyed" PROVE Working(w)'
  <2>1. Working(w) BY <1>7 DEF StoreInv, Living
  <2>2. progress'[w].left \subseteq progress[w].left BY <1>2, <1>3
  <2>3. progress[w].pc = "mutated" => progress'[w] = progress[w] BY <1>2, <1>3, <1>5, <1>7
  <2> QED BY <1>1, <1>3, <2>1, <2>2, <2>3 DEF Working, KeysOf
<1>8. \A c \in Collectors : status # "destroyed" => Visiting(c)' BY <1>1 DEF Visiting, StoreInv, Living
<1> QED BY <1>1, <1>4, <1>6, <1>7, <1>8 DEF StoreInv, Living, Destroying, Doomed, DestroyedIsEmpty, OneCollector

LEMMA PutFailsKeeps ==
  ASSUME StoreInv, NEW k \in Keys, NEW arrives \in BOOLEAN, PutFails(k, arrives)
  PROVE  StoreInv'
<1>1. /\ k \in puts /\ Running(k[2]) /\ Spend("fault") /\ Ends(k[2], "failed")
      /\ IF arrives THEN late' = late \cup {k} /\ puts' = puts
         ELSE puts' = puts \ {k} /\ late' = late
      /\ UNCHANGED <<plan, saved, attached, journal, collector, store, deletes, status, listing, hasty>>
  BY DEF PutFails, database, closing
<1>2. StoreTypeOK /\ k[2] \in Applications BY KeyParts DEF StoreInv
<1>3. /\ progress' \in [Applications -> Tasks] /\ progress'[k[2]].pc = "failed" /\ progress'[k[2]].left = {}
      /\ \A v \in Applications : v # k[2] => progress'[v] = progress[v]
  BY <1>1, <1>2, EndsMoves DEF Steps
<1>4. failures' \in [Mishaps -> Nat] /\ failures'["fault"] > 0 BY <1>1, <1>2, SpendCounts DEF Mishaps
<1>5. StoreTypeOK' BY <1>1, <1>2, <1>3, <1>4 DEF StoreTypeOK, Tasks, Steps
<1>6. ASSUME NEW j \in Keys, status # "destroyed" PROVE Sound(j)'
  <2>1. Sound(j) BY <1>6 DEF StoreInv, Living
  <2>2. CASE j[2] # k[2]
    <3>1. j # k /\ progress'[j[2]] = progress[j[2]] BY <1>3, <2>2, KeyParts
    <3>2. (j \in puts' <=> j \in puts) /\ (j \in late' <=> j \in late) BY <1>1, <3>1
    <3> QED BY <1>1, <1>4, <2>1, <3>1, <3>2, KeyStays, Zenon DEF Doomed
  <2>3. CASE j[2] = k[2]
    <3>1. progress[j[2]].pc \in {"mutated", "writing"} BY <1>1, <2>3 DEF Running
    <3>2. (j \in puts' => j \in puts /\ j \in late') /\ (j \in late => j \in late')
      <4>1. CASE j = k BY <1>1, <4>1
      <4>2. CASE j # k
        <5>1. progress[k[2]].pc = "writing" => progress[k[2]].left \subseteq plan.uploads[k[2]]
          BY <1>2, <1>6 DEF StoreInv, Living, Working
        <5>2. ASSUME j \in puts, j \notin late PROVE FALSE
          <6>1. j \in KeysOf(k[2]) /\ k \in KeysOf(k[2])
            BY <1>1, <1>2, <1>6, <2>1, <2>3, <5>2, KeyParts DEF Sound, Stored, StoreInv, Living
          <6> QED BY <1>1, <1>2, <1>6, <4>2, <5>2, <6>1 DEF StoreInv, Living, Working
        <5> QED BY <1>1, <4>2, <5>2
      <4> QED BY <4>1, <4>2
    <3> QED BY <1>1, <1>3, <2>1, <2>3, <3>1, <3>2, KeyFails, Zenon
  <2> QED BY <2>2, <2>3
<1>7. ASSUME NEW v \in Applications, status # "destroyed" PROVE Working(v)'
  <2>1. Working(v) /\ puts' \subseteq puts BY <1>1, <1>7 DEF StoreInv, Living
  <2> QED BY <1>1, <1>3, <2>1 DEF Working, KeysOf
<1>8. \A c \in Collectors : status # "destroyed" => Visiting(c)' BY <1>1 DEF Visiting, StoreInv, Living
<1> QED BY <1>1, <1>5, <1>6, <1>7, <1>8 DEF StoreInv, Living, Destroying, Doomed, DestroyedIsEmpty, OneCollector

LEMMA CommitActionKeeps ==
  ASSUME StoreInv, NEW w \in Applications, CommitAction(w)
  PROVE  StoreInv'
<1>1. /\ status # "destroyed" /\ Uploaded(w) /\ (progress[w].external => Owned(w))
      /\ saved' = progress[w].seen
      /\ attached' = [id \in Ids |-> IF id \notin plan.uploads[w] THEN attached[id]
                                      ELSE IF progress[w].external THEN w ELSE Inline]
      /\ journal' = [k \in Keys |->
           IF k \in Replaced(w) /\ journal[k].state = "none"
           THEN [state |-> "pending", token |-> "replaced", claim |-> Nothing]
           ELSE IF k \in KeysOf(w) THEN NoRow ELSE journal[k]]
      /\ Ends(w, "committed")
      /\ UNCHANGED <<plan, collector, store, puts, deletes, status, listing, late, hasty, failures>>
  BY DEF CommitAction, WrittenBack, contents, closing, rushed
<1>2. StoreTypeOK BY DEF StoreInv
<1>3. /\ progress' \in [Applications -> Tasks] /\ progress'[w].pc = "committed" /\ progress'[w].left = {}
      /\ \A v \in Applications : v # w => progress'[v] = progress[v]
  BY <1>1, <1>2, EndsMoves DEF Steps
<1>4. StoreTypeOK'
  <2>1. saved' \subseteq Applications BY <1>1, <1>2, StoreMembers
  <2>2. attached' \in [Ids -> Applications \cup {Nothing, Inline}] BY <1>1, <1>2 DEF StoreTypeOK
  <2>3. journal' \in [Keys -> Rows] BY <1>1, <1>2 DEF StoreTypeOK, Rows, NoRow
  <2> QED BY <1>1, <1>2, <1>3, <2>1, <2>2, <2>3 DEF StoreTypeOK, Tasks, Steps
<1>5. \/ progress[w].pc = "writing" /\ progress[w].external /\ progress[w].left = {}
      \/ progress[w].pc = "mutated" /\ (plan.uploads[w] = {} \/ ~progress[w].external)
  BY <1>1 DEF Uploaded, StoreInv, Living, Working
<1>6. ASSUME NEW k \in Keys PROVE Sound(k)'
  <2>1. Sound(k) BY <1>1, <1>6 DEF StoreInv, Living
  <2>2. /\ k[1] \in Ids /\ k[2] \in Applications /\ k[2] # Inline
        /\ k \in KeysOf(w) <=> k[2] = w /\ k[1] \in plan.uploads[w]
    BY KeyParts, StoreAssumption
  <2>3. /\ k[1] \notin plan.uploads[w] => attached'[k[1]] = attached[k[1]]
        /\ k[1] \in plan.uploads[w] => attached'[k[1]] = IF progress[w].external THEN w ELSE Inline
    BY <1>1, <2>2
  <2>4. k[2] = w => ~Linked(k) /\ k \notin puts \ late
    BY <1>5, <2>1 DEF Sound, Journaled, Stored
  <2>5. CASE k \in KeysOf(w) /\ progress[w].external
    <3>1. k[2] = w /\ k[1] \in plan.uploads[w] /\ Linked(k)' BY <2>2, <2>3, <2>5 DEF Linked
    <3>2. progress[w].pc = "writing" /\ progress[w].left = {} BY <1>5, <2>5, <3>1
    <3>3. journal[k].state \in {"uploading", "pending"} BY <1>1, <2>5 DEF Owned
    <3>4. journal'[k] = NoRow BY <1>1, <2>5 DEF Replaced
    <3>5. \A c \in Collectors : <<k, c>> \in deletes \/ k \in collector[c].at => k \in hasty
      BY <2>1, <3>3 DEF Sound, Stored, Claimed, ClaimedBy
    <3>7. k \in hasty => k \in late BY <2>1, <3>1, <3>2 DEF Sound, Hurried
    <3>6. ~Doomed => Safe(k) BY <2>1, <3>1, <3>2, <3>3 DEF Sound, Uploading
    <3> QED BY <1>1, <1>3, <2>1, <2>4, <3>1, <3>4, <3>5, <3>6, <3>7
            DEF Sound, Journaled, Uploading, Stored, Claimed, Hurried, ClaimedBy, Safe, Doomed, NoRow
  <2>6. CASE k \in KeysOf(w) /\ ~progress[w].external
    <3>1. k[2] = w /\ ~Linked(k)' BY <2>2, <2>3, <2>6 DEF Linked
    <3>2. journal[k].state = "none" /\ k \notin store /\ k \notin puts /\ k \notin hasty
      BY <1>5, <2>1, <2>6, <3>1 DEF Sound, Journaled
    <3>3. \A c \in Collectors : <<k, c>> \notin deletes /\ k \notin collector[c].at
      BY <2>1, <3>2 DEF Sound, Stored, Claimed, ClaimedBy
    <3>4. journal'[k] = NoRow BY <1>1, <2>6 DEF Replaced
    <3> QED BY <1>1, <1>3, <3>1, <3>2, <3>3, <3>4
            DEF Sound, Journaled, Uploading, Stored, Claimed, Hurried, ClaimedBy, Safe, Doomed, NoRow
  <2>7. CASE k \notin KeysOf(w) /\ k[1] \in plan.uploads[w]
    <3>1. k[2] # w /\ ~Linked(k)' BY <2>2, <2>3, <2>7 DEF Linked
    <3>2. progress'[k[2]] = progress[k[2]] BY <1>3, <2>2, <3>1
    <3>3. CASE Linked(k)
      <4>1. journal[k].state = "none" /\ progress[k[2]].pc = "committed"
        BY <2>1, <3>3 DEF Sound, Journaled
      <4>2. journal'[k] = [state |-> "pending", token |-> "replaced", claim |-> Nothing]
        BY <1>1, <2>7, <3>3, <4>1 DEF Replaced
      <4> QED BY <1>1, <2>1, <3>1, <3>2, <4>1, <4>2
              DEF Sound, Journaled, Uploading, Stored, Claimed, Hurried, ClaimedBy, Safe, Doomed
    <3>4. CASE ~Linked(k)
      <4>1. journal'[k] = journal[k] BY <1>1, <2>7, <3>4 DEF Replaced
      <4> QED BY <1>1, <2>1, <3>1, <3>2, <3>4, <4>1
              DEF Sound, Journaled, Uploading, Stored, Claimed, Hurried, ClaimedBy, Safe, Doomed
    <3> QED BY <3>3, <3>4
  <2>8. CASE k[1] \notin plan.uploads[w]
    <3>1. journal'[k] = journal[k] /\ attached'[k[1]] = attached[k[1]] BY <1>1, <2>2, <2>3, <2>8 DEF Replaced
    <3>2. CASE k[2] # w
      <4>1. progress'[k[2]] = progress[k[2]] BY <1>3, <2>2, <3>2
      <4> QED BY <1>1, <2>1, <3>1, <4>1, KeyStays, Zenon DEF Doomed
    <3>3. CASE k[2] = w
      <4>1. ~Linked(k)' BY <2>4, <3>1, <3>3 DEF Linked
      <4> QED BY <1>1, <1>3, <2>1, <2>4, <3>1, <3>3, <4>1
              DEF Sound, Journaled, Uploading, Stored, Claimed, Hurried, ClaimedBy
    <3> QED BY <3>2, <3>3
  <2> QED BY <2>2, <2>5, <2>6, <2>7, <2>8
<1>7. \A v \in Applications : Working(v)' BY <1>1, <1>3 DEF Working, KeysOf, StoreInv, Living
<1>8. \A c \in Collectors : Visiting(c)' BY <1>1 DEF Visiting, StoreInv, Living
<1> QED BY <1>1, <1>4, <1>6, <1>7, <1>8 DEF StoreInv, Living, Destroying, Doomed, DestroyedIsEmpty, OneCollector

LEMMA PublishFailsKeeps ==
  ASSUME StoreInv, NEW w \in Applications, PublishFails(w)
  PROVE  StoreInv'
<1>1. /\ Uploaded(w) /\ Ends(w, "failed")
      /\ UNCHANGED <<plan, saved, attached, journal, collector, store, puts, deletes, status, listing, late, hasty, failures>>
  BY DEF PublishFails, database, contents, closing, rushed
<1>2. StoreTypeOK BY DEF StoreInv
<1>3. /\ progress' \in [Applications -> Tasks] /\ progress'[w].pc = "failed" /\ progress'[w].left = {}
      /\ \A v \in Applications : v # w => progress'[v] = progress[v]
  BY <1>1, <1>2, EndsMoves DEF Steps
<1>4. StoreTypeOK' BY <1>1, <1>2, <1>3 DEF StoreTypeOK, Tasks, Steps
<1>5. ASSUME NEW k \in Keys, status # "destroyed" PROVE Sound(k)'
  <2>1. Sound(k) BY <1>5 DEF StoreInv, Living
  <2>2. CASE k[2] # w
    <3>1. progress'[k[2]] = progress[k[2]] BY <1>3, <2>2, KeyParts
    <3> QED BY <1>1, <2>1, <3>1, KeyStays, Zenon DEF Doomed
  <2>3. CASE k[2] = w
    <3>1. progress[w].pc \in {"mutated", "writing"} BY <1>1 DEF Uploaded
    <3>2. k \in puts' => k \in puts /\ k \in late'
      BY <1>1, <2>1, <2>3 DEF Uploaded, Sound, Stored, Journaled
    <3> QED BY <1>1, <1>3, <2>1, <2>3, <3>1, <3>2, KeyFails, Zenon
  <2> QED BY <2>2, <2>3
<1>6. \A v \in Applications : status # "destroyed" => Working(v)'
  BY <1>1, <1>3 DEF Working, KeysOf, StoreInv, Living
<1>7. \A c \in Collectors : status # "destroyed" => Visiting(c)' BY <1>1 DEF Visiting, StoreInv, Living
<1> QED BY <1>1, <1>4, <1>5, <1>6, <1>7 DEF StoreInv, Living, Destroying, Doomed, DestroyedIsEmpty, OneCollector

LEMMA CommitFailsKeeps ==
  ASSUME StoreInv, NEW w \in Applications, CommitFails(w)
  PROVE  StoreInv'
<1>1. /\ status # "destroyed" /\ Uploaded(w) /\ Spend("fault") /\ Ends(w, "failed")
      /\ journal' = [k \in Keys |->
           IF k \in KeysOf(w) /\ journal[k].state = "uploading"
           THEN [journal[k] EXCEPT !.state = "pending"] ELSE journal[k]]
      /\ UNCHANGED <<plan, saved, attached, collector, store, puts, deletes, status, listing, late, hasty>>
  BY DEF CommitFails, contents, closing, rushed
<1>2. StoreTypeOK BY DEF StoreInv
<1>3. /\ progress' \in [Applications -> Tasks] /\ progress'[w].pc = "failed" /\ progress'[w].left = {}
      /\ \A v \in Applications : v # w => progress'[v] = progress[v]
  BY <1>1, <1>2, EndsMoves DEF Steps
<1>4. failures' \in [Mishaps -> Nat] /\ failures'["fault"] > 0 BY <1>1, <1>2, SpendCounts DEF Mishaps
<1>5. journal \in [Keys -> Rows] /\ journal' \in [Keys -> Rows]
  <2>1. journal \in [Keys -> Rows] BY <1>2 DEF StoreTypeOK
  <2>2. \A r \in Rows : [r EXCEPT !.state = "pending"] \in Rows BY DEF Rows
  <2> QED BY <1>1, <2>1, <2>2
<1>6. StoreTypeOK' BY <1>1, <1>2, <1>3, <1>4, <1>5 DEF StoreTypeOK, Tasks, Steps
<1>7. ASSUME NEW k \in Keys PROVE Sound(k)'
  <2>1. Sound(k) BY <1>1, <1>7 DEF StoreInv, Living
  <2>2. CASE k[2] # w
    <3>1. progress'[k[2]] = progress[k[2]] /\ journal'[k] = journal[k] BY <1>1, <1>3, <2>2, KeyParts
    <3> QED BY <1>1, <1>4, <2>1, <3>1, KeyStays, Zenon DEF Doomed
  <2>3. CASE k[2] = w
    <3>1. progress[w].pc \in {"mutated", "writing"} BY <1>1 DEF Uploaded
    <3>2. k \in puts' => k \in puts /\ k \in late'
      BY <1>1, <2>1, <2>3 DEF Uploaded, Sound, Stored, Journaled
    <3>3. ~Linked(k) /\ ~Linked(k)' BY <1>1, <2>1, <2>3, <3>1 DEF Sound, Journaled, Linked
    <3>4. CASE journal'[k] = journal[k] BY <1>1, <1>3, <2>1, <2>3, <3>1, <3>2, <3>4, KeyFails, Zenon
    <3>5. CASE journal'[k] # journal[k]
      <4>1. /\ journal[k].state = "uploading" /\ journal'[k].state = "pending"
            /\ journal'[k].token = journal[k].token /\ journal'[k].claim = journal[k].claim
        BY <1>1, <1>5, <3>5 DEF Rows
      <4> QED BY <1>1, <1>3, <2>1, <2>3, <3>2, <3>3, <4>1
              DEF Sound, Journaled, Uploading, Stored, Claimed, Hurried, ClaimedBy
    <3> QED BY <3>4, <3>5
  <2> QED BY <2>2, <2>3
<1>8. \A v \in Applications : Working(v)' BY <1>1, <1>3 DEF Working, KeysOf, StoreInv, Living
<1>9. \A c \in Collectors : Visiting(c)' BY <1>1 DEF Visiting, StoreInv, Living
<1> QED BY <1>1, <1>6, <1>7, <1>8, <1>9 DEF StoreInv, Living, Destroying, Doomed, DestroyedIsEmpty, OneCollector

LEMMA CrashKeeps ==
  ASSUME StoreInv, Crash
  PROVE  StoreInv'
<1>1. /\ status # "destroyed" /\ Spend("crash")
      /\ progress' = [w \in Applications |->
           IF Running(w) THEN [NewTask EXCEPT !.pc = "failed"] ELSE progress[w]]
      /\ late' = late \cup {k \in puts : Running(k[2])}
      /\ collector' = [c \in Collectors |-> Resting]
      /\ status' = (IF Doomed THEN "listing" ELSE "open") /\ listing' = {}
      /\ UNCHANGED <<plan, saved, attached, journal, store, puts, deletes, hasty>>
  BY DEF Crash, database, contents
<1>2. StoreTypeOK /\ progress \in [Applications -> Tasks] BY DEF StoreInv, StoreTypeOK, Tasks, Steps
<1>3. /\ progress' \in [Applications -> Tasks]
      /\ \A w \in Applications :
           /\ Running(w) => progress'[w].pc = "failed" /\ progress'[w].left = {}
           /\ ~Running(w) => progress'[w] = progress[w]
  BY <1>1, <1>2, NewTaskTyped DEF Steps
<1>4. failures' \in [Mishaps -> Nat] /\ (failures["fault"] > 0 => failures'["fault"] > 0)
  BY <1>1, <1>2, SpendCounts DEF Mishaps
<1>5. collector' \in [Collectors -> [pc : {"idle", "visiting", "deleting"},
                                     list : SUBSET (Keys \X {"upload", "replaced"}), at : SUBSET Keys]]
      /\ \A c \in Collectors : collector'[c].at = {}
  BY <1>1 DEF Resting
<1>6. StoreTypeOK' BY <1>1, <1>2, <1>3, <1>4, <1>5 DEF StoreTypeOK, Tasks, Steps
<1>7. Doomed' <=> Doomed BY <1>1 DEF Doomed
<1>8. ASSUME NEW k \in Keys PROVE Sound(k)'
  <2>1. Sound(k) /\ k[2] \in Applications BY <1>1, <1>8, KeyParts DEF StoreInv, Living
  <2>2. k \in puts \ late => Running(k[2]) BY <2>1 DEF Sound, Stored, Running
  <2>3. k \in late' => k \in late \/ Running(k[2]) BY <1>1
  <2>4. k \in puts' => k \in late' BY <1>1, <2>2
  <2>5. CASE Running(k[2])
    <3>1. progress'[k[2]].pc = "failed" BY <1>3, <2>1, <2>5
    <3>2. ~Linked(k) /\ ~Linked(k)' BY <1>1, <2>1, <2>5 DEF Sound, Journaled, Linked, Running
    <3> QED BY <1>1, <1>5, <2>1, <2>4, <3>1, <3>2 DEF Sound, Journaled, Uploading, Stored, Claimed, Hurried, ClaimedBy
  <2>6. CASE ~Running(k[2])
    <3>1. progress'[k[2]] = progress[k[2]] /\ progress[k[2]].pc # "writing" BY <1>3, <2>1, <2>6 DEF Running
    <3>2. k \in late' <=> k \in late BY <1>1, <2>3, <2>6
    <3> QED BY <1>1, <1>4, <1>5, <1>7, <2>1, <2>4, <3>1, <3>2
            DEF Sound, Journaled, Uploading, Stored, Claimed, Hurried, ClaimedBy, Linked, Safe
  <2> QED BY <2>5, <2>6
<1>9. \A v \in Applications : Working(v)'
  <2>1. ASSUME NEW v \in Applications PROVE Working(v)'
    <3>1. Working(v) BY <1>1, <2>1 DEF StoreInv, Living
    <3>2. CASE Running(v)
      <4>1. progress'[v].pc = "failed" /\ UNCHANGED <<plan, puts>> BY <1>1, <1>3, <3>2
      <4> QED BY <3>1, <4>1 DEF Working, KeysOf
    <3>3. CASE ~Running(v) BY <1>1, <1>3, <3>1, <3>3 DEF Working, KeysOf
    <3> QED BY <3>2, <3>3
  <2> QED BY <2>1
<1>10. \A c \in Collectors : Visiting(c)' BY <1>5 DEF Visiting
<1>11. Destroying' BY <1>1, <1>7 DEF StoreInv, Destroying, DestroyedIsEmpty
<1>12. OneCollector' BY <1>5 DEF OneCollector
<1> QED BY <1>6, <1>8, <1>9, <1>10, <1>11, <1>12 DEF StoreInv, Living

----------------------------------------------------------------------------
(* The store: collecting orphans *)

\* What a collection does with its list and the orphan it is at.
Runs == [pc : {"idle", "visiting", "deleting"}, list : SUBSET (Keys \X {"upload", "replaced"}),
         at : SUBSET Keys]

LEMMA ScanKeeps ==
  ASSUME StoreInv, NEW c \in Collectors, Scan(c)
  PROVE  StoreInv'
<1> DEFINE pending == {<<k, journal[k].token>> : k \in PendingKeys}
<1>1. /\ status = "open" /\ collector[c].pc = "idle"
      /\ collector' = [collector EXCEPT ![c] = [pc |-> "visiting", at |-> {}, list |-> pending]]
      /\ UNCHANGED <<plan, saved, attached, journal, progress, store, puts, deletes, status, listing, late, hasty, failures>>
  BY DEF Scan, database, contents, closing, rushed
<1>2. StoreTypeOK BY DEF StoreInv
<1>3. pending \in SUBSET (Keys \X {"upload", "replaced"})
  <2>1. ASSUME NEW k \in PendingKeys PROVE <<k, journal[k].token>> \in Keys \X {"upload", "replaced"}
    BY <1>1, <2>1 DEF PendingKeys, StoreInv, Living, Sound, Journaled
  <2> QED BY <2>1
<1> HIDE DEF pending
<1>4. [pc |-> "visiting", at |-> {}, list |-> pending] \in Runs BY <1>3 DEF Runs
<1>5. /\ collector' \in [Collectors -> Runs] /\ collector'[c].at = {} /\ collector[c].at = {}
      /\ \A d \in Collectors : d # c => collector'[d] = collector[d]
  BY <1>1, <1>2, <1>4 DEF StoreTypeOK, Runs, StoreInv, Living, Visiting
<1>6. StoreTypeOK' BY <1>1, <1>2, <1>5 DEF StoreTypeOK, Runs
<1>7. ASSUME NEW k \in Keys PROVE Sound(k)'
  <2>1. Sound(k) BY <1>1, <1>7 DEF StoreInv, Living
  <2>2. \A d \in Collectors : k \in collector'[d].at <=> k \in collector[d].at BY <1>5
  <2> QED BY <1>1, <2>1, <2>2, KeyStays, Zenon DEF Doomed
<1>8. \A v \in Applications : Working(v)' BY <1>1 DEF Working, KeysOf, StoreInv, Living
<1>9. \A d \in Collectors : Visiting(d)' BY <1>1, <1>5 DEF Visiting, StoreInv, Living
<1> QED BY <1>1, <1>5, <1>6, <1>7, <1>8, <1>9
        DEF StoreInv, Living, Destroying, Doomed, DestroyedIsEmpty, OneCollector

LEMMA LeaveKeeps ==
  ASSUME StoreInv, NEW c \in Collectors, Leave(c)
  PROVE  StoreInv'
<1>1. /\ collector[c].pc = "visiting" /\ collector' = [collector EXCEPT ![c] = Resting]
      /\ UNCHANGED <<plan, saved, attached, journal, progress, store, puts, deletes, status, listing, late, hasty, failures>>
  BY DEF Leave, database, contents, closing, rushed
<1>2. StoreTypeOK BY DEF StoreInv
<1>3. Resting \in Runs /\ Resting.at = {} BY DEF Runs, Resting
<1>4. /\ collector' \in [Collectors -> Runs] /\ collector'[c].at = {}
      /\ \A d \in Collectors : d # c => collector'[d] = collector[d]
  BY <1>1, <1>2, <1>3 DEF StoreTypeOK, Runs
<1>5. status # "destroyed" => collector[c].at = {} BY <1>1 DEF StoreInv, Living, Visiting
<1>6. StoreTypeOK' BY <1>1, <1>2, <1>4 DEF StoreTypeOK, Runs
<1>7. ASSUME NEW k \in Keys, status # "destroyed" PROVE Sound(k)'
  <2>1. Sound(k) BY <1>7 DEF StoreInv, Living
  <2>2. \A d \in Collectors : k \in collector'[d].at <=> k \in collector[d].at BY <1>4, <1>5, <1>7
  <2> QED BY <1>1, <2>1, <2>2, KeyStays, Zenon DEF Doomed
<1>8. \A v \in Applications : status # "destroyed" => Working(v)' BY <1>1 DEF Working, KeysOf, StoreInv, Living
<1>9. \A d \in Collectors : status # "destroyed" => Visiting(d)' BY <1>1, <1>4 DEF Visiting, StoreInv, Living
<1> QED BY <1>1, <1>4, <1>6, <1>7, <1>8, <1>9
        DEF StoreInv, Living, Destroying, Doomed, DestroyedIsEmpty, OneCollector

LEMMA VisitKeeps ==
  ASSUME StoreInv, NEW c \in Collectors, NEW k \in Keys, NEW token \in {"upload", "replaced"},
         Visit(c, k, token)
  PROVE  StoreInv'
<1>1. /\ collector[c].pc = "visiting" /\ <<k, token>> \in collector[c].list /\ status = "open"
      /\ journal' = [journal EXCEPT ![k] =
           IF Linked(k) THEN NoRow
           ELSE IF Claimable(c, k, token)
                THEN [journal[k] EXCEPT !.state = "collecting", !.claim = c] ELSE journal[k]]
      /\ collector' = [collector EXCEPT
           ![c].list = collector[c].list \ {<<k, token>>},
           ![c].pc = IF Claimable(c, k, token) THEN "deleting" ELSE "visiting",
           ![c].at = IF Claimable(c, k, token) THEN {k} ELSE {}]
      /\ deletes' = (IF Claimable(c, k, token) THEN deletes \cup {<<k, c>>} ELSE deletes)
      /\ UNCHANGED <<plan, saved, attached, progress, store, puts, status, listing, late, hasty, failures>>
  BY DEF Visit, closing, rushed
<1>2. StoreTypeOK /\ collector \in [Collectors -> Runs] /\ journal \in [Keys -> Rows]
  BY DEF StoreInv, StoreTypeOK, Runs
<1>3. /\ collector' \in [Collectors -> Runs]
      /\ collector'[c].pc = (IF Claimable(c, k, token) THEN "deleting" ELSE "visiting")
      /\ collector'[c].at = (IF Claimable(c, k, token) THEN {k} ELSE {})
      /\ \A d \in Collectors : d # c => collector'[d] = collector[d]
  <2>1. collector[c] \in Runs /\ collector[c].list \ {<<k, token>>} \subseteq Keys \X {"upload", "replaced"}
    BY <1>2 DEF Runs
  <2>2. CASE Claimable(c, k, token)
    <3>1. collector' = [collector EXCEPT ![c].list = collector[c].list \ {<<k, token>>},
                                         ![c].pc = "deleting", ![c].at = {k}]
      BY <1>1, <2>2
    <3> QED BY <1>2, <2>1, <2>2, <3>1 DEF Runs
  <2>3. CASE ~Claimable(c, k, token)
    <3>1. collector' = [collector EXCEPT ![c].list = collector[c].list \ {<<k, token>>},
                                         ![c].pc = "visiting", ![c].at = {}]
      BY <1>1, <2>3
    <3> QED BY <1>2, <2>1, <2>3, <3>1 DEF Runs
  <2> QED BY <2>2, <2>3
<1>4. /\ journal' \in [Keys -> Rows]
      /\ Linked(k) => journal'[k].state = "none" /\ journal'[k].claim = Nothing
      /\ Claimable(c, k, token) => /\ journal'[k].state = "collecting" /\ journal'[k].claim = c
                                   /\ journal'[k].token = journal[k].token
      /\ ~Linked(k) /\ ~Claimable(c, k, token) => journal'[k] = journal[k]
      /\ \A j \in Keys : j # k => journal'[j] = journal[j]
  <2>1. NoRow \in Rows /\ NoRow.state = "none" /\ NoRow.claim = Nothing BY DEF NoRow, Rows
  <2>2. [journal[k] EXCEPT !.state = "collecting", !.claim = c] \in Rows BY <1>2 DEF Rows
  <2>3. Claimable(c, k, token) => ~Linked(k) BY DEF Claimable
  <2>4. CASE Linked(k) BY <1>1, <1>2, <2>1, <2>3, <2>4
  <2>5. CASE Claimable(c, k, token)
    <3>1. journal' = [journal EXCEPT ![k] = [journal[k] EXCEPT !.state = "collecting", !.claim = c]]
      BY <1>1, <2>3, <2>5
    <3> QED BY <1>2, <2>2, <2>3, <2>5, <3>1 DEF Rows
  <2>6. CASE ~Linked(k) /\ ~Claimable(c, k, token)
    <3>1. journal' = [journal EXCEPT ![k] = journal[k]] BY <1>1, <2>6
    <3> QED BY <1>2, <2>6, <3>1
  <2> QED BY <2>4, <2>5, <2>6
<1>5. StoreTypeOK' BY <1>1, <1>2, <1>3, <1>4 DEF StoreTypeOK, Runs
<1>6. collector[c].at = {} BY <1>1 DEF StoreInv, Living, Visiting
<1>7. \A d \in Collectors : Claimable(c, k, token) /\ k \in collector[d].at => k \in hasty
  BY <1>1 DEF Claimable, StoreInv, Living, Sound, Claimed, ClaimedBy
<1>8. ASSUME NEW j \in Keys PROVE Sound(j)'
  <2>1. Sound(j) BY <1>1, <1>8 DEF StoreInv, Living
  <2>2. CASE j # k
    <3>1. \A d \in Collectors : <<j, d>> \in deletes' <=> <<j, d>> \in deletes BY <1>1, <2>2
    <3>2. journal'[j] = journal[j] BY <1>4, <2>2
    <3>3. \A d \in Collectors : j \in collector'[d].at <=> j \in collector[d].at BY <1>3, <1>6, <2>2
    <3> QED BY <1>1, <2>1, <3>1, <3>2, <3>3, KeyStays, Zenon DEF Doomed
  <2>3. CASE j = k /\ Claimable(c, k, token)
    <3>1. ~Linked(k) /\ ~Linked(k)' /\ journal[k].state = "pending" BY <1>1, <2>3 DEF Claimable, Linked
    <3>2. /\ journal'[k].state = "collecting" /\ journal'[k].claim = c
          /\ journal'[k].token = journal[k].token
      BY <1>4, <2>3
    <3>3. /\ <<k, c>> \in deletes' /\ k \in collector'[c].at
          /\ \A d \in Collectors : d # c => /\ k \in collector'[d].at <=> k \in collector[d].at
                                            /\ <<k, d>> \in deletes' <=> <<k, d>> \in deletes
          /\ \A d \in Collectors : d # c /\ (k \in collector[d].at \/ <<k, d>> \in deletes) => k \in hasty
      <4>1. \A d \in Collectors : <<k, d>> \in deletes => k \in hasty
        BY <2>1, <2>3, <3>1 DEF Sound, Stored, ClaimedBy
      <4>2. collector'[c].at = {k} BY <1>3, <2>3
      <4>3. deletes' = deletes \cup {<<k, c>>} BY <1>1, <2>3
      <4> QED BY <1>3, <1>7, <2>3, <4>1, <4>2, <4>3
    <3>4. Journaled(k)' BY <1>1, <2>1, <2>3, <3>1, <3>2 DEF Sound, Journaled
    <3>5. Uploading(k)' BY <1>1, <2>1, <2>3, <3>1, <3>2, <3>3 DEF Sound, Uploading
    <3>6. Stored(k)' BY <1>1, <2>1, <2>3, <3>1, <3>2, <3>3 DEF Sound, Stored, ClaimedBy
    <3>7. Claimed(k)' BY <1>1, <2>1, <2>3, <3>2, <3>3 DEF Sound, Claimed, ClaimedBy
    <3>8. Hurried(k)' BY <1>1, <2>1, <2>3, <3>1 DEF Sound, Hurried
    <3> QED BY <2>3, <3>4, <3>5, <3>6, <3>7, <3>8 DEF Sound
  <2>4. CASE j = k /\ ~Claimable(c, k, token)
    <3>1. deletes' = deletes /\ \A d \in Collectors : k \in collector'[d].at <=> k \in collector[d].at
      BY <1>1, <1>3, <1>6, <2>4
    <3>2. CASE Linked(k)
      <4>1. journal[k].state = "none" /\ journal'[k].state = "none" /\ journal'[k].claim = Nothing
        BY <1>4, <2>1, <2>4, <3>2 DEF Sound, Journaled
      <4> QED BY <1>1, <2>1, <2>4, <3>1, <3>2, <4>1
              DEF Sound, Journaled, Uploading, Stored, Claimed, Hurried, ClaimedBy, Linked, Safe, Doomed
    <3>3. CASE ~Linked(k)
      <4>1. journal'[k] = journal[k] BY <1>4, <2>4, <3>3
      <4> QED BY <1>1, <2>1, <2>4, <3>1, <4>1, KeyStays, Zenon DEF Doomed
    <3> QED BY <3>2, <3>3
  <2> QED BY <2>2, <2>3, <2>4
<1>9. \A v \in Applications : Working(v)' BY <1>1 DEF Working, KeysOf, StoreInv, Living
<1>10. \A d \in Collectors : Visiting(d)' BY <1>1, <1>3 DEF Visiting, StoreInv, Living
<1>11. OneCollector' BY <1>1, <1>3, <1>7 DEF OneCollector, StoreInv
<1> QED BY <1>1, <1>5, <1>8, <1>9, <1>10, <1>11 DEF StoreInv, Living, Destroying, Doomed, DestroyedIsEmpty

LEMMA DeleteLandsKeeps ==
  ASSUME StoreInv, NEW k \in Keys, NEW c \in Collectors, DeleteLands(k, c)
  PROVE  StoreInv'
<1>1. /\ <<k, c>> \in deletes /\ store' = store \ {k} /\ deletes' = deletes \ {<<k, c>>}
      /\ UNCHANGED <<plan, saved, attached, journal, progress, collector, puts, status, listing, late, hasty, failures>>
  BY DEF DeleteLands, database, closing, rushed
<1>2. StoreTypeOK' BY <1>1 DEF StoreTypeOK, StoreInv
<1>3. ASSUME NEW j \in Keys, status # "destroyed" PROVE Sound(j)'
  <2>1. Sound(j) BY <1>3 DEF StoreInv, Living
  <2>2. CASE j # k
    <3>1. (j \in store' <=> j \in store) /\ \A d \in Collectors : <<j, d>> \in deletes' <=> <<j, d>> \in deletes
      BY <1>1, <2>2
    <3> QED BY <1>1, <2>1, <3>1, KeyStays, Zenon DEF Doomed
  <2>3. CASE j = k
    <3>1. (k \in hasty \/ journal[k].state = "collecting") /\ (Linked(k)' <=> Linked(k))
      BY <1>1, <2>1, <2>3 DEF Sound, Stored, ClaimedBy, Linked
    <3>2. \A d \in Collectors : <<k, d>> \in deletes' => <<k, d>> \in deletes BY <1>1
    <3>3. Linked(k) => k \in late /\ k \in hasty
      BY <2>1, <2>3, <3>1 DEF Sound, Journaled, Hurried
    <3>4. Stored(k)' BY <1>1, <2>1, <2>3, <3>1, <3>2, <3>3 DEF Sound, Stored, ClaimedBy, Safe
    <3>5. Uploading(k)' BY <1>1, <2>1, <2>3, <3>1 DEF Sound, Uploading, Hurried, Safe, Doomed
    <3>6. Claimed(k)' BY <1>1, <2>1, <2>3 DEF Sound, Claimed, ClaimedBy
    <3>7. Journaled(k)' /\ Hurried(k)' BY <1>1, <2>1, <2>3, <3>1 DEF Sound, Journaled, Hurried
    <3> QED BY <2>3, <3>4, <3>5, <3>6, <3>7 DEF Sound
  <2> QED BY <2>2, <2>3
<1>4. \A v \in Applications : status # "destroyed" => Working(v)' BY <1>1 DEF Working, KeysOf, StoreInv, Living
<1>5. \A d \in Collectors : status # "destroyed" => Visiting(d)' BY <1>1 DEF Visiting, StoreInv, Living
<1> QED BY <1>1, <1>2, <1>3, <1>4, <1>5
        DEF StoreInv, Living, Destroying, Doomed, DestroyedIsEmpty, OneCollector

LEMMA DeleteRowKeeps ==
  ASSUME StoreInv, NEW c \in Collectors, NEW k \in Keys, DeleteRow(c, k)
  PROVE  StoreInv'
<1>1. /\ k \in collector[c].at /\ <<k, c>> \notin deletes
      /\ journal' = (IF Mine(c, k) THEN [journal EXCEPT ![k] = NoRow] ELSE journal)
      /\ collector' = [collector EXCEPT ![c].pc = "visiting", ![c].at = {}]
      /\ UNCHANGED <<plan, saved, attached, progress, store, puts, deletes, status, listing, late, hasty, failures>>
  BY DEF DeleteRow, contents, closing, rushed
<1>2. StoreTypeOK /\ collector \in [Collectors -> Runs] /\ journal \in [Keys -> Rows]
  BY DEF StoreInv, StoreTypeOK, Runs
<1>3. /\ collector' \in [Collectors -> Runs] /\ collector'[c].at = {}
      /\ \A d \in Collectors : d # c => collector'[d] = collector[d]
  BY <1>1, <1>2 DEF Runs
<1>4. NoRow \in Rows /\ NoRow.state = "none" /\ NoRow.claim = Nothing BY DEF NoRow, Rows
<1>5. /\ journal' \in [Keys -> Rows] /\ \A j \in Keys : j # k => journal'[j] = journal[j]
      /\ Mine(c, k) => journal'[k].state = "none" /\ journal'[k].claim = Nothing
      /\ ~Mine(c, k) => journal'[k] = journal[k]
  BY <1>1, <1>2, <1>4
<1>6. StoreTypeOK' BY <1>1, <1>2, <1>3, <1>5 DEF StoreTypeOK, Runs
<1>7. ASSUME NEW j \in Keys, status # "destroyed" PROVE Sound(j)'
  <2>1. Sound(j) BY <1>7 DEF StoreInv, Living
  <2>2. CASE j # k
    <3>1. j \notin collector[c].at BY <1>1, <1>7, <2>2 DEF StoreInv, Living, Visiting
    <3>2. \A d \in Collectors : j \in collector'[d].at <=> j \in collector[d].at BY <1>3, <3>1
    <3>3. journal'[j] = journal[j] BY <1>5, <2>2
    <3> QED BY <1>1, <2>1, <3>2, <3>3, KeyStays, Zenon DEF Doomed
  <2>3. CASE j = k
    <3>1. /\ k \in hasty \/ ClaimedBy(k, c)
          /\ k \notin store \/ k \in late
          /\ Linked(k)' <=> Linked(k)
      BY <1>1, <2>1, <2>3 DEF Sound, Claimed, Linked
    <3>2. \/ Mine(c, k) /\ journal'[k].state = "none" /\ journal'[k].claim = Nothing
          \/ k \in hasty /\ journal'[k] = journal[k]
      BY <1>1, <1>5, <3>1 DEF ClaimedBy, Mine
    <3>3. \A d \in Collectors : k \in collector'[d].at => k \in collector[d].at /\ k \in hasty
      BY <1>1, <1>3 DEF StoreInv, OneCollector
    <3>8. \A d \in Collectors : <<k, d>> \in deletes => k \in hasty
      BY <1>1, <2>1, <2>3, <3>1 DEF Sound, Stored, ClaimedBy
    <3>4. Journaled(k)'
      <4>1. Journaled(k) BY <2>1, <2>3 DEF Sound
      <4>2. CASE journal'[k].state = "none" /\ journal'[k].claim = Nothing
        <5>1. progress' = progress /\ late' = late /\ hasty' = hasty /\ store' = store /\ puts' = puts BY <1>1
        <5> QED BY <3>1, <4>1, <4>2, <5>1 DEF Journaled
      <4>3. CASE journal'[k] = journal[k] BY <1>1, <3>1, <4>1, <4>3 DEF Journaled
      <4> QED BY <3>2, <4>2, <4>3
    <3>5. Uploading(k)'
      <4>1. Uploading(k) /\ Hurried(k) BY <2>1, <2>3 DEF Sound
      <4>2. UNCHANGED <<plan, progress, late, hasty, status, store, failures>> BY <1>1
      <4>3. progress[k[2]].pc = "writing" /\ k[1] \in plan.uploads[k[2]] => k \in late
        BY <3>1, <4>1 DEF Uploading, Hurried, ClaimedBy
      <4>4. CASE journal'[k].state = "none"
        BY <4>2, <4>3, <4>4 DEF Uploading
      <4>5. CASE k \in hasty /\ journal'[k] = journal[k]
        BY <4>1, <4>2, <4>5 DEF Uploading, Safe, Doomed
      <4> QED BY <3>2, <4>4, <4>5
    <3>6. Stored(k)' BY <1>1, <2>1, <2>3, <3>1, <3>2, <3>8 DEF Sound, Stored, Safe, Doomed
    <3>7. Claimed(k)' BY <1>1, <2>1, <2>3, <3>3 DEF Sound, Claimed
    <3>9. Hurried(k)' BY <1>1, <2>1, <2>3, <3>1 DEF Sound, Hurried
    <3> QED BY <2>3, <3>4, <3>5, <3>6, <3>7, <3>9 DEF Sound
  <2> QED BY <2>2, <2>3
<1>8. \A v \in Applications : status # "destroyed" => Working(v)' BY <1>1 DEF Working, KeysOf, StoreInv, Living
<1>9. \A d \in Collectors : status # "destroyed" => Visiting(d)' BY <1>1, <1>3 DEF Visiting, StoreInv, Living
<1> QED BY <1>1, <1>3, <1>6, <1>7, <1>8, <1>9
        DEF StoreInv, Living, Destroying, Doomed, DestroyedIsEmpty, OneCollector

LEMMA DeletionFailsKeeps ==
  ASSUME StoreInv, NEW c \in Collectors, NEW k \in Keys, NEW gone \in BOOLEAN, DeletionFails(c, k, gone)
  PROVE  StoreInv'
<1>1. /\ k \in collector[c].at /\ <<k, c>> \in deletes /\ Spend("fault")
      /\ deletes' = deletes \ {<<k, c>>} /\ store' = (IF gone THEN store \ {k} ELSE store)
      /\ journal' = (IF Mine(c, k) THEN [journal EXCEPT ![k].state = "pending", ![k].claim = Nothing]
                     ELSE journal)
      /\ collector' = [collector EXCEPT ![c] = Resting]
      /\ UNCHANGED <<plan, saved, attached, progress, puts, status, listing, late, hasty>>
  BY DEF DeletionFails, closing, rushed
<1>2. StoreTypeOK /\ collector \in [Collectors -> Runs] /\ journal \in [Keys -> Rows]
  BY DEF StoreInv, StoreTypeOK, Runs
<1>3. Resting \in Runs /\ Resting.at = {} BY DEF Runs, Resting
<1>4. /\ collector' \in [Collectors -> Runs] /\ collector'[c].at = {}
      /\ \A d \in Collectors : d # c => collector'[d] = collector[d]
  BY <1>1, <1>2, <1>3
<1>5. /\ journal' \in [Keys -> Rows] /\ \A j \in Keys : j # k => journal'[j] = journal[j]
      /\ Mine(c, k) => /\ journal'[k].state = "pending" /\ journal'[k].token = journal[k].token
                       /\ journal'[k].claim = Nothing
      /\ ~Mine(c, k) => journal'[k] = journal[k]
  BY <1>1, <1>2 DEF Rows
<1>6. failures' \in [Mishaps -> Nat] /\ failures'["fault"] > 0 BY <1>1, <1>2, SpendCounts DEF Mishaps
<1>7. StoreTypeOK' BY <1>1, <1>2, <1>4, <1>5, <1>6 DEF StoreTypeOK, Runs
<1>8. store' \subseteq store /\ \A j \in Keys : j # k => (j \in store' <=> j \in store) BY <1>1
<1>9. ASSUME NEW j \in Keys, status # "destroyed" PROVE Sound(j)'
  <2>1. Sound(j) BY <1>9 DEF StoreInv, Living
  <2>2. CASE j # k
    <3>1. j \notin collector[c].at BY <1>1, <1>9, <2>2 DEF StoreInv, Living, Visiting
    <3>2. \A d \in Collectors : j \in collector'[d].at <=> j \in collector[d].at BY <1>4, <3>1
    <3>3. /\ journal'[j] = journal[j] /\ (j \in store' <=> j \in store)
          /\ \A d \in Collectors : <<j, d>> \in deletes' <=> <<j, d>> \in deletes
      BY <1>1, <1>5, <1>8, <2>2
    <3> QED BY <1>1, <1>6, <2>1, <3>2, <3>3, KeyStays, Zenon DEF Doomed
  <2>3. CASE j = k
    <3>1. (k \in hasty \/ ClaimedBy(k, c)) /\ (Linked(k)' <=> Linked(k))
      BY <1>1, <2>1, <2>3 DEF Sound, Claimed, Linked
    <3>2. \/ /\ journal'[k].state = "pending" /\ journal'[k].token = journal[k].token
             /\ journal'[k].claim = Nothing /\ journal[k].state = "collecting"
          \/ k \in hasty /\ journal'[k] = journal[k]
      BY <1>1, <1>5, <2>1, <2>3, <3>1, StoreAssumption DEF ClaimedBy, Mine, Sound, Journaled
    <3>3. \A d \in Collectors : k \in collector'[d].at => d # c /\ k \in collector[d].at /\ k \in hasty
      BY <1>1, <1>4 DEF StoreInv, OneCollector
    <3>8. \A d \in Collectors : <<k, d>> \in deletes' => <<k, d>> \in deletes /\ k \in hasty
      BY <1>1, <2>1, <2>3, <3>1 DEF Sound, Stored, ClaimedBy
    <3>4. Journaled(k)' BY <1>1, <2>1, <2>3, <3>1, <3>2 DEF Sound, Journaled
    <3>5. Uploading(k)'
      BY <1>1, <1>6, <2>1, <2>3, <3>1, <3>2 DEF Sound, Uploading, Hurried, Safe, Doomed
    <3>6. Stored(k)'
      BY <1>1, <1>6, <1>8, <2>1, <2>3, <3>1, <3>2, <3>8 DEF Sound, Stored, Hurried, Safe, Doomed, Journaled
    <3>7. Claimed(k)' BY <1>1, <1>8, <2>1, <2>3, <3>3 DEF Sound, Claimed
    <3>9. Hurried(k)' BY <1>1, <2>1, <2>3, <3>1 DEF Sound, Hurried
    <3> QED BY <2>3, <3>4, <3>5, <3>6, <3>7, <3>9 DEF Sound
  <2> QED BY <2>2, <2>3
<1>10. \A v \in Applications : status # "destroyed" => Working(v)' BY <1>1 DEF Working, KeysOf, StoreInv, Living
<1>11. \A d \in Collectors : status # "destroyed" => Visiting(d)' BY <1>1, <1>4 DEF Visiting, StoreInv, Living
<1> QED BY <1>1, <1>4, <1>7, <1>8, <1>9, <1>10, <1>11
        DEF StoreInv, Living, Destroying, Doomed, DestroyedIsEmpty, OneCollector

\* An upload or a claim that is recovered is a pending orphan again.
LEMMA RequeueKeeps ==
  ASSUME StoreInv, NEW k \in Keys, Requeue(k),
         failures' \in [Mishaps -> Nat], failures["fault"] > 0 => failures'["fault"] > 0,
         \/ journal[k].state = "collecting" /\ ~Deleting(k) /\ late' = late /\ hasty' = hasty
         \/ journal[k].state = "collecting" /\ late' = late /\ hasty' = hasty \cup {k}
         \/ journal[k].state = "uploading" /\ ~Slow(k) /\ late' = late /\ hasty' = hasty
         \/ journal[k].state = "uploading" /\ late' = late \cup {k} /\ hasty' = hasty
  PROVE  StoreInv'
<1>1. /\ status = "open" /\ journal' = [journal EXCEPT ![k].state = "pending", ![k].claim = Nothing]
      /\ UNCHANGED <<plan, saved, attached, progress, collector, store, puts, deletes, status, listing>>
  BY DEF Requeue, contents, closing
<1>2. StoreTypeOK /\ journal \in [Keys -> Rows] BY DEF StoreInv, StoreTypeOK
<1>3. /\ journal' \in [Keys -> Rows] /\ \A j \in Keys : j # k => journal'[j] = journal[j]
      /\ journal'[k].state = "pending" /\ journal'[k].token = journal[k].token
      /\ journal'[k].claim = Nothing
  BY <1>1, <1>2 DEF Rows
<1>4. StoreTypeOK' BY <1>1, <1>2, <1>3 DEF StoreTypeOK
<1>5. \A j \in Keys : j # k => (j \in late' <=> j \in late) /\ (j \in hasty' <=> j \in hasty) OBVIOUS
<1>6. ASSUME NEW j \in Keys PROVE Sound(j)'
  <2>1. Sound(j) BY <1>1, <1>6 DEF StoreInv, Living
  <2>2. CASE j # k
    <3>1. journal'[j] = journal[j] /\ (j \in late' <=> j \in late) /\ (j \in hasty' <=> j \in hasty)
      BY <1>3, <1>5, <2>2
    <3> QED BY <1>1, <2>1, <3>1, KeyStays, Zenon DEF Doomed
  <2>3. CASE j = k
    <3>1. /\ ~Linked(k) /\ ~Linked(k)' /\ journal[k].state \in {"uploading", "collecting"}
          /\ late \subseteq late' /\ hasty \subseteq hasty'
      BY <1>1, <2>1, <2>3 DEF Sound, Journaled, Linked
    <3>2. \A c \in Collectors : <<k, c>> \in deletes \/ k \in collector[c].at => k \in hasty'
      BY <2>1, <2>3, <3>1 DEF Sound, Stored, Claimed, ClaimedBy, Deleting
    <3>3. progress[k[2]].pc = "writing" /\ k[1] \in plan.uploads[k[2]] => k \in late'
      BY <2>1, <2>3, <3>1 DEF Sound, Uploading, Slow, Running
    <3>4. Journaled(k)' BY <1>1, <1>3, <2>1, <2>3, <3>1 DEF Sound, Journaled
    <3>5. Uploading(k)'
      <4>1. ASSUME progress[k[2]].pc = "writing", ~Doomed, k[1] \in plan.uploads[k[2]] \ progress[k[2]].left
            PROVE  Safe(k)'
        <5>1. journal[k].state = "uploading" => Safe(k)' BY <2>1, <2>3, <3>1, <4>1, <1>1 DEF Sound, Uploading, Safe
        <5>2. journal[k].state = "collecting" => k \in hasty' BY <2>1, <2>3, <3>2, <4>1 DEF Sound, Uploading
        <5> QED BY <3>1, <3>3, <4>1, <5>1, <5>2 DEF Safe
      <4> QED BY <1>1, <1>3, <3>3, <4>1 DEF Uploading, Doomed
    <3>6. Stored(k)' BY <1>1, <1>3, <2>1, <2>3, <3>1, <3>2 DEF Sound, Stored
    <3>7. Claimed(k)' BY <1>1, <2>1, <2>3, <3>1, <3>2 DEF Sound, Claimed
    <3>8. Hurried(k)' BY <1>1, <3>1, <3>3 DEF Hurried
    <3> QED BY <2>3, <3>4, <3>5, <3>6, <3>7, <3>8 DEF Sound
  <2> QED BY <2>2, <2>3
<1>7. \A v \in Applications : Working(v)' BY <1>1 DEF Working, KeysOf, StoreInv, Living
<1>8. \A c \in Collectors : Visiting(c)' BY <1>1 DEF Visiting, StoreInv, Living
<1> QED BY <1>1, <1>4, <1>6, <1>7, <1>8 DEF StoreInv, Living, Destroying, Doomed, DestroyedIsEmpty, OneCollector

----------------------------------------------------------------------------
(* The store: closing and destroying *)

LEMMA DestroyKeeps ==
  ASSUME StoreInv, Destroy
  PROVE  StoreInv'
<1>1. StoreTypeOK BY DEF StoreInv
<1>2. ASSUME UNCHANGED <<database, progress, collector, contents, rushed, failures>>,
             status # "destroyed", Doomed => Doomed'
      PROVE  Living' /\ OneCollector'
  <2>1. UNCHANGED <<plan, saved, attached, journal, progress, collector, store, puts, deletes, late, hasty, failures>>
    BY <1>2 DEF database, contents, rushed
  <2>2. ASSUME NEW k \in Keys PROVE Sound(k)'
    <3>1. Sound(k) BY <1>2 DEF StoreInv, Living
    <3> QED BY <1>2, <2>1, <3>1, KeyStays, Zenon
  <2>3. \A v \in Applications : Working(v)' BY <1>2, <2>1 DEF Working, KeysOf, StoreInv, Living
  <2>4. \A c \in Collectors : Visiting(c)' BY <1>2, <2>1 DEF Visiting, StoreInv, Living
  <2> QED BY <2>1, <2>2, <2>3, <2>4 DEF Living, OneCollector, StoreInv
<1>3. CASE Close
  <2>1. Living' /\ OneCollector' BY <1>2, <1>3 DEF Close, Doomed
  <2>2. StoreTypeOK' BY <1>1, <1>3 DEF Close, StoreTypeOK, database, contents, rushed
  <2> QED BY <1>3, <2>1, <2>2 DEF Close, StoreInv, Destroying, Doomed, DestroyedIsEmpty, rushed, contents
<1>4. CASE BeginDestroy
  <2>1. Living' /\ OneCollector' BY <1>2, <1>4 DEF BeginDestroy, Doomed
  <2>2. StoreTypeOK' BY <1>1, <1>4 DEF BeginDestroy, StoreTypeOK, database, contents, rushed
  <2> QED BY <1>4, <2>1, <2>2
          DEF BeginDestroy, StoreSettled, StoreInv, Destroying, Doomed, DestroyedIsEmpty, contents, rushed
<1>5. ASSUME NEW keys \in SUBSET Keys, List(keys) PROVE StoreInv'
  <2>1. /\ status = "listing" /\ status' = (IF keys # store THEN "deleting" ELSE "last")
        /\ UNCHANGED <<database, progress, collector, contents, rushed, failures>> /\ listing' = keys
    BY <1>5 DEF List, Truncated
  <2>2. Living' /\ OneCollector' BY <1>2, <2>1 DEF Doomed
  <2>3. StoreTypeOK' BY <1>1, <2>1 DEF StoreTypeOK, database, contents, rushed
  <2> QED BY <2>1, <2>2, <2>3 DEF StoreInv, Destroying, Doomed, DestroyedIsEmpty, contents, rushed
<1>6. CASE DeletePage
  <2>1. /\ status = "deleting" /\ store' = store \ listing /\ listing' = {} /\ status' = "listing"
        /\ UNCHANGED <<plan, saved, attached, journal, progress, collector, puts, deletes, late, hasty, failures>>
    BY <1>6 DEF DeletePage, database, rushed
  <2>2. StoreTypeOK' BY <1>1, <2>1 DEF StoreTypeOK
  <2>3. ASSUME NEW k \in Keys PROVE Sound(k)'
    <3>1. Sound(k) /\ Doomed' /\ (Linked(k)' <=> Linked(k)) BY <2>1 DEF StoreInv, Living, Doomed, Linked
    <3> QED BY <2>1, <3>1 DEF Sound, Journaled, Uploading, Stored, Claimed, Hurried, ClaimedBy
  <2>4. \A v \in Applications : Working(v)' BY <2>1 DEF Working, KeysOf, StoreInv, Living
  <2>5. \A c \in Collectors : Visiting(c)' BY <2>1 DEF Visiting, StoreInv, Living
  <2> QED BY <2>1, <2>2, <2>3, <2>4, <2>5
          DEF StoreInv, Living, Destroying, Doomed, DestroyedIsEmpty, OneCollector
<1>7. CASE Wipe
  <2>1. /\ status = "last" /\ store' = store \ listing /\ listing' = {} /\ status' = "destroyed"
        /\ saved' = {} /\ attached' = [id \in Ids |-> Nothing] /\ journal' = [k \in Keys |-> NoRow]
        /\ UNCHANGED <<plan, progress, collector, puts, deletes, late, hasty, failures>>
    BY <1>7 DEF Wipe, rushed
  <2>2. NoRow \in Rows BY DEF NoRow, Rows
  <2>3. StoreTypeOK' BY <1>1, <2>1, <2>2 DEF StoreTypeOK
  <2> QED BY <2>1, <2>3 DEF StoreInv, Living, Destroying, Doomed, DestroyedIsEmpty, OneCollector
<1> QED BY <1>3, <1>4, <1>5, <1>6, <1>7 DEF Destroy

----------------------------------------------------------------------------
\* Every step of the specification keeps the invariant.
LEMMA StoreNextKeeps ==
  ASSUME StoreInv, [StoreNext]_storeVars
  PROVE  StoreInv'
<1>1. CASE Crash BY <1>1, CrashKeeps
<1>2. CASE Destroy BY <1>2, DestroyKeeps
<1>3. ASSUME NEW w \in Applications, ApplyAction(w) PROVE StoreInv'
  BY <1>3, MutateKeeps, RecordKeeps, PutBeginsKeeps, CommitActionKeeps, PublishFailsKeeps, CommitFailsKeeps
  DEF ApplyAction
<1>4. ASSUME NEW k \in Keys, Bytes(k) PROVE StoreInv'
  BY <1>4, PutLandsKeeps, PutFailsKeeps, DeleteLandsKeeps DEF Bytes
<1>5. ASSUME NEW k \in Keys, RecoverKey(k) PROVE StoreInv'
  <2>1. failures' \in [Mishaps -> Nat] BY <1>5 DEF RecoverKey, StoreInv, StoreTypeOK
  <2> QED BY <1>5, <2>1, RequeueKeeps DEF RecoverKey, rushed
<1>6. ASSUME NEW k \in Keys, RecoverEarly(k) PROVE StoreInv'
  <2>1. failures' \in [Mishaps -> Nat] /\ (failures["fault"] > 0 => failures'["fault"] > 0)
    BY <1>6, SpendCounts DEF RecoverEarly, Mishaps, StoreInv
  <2> QED BY <1>6, <2>1, RequeueKeeps DEF RecoverEarly
<1>7. ASSUME NEW c \in Collectors, CollectOrphans(c) PROVE StoreInv'
  BY <1>7, ScanKeeps, LeaveKeeps, VisitKeeps, DeleteRowKeeps, DeletionFailsKeeps DEF CollectOrphans
<1>8. CASE UNCHANGED storeVars
  <2>1. UNCHANGED <<plan, saved, attached, journal, progress, collector, store, puts, deletes, status, listing, late, hasty, failures>>
    BY <1>8 DEF storeVars, database, contents, closing, rushed
  <2>2. StoreTypeOK' BY <2>1 DEF StoreInv, StoreTypeOK
  <2>3. ASSUME NEW k \in Keys, status # "destroyed" PROVE Sound(k)'
    <3>1. Sound(k) BY <2>3 DEF StoreInv, Living
    <3> QED BY <2>1, <3>1, KeyStays, Zenon DEF Doomed
  <2>4. \A v \in Applications : status # "destroyed" => Working(v)' BY <2>1 DEF Working, KeysOf, StoreInv, Living
  <2>5. \A c \in Collectors : status # "destroyed" => Visiting(c)' BY <2>1 DEF Visiting, StoreInv, Living
  <2> QED BY <2>1, <2>2, <2>3, <2>4, <2>5
          DEF StoreInv, Living, Destroying, Doomed, DestroyedIsEmpty, OneCollector
<1> QED BY <1>1, <1>2, <1>3, <1>4, <1>5, <1>6, <1>7, <1>8 DEF StoreNext

\* What is linked, stored and journaled agrees in every state that is reached.
LEMMA StoreAgrees ==
  ASSUME StoreInv
  PROVE  StoreMatchesDatabase
<1>1. LinkedBytesStay BY DEF LinkedBytesStay, Doomed, StoreInv, Living, Sound, Stored, Safe
<1>2. BytesHaveOwner
  <2>1. store \subseteq Keys BY DEF StoreInv, StoreTypeOK
  <2> QED BY <2>1 DEF BytesHaveOwner, StoreInv, Living, Sound, Stored
<1> QED BY <1>1, <1>2 DEF StoreMatchesDatabase, StoreInv, Destroying

\* The rows of the database, the tasks of applications and collections and the requests at the byte
\* store keep their types; only tokens of uploads and replacements are ever listed as orphans.
THEOREM StoreTypeCorrect == StoreSpec => []StoreTypeOK
<1>1. StoreInit => StoreInv BY StoreInitEstablishes
<1>2. StoreInv /\ [StoreNext]_storeVars => StoreInv' BY StoreNextKeeps
<1>3. StoreInv => StoreTypeOK BY DEF StoreInv
<1> QED BY <1>1, <1>2, <1>3, PTL DEF StoreSpec

\* Bytes that a row links are in the store until the storage is destroyed, other bytes have a row in
\* the journal and one collection at most, and destruction leaves none, through any failures,
\* crashes and early recoveries.
THEOREM DatabaseIsMatched == StoreSpec => []StoreMatchesDatabase
<1>1. StoreInit => StoreInv BY StoreInitEstablishes
<1>2. StoreInv /\ [StoreNext]_storeVars => StoreInv' BY StoreNextKeeps
<1>3. StoreInv => StoreMatchesDatabase BY StoreAgrees
<1> QED BY <1>1, <1>2, <1>3, PTL DEF StoreSpec
==============================================================================
