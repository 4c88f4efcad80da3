---------------------------- MODULE ServicesProofs ----------------------------
(* Proofs about the service lanes, for any calls, services and uses, about coordination through a *)
(* shared worker, for any clients and requests, and about a persisted collection, for any contexts, *)
(* mutations, messages and sizes of the leader's memory. *)
EXTENDS ServiceLanes, SharedWorker, PersistedCollection, FiniteSetTheorems, TLAPS

\* Chains of calls: a call that was sent is in its own line, and a line holds the lines of
\* the calls in it.
Chains ==
  /\ \A i \in Calls : phase[i] = "new" => line[i] = {} /\ reply[i] = "none"
  /\ \A i \in Calls : phase[i] # "new" => i \in line[i] /\ service[i] \in Services
  /\ \A i \in Calls : \A k \in line[i] : phase[k] # "new" /\ line[k] \subseteq line[i]

\* A handler waits for the call it makes, so the calls under way in one chain are nested in
\* one another.
OneChain ==
  \A i, k \in Calls :
    /\ phase[i] # "new" /\ reply[i] = "none" /\ phase[k] # "new" /\ reply[k] = "none"
    /\ line[i] \cap line[k] # {}
    => InLine(i, k)

\* A handler that entered through the lane holds it; one that nobody aborted runs under
\* the call that holds it.
Holders ==
  /\ \A i \in Calls : phase[i] = "running" /\ ~Reentrant(i) => lane[service[i]] = i
  /\ \A i \in Calls : phase[i] = "running" /\ reply[i] = "none"
       => lane[service[i]] \in line[i]

Inv == TypeOK /\ Chains /\ OneChain /\ Holders

LEMMA InitHolds == Init => Inv
<1> SUFFICES ASSUME Init PROVE Inv
  OBVIOUS
<1>1. Types
  <2>1. closed \in BOOLEAN
    BY DEF Init
  <2>2. queue \in [Services -> Seq(Calls)] /\ accepted \in [Services -> Seq(Calls)]
    <3>1. <<>> \in Seq(Calls)
      OBVIOUS
    <3> QED  BY <3>1 DEF Init
  <2>3. /\ server \in [Services -> {"none", "serving", "closing"}]
        /\ serves \in [Services -> Nat]
        /\ lane \in [Services -> Calls \cup {None}]
    BY DEF Init
  <2>4. /\ phase \in [Calls -> {"new", "queued", "running", "ended"}]
        /\ service \in [Calls -> Services \cup {None}]
        /\ line \in [Calls -> SUBSET Calls]
        /\ reply \in [Calls -> {"none", "value", "error"}]
    BY DEF Init
  <2> QED  BY <2>1, <2>2, <2>3, <2>4 DEF Types
<1>4. LanesMatch
  BY DEF Init, LanesMatch
<1>5. ServersMatch
  BY DEF Init, ServersMatch
<1>2. QueuesMatch
  BY DEF Init, QueuesMatch
<1>3. Chains /\ OneChain /\ Holders
  BY DEF Init, Chains, OneChain, Holders
<1> QED  BY <1>1, <1>2, <1>3, <1>4, <1>5 DEF Inv, TypeOK

(***************************************************************************)
(* Typing, one action at a time.                                           *)
(***************************************************************************)

LEMMA ClosingTyped ==
  ASSUME TypeOK, NEW S \in SUBSET Services, ClosingAll(S),
         closed' \in BOOLEAN,
         closed' => \A s \in Services : s \notin S => server[s] # "serving"
  PROVE  TypeOK'
<1>1. reply' \in [Calls -> {"none", "value", "error"}]
  BY DEF ClosingAll, Rejected, TypeOK, Types
<1>2. server' \in [Services -> {"none", "serving", "closing"}]
      /\ phase' \in [Calls -> {"new", "queued", "running", "ended"}]
      /\ \A i \in Calls : phase[i] # "new" => phase'[i] # "new"
  BY DEF ClosingAll, TypeOK, Types
<1>3. queue' \in [Services -> Seq(Calls)]
      /\ \A s \in Services : queue'[s] \in {<<>>, queue[s]}
  BY DEF ClosingAll, TypeOK, Types
<1>4. Types'
  BY <1>1, <1>2, <1>3 DEF ClosingAll, TypeOK, Types
<1>5. QueuesMatch'
  BY <1>2, <1>3 DEF ClosingAll, TypeOK, Types, QueuesMatch
<1>6. LanesMatch' /\ ServersMatch'
  BY <1>2 DEF ClosingAll, TypeOK, Types, LanesMatch, ServersMatch
<1> QED  BY <1>4, <1>5, <1>6 DEF TypeOK

LEMMA HeadTyped ==
  ASSUME TypeOK, NEW s \in Services, queue[s] # <<>>
  PROVE  /\ Head(queue[s]) \in Calls
         /\ Tail(queue[s]) \in Seq(Calls)
         /\ service[Head(queue[s])] = s /\ phase[Head(queue[s])] # "new"
         /\ \A n \in 1..Len(Tail(queue[s])) :
              n + 1 \in 1..Len(queue[s]) /\ Tail(queue[s])[n] = queue[s][n + 1]
<1>1. queue[s] \in Seq(Calls)
  BY DEF TypeOK, Types
<1>2. 1 \in 1..Len(queue[s]) /\ Head(queue[s]) = queue[s][1]
  BY <1>1
<1> QED  BY <1>1, <1>2 DEF TypeOK, QueuesMatch

LEMMA DrainTyped ==
  ASSUME TypeOK, NEW s \in Services, Skip(s) \/ Start(s)
  PROVE  TypeOK'
<1> DEFINE i == Head(queue[s])
<1>1. /\ i \in Calls /\ service[i] = s /\ phase[i] # "new"
      /\ Tail(queue[s]) \in Seq(Calls)
      /\ \A n \in 1..Len(Tail(queue[s])) :
           n + 1 \in 1..Len(queue[s]) /\ Tail(queue[s])[n] = queue[s][n + 1]
  BY HeadTyped DEF Skip, Start, LaneReady
<1>2. /\ queue' = [queue EXCEPT ![s] = Tail(queue[s])]
      /\ lane' = lane \/ lane' = [lane EXCEPT ![s] = i]
      /\ phase' = [phase EXCEPT ![i] = "ended"] \/ phase' = [phase EXCEPT ![i] = "running"]
      /\ UNCHANGED <<closed, server, serves, service, line, reply, accepted>>
  BY DEF Skip, Start, registry
<1> HIDE DEF i
<1>3. /\ phase' \in [Calls -> {"new", "queued", "running", "ended"}]
      /\ \A k \in Calls : phase[k] # "new" => phase'[k] # "new"
      /\ phase'[i] # "new"
  BY <1>1, <1>2 DEF TypeOK, Types
<1>4. Types'
  <2>1. queue' \in [Services -> Seq(Calls)]
    BY <1>1, <1>2 DEF TypeOK, Types
  <2>2. lane' \in [Services -> Calls \cup {None}]
    BY <1>1, <1>2 DEF TypeOK, Types
  <2> QED  BY <1>2, <1>3, <2>1, <2>2 DEF TypeOK, Types
<1>5. QueuesMatch'
  <2> SUFFICES ASSUME NEW t \in Services, NEW n \in 1..Len(queue'[t])
               PROVE  service[queue'[t][n]] = t /\ phase'[queue'[t][n]] # "new"
    BY <1>2 DEF QueuesMatch
  <2>1. PICK m \in 1..Len(queue[t]) : queue'[t][n] = queue[t][m]
    <3>1. CASE t = s
      <4>1. queue'[t] = Tail(queue[s])
        BY <1>2, <3>1 DEF TypeOK, Types
      <4> QED  BY <4>1, <3>1, <1>1
    <3>2. CASE t # s
      BY <1>2, <3>2 DEF TypeOK, Types
    <3> QED  BY <3>1, <3>2
  <2>2. queue[t] \in Seq(Calls)
    BY DEF TypeOK, Types
  <2>3. queue[t][m] \in Calls /\ service[queue[t][m]] = t /\ phase[queue[t][m]] # "new"
    BY <2>2 DEF TypeOK, QueuesMatch
  <2> QED  BY <2>1, <2>3, <1>3
<1>6. LanesMatch'
  <2> SUFFICES ASSUME NEW t \in Services, lane'[t] # None
               PROVE  service[lane'[t]] = t /\ phase'[lane'[t]] # "new"
    BY <1>2 DEF LanesMatch
  <2>1. lane'[t] = lane[t] \/ (t = s /\ lane'[t] = i)
    <3>1. CASE lane' = lane
      BY <3>1
    <3>2. CASE lane' = [lane EXCEPT ![s] = i]
      BY <3>2 DEF TypeOK, Types
    <3> QED  BY <3>1, <3>2, <1>2
  <2>2. lane[t] # None => lane[t] \in Calls /\ service[lane[t]] = t /\ phase[lane[t]] # "new"
    BY DEF TypeOK, Types, LanesMatch
  <2> QED  BY <2>1, <2>2, <1>1, <1>3
<1>7. ServersMatch'
  BY <1>2 DEF TypeOK, ServersMatch
<1> QED  BY <1>4, <1>5, <1>6, <1>7 DEF TypeOK

LEMMA EndTyped ==
  ASSUME TypeOK, NEW i \in Calls, Return(i) \/ Cancel(i)
  PROVE  TypeOK'
<1>1. /\ reply' \in [Calls -> {"none", "value", "error"}]
      /\ phase' \in [Calls -> {"new", "queued", "running", "ended"}]
      /\ \A k \in Calls : phase[k] # "new" => phase'[k] # "new"
      /\ lane' \in [Services -> Calls \cup {None}]
      /\ \A s \in Services : lane'[s] \in {None, lane[s]}
  <2>1. CASE Return(i)
    <3>1. PICK r \in {"value", "error"} :
            reply' = [reply EXCEPT ![i] = IF reply[i] = "none" THEN r ELSE reply[i]]
      BY <2>1 DEF Return
    <3>2. reply' \in [Calls -> {"none", "value", "error"}]
      BY <3>1 DEF TypeOK, Types
    <3> QED  BY <2>1, <3>2 DEF Return, TypeOK, Types
  <2>2. CASE Cancel(i)
    BY <2>2 DEF Cancel, Rejected, TypeOK, Types
  <2> QED  BY <2>1, <2>2
<1>2. UNCHANGED <<closed, server, serves, queue, service, line, accepted>>
  BY DEF Return, Cancel, registry
<1>3. Types'
  BY <1>1, <1>2 DEF TypeOK, Types
<1>4. QueuesMatch'
  <2> SUFFICES ASSUME NEW t \in Services, NEW n \in 1..Len(queue[t])
               PROVE  service[queue[t][n]] = t /\ phase'[queue[t][n]] # "new"
    BY <1>2 DEF QueuesMatch
  <2>1. queue[t][n] \in Calls
    BY DEF TypeOK, Types
  <2> QED  BY <2>1, <1>1 DEF TypeOK, QueuesMatch
<1>5. LanesMatch' /\ ServersMatch'
  BY <1>1, <1>2 DEF TypeOK, Types, LanesMatch, ServersMatch
<1> QED  BY <1>3, <1>4, <1>5 DEF TypeOK

\* Sending a call i leaves every other call as it is.
LEMMA Sends ==
  ASSUME TypeOK, NEW i \in Calls, NEW s \in Services, NEW l \in SUBSET Calls,
         phase[i] = "new", Refuse(i, s, l) \/ Enqueue(i, s, l) \/ Reenter(i, s, l)
  PROVE  /\ phase'[i] # "new" /\ service'[i] = s /\ line'[i] = l \cup {i}
         /\ \A k \in Calls \ {i} : /\ phase'[k] = phase[k] /\ service'[k] = service[k]
                                   /\ line'[k] = line[k] /\ reply'[k] = reply[k]
         /\ phase'[i] = "running" => Reenter(i, s, l)
         /\ phase' \in [Calls -> {"new", "queued", "running", "ended"}]
         /\ service' \in [Calls -> Services \cup {None}]
         /\ line' \in [Calls -> SUBSET Calls]
         /\ reply' \in [Calls -> {"none", "value", "error"}]
         /\ UNCHANGED <<closed, server, serves, lane>>
         /\ queue' \in [Services -> Seq(Calls)] /\ accepted' \in [Services -> Seq(Calls)]
         /\ queue' = queue \/ queue' = [queue EXCEPT ![s] = Append(queue[s], i)]
<1>1. CASE Refuse(i, s, l)
  BY <1>1 DEF Refuse, Sent, registry, TypeOK, Types
<1>2. CASE Reenter(i, s, l)
  BY <1>2 DEF Reenter, Sent, registry, TypeOK, Types
<1>3. CASE Enqueue(i, s, l)
  BY <1>3 DEF Enqueue, Sent, registry, TypeOK, Types
<1> QED  BY <1>1, <1>2, <1>3

LEMMA SendTyped ==
  ASSUME TypeOK, NEW i \in Calls, NEW s \in Services, NEW l \in SUBSET Calls,
         phase[i] = "new", Refuse(i, s, l) \/ Enqueue(i, s, l) \/ Reenter(i, s, l)
  PROVE  TypeOK'
<1>1. Types'
  BY Sends DEF TypeOK, Types
<1>2. QueuesMatch'
  <2> SUFFICES ASSUME NEW t \in Services, NEW n \in 1..Len(queue'[t])
               PROVE  service'[queue'[t][n]] = t /\ phase'[queue'[t][n]] # "new"
    BY DEF QueuesMatch
  <2>1. queue[t] \in Seq(Calls)
    BY DEF TypeOK, Types
  <2>2. \/ n \in 1..Len(queue[t]) /\ queue'[t][n] = queue[t][n]
        \/ t = s /\ queue'[t][n] = i
    <3>1. queue'[t] = queue[t] \/ (t = s /\ queue'[t] = Append(queue[t], i))
      <4>1. CASE queue' = queue
        BY <4>1
      <4>2. CASE queue' = [queue EXCEPT ![s] = Append(queue[s], i)]
        BY <4>2 DEF TypeOK, Types
      <4> QED  BY <4>1, <4>2, Sends
    <3> QED  BY <2>1, <3>1
  <2>3. ASSUME n \in 1..Len(queue[t])
        PROVE  /\ queue[t][n] \in Calls \ {i}
               /\ service[queue[t][n]] = t /\ phase[queue[t][n]] # "new"
    BY <2>1, <2>3 DEF TypeOK, QueuesMatch
  <2> QED  BY <2>2, <2>3, Sends
<1>3. LanesMatch'
  <2> SUFFICES ASSUME NEW t \in Services, lane[t] # None
               PROVE  service'[lane[t]] = t /\ phase'[lane[t]] # "new"
    BY Sends DEF LanesMatch
  <2>1. lane[t] \in Calls \ {i} /\ service[lane[t]] = t /\ phase[lane[t]] # "new"
    BY DEF TypeOK, Types, LanesMatch
  <2> QED  BY <2>1, Sends
<1>4. ServersMatch'
  BY Sends DEF TypeOK, ServersMatch
<1> QED  BY <1>1, <1>2, <1>3, <1>4 DEF TypeOK

(***************************************************************************)
(* The lines of calls and the lane holders.                                *)
(***************************************************************************)

\* Steps that start no handler, send no call and free no lane; results may settle and
\* waiting calls be dropped.
LEMMA Settles ==
  ASSUME Inv, UNCHANGED <<line, service, lane>>,
         \A i \in Calls : (phase'[i] = "new") <=> (phase[i] = "new"),
         \A i \in Calls : phase'[i] = "running" => phase[i] = "running",
         \A i \in Calls : reply'[i] = "none" => reply[i] = "none",
         \A i \in Calls : phase[i] = "new" => reply'[i] = reply[i]
  PROVE  Chains' /\ OneChain' /\ Holders'
<1>1. Chains'
  BY DEF Inv, Chains, TypeOK, Types
<1>2. OneChain'
  BY DEF Inv, OneChain, InLine
<1>3. Holders'
  BY DEF Inv, Holders, Reentrant
<1> QED  BY <1>1, <1>2, <1>3

LEMMA RegistrySteps ==
  ASSUME Inv,
         CloseHost \/ \E s \in Services : Serve(s) \/ CloseServer(s) \/ Unregister(s) \/ Skip(s)
  PROVE  Inv'
<1>1. CASE \E s \in Services : Serve(s) \/ Unregister(s)
  <2>2. UNCHANGED <<closed, queue, lane, phase, service, line, reply, accepted>>
    BY <1>1 DEF Serve, Unregister
  <2>3. /\ server' \in [Services -> {"none", "serving", "closing"}]
        /\ serves' \in [Services -> Nat]
    <3>1. CASE \E s \in Services : Serve(s)
      BY <3>1 DEF Serve, Inv, TypeOK, Types
    <3>2. CASE \E s \in Services : Unregister(s)
      BY <3>2 DEF Unregister, Inv, TypeOK, Types
    <3> QED  BY <1>1, <3>1, <3>2
  <2>4. ServersMatch'
    BY <1>1 DEF Serve, Unregister, Inv, TypeOK, Types, ServersMatch
  <2>5. Types'
    BY <2>2, <2>3 DEF Inv, TypeOK, Types
  <2>6. QueuesMatch' /\ LanesMatch'
    BY <2>2 DEF Inv, TypeOK, QueuesMatch, LanesMatch
  <2>1. TypeOK'
    BY <2>4, <2>5, <2>6 DEF TypeOK
  <2> QED  BY <2>1, <2>2, Settles DEF Inv
<1>2. ASSUME NEW S \in SUBSET Services, ClosingAll(S)
      PROVE  Chains' /\ OneChain' /\ Holders'
  <2>1. \A i \in Calls : \A k \in line[i] : phase[i] # "new"
    BY DEF Inv, Chains
  <2>2. /\ \A i \in Calls : (phase'[i] = "new") <=> (phase[i] = "new")
        /\ \A i \in Calls : phase'[i] = "running" => phase[i] = "running"
        /\ \A i \in Calls : reply'[i] = "none" => reply[i] = "none"
        /\ \A i \in Calls : phase[i] = "new" => reply'[i] = reply[i]
    BY <1>2, <2>1 DEF ClosingAll, Rejected, Inv, TypeOK, Types
  <2> QED  BY <1>2, <2>2, Settles DEF ClosingAll
<1>3. ASSUME NEW s \in Services, CloseServer(s)
      PROVE  Inv'
  <2>1. TypeOK'
    BY <1>3, ClosingTyped DEF CloseServer, Inv, TypeOK, Types, ServersMatch
  <2> QED  BY <2>1, <1>3, <1>2 DEF CloseServer, Inv
<1>4. CASE CloseHost
  <2> DEFINE S == {s \in Services : server[s] = "serving"}
  <2>1. S \in SUBSET Services /\ ClosingAll(S)
        /\ \A s \in Services : s \notin S => server[s] # "serving"
    BY <1>4 DEF CloseHost
  <2>2. closed' \in BOOLEAN
    BY <1>4 DEF CloseHost
  <2> HIDE DEF S
  <2>3. TypeOK'
    BY <2>1, <2>2, ClosingTyped DEF Inv
  <2> QED  BY <2>1, <2>3, <1>2 DEF Inv
<1>5. ASSUME NEW s \in Services, Skip(s)
      PROVE  Inv'
  <2>1. TypeOK'
    BY <1>5, DrainTyped DEF Inv
  <2>2. Head(queue[s]) \in Calls /\ phase[Head(queue[s])] # "new"
    BY <1>5, HeadTyped DEF Skip, LaneReady, Inv
  <2>3. /\ UNCHANGED <<line, service, lane, reply>>
        /\ \A i \in Calls : (phase'[i] = "new") <=> (phase[i] = "new")
        /\ \A i \in Calls : phase'[i] = "running" => phase[i] = "running"
    BY <1>5, <2>2 DEF Skip, Inv, TypeOK, Types
  <2>4. /\ \A i \in Calls : reply'[i] = "none" => reply[i] = "none"
        /\ \A i \in Calls : phase[i] = "new" => reply'[i] = reply[i]
        /\ UNCHANGED <<line, service, lane>>
    BY <2>3
  <2>5. Chains' /\ OneChain' /\ Holders'
    BY <2>3, <2>4, Settles
  <2> QED  BY <2>1, <2>5 DEF Inv
<1> QED  BY <1>1, <1>3, <1>4, <1>5

LEMMA CancelStep ==
  ASSUME Inv, NEW i \in Calls, Cancel(i)
  PROVE  Inv'
<1>1. TypeOK'
  BY EndTyped DEF Inv
<1>2. /\ UNCHANGED <<line, service, lane, phase>>
      /\ \A k \in Calls : reply'[k] = "none" => reply[k] = "none"
      /\ \A k \in Calls : phase[k] = "new" => reply'[k] = reply[k]
  BY DEF Cancel, Rejected, Inv, Chains, TypeOK, Types
<1>3. /\ UNCHANGED <<line, service, lane>>
      /\ \A k \in Calls : (phase'[k] = "new") <=> (phase[k] = "new")
      /\ \A k \in Calls : phase'[k] = "running" => phase[k] = "running"
  BY <1>2
<1>4. Chains' /\ OneChain' /\ Holders'
  BY <1>2, <1>3, Settles
<1> QED  BY <1>1, <1>4 DEF Inv

LEMMA ReturnStep ==
  ASSUME Inv, NEW i \in Calls, Return(i)
  PROVE  Inv'
<1>1. TypeOK'
  BY EndTyped DEF Inv
<1>2. PICK r \in {"value", "error"} :
        reply' = [reply EXCEPT ![i] = IF reply[i] = "none" THEN r ELSE reply[i]]
  BY DEF Return
<1>3. /\ UNCHANGED <<line, service>>
      /\ phase'[i] = "ended" /\ \A k \in Calls \ {i} : phase'[k] = phase[k]
      /\ reply'[i] # "none" /\ \A k \in Calls \ {i} : reply'[k] = reply[k]
      /\ \A s \in Services : lane'[s] = IF lane[s] = i THEN None ELSE lane[s]
      /\ phase[i] = "running"
      /\ \A k \in Calls \ {i} : i \in line[k] => reply[k] # "none"
  BY <1>2 DEF Return, Awaits, Inv, TypeOK, Types
<1>4. Chains'
  <2>1. \A k \in Calls : phase'[k] = "new" <=> phase[k] = "new"
    BY <1>3
  <2>2. \A k \in Calls : \A m \in line[k] : phase'[m] # "new" /\ line[m] \subseteq line[k]
    BY <2>1 DEF Inv, Chains, TypeOK, Types
  <2>3. \A k \in Calls : phase[k] = "new" => line[k] = {} /\ reply'[k] = "none"
    BY <1>3 DEF Inv, Chains
  <2> QED  BY <1>3, <2>1, <2>2, <2>3 DEF Inv, Chains
<1>5. OneChain'
  BY <1>3 DEF Inv, OneChain, InLine
<1>6. Holders'
  <2>1. ASSUME NEW k \in Calls \ {i}, phase[k] = "running",
               ~Reentrant(k) \/ reply[k] = "none"
        PROVE  lane'[service[k]] = lane[service[k]]
    <3>1. service[k] \in Services
      BY <2>1 DEF Inv, Chains
    <3>2. lane[service[k]] # i
      BY <2>1, <1>3 DEF Inv, Holders
    <3> QED  BY <3>1, <3>2, <1>3
  <2>2. \A k \in Calls : Reentrant(k)' <=> Reentrant(k)
    BY <1>3 DEF Reentrant
  <2> QED  BY <1>3, <2>1, <2>2 DEF Inv, Holders
<1> QED  BY <1>1, <1>4, <1>5, <1>6 DEF Inv

LEMMA StartStep ==
  ASSUME Inv, NEW s \in Services, Start(s)
  PROVE  Inv'
<1> DEFINE i == Head(queue[s])
<1>1. TypeOK'
  BY DrainTyped DEF Inv
<1>2. i \in Calls /\ phase[i] # "new" /\ service[i] = s
  BY HeadTyped DEF Start, LaneReady, Inv
<1>3. /\ UNCHANGED <<line, service, reply>>
      /\ phase' = [phase EXCEPT ![i] = "running"] /\ lane' = [lane EXCEPT ![s] = i]
      /\ lane[s] = None
  BY DEF Start, LaneReady
<1> HIDE DEF i
<1>4. /\ phase'[i] = "running" /\ lane'[s] = i
      /\ \A k \in Calls \ {i} : phase'[k] = phase[k]
      /\ \A t \in Services \ {s} : lane'[t] = lane[t]
  BY <1>2, <1>3 DEF Inv, TypeOK, Types
<1>5. Chains'
  BY <1>2, <1>3, <1>4 DEF Inv, Chains, TypeOK, Types
<1>6. OneChain'
  BY <1>2, <1>3, <1>4 DEF Inv, OneChain, InLine
<1>7. Holders'
  <2>1. ASSUME NEW k \in Calls \ {i}, phase[k] = "running",
               ~Reentrant(k) \/ reply[k] = "none"
        PROVE  lane'[service[k]] = lane[service[k]]
    <3>1. service[k] \in Services
      BY <2>1 DEF Inv, Chains
    <3>2. k # None /\ None \notin line[k]
      BY NoneAssumption DEF Inv, TypeOK, Types
    <3>3. lane[service[k]] # None
      BY <2>1, <3>2 DEF Inv, Holders
    <3> QED  BY <3>1, <3>3, <1>3, <1>4
  <2>2. \A k \in Calls : Reentrant(k)' <=> Reentrant(k)
    BY <1>3 DEF Reentrant
  <2>3. i \in line[i]
    BY <1>2 DEF Inv, Chains
  <2>4. lane'[service[i]] = i
    BY <1>2, <1>4
  <2>5. ASSUME NEW k \in Calls, phase'[k] = "running", ~Reentrant(k)
        PROVE  lane'[service[k]] = k
    BY <2>1, <2>4, <2>5, <1>4 DEF Inv, Holders
  <2>6. ASSUME NEW k \in Calls, phase'[k] = "running", reply[k] = "none"
        PROVE  lane'[service[k]] \in line[k]
    BY <2>1, <2>3, <2>4, <2>6, <1>4 DEF Inv, Holders
  <2> QED  BY <1>3, <2>2, <2>5, <2>6 DEF Holders
<1> QED  BY <1>1, <1>5, <1>6, <1>7 DEF Inv

LEMMA SendStep ==
  ASSUME Inv, NEW i \in Calls, NEW s \in Services, NEW l \in SUBSET Calls, phase[i] = "new",
         Refuse(i, s, l) \/ Enqueue(i, s, l) \/ Reenter(i, s, l),
         \A k \in l : phase[k] # "new" /\ line[k] \subseteq l,
         \* if i can settle later, the calls under way that share a call with l lie on it
         reply'[i] = "none" =>
           \A k \in Calls : /\ phase[k] # "new" /\ reply[k] = "none"
                            /\ line[k] \cap l # {}
                            => k \in l,
         Reenter(i, s, l) => \E p \in l : service[p] = s /\ lane[s] \in l
  PROVE  Inv'
<1>1. TypeOK'
  BY SendTyped DEF Inv
<1>2. /\ phase'[i] # "new" /\ service'[i] = s /\ line'[i] = l \cup {i}
      /\ \A k \in Calls \ {i} : /\ phase'[k] = phase[k] /\ service'[k] = service[k]
                                /\ line'[k] = line[k] /\ reply'[k] = reply[k]
      /\ phase'[i] = "running" => Reenter(i, s, l)
      /\ lane' = lane
  BY Sends DEF Inv
<1>3. i \notin l /\ \A k \in Calls \ {i} : i \notin line[k]
  BY DEF Inv, Chains, TypeOK, Types
<1>4. Chains'
  <2>1. \A k \in Calls \ {i} : line[k] \subseteq Calls \ {i}
    BY <1>3 DEF Inv, TypeOK, Types
  <2>2. ASSUME NEW k \in Calls, NEW m \in line'[k]
        PROVE  phase'[m] # "new" /\ line'[m] \subseteq line'[k]
    BY <1>2, <1>3, <2>1, <2>2 DEF Inv, Chains
  <2>3. \A k \in Calls : phase'[k] # "new" => k \in line'[k] /\ service'[k] \in Services
    BY <1>2 DEF Inv, Chains
  <2>4. \A k \in Calls : phase'[k] = "new" => line'[k] = {} /\ reply'[k] = "none"
    BY <1>2 DEF Inv, Chains
  <2> QED  BY <2>2, <2>3, <2>4 DEF Chains
<1>5. OneChain'
  <2>1. ASSUME NEW k \in Calls \ {i}, phase[k] # "new", reply[k] = "none",
               reply'[i] = "none", line[k] \cap line'[i] # {}
        PROVE  k \in line'[i]
    BY <2>1, <1>2, <1>3
  <2> QED  BY <2>1, <1>2 DEF Inv, OneChain, InLine
<1>6. Holders'
  <2>1. \A k \in Calls \ {i} : Reentrant(k)' <=> Reentrant(k)
    <3> SUFFICES ASSUME NEW k \in Calls \ {i}
                 PROVE  Reentrant(k)' <=> Reentrant(k)
      OBVIOUS
    <3>1. \A m \in line[k] : service'[m] = service[m]
      BY <1>2, <1>3 DEF Inv, TypeOK, Types
    <3> QED  BY <3>1, <1>2 DEF Reentrant
  <2>2. phase'[i] = "running" => Reentrant(i)' /\ lane'[service'[i]] \in line'[i]
    <3>1. \A p \in l : p # i /\ service'[p] = service[p]
      BY <1>2, <1>3
    <3> QED  BY <3>1, <1>2 DEF Reentrant
  <2> QED  BY <1>2, <2>1, <2>2 DEF Inv, Holders
<1> QED  BY <1>1, <1>4, <1>5, <1>6 DEF Inv

LEMMA RequestStep ==
  ASSUME Inv, NEW i \in Calls, NEW s \in Services, Request(i, s)
  PROVE  Inv'
<1>1. phase[i] = "new" /\ (Refuse(i, s, {}) \/ Enqueue(i, s, {}))
  BY DEF Request
<1>2. ~Reenter(i, s, {})
  BY <1>1 DEF Refuse, Enqueue, Reenter, Sent, Inv, TypeOK, Types
<1> QED  BY <1>1, <1>2, SendStep

LEMMA NestStep ==
  ASSUME Inv, NEW p \in Calls, NEW i \in Calls, NEW s \in Services, Nest(p, i, s)
  PROVE  Inv'
<1> DEFINE l == line[p]
<1>1. /\ phase[p] = "running" /\ ~Awaits(p) /\ phase[i] = "new"
      /\ Refuse(i, s, l) \/ Enqueue(i, s, l) \/ Reenter(i, s, l)
  BY DEF Nest
<1>2. l \in SUBSET Calls /\ p \in l /\ \A k \in l : phase[k] # "new" /\ line[k] \subseteq l
  BY <1>1 DEF Inv, Chains, TypeOK, Types
<1>3. ASSUME reply'[i] = "none"
      PROVE  reply[p] = "none"
  BY <1>3, <1>1 DEF Nest, Refuse, Inv, TypeOK, Types
<1>4. ASSUME reply'[i] = "none",
             NEW k \in Calls, phase[k] # "new", reply[k] = "none", line[k] \cap l # {}
      PROVE  k \in l
  <2>1. InLine(p, k)
    BY <1>1, <1>3, <1>4 DEF Inv, OneChain
  <2> QED  BY <2>1, <1>1, <1>2, <1>4 DEF InLine, Awaits
<1>5. ASSUME Reenter(i, s, l)
      PROVE  \E q \in l : service[q] = s /\ lane[s] \in l
  <2>1. reply[p] = "none" /\ service[p] = s
    BY <1>1, <1>5 DEF Nest, Refuse, Enqueue, Reenter, Sent, Inv, TypeOK, Types
  <2> QED  BY <2>1, <1>1, <1>2 DEF Inv, Holders
<1> QED  BY <1>1, <1>2, <1>4, <1>5, SendStep

(***************************************************************************)
(* The order of the lanes.                                                 *)
(***************************************************************************)

\* What a lane accepted and no longer queues.
HaveGone(s) == Len(accepted[s]) - Len(queue[s])

\* The queue of s is the rest of what it accepted, which it accepted once; exactly the calls
\* of the rest wait.
Logged(s) ==
  /\ Len(queue[s]) <= Len(accepted[s])
  /\ \A n \in 1..Len(queue[s]) : queue[s][n] = accepted[s][HaveGone(s) + n]
  /\ \A n \in 1..Len(accepted[s]) :
       /\ service[accepted[s][n]] = s /\ phase[accepted[s][n]] # "new"
       /\ phase[accepted[s][n]] = "queued" <=> n > HaveGone(s)
  /\ \A n, m \in 1..Len(accepted[s]) : accepted[s][n] = accepted[s][m] => n = m

\* The call in a lane runs, and a lane without a server is empty.
Occupied ==
  \A s \in Services :
    /\ lane[s] # None => phase[lane[s]] = "running"
    /\ server[s] = "none" => lane[s] = None

\* A call that waits has no value, and its own service is none of those it was called from.
Waiting ==
  \A i \in Calls : phase[i] = "queued" =>
    reply[i] # "value" /\ \A k \in line[i] \ {i} : service[k] # service[i]

Order == (\A s \in Services : Logged(s)) /\ Occupied /\ Waiting

\* The calls of the log of s are calls that were sent to s.
LEMMA LogTyped ==
  ASSUME Inv, NEW s \in Services, Logged(s)
  PROVE  /\ queue[s] \in Seq(Calls) /\ accepted[s] \in Seq(Calls)
         /\ Len(queue[s]) \in Nat /\ Len(accepted[s]) \in Nat /\ HaveGone(s) \in Nat
         /\ \A n \in 1..Len(accepted[s]) : accepted[s][n] \in Calls
  BY DEF Inv, TypeOK, Types, Logged, HaveGone

LEMMA LogStands ==
  ASSUME Inv, NEW s \in Services, Logged(s),
         queue'[s] = queue[s], accepted'[s] = accepted[s],
         \A i \in Calls : service[i] = s /\ phase[i] # "new" =>
           /\ service'[i] = s /\ phase'[i] # "new"
           /\ (phase'[i] = "queued") <=> (phase[i] = "queued")
  PROVE  Logged(s)'
<1>1. \A n \in 1..Len(accepted[s]) : accepted[s][n] \in Calls
  BY LogTyped
<1>2. HaveGone(s)' = HaveGone(s)
  BY DEF HaveGone
<1>3. ASSUME NEW n \in 1..Len(accepted[s])
      PROVE  /\ service'[accepted[s][n]] = s /\ phase'[accepted[s][n]] # "new"
             /\ (phase'[accepted[s][n]] = "queued") <=> (n > HaveGone(s))
  <2>1. /\ service[accepted[s][n]] = s /\ phase[accepted[s][n]] # "new"
        /\ (phase[accepted[s][n]] = "queued") <=> (n > HaveGone(s))
    BY DEF Logged
  <2> QED  BY <1>1, <2>1
<1> QED  BY <1>2, <1>3 DEF Logged

\* The drain takes the head of the queue, which no longer waits.
LEMMA LogTaken ==
  ASSUME Inv, NEW s \in Services, Logged(s), queue[s] # <<>>,
         queue'[s] = Tail(queue[s]), UNCHANGED <<accepted, service>>,
         \A i \in Calls \ {Head(queue[s])} : phase'[i] = phase[i],
         phase'[Head(queue[s])] \in {"running", "ended"}
  PROVE  Logged(s)'
<1> DEFINE i == Head(queue[s])
<1>1. /\ queue[s] \in Seq(Calls) /\ accepted[s] \in Seq(Calls)
      /\ Len(queue[s]) \in Nat /\ Len(accepted[s]) \in Nat /\ HaveGone(s) \in Nat
      /\ \A n \in 1..Len(accepted[s]) : accepted[s][n] \in Calls
  BY LogTyped
<1>2. /\ Len(queue[s]) # 0 /\ Len(Tail(queue[s])) = Len(queue[s]) - 1
      /\ \A n \in 1..Len(Tail(queue[s])) : Tail(queue[s])[n] = queue[s][n + 1]
      /\ i = queue[s][1]
  BY <1>1
<1>3. HaveGone(s)' = HaveGone(s) + 1
  <2>1. Len(queue'[s]) = Len(queue[s]) - 1 /\ accepted' = accepted
    BY <1>2
  <2>2. HaveGone(s)' = Len(accepted[s]) - (Len(queue[s]) - 1)
    BY <2>1 DEF HaveGone
  <2>3. HaveGone(s) = Len(accepted[s]) - Len(queue[s])
    BY DEF HaveGone
  <2> QED  BY <2>2, <2>3, <1>1
<1>4. i = accepted[s][HaveGone(s) + 1] /\ HaveGone(s) + 1 \in 1..Len(accepted[s])
  <2>1. 1 \in 1..Len(queue[s]) /\ HaveGone(s) = Len(accepted[s]) - Len(queue[s])
    BY <1>1, <1>2 DEF HaveGone
  <2>2. queue[s][1] = accepted[s][HaveGone(s) + 1]
    BY <2>1 DEF Logged
  <2>3. HaveGone(s) + 1 \in 1..Len(accepted[s])
    <3>1. \A q, a, g \in Nat : q # 0 /\ g = a - q => g + 1 \in 1..a
      OBVIOUS
    <3> QED  BY <3>1, <2>1, <1>1, <1>2
  <2> QED  BY <2>2, <2>3, <1>2
<1>5. ASSUME NEW n \in 1..Len(Tail(queue[s]))
      PROVE  Tail(queue[s])[n] = accepted[s][HaveGone(s) + 1 + n]
  <2>1. n + 1 \in 1..Len(queue[s])
    BY <1>1, <1>2
  <2>2. queue[s][n + 1] = accepted[s][HaveGone(s) + (n + 1)]
    BY <2>1 DEF Logged
  <2>3. HaveGone(s) + (n + 1) = HaveGone(s) + 1 + n
    BY <1>1
  <2> QED  BY <2>2, <2>3, <1>2
<1>6. ASSUME NEW n \in 1..Len(accepted[s])
      PROVE  /\ service[accepted[s][n]] = s /\ phase'[accepted[s][n]] # "new"
             /\ (phase'[accepted[s][n]] = "queued") <=> (n > HaveGone(s) + 1)
  <2>1. /\ service[accepted[s][n]] = s /\ phase[accepted[s][n]] # "new"
        /\ (phase[accepted[s][n]] = "queued") <=> (n > HaveGone(s))
    BY DEF Logged
  <2>2. CASE n = HaveGone(s) + 1
    BY <2>1, <2>2, <1>1, <1>4
  <2>3. CASE n # HaveGone(s) + 1
    <3>1. accepted[s][n] # i
      BY <2>3, <1>4 DEF Logged
    <3> QED  BY <2>1, <2>3, <3>1, <1>1
  <2> QED  BY <2>2, <2>3
<1> QED  BY <1>1, <1>2, <1>3, <1>5, <1>6 DEF Logged

\* A closing server drops its queue, and none of its calls waits any longer.
LEMMA LogDropped ==
  ASSUME Inv, NEW s \in Services, Logged(s),
         queue'[s] = <<>>, UNCHANGED <<accepted, service>>,
         \A i \in Calls : phase[i] # "new" => phase'[i] # "new",
         \A i \in Calls : service[i] = s => phase'[i] # "queued"
  PROVE  Logged(s)'
<1>1. /\ accepted[s] \in Seq(Calls) /\ Len(accepted[s]) \in Nat
      /\ \A n \in 1..Len(accepted[s]) : accepted[s][n] \in Calls
  BY LogTyped
<1>2. HaveGone(s)' = Len(accepted[s])
  BY <1>1 DEF HaveGone
<1>3. ASSUME NEW n \in 1..Len(accepted[s])
      PROVE  /\ service[accepted[s][n]] = s /\ phase'[accepted[s][n]] # "new"
             /\ phase'[accepted[s][n]] # "queued"
  BY <1>1 DEF Logged
<1> QED  BY <1>1, <1>2, <1>3 DEF Logged

\* A new call is accepted and waits behind all others.
LEMMA LogGrows ==
  ASSUME Inv, NEW s \in Services, Logged(s), NEW i \in Calls, phase[i] = "new",
         queue'[s] = Append(queue[s], i), accepted'[s] = Append(accepted[s], i),
         \A k \in Calls \ {i} : phase'[k] = phase[k] /\ service'[k] = service[k],
         phase'[i] = "queued", service'[i] = s
  PROVE  Logged(s)'
<1>1. /\ queue[s] \in Seq(Calls) /\ accepted[s] \in Seq(Calls)
      /\ Len(queue[s]) \in Nat /\ Len(accepted[s]) \in Nat /\ HaveGone(s) \in Nat
      /\ \A n \in 1..Len(accepted[s]) : accepted[s][n] \in Calls
  BY LogTyped
<1>2. /\ Len(queue'[s]) = Len(queue[s]) + 1 /\ Len(accepted'[s]) = Len(accepted[s]) + 1
      /\ \A n \in 1..Len(queue[s]) : queue'[s][n] = queue[s][n]
      /\ \A n \in 1..Len(accepted[s]) : accepted'[s][n] = accepted[s][n]
      /\ queue'[s][Len(queue[s]) + 1] = i /\ accepted'[s][Len(accepted[s]) + 1] = i
  BY <1>1
<1>3. HaveGone(s)' = HaveGone(s) /\ HaveGone(s) + Len(queue[s]) = Len(accepted[s])
  BY <1>1, <1>2 DEF HaveGone
<1>4. Len(queue'[s]) <= Len(accepted'[s])
  BY <1>1, <1>2 DEF Logged
<1>5. ASSUME NEW n \in 1..Len(queue'[s])
      PROVE  queue'[s][n] = accepted'[s][HaveGone(s) + n]
  <2>1. CASE n = Len(queue[s]) + 1
    <3>1. HaveGone(s) + n = Len(accepted[s]) + 1
      BY <2>1, <1>1, <1>3
    <3> QED  BY <2>1, <3>1, <1>2
  <2>2. CASE n \in 1..Len(queue[s])
    <3>1. HaveGone(s) + n \in 1..Len(accepted[s]) /\ queue[s][n] = accepted[s][HaveGone(s) + n]
      BY <2>2, <1>1, <1>3 DEF Logged
    <3> QED  BY <2>2, <3>1, <1>2
  <2>3. n = Len(queue[s]) + 1 \/ n \in 1..Len(queue[s])
    BY <1>1, <1>2
  <2> QED  BY <2>1, <2>2, <2>3
<1>6. ASSUME NEW n \in 1..Len(accepted[s])
      PROVE  /\ accepted[s][n] \in Calls \ {i}
             /\ service'[accepted[s][n]] = s /\ phase'[accepted[s][n]] # "new"
             /\ (phase'[accepted[s][n]] = "queued") <=> (n > HaveGone(s))
  <2>1. accepted[s][n] \in Calls \ {i}
    BY <1>1 DEF Logged
  <2>2. /\ service[accepted[s][n]] = s /\ phase[accepted[s][n]] # "new"
        /\ (phase[accepted[s][n]] = "queued") <=> (n > HaveGone(s))
    BY DEF Logged
  <2> QED  BY <2>1, <2>2
<1>7. ASSUME NEW n \in 1..Len(accepted'[s])
      PROVE  /\ service'[accepted'[s][n]] = s /\ phase'[accepted'[s][n]] # "new"
             /\ (phase'[accepted'[s][n]] = "queued") <=> (n > HaveGone(s))
  <2>1. CASE n = Len(accepted[s]) + 1
    <3>1. n > HaveGone(s)
      BY <2>1, <1>1, <1>3
    <3> QED  BY <2>1, <3>1, <1>2
  <2>2. CASE n \in 1..Len(accepted[s])
    BY <2>2, <1>2, <1>6
  <2> QED  BY <2>1, <2>2, <1>1, <1>2
<1>8. ASSUME NEW n \in 1..Len(accepted'[s]), NEW m \in 1..Len(accepted'[s]),
             accepted'[s][n] = accepted'[s][m]
      PROVE  n = m
  <2>1. n = Len(accepted[s]) + 1 \/ n \in 1..Len(accepted[s])
    BY <1>1, <1>2
  <2>2. m = Len(accepted[s]) + 1 \/ m \in 1..Len(accepted[s])
    BY <1>1, <1>2
  <2> QED  BY <2>1, <2>2, <1>2, <1>6, <1>8 DEF Logged
<1>9. /\ \A n \in 1..Len(queue'[s]) : queue'[s][n] = accepted'[s][HaveGone(s)' + n]
      /\ \A n \in 1..Len(accepted'[s]) :
           /\ service'[accepted'[s][n]] = s /\ phase'[accepted'[s][n]] # "new"
           /\ (phase'[accepted'[s][n]] = "queued") <=> (n > HaveGone(s)')
  <2>1. HaveGone(s)' = HaveGone(s)
    BY <1>3
  <2> QED  BY <2>1, <1>5, <1>7
<1> QED  BY <1>4, <1>8, <1>9 DEF Logged

\* Steps that leave queues, logs and services alone and that settle no waiting call.
LEMMA OrderStands ==
  ASSUME Inv, Order, UNCHANGED <<queue, accepted, service, line>>,
         \A i \in Calls : (phase'[i] = "new") <=> (phase[i] = "new"),
         \A i \in Calls : (phase'[i] = "queued") <=> (phase[i] = "queued"),
         \A i \in Calls : phase[i] = "queued" => reply'[i] = reply[i] \/ reply'[i] = "error",
         Occupied'
  PROVE  Order'
<1>1. ASSUME NEW s \in Services
      PROVE  Logged(s)'
  BY LogStands DEF Order
<1>2. Waiting'
  BY DEF Order, Waiting
<1> QED  BY <1>1, <1>2 DEF Order

LEMMA ClosingOrder ==
  ASSUME Inv, Order, NEW S \in SUBSET Services, ClosingAll(S)
  PROVE  Order'
<1>1. /\ UNCHANGED <<lane, service, line, accepted>>
      /\ \A s \in Services : queue'[s] = IF s \in S THEN <<>> ELSE queue[s]
      /\ \A s \in Services : server'[s] = IF s \in S THEN "closing" ELSE server[s]
      /\ \A i \in Calls : phase'[i] =
           IF phase[i] = "queued" /\ service[i] \in S THEN "ended" ELSE phase[i]
      /\ \A i \in Calls : reply'[i] = reply[i] \/ reply'[i] = "error"
  BY DEF ClosingAll, Rejected, Inv, TypeOK, Types
<1>2. ASSUME NEW s \in Services
      PROVE  Logged(s)'
  <2>1. CASE s \in S
    <3>1. queue'[s] = <<>> /\ UNCHANGED <<accepted, service>>
      BY <1>1, <2>1
    <3>2. \A i \in Calls : /\ phase[i] # "new" => phase'[i] # "new"
                           /\ service[i] = s => phase'[i] # "queued"
      BY <1>1, <2>1
    <3>3. Logged(s)
      BY DEF Order
    <3> QED  BY <3>1, <3>2, <3>3, LogDropped
  <2>2. CASE s \notin S
    <3>1. queue'[s] = queue[s] /\ accepted'[s] = accepted[s]
      BY <1>1, <2>2
    <3>2. \A i \in Calls : service[i] = s /\ phase[i] # "new" =>
            /\ service'[i] = s /\ phase'[i] # "new"
            /\ (phase'[i] = "queued") <=> (phase[i] = "queued")
      BY <1>1, <2>2
    <3>3. Logged(s)
      BY DEF Order
    <3> QED  BY <3>1, <3>2, <3>3, LogStands
  <2> QED  BY <2>1, <2>2
<1>3. Occupied'
  <2>1. \A s \in Services : lane[s] # None => lane[s] \in Calls
    BY DEF Inv, TypeOK, Types
  <2> QED  BY <1>1, <2>1 DEF Order, Occupied
<1>4. Waiting'
  <2>1. \A i \in Calls : phase'[i] = "queued" => phase[i] = "queued"
    BY <1>1
  <2> QED  BY <1>1, <2>1 DEF Order, Waiting
<1> QED  BY <1>2, <1>3, <1>4 DEF Order

LEMMA RegistryOrder ==
  ASSUME Inv, Order,
         CloseHost \/ \E s \in Services : Serve(s) \/ CloseServer(s) \/ Unregister(s)
  PROVE  Order'
<1>1. CASE \E s \in Services : Serve(s) \/ Unregister(s)
  <2>1. UNCHANGED <<queue, lane, phase, service, line, reply, accepted>>
    BY <1>1 DEF Serve, Unregister
  <2>2. ASSUME NEW s \in Services, server'[s] = "none"
        PROVE  lane[s] = None
    BY <1>1, <2>2 DEF Serve, Unregister, Order, Occupied, Inv, TypeOK, Types
  <2>3. Occupied'
    BY <2>1, <2>2 DEF Order, Occupied
  <2> QED  BY <2>1, <2>3, OrderStands
<1>2. CASE CloseHost
  <2>1. {s \in Services : server[s] = "serving"} \in SUBSET Services
    OBVIOUS
  <2> QED  BY <1>2, <2>1, ClosingOrder DEF CloseHost
<1>3. CASE \E s \in Services : CloseServer(s)
  BY <1>3, ClosingOrder DEF CloseServer
<1> QED  BY <1>1, <1>2, <1>3

LEMMA DrainOrder ==
  ASSUME Inv, Order, NEW s \in Services, Skip(s) \/ Start(s)
  PROVE  Order'
<1> DEFINE i == Head(queue[s])
<1>1. i \in Calls /\ service[i] = s /\ phase[i] # "new"
  BY HeadTyped DEF Skip, Start, LaneReady, Inv
<1>2. /\ queue[s] # <<>> /\ lane[s] = None /\ server[s] = "serving"
      /\ queue' = [queue EXCEPT ![s] = Tail(queue[s])]
      /\ UNCHANGED <<server, service, line, reply, accepted>>
      /\ \/ lane' = lane /\ phase' = [phase EXCEPT ![i] = "ended"]
         \/ lane' = [lane EXCEPT ![s] = i] /\ phase' = [phase EXCEPT ![i] = "running"]
  BY DEF Skip, Start, LaneReady, registry
<1>3. \A t \in Services : Logged(t)
  BY DEF Order
<1>4. /\ \A k \in Calls \ {Head(queue[s])} : phase'[k] = phase[k]
      /\ phase'[Head(queue[s])] \in {"running", "ended"}
      /\ queue'[s] = Tail(queue[s])
      /\ \A t \in Services \ {s} : queue'[t] = queue[t]
  BY <1>1, <1>2 DEF Inv, TypeOK, Types
<1>5. ASSUME NEW t \in Services
      PROVE  Logged(t)'
  <2>1. CASE t = s
    BY <1>2, <1>3, <1>4, <2>1, LogTaken
  <2>2. CASE t # s
    <3>1. \A k \in Calls : service[k] = t => phase'[k] = phase[k] /\ service'[k] = t
      BY <1>1, <1>2, <1>4, <2>2
    <3>2. queue'[t] = queue[t] /\ accepted'[t] = accepted[t]
      BY <1>2, <1>4, <2>2
    <3> QED  BY <1>3, <3>1, <3>2, LogStands
  <2> QED  BY <2>1, <2>2
<1> HIDE DEF i
<1>6. Occupied'
  <2> SUFFICES ASSUME NEW t \in Services
               PROVE  /\ lane'[t] # None => phase'[lane'[t]] = "running"
                      /\ server[t] = "none" => lane'[t] = None
    BY <1>2 DEF Occupied
  <2>1. CASE t = s
    BY <1>1, <1>2, <2>1 DEF Inv, TypeOK, Types
  <2>2. CASE t # s
    <3>1. lane'[t] = lane[t]
      BY <1>2, <2>2 DEF Inv, TypeOK, Types
    <3>2. lane[t] # None => lane[t] \in Calls /\ lane[t] # i
      BY <1>1, <2>2 DEF Inv, TypeOK, Types, LanesMatch
    <3> QED  BY <3>1, <3>2, <1>4 DEF Order, Occupied, i
  <2> QED  BY <2>1, <2>2
<1>7. Waiting'
  <2>1. \A k \in Calls : phase'[k] = "queued" => phase[k] = "queued"
    BY <1>4
  <2> QED  BY <1>2, <2>1 DEF Order, Waiting
<1> QED  BY <1>5, <1>6, <1>7 DEF Order

LEMMA EndOrder ==
  ASSUME Inv, Order, NEW i \in Calls, Return(i) \/ Cancel(i)
  PROVE  Order'
<1>1. CASE Cancel(i)
  <2>1. /\ UNCHANGED <<queue, accepted, service, line, phase, lane, server>>
        /\ \A k \in Calls : reply'[k] = reply[k] \/ reply'[k] = "error"
    BY <1>1 DEF Cancel, Rejected, registry, Inv, TypeOK, Types
  <2>2. Occupied'
    BY <2>1 DEF Order, Occupied
  <2> QED  BY <2>1, <2>2, OrderStands
<1>2. CASE Return(i)
  <2>1. PICK r \in {"value", "error"} :
          reply' = [reply EXCEPT ![i] = IF reply[i] = "none" THEN r ELSE reply[i]]
    BY <1>2 DEF Return
  <2>2. /\ UNCHANGED <<queue, accepted, service, line, server>>
        /\ phase[i] = "running" /\ phase'[i] = "ended"
        /\ \A k \in Calls \ {i} : phase'[k] = phase[k] /\ reply'[k] = reply[k]
        /\ \A s \in Services : lane'[s] = IF lane[s] = i THEN None ELSE lane[s]
    BY <1>2, <2>1 DEF Return, registry, Inv, TypeOK, Types
  <2>3. /\ \A k \in Calls : (phase'[k] = "new") <=> (phase[k] = "new")
        /\ \A k \in Calls : (phase'[k] = "queued") <=> (phase[k] = "queued")
        /\ \A k \in Calls : phase[k] = "queued" => reply'[k] = reply[k] \/ reply'[k] = "error"
    BY <2>2
  <2>4. \A s \in Services : lane[s] # None => lane[s] \in Calls
    BY DEF Inv, TypeOK, Types
  <2>5. Occupied'
    BY <2>2, <2>4 DEF Order, Occupied
  <2> QED  BY <2>2, <2>3, <2>5, OrderStands
<1> QED  BY <1>1, <1>2

\* A call that is sent waits only if no call it is nested in was sent to its service.
LEMMA SendOrder ==
  ASSUME Inv, Order, NEW i \in Calls, NEW s \in Services, NEW l \in SUBSET Calls,
         phase[i] = "new", Refuse(i, s, l) \/ Enqueue(i, s, l) \/ Reenter(i, s, l),
         i \notin l, Enqueue(i, s, l) => \A k \in l : service[k] # s
  PROVE  Order'
<1>1. /\ service'[i] = s /\ line'[i] = l \cup {i} /\ phase'[i] # "new"
      /\ UNCHANGED <<server, lane>>
      /\ \A k \in Calls \ {i} : /\ phase'[k] = phase[k] /\ service'[k] = service[k]
                                /\ line'[k] = line[k] /\ reply'[k] = reply[k]
  BY Sends DEF Inv
<1>2. \/ Enqueue(i, s, l)
      \/ phase'[i] # "queued" /\ UNCHANGED <<queue, accepted>>
  BY DEF Refuse, Reenter, Sent, Inv, TypeOK, Types
<1>3. ASSUME Enqueue(i, s, l)
      PROVE  /\ queue' = [queue EXCEPT ![s] = Append(queue[s], i)]
             /\ accepted' = [accepted EXCEPT ![s] = Append(accepted[s], i)]
             /\ phase'[i] = "queued" /\ reply'[i] = "none"
  BY <1>3 DEF Enqueue, Sent, Inv, Chains, TypeOK, Types
<1>4. ASSUME NEW t \in Services
      PROVE  Logged(t)'
  <2>1. Logged(t)
    BY DEF Order
  <2>2. CASE Enqueue(i, s, l) /\ t = s
    <3>1. queue'[s] = Append(queue[s], i) /\ accepted'[s] = Append(accepted[s], i)
      BY <2>2, <1>3 DEF Inv, TypeOK, Types
    <3> QED  BY <2>1, <2>2, <3>1, <1>1, <1>3, LogGrows
  <2>3. CASE ~Enqueue(i, s, l) \/ t # s
    <3>1. queue'[t] = queue[t] /\ accepted'[t] = accepted[t]
      BY <2>3, <1>2, <1>3 DEF Inv, TypeOK, Types
    <3>2. \A k \in Calls : phase[k] # "new" => phase'[k] = phase[k] /\ service'[k] = service[k]
      BY <1>1
    <3> QED  BY <2>1, <3>1, <3>2, LogStands
  <2> QED  BY <2>2, <2>3
<1>5. Occupied'
  <2>1. \A t \in Services : lane[t] # None => lane[t] \in Calls \ {i}
    BY DEF Inv, TypeOK, Types, LanesMatch
  <2> QED  BY <1>1, <2>1 DEF Order, Occupied
<1>6. Waiting'
  <2> SUFFICES ASSUME NEW k \in Calls, phase'[k] = "queued"
               PROVE  /\ reply'[k] # "value"
                      /\ \A m \in line'[k] \ {k} : service'[m] # service'[k]
    BY DEF Waiting
  <2>1. CASE k = i
    <3>1. Enqueue(i, s, l)
      BY <2>1, <1>2
    <3> QED  BY <2>1, <3>1, <1>1, <1>3
  <2>2. CASE k # i
    <3>1. phase[k] = "queued" /\ i \notin line[k] /\ line[k] \subseteq Calls
      BY <2>2, <1>1 DEF Inv, Chains, TypeOK, Types
    <3> QED  BY <2>2, <3>1, <1>1 DEF Order, Waiting
  <2> QED  BY <2>1, <2>2
<1> QED  BY <1>4, <1>5, <1>6 DEF Order

LEMMA CallOrder ==
  ASSUME Inv, Order, NEW i \in Calls, NEW s \in Services,
         Request(i, s) \/ \E p \in Calls : Nest(p, i, s)
  PROVE  Order'
<1>1. CASE Request(i, s)
  BY <1>1, SendOrder DEF Request
<1>2. ASSUME NEW p \in Calls, Nest(p, i, s)
      PROVE  Order'
  <2>1. /\ phase[p] = "running" /\ phase[i] = "new"
        /\ Refuse(i, s, line[p]) \/ Enqueue(i, s, line[p]) \/ Reenter(i, s, line[p])
    BY <1>2 DEF Nest
  <2>2. line[p] \in SUBSET Calls /\ i \notin line[p]
    BY <2>1 DEF Inv, Chains, TypeOK, Types
  <2>3. ASSUME Enqueue(i, s, line[p]), NEW k \in line[p]
        PROVE  service[k] # s
    <3>1. phase'[i] = "queued"
      BY <2>3 DEF Enqueue, Sent, Inv, TypeOK, Types
    <3>2. ~Cyclic(p, s) /\ s # service[p]
      BY <3>1, <1>2 DEF Nest, Refuse, Reenter, Sent, Inv, TypeOK, Types
    <3> QED  BY <3>2 DEF Cyclic
  <2> QED  BY <2>1, <2>2, <2>3, SendOrder
<1> QED  BY <1>1, <1>2

(***************************************************************************)
(* The theorems.                                                           *)
(***************************************************************************)

LEMMA Inductive == Inv /\ [Next]_vars => Inv'
<1> SUFFICES ASSUME Inv, [Next]_vars PROVE Inv'
  OBVIOUS
<1>1. CASE CloseHost \/ \E s \in Services :
             Serve(s) \/ CloseServer(s) \/ Unregister(s) \/ Skip(s)
  BY <1>1, RegistrySteps
<1>2. CASE \E s \in Services : Start(s)
  BY <1>2, StartStep
<1>3. CASE \E i \in Calls, s \in Services : Request(i, s) \/ \E p \in Calls : Nest(p, i, s)
  BY <1>3, RequestStep, NestStep
<1>4. CASE \E i \in Calls : Return(i) \/ Cancel(i)
  BY <1>4, ReturnStep, CancelStep
<1>5. CASE UNCHANGED vars
  BY <1>5 DEF vars, Inv, TypeOK, Types, QueuesMatch, LanesMatch, ServersMatch,
              Chains, OneChain, InLine, Holders, Reentrant
<1> QED  BY <1>1, <1>2, <1>3, <1>4, <1>5 DEF Next

LEMMA Reachable == Spec => []Inv
  BY InitHolds, Inductive, PTL DEF Spec

LEMMA OrderInductive == Inv /\ Order /\ [Next]_vars => Order'
<1> SUFFICES ASSUME Inv, Order, [Next]_vars PROVE Order'
  OBVIOUS
<1>1. CASE CloseHost \/ \E s \in Services : Serve(s) \/ CloseServer(s) \/ Unregister(s)
  BY <1>1, RegistryOrder
<1>2. CASE \E s \in Services : Skip(s) \/ Start(s)
  BY <1>2, DrainOrder
<1>3. CASE \E i \in Calls, s \in Services : Request(i, s) \/ \E p \in Calls : Nest(p, i, s)
  BY <1>3, CallOrder
<1>4. CASE \E i \in Calls : Return(i) \/ Cancel(i)
  BY <1>4, EndOrder
<1>5. CASE UNCHANGED vars
  <2>1. Occupied'
    BY <1>5 DEF vars, registry, Order, Occupied
  <2>2. /\ UNCHANGED <<queue, accepted, service, line>>
        /\ phase' = phase /\ reply' = reply
    BY <1>5 DEF vars
  <2> QED  BY <2>1, <2>2, OrderStands
<1> QED  BY <1>1, <1>2, <1>3, <1>4, <1>5 DEF Next

LEMMA OrderReachable == Spec => []Order
<1>1. ASSUME Init PROVE Order
  <2>1. \A s \in Services : queue[s] = <<>> /\ accepted[s] = <<>>
    BY <1>1 DEF Init
  <2>2. \A s \in Services : Len(queue[s]) = 0 /\ Len(accepted[s]) = 0
    BY <2>1
  <2>3. \A s \in Services : Logged(s)
    BY <2>2 DEF Logged
  <2> QED  BY <1>1, <2>3 DEF Init, Order, Occupied, Waiting
<1> QED  BY <1>1, Reachable, OrderInductive, PTL DEF Spec

\* Every reachable state of a host is well typed, with queues and lanes that match.
THEOREM TypeCorrect == Spec => []TypeOK
<1>1. Inv => TypeOK
  BY DEF Inv
<1> QED  BY <1>1, Reachable, PTL

\* Handlers of one service run one at a time, nested calls and the reentrant handlers of
\* aborted callers aside, for any number of calls and services.
THEOREM Serial == Spec => []LanesSerial
<1>1. ASSUME Inv PROVE LanesSerial
  <2> SUFFICES ASSUME NEW i \in Calls, NEW k \in Calls,
                      phase[i] = "running", phase[k] = "running", service[i] = service[k],
                      ~(Reentrant(i) /\ reply[i] # "none"),
                      ~(Reentrant(k) /\ reply[k] # "none")
               PROVE  InLine(i, k)
    BY DEF LanesSerial
  <2>1. i \in line[i] /\ k \in line[k]
    BY <1>1 DEF Inv, Chains
  <2>2. CASE ~Reentrant(i) /\ ~Reentrant(k)
    BY <2>1, <2>2, <1>1 DEF Inv, Holders, InLine
  <2>3. CASE ~Reentrant(i) /\ reply[k] = "none"
    BY <2>3, <1>1 DEF Inv, Holders, InLine
  <2>4. CASE reply[i] = "none" /\ ~Reentrant(k)
    BY <2>4, <1>1 DEF Inv, Holders, InLine
  <2>5. CASE reply[i] = "none" /\ reply[k] = "none"
    <3>1. lane[service[i]] \in line[i] \cap line[k]
      BY <2>5, <1>1 DEF Inv, Holders
    <3> QED  BY <3>1, <2>5, <1>1 DEF Inv, OneChain
  <2> QED  BY <2>2, <2>3, <2>4, <2>5
<1> QED  BY <1>1, Reachable, PTL

\* A lane starts what it accepted in order, whatever is cancelled, nested or closed; nothing of
\* a registration is left when it is gone; and no chain of calls waits for a lane it holds.
THEOREM InOrder == Spec => []LanesInOrder
<1> SUFFICES ASSUME Inv, Order PROVE LanesInOrder
  BY Reachable, OrderReachable, PTL
<1>1. AcceptedOrder
  <2> SUFFICES ASSUME NEW s \in Services,
                      NEW n \in DOMAIN accepted[s], NEW m \in 1..(n - 1),
                      phase[accepted[s][n]] = "running" \/ reply[accepted[s][n]] = "value"
               PROVE  phase[accepted[s][m]] # "queued"
    BY DEF AcceptedOrder
  <2>1. /\ Logged(s) /\ HaveGone(s) \in Nat /\ Len(accepted[s]) \in Nat
        /\ accepted[s] \in Seq(Calls)
    BY LogTyped DEF Order
  <2>2. n \in 1..Len(accepted[s]) /\ m \in 1..Len(accepted[s]) /\ m < n
    BY <2>1
  <2>3. accepted[s][n] \in Calls
    BY <2>1, <2>2
  <2>4. phase[accepted[s][n]] # "queued"
    BY <2>3 DEF Order, Waiting
  <2>5. ~(n > HaveGone(s))
    BY <2>1, <2>2, <2>4 DEF Logged
  <2>6. ~(m > HaveGone(s))
    BY <2>1, <2>2, <2>5
  <2> QED  BY <2>1, <2>2, <2>6 DEF Logged
<1>2. ClosedIsQuiet
  <2> SUFFICES ASSUME NEW i \in Calls, phase[i] = "running", server[service[i]] = "none"
               PROVE  Reentrant(i) /\ reply[i] # "none"
    BY DEF ClosedIsQuiet
  <2>1. service[i] \in Services /\ line[i] \subseteq Calls
    BY DEF Inv, Chains, TypeOK, Types
  <2>2. lane[service[i]] = None /\ None \notin Calls
    BY <2>1, NoneAssumption DEF Order, Occupied
  <2> QED  BY <2>1, <2>2 DEF Inv, Holders
<1>3. NeverBlocked
  <2> SUFFICES ASSUME NEW s \in Services, Waits(s, s) PROVE FALSE
    BY DEF NeverBlocked
  <2>1. PICK i \in Calls : lane[s] \in line[i] /\ phase[i] = "queued" /\ service[i] = s
    BY DEF Waits
  <2>2. lane[s] # None /\ service[lane[s]] = s /\ phase[lane[s]] = "running"
    BY DEF Waits, Inv, TypeOK, LanesMatch, Order, Occupied
  <2> QED  BY <2>1, <2>2 DEF Order, Waiting
<1> QED  BY <1>1, <1>2, <1>3 DEF LanesInOrder

\* Where the services that use one another can be ranked, which is how the design wants them,
\* a lane only ever waits for a lane of a higher rank, so no set of lanes waits for each other.
THEOREM WaitsClimb ==
  ASSUME NEW Rank \in [Services -> Nat],
         \A s, t \in Services : <<s, t>> \in Uses => s = t \/ Rank[s] < Rank[t]
  PROVE  Spec => [](\A s, t \in Services : Waits(s, t) => Rank[s] < Rank[t])
<1> DEFINE Up(s, t) == s = t \/ Rank[s] < Rank[t]
           Climbs == \A i \in Calls : \A k \in line[i] : Up(service[k], service[i])
<1>1. ASSUME Init PROVE Climbs
  BY <1>1 DEF Init
<1>2. ASSUME Inv, Climbs, NEW i \in Calls, NEW s \in Services, NEW l \in SUBSET Calls,
             phase[i] = "new", Refuse(i, s, l) \/ Enqueue(i, s, l) \/ Reenter(i, s, l),
             i \notin l, \A k \in l : Up(service[k], s)
      PROVE  Climbs'
  <2>1. /\ service'[i] = s /\ line'[i] = l \cup {i}
        /\ \A k \in Calls \ {i} : service'[k] = service[k] /\ line'[k] = line[k]
    BY <1>2, Sends DEF Inv
  <2> SUFFICES ASSUME NEW m \in Calls, NEW k \in line'[m]
               PROVE  Up(service'[k], service'[m])
    OBVIOUS
  <2>2. CASE m = i
    BY <2>1, <2>2, <1>2
  <2>3. CASE m # i
    <3>1. k \in line[m] /\ k \in Calls \ {i}
      BY <2>1, <2>3, <1>2 DEF Inv, Chains, TypeOK, Types
    <3> QED  BY <3>1, <2>1, <2>3, <1>2
  <2> QED  BY <2>2, <2>3
<1>3. ASSUME Inv, Climbs, NEW i \in Calls, NEW s \in Services, Request(i, s)
      PROVE  Climbs'
  BY <1>2, <1>3 DEF Request
<1>4. ASSUME Inv, Climbs, NEW p \in Calls, NEW i \in Calls, NEW s \in Services, Nest(p, i, s)
      PROVE  Climbs'
  <2>1. /\ phase[p] = "running" /\ phase[i] = "new" /\ <<service[p], s>> \in Uses
        /\ Refuse(i, s, line[p]) \/ Enqueue(i, s, line[p]) \/ Reenter(i, s, line[p])
    BY <1>4 DEF Nest
  <2>2. line[p] \in SUBSET Calls /\ i \notin line[p] /\ service[p] \in Services
        /\ \A k \in line[p] : phase[k] # "new"
    BY <1>4, <2>1 DEF Inv, Chains, TypeOK, Types
  <2>3. Up(service[p], s)
    BY <2>1, <2>2
  <2>4. ASSUME NEW k \in line[p]
        PROVE  Up(service[k], s)
    <3>1. Up(service[k], service[p]) /\ service[k] \in Services
      BY <1>4, <2>2 DEF Inv, Chains
    <3> QED  BY <3>1, <2>2, <2>3
  <2> QED  BY <2>1, <2>2, <2>4, <1>2, <1>4
<1>5. ASSUME Inv, Climbs, [Next]_vars
      PROVE  Climbs'
  <2>1. CASE \E i \in Calls, s \in Services : Request(i, s) \/ \E p \in Calls : Nest(p, i, s)
    BY <2>1, <1>3, <1>4, <1>5
  <2>2. CASE UNCHANGED <<service, line>>
    BY <2>2, <1>5
  <2>3. CASE CloseHost \/ \E s \in Services :
               Serve(s) \/ CloseServer(s) \/ Unregister(s) \/ Skip(s) \/ Start(s)
    BY <2>2, <2>3
       DEF CloseHost, CloseServer, ClosingAll, Serve, Unregister, Skip, Start
  <2>4. CASE \E i \in Calls : Return(i) \/ Cancel(i)
    BY <2>2, <2>4 DEF Return, Cancel
  <2>5. CASE UNCHANGED vars
    BY <2>2, <2>5 DEF vars
  <2> QED  BY <1>5, <2>1, <2>3, <2>4, <2>5 DEF Next
<1>6. ASSUME Inv, Order, Climbs, NEW s \in Services, NEW t \in Services, Waits(s, t)
      PROVE  Rank[s] < Rank[t]
  <2>1. PICK i \in Calls : lane[s] \in line[i] /\ phase[i] = "queued" /\ service[i] = t
    BY <1>6 DEF Waits
  <2>2. lane[s] # None /\ service[lane[s]] = s
    BY <1>6 DEF Waits, Inv, TypeOK, LanesMatch
  <2>3. Up(s, t)
    BY <1>6, <2>1, <2>2
  <2>4. s # t
    <3>1. phase[lane[s]] = "running"
      BY <1>6, <2>2 DEF Order, Occupied
    <3> QED  BY <1>6, <2>1, <2>2, <3>1 DEF Order, Waiting
  <2> QED  BY <2>3, <2>4
<1> HIDE DEF Climbs
<1>7. Spec => []Climbs
  BY <1>1, <1>5, Reachable, PTL DEF Spec
<1>8. Inv /\ Order /\ Climbs => \A s, t \in Services : Waits(s, t) => Rank[s] < Rank[t]
  BY <1>6
<1> QED  BY <1>7, <1>8, Reachable, OrderReachable, PTL

\* A call that was rejected while it waited never reaches its handler.
THEOREM RejectedOut == Spec => RejectedStaysOut
<1> DEFINE Out == \A i \in Calls :
             phase[i] = "queued" /\ reply[i] # "none" => phase'[i] # "running"
<1>1. ASSUME Inv, Next PROVE Out
  <2> SUFFICES ASSUME NEW i \in Calls, phase[i] = "queued", reply[i] # "none"
               PROVE  phase'[i] # "running"
    OBVIOUS
  <2>1. CASE \E s \in Services : Start(s)
    <3>1. PICK s \in Services : Start(s)
      BY <2>1
    <3>2. Head(queue[s]) # i
      BY <3>1 DEF Start
    <3>3. phase' = [phase EXCEPT ![Head(queue[s])] = "running"]
      BY <3>1 DEF Start
    <3> QED  BY <3>2, <3>3, <1>1 DEF Inv, TypeOK, Types
  <2>2. CASE \E k \in Calls, s \in Services, l \in SUBSET Calls :
               phase[k] = "new" /\ (Refuse(k, s, l) \/ Enqueue(k, s, l) \/ Reenter(k, s, l))
    BY <2>2, <1>1, Sends DEF Inv
  <2>3. CASE \E k \in Calls, s \in Services : Request(k, s) \/ \E p \in Calls : Nest(p, k, s)
    <3>1. {} \in SUBSET Calls /\ \A p \in Calls : line[p] \in SUBSET Calls
      BY <1>1 DEF Inv, TypeOK, Types
    <3> QED  BY <2>2, <2>3, <3>1 DEF Request, Nest
  <2>4. CASE CloseHost \/ \E s \in Services : Serve(s) \/ CloseServer(s) \/ Unregister(s)
    BY <2>4, <1>1 DEF CloseHost, CloseServer, ClosingAll, Serve, Unregister, Inv, TypeOK, Types
  <2>5. CASE \E s \in Services : Skip(s)
    <3>1. PICK s \in Services : phase' = [phase EXCEPT ![Head(queue[s])] = "ended"]
      BY <2>5 DEF Skip
    <3> QED  BY <3>1, <1>1 DEF Inv, TypeOK, Types
  <2>6. CASE \E k \in Calls : Return(k) \/ Cancel(k)
    BY <2>6, <1>1 DEF Return, Cancel, Inv, TypeOK, Types
  <2> QED  BY <1>1, <2>1, <2>3, <2>4, <2>5, <2>6 DEF Next
<1>2. Inv /\ [Next]_vars => [Out]_vars
  BY <1>1
<1> QED  BY <1>2, Reachable, PTL DEF Spec, RejectedStaysOut

----------------------------------------------------------------------------
(* Coordination through a shared worker *)

UpMessages ==
  [type : {"hello", "close", "disconnect"}] \cup [type : {"request", "cancel"}, request : Requests]
DownMessages ==
  [type : {"close", "disconnect"}] \cup [type : {"welcome"}, accepted : BOOLEAN]
  \cup [type : {"response"}, request : Requests, ok : BOOLEAN] \cup [type : {"event"}, number : Nat]

WorkerStateTypes ==
  /\ WorkerTypeOK
  /\ up \in [Clients -> Seq(UpMessages)] /\ down \in [Clients -> Seq(DownMessages)]
  /\ published \in Nat /\ since \in [Clients -> Nat] /\ got \in [Clients -> Seq(Nat)]
  /\ seen \in [Requests -> Nat]

\* A client that has not connected was asked nothing and has sent nothing,
\* and one that was not accepted got nothing.
Opens(k) ==
  /\ client[k] = "new" => /\ connection[k] = "none" /\ up[k] = <<>>
                          /\ \A r \in Of(k) : invoked[r] = "new"
  /\ connection[k] \in {"none", "open"} => /\ down[k] = <<>> /\ got[k] = <<>>
                                           /\ \A r \in Of(k) : handler[r] = "none"

\* A client says hello once, before all else, and is accepted when that has been read.
Hellos(k) ==
  \A i \in 1..Len(up[k]) : up[k][i].type = "hello" => i = 1 /\ connection[k] # "accepted"

Issued(r) == invoked[r] \notin {"new", "waiting"}

\* A request is on its way to the host once, and no handler has been started for it.
Asks(k) ==
  \A i \in 1..Len(up[k]) : up[k][i].type = "request" =>
    /\ By[up[k][i].request] = k /\ Issued(up[k][i].request) /\ handler[up[k][i].request] = "none"
    /\ \A j \in 1..Len(up[k]) :
         up[k][j].type = "request" /\ up[k][j].request = up[k][i].request => j = i

\* A handler was asked for, and works for a client that is connected.
Serves(k) ==
  \A r \in Of(k) : /\ handler[r] # "none" => Issued(r)
                   /\ handler[r] = "running" => connection[k] = "accepted"

\* The event n is on its way to client k before the message at j.
Comes(k, n, j) == \E i \in 1..Len(down[k]) : i < j /\ down[k][i] = Event(n)

\* The last event that client k has.
Heard(k) == since[k] + Len(got[k])

\* The events on their way to a client follow those it has, in order and without a gap, and while
\* it is accepted they reach up to the last.
Follows(k) ==
  /\ \A i \in 1..Len(down[k]) : down[k][i].type = "event" =>
       /\ Heard(k) < down[k][i].number /\ down[k][i].number <= published
       /\ \A n \in Nat : Heard(k) < n /\ n < down[k][i].number => Comes(k, n, i)
  /\ connection[k] = "accepted" =>
       \A n \in Nat : Heard(k) < n /\ n <= published => Comes(k, n, Len(down[k]) + 1)
  /\ \A n \in 1..Len(got[k]) : got[k][n] = since[k] + n
  /\ Heard(k) <= published

\* No event is on its way twice.
Once(k) ==
  \A i \in 1..Len(down[k]) : \A j \in 1..Len(down[k]) :
    down[k][i].type = "event" /\ down[k][j] = down[k][i] => i = j

\* An answer is that of a handler that ended, and comes after the events the handler could know of.
Answers(k) ==
  /\ \A r \in Of(k) : invoked[r] = "value" => handler[r] = "done" /\ seen[r] <= Heard(k)
  /\ \A i \in 1..Len(down[k]) : down[k][i].type = "response" =>
       /\ By[down[k][i].request] = k /\ handler[down[k][i].request] = "done"
       /\ \A n \in Nat : Heard(k) < n /\ n <= seen[down[k][i].request] => Comes(k, n, i)

Connected(k) ==
  Opens(k) /\ Hellos(k) /\ Asks(k) /\ Serves(k) /\ Follows(k) /\ Once(k) /\ Answers(k)

WorkerInv == WorkerStateTypes /\ \A k \in Clients : Connected(k)

----------------------------------------------------------------------------
(* Ports *)

\* What was on its way to client k after the first e messages, which are no events, still is,
\* and neither an event nor an answer follows.
DownKept(k, e) ==
  /\ e <= Len(down[k]) /\ Len(down[k]) <= e + Len(down'[k])
  /\ \A i \in 1..e : down[k][i].type # "event"
  /\ \A i \in 1..Len(down'[k]) : e + i <= Len(down[k]) => down'[k][i] = down[k][e + i]
  /\ \A i \in 1..Len(down'[k]) :
       e + i > Len(down[k]) => down'[k][i].type \notin {"event", "response"}

\* Of what was on its way to the host, n messages after the first d still are, and neither a hello
\* nor a request follows.
UpKept(k, d, n) ==
  /\ d + n <= Len(up[k]) /\ n <= Len(up'[k])
  /\ \A i \in 1..n : up'[k][i] = up[k][d + i]
  /\ \A i \in n + 1..Len(up'[k]) : up'[k][i].type \notin {"hello", "request"}

\* The calls of client k go on or are rejected, and its handlers go on, are halted or end.
CallsKept(k) ==
  \A r \in Of(k) :
    /\ invoked'[r] = "value" => invoked[r] = "value" \/ (handler[r] = "done" /\ seen[r] <= Heard(k))
    /\ Issued(r) => invoked'[r] \notin {"new", "waiting"}
    /\ handler'[r] = handler[r] \/ (handler[r] = "running" /\ handler'[r] \in {"halted", "done"})
    /\ handler'[r] = "running" => connection'[k] = "accepted"
    /\ handler[r] = "done" => seen'[r] = seen[r]

\* Handlers of client k are started too.
CallsMove(k) ==
  \A r \in Of(k) :
    /\ invoked'[r] = "value" => invoked[r] = "value" \/ (handler[r] = "done" /\ seen[r] <= Heard(k))
    /\ Issued(r) => invoked'[r] \notin {"new", "waiting"}
    /\ \/ handler'[r] = handler[r]
       \/ handler[r] = "running" /\ handler'[r] \in {"halted", "done"}
       \/ handler[r] = "none" /\ handler'[r] = "running" /\ Issued(r)
    /\ handler'[r] = "running" => connection'[k] = "accepted"
    /\ handler[r] = "done" => seen'[r] = seen[r]

\* Nothing that client k waits for is sent to it, it reads no event, and it is not accepted.
Moves(k, e) ==
  /\ DownKept(k, e) /\ CallsMove(k) /\ got'[k] = got[k] /\ since'[k] = since[k] /\ published <= published'
  /\ connection'[k] = "accepted" => connection[k] = "accepted" /\ published' = published
  /\ connection'[k] \in {"none", "open"} => connection'[k] = connection[k] /\ down'[k] = down[k]
  /\ client'[k] = "new" => /\ client[k] = "new" /\ up'[k] = up[k] /\ connection'[k] = connection[k]
                           /\ \A r \in Of(k) : invoked'[r] = invoked[r]

\* And none of its handlers is started.
Quiet(k, e) ==
  /\ DownKept(k, e) /\ CallsKept(k) /\ got'[k] = got[k] /\ since'[k] = since[k] /\ published <= published'
  /\ connection'[k] = "accepted" => connection[k] = "accepted" /\ published' = published
  /\ connection'[k] \in {"none", "open"} => connection'[k] = connection[k] /\ down'[k] = down[k]
  /\ client'[k] = "new" => /\ client[k] = "new" /\ up'[k] = up[k] /\ connection'[k] = connection[k]
                           /\ \A r \in Of(k) : invoked'[r] = invoked[r]

LEMMA Parts ==
  ASSUME WorkerInv, NEW k \in Clients
  PROVE  /\ Opens(k) /\ Hellos(k) /\ Asks(k) /\ Serves(k) /\ Follows(k) /\ Once(k) /\ Answers(k)
         /\ WorkerStateTypes
         /\ up[k] \in Seq(UpMessages) /\ down[k] \in Seq(DownMessages) /\ got[k] \in Seq(Nat)
         /\ since[k] \in Nat /\ published \in Nat
         /\ Len(up[k]) \in Nat /\ Len(down[k]) \in Nat /\ Len(got[k]) \in Nat /\ Heard(k) \in Nat
         /\ \A r \in Requests : seen[r] \in Nat
<1>1. WorkerStateTypes /\ Connected(k) BY DEF WorkerInv
<1>2. /\ up[k] \in Seq(UpMessages) /\ down[k] \in Seq(DownMessages) /\ got[k] \in Seq(Nat)
      /\ since[k] \in Nat /\ published \in Nat /\ \A r \in Requests : seen[r] \in Nat
  BY <1>1 DEF WorkerStateTypes
<1> QED BY <1>1, <1>2 DEF Connected, Heard

\* What is on its way to a client, field by field.
LEMMA Posted ==
  ASSUME WorkerInv, NEW k \in Clients, NEW i \in 1..Len(down[k])
  PROVE  /\ down[k][i].type = "event" => down[k][i].number \in Nat
         /\ down[k][i].type = "response" => down[k][i].request \in Requests
         /\ down[k][i].type = "welcome" => down[k][i].accepted \in BOOLEAN
         /\ down[k][i].type \in {"close", "disconnect", "welcome", "response", "event"}
<1>1. down[k][i] \in DownMessages BY Parts
<1> QED BY <1>1 DEF DownMessages

\* What is on its way to the host.
LEMMA Mailed ==
  ASSUME WorkerInv, NEW k \in Clients, NEW i \in 1..Len(up[k])
  PROVE  /\ up[k][i].type \in {"request", "cancel"} => up[k][i].request \in Requests
         /\ up[k][i].type \in {"hello", "close", "disconnect", "request", "cancel"}
<1>1. up[k][i] \in UpMessages BY Parts
<1> QED BY <1>1 DEF UpMessages

\* What client k has been told stays in order when only plain messages follow.
LEMMA Told ==
  ASSUME WorkerInv, NEW k \in Clients, NEW e \in {0, 1}, Moves(k, e), WorkerStateTypes'
  PROVE  Follows(k)' /\ Once(k)' /\ Answers(k)'
<1>1. /\ e <= Len(down[k]) /\ Len(down[k]) <= e + Len(down'[k])
      /\ \A i \in 1..e : down[k][i].type # "event"
      /\ \A i \in 1..Len(down'[k]) : e + i <= Len(down[k]) => down'[k][i] = down[k][e + i]
      /\ \A i \in 1..Len(down'[k]) :
           e + i > Len(down[k]) => down'[k][i].type \notin {"event", "response"}
      /\ got'[k] = got[k] /\ since'[k] = since[k] /\ published <= published'
      /\ connection'[k] = "accepted" => connection[k] = "accepted" /\ published' = published
  BY DEF Moves, DownKept
<1>2. /\ Heard(k)' = Heard(k) /\ Len(down[k]) \in Nat /\ Heard(k) \in Nat /\ published \in Nat
      /\ Len(down'[k]) \in Nat /\ published' \in Nat
  BY <1>1, Parts DEF Heard, WorkerStateTypes
<1>3. \A i \in 1..Len(down'[k]) : down'[k][i].type \in {"event", "response"} =>
        e + i \in 1..Len(down[k]) /\ down'[k][i] = down[k][e + i]
  BY <1>1, <1>2
<1>4. ASSUME NEW n \in Nat, NEW j \in Nat, Comes(k, n, e + j)
      PROVE  Comes(k, n, j)'
  <2>1. PICK i \in 1..Len(down[k]) : i < e + j /\ down[k][i] = Event(n) BY <1>4 DEF Comes
  <2>2. i \notin 1..e BY <1>1, <2>1 DEF Event
  <2>3. i - e \in 1..Len(down'[k]) /\ i - e < j /\ e + (i - e) = i /\ i <= Len(down[k])
    <3>1. Len(down[k]) <= e + Len(down'[k]) BY <1>1
    <3> QED BY <3>1, <1>2, <2>1, <2>2
  <2>4. down'[k][i - e] = Event(n) BY <1>1, <2>1, <2>3
  <2> QED BY <2>3, <2>4 DEF Comes, Event
<1>5. Follows(k)'
  <2>1. ASSUME NEW i \in 1..Len(down'[k]), down'[k][i].type = "event"
        PROVE  /\ Heard(k)' < down'[k][i].number /\ down'[k][i].number <= published'
               /\ \A n \in Nat : Heard(k)' < n /\ n < down'[k][i].number => Comes(k, n, i)'
    <3>1. e + i \in 1..Len(down[k]) /\ down'[k][i] = down[k][e + i] BY <1>3, <2>1
    <3>2. /\ Heard(k) < down[k][e + i].number /\ down[k][e + i].number <= published
          /\ \A n \in Nat : Heard(k) < n /\ n < down[k][e + i].number => Comes(k, n, e + i)
      BY <2>1, <3>1, Parts DEF Follows
    <3>3. down[k][e + i].number \in Nat BY <2>1, <3>1, Posted
    <3>4. \A n \in Nat : Heard(k) < n /\ n < down[k][e + i].number => Comes(k, n, i)'
      BY <1>4, <3>2
    <3>5. Heard(k) < down[k][e + i].number /\ down[k][e + i].number <= published'
      BY <1>1, <1>2, <3>2, <3>3
    <3> QED BY <1>2, <3>1, <3>4, <3>5
  <2>2. ASSUME connection'[k] = "accepted", NEW n \in Nat, Heard(k)' < n, n <= published'
        PROVE  Comes(k, n, Len(down[k]) + 1)'
    <3>1. Comes(k, n, Len(down[k]) + 1) BY <1>1, <1>2, <2>2, Parts DEF Follows
    <3>2. Comes(k, n, e + Len(down'[k]) + 1) BY <1>1, <1>2, <3>1 DEF Comes
    <3>3. PICK i \in 1..Len(down[k]) : down[k][i] = Event(n) BY <3>1 DEF Comes
    <3>4. i \notin 1..e BY <1>1, <3>3 DEF Event
    <3>5. /\ i - e \in 1..Len(down'[k]) /\ i - e < Len(down'[k]) + 1 /\ e + (i - e) = i
          /\ i <= Len(down[k])
      BY <1>1, <1>2, <3>3, <3>4
    <3>6. down'[k][i - e] = Event(n) BY <1>1, <3>3, <3>5
    <3> QED BY <3>5, <3>6 DEF Comes, Event
  <2>3. \A n \in 1..Len(got'[k]) : got'[k][n] = since'[k] + n BY <1>1, Parts DEF Follows
  <2>4. Heard(k)' <= published' BY <1>1, <1>2, Parts DEF Follows
  <2> QED BY <2>1, <2>2, <2>3, <2>4 DEF Follows
<1>6. Once(k)'
  <2>1. ASSUME NEW i \in 1..Len(down'[k]), NEW j \in 1..Len(down'[k]), down'[k][i].type = "event",
               down'[k][j] = down'[k][i]
        PROVE  i = j
    <3>1. /\ e + i \in 1..Len(down[k]) /\ down'[k][i] = down[k][e + i]
          /\ e + j \in 1..Len(down[k]) /\ down'[k][j] = down[k][e + j]
      BY <1>3, <2>1
    <3>2. e + i = e + j BY <2>1, <3>1, Parts DEF Once
    <3> QED BY <3>2
  <2> QED BY <2>1 DEF Once
<1>7. Answers(k)'
  <2>1. \A r \in Of(k) : invoked'[r] = "value" => handler'[r] = "done" /\ seen'[r] <= Heard(k)'
    BY <1>2, Parts DEF Answers, Moves, CallsMove
  <2>2. ASSUME NEW i \in 1..Len(down'[k]), down'[k][i].type = "response"
        PROVE  /\ By[down'[k][i].request] = k /\ handler'[down'[k][i].request] = "done"
               /\ \A n \in Nat : Heard(k)' < n /\ n <= seen'[down'[k][i].request] => Comes(k, n, i)'
    <3>1. e + i \in 1..Len(down[k]) /\ down'[k][i] = down[k][e + i] BY <1>3, <2>2
    <3>2. down[k][e + i].request \in Requests BY <2>2, <3>1, Posted
    <3>3. /\ By[down[k][e + i].request] = k /\ handler[down[k][e + i].request] = "done"
          /\ \A n \in Nat :
               Heard(k) < n /\ n <= seen[down[k][e + i].request] => Comes(k, n, e + i)
      BY <2>2, <3>1, Parts DEF Answers
    <3>4. down[k][e + i].request \in Of(k) BY <3>2, <3>3 DEF Of
    <3>5. /\ handler'[down[k][e + i].request] = "done"
          /\ seen'[down[k][e + i].request] = seen[down[k][e + i].request]
      BY <3>3, <3>4 DEF Moves, CallsMove
    <3>6. \A n \in Nat : Heard(k) < n /\ n <= seen[down[k][e + i].request] => Comes(k, n, i)'
      BY <1>4, <3>3
    <3> QED BY <1>2, <3>1, <3>3, <3>5, <3>6
  <2> QED BY <2>1, <2>2 DEF Answers, Of
<1> QED BY <1>5, <1>6, <1>7

\* Client k goes on with what it has, and tells the host no more than it did.
LEMMA MovesKeeps ==
  ASSUME WorkerInv, NEW k \in Clients, WorkerStateTypes', NEW e \in {0, 1}, Moves(k, e),
          NEW d \in {0, 1}, NEW n \in Nat, UpKept(k, d, n),
         \A i \in 1..n : up[k][d + i].type = "request" => handler'[up[k][d + i].request] = "none"
  PROVE  Connected(k)'
<1>1. /\ d + n <= Len(up[k]) /\ n <= Len(up'[k])
      /\ \A i \in 1..n : up'[k][i] = up[k][d + i]
      /\ \A i \in n + 1..Len(up'[k]) : up'[k][i].type \notin {"hello", "request"}
  BY DEF UpKept
<1>2. Len(up[k]) \in Nat /\ Len(up'[k]) \in Nat BY Parts DEF WorkerStateTypes
<1>3. \A i \in 1..Len(up'[k]) : up'[k][i].type \in {"hello", "request"} =>
        i \in 1..n /\ d + i \in 1..Len(up[k]) /\ up'[k][i] = up[k][d + i]
  BY <1>1, <1>2
<1>4. Opens(k)'
  <2>1. Opens(k) BY Parts
  <2>2. client'[k] = "new" => /\ connection'[k] = "none" /\ up'[k] = <<>>
                              /\ \A r \in Of(k) : invoked'[r] = "new"
    BY <2>1 DEF Moves, Opens
  <2>3. connection'[k] \in {"none", "open"} => down'[k] = <<>> /\ got'[k] = <<>>
    BY <2>1 DEF Moves, Opens
  <2>4. connection'[k] \in {"none", "open"} => \A r \in Of(k) : handler'[r] = "none"
    BY <2>1 DEF Moves, CallsMove, Opens
  <2> QED BY <2>2, <2>3, <2>4 DEF Opens, Of
<1>5. Hellos(k)'
  <2>1. ASSUME NEW i \in 1..Len(up'[k]), up'[k][i].type = "hello"
        PROVE  i = 1 /\ connection'[k] # "accepted"
    <3>1. i \in 1..n /\ d + i \in 1..Len(up[k]) /\ up'[k][i] = up[k][d + i] BY <1>3, <2>1
    <3>2. d + i = 1 /\ connection[k] # "accepted" BY <2>1, <3>1, Parts DEF Hellos
    <3> QED BY <3>1, <3>2 DEF Moves
  <2> QED BY <2>1 DEF Hellos
<1>6. Asks(k)'
  <2> SUFFICES ASSUME NEW i \in 1..Len(up'[k]), up'[k][i].type = "request"
               PROVE  /\ By[up'[k][i].request] = k /\ handler'[up'[k][i].request] = "none"
                      /\ invoked'[up'[k][i].request] \notin {"new", "waiting"}
                      /\ \A j \in 1..Len(up'[k]) : up'[k][j].type = "request"
                           /\ up'[k][j].request = up'[k][i].request => j = i
    BY DEF Asks, Issued
  <2>1. up'[k][i].type = "request" OBVIOUS
  <2>2. i \in 1..n /\ d + i \in 1..Len(up[k]) /\ up'[k][i] = up[k][d + i] BY <1>3, <2>1
  <2>3. up[k][d + i].request \in Requests BY <2>1, <2>2, Mailed
  <2>4. /\ By[up[k][d + i].request] = k /\ Issued(up[k][d + i].request)
        /\ handler[up[k][d + i].request] = "none"
        /\ \A j \in 1..Len(up[k]) : up[k][j].type = "request"
             /\ up[k][j].request = up[k][d + i].request => j = d + i
    BY <2>1, <2>2, Parts DEF Asks
  <2>5. up[k][d + i].request \in Of(k) BY <2>3, <2>4 DEF Of
  <2>6. /\ handler'[up[k][d + i].request] = "none"
        /\ invoked'[up[k][d + i].request] \notin {"new", "waiting"}
    BY <2>1, <2>2, <2>4, <2>5 DEF Moves, CallsMove, Issued
  <2>7. ASSUME NEW j \in 1..Len(up'[k]), up'[k][j].type = "request",
               up'[k][j].request = up'[k][i].request
        PROVE  j = i
    <3>1. d + j \in 1..Len(up[k]) /\ up'[k][j] = up[k][d + j] BY <1>3, <2>7
    <3>2. d + j = d + i BY <2>2, <2>4, <2>7, <3>1
    <3> QED BY <3>2
  <2> QED BY <2>2, <2>4, <2>6, <2>7
<1>7. Serves(k)' BY Parts DEF Moves, CallsMove, Serves, Issued, Of
<1>8. Follows(k)' /\ Once(k)' /\ Answers(k)' BY Told
<1> QED BY <1>4, <1>5, <1>6, <1>7, <1>8 DEF Connected

\* A client of which no handler is started.
LEMMA QuietKeeps ==
  ASSUME WorkerInv, NEW k \in Clients, WorkerStateTypes', NEW e \in {0, 1}, Quiet(k, e),
          NEW d \in {0, 1}, NEW n \in Nat, UpKept(k, d, n)
  PROVE  Connected(k)'
<1>1. Moves(k, e) BY DEF Quiet, Moves, CallsKept, CallsMove
<1>2. ASSUME NEW i \in 1..n, up[k][d + i].type = "request"
      PROVE  handler'[up[k][d + i].request] = "none"
  <2>1. d + i \in 1..Len(up[k]) BY Parts DEF UpKept
  <2>2. By[up[k][d + i].request] = k /\ handler[up[k][d + i].request] = "none"
    BY <1>2, <2>1, Parts DEF Asks
  <2>3. up[k][d + i].request \in Of(k) BY <1>2, <2>1, <2>2, Mailed DEF Of
  <2> QED BY <2>2, <2>3 DEF Quiet, CallsKept
<1> QED BY <1>1, <1>2, MovesKeeps

\* A client that a step does not concern.
LEMMA Untouched ==
  ASSUME WorkerInv, WorkerStateTypes', NEW k \in Clients,
         client'[k] = client[k], connection'[k] = connection[k], up'[k] = up[k], down'[k] = down[k],
         got'[k] = got[k], since'[k] = since[k], published' = published,
         \A r \in Of(k) : invoked'[r] = invoked[r] /\ handler'[r] = handler[r] /\ seen'[r] = seen[r]
  PROVE  Connected(k)'
<1>1. CallsKept(k) BY Parts DEF CallsKept, Serves, Issued
<1>2. DownKept(k, 0) BY Parts DEF DownKept
<1>3. Quiet(k, 0) BY <1>1, <1>2, Parts DEF Quiet
<1>4. UpKept(k, 0, Len(up[k])) /\ Len(up[k]) \in Nat BY Parts DEF UpKept
<1> QED BY <1>3, <1>4, QuietKeeps

LEMMA Alone ==
  ASSUME NEW S, NEW m \in S
  PROVE  <<m>> \in Seq(S) /\ Len(<<m>>) = 1
OBVIOUS

\* A sequence that gets one more element, and one that gets at most one more before its last.
LEMMA Appended ==
  ASSUME NEW S, NEW s \in Seq(S), NEW m \in S
  PROVE  /\ Append(s, m) \in Seq(S) /\ Len(Append(s, m)) = Len(s) + 1 /\ Len(s) \in Nat
         /\ \A i \in 1..Len(s) : Append(s, m)[i] = s[i]
         /\ Append(s, m)[Len(s) + 1] = m
OBVIOUS

LEMMA Concluded ==
  ASSUME NEW S, NEW s \in Seq(S), NEW last \in Seq(S), Len(last) <= 1, NEW m \in S
  PROVE  /\ s \o last \o <<m>> \in Seq(S) /\ Len(s) \in Nat
         /\ Len(s \o last \o <<m>>) = Len(s) + Len(last) + 1
         /\ \A i \in 1..Len(s) : (s \o last \o <<m>>)[i] = s[i]
         /\ \A i \in Len(s) + 1..Len(s) + Len(last) + 1 :
              (s \o last \o <<m>>)[i] = m \/ (Len(last) = 1 /\ (s \o last \o <<m>>)[i] = last[1])
OBVIOUS

LEMMA Shortened ==
  ASSUME NEW S, NEW s \in Seq(S), s # <<>>
  PROVE  /\ Tail(s) \in Seq(S) /\ Len(s) \in Nat \ {0} /\ Len(Tail(s)) = Len(s) - 1
         /\ Head(s) = s[1] /\ \A i \in 1..Len(Tail(s)) : Tail(s)[i] = s[i + 1]
OBVIOUS

\* What the host is told that starts nothing.
LEMMA UpChanges ==
  ASSUME WorkerInv, NEW k \in Clients
  PROVE  /\ up'[k] = up[k] => UpKept(k, 0, Len(up[k]))
         /\ up[k] # <<>> /\ up'[k] = Tail(up[k]) => UpKept(k, 1, Len(up[k]) - 1) /\ Len(up[k]) - 1 \in Nat
         /\ \A m \in UpMessages : m.type \notin {"hello", "request"} /\ up'[k] = Append(up[k], m)
              => UpKept(k, 0, Len(up[k])) /\ up'[k] \in Seq(UpMessages)
         /\ \A last \in {<<>>, <<[type |-> "disconnect"]>>} : up'[k] = up[k] \o last \o <<Closed>>
              => UpKept(k, 0, Len(up[k])) /\ up'[k] \in Seq(UpMessages)
<1>1. up'[k] = up[k] => UpKept(k, 0, Len(up[k])) BY Parts DEF UpKept
<1>2. ASSUME up[k] # <<>>, up'[k] = Tail(up[k])
      PROVE  UpKept(k, 1, Len(up[k]) - 1) /\ Len(up[k]) - 1 \in Nat
  BY <1>2, Shortened, Parts DEF UpKept
<1>3. ASSUME NEW m \in UpMessages, m.type \notin {"hello", "request"}, up'[k] = Append(up[k], m)
      PROVE  UpKept(k, 0, Len(up[k])) /\ up'[k] \in Seq(UpMessages)
  BY <1>3, Appended, Parts DEF UpKept
<1>4. ASSUME NEW last \in {<<>>, <<[type |-> "disconnect"]>>}, up'[k] = up[k] \o last \o <<Closed>>
      PROVE  UpKept(k, 0, Len(up[k])) /\ up'[k] \in Seq(UpMessages)
  <2>1. Closed \in UpMessages /\ [type |-> "disconnect"] \in UpMessages BY DEF Closed, UpMessages
  <2>2. last \in Seq(UpMessages) /\ Len(last) <= 1 /\ Len(last) \in Nat
    <3>1. CASE last = <<>> BY <3>1
    <3>2. CASE last = <<[type |-> "disconnect"]>> BY <2>1, <3>2
    <3> QED BY <3>1, <3>2
  <2>3. Len(last) = 1 => last[1].type = "disconnect" OBVIOUS
  <2>4. /\ up'[k] \in Seq(UpMessages) /\ Len(up'[k]) = Len(up[k]) + Len(last) + 1
        /\ \A i \in 1..Len(up[k]) : up'[k][i] = up[k][i]
        /\ \A i \in Len(up[k]) + 1..Len(up[k]) + Len(last) + 1 :
             up'[k][i] = Closed \/ (Len(last) = 1 /\ up'[k][i] = last[1])
    BY <1>4, <2>1, <2>2, Concluded, Parts
  <2>5. \A i \in Len(up[k]) + 1..Len(up'[k]) : up'[k][i].type \notin {"hello", "request"}
    BY <2>3, <2>4 DEF Closed
  <2> QED BY <2>2, <2>4, <2>5, Parts DEF UpKept
<1> QED BY <1>1, <1>2, <1>3, <1>4

\* What a client is told that is neither an event nor an answer.
LEMMA DownChanges ==
  ASSUME WorkerInv, NEW k \in Clients
  PROVE  /\ down'[k] = down[k] => DownKept(k, 0)
         /\ down[k] # <<>> /\ down'[k] = Tail(down[k]) /\ down[k][1].type # "event" => DownKept(k, 1)
         /\ \A m \in DownMessages : m.type \notin {"event", "response"} /\ down'[k] = Append(down[k], m)
              => DownKept(k, 0) /\ down'[k] \in Seq(DownMessages)
         /\ \A last \in {<<>>, <<Welcome(FALSE)>>} : down'[k] = down[k] \o last \o <<Closed>>
              => DownKept(k, 0) /\ down'[k] \in Seq(DownMessages)
<1>1. down'[k] = down[k] => DownKept(k, 0) BY Parts DEF DownKept
<1>2. ASSUME down[k] # <<>>, down'[k] = Tail(down[k]), down[k][1].type # "event"
      PROVE  DownKept(k, 1)
  BY <1>2, Shortened, Parts DEF DownKept
<1>3. ASSUME NEW m \in DownMessages, m.type \notin {"event", "response"}, down'[k] = Append(down[k], m)
      PROVE  DownKept(k, 0) /\ down'[k] \in Seq(DownMessages)
  BY <1>3, Appended, Parts DEF DownKept
<1>4. ASSUME NEW last \in {<<>>, <<Welcome(FALSE)>>}, down'[k] = down[k] \o last \o <<Closed>>
      PROVE  DownKept(k, 0) /\ down'[k] \in Seq(DownMessages)
  <2>1. Closed \in DownMessages /\ Welcome(FALSE) \in DownMessages
    BY DEF Closed, Welcome, DownMessages
  <2>2. last \in Seq(DownMessages) /\ Len(last) <= 1 /\ Len(last) \in Nat
    <3>1. CASE last = <<>> BY <3>1
    <3>2. CASE last = <<Welcome(FALSE)>>
      <4>1. PICK m \in DownMessages : m = Welcome(FALSE) BY <2>1
      <4>2. last = <<m>> BY <3>2, <4>1
      <4>3. <<m>> \in Seq(DownMessages) /\ Len(<<m>>) = 1 BY Alone
      <4>4. last \in Seq(DownMessages) /\ Len(last) = 1 BY <4>2, <4>3, Zenon
      <4> QED BY <4>4
    <3> QED BY <3>1, <3>2
  <2>3. Len(last) = 1 => last[1].type = "welcome" BY DEF Welcome
  <2>4. /\ down'[k] \in Seq(DownMessages) /\ Len(down'[k]) = Len(down[k]) + Len(last) + 1
        /\ \A i \in 1..Len(down[k]) : down'[k][i] = down[k][i]
        /\ \A i \in Len(down[k]) + 1..Len(down[k]) + Len(last) + 1 :
             down'[k][i] = Closed \/ (Len(last) = 1 /\ down'[k][i] = last[1])
    <3>1. down[k] \in Seq(DownMessages) BY Parts
    <3>2. PICK m \in DownMessages : m = Closed BY <2>1
    <3>3. down'[k] = down[k] \o last \o <<m>> BY <1>4, <3>2
    <3> QED BY <2>2, <3>1, <3>2, <3>3, Concluded
  <2>5. \A i \in Len(down[k]) + 1..Len(down'[k]) : down'[k][i].type \notin {"event", "response"}
    BY <2>3, <2>4 DEF Closed
  <2>6. Len(down[k]) \in Nat /\ Len(down'[k]) \in Nat BY <2>2, <2>4, Parts
  <2>7. 0 <= Len(down[k]) /\ Len(down[k]) <= 0 + Len(down'[k]) BY <2>2, <2>4, <2>6
  <2>8. \A i \in 1..0 : down[k][i].type # "event" OBVIOUS
  <2>9. ASSUME NEW i \in 1..Len(down'[k]), 0 + i <= Len(down[k])
        PROVE  down'[k][i] = down[k][0 + i]
    <3>1. i \in 1..Len(down[k]) /\ 0 + i = i BY <2>6, <2>9
    <3> QED BY <2>4, <3>1
  <2>10. ASSUME NEW i \in 1..Len(down'[k]), 0 + i > Len(down[k])
         PROVE  down'[k][i].type \notin {"event", "response"}
    <3>1. i \in Len(down[k]) + 1..Len(down'[k]) BY <2>6, <2>10
    <3> QED BY <2>5, <3>1
  <2>11. DownKept(k, 0) BY <2>7, <2>8, <2>9, <2>10 DEF DownKept
  <2> QED BY <2>4, <2>11
<1> QED BY <1>1, <1>2, <1>3, <1>4

LEMMA Concludes ==
  ASSUME WorkerInv, WorkerStateTypes', \A k \in Clients : Connected(k)'
  PROVE  WorkerInv'
BY DEF WorkerInv

LEMMA Keeps ==
  ASSUME WorkerInv, WorkerStateTypes',
         \A k \in Clients : \E d \in {0, 1} : \E e \in {0, 1} : \E n \in Nat : Quiet(k, e) /\ UpKept(k, d, n)
  PROVE  WorkerInv'
<1>1. ASSUME NEW k \in Clients
      PROVE  Connected(k)'
  <2>1. PICK d \in {0, 1}, e \in {0, 1}, n \in Nat : Quiet(k, e) /\ UpKept(k, d, n) OBVIOUS
  <2> QED BY <2>1, QuietKeeps
<1> QED BY <1>1 DEF WorkerInv

----------------------------------------------------------------------------
(* A call *)

LEMMA CallerKeeps ==
  ASSUME WorkerInv, NEW r \in Requests, InvokeRequest(r) \/ Abort(r)
  PROVE  WorkerInv'
<1>0. client'[By[r]] # "new"
  <2>1. CASE InvokeRequest(r) BY <2>1 DEF InvokeRequest
  <2>2. CASE Abort(r)
    <3>1. By[r] \in Clients /\ r \in Of(By[r]) BY WorkerAssumption DEF WorkerInv, Of
    <3>2. client[By[r]] # "new" BY <2>2, <3>1, Parts DEF Abort, Opens
    <3> QED BY <2>2, <3>2 DEF Abort
  <2> QED BY <2>1, <2>2
<1>1. /\ invoked[r] \in {"new", "waiting"} /\ invoked'[r] \in {"waiting", "rejected"}
      /\ invoked' \in [Requests -> {"new", "waiting", "pending", "value", "rejected"}]
      /\ \A q \in Requests : q # r => invoked'[q] = invoked[q]
      /\ UNCHANGED <<fits, host, client, connection, up, down, handler, published, since, got, seen>>
  BY DEF InvokeRequest, Abort, WorkerInv, WorkerStateTypes, WorkerTypeOK, ports, events
<1>2. WorkerStateTypes' BY <1>1 DEF WorkerInv, WorkerStateTypes, WorkerTypeOK
<1>3. ASSUME NEW k \in Clients
      PROVE  \E d \in {0, 1} : \E e \in {0, 1} : \E n \in Nat : Quiet(k, e) /\ UpKept(k, d, n)
  <2>1. CallsKept(k) BY <1>1, Parts DEF CallsKept, Issued, Serves, Of
  <2>2. DownKept(k, 0) /\ UpKept(k, 0, Len(up[k])) BY <1>1, UpChanges, DownChanges
  <2>3. r \in Of(k) => client'[k] # "new" BY <1>0 DEF Of
  <2>4. Quiet(k, 0) BY <1>1, <2>1, <2>2, <2>3, Parts DEF Quiet, Of
  <2> QED BY <2>2, <2>4, Parts
<1> QED BY <1>2, <1>3, Keeps

LEMMA CancelKeeps ==
  ASSUME WorkerInv, NEW r \in Requests, CancelRequest(r)
  PROVE  WorkerInv'
<1> DEFINE message == [type |-> "cancel", request |-> r]
<1>1. /\ invoked[r] = "pending" /\ invoked'[r] = "rejected"
      /\ invoked' \in [Requests -> {"new", "waiting", "pending", "value", "rejected"}]
      /\ \A q \in Requests : q # r => invoked'[q] = invoked[q]
      /\ up' = [up EXCEPT ![By[r]] = Append(up[By[r]], message)]
      /\ UNCHANGED <<fits, host, client, connection, down, handler, published, since, got, seen>>
  BY DEF CancelRequest, Send, WorkerInv, WorkerStateTypes, WorkerTypeOK, events
<1>2. message \in UpMessages /\ message.type = "cancel" BY DEF UpMessages
<1> HIDE DEF message
<1>3. ASSUME NEW k \in Clients
      PROVE  /\ UpKept(k, 0, Len(up[k])) /\ up'[k] \in Seq(UpMessages)
             /\ client'[k] = "new" => up'[k] = up[k]
  <2>1. CASE By[r] = k
    <3>1. up'[k] = Append(up[k], message) BY <1>1, <2>1 DEF WorkerInv, WorkerStateTypes
    <3>2. client[k] # "new" BY <1>1, <2>1, Parts DEF Opens, Of
    <3> QED BY <1>1, <1>2, <3>1, <3>2, UpChanges
  <2>2. CASE By[r] # k
    <3>1. up'[k] = up[k] BY <1>1, <2>2 DEF WorkerInv, WorkerStateTypes
    <3> QED BY <3>1, UpChanges, Parts
  <2> QED BY <2>1, <2>2
<1>4. up' \in [Clients -> Seq(UpMessages)] BY <1>1, <1>3 DEF WorkerInv, WorkerStateTypes
<1>5. WorkerStateTypes' BY <1>1, <1>4 DEF WorkerInv, WorkerStateTypes, WorkerTypeOK
<1>6. ASSUME NEW k \in Clients
      PROVE  \E d \in {0, 1} : \E e \in {0, 1} : \E n \in Nat : Quiet(k, e) /\ UpKept(k, d, n)
  <2>1. CallsKept(k) BY <1>1, Parts DEF CallsKept, Issued, Serves, Of
  <2>2. DownKept(k, 0) BY <1>1, DownChanges
  <2>3. client'[k] = "new" => \A q \in Of(k) : invoked'[q] = invoked[q]
    BY <1>1, Parts DEF Opens, Of
  <2>4. Quiet(k, 0) BY <1>1, <1>3, <2>1, <2>2, <2>3, Parts DEF Quiet
  <2> QED BY <1>3, <2>4, Parts
<1> QED BY <1>5, <1>6, Keeps

----------------------------------------------------------------------------
(* A client *)

\* The calls of a client that ends.
LEMMA RejectedCalls ==
  ASSUME WorkerInv, NEW k \in Clients, invoked' = CallsRejected(k)
  PROVE  /\ invoked' \in [Requests -> {"new", "waiting", "pending", "value", "rejected"}]
         /\ \A r \in Requests : invoked'[r] = invoked[r] \/ (r \in Of(k) /\ invoked'[r] = "rejected")
BY DEF WorkerInv, WorkerStateTypes, WorkerTypeOK, CallsRejected

LEMMA EndKeeps ==
  ASSUME WorkerInv, NEW k \in Clients, NEW how \in {"closed", "failed"}, NEW n \in Nat,
         client' = [client EXCEPT ![k] = how], invoked' = CallsRejected(k),
         \A j \in Clients : j # k => up'[j] = up[j],
         up' \in [Clients -> Seq(UpMessages)], UpKept(k, 0, n),
         UNCHANGED <<fits, host, connection, down, handler, published, since, got, seen>>
  PROVE  WorkerInv'
<1>1. WorkerStateTypes'
  <2>1. /\ client' \in [Clients -> {"new", "waiting", "ready", "closed", "failed"}]
        /\ \A j \in Clients : client'[j] = "ready" => client[j] = "ready"
    BY DEF WorkerInv, WorkerStateTypes, WorkerTypeOK
  <2> QED BY <2>1, RejectedCalls DEF WorkerInv, WorkerStateTypes, WorkerTypeOK
<1>2. ASSUME NEW j \in Clients
      PROVE  \E d \in {0, 1} : \E e \in {0, 1} : \E m \in Nat : Quiet(j, e) /\ UpKept(j, d, m)
  <2>1. CallsKept(j) BY RejectedCalls, Parts DEF CallsKept, Issued, Serves, Of
  <2>2. DownKept(j, 0) BY DownChanges
  <2>3. client'[j] = "new" => j # k /\ client[j] = "new" BY DEF WorkerInv, WorkerStateTypes, WorkerTypeOK
  <2>4. j # k => \A r \in Of(j) : invoked'[r] = invoked[r] BY RejectedCalls DEF Of
  <2>5. Quiet(j, 0) BY <2>1, <2>2, <2>3, <2>4, Parts DEF Quiet
  <2>6. CASE j = k BY <2>5, <2>6
  <2>7. CASE j # k
    <3>1. UpKept(j, 0, Len(up[j])) BY <2>7, UpChanges
    <3> QED BY <2>5, <3>1, Parts
  <2> QED BY <2>6, <2>7
<1> QED BY <1>1, <1>2, Keeps

\* A port that is closed, after a last message or none.
LEMMA ClosedPort ==
  ASSUME WorkerInv, NEW k \in Clients, NEW last \in {<<>>, <<[type |-> "disconnect"]>>},
         up' = [up EXCEPT ![k] = up[k] \o last \o <<Closed>>]
  PROVE  /\ up' \in [Clients -> Seq(UpMessages)] /\ UpKept(k, 0, Len(up[k]))
         /\ \A j \in Clients : j # k => up'[j] = up[j]
<1>1. up'[k] = up[k] \o last \o <<Closed>> BY DEF WorkerInv, WorkerStateTypes
<1>2. UpKept(k, 0, Len(up[k])) /\ up'[k] \in Seq(UpMessages) BY <1>1, UpChanges
<1> QED BY <1>2 DEF WorkerInv, WorkerStateTypes

LEMMA CloseKeeps ==
  ASSUME WorkerInv, NEW k \in Clients, Close(k) \/ HandshakeTimesOut(k)
  PROVE  WorkerInv'
<1>1. PICK how \in {"closed", "failed"}, last \in {<<>>, <<[type |-> "disconnect"]>>} :
        /\ client' = [client EXCEPT ![k] = how] /\ invoked' = CallsRejected(k)
        /\ up' = [up EXCEPT ![k] = up[k] \o last \o <<Closed>>]
        /\ UNCHANGED <<fits, host, connection, down, handler, published, since, got, seen>>
  <2>1. CASE Close(k) BY <2>1 DEF Close, End, events
  <2>2. CASE HandshakeTimesOut(k) BY <2>2 DEF HandshakeTimesOut, End, events
  <2> QED BY <2>1, <2>2
<1>2. /\ up' \in [Clients -> Seq(UpMessages)] /\ UpKept(k, 0, Len(up[k]))
      /\ \A j \in Clients : j # k => up'[j] = up[j]
  BY <1>1, ClosedPort
<1> QED BY <1>1, <1>2, EndKeeps, Parts

LEMMA KilledKeeps ==
  ASSUME WorkerInv, NEW k \in Clients, Killed(k)
  PROVE  WorkerInv'
<1>1. /\ client' = [client EXCEPT ![k] = "failed"] /\ invoked' = CallsRejected(k)
      /\ UNCHANGED <<fits, host, connection, down, handler, published, since, got, seen>>
  BY DEF Killed, events
<1>2. PICK n \in 0..Len(up[k]) : up' = [up EXCEPT ![k] = Append(SubSeq(up[k], 1, n), Closed)]
  BY DEF Killed
<1>3. n \in Nat /\ n <= Len(up[k]) /\ up[k] \in Seq(UpMessages) BY Parts
<1> DEFINE s == SubSeq(up[k], 1, n)
<1>4. s \in Seq(UpMessages) /\ Len(s) = n /\ \A i \in 1..n : s[i] = up[k][i] BY <1>3
<1> HIDE DEF s
<1>5. up'[k] = Append(s, Closed) /\ \A j \in Clients : j # k => up'[j] = up[j]
  BY <1>2 DEF s, WorkerInv, WorkerStateTypes
<1>6. Closed \in UpMessages BY DEF Closed, UpMessages
<1>7. /\ up'[k] \in Seq(UpMessages) /\ Len(up'[k]) = n + 1 /\ up'[k][n + 1] = Closed
      /\ \A i \in 1..n : up'[k][i] = up[k][i]
  BY <1>4, <1>5, <1>6, Appended
<1>8. UpKept(k, 0, n) BY <1>3, <1>7 DEF UpKept, Closed
<1>9. up' \in [Clients -> Seq(UpMessages)] BY <1>2, <1>5, <1>7 DEF WorkerInv, WorkerStateTypes
<1> QED BY <1>1, <1>3, <1>5, <1>8, <1>9, EndKeeps

LEMMA ConnectKeeps ==
  ASSUME WorkerInv, NEW k \in Clients, Connect(k)
  PROVE  WorkerInv'
<1>1. /\ client[k] = "new" /\ client' = [client EXCEPT ![k] = "waiting"]
      /\ up' = [up EXCEPT ![k] = Append(up[k], Hello)]
      /\ connection' = [connection EXCEPT ![k] = IF host = "open" THEN "open" ELSE "none"]
      /\ UNCHANGED <<fits, host, down, invoked, handler, published, since, got, seen>>
  BY DEF Connect, Send, events
<1>2. /\ connection[k] = "none" /\ up[k] = <<>> /\ down[k] = <<>> /\ got[k] = <<>>
      /\ \A r \in Of(k) : invoked[r] = "new"
  BY <1>1, Parts DEF Opens
<1>3. up'[k] = <<Hello>> /\ connection'[k] \in {"none", "open"} /\ client'[k] = "waiting"
  BY <1>1, <1>2 DEF WorkerInv, WorkerStateTypes, WorkerTypeOK
<1>4. Hello \in UpMessages BY DEF Hello, UpMessages
<1>5. up'[k] \in Seq(UpMessages) /\ Len(up'[k]) = 1 /\ up'[k][1] = Hello BY <1>3, <1>4
<1>6. WorkerStateTypes' BY <1>1, <1>3, <1>5 DEF WorkerInv, WorkerStateTypes, WorkerTypeOK
<1>7. Connected(k)'
  <2>1. \A r \in Of(k) : handler[r] = "none" BY <1>2, Parts DEF Serves, Issued
  <2>2. Opens(k)' BY <1>1, <1>2, <1>3, <2>1 DEF Opens, Of
  <2>3. Hellos(k)' BY <1>3, <1>5 DEF Hellos
  <2>4. Asks(k)' BY <1>5 DEF Asks, Hello
  <2>5. Serves(k)' BY <1>1, <2>1 DEF Serves, Of
  <2>6. Follows(k)' BY <1>1, <1>2, <1>3, Parts DEF Follows, Heard
  <2>7. Once(k)' BY <1>1, <1>2 DEF Once
  <2>8. Answers(k)' BY <1>1, <1>2 DEF Answers, Of
  <2> QED BY <2>2, <2>3, <2>4, <2>5, <2>6, <2>7, <2>8 DEF Connected
<1>8. ASSUME NEW j \in Clients, j # k
      PROVE  Connected(j)'
  BY <1>1, <1>6, <1>8, Untouched DEF WorkerInv, WorkerStateTypes, WorkerTypeOK
<1> QED BY <1>6, <1>7, <1>8, Concludes

LEMMA RequestKeeps ==
  ASSUME WorkerInv, NEW r \in Requests, RequestWhenReady(r)
  PROVE  WorkerInv'
<1> DEFINE message == [type |-> "request", request |-> r]
<1> DEFINE k == By[r]
<1>1. /\ invoked[r] = "waiting" /\ client[k] = "ready" /\ invoked' = [invoked EXCEPT ![r] = "pending"]
      /\ up' = [up EXCEPT ![k] = Append(up[k], message)]
      /\ UNCHANGED <<fits, host, client, connection, down, handler, published, since, got, seen>>
  BY DEF RequestWhenReady, Send, events
<1>2. message \in UpMessages /\ message.type = "request" /\ message.request = r BY DEF UpMessages
<1>3. k \in Clients /\ r \in Of(k) BY WorkerAssumption DEF WorkerInv, Of
<1> HIDE DEF message, k
<1>4. up'[k] = Append(up[k], message) /\ \A j \in Clients : j # k => up'[j] = up[j]
  BY <1>1, <1>3 DEF WorkerInv, WorkerStateTypes
<1>5. /\ up'[k] \in Seq(UpMessages) /\ Len(up'[k]) = Len(up[k]) + 1 /\ Len(up[k]) \in Nat
      /\ \A i \in 1..Len(up[k]) : up'[k][i] = up[k][i]
      /\ up'[k][Len(up[k]) + 1] = message
  BY <1>2, <1>3, <1>4, Appended, Parts
<1>6. /\ invoked'[r] = "pending" /\ \A q \in Requests : q # r => invoked'[q] = invoked[q]
      /\ invoked' \in [Requests -> {"new", "waiting", "pending", "value", "rejected"}]
  BY <1>1 DEF WorkerInv, WorkerStateTypes, WorkerTypeOK
<1>7. WorkerStateTypes'
  <2>1. up' \in [Clients -> Seq(UpMessages)] BY <1>1, <1>5 DEF WorkerInv, WorkerStateTypes
  <2> QED BY <1>1, <1>6, <2>1 DEF WorkerInv, WorkerStateTypes, WorkerTypeOK
<1>8. CallsKept(k) BY <1>1, <1>3, <1>6, Parts DEF CallsKept, Issued, Serves, Of
<1>9. Connected(k)'
  <2>1. DownKept(k, 0) BY <1>1, <1>3, DownChanges
  <2>2. Moves(k, 0) BY <1>1, <1>3, <1>8, <2>1, Parts DEF Moves, CallsKept, CallsMove
  <2>3. Follows(k)' /\ Once(k)' /\ Answers(k)' BY <1>3, <1>7, <2>2, Told
  <2>4. Opens(k)' BY <1>1, <1>3, Parts DEF Opens
  <2>5. Hellos(k)' BY <1>1, <1>2, <1>3, <1>5, Parts DEF Hellos
  <2>6. Serves(k)' BY <1>1, <1>3, <1>8, Parts DEF Serves, CallsKept, Issued, Of
  <2>7. handler[r] = "none" BY <1>1, <1>3, Parts DEF Serves, Issued
  <2>8. \A i \in 1..Len(up[k]) : up[k][i].type = "request" => up[k][i].request # r
    BY <1>1, <1>3, Parts DEF Asks, Issued
  <2>9. Asks(k)'
    <3> SUFFICES ASSUME NEW i \in 1..Len(up'[k]), up'[k][i].type = "request"
                 PROVE  /\ By[up'[k][i].request] = k /\ handler'[up'[k][i].request] = "none"
                        /\ invoked'[up'[k][i].request] \notin {"new", "waiting"}
                        /\ \A j \in 1..Len(up'[k]) : up'[k][j].type = "request"
                             /\ up'[k][j].request = up'[k][i].request => j = i
      BY DEF Asks, Issued
    <3>1. up'[k][i].type = "request" OBVIOUS
    <3>2. CASE i = Len(up[k]) + 1
      <4>1. \A j \in 1..Len(up'[k]) : up'[k][j].type = "request" /\ up'[k][j].request = r => j = i
        BY <1>5, <2>8, <3>2
      <4> QED BY <1>1, <1>2, <1>5, <1>6, <2>7, <3>2, <4>1 DEF k
    <3>3. CASE i # Len(up[k]) + 1
      <4>1. i \in 1..Len(up[k]) /\ up'[k][i] = up[k][i] BY <1>5, <3>3
      <4>2. /\ By[up[k][i].request] = k /\ Issued(up[k][i].request) /\ handler[up[k][i].request] = "none"
            /\ \A j \in 1..Len(up[k]) :
                 up[k][j].type = "request" /\ up[k][j].request = up[k][i].request => j = i
        BY <1>3, <3>1, <4>1, Parts DEF Asks
      <4>3. up[k][i].request \in Requests /\ up[k][i].request # r
        BY <1>3, <2>8, <3>1, <4>1, Mailed
      <4>4. \A j \in 1..Len(up'[k]) :
              up'[k][j].type = "request" /\ up'[k][j].request = up[k][i].request => j = i
        <5> TAKE j \in 1..Len(up'[k])
        <5>1. CASE j = Len(up[k]) + 1 BY <1>2, <1>5, <4>3, <5>1
        <5>2. CASE j # Len(up[k]) + 1
          <6>1. j \in 1..Len(up[k]) /\ up'[k][j] = up[k][j] BY <1>5, <5>2
          <6> QED BY <4>2, <6>1
        <5> QED BY <5>1, <5>2
      <4>5. /\ handler'[up[k][i].request] = handler[up[k][i].request]
            /\ invoked'[up[k][i].request] = invoked[up[k][i].request]
        BY <1>1, <1>6, <4>3
      <4> QED BY <4>1, <4>2, <4>4, <4>5 DEF Issued
    <3> QED BY <3>2, <3>3
  <2> QED BY <2>3, <2>4, <2>5, <2>6, <2>9 DEF Connected
<1>10. ASSUME NEW j \in Clients, j # k
       PROVE  Connected(j)'
  <2>1. r \notin Of(j) BY <1>10 DEF Of, k
  <2> QED BY <1>1, <1>4, <1>6, <1>7, <1>10, <2>1, Untouched DEF Of
<1> QED BY <1>7, <1>9, <1>10, Concludes

\* The first message on its way to a client.
LEMMA FirstDown ==
  ASSUME WorkerInv, NEW k \in Clients, down[k] # <<>>, down' = [down EXCEPT ![k] = Tail(down[k])]
  PROVE  /\ Head(down[k]) = down[k][1] /\ 1 \in 1..Len(down[k]) /\ connection[k] \notin {"none", "open"}
         /\ down' \in [Clients -> Seq(DownMessages)] /\ down'[k] = Tail(down[k])
         /\ Len(down'[k]) = Len(down[k]) - 1 /\ Len(down[k]) \in Nat
         /\ \A i \in 1..Len(down'[k]) : down'[k][i] = down[k][i + 1]
         /\ \A j \in Clients : j # k => down'[j] = down[j]
         /\ down[k][1].type # "event" => DownKept(k, 1)
<1>1. down'[k] = Tail(down[k]) /\ \A j \in Clients : j # k => down'[j] = down[j] BY DEF WorkerInv, WorkerStateTypes
<1>2. /\ Tail(down[k]) \in Seq(DownMessages) /\ Len(down[k]) \in Nat \ {0}
      /\ Len(Tail(down[k])) = Len(down[k]) - 1 /\ Head(down[k]) = down[k][1]
      /\ \A i \in 1..Len(Tail(down[k])) : Tail(down[k])[i] = down[k][i + 1]
  <2>1. down[k] \in Seq(DownMessages) BY Parts
  <2> QED BY <2>1, Shortened
<1>3. down' \in [Clients -> Seq(DownMessages)] BY <1>2 DEF WorkerInv, WorkerStateTypes
<1>4. down[k][1].type # "event" => DownKept(k, 1) BY <1>1, DownChanges
<1>5. connection[k] \notin {"none", "open"} BY Parts DEF Opens
<1> QED BY <1>1, <1>2, <1>3, <1>4, <1>5

\* An answer finds the events before it heard.
LEMMA AnswerIsLate ==
  ASSUME WorkerInv, NEW k \in Clients, down[k] # <<>>, down[k][1].type = "response"
  PROVE  /\ down[k][1].request \in Of(k) /\ handler[down[k][1].request] = "done"
         /\ seen[down[k][1].request] <= Heard(k)
<1>1. 1 \in 1..Len(down[k])
  <2>1. down[k] \in Seq(DownMessages) BY Parts
  <2> QED BY <2>1
<1>2. down[k][1].request \in Requests BY <1>1, Posted
<1>3. /\ By[down[k][1].request] = k /\ handler[down[k][1].request] = "done"
      /\ \A n \in Nat : Heard(k) < n /\ n <= seen[down[k][1].request] => Comes(k, n, 1)
  BY <1>1, Parts DEF Answers
<1>4. \A n \in Nat : ~Comes(k, n, 1) BY DEF Comes
<1>5. seen[down[k][1].request] \in Nat /\ Heard(k) \in Nat BY <1>2, Parts
<1>6. seen[down[k][1].request] <= Heard(k) BY <1>3, <1>4, <1>5
<1> QED BY <1>2, <1>3, <1>6 DEF Of

\* The first event on its way is the next.
LEMMA EventIsNext ==
  ASSUME WorkerInv, NEW k \in Clients, down[k] # <<>>, down[k][1].type = "event"
  PROVE  down[k][1].number = Heard(k) + 1
<1>1. 1 \in 1..Len(down[k])
  <2>1. down[k] \in Seq(DownMessages) BY Parts
  <2> QED BY <2>1
<1>2. /\ Heard(k) < down[k][1].number
      /\ \A n \in Nat : Heard(k) < n /\ n < down[k][1].number => Comes(k, n, 1)
  BY <1>1, Parts DEF Follows
<1>3. \A n \in Nat : ~Comes(k, n, 1) BY DEF Comes
<1>4. down[k][1].number \in Nat /\ Heard(k) \in Nat BY <1>1, Posted, Parts
<1>5. Heard(k) + 1 \in Nat /\ Heard(k) < Heard(k) + 1 BY <1>4
<1>6. ~(Heard(k) + 1 < down[k][1].number) BY <1>2, <1>3, <1>5
<1> QED BY <1>2, <1>4, <1>6

LEMMA IsEvent ==
  ASSUME NEW m \in DownMessages, m.type = "event"
  PROVE  m = Event(m.number)
BY DEF DownMessages, Event

\* A client takes the event that is next.
LEMMA EventRead ==
  ASSUME WorkerInv, NEW k \in Clients, down[k] # <<>>, down[k][1].type = "event",
         down' = [down EXCEPT ![k] = Tail(down[k])],
         got' = [got EXCEPT ![k] = Append(got[k], down[k][1].number)],
         UNCHANGED <<fits, host, client, connection, up, invoked, handler, published, since, seen>>
  PROVE  WorkerInv'
<1>1. /\ down' \in [Clients -> Seq(DownMessages)]
      /\ Len(down'[k]) = Len(down[k]) - 1 /\ Len(down[k]) \in Nat /\ 1 \in 1..Len(down[k])
      /\ \A i \in 1..Len(down'[k]) : down'[k][i] = down[k][i + 1]
      /\ \A j \in Clients : j # k => down'[j] = down[j]
      /\ connection[k] \notin {"none", "open"}
  BY FirstDown
<1>2. down[k][1].number = Heard(k) + 1 /\ Heard(k) \in Nat BY EventIsNext, Parts
<1>3. down[k][1].number \in Nat BY <1>2
<1>4. /\ got'[k] \in Seq(Nat) /\ Len(got'[k]) = Len(got[k]) + 1 /\ Len(got[k]) \in Nat
      /\ \A i \in 1..Len(got[k]) : got'[k][i] = got[k][i]
      /\ got'[k][Len(got[k]) + 1] = Heard(k) + 1
      /\ \A j \in Clients : j # k => got'[j] = got[j]
  <2>1. got'[k] = Append(got[k], down[k][1].number) /\ \A j \in Clients : j # k => got'[j] = got[j]
    BY DEF WorkerInv, WorkerStateTypes
  <2> QED BY <1>2, <1>3, <2>1, Appended, Parts
<1>5. WorkerStateTypes'
  <2>1. got' \in [Clients -> Seq(Nat)] BY <1>4 DEF WorkerInv, WorkerStateTypes
  <2> QED BY <1>1, <2>1 DEF WorkerInv, WorkerStateTypes, WorkerTypeOK
<1>6. Heard(k)' = Heard(k) + 1
  <2>1. since'[k] = since[k] /\ since[k] \in Nat BY Parts
  <2> QED BY <1>4, <2>1 DEF Heard
<1>7. \A i \in 1..Len(down'[k]) : /\ i + 1 \in 1..Len(down[k]) /\ down'[k][i] = down[k][i + 1]
                                  /\ i + 1 # 1
  BY <1>1
<1>8. ASSUME NEW n \in Nat, NEW j \in Nat, Heard(k) + 1 < n, Comes(k, n, j + 1)
      PROVE  Comes(k, n, j)'
  <2>1. PICK i \in 1..Len(down[k]) : i < j + 1 /\ down[k][i] = Event(n) BY <1>8 DEF Comes
  <2>2. i # 1 BY <1>2, <1>8, <2>1 DEF Event
  <2>3. i - 1 \in 1..Len(down'[k]) /\ i - 1 < j /\ (i - 1) + 1 = i BY <1>1, <2>1, <2>2
  <2>4. down'[k][i - 1] = Event(n) BY <1>1, <2>1, <2>3
  <2> QED BY <2>3, <2>4 DEF Comes, Event
<1>9. Follows(k)'
  <2>1. ASSUME NEW i \in 1..Len(down'[k]), down'[k][i].type = "event"
        PROVE  /\ Heard(k)' < down'[k][i].number /\ down'[k][i].number <= published'
               /\ \A n \in Nat : Heard(k)' < n /\ n < down'[k][i].number => Comes(k, n, i)'
    <3>1. i + 1 \in 1..Len(down[k]) /\ down'[k][i] = down[k][i + 1] /\ i + 1 # 1 BY <1>7
    <3>2. /\ Heard(k) < down[k][i + 1].number /\ down[k][i + 1].number <= published
          /\ \A n \in Nat : Heard(k) < n /\ n < down[k][i + 1].number => Comes(k, n, i + 1)
      BY <2>1, <3>1, Parts DEF Follows
    <3>3. down[k][i + 1].number \in Nat BY <2>1, <3>1, Posted
    <3>4. down[k][i + 1].number # Heard(k) + 1
      <4>1. down[k][1] \in DownMessages /\ down[k][i + 1] \in DownMessages
        BY <1>1, <3>1, Parts
      <4>2. down[k][1] = Event(down[k][1].number) /\ down[k][i + 1] = Event(down[k][i + 1].number)
        BY <2>1, <3>1, <4>1, IsEvent
      <4>3. down[k][1] # down[k][i + 1] BY <1>1, <3>1, Parts DEF Once
      <4> QED BY <1>2, <4>2, <4>3
    <3>5. ASSUME NEW n \in Nat, Heard(k) + 1 < n, n < down[k][i + 1].number
          PROVE  Comes(k, n, i)'
      <4>1. Comes(k, n, i + 1) BY <1>2, <3>2, <3>5
      <4> QED BY <1>8, <3>5, <4>1
    <3> QED BY <1>2, <1>6, <3>1, <3>2, <3>3, <3>4, <3>5
  <2>2. ASSUME connection'[k] = "accepted", NEW n \in Nat, Heard(k)' < n, n <= published'
        PROVE  Comes(k, n, Len(down[k]) + 1)'
    <3>1. Comes(k, n, Len(down[k]) + 1) BY <1>2, <1>6, <2>2, Parts DEF Follows
    <3>2. PICK i \in 1..Len(down[k]) : down[k][i] = Event(n) BY <3>1 DEF Comes
    <3>3. i # 1 BY <1>2, <1>6, <2>2, <3>2 DEF Event
    <3>4. i - 1 \in 1..Len(down'[k]) /\ i - 1 < Len(down'[k]) + 1 /\ (i - 1) + 1 = i BY <1>1, <3>2, <3>3
    <3>5. down'[k][i - 1] = Event(n) BY <1>1, <3>2, <3>4
    <3> QED BY <3>4, <3>5 DEF Comes, Event
  <2>3. \A n \in 1..Len(got'[k]) : got'[k][n] = since'[k] + n BY <1>4, Parts DEF Follows, Heard
  <2>4. Heard(k)' <= published'
    <3>1. 1 \in 1..Len(down[k]) /\ down[k][1].type = "event" BY <1>1
    <3>2. down[k][1].number <= published BY <3>1, Parts DEF Follows
    <3> QED BY <1>2, <1>6, <3>2
  <2> QED BY <2>1, <2>2, <2>3, <2>4 DEF Follows
<1>10. Once(k)'
  <2>1. ASSUME NEW i \in 1..Len(down'[k]), NEW j \in 1..Len(down'[k]), down'[k][i].type = "event",
               down'[k][j] = down'[k][i]
        PROVE  i = j
    <3>1. i + 1 = j + 1 BY <1>7, <2>1, Parts DEF Once
    <3> QED BY <3>1
  <2> QED BY <2>1 DEF Once
<1>11. Answers(k)'
  <2>1. ASSUME NEW r \in Of(k), invoked[r] = "value"
        PROVE  handler[r] = "done" /\ seen[r] <= Heard(k) + 1
    BY <1>2, <2>1, Parts DEF Answers, Of
  <2>2. ASSUME NEW i \in 1..Len(down'[k]), down'[k][i].type = "response"
        PROVE  /\ By[down'[k][i].request] = k /\ handler[down'[k][i].request] = "done"
               /\ \A n \in Nat : Heard(k)' < n /\ n <= seen[down'[k][i].request] => Comes(k, n, i)'
    <3>1. i + 1 \in 1..Len(down[k]) /\ down'[k][i] = down[k][i + 1] BY <1>7
    <3>2. /\ By[down[k][i + 1].request] = k /\ handler[down[k][i + 1].request] = "done"
          /\ \A n \in Nat : Heard(k) < n /\ n <= seen[down[k][i + 1].request] => Comes(k, n, i + 1)
      BY <2>2, <3>1, Parts DEF Answers
    <3>3. ASSUME NEW n \in Nat, Heard(k) + 1 < n, n <= seen[down[k][i + 1].request]
          PROVE  Comes(k, n, i)'
      <4>1. Comes(k, n, i + 1) BY <1>2, <3>2, <3>3
      <4> QED BY <1>8, <3>3, <4>1
    <3> QED BY <1>6, <3>1, <3>2, <3>3
  <2> QED BY <1>6, <2>1, <2>2 DEF Answers, Of
<1>12. Connected(k)'
  <2>1. Opens(k)' /\ Hellos(k)' /\ Asks(k)' /\ Serves(k)'
    BY <1>1, Parts DEF Opens, Hellos, Asks, Serves, Issued, Of
  <2> QED BY <2>1, <1>9, <1>10, <1>11 DEF Connected
<1>13. ASSUME NEW j \in Clients, j # k
       PROVE  Connected(j)'
  BY <1>1, <1>4, <1>5, <1>13, Untouched
<1> QED BY <1>5, <1>12, <1>13, Concludes

\* A client reads that it is welcome.
LEMMA WelcomeRead ==
  ASSUME WorkerInv, NEW k \in Clients, down[k] # <<>>, down[k][1].type = "welcome", k \in fits,
         down' = [down EXCEPT ![k] = Tail(down[k])], client' = [client EXCEPT ![k] = "ready"],
         UNCHANGED <<fits, host, connection, up, invoked, handler, published, since, got, seen>>
  PROVE  WorkerInv'
<1>1. /\ down' \in [Clients -> Seq(DownMessages)] /\ connection[k] \notin {"none", "open"}
      /\ \A j \in Clients : j # k => down'[j] = down[j]
      /\ down[k][1].type # "event" => DownKept(k, 1)
  BY FirstDown
<1>2. client'[k] = "ready" /\ \A j \in Clients : j # k => client'[j] = client[j]
  BY DEF WorkerInv, WorkerStateTypes, WorkerTypeOK
<1>3. WorkerStateTypes' BY <1>1, <1>2 DEF WorkerInv, WorkerStateTypes, WorkerTypeOK
<1>4. Connected(k)'
  <2>1. CallsKept(k) BY Parts DEF CallsKept, Issued, Serves
  <2>2. Quiet(k, 1) BY <1>1, <1>2, <2>1, Parts DEF Quiet
  <2>3. UpKept(k, 0, Len(up[k])) /\ Len(up[k]) \in Nat BY UpChanges, Parts
  <2> QED BY <1>3, <2>2, <2>3, QuietKeeps
<1>5. ASSUME NEW j \in Clients, j # k
      PROVE  Connected(j)'
  BY <1>1, <1>2, <1>3, <1>5, Untouched
<1> QED BY <1>3, <1>4, <1>5, Concludes

\* A client reads an answer.
LEMMA AnswerRead ==
  ASSUME WorkerInv, NEW k \in Clients, down[k] # <<>>, down[k][1].type = "response",
         NEW answer \in {"value", "rejected"}, down' = [down EXCEPT ![k] = Tail(down[k])],
         invoked' = [invoked EXCEPT ![down[k][1].request] = IF @ # "pending" THEN @ ELSE answer],
         UNCHANGED <<fits, host, client, connection, up, handler, published, since, got, seen>>
  PROVE  WorkerInv'
<1> DEFINE r == down[k][1].request
<1>1. /\ down' \in [Clients -> Seq(DownMessages)] /\ connection[k] \notin {"none", "open"}
      /\ \A j \in Clients : j # k => down'[j] = down[j]
      /\ down[k][1].type # "event" => DownKept(k, 1)
  BY FirstDown
<1>2. r \in Of(k) /\ r \in Requests /\ handler[r] = "done" /\ seen[r] <= Heard(k)
  BY AnswerIsLate DEF Of
<1>3. /\ invoked'[r] = IF invoked[r] # "pending" THEN invoked[r] ELSE answer
      /\ \A q \in Requests : q # r => invoked'[q] = invoked[q]
      /\ invoked' \in [Requests -> {"new", "waiting", "pending", "value", "rejected"}]
  BY <1>2 DEF WorkerInv, WorkerStateTypes, WorkerTypeOK
<1> HIDE DEF r
<1>4. WorkerStateTypes' BY <1>1, <1>3 DEF WorkerInv, WorkerStateTypes, WorkerTypeOK
<1>5. Connected(k)'
  <2>1. CallsKept(k) BY <1>2, <1>3, Parts DEF CallsKept, Issued, Serves, Of
  <2>2. client[k] # "new" BY <1>1, Parts DEF Opens
  <2>3. Quiet(k, 1) BY <1>1, <2>1, <2>2, Parts DEF Quiet
  <2>4. UpKept(k, 0, Len(up[k])) /\ Len(up[k]) \in Nat BY UpChanges, Parts
  <2> QED BY <1>4, <2>3, <2>4, QuietKeeps
<1>6. ASSUME NEW j \in Clients, j # k
      PROVE  Connected(j)'
  <2>1. \A q \in Of(j) : invoked'[q] = invoked[q] BY <1>2, <1>3, <1>6 DEF Of
  <2> QED BY <1>1, <1>4, <1>6, <2>1, Untouched
<1> QED BY <1>4, <1>5, <1>6, Concludes

\* A client reads that it is not welcome, or that its connection has ended.
LEMMA EndRead ==
  ASSUME WorkerInv, NEW k \in Clients, down[k] # <<>>, down[k][1].type # "event",
         down' = [down EXCEPT ![k] = Tail(down[k])], End(k, "failed", <<>>),
         UNCHANGED <<fits, host, connection, handler, published, since, got, seen>>
  PROVE  WorkerInv'
<1>1. /\ down' \in [Clients -> Seq(DownMessages)] /\ connection[k] \notin {"none", "open"}
      /\ \A j \in Clients : j # k => down'[j] = down[j]
      /\ down[k][1].type # "event" => DownKept(k, 1)
  BY FirstDown
<1>2. /\ client' = [client EXCEPT ![k] = "failed"] /\ invoked' = CallsRejected(k)
      /\ up' = [up EXCEPT ![k] = up[k] \o <<>> \o <<Closed>>]
  BY DEF End
<1>3. /\ up' \in [Clients -> Seq(UpMessages)] /\ UpKept(k, 0, Len(up[k])) /\ Len(up[k]) \in Nat
      /\ \A j \in Clients : j # k => up'[j] = up[j]
  BY <1>2, ClosedPort, Parts
<1>4. /\ client'[k] = "failed" /\ \A j \in Clients : j # k => client'[j] = client[j]
      /\ client' \in [Clients -> {"new", "waiting", "ready", "closed", "failed"}]
  BY <1>2 DEF WorkerInv, WorkerStateTypes, WorkerTypeOK
<1>5. WorkerStateTypes' BY <1>1, <1>2, <1>3, <1>4, RejectedCalls DEF WorkerInv, WorkerStateTypes, WorkerTypeOK
<1>6. Connected(k)'
  <2>1. CallsKept(k) BY <1>2, RejectedCalls, Parts DEF CallsKept, Issued, Serves, Of
  <2>2. Quiet(k, 1) BY <1>1, <1>4, <2>1, Parts DEF Quiet
  <2> QED BY <1>3, <1>5, <2>2, QuietKeeps
<1>7. ASSUME NEW j \in Clients, j # k
      PROVE  Connected(j)'
  <2>1. \A q \in Of(j) : invoked'[q] = invoked[q] BY <1>2, <1>7, RejectedCalls DEF Of
  <2> QED BY <1>1, <1>3, <1>4, <1>5, <1>7, <2>1, Untouched
<1> QED BY <1>5, <1>6, <1>7, Concludes

LEMMA ClientReadsKeeps ==
  ASSUME WorkerInv, NEW k \in Clients, ClientReads(k)
  PROVE  WorkerInv'
<1> DEFINE m == down[k][1]
<1>1. /\ down[k] # <<>> /\ down' = [down EXCEPT ![k] = Tail(down[k])]
      /\ UNCHANGED <<fits, host, connection, handler, published, since, seen>>
  BY DEF ClientReads
<1>2. Head(down[k]) = m BY <1>1, FirstDown
<1>3. m.type \in {"close", "disconnect", "welcome", "response", "event"}
      /\ (m.type = "response" => m.ok \in BOOLEAN)
  <2>1. m \in DownMessages BY <1>1, FirstDown, Parts
  <2> QED BY <2>1 DEF DownMessages
<1>4. CASE m.type = "welcome" /\ m.accepted /\ k \in fits
  <2>1. client' = [client EXCEPT ![k] = "ready"] /\ UNCHANGED <<up, invoked, got>>
    BY <1>2, <1>4 DEF ClientReads
  <2> QED BY <1>1, <1>4, <2>1, WelcomeRead
<1>5. CASE m.type = "response"
  <2>1. /\ invoked' = [invoked EXCEPT ![m.request] =
             IF @ # "pending" THEN @ ELSE IF m.ok THEN "value" ELSE "rejected"]
        /\ UNCHANGED <<client, up, got>>
    BY <1>2, <1>5 DEF ClientReads
  <2>2. PICK answer \in {"value", "rejected"} : answer = IF m.ok THEN "value" ELSE "rejected"
    BY <1>3, <1>5
  <2>3. invoked' = [invoked EXCEPT ![m.request] = IF @ # "pending" THEN @ ELSE answer]
    BY <2>1, <2>2
  <2> QED BY <1>1, <1>5, <2>1, <2>3, AnswerRead
<1>6. CASE m.type = "event"
  <2>1. got' = [got EXCEPT ![k] = Append(got[k], m.number)] /\ UNCHANGED <<client, up, invoked>>
    BY <1>2, <1>6 DEF ClientReads
  <2> QED BY <1>1, <1>6, <2>1, EventRead
<1>7. CASE /\ ~(m.type = "welcome" /\ m.accepted /\ k \in fits)
           /\ m.type \notin {"response", "event"}
  <2>1. End(k, "failed", <<>>) /\ UNCHANGED got BY <1>2, <1>7 DEF ClientReads
  <2> QED BY <1>1, <1>7, <2>1, EndRead
<1> QED BY <1>4, <1>5, <1>6, <1>7

----------------------------------------------------------------------------
(* The host *)

\* Handlers that are halted, and connections that are gone with all of theirs.
HandlersHalt ==
  /\ handler' \in [Requests -> {"none", "running", "halted", "done"}]
  /\ \A r \in Requests :
       /\ handler'[r] = handler[r] \/ (handler[r] = "running" /\ handler'[r] = "halted")
       /\ handler'[r] = "running" => connection'[By[r]] = "accepted"
ConnectionsGo ==
  /\ connection' \in [Clients -> {"none", "open", "accepted", "gone"}]
  /\ \A k \in Clients : connection'[k] = connection[k] \/ (connection[k] # "none" /\ connection'[k] = "gone")

\* What the host does without reading: handlers are halted, and connections go.
LEMMA HaltKeeps ==
  ASSUME WorkerInv, HandlersHalt, ConnectionsGo,
         UNCHANGED <<fits, client, up, invoked, published, since, got, seen>>,
          host' \in {"open", "closing", "closed"}, down' \in [Clients -> Seq(DownMessages)],
         \A k \in Clients : /\ DownKept(k, 0)
                            /\ connection'[k] \in {"none", "open"} => down'[k] = down[k]
  PROVE  WorkerInv'
<1>1. WorkerStateTypes' BY DEF WorkerInv, WorkerStateTypes, WorkerTypeOK, HandlersHalt, ConnectionsGo
<1>2. ASSUME NEW k \in Clients
      PROVE  \E d \in {0, 1} : \E e \in {0, 1} : \E n \in Nat : Quiet(k, e) /\ UpKept(k, d, n)
  <2>1. CallsKept(k) BY Parts DEF CallsKept, HandlersHalt, Issued, Of
  <2>2. client'[k] = "new" => connection'[k] = connection[k] BY Parts DEF Opens, ConnectionsGo
  <2>3. Quiet(k, 0) BY <2>1, <2>2, Parts DEF Quiet, ConnectionsGo
  <2>4. UpKept(k, 0, Len(up[k])) /\ Len(up[k]) \in Nat BY UpChanges, Parts
  <2> QED BY <2>3, <2>4
<1> QED BY <1>1, <1>2, Keeps

LEMMA HostClosesKeeps ==
  ASSUME WorkerInv, HostCloses
  PROVE  WorkerInv'
<1> DEFINE m == [type |-> "disconnect"]
<1>1. /\ host' = "closing"
      /\ down' = [k \in Clients |-> IF Accepted(k) THEN Append(down[k], m) ELSE down[k]]
      /\ UNCHANGED <<fits, client, connection, up, invoked, handler, published, since, got, seen>>
  BY DEF HostCloses, events
<1>2. m \in DownMessages /\ m.type \notin {"event", "response"} BY DEF DownMessages
<1> HIDE DEF m
<1>3. ASSUME NEW k \in Clients
      PROVE  /\ DownKept(k, 0) /\ down'[k] \in Seq(DownMessages)
             /\ connection'[k] \in {"none", "open"} => down'[k] = down[k]
  <2>1. CASE Accepted(k)
    <3>1. down'[k] = Append(down[k], m) BY <1>1, <2>1
    <3> QED BY <1>1, <1>2, <2>1, <3>1, DownChanges DEF Accepted
  <2>2. CASE ~Accepted(k)
    <3>1. down'[k] = down[k] BY <1>1, <2>2
    <3> QED BY <3>1, DownChanges, Parts
  <2> QED BY <2>1, <2>2
<1>4. down' \in [Clients -> Seq(DownMessages)] BY <1>1, <1>3
<1>5. HandlersHalt
  <2>1. ASSUME NEW r \in Requests
        PROVE  handler[r] = "running" => connection[By[r]] = "accepted"
    <3>1. By[r] \in Clients /\ r \in Of(By[r]) BY WorkerAssumption DEF WorkerInv, Of
    <3> QED BY <3>1, Parts DEF Serves
  <2> QED BY <1>1, <2>1 DEF HandlersHalt, WorkerInv, WorkerStateTypes, WorkerTypeOK
<1>6. ConnectionsGo BY <1>1 DEF ConnectionsGo, WorkerInv, WorkerStateTypes, WorkerTypeOK
<1> QED BY <1>1, <1>3, <1>4, <1>5, <1>6, HaltKeeps

LEMMA HostEndsKeeps ==
  ASSUME WorkerInv, HostEnds
  PROVE  WorkerInv'
<1>1. /\ host' = "closed"
      /\ handler' = [r \in Requests |-> IF handler[r] = "running" THEN "halted" ELSE handler[r]]
      /\ connection' = [k \in Clients |-> IF connection[k] = "none" THEN "none" ELSE "gone"]
      /\ down' = [k \in Clients |->
           IF connection[k] \in {"open", "accepted"} THEN Append(down[k], Closed) ELSE down[k]]
      /\ UNCHANGED <<fits, client, up, invoked, published, since, got, seen>>
  BY DEF HostEnds, events
<1>2. Closed \in DownMessages /\ Closed.type \notin {"event", "response"}
  BY DEF DownMessages, Closed
<1>3. ASSUME NEW k \in Clients
      PROVE  /\ DownKept(k, 0) /\ down'[k] \in Seq(DownMessages)
             /\ connection'[k] \in {"none", "open"} => down'[k] = down[k]
  <2>1. CASE connection[k] \in {"open", "accepted"}
    <3>1. down'[k] = Append(down[k], Closed) BY <1>1, <2>1
    <3> QED BY <1>1, <1>2, <2>1, <3>1, DownChanges
  <2>2. CASE connection[k] \notin {"open", "accepted"}
    <3>1. down'[k] = down[k] BY <1>1, <2>2
    <3> QED BY <3>1, DownChanges, Parts
  <2> QED BY <2>1, <2>2
<1>4. down' \in [Clients -> Seq(DownMessages)] BY <1>1, <1>3
<1>5. HandlersHalt BY <1>1 DEF HandlersHalt, WorkerInv, WorkerStateTypes, WorkerTypeOK
<1>6. ConnectionsGo BY <1>1 DEF ConnectionsGo, WorkerInv, WorkerStateTypes, WorkerTypeOK
<1> QED BY <1>1, <1>3, <1>4, <1>5, <1>6, HaltKeeps

\* A connection that is forgotten, whatever the host reads or tells the client last.
LEMMA DisconnectHalts ==
  ASSUME WorkerInv, NEW k \in Clients, NEW last \in {<<>>, <<Welcome(FALSE)>>}, DisconnectConnection(k, last),
         connection[k] # "none"
  PROVE  /\ HandlersHalt /\ ConnectionsGo /\ down' \in [Clients -> Seq(DownMessages)]
         /\ connection'[k] = "gone"
         /\ \A j \in Clients : /\ DownKept(j, 0)
                               /\ connection'[j] \in {"none", "open"} => down'[j] = down[j]
<1>1. /\ connection' = [connection EXCEPT ![k] = "gone"] /\ handler' = Halted(k)
      /\ down' = [down EXCEPT ![k] = down[k] \o last \o <<Closed>>]
  BY DEF DisconnectConnection
<1>2. /\ connection'[k] = "gone" /\ down'[k] = down[k] \o last \o <<Closed>>
      /\ \A j \in Clients : j # k => connection'[j] = connection[j] /\ down'[j] = down[j]
  BY <1>1 DEF WorkerInv, WorkerStateTypes, WorkerTypeOK
<1>3. DownKept(k, 0) /\ down'[k] \in Seq(DownMessages) BY <1>2, DownChanges
<1>4. ASSUME NEW j \in Clients
      PROVE  DownKept(j, 0) /\ (connection'[j] \in {"none", "open"} => down'[j] = down[j])
  BY <1>2, <1>3, DownChanges
<1>5. down' \in [Clients -> Seq(DownMessages)] BY <1>1, <1>3 DEF WorkerInv, WorkerStateTypes
<1>6. ConnectionsGo BY <1>1 DEF ConnectionsGo, WorkerInv, WorkerStateTypes, WorkerTypeOK
<1>7. HandlersHalt
  <2>1. ASSUME NEW r \in Requests
        PROVE  /\ handler'[r] = handler[r] \/ (handler[r] = "running" /\ handler'[r] = "halted")
               /\ handler'[r] = "running" => connection'[By[r]] = "accepted"
    <3>1. By[r] \in Clients /\ r \in Of(By[r]) BY WorkerAssumption DEF WorkerInv, Of
    <3>2. handler[r] = "running" => connection[By[r]] = "accepted" BY <3>1, Parts DEF Serves
    <3>3. CASE By[r] = k BY <1>1, <3>3 DEF Halted, Of
    <3>4. CASE By[r] # k BY <1>1, <1>2, <3>1, <3>2, <3>4 DEF Halted, Of
    <3> QED BY <3>3, <3>4
  <2>2. handler' \in [Requests -> {"none", "running", "halted", "done"}]
    BY <1>1 DEF Halted, WorkerInv, WorkerStateTypes, WorkerTypeOK
  <2> QED BY <2>1, <2>2 DEF HandlersHalt
<1> QED BY <1>2, <1>4, <1>5, <1>6, <1>7

\* A message is posted to client k.
LEMMA Posts ==
  ASSUME WorkerInv, NEW k \in Clients, NEW m \in DownMessages, down'[k] = Append(down[k], m)
  PROVE  /\ down'[k] \in Seq(DownMessages) /\ Len(down'[k]) = Len(down[k]) + 1 /\ Len(down[k]) \in Nat
         /\ \A i \in 1..Len(down[k]) : down'[k][i] = down[k][i]
         /\ down'[k][Len(down[k]) + 1] = m
         /\ \A n \in Nat : \A j \in Nat : Comes(k, n, j) => Comes(k, n, j)'
<1>1. /\ down'[k] \in Seq(DownMessages) /\ Len(down'[k]) = Len(down[k]) + 1 /\ Len(down[k]) \in Nat
      /\ \A i \in 1..Len(down[k]) : down'[k][i] = down[k][i]
      /\ down'[k][Len(down[k]) + 1] = m
  <2>1. down[k] \in Seq(DownMessages) BY Parts
  <2> QED BY <2>1, Appended
<1>2. ASSUME NEW n \in Nat, NEW j \in Nat, Comes(k, n, j)
      PROVE  Comes(k, n, j)'
  <2>1. PICK i \in 1..Len(down[k]) : i < j /\ down[k][i] = Event(n) BY <1>2 DEF Comes
  <2>2. i \in 1..Len(down'[k]) /\ down'[k][i] = Event(n) BY <1>1, <2>1
  <2> QED BY <2>1, <2>2 DEF Comes, Event
<1> QED BY <1>1, <1>2

\* The answer of a handler comes after the events that were published when the handler ended.
LEMMA AnswerPosted ==
  ASSUME WorkerInv, NEW r \in Requests, NEW ok \in BOOLEAN, handler[r] = "running",
         handler' = [handler EXCEPT ![r] = "done"], seen' = [seen EXCEPT ![r] = published],
         down' = [down EXCEPT ![By[r]] = Append(down[By[r]], Answer(r, ok))],
         UNCHANGED <<fits, host, client, connection, up, invoked, published, since, got>>
  PROVE  WorkerInv'
<1> DEFINE k == By[r]
<1> DEFINE m == Answer(r, ok)
<1>1. k \in Clients /\ r \in Of(k) BY WorkerAssumption DEF WorkerInv, Of
<1>2. m \in DownMessages /\ m.type = "response" /\ m.request = r BY DEF Answer, DownMessages
<1>3. /\ handler'[r] = "done" /\ seen'[r] = published
      /\ \A q \in Requests : q # r => handler'[q] = handler[q] /\ seen'[q] = seen[q]
      /\ down'[k] = Append(down[k], m) /\ \A j \in Clients : j # k => down'[j] = down[j]
  BY <1>1 DEF WorkerInv, WorkerStateTypes, WorkerTypeOK
<1> HIDE DEF k, m
<1>4. connection[k] = "accepted" /\ invoked[r] # "value"
  BY <1>1, Parts DEF Serves, Answers
<1>5. /\ down'[k] \in Seq(DownMessages) /\ Len(down'[k]) = Len(down[k]) + 1 /\ Len(down[k]) \in Nat
      /\ \A i \in 1..Len(down[k]) : down'[k][i] = down[k][i]
      /\ down'[k][Len(down[k]) + 1] = m
      /\ \A n \in Nat : \A j \in Nat : Comes(k, n, j) => Comes(k, n, j)'
  BY <1>1, <1>2, <1>3, Posts
<1>6. WorkerStateTypes'
  <2>1. down' \in [Clients -> Seq(DownMessages)] BY <1>1, <1>5 DEF k, WorkerInv, WorkerStateTypes
  <2>2. seen' \in [Requests -> Nat] BY DEF WorkerInv, WorkerStateTypes
  <2> QED BY <2>1, <2>2 DEF WorkerInv, WorkerStateTypes, WorkerTypeOK
<1>7. Heard(k)' = Heard(k) /\ Heard(k) \in Nat /\ published \in Nat BY <1>1, Parts DEF Heard
<1>8. \A i \in 1..Len(down'[k]) : i = Len(down[k]) + 1 \/ (i \in 1..Len(down[k]) /\ down'[k][i] = down[k][i])
  BY <1>5
<1>9. \A n \in Nat : Heard(k) < n /\ n <= published => Comes(k, n, Len(down[k]) + 1)
  BY <1>1, <1>4, Parts DEF Follows
<1>10. Follows(k)'
  <2>1. ASSUME NEW i \in 1..Len(down'[k]), down'[k][i].type = "event"
        PROVE  /\ Heard(k)' < down'[k][i].number /\ down'[k][i].number <= published'
               /\ \A n \in Nat : Heard(k)' < n /\ n < down'[k][i].number => Comes(k, n, i)'
    <3>1. i \in 1..Len(down[k]) /\ down'[k][i] = down[k][i] BY <1>2, <1>5, <1>8, <2>1
    <3>2. /\ Heard(k) < down[k][i].number /\ down[k][i].number <= published
          /\ \A n \in Nat : Heard(k) < n /\ n < down[k][i].number => Comes(k, n, i)
      BY <1>1, <2>1, <3>1, Parts DEF Follows
    <3>3. \A n \in Nat : Heard(k) < n /\ n < down[k][i].number => Comes(k, n, i)'
      BY <1>5, <3>1, <3>2
    <3> QED BY <1>7, <3>1, <3>2, <3>3
  <2>2. ASSUME NEW n \in Nat, Heard(k) < n, n <= published
        PROVE  Comes(k, n, Len(down[k]) + 1)'
    <3>1. PICK i \in 1..Len(down[k]) : down[k][i] = Event(n) BY <1>9, <2>2 DEF Comes
    <3>2. i \in 1..Len(down'[k]) /\ i < Len(down'[k]) + 1 /\ down'[k][i] = Event(n) BY <1>5, <3>1
    <3> QED BY <3>2 DEF Comes, Event
  <2>3. /\ \A n \in 1..Len(got'[k]) : got'[k][n] = since'[k] + n
        /\ Heard(k)' <= published'
    BY <1>1, <1>7, Parts DEF Follows
  <2> QED BY <1>7, <2>1, <2>2, <2>3 DEF Follows
<1>11. Once(k)' BY <1>1, <1>2, <1>5, <1>8, Parts DEF Once
<1>12. Answers(k)'
  <2>1. ASSUME NEW q \in Of(k), invoked[q] = "value"
        PROVE  handler'[q] = "done" /\ seen'[q] <= Heard(k)
    <3>1. q # r /\ q \in Requests BY <1>4, <2>1 DEF Of
    <3> QED BY <1>1, <1>3, <2>1, <3>1, Parts DEF Answers
  <2>2. ASSUME NEW i \in 1..Len(down'[k]), down'[k][i].type = "response"
        PROVE  /\ By[down'[k][i].request] = k /\ handler'[down'[k][i].request] = "done"
               /\ \A n \in Nat : Heard(k) < n /\ n <= seen'[down'[k][i].request] => Comes(k, n, i)'
    <3>1. CASE i = Len(down[k]) + 1
      <4>1. \A n \in Nat : Heard(k) < n /\ n <= published => Comes(k, n, i)' BY <1>5, <1>9, <3>1
      <4> QED BY <1>2, <1>3, <1>5, <3>1, <4>1 DEF k
    <3>2. CASE i \in 1..Len(down[k]) /\ down'[k][i] = down[k][i]
      <4>1. down[k][i].request \in Requests BY <1>1, <2>2, <3>2, Posted
      <4>2. /\ By[down[k][i].request] = k /\ handler[down[k][i].request] = "done"
            /\ \A n \in Nat : Heard(k) < n /\ n <= seen[down[k][i].request] => Comes(k, n, i)
        BY <1>1, <2>2, <3>2, Parts DEF Answers
      <4>3. /\ handler'[down[k][i].request] = "done"
            /\ seen'[down[k][i].request] = seen[down[k][i].request]
        BY <1>3, <4>1, <4>2
      <4>4. \A n \in Nat : Heard(k) < n /\ n <= seen[down[k][i].request] => Comes(k, n, i)'
        BY <1>5, <3>2, <4>2
      <4> QED BY <3>2, <4>2, <4>3, <4>4
    <3> QED BY <1>8, <3>1, <3>2
  <2> QED BY <1>7, <2>1, <2>2 DEF Answers, Of
<1>13. Connected(k)'
  <2>1. Opens(k)' BY <1>1, <1>4, Parts DEF Opens
  <2>2. Hellos(k)' BY <1>1, Parts DEF Hellos
  <2>3. Asks(k)'
    <3>1. ASSUME NEW i \in 1..Len(up[k]), up[k][i].type = "request"
          PROVE  handler'[up[k][i].request] = "none"
      <4>1. up[k][i].request \in Requests BY <1>1, <3>1, Mailed
      <4>2. handler[up[k][i].request] = "none" BY <1>1, <3>1, Parts DEF Asks
      <4> QED BY <1>3, <4>1, <4>2
    <3> QED BY <1>1, <3>1, Parts DEF Asks, Issued
  <2>4. Serves(k)' BY <1>1, <1>3, Parts DEF Serves, Issued, Of
  <2> QED BY <2>1, <2>2, <2>3, <2>4, <1>10, <1>11, <1>12 DEF Connected
<1>14. ASSUME NEW j \in Clients, j # k
       PROVE  Connected(j)'
  <2>1. r \notin Of(j) BY <1>14 DEF Of, k
  <2> QED BY <1>3, <1>6, <1>14, <2>1, Untouched DEF Of
<1> QED BY <1>6, <1>13, <1>14, Concludes

\* An event that is published is the next for every client that is accepted.
LEMMA EventPosted ==
  ASSUME WorkerInv, published' = published + 1,
         down' = [k \in Clients |-> IF Accepted(k) THEN Append(down[k], Event(published + 1)) ELSE down[k]],
         UNCHANGED <<fits, host, client, connection, up, invoked, handler, since, got, seen>>
  PROVE  WorkerInv'
<1> DEFINE m == Event(published + 1)
<1>1. published \in Nat /\ published' \in Nat BY DEF WorkerInv, WorkerStateTypes
<1>2. m \in DownMessages /\ m.type = "event" /\ m.number = published + 1
  BY <1>1 DEF Event, DownMessages
<1>3. \A k \in Clients : down'[k] = IF Accepted(k) THEN Append(down[k], m) ELSE down[k] OBVIOUS
<1> HIDE DEF m
<1>4. ASSUME NEW k \in Clients, Accepted(k)
      PROVE  /\ down'[k] \in Seq(DownMessages) /\ Len(down'[k]) = Len(down[k]) + 1 /\ Len(down[k]) \in Nat
             /\ \A i \in 1..Len(down[k]) : down'[k][i] = down[k][i]
             /\ down'[k][Len(down[k]) + 1] = m
             /\ \A n \in Nat : \A j \in Nat : Comes(k, n, j) => Comes(k, n, j)'
  BY <1>2, <1>3, <1>4, Posts
<1>5. WorkerStateTypes'
  <2>1. down' \in [Clients -> Seq(DownMessages)] BY <1>3, <1>4 DEF WorkerInv, WorkerStateTypes
  <2> QED BY <1>1, <2>1 DEF WorkerInv, WorkerStateTypes, WorkerTypeOK
<1>6. ASSUME NEW k \in Clients, Accepted(k)
      PROVE  Connected(k)'
  <2>1. /\ Len(down'[k]) = Len(down[k]) + 1 /\ Len(down[k]) \in Nat
        /\ \A i \in 1..Len(down[k]) : down'[k][i] = down[k][i]
        /\ down'[k][Len(down[k]) + 1] = m
        /\ \A n \in Nat : \A j \in Nat : Comes(k, n, j) => Comes(k, n, j)'
    BY <1>4, <1>6
  <2>2. Heard(k)' = Heard(k) /\ Heard(k) \in Nat /\ Heard(k) <= published
    BY Parts DEF Heard, Follows
  <2>3. \A i \in 1..Len(down'[k]) :
          i = Len(down[k]) + 1 \/ (i \in 1..Len(down[k]) /\ down'[k][i] = down[k][i])
    BY <2>1
  <2>4. \A n \in Nat : Heard(k) < n /\ n <= published => Comes(k, n, Len(down[k]) + 1)
    BY <1>6, Parts DEF Follows, Accepted
  <2>5. ASSUME NEW i \in 1..Len(down[k]), down[k][i].type = "event"
        PROVE  /\ Heard(k) < down[k][i].number /\ down[k][i].number <= published
               /\ down[k][i].number \in Nat
               /\ \A n \in Nat : Heard(k) < n /\ n < down[k][i].number => Comes(k, n, i)
    BY <2>5, Posted, Parts DEF Follows
  <2>6. Follows(k)'
    <3>1. ASSUME NEW i \in 1..Len(down'[k]), down'[k][i].type = "event"
          PROVE  /\ Heard(k)' < down'[k][i].number /\ down'[k][i].number <= published'
                 /\ \A n \in Nat : Heard(k)' < n /\ n < down'[k][i].number => Comes(k, n, i)'
      <4>1. CASE i = Len(down[k]) + 1
        <5>1. down'[k][i].number = published + 1 BY <1>2, <2>1, <4>1
        <5>2. ASSUME NEW n \in Nat, Heard(k) < n, n <= published
              PROVE  Comes(k, n, i)'
          <6>1. Comes(k, n, i) BY <2>4, <4>1, <5>2
          <6>2. \A l \in Nat : Comes(k, n, l) => Comes(k, n, l)' BY <2>1
          <6>3. i \in Nat OBVIOUS
          <6> QED BY <6>1, <6>2, <6>3
        <5>3. \A n \in Nat : n < published + 1 => n <= published BY <1>1
        <5> QED BY <1>1, <2>2, <5>1, <5>2, <5>3
      <4>2. CASE i \in 1..Len(down[k]) /\ down'[k][i] = down[k][i]
        <5>1. /\ Heard(k) < down[k][i].number /\ down[k][i].number <= published
              /\ down[k][i].number \in Nat
              /\ \A n \in Nat : Heard(k) < n /\ n < down[k][i].number => Comes(k, n, i)
          BY <2>5, <3>1, <4>2
        <5>2. \A n \in Nat : Heard(k) < n /\ n < down[k][i].number => Comes(k, n, i)'
          BY <2>1, <4>2, <5>1
        <5> QED BY <1>1, <2>2, <4>2, <5>1, <5>2
      <4> QED BY <2>3, <4>1, <4>2
    <3>2. ASSUME NEW n \in Nat, Heard(k) < n, n <= published + 1
          PROVE  Comes(k, n, Len(down[k]) + 1)'
      <4>1. CASE n = published + 1
        <5>1. /\ Len(down[k]) + 1 \in 1..Len(down'[k]) /\ Len(down[k]) + 1 < Len(down'[k]) + 1
              /\ down'[k][Len(down[k]) + 1] = Event(n)
          BY <2>1, <4>1 DEF m
        <5> QED BY <5>1 DEF Comes, Event
      <4>2. CASE n <= published
        <5>1. PICK i \in 1..Len(down[k]) : down[k][i] = Event(n) BY <2>4, <3>2, <4>2 DEF Comes
        <5>2. i \in 1..Len(down'[k]) /\ i < Len(down'[k]) + 1 /\ down'[k][i] = Event(n) BY <2>1, <5>1
        <5> QED BY <5>2 DEF Comes, Event
      <4> QED BY <1>1, <3>2, <4>1, <4>2
    <3>3. /\ \A n \in 1..Len(got'[k]) : got'[k][n] = since'[k] + n
          /\ Heard(k)' <= published'
      BY <1>1, <2>2, Parts DEF Follows
    <3> QED BY <2>2, <3>1, <3>2, <3>3 DEF Follows
  <2>7. Once(k)'
    <3>1. ASSUME NEW i \in 1..Len(down'[k]), NEW j \in 1..Len(down'[k]), down'[k][i].type = "event",
                 down'[k][j] = down'[k][i]
          PROVE  i = j
      <4>1. \A l \in 1..Len(down[k]) : down[k][l] # m BY <1>1, <1>2, <2>5
      <4>2. CASE i = Len(down[k]) + 1 BY <2>1, <2>3, <3>1, <4>1, <4>2
      <4>3. CASE j = Len(down[k]) + 1 BY <2>1, <2>3, <3>1, <4>1, <4>3
      <4>4. CASE i # Len(down[k]) + 1 /\ j # Len(down[k]) + 1
        <5>1. /\ i \in 1..Len(down[k]) /\ down'[k][i] = down[k][i]
              /\ j \in 1..Len(down[k]) /\ down'[k][j] = down[k][j]
          BY <2>3, <4>4
        <5> QED BY <3>1, <5>1, Parts DEF Once
      <4> QED BY <4>2, <4>3, <4>4
    <3> QED BY <3>1 DEF Once
  <2>8. Answers(k)'
    <3>1. \A r \in Of(k) : invoked[r] = "value" => handler[r] = "done" /\ seen[r] <= Heard(k)
      BY Parts DEF Answers
    <3>2. ASSUME NEW i \in 1..Len(down'[k]), down'[k][i].type = "response"
          PROVE  /\ By[down'[k][i].request] = k /\ handler[down'[k][i].request] = "done"
                 /\ \A n \in Nat : Heard(k) < n /\ n <= seen[down'[k][i].request] => Comes(k, n, i)'
      <4>1. i \in 1..Len(down[k]) /\ down'[k][i] = down[k][i] BY <1>2, <2>1, <2>3, <3>2
      <4>2. /\ By[down[k][i].request] = k /\ handler[down[k][i].request] = "done"
            /\ \A n \in Nat : Heard(k) < n /\ n <= seen[down[k][i].request] => Comes(k, n, i)
        BY <3>2, <4>1, Parts DEF Answers
      <4>3. \A n \in Nat : Heard(k) < n /\ n <= seen[down[k][i].request] => Comes(k, n, i)'
        BY <2>1, <4>1, <4>2
      <4> QED BY <4>1, <4>2, <4>3
    <3> QED BY <2>2, <3>1, <3>2 DEF Answers, Of
  <2>9. Opens(k)' /\ Hellos(k)' /\ Asks(k)' /\ Serves(k)'
    <3>1. connection[k] = "accepted" /\ client[k] # "new" BY <1>6, Parts DEF Opens, Accepted
    <3>2. Opens(k)' BY <3>1 DEF Opens
    <3>3. Hellos(k)' BY Parts DEF Hellos
    <3>4. Asks(k)' BY Parts DEF Asks, Issued
    <3>5. Serves(k)' BY Parts DEF Serves, Issued, Of
    <3> QED BY <3>2, <3>3, <3>4, <3>5
  <2> QED BY <2>6, <2>7, <2>8, <2>9 DEF Connected
<1>7. ASSUME NEW k \in Clients, ~Accepted(k)
      PROVE  Connected(k)'
  <2>1. down'[k] = down[k] BY <1>3, <1>7
  <2>2. DownKept(k, 0) BY <2>1, DownChanges
  <2>3. CallsKept(k) BY Parts DEF CallsKept, Serves, Issued
  <2>4. Quiet(k, 0) BY <1>1, <1>7, <2>1, <2>2, <2>3, Parts DEF Quiet, Accepted
  <2>5. UpKept(k, 0, Len(up[k])) /\ Len(up[k]) \in Nat BY UpChanges, Parts
  <2> QED BY <1>5, <2>4, <2>5, QuietKeeps
<1> QED BY <1>5, <1>6, <1>7, Concludes

LEMMA HandlerEndsKeeps ==
  ASSUME WorkerInv, NEW r \in Requests, NEW ok \in BOOLEAN, HandlerEnds(r, ok)
  PROVE  WorkerInv'
<1>1. handler[r] = "running" /\ UNCHANGED <<fits, host, client, up, invoked, published, since, got>>
  BY DEF HandlerEnds
<1>2. By[r] \in Clients /\ r \in Of(By[r]) BY WorkerAssumption DEF WorkerInv, Of
<1>3. connection[By[r]] = "accepted" BY <1>1, <1>2, Parts DEF Serves
<1>4. CASE Respond(r, ok) /\ host = "open"
  <2>1. /\ handler' = [handler EXCEPT ![r] = "done"] /\ seen' = [seen EXCEPT ![r] = published]
        /\ down' = [down EXCEPT ![By[r]] = Append(down[By[r]], Answer(r, ok))]
        /\ UNCHANGED connection
    BY <1>4 DEF Respond, Post
  <2> QED BY <1>1, <2>1, AnswerPosted
<1>5. CASE Respond(r, ok) /\ host # "open"
  <2>1. /\ handler' = [handler EXCEPT ![r] = "done"] /\ seen' = [seen EXCEPT ![r] = published]
        /\ UNCHANGED <<down, connection>>
    BY <1>5 DEF Respond
  <2>2. WorkerStateTypes' BY <1>1, <2>1 DEF WorkerInv, WorkerStateTypes, WorkerTypeOK
  <2>3. ASSUME NEW k \in Clients
        PROVE  \E d \in {0, 1} : \E e \in {0, 1} : \E n \in Nat : Quiet(k, e) /\ UpKept(k, d, n)
    <3>1. CallsKept(k)
      <4>1. \A q \in Requests : /\ q # r => handler'[q] = handler[q] /\ seen'[q] = seen[q]
                                /\ q = r => handler'[q] = "done"
        BY <2>1 DEF WorkerInv, WorkerStateTypes, WorkerTypeOK
      <4> QED BY <1>1, <2>1, <4>1, Parts DEF CallsKept, Serves, Issued, Of
    <3>2. DownKept(k, 0) /\ UpKept(k, 0, Len(up[k])) BY <1>1, <2>1, UpChanges, DownChanges
    <3>3. Quiet(k, 0) BY <1>1, <2>1, <3>1, <3>2, Parts DEF Quiet
    <3> QED BY <3>2, <3>3, Parts
  <2> QED BY <2>2, <2>3, Keeps
<1>6. CASE PostFails(By[r]) /\ UNCHANGED seen
  <2>1. DisconnectConnection(By[r], <<>>) BY <1>6 DEF PostFails
  <2>2. /\ HandlersHalt /\ ConnectionsGo /\ down' \in [Clients -> Seq(DownMessages)]
        /\ \A j \in Clients : /\ DownKept(j, 0)
                              /\ connection'[j] \in {"none", "open"} => down'[j] = down[j]
    BY <1>2, <1>3, <2>1, DisconnectHalts
  <2>3. host' \in {"open", "closing", "closed"} BY <1>1 DEF WorkerInv, WorkerStateTypes, WorkerTypeOK
  <2> QED BY <1>1, <1>6, <2>2, <2>3, HaltKeeps
<1> QED BY <1>4, <1>5, <1>6 DEF HandlerEnds

LEMMA PublishKeeps ==
  ASSUME WorkerInv, PublishEvent
  PROVE  WorkerInv'
<1>1. UNCHANGED <<fits, host, client, up, invoked, since, got, seen>> BY DEF PublishEvent
<1>2. CASE /\ published' = published + 1
           /\ down' = [k \in Clients |-> IF Accepted(k)
                                             THEN Append(down[k], Event(published + 1)) ELSE down[k]]
           /\ UNCHANGED <<connection, handler, mishaps>>
  BY <1>1, <1>2, EventPosted
<1>3. CASE /\ Mishap /\ UNCHANGED published
           /\ connection' = [k \in Clients |-> IF Accepted(k) THEN "gone" ELSE connection[k]]
           /\ down' = [k \in Clients |-> IF Accepted(k) THEN Append(down[k], Closed) ELSE down[k]]
           /\ handler' = [r \in Requests |-> IF Accepted(By[r]) /\ handler[r] = "running"
                                                THEN "halted" ELSE handler[r]]
  <2>1. Closed \in DownMessages /\ Closed.type \notin {"event", "response"}
    BY DEF DownMessages, Closed
  <2>2. ASSUME NEW k \in Clients
        PROVE  /\ DownKept(k, 0) /\ down'[k] \in Seq(DownMessages)
               /\ connection'[k] \in {"none", "open"} => down'[k] = down[k]
    <3>1. CASE Accepted(k)
      <4>1. down'[k] = Append(down[k], Closed) /\ connection'[k] = "gone" BY <1>3, <3>1
      <4> QED BY <2>1, <4>1, DownChanges
    <3>2. CASE ~Accepted(k)
      <4>1. down'[k] = down[k] BY <1>3, <3>2
      <4> QED BY <4>1, DownChanges, Parts
    <3> QED BY <3>1, <3>2
  <2>3. down' \in [Clients -> Seq(DownMessages)] BY <1>3, <2>2
  <2>4. HandlersHalt
    <3>1. ASSUME NEW r \in Requests
          PROVE  handler[r] = "running" => Accepted(By[r])
      <4>1. By[r] \in Clients /\ r \in Of(By[r]) BY WorkerAssumption DEF WorkerInv, Of
      <4> QED BY <4>1, Parts DEF Serves, Accepted
    <3> QED BY <1>3, <3>1 DEF HandlersHalt, WorkerInv, WorkerStateTypes, WorkerTypeOK
  <2>5. ConnectionsGo BY <1>3 DEF ConnectionsGo, WorkerInv, WorkerStateTypes, WorkerTypeOK, Accepted
  <2>6. host' \in {"open", "closing", "closed"} BY <1>1 DEF WorkerInv, WorkerStateTypes, WorkerTypeOK
  <2> QED BY <1>1, <1>3, <2>2, <2>3, <2>4, <2>5, <2>6, HaltKeeps
<1> QED BY <1>2, <1>3 DEF PublishEvent

\* The first message on its way to the host.
LEMMA FirstUp ==
  ASSUME WorkerInv, NEW k \in Clients, up[k] # <<>>, up' = [up EXCEPT ![k] = Tail(up[k])]
  PROVE  /\ Head(up[k]) = up[k][1] /\ 1 \in 1..Len(up[k]) /\ client[k] # "new"
         /\ up' \in [Clients -> Seq(UpMessages)] /\ UpKept(k, 1, Len(up[k]) - 1) /\ Len(up[k]) - 1 \in Nat
         /\ \A j \in Clients : j # k => up'[j] = up[j] /\ UpKept(j, 0, Len(up[j])) /\ Len(up[j]) \in Nat
<1>1. up'[k] = Tail(up[k]) /\ \A j \in Clients : j # k => up'[j] = up[j] BY DEF WorkerInv, WorkerStateTypes
<1>2. /\ Tail(up[k]) \in Seq(UpMessages) /\ Len(up[k]) \in Nat \ {0} /\ Head(up[k]) = up[k][1]
  BY Parts, Shortened
<1>3. up' \in [Clients -> Seq(UpMessages)] BY <1>2 DEF WorkerInv, WorkerStateTypes
<1>4. UpKept(k, 1, Len(up[k]) - 1) /\ Len(up[k]) - 1 \in Nat BY <1>1, UpChanges
<1>5. client[k] # "new" BY Parts DEF Opens
<1>6. ASSUME NEW j \in Clients, j # k
      PROVE  UpKept(j, 0, Len(up[j])) /\ Len(up[j]) \in Nat
  BY <1>1, <1>6, UpChanges, Parts
<1> QED BY <1>1, <1>2, <1>3, <1>4, <1>5, <1>6

\* The host reads what starts no handler: handlers are halted, and connections go.
LEMMA HaltRead ==
  ASSUME WorkerInv, NEW k \in Clients, up[k] # <<>>, up' = [up EXCEPT ![k] = Tail(up[k])],
         HandlersHalt, ConnectionsGo, down' \in [Clients -> Seq(DownMessages)],
         UNCHANGED <<fits, host, client, invoked, published, since, got, seen>>,
         \A j \in Clients : /\ DownKept(j, 0)
                            /\ connection'[j] \in {"none", "open"} => down'[j] = down[j]
  PROVE  WorkerInv'
<1>1. /\ up' \in [Clients -> Seq(UpMessages)] /\ UpKept(k, 1, Len(up[k]) - 1) /\ Len(up[k]) - 1 \in Nat
      /\ client[k] # "new"
      /\ \A j \in Clients : j # k => up'[j] = up[j] /\ UpKept(j, 0, Len(up[j])) /\ Len(up[j]) \in Nat
  BY FirstUp
<1>2. WorkerStateTypes' BY <1>1 DEF WorkerInv, WorkerStateTypes, WorkerTypeOK, HandlersHalt, ConnectionsGo
<1>3. ASSUME NEW j \in Clients
      PROVE  \E d \in {0, 1} : \E e \in {0, 1} : \E n \in Nat : Quiet(j, e) /\ UpKept(j, d, n)
  <2>1. CallsKept(j) BY Parts DEF CallsKept, HandlersHalt, Issued, Of
  <2>2. client'[j] = "new" => connection'[j] = connection[j] /\ up'[j] = up[j]
    BY <1>1, Parts DEF Opens, ConnectionsGo
  <2>3. Quiet(j, 0) BY <2>1, <2>2, Parts DEF Quiet, ConnectionsGo
  <2> QED BY <1>1, <2>3
<1> QED BY <1>2, <1>3, Keeps

\* The host reads the hello of a client that fits.
LEMMA HelloRead ==
  ASSUME WorkerInv, NEW k \in Clients, up[k] # <<>>, up' = [up EXCEPT ![k] = Tail(up[k])], k \in fits,
         up[k][1].type = "hello", connection[k] \in {"open", "accepted"},
         connection' = [connection EXCEPT ![k] = "accepted"], Post(k, Welcome(TRUE)),
         since' = [since EXCEPT ![k] = published],
         UNCHANGED <<fits, host, client, invoked, handler, published, got, seen>>
  PROVE  WorkerInv'
<1>1. /\ up' \in [Clients -> Seq(UpMessages)] /\ UpKept(k, 1, Len(up[k]) - 1) /\ client[k] # "new"
      /\ 1 \in 1..Len(up[k]) /\ \A j \in Clients : j # k => up'[j] = up[j]
  BY FirstUp
<1>2. /\ connection[k] = "open" /\ down[k] = <<>> /\ got[k] = <<>>
      /\ \A r \in Of(k) : handler[r] = "none"
  BY <1>1, Parts DEF Hellos, Opens
<1>3. /\ connection'[k] = "accepted" /\ down'[k] = Append(down[k], Welcome(TRUE)) /\ since'[k] = published
      /\ \A j \in Clients :
           j # k => connection'[j] = connection[j] /\ down'[j] = down[j] /\ since'[j] = since[j]
  BY DEF Post, WorkerInv, WorkerStateTypes, WorkerTypeOK
<1>4. Welcome(TRUE) \in DownMessages BY DEF Welcome, DownMessages
<1>5. PICK m \in DownMessages : m = Welcome(TRUE) BY <1>4
<1>6. down'[k] = <<m>> /\ m.type = "welcome"
  <2>1. down'[k] = Append(<<>>, m) BY <1>2, <1>3, <1>5
  <2> QED BY <1>5, <2>1 DEF Welcome
<1>7. down'[k] \in Seq(DownMessages) /\ Len(down'[k]) = 1 /\ down'[k][1] = m BY <1>6, Alone
<1>8. WorkerStateTypes'
  <2>1. down' \in [Clients -> Seq(DownMessages)] BY <1>7 DEF Post, WorkerInv, WorkerStateTypes
  <2> QED BY <1>1, <1>3, <2>1 DEF WorkerInv, WorkerStateTypes, WorkerTypeOK
<1>9. Heard(k)' = published /\ published \in Nat BY <1>2, <1>3, Parts DEF Heard
<1>10. Connected(k)'
  <2>1. Opens(k)' BY <1>1, <1>3 DEF Opens
  <2>2. \A i \in 1..Len(up'[k]) : i + 1 \in 1..Len(up[k]) /\ up'[k][i] = up[k][i + 1] /\ i + 1 # 1
    <3>1. /\ Len(up'[k]) = Len(up[k]) - 1 /\ Len(up[k]) \in Nat
          /\ \A i \in 1..Len(up'[k]) : up'[k][i] = up[k][i + 1]
      <4>1. up'[k] = Tail(up[k]) BY DEF WorkerInv, WorkerStateTypes
      <4>2. up[k] \in Seq(UpMessages) BY Parts
      <4>3. /\ Len(Tail(up[k])) = Len(up[k]) - 1 /\ Len(up[k]) \in Nat
            /\ \A i \in 1..Len(Tail(up[k])) : Tail(up[k])[i] = up[k][i + 1]
        BY <4>2, Shortened
      <4> QED BY <4>1, <4>3
    <3> QED BY <3>1
  <2>3. Hellos(k)' BY <2>2, Parts DEF Hellos
  <2>4. Asks(k)'
    <3>1. ASSUME NEW i \in 1..Len(up'[k]), up'[k][i].type = "request"
          PROVE  /\ By[up'[k][i].request] = k /\ invoked[up'[k][i].request] \notin {"new", "waiting"}
                 /\ handler[up'[k][i].request] = "none"
                 /\ \A j \in 1..Len(up'[k]) : up'[k][j].type = "request"
                      /\ up'[k][j].request = up'[k][i].request => j = i
      <4>0. i + 1 \in 1..Len(up[k]) /\ up[k][i + 1].type = "request" BY <2>2, <3>1
      <4>1. /\ By[up[k][i + 1].request] = k /\ Issued(up[k][i + 1].request)
            /\ handler[up[k][i + 1].request] = "none"
            /\ \A j \in 1..Len(up[k]) :
                 up[k][j].type = "request" /\ up[k][j].request = up[k][i + 1].request => j = i + 1
        BY <4>0, Parts DEF Asks
      <4>2. \A j \in 1..Len(up'[k]) :
              up'[k][j].type = "request" /\ up'[k][j].request = up'[k][i].request => j + 1 = i + 1
        BY <2>2, <4>1
      <4>3. up'[k][i] = up[k][i + 1] BY <2>2
      <4> QED BY <4>1, <4>2, <4>3 DEF Issued
    <3> QED BY <3>1 DEF Asks, Issued
  <2>5. Serves(k)' BY <1>2, <1>3, Parts DEF Serves, Issued, Of
  <2>6. Follows(k)'
    <3>1. \A i \in 1..Len(down'[k]) : down'[k][i].type # "event" BY <1>6, <1>7
    <3>2. \A n \in Nat : ~(Heard(k)' < n /\ n <= published') BY <1>9
    <3> QED BY <1>2, <1>9, <3>1, <3>2 DEF Follows
  <2>7. Once(k)' BY <1>7 DEF Once
  <2>8. Answers(k)'
    <3>1. \A i \in 1..Len(down'[k]) : down'[k][i].type # "response" BY <1>6, <1>7
    <3>2. \A r \in Of(k) : invoked[r] # "value" BY <1>2, Parts DEF Answers
    <3> QED BY <3>1, <3>2 DEF Answers, Of
  <2> QED BY <2>1, <2>3, <2>4, <2>5, <2>6, <2>7, <2>8 DEF Connected
<1>11. ASSUME NEW j \in Clients, j # k
       PROVE  Connected(j)'
  BY <1>1, <1>3, <1>8, <1>11, Untouched
<1> QED BY <1>8, <1>10, <1>11, Concludes

\* The host reads a request, and starts its handler.
LEMMA RequestRead ==
  ASSUME WorkerInv, NEW k \in Clients, up[k] # <<>>, up' = [up EXCEPT ![k] = Tail(up[k])],
         up[k][1].type = "request", connection[k] = "accepted",
         handler' = [handler EXCEPT ![up[k][1].request] = "running"],
         UNCHANGED <<fits, host, client, connection, down, invoked, published, since, got, seen>>
  PROVE  WorkerInv'
<1> DEFINE r == up[k][1].request
<1>1. /\ up' \in [Clients -> Seq(UpMessages)] /\ UpKept(k, 1, Len(up[k]) - 1) /\ Len(up[k]) - 1 \in Nat
      /\ client[k] # "new" /\ 1 \in 1..Len(up[k]) /\ \A j \in Clients : j # k => up'[j] = up[j]
  BY FirstUp
<1>2. /\ r \in Requests /\ By[r] = k /\ Issued(r) /\ handler[r] = "none"
      /\ \A j \in 1..Len(up[k]) : up[k][j].type = "request" /\ up[k][j].request = r => j = 1
  BY <1>1, Mailed, Parts DEF Asks
<1>3. /\ handler'[r] = "running" /\ \A q \in Requests : q # r => handler'[q] = handler[q]
      /\ handler' \in [Requests -> {"none", "running", "halted", "done"}]
  BY <1>2 DEF WorkerInv, WorkerStateTypes, WorkerTypeOK
<1> HIDE DEF r
<1>4. WorkerStateTypes' BY <1>1, <1>3 DEF WorkerInv, WorkerStateTypes, WorkerTypeOK
<1>5. Connected(k)'
  <2>1. CallsMove(k) BY <1>2, <1>3, Parts DEF CallsMove, Serves, Issued, Of
  <2>2. DownKept(k, 0) BY DownChanges
  <2>3. Moves(k, 0) BY <1>1, <2>1, <2>2, Parts DEF Moves
  <2>4. ASSUME NEW i \in 1..Len(up[k]) - 1, up[k][1 + i].type = "request"
        PROVE  handler'[up[k][1 + i].request] = "none"
    <3>1. 1 + i \in 1..Len(up[k]) /\ 1 + i # 1 BY <1>1
    <3>2. up[k][1 + i].request # r BY <1>2, <2>4, <3>1
    <3>3. handler[up[k][1 + i].request] = "none" /\ up[k][1 + i].request \in Requests
      BY <2>4, <3>1, Mailed, Parts DEF Asks
    <3> QED BY <1>3, <3>2, <3>3
  <2> QED BY <1>1, <1>4, <2>3, <2>4, MovesKeeps
<1>6. ASSUME NEW j \in Clients, j # k
      PROVE  Connected(j)'
  <2>1. \A q \in Of(j) : handler'[q] = handler[q] BY <1>2, <1>3, <1>6 DEF Of
  <2> QED BY <1>1, <1>4, <1>6, <2>1, Untouched
<1> QED BY <1>4, <1>5, <1>6, Concludes

LEMMA HostReadsKeeps ==
  ASSUME WorkerInv, NEW k \in Clients, HostReads(k)
  PROVE  WorkerInv'
<1> DEFINE m == up[k][1]
<1>1. /\ up[k] # <<>> /\ up' = [up EXCEPT ![k] = Tail(up[k])]
      /\ UNCHANGED <<fits, host, client, invoked, published, got, seen>>
  BY DEF HostReads
<1>2. Head(up[k]) = m /\ 1 \in 1..Len(up[k]) BY <1>1, FirstUp
<1>3. /\ m.type \in {"request", "cancel"} => m.request \in Requests
      /\ m.type \in {"hello", "close", "disconnect", "request", "cancel"}
  BY <1>2, Mailed
<1> HIDE DEF m
<1>4. host \in {"open", "closing", "closed"} BY DEF WorkerInv, WorkerStateTypes, WorkerTypeOK
<1>5. CASE UNCHANGED <<connection, down, handler, since>>
  <2>1. HandlersHalt
    <3>1. ASSUME NEW r \in Requests
          PROVE  handler[r] = "running" => connection[By[r]] = "accepted"
      <4>1. By[r] \in Clients /\ r \in Of(By[r]) BY WorkerAssumption DEF WorkerInv, Of
      <4> QED BY <4>1, Parts DEF Serves
    <3> QED BY <1>5, <3>1 DEF HandlersHalt, WorkerInv, WorkerStateTypes, WorkerTypeOK
  <2>2. ConnectionsGo BY <1>5 DEF ConnectionsGo, WorkerInv, WorkerStateTypes, WorkerTypeOK
  <2>3. \A j \in Clients : DownKept(j, 0) BY <1>5, DownChanges
  <2>4. down' \in [Clients -> Seq(DownMessages)] BY <1>5 DEF WorkerInv, WorkerStateTypes
  <2> QED BY <1>1, <1>5, <2>1, <2>2, <2>3, <2>4, HaltRead
<1>6. CASE host = "open" /\ connection[k] \in {"open", "accepted"} /\ OnMessage(k, m)
  <2>1. CASE m.type = "hello"
    <3>1. OnHello(k) BY <1>6, <2>1 DEF OnMessage
    <3>2. CASE k \in fits
      <4>1. /\ connection' = [connection EXCEPT ![k] = "accepted"] /\ Post(k, Welcome(TRUE))
            /\ since' = [since EXCEPT ![k] = published] /\ UNCHANGED handler
        BY <3>1, <3>2 DEF OnHello
      <4> QED BY <1>1, <1>6, <2>1, <3>2, <4>1, HelloRead DEF m
    <3>3. CASE k \notin fits
      <4>1. DisconnectConnection(k, <<Welcome(FALSE)>>) /\ UNCHANGED since BY <3>1, <3>3 DEF OnHello
      <4>2. /\ HandlersHalt /\ ConnectionsGo /\ down' \in [Clients -> Seq(DownMessages)]
            /\ \A j \in Clients : /\ DownKept(j, 0)
                                  /\ connection'[j] \in {"none", "open"} => down'[j] = down[j]
        BY <1>6, <4>1, DisconnectHalts
      <4> QED BY <1>1, <4>1, <4>2, HaltRead
    <3> QED BY <3>2, <3>3
  <2>2. CASE m.type = "request" /\ connection[k] = "accepted"
    <3>1. /\ handler' = [handler EXCEPT ![m.request] = "running"]
          /\ UNCHANGED <<connection, down, since>>
      BY <1>6, <2>2 DEF OnMessage
    <3> QED BY <1>1, <2>2, <3>1, RequestRead DEF m
  <2>3. CASE m.type = "cancel" /\ connection[k] = "accepted"
    <3>1. /\ handler' = [handler EXCEPT ![m.request] = IF @ = "running" THEN "halted" ELSE @]
          /\ UNCHANGED <<connection, down, since>>
      BY <1>6, <2>3 DEF OnMessage
    <3>2. HandlersHalt
      <4>1. ASSUME NEW r \in Requests
            PROVE  handler[r] = "running" => connection[By[r]] = "accepted"
        <5>1. By[r] \in Clients /\ r \in Of(By[r]) BY WorkerAssumption DEF WorkerInv, Of
        <5> QED BY <5>1, Parts DEF Serves
      <4> QED BY <1>3, <2>3, <3>1, <4>1 DEF HandlersHalt, WorkerInv, WorkerStateTypes, WorkerTypeOK
    <3>3. ConnectionsGo BY <3>1 DEF ConnectionsGo, WorkerInv, WorkerStateTypes, WorkerTypeOK
    <3>4. \A j \in Clients : DownKept(j, 0) BY <3>1, DownChanges
    <3>5. down' \in [Clients -> Seq(DownMessages)] BY <3>1 DEF WorkerInv, WorkerStateTypes
    <3> QED BY <1>1, <3>1, <3>2, <3>3, <3>4, <3>5, HaltRead
  <2>4. CASE m.type = "close" \/ (m.type = "disconnect" /\ connection[k] = "accepted")
    <3>1. DisconnectConnection(k, <<>>) /\ UNCHANGED since BY <1>6, <2>4 DEF OnMessage
    <3>2. /\ HandlersHalt /\ ConnectionsGo /\ down' \in [Clients -> Seq(DownMessages)]
          /\ \A j \in Clients : /\ DownKept(j, 0)
                                /\ connection'[j] \in {"none", "open"} => down'[j] = down[j]
      BY <1>6, <3>1, DisconnectHalts
    <3> QED BY <1>1, <3>1, <3>2, HaltRead
  <2>5. CASE /\ m.type \notin {"hello", "close"}
             /\ connection[k] # "accepted"
    <3>1. UNCHANGED <<connection, down, handler, since>> BY <1>6, <2>5 DEF OnMessage
    <3> QED BY <1>5, <3>1
  <2> QED BY <1>3, <2>1, <2>2, <2>3, <2>4, <2>5
<1>7. IF host = "open" /\ connection[k] \in {"open", "accepted"}
        THEN OnMessage(k, m)
        ELSE UNCHANGED <<connection, down, handler, since>>
  BY <1>2 DEF HostReads
<1> QED BY <1>5, <1>6, <1>7

----------------------------------------------------------------------------
(* The theorems *)

LEMMA InitEstablishes ==
  ASSUME WorkerInit
  PROVE  WorkerInv
<1>1. WorkerStateTypes BY DEF WorkerInit, WorkerStateTypes, WorkerTypeOK
<1>2. ASSUME NEW k \in Clients
      PROVE  Connected(k)
  <2>1. /\ client[k] = "new" /\ connection[k] = "none" /\ up[k] = <<>> /\ down[k] = <<>>
        /\ got[k] = <<>> /\ since[k] = 0 /\ published = 0
        /\ \A r \in Of(k) : invoked[r] = "new" /\ handler[r] = "none"
    BY DEF WorkerInit, Of
  <2>2. Heard(k) = 0 BY <2>1 DEF Heard
  <2>3. Opens(k) /\ Hellos(k) /\ Asks(k) /\ Serves(k) /\ Once(k)
    BY <2>1 DEF Opens, Hellos, Asks, Serves, Once
  <2>4. Follows(k) BY <2>1, <2>2 DEF Follows
  <2>5. Answers(k) BY <2>1 DEF Answers
  <2> QED BY <2>3, <2>4, <2>5 DEF Connected
<1> QED BY <1>1, <1>2 DEF WorkerInv

LEMMA NextKeeps ==
  ASSUME WorkerInv, [WorkerNext]_workerVars
  PROVE  WorkerInv'
<1>1. CASE PublishEvent \/ HostCloses \/ HostEnds
  BY <1>1, PublishKeeps, HostClosesKeeps, HostEndsKeeps
<1>2. CASE \E k \in Clients : Connect(k) \/ Close(k) \/ Killed(k) \/ HandshakeTimesOut(k)
  BY <1>2, ConnectKeeps, CloseKeeps, KilledKeeps
<1>3. CASE \E k \in Clients : HostReads(k) \/ ClientReads(k)
  BY <1>3, HostReadsKeeps, ClientReadsKeeps
<1>4. CASE \E r \in Requests : InvokeRequest(r) \/ RequestWhenReady(r) \/ Abort(r) \/ CancelRequest(r)
  BY <1>4, CallerKeeps, RequestKeeps, CancelKeeps
<1>5. CASE \E r \in Requests, ok \in BOOLEAN : HandlerEnds(r, ok) BY <1>5, HandlerEndsKeeps
<1>6. CASE UNCHANGED workerVars
  <2>1. WorkerStateTypes' BY <1>6 DEF workerVars, ports, events, WorkerInv, WorkerStateTypes, WorkerTypeOK
  <2>2. \A k \in Clients : Connected(k)' BY <1>6, <2>1, Untouched DEF workerVars, ports, events
  <2> QED BY <2>1, <2>2, Concludes
<1> QED BY <1>1, <1>2, <1>3, <1>4, <1>5, <1>6 DEF WorkerNext

\* The state of the host, of its clients and of their ports keeps its type, and only clients that
\* speak the host's protocol are accepted.
THEOREM WorkerTypeCorrect == WorkerSpec => []WorkerTypeOK
<1>1. WorkerInit => WorkerInv BY InitEstablishes
<1>2. WorkerInv /\ [WorkerNext]_workerVars => WorkerInv' BY NextKeeps
<1>3. WorkerInv => WorkerTypeOK BY DEF WorkerInv, WorkerStateTypes
<1> QED BY <1>1, <1>2, <1>3, PTL DEF WorkerSpec

LEMMA InvHolds ==
  ASSUME WorkerInv
  PROVE  ConnectionsHold
<1>1. GoneIsHalted
  <2>1. ASSUME NEW r \in Requests
        PROVE  connection[By[r]] = "gone" => handler[r] # "running"
    <3>1. By[r] \in Clients /\ r \in Of(By[r]) BY WorkerAssumption DEF WorkerInv, Of
    <3> QED BY <3>1, Parts DEF Serves
  <2> QED BY <2>1 DEF GoneIsHalted
<1>2. ASSUME NEW k \in Clients
      PROVE  /\ got[k] = [i \in 1..Len(got[k]) |-> since[k] + i]
             /\ \A r \in Of(k) : invoked[r] = "value" => since[k] + Len(got[k]) >= seen[r]
  <2>1. \A n \in 1..Len(got[k]) : got[k][n] = since[k] + n BY Parts DEF Follows
  <2>2. got[k] = [i \in 1..Len(got[k]) |-> got[k][i]]
    <3>1. got[k] \in Seq(Nat) BY Parts
    <3> QED BY <3>1
  <2>3. \A r \in Of(k) : invoked[r] = "value" => seen[r] <= Heard(k) BY Parts DEF Answers
  <2>4. \A r \in Of(k) : seen[r] \in Nat BY Parts DEF Of
  <2>5. got[k] = [i \in 1..Len(got[k]) |-> since[k] + i] BY <2>1, <2>2
  <2> QED BY <2>3, <2>4, <2>5, Parts DEF Heard
<1> QED BY <1>1, <1>2 DEF ConnectionsHold, EventsPrecedeAnswers

\* However a connection ends, no handler works for a client that is gone, and a client that has an
\* answer has the events before it, in order and without a gap.
THEOREM ConnectionsServe == WorkerSpec => []ConnectionsHold
<1>1. WorkerInit => WorkerInv BY InitEstablishes
<1>2. WorkerInv /\ [WorkerNext]_workerVars => WorkerInv' BY NextKeeps
<1>3. WorkerInv => ConnectionsHold BY InvHolds
<1> QED BY <1>1, <1>2, <1>3, PTL DEF WorkerSpec

-----------------------------------------------------------------------------
(* A persisted collection: the invariant *)

\* One position of a stream is behind another, or at most there.
Before(a, b) ==
  /\ a.version < b.version
  /\ a.term < b.term \/ (a.term = b.term /\ a.seq < b.seq)
NotAfter(a, b) ==
  /\ a.version <= b.version
  /\ a.term < b.term \/ (a.term = b.term /\ a.seq <= b.seq)

Knows(list, x) == \E i \in DOMAIN list : list[i] = x
Distinctly(list) == \A i, j \in DOMAIN list : list[i] = list[j] => i = j
Kinds == {"crash", "fault", "lost"}

\* The variables have their types, and only who leads has anything in its memory.
CollectionTyped ==
  /\ leader \in Contexts \cup {Nobody}
  /\ stored = [rows |-> stored.rows, done |-> stored.done, stream |-> stored.stream, indexes |-> stored.indexes]
  /\ stored.done \in SUBSET Envelopes /\ stored.stream \in Positions
  /\ DOMAIN stored.indexes \subseteq DOMAIN Signatures
  /\ position \in [Contexts -> Positions \cup {Unread, Broken}]
  /\ answered \in [Contexts -> Seq(Envelopes)] /\ relayed \in [Contexts -> Seq(Messages)]
  /\ \A c \in Contexts : Len(answered[c]) <= Capacity /\ Len(relayed[c]) <= Capacity
  /\ serving = Idle \/ serving \in [pc : {"locate", "publish"}, env : Envelopes]
  /\ request \in [Envelopes -> {"new", "asked", "answered", "rejected", "abandoned"}]
  /\ commits \in Seq(Stamps) /\ announced \in Seq(Stamps)
  /\ relay \in [Messages -> {"new", "asked", "over"}] /\ pending \in [Contexts -> 0..MaxPending]
  /\ sent \in [Contexts -> [Messages -> Nat]]
  /\ trouble \in [Kinds -> Nat] /\ trouble["crash"] <= Budget["crash"]
  /\ serving # Idle => leader # Nobody
  /\ \A c \in Contexts \ {leader} :
       /\ position[c] = Unread /\ answered[c] = <<>> /\ relayed[c] = <<>>
       /\ \A m \in Messages : sent[c][m] = 0

Located == leader # Nobody /\ position[leader] \in Positions

\* The leader's position is not behind the stream, which is not behind any commit.
PositionStands ==
  /\ Located => NotAfter(stored.stream, position[leader])
  /\ \A i \in DOMAIN commits : NotAfter(commits[i].at, stored.stream)
  /\ serving.pc = "publish" => Located

\* An envelope is done when it has its commit, the only one.
CommitsAreDone ==
  /\ stored.done = {commits[i].env : i \in DOMAIN commits}
  /\ \A i, j \in DOMAIN commits : commits[i].env = commits[j].env => i = j
  /\ serving.pc = "publish" => serving.env \in stored.done
  /\ \A j \in DOMAIN announced : announced[j].env \in stored.done

\* Commits and announcements are of this reign or an earlier one; the announcements of this one are
\* not ahead of the leader, and behind what it is about to announce.
ReignsGrow ==
  /\ \A i \in DOMAIN commits : commits[i].by <= Reign
  /\ \A j \in DOMAIN announced : announced[j].by <= Reign
  /\ \A j \in DOMAIN announced : announced[j].by = Reign =>
       /\ Located /\ NotAfter(announced[j].at, position[leader])
       /\ serving.pc = "publish" => Before(announced[j].at, position[leader])

\* What is announced as it was committed is announced in the order of the commits.
AnnouncedInOrder ==
  \A i, j \in DOMAIN announced, a, b \in DOMAIN commits :
    i < j /\ commits[a] = announced[i] /\ commits[b] = announced[j] => a < b

\* A leader whose memory holds every envelope remembers what it has announced, and takes up only
\* what it has neither announced nor committed.
LeaderRemembers ==
  Cardinality(Envelopes) <= Capacity =>
    /\ \A c \in Contexts : Distinctly(answered[c])
    /\ serving # Idle => ~Knows(answered[leader], serving.env)
    /\ \A j \in DOMAIN announced : announced[j].by = Reign => Knows(answered[leader], announced[j].env)
    /\ \A i \in DOMAIN commits : commits[i].by = Reign =>
         /\ leader # Nobody
         /\ \/ Knows(answered[leader], commits[i].env)
            \/ serving = [pc |-> "publish", env |-> commits[i].env] /\ commits[i].at = position[leader]

\* A leader whose memory holds every message remembers what it has sent for others.
SentIsRemembered ==
  Cardinality(Messages) <= Capacity => \A c \in Contexts :
    /\ Distinctly(relayed[c])
    /\ \A m \in Messages :
         /\ sent[c][m] <= 1
         /\ Sender[m] = c /\ relay[m] = "new" => sent[c][m] = 0
         /\ Sender[m] # c /\ sent[c][m] = 1 => Knows(relayed[c], m)

\* The commits, the database, its stream, the leader's memory and the announcements agree.
CommitsAgree ==
  /\ PositionStands /\ CommitsAreDone /\ ReignsGrow /\ AnnouncedInOrder /\ LeaderRemembers
  /\ RowsFollowCommits /\ PositionsGrow /\ AnnouncedIsStored

CollectionInv == CollectionTyped /\ CommitsAgree /\ RelaysAreCounted /\ SentIsRemembered

\* A set of numbers up to n that has a number has a greatest one: otherwise the successor would map what is
\* at most one of them into itself, though not onto itself.
LEMMA Greatest ==
  ASSUME NEW n \in Nat, NEW S \in SUBSET (0..n), S # {}
  PROVE  \E m \in S : \A x \in S : x <= m
<1> SUFFICES ASSUME \A m \in S : \E x \in S : x > m PROVE FALSE
  <2>1. \A m \in S, x \in S : m \in Int /\ x \in Int OBVIOUS
  <2> QED BY <2>1
<1> DEFINE D == {j \in 0..n : \E x \in S : j <= x}
           next == [j \in D |-> j + 1]
<1>1. IsFiniteSet(D)
  <2>1. IsFiniteSet(0..n) BY FS_Interval
  <2> QED BY <2>1, FS_Subset
<1>2. \A j \in D : j + 1 \in D
  <2>1. ASSUME NEW j \in D PROVE j + 1 \in D
    <3>1. PICK x \in S : j <= x OBVIOUS
    <3>2. PICK y \in S : y > x OBVIOUS
    <3>3. x \in 0..n /\ y \in 0..n /\ j \in 0..n OBVIOUS
    <3> QED BY <3>1, <3>2, <3>3
  <2> QED BY <2>1
<1>3. 0 \in D
  <2>1. PICK x \in S : TRUE OBVIOUS
  <2>2. x \in 0..n OBVIOUS
  <2> QED BY <2>2
<1>4. next \in Injection(D, D)
  <2>1. next \in [D -> D] BY <1>2
  <2>2. \A i, j \in D : next[i] = next[j] => i = j OBVIOUS
  <2> QED BY <2>1, <2>2 DEF Injection, IsInjective
<1>5. next \in Surjection(D, D) BY <1>1, <1>4, FS_Injection
<1>6. \E j \in D : next[j] = 0 BY <1>3, <1>5 DEF Surjection
<1> QED BY <1>6

LEMMA MaxIs ==
  ASSUME NEW n \in Nat, NEW S \in SUBSET (0..n), S # {}
  PROVE  Max(S) \in S /\ Max(S) \in 0..n /\ \A x \in S : x <= Max(S)
<1>1. PICK m \in S : \A x \in S : x <= m BY Greatest
<1>2. \A x \in S : x \in 0..n OBVIOUS
<1>3. \A x \in S : m >= x BY <1>1, <1>2
<1>4. Max(S) \in S /\ \A x \in S : Max(S) >= x BY <1>3 DEF Max
<1> QED BY <1>2, <1>4

----------------------------------------------------------------------------
(* Positions, memories and logs *)

LEMMA PositionsOrdered ==
  ASSUME NEW a \in Positions, NEW b \in Positions, NEW c \in Positions
  PROVE  /\ NotAfter(a, a)
         /\ NotAfter(a, b) /\ NotAfter(b, c) => NotAfter(a, c)
         /\ Before(a, b) => NotAfter(a, b)
         /\ Before(a, b) => ~NotAfter(b, a)
         /\ Before(a, b) => a # b
         /\ NotAfter(a, b) => Before(a, Advanced(b))
<1>1. /\ a.term \in Nat /\ a.seq \in Nat /\ a.version \in Nat
      /\ b.term \in Nat /\ b.seq \in Nat /\ b.version \in Nat
      /\ c.term \in Nat /\ c.seq \in Nat /\ c.version \in Nat
  BY DEF Positions
<1>2. /\ Advanced(b).term = b.term /\ Advanced(b).seq = b.seq + 1 /\ Advanced(b).version = b.version + 1
  BY DEF Positions, Advanced
<1>3. NotAfter(a, a) BY <1>1 DEF NotAfter
<1>4. NotAfter(a, b) /\ NotAfter(b, c) => NotAfter(a, c) BY <1>1 DEF NotAfter
<1>5. Before(a, b) => NotAfter(a, b) BY <1>1 DEF NotAfter, Before
<1>6. Before(a, b) => ~NotAfter(b, a) BY <1>1 DEF NotAfter, Before
<1>7. Before(a, b) => a # b BY <1>1 DEF Before
<1>8. NotAfter(a, b) => Before(a, Advanced(b)) BY <1>1, <1>2 DEF NotAfter, Before
<1> QED BY <1>3, <1>4, <1>5, <1>6, <1>7, <1>8

LEMMA PositionsAreTyped ==
  ASSUME NEW a \in Positions
  PROVE  /\ Advanced(a) \in Positions /\ StartAfter(a) \in Positions
         /\ NotAfter(a, StartAfter(a))
<1>1. a.term \in Nat /\ a.seq \in Nat /\ a.version \in Nat BY DEF Positions
<1>2. Advanced(a) \in Positions BY <1>1 DEF Positions, Advanced
<1>3. StartAfter(a) \in Positions BY <1>1 DEF Positions, StartAfter
<1>4. NotAfter(a, StartAfter(a)) BY <1>1 DEF NotAfter, StartAfter
<1> QED BY <1>2, <1>3, <1>4

\* A position ahead of the stream is the stream's when it is stored.
LEMMA StreamMoves ==
  ASSUME NEW stream \in Positions, NEW at \in Positions, Before(stream, at)
  PROVE  StreamAfter(stream, at) = at
<1>1. /\ stream.term \in Nat /\ stream.seq \in Nat /\ stream.version \in Nat
      /\ at.term \in Nat /\ at.seq \in Nat /\ at.version \in Nat
  BY DEF Positions
<1>2. at = [term |-> at.term, seq |-> at.seq, version |-> at.version] BY DEF Positions
<1>3. Larger(stream.term, at.term) = at.term /\ Larger(stream.version, at.version) = at.version
  BY <1>1 DEF Larger, Before
<1>4. at.term > stream.term \/ (at.term = stream.term /\ Larger(stream.seq, at.seq) = at.seq)
  BY <1>1 DEF Larger, Before
<1>5. (CASE at.term > stream.term -> at.seq
         [] at.term = stream.term -> Larger(stream.seq, at.seq)
         [] OTHER -> stream.seq) = at.seq
  BY <1>1, <1>4
<1> QED BY <1>2, <1>3, <1>5 DEF StreamAfter

LEMMA RememberedIsTyped ==
  ASSUME NEW S, NEW list \in Seq(S), NEW x \in S, Len(list) <= Capacity
  PROVE  Remembered(list, x) \in Seq(S) /\ Len(Remembered(list, x)) <= Capacity
<1>1. Capacity \in Nat BY CollectionAssumption
<1>2. Append(list, x) \in Seq(S) /\ Len(Append(list, x)) = Len(list) + 1 /\ Len(list) \in Nat OBVIOUS
<1>3. CASE Len(Append(list, x)) > Capacity
  <2>1. Append(list, x) # <<>> BY <1>2
  <2>2. Tail(Append(list, x)) \in Seq(S) /\ Len(Tail(Append(list, x))) = Len(Append(list, x)) - 1 BY <1>2, <2>1
  <2> QED BY <1>1, <1>2, <1>3, <2>2 DEF Remembered
<1>4. CASE ~(Len(Append(list, x)) > Capacity)
  BY <1>1, <1>2, <1>4 DEF Remembered
<1> QED BY <1>3, <1>4

\* A list without repetitions is not longer than the set it is over: a memory of that size forgets nothing.
LEMMA NothingIsForgotten ==
  ASSUME NEW S, IsFiniteSet(S), Cardinality(S) <= Capacity, NEW list \in Seq(S), Distinctly(list),
         NEW x \in S, ~Knows(list, x)
  PROVE  /\ Remembered(list, x) = Append(list, x)
         /\ Distinctly(Append(list, x))
         /\ \A y : Knows(Append(list, x), y) <=> Knows(list, y) \/ y = x
<1> DEFINE longer == Append(list, x)
           n == Len(list)
<1>1. /\ longer \in Seq(S) /\ Len(longer) = n + 1 /\ n \in Nat
      /\ DOMAIN list = 1..n /\ DOMAIN longer = 1..(n + 1)
      /\ \A i \in 1..n : longer[i] = list[i]
      /\ longer[n + 1] = x
  OBVIOUS
<1> HIDE DEF longer
<1>2. \A i \in 1..(n + 1) : i \in 1..n \/ i = n + 1 BY <1>1
<1>3. Distinctly(longer) BY <1>1, <1>2 DEF Distinctly, Knows
<1>4. \A y : Knows(longer, y) <=> Knows(list, y) \/ y = x
  <2>1. 1..n \subseteq 1..(n + 1) /\ n + 1 \in 1..(n + 1) BY <1>1
  <2> QED BY <1>1, <1>2, <2>1 DEF Knows
<1>5. Len(longer) <= Capacity
  <2>1. longer \in Injection(1..(n + 1), S)
    <3>1. longer \in [1..(n + 1) -> S] BY <1>1
    <3> QED BY <1>1, <1>3, <3>1 DEF Injection, IsInjective, Distinctly
  <2>2. Cardinality(1..(n + 1)) <= Cardinality(S) BY <2>1, FS_Injection
  <2>3. Cardinality(1..(n + 1)) = n + 1 BY <1>1, FS_Interval
  <2>4. Cardinality(S) \in Nat /\ Capacity \in Nat BY FS_CardinalityType, CollectionAssumption
  <2> QED BY <1>1, <2>2, <2>3, <2>4
<1>6. Remembered(list, x) = longer
  <2>1. ~(Len(longer) > Capacity) BY <1>1, <1>5, CollectionAssumption
  <2> QED BY <2>1 DEF Remembered, longer
<1> QED BY <1>3, <1>4, <1>6 DEF longer

LEMMA FoldedEmpty == Folded(<<>>) = [k \in RowKeys |-> Gone]
<1>1. \A k : Writing(<<>>, k) = {} BY DEF Writing
<1> QED BY <1>1 DEF Folded

\* One envelope more writes over what the others have written.
LEMMA FoldedAppend ==
  ASSUME NEW log \in Seq(Stamps), NEW x \in Stamps
  PROVE  Folded(Append(log, x)) = Written(Folded(log), x.env)
<1> DEFINE longer == Append(log, x)
           n == Len(log)
<1>1. /\ n \in Nat /\ DOMAIN log = 1..n /\ DOMAIN longer = 1..(n + 1)
      /\ \A i \in 1..n : longer[i] = log[i]
      /\ longer[n + 1] = x
  OBVIOUS
<1> HIDE DEF longer
<1>2. \A i \in 1..(n + 1) : i \in 1..n \/ i = n + 1 BY <1>1
<1>3. ASSUME NEW k \in RowKeys
      PROVE  Folded(longer)[k] = Written(Folded(log), x.env)[k]
  <2>1. Written(Folded(log), x.env)[k] = IF k \in DOMAIN Writes[x.env] THEN Writes[x.env][k] ELSE Folded(log)[k]
    BY DEF Written
  <2>2. /\ Folded(log)[k] = IF Writing(log, k) = {} THEN Gone ELSE Writes[log[Max(Writing(log, k))].env][k]
        /\ Folded(longer)[k] = IF Writing(longer, k) = {} THEN Gone ELSE Writes[longer[Max(Writing(longer, k))].env][k]
    BY DEF Folded
  <2>3. CASE k \in DOMAIN Writes[x.env]
    <3>1. n + 1 \in Writing(longer, k) /\ Writing(longer, k) \in SUBSET (0..(n + 1))
      BY <1>1, <2>3 DEF Writing
    <3>2. Max(Writing(longer, k)) \in 0..(n + 1) /\ n + 1 <= Max(Writing(longer, k))
      <4>1. n + 1 \in Nat BY <1>1
      <4> QED BY <3>1, <4>1, MaxIs
    <3>3. Max(Writing(longer, k)) = n + 1 BY <1>1, <3>2
    <3> QED BY <1>1, <2>1, <2>2, <2>3, <3>1, <3>3
  <2>4. CASE k \notin DOMAIN Writes[x.env]
    <3>1. Writing(longer, k) = Writing(log, k)
      <4>1. 1..n \subseteq 1..(n + 1) BY <1>1
      <4> QED BY <1>1, <1>2, <2>4, <4>1 DEF Writing
    <3>2. ASSUME Writing(log, k) # {} PROVE longer[Max(Writing(log, k))] = log[Max(Writing(log, k))]
      <4>1. Writing(log, k) \in SUBSET (0..n) /\ Writing(log, k) \subseteq 1..n BY <1>1 DEF Writing
      <4>2. Max(Writing(log, k)) \in Writing(log, k) BY <1>1, <3>2, <4>1, MaxIs
      <4> QED BY <1>1, <4>1, <4>2
    <3> QED BY <2>1, <2>2, <2>4, <3>1, <3>2
  <2> QED BY <2>3, <2>4
<1>4. DOMAIN Folded(longer) = RowKeys /\ Folded(longer) = [k \in RowKeys |-> Folded(longer)[k]] BY DEF Folded
<1>5. Written(Folded(log), x.env) = [k \in RowKeys |-> Written(Folded(log), x.env)[k]] BY DEF Written
<1> QED BY <1>3, <1>4, <1>5 DEF longer

----------------------------------------------------------------------------
(* What steps have in common *)

LEMMA TroubleIs ==
  ASSUME CollectionTyped, NEW kind \in Kinds, Trouble(kind)
  PROVE  /\ trouble' \in [Kinds -> Nat] /\ trouble'["crash"] <= Budget["crash"]
         /\ Reign \in Nat
         /\ Reign' = IF kind = "crash" THEN Reign + 1 ELSE Reign
<1>1. /\ trouble \in [Kinds -> Nat] /\ trouble["crash"] \in Nat /\ trouble[kind] \in Nat
      /\ Budget["crash"] \in Nat /\ trouble["crash"] <= Budget["crash"]
  BY CollectionAssumption DEF CollectionTyped, Kinds
<1>2. trouble' = [trouble EXCEPT ![kind] = trouble[kind] - 1] /\ trouble[kind] > 0 BY DEF Trouble
<1>3. trouble[kind] - 1 \in Nat BY <1>1, <1>2
<1>4. trouble' \in [Kinds -> Nat] BY <1>1, <1>2, <1>3
<1>5. trouble'["crash"] = IF kind = "crash" THEN trouble["crash"] - 1 ELSE trouble["crash"]
  BY <1>1, <1>2 DEF Kinds
<1> QED BY <1>1, <1>4, <1>5 DEF Reign

LEMMA ReignIs ==
  ASSUME CollectionTyped PROVE Reign \in Nat
BY CollectionAssumption DEF CollectionTyped, Kinds, Reign

\* Steps that leave the commits and what is known of them alone.
LEMMA CommitsUntouched ==
  ASSUME CommitsAgree, UNCHANGED <<leader, position, serving, commits, announced, answered>>,
         stored'.rows = stored.rows, stored'.done = stored.done, stored'.stream = stored.stream,
         Reign' = Reign
  PROVE  CommitsAgree'
<1>1. Located' = Located BY DEF Located
<1>2. PositionStands' BY <1>1 DEF CommitsAgree, PositionStands
<1>3. CommitsAreDone' BY DEF CommitsAgree, CommitsAreDone
<1>4. ReignsGrow' BY <1>1 DEF CommitsAgree, ReignsGrow
<1>5. AnnouncedInOrder' BY DEF CommitsAgree, AnnouncedInOrder
<1>6. LeaderRemembers' BY DEF CommitsAgree, LeaderRemembers
<1>7. RowsFollowCommits' BY DEF CommitsAgree, RowsFollowCommits
<1>8. PositionsGrow' BY DEF CommitsAgree, PositionsGrow
<1>9. AnnouncedIsStored' BY DEF CommitsAgree, AnnouncedIsStored
<1> QED BY <1>2, <1>3, <1>4, <1>5, <1>6, <1>7, <1>8, <1>9 DEF CommitsAgree

\* Steps that leave the relays alone.
LEMMA RelaysUntouched ==
  ASSUME CollectionInv, UNCHANGED relays
  PROVE  RelaysAreCounted' /\ SentIsRemembered'
<1>1. relay' = relay /\ pending' = pending /\ relayed' = relayed /\ sent' = sent BY DEF relays
<1>2. RelaysAreCounted' BY <1>1 DEF CollectionInv, RelaysAreCounted
<1>3. SentIsRemembered' BY <1>1 DEF CollectionInv, SentIsRemembered
<1> QED BY <1>2, <1>3

LEMMA CollectionStarts == CollectionInit => CollectionInv
<1> SUFFICES ASSUME CollectionInit PROVE CollectionInv OBVIOUS
<1>1. CollectionTyped
  <2>1. <<>> \in Seq(Envelopes) /\ <<>> \in Seq(Messages) /\ <<>> \in Seq(Stamps) /\ Len(<<>>) = 0 OBVIOUS
  <2>2. NoStream \in Positions BY DEF NoStream, Positions
  <2>3. DOMAIN stored.indexes = {} BY DEF CollectionInit
  <2>4. trouble \in [Kinds -> Nat] /\ trouble["crash"] <= Budget["crash"]
    BY CollectionAssumption DEF CollectionInit, Kinds
  <2> QED BY <2>1, <2>2, <2>3, <2>4, CollectionAssumption DEF CollectionInit, CollectionTyped
<1>2. commits = <<>> /\ announced = <<>> /\ DOMAIN commits = {} /\ DOMAIN announced = {} BY DEF CollectionInit
<1>3. serving = Idle /\ serving.pc = "idle" /\ leader = Nobody /\ ~Located BY DEF CollectionInit, Idle, Located
<1>4. PositionStands BY <1>2, <1>3 DEF PositionStands
<1>5. CommitsAreDone BY <1>2, <1>3 DEF CommitsAreDone, CollectionInit
<1>6. ReignsGrow BY <1>2 DEF ReignsGrow
<1>7. AnnouncedInOrder BY <1>2 DEF AnnouncedInOrder
<1>8. LeaderRemembers
  <2>1. \A c \in Contexts : answered[c] = <<>> BY DEF CollectionInit
  <2>2. Distinctly(<<>>) BY DEF Distinctly
  <2> QED BY <1>2, <1>3, <2>1, <2>2 DEF LeaderRemembers
<1>9. RowsFollowCommits BY <1>2, FoldedEmpty DEF RowsFollowCommits, CollectionInit
<1>10. PositionsGrow BY <1>2 DEF PositionsGrow
<1>11. AnnouncedIsStored BY <1>2 DEF AnnouncedIsStored
<1>12. RelaysAreCounted
  <2>1. ASSUME NEW c \in Contexts PROVE pending[c] = Cardinality({m \in Messages : Sender[m] = c /\ relay[m] = "asked"})
    <3>1. {m \in Messages : Sender[m] = c /\ relay[m] = "asked"} = {} BY DEF CollectionInit
    <3> QED BY <3>1, FS_EmptySet DEF CollectionInit
  <2> QED BY <2>1 DEF RelaysAreCounted
<1>13. SentIsRemembered
  <2>1. Distinctly(<<>>) BY DEF Distinctly
  <2> QED BY <2>1 DEF SentIsRemembered, CollectionInit
<1> QED BY <1>1, <1>4, <1>5, <1>6, <1>7, <1>8, <1>9, <1>10, <1>11, <1>12, <1>13 DEF CollectionInv, CommitsAgree

----------------------------------------------------------------------------
(* Requests, indexes and the choice of a leader *)

LEMMA IndexesChange ==
  ASSUME CollectionInv, NEW s \in DOMAIN Signatures, EnsureIndex(s) \/ MarkIndexRemoved(s)
  PROVE  CollectionInv'
<1>1. UNCHANGED <<leader, position, serving, commits, announced, asking, relays, trouble>>
  BY DEF EnsureIndex, MarkIndexRemoved
<1>2. UNCHANGED <<answered, request, relay, pending, relayed, sent>> BY <1>1 DEF asking, relays
<1>3. PICK names \in SUBSET DOMAIN Signatures : stored' = [stored EXCEPT !.indexes = Indexed(names, stored.rows)]
  <2>1. DOMAIN stored.indexes \subseteq DOMAIN Signatures BY DEF CollectionInv, CollectionTyped
  <2>2. CASE EnsureIndex(s)
    <3>1. DOMAIN stored.indexes \cup {s} \subseteq DOMAIN Signatures BY <2>1
    <3> QED BY <2>2, <3>1 DEF EnsureIndex
  <2>3. CASE MarkIndexRemoved(s)
    <3>1. DOMAIN stored.indexes \ {s} \subseteq DOMAIN Signatures BY <2>1
    <3> QED BY <2>3, <3>1 DEF MarkIndexRemoved
  <2> QED BY <2>2, <2>3
<1>4. stored' = [rows |-> stored.rows, done |-> stored.done, stream |-> stored.stream,
                 indexes |-> Indexed(names, stored.rows)]
  <2>1. stored = [rows |-> stored.rows, done |-> stored.done, stream |-> stored.stream, indexes |-> stored.indexes]
    BY DEF CollectionInv, CollectionTyped
  <2> QED BY <1>3, <2>1
<1>5. DOMAIN Indexed(names, stored.rows) \subseteq DOMAIN Signatures BY DEF Indexed
<1>6. /\ stored'.rows = stored.rows /\ stored'.done = stored.done /\ stored'.stream = stored.stream
      /\ stored'.indexes = Indexed(names, stored.rows)
  BY <1>4
<1>7. CollectionTyped' BY <1>1, <1>2, <1>4, <1>5, <1>6 DEF CollectionInv, CollectionTyped
<1>8. Reign' = Reign BY <1>1 DEF Reign
<1>9. CommitsAgree' BY <1>1, <1>2, <1>6, <1>8, CommitsUntouched DEF CollectionInv
<1> QED BY <1>1, <1>7, <1>9, RelaysUntouched DEF CollectionInv

LEMMA RequestIsMade ==
  ASSUME CollectionInv, NEW e \in Envelopes, RequestApplyLocalMutations(e)
  PROVE  CollectionInv'
<1>1. /\ UNCHANGED <<leader, stored, position, serving, commits, announced, answered, relays, trouble>>
      /\ request' = [request EXCEPT ![e] = "asked"]
  BY DEF RequestApplyLocalMutations
<1>2. UNCHANGED <<relay, pending, relayed, sent>> BY <1>1 DEF relays
<1>3. CollectionTyped' BY <1>1, <1>2 DEF CollectionInv, CollectionTyped
<1>4. Reign' = Reign BY <1>1 DEF Reign
<1>5. CommitsAgree' BY <1>1, <1>4, CommitsUntouched DEF CollectionInv
<1> QED BY <1>1, <1>3, <1>5, RelaysUntouched DEF CollectionInv

\* Nobody but a former leader has been forgotten: who leads next starts with an empty memory.
LEMMA LeaderIsChosen ==
  ASSUME CollectionInv, NEW c \in Contexts, Lead(c)
  PROVE  CollectionInv'
<1>1. /\ leader = Nobody /\ leader' = c
      /\ UNCHANGED <<stored, position, serving, commits, announced, asking, relays, trouble>>
  BY DEF Lead
<1>2. UNCHANGED <<answered, request, relay, pending, relayed, sent>> BY <1>1 DEF asking, relays
<1>3. c # Nobody BY CollectionAssumption
<1>4. serving = Idle /\ serving.pc = "idle" BY <1>1 DEF CollectionInv, CollectionTyped, Idle
<1>5. position[c] = Unread /\ answered[c] = <<>> BY <1>1, <1>3 DEF CollectionInv, CollectionTyped
<1>6. CollectionTyped'
  <2>1. Contexts \ {c} \subseteq Contexts \ {Nobody} BY <1>3, CollectionAssumption
  <2> QED BY <1>1, <1>2, <1>3, <2>1 DEF CollectionInv, CollectionTyped
<1>7. ~Located /\ ~Located'
  <2>1. Unread \notin Positions BY CollectionAssumption
  <2> QED BY <1>1, <1>5, <2>1 DEF Located
<1>8. Reign' = Reign BY <1>1 DEF Reign
<1>9. /\ \A i \in DOMAIN announced : announced[i].by # Reign
  BY <1>7 DEF CollectionInv, CommitsAgree, ReignsGrow
<1>10. PositionStands' BY <1>1, <1>4, <1>7 DEF CollectionInv, CommitsAgree, PositionStands
<1>11. CommitsAreDone' BY <1>1 DEF CollectionInv, CommitsAgree, CommitsAreDone
<1>12. ReignsGrow' BY <1>1, <1>8, <1>9 DEF CollectionInv, CommitsAgree, ReignsGrow
<1>13. AnnouncedInOrder' BY <1>1 DEF CollectionInv, CommitsAgree, AnnouncedInOrder
<1>14. LeaderRemembers'
  BY <1>1, <1>2, <1>4, <1>8, <1>9 DEF CollectionInv, CommitsAgree, LeaderRemembers
<1>15. RowsFollowCommits' BY <1>1 DEF CollectionInv, CommitsAgree, RowsFollowCommits
<1>16. PositionsGrow' BY <1>1 DEF CollectionInv, CommitsAgree, PositionsGrow
<1>17. AnnouncedIsStored' BY <1>1 DEF CollectionInv, CommitsAgree, AnnouncedIsStored
<1> QED BY <1>1, <1>6, <1>10, <1>11, <1>12, <1>13, <1>14, <1>15, <1>16, <1>17, RelaysUntouched
        DEF CollectionInv, CommitsAgree

\* A request is taken up when the leader does not remember its answer.
LEMMA RequestIsTaken ==
  ASSUME CollectionInv, NEW e \in Envelopes, ApplyMutations(e)
  PROVE  CollectionInv'
<1>1. /\ leader # Nobody /\ serving = Idle
      /\ UNCHANGED <<leader, stored, position, commits, announced, answered, relays, trouble>>
      /\ \/ Knows(answered[leader], e) /\ request' = [request EXCEPT ![e] = "answered"] /\ serving' = serving
         \/ ~Knows(answered[leader], e) /\ request' = request /\ serving' = [pc |-> "locate", env |-> e]
  BY DEF ApplyMutations, Knows
<1>2. UNCHANGED <<relay, pending, relayed, sent>> BY <1>1 DEF relays
<1>3. CollectionTyped'
  <2>1. request' \in [Envelopes -> {"new", "asked", "answered", "rejected", "abandoned"}]
    BY <1>1 DEF CollectionInv, CollectionTyped
  <2>2. serving' = Idle \/ serving' \in [pc : {"locate", "publish"}, env : Envelopes] BY <1>1
  <2> QED BY <1>1, <1>2, <2>1, <2>2 DEF CollectionInv, CollectionTyped
<1>4. Reign' = Reign /\ Located' = Located BY <1>1 DEF Reign, Located
<1>5. CASE serving' = serving
  <2>1. CommitsAgree' BY <1>1, <1>4, <1>5, CommitsUntouched DEF CollectionInv
  <2> QED BY <1>1, <1>3, <2>1, RelaysUntouched DEF CollectionInv
<1>6. CASE serving' # serving
  <2>1. ~Knows(answered[leader], e) /\ serving' = [pc |-> "locate", env |-> e] BY <1>1, <1>6
  <2>2. serving'.pc = "locate" /\ serving'.env = e /\ serving.pc = "idle" BY <1>1, <2>1 DEF Idle
  <2>3. PositionStands' BY <1>1, <1>4, <2>2 DEF CollectionInv, CommitsAgree, PositionStands
  <2>4. CommitsAreDone' BY <1>1, <2>2 DEF CollectionInv, CommitsAgree, CommitsAreDone
  <2>5. ReignsGrow' BY <1>1, <1>4, <2>2 DEF CollectionInv, CommitsAgree, ReignsGrow
  <2>6. AnnouncedInOrder' BY <1>1 DEF CollectionInv, CommitsAgree, AnnouncedInOrder
  <2>7. LeaderRemembers'
    <3>1. \A x : serving # [pc |-> "publish", env |-> x] BY <2>2
    <3> QED BY <1>1, <1>4, <2>1, <2>2, <3>1 DEF CollectionInv, CommitsAgree, LeaderRemembers
  <2>8. RowsFollowCommits' BY <1>1 DEF CollectionInv, CommitsAgree, RowsFollowCommits
  <2>9. PositionsGrow' BY <1>1 DEF CollectionInv, CommitsAgree, PositionsGrow
  <2>10. AnnouncedIsStored' BY <1>1 DEF CollectionInv, CommitsAgree, AnnouncedIsStored
  <2> QED BY <1>1, <1>3, <2>3, <2>4, <2>5, <2>6, <2>7, <2>8, <2>9, <2>10, RelaysUntouched
          DEF CollectionInv, CommitsAgree
<1> QED BY <1>5, <1>6

----------------------------------------------------------------------------
(* The leader's handler *)

\* What a handler at its first step knows.
LEMMA Locating ==
  ASSUME CollectionInv, serving.pc = "locate"
  PROVE  /\ serving # Idle /\ serving.env \in Envelopes /\ serving = [pc |-> "locate", env |-> serving.env]
         /\ leader \in Contexts /\ leader # Nobody
         /\ \A x : serving # [pc |-> "publish", env |-> x]
<1>1. serving # Idle BY DEF Idle
<1>2. serving \in [pc : {"locate", "publish"}, env : Envelopes] BY <1>1 DEF CollectionInv, CollectionTyped
<1>3. serving.env \in Envelopes /\ serving = [pc |-> "locate", env |-> serving.env] BY <1>2
<1> QED BY <1>1, <1>3 DEF CollectionInv, CollectionTyped

LEMMA Publishing ==
  ASSUME CollectionInv, serving.pc = "publish"
  PROVE  /\ serving # Idle /\ serving.env \in Envelopes /\ serving = [pc |-> "publish", env |-> serving.env]
         /\ leader \in Contexts /\ leader # Nobody /\ position[leader] \in Positions /\ serving.env \in stored.done
<1>1. serving # Idle BY DEF Idle
<1>2. serving \in [pc : {"locate", "publish"}, env : Envelopes] BY <1>1 DEF CollectionInv, CollectionTyped
<1>3. serving.env \in Envelopes /\ serving = [pc |-> "publish", env |-> serving.env] BY <1>2
<1> QED BY <1>1, <1>3 DEF CollectionInv, CollectionTyped, CommitsAgree, PositionStands, Located, CommitsAreDone

\* A leader that has not found its position has announced nothing.
LEMMA PositionIsRead ==
  ASSUME CollectionInv, NEW read \in BOOLEAN, Position(read)
  PROVE  CollectionInv'
<1>1. /\ serving.pc = "locate" /\ position[leader] = Unread
      /\ UNCHANGED <<leader, stored, serving, commits, announced, asking, relays>>
      /\ \/ position' = [position EXCEPT ![leader] = StartAfter(stored.stream)] /\ UNCHANGED trouble
         \/ position' = [position EXCEPT ![leader] = Broken] /\ Trouble("fault")
  BY DEF Position
<1>2. UNCHANGED <<answered, request, relay, pending, relayed, sent>> BY <1>1 DEF asking, relays
<1>3. leader \in Contexts /\ leader # Nobody /\ serving # Idle /\ \A x : serving # [pc |-> "publish", env |-> x]
  BY <1>1, Locating
<1>4. stored.stream \in Positions /\ StartAfter(stored.stream) \in Positions
      /\ NotAfter(stored.stream, StartAfter(stored.stream))
  BY PositionsAreTyped DEF CollectionInv, CollectionTyped
<1>5. trouble' \in [Kinds -> Nat] /\ trouble'["crash"] <= Budget["crash"] /\ Reign' = Reign
  <2>1. CASE UNCHANGED trouble BY <2>1 DEF CollectionInv, CollectionTyped, Reign
  <2>2. CASE Trouble("fault")
    <3>1. "fault" \in Kinds /\ "fault" # "crash" BY DEF Kinds
    <3> QED BY <2>2, <3>1, TroubleIs DEF CollectionInv
  <2> QED BY <1>1, <2>1, <2>2
<1>6. /\ position' \in [Contexts -> Positions \cup {Unread, Broken}]
      /\ position'[leader] = StartAfter(stored.stream) \/ position'[leader] = Broken
      /\ \A c \in Contexts \ {leader} : position'[c] = position[c]
  <2>1. position \in [Contexts -> Positions \cup {Unread, Broken}] BY DEF CollectionInv, CollectionTyped
  <2>2. PICK p \in Positions \cup {Unread, Broken} :
             /\ position' = [position EXCEPT ![leader] = p]
             /\ p = StartAfter(stored.stream) \/ p = Broken
    BY <1>1, <1>4
  <2>3. position'[leader] = p /\ \A c \in Contexts \ {leader} : position'[c] = position[c] BY <1>3, <2>1, <2>2
  <2>4. position' \in [Contexts -> Positions \cup {Unread, Broken}] BY <2>1, <2>2
  <2> QED BY <2>2, <2>3, <2>4
<1>7. CollectionTyped'
  <2>1. \A c \in Contexts \ {leader} : position'[c] = Unread BY <1>6 DEF CollectionInv, CollectionTyped
  <2> QED BY <1>1, <1>2, <1>5, <1>6, <2>1 DEF CollectionInv, CollectionTyped
<1>8. ~Located BY <1>1, CollectionAssumption DEF Located
<1>9. \A j \in DOMAIN announced : announced[j].by # Reign BY <1>8 DEF CollectionInv, CommitsAgree, ReignsGrow
<1>10. Located' => position'[leader] = StartAfter(stored.stream)
  BY <1>1, <1>6, CollectionAssumption DEF Located
<1>11. PositionStands' BY <1>1, <1>4, <1>10 DEF CollectionInv, CommitsAgree, PositionStands
<1>12. CommitsAreDone' BY <1>1 DEF CollectionInv, CommitsAgree, CommitsAreDone
<1>13. ReignsGrow' BY <1>1, <1>5, <1>9 DEF CollectionInv, CommitsAgree, ReignsGrow
<1>14. AnnouncedInOrder' BY <1>1 DEF CollectionInv, CommitsAgree, AnnouncedInOrder
<1>15. LeaderRemembers' BY <1>1, <1>2, <1>3, <1>5 DEF CollectionInv, CommitsAgree, LeaderRemembers
<1>16. RowsFollowCommits' BY <1>1 DEF CollectionInv, CommitsAgree, RowsFollowCommits
<1>17. PositionsGrow' BY <1>1 DEF CollectionInv, CommitsAgree, PositionsGrow
<1>18. AnnouncedIsStored' BY <1>1 DEF CollectionInv, CommitsAgree, AnnouncedIsStored
<1> QED BY <1>1, <1>7, <1>11, <1>12, <1>13, <1>14, <1>15, <1>16, <1>17, <1>18, RelaysUntouched
        DEF CollectionInv, CommitsAgree

\* A handler that gives up has told nobody anything; the position may have moved on.
LEMMA HandlerGivesUp ==
  ASSUME CollectionInv, serving.pc = "locate", Reject,
         UNCHANGED <<leader, stored, commits, announced, answered, relays>>,
         \/ position' = position
         \/ position[leader] \in Positions /\ position' = [position EXCEPT ![leader] = Advanced(position[leader])],
         \/ trouble' = trouble
         \/ Trouble("fault")
  PROVE  CollectionInv'
<1>1. /\ leader \in Contexts /\ leader # Nobody /\ serving # Idle /\ serving.env \in Envelopes
      /\ \A x : serving # [pc |-> "publish", env |-> x]
  BY Locating
<1>2. /\ request' = [request EXCEPT ![serving.env] = "rejected"] /\ serving' = Idle /\ serving'.pc = "idle"
  BY DEF Reject, Idle
<1>3. UNCHANGED <<relay, pending, relayed, sent>> BY DEF relays
<1>4. trouble' \in [Kinds -> Nat] /\ trouble'["crash"] <= Budget["crash"] /\ Reign' = Reign
  <2>1. CASE UNCHANGED trouble BY <2>1 DEF CollectionInv, CollectionTyped, Reign
  <2>2. CASE Trouble("fault")
    <3>1. "fault" \in Kinds /\ "fault" # "crash" BY DEF Kinds
    <3> QED BY <2>2, <3>1, TroubleIs DEF CollectionInv
  <2> QED BY <2>1, <2>2
<1>5. /\ position' \in [Contexts -> Positions \cup {Unread, Broken}]
      /\ \A c \in Contexts \ {leader} : position'[c] = position[c]
      /\ \/ position'[leader] = position[leader]
         \/ /\ position[leader] \in Positions
            /\ position'[leader] = Advanced(position[leader]) /\ position'[leader] \in Positions
  <2>1. position \in [Contexts -> Positions \cup {Unread, Broken}] BY DEF CollectionInv, CollectionTyped
  <2>2. CASE position' = position BY <1>1, <2>1, <2>2
  <2>3. CASE position[leader] \in Positions /\ position' = [position EXCEPT ![leader] = Advanced(position[leader])]
    <3>1. Advanced(position[leader]) \in Positions BY <2>3, PositionsAreTyped
    <3> QED BY <1>1, <2>1, <2>3, <3>1
  <2> QED BY <2>2, <2>3
<1>6. CollectionTyped'
  <2>1. \A c \in Contexts \ {leader} : position'[c] = Unread BY <1>5 DEF CollectionInv, CollectionTyped
  <2> QED BY <1>1, <1>2, <1>3, <1>4, <1>5, <2>1 DEF CollectionInv, CollectionTyped
<1>7. Located' = Located BY <1>5 DEF Located
<1>8. \A at \in Positions : Located /\ NotAfter(at, position[leader]) => NotAfter(at, position'[leader])
  <2>1. ASSUME NEW at \in Positions, Located, NotAfter(at, position[leader]) PROVE NotAfter(at, position'[leader])
    <3>1. position[leader] \in Positions BY <2>1 DEF Located
    <3>2. Before(at, Advanced(position[leader])) BY <2>1, <3>1, PositionsOrdered
    <3>3. Advanced(position[leader]) \in Positions BY <3>1, PositionsAreTyped
    <3>4. NotAfter(at, Advanced(position[leader])) BY <3>2, <3>3, PositionsOrdered
    <3> QED BY <1>5, <2>1, <3>4
  <2> QED BY <2>1
<1>9. stored.stream \in Positions /\ \A j \in DOMAIN announced : announced[j].at \in Positions
  <2>1. \A j \in DOMAIN announced : announced[j] \in Stamps BY DEF CollectionInv, CollectionTyped
  <2> QED BY <2>1 DEF CollectionInv, CollectionTyped, Stamps
<1>10. PositionStands' BY <1>2, <1>7, <1>8, <1>9 DEF CollectionInv, CommitsAgree, PositionStands
<1>11. CommitsAreDone' BY <1>2 DEF CollectionInv, CommitsAgree, CommitsAreDone
<1>12. ReignsGrow' BY <1>2, <1>4, <1>7, <1>8, <1>9 DEF CollectionInv, CommitsAgree, ReignsGrow
<1>13. AnnouncedInOrder' BY DEF CollectionInv, CommitsAgree, AnnouncedInOrder
<1>14. LeaderRemembers' BY <1>1, <1>2, <1>4 DEF CollectionInv, CommitsAgree, LeaderRemembers
<1>15. RowsFollowCommits' BY DEF CollectionInv, CommitsAgree, RowsFollowCommits
<1>16. PositionsGrow' BY DEF CollectionInv, CommitsAgree, PositionsGrow
<1>17. AnnouncedIsStored' BY DEF CollectionInv, CommitsAgree, AnnouncedIsStored
<1> QED BY <1>6, <1>10, <1>11, <1>12, <1>13, <1>14, <1>15, <1>16, <1>17, RelaysUntouched
        DEF CollectionInv, CommitsAgree

\* A commit takes the position behind the leader's, and so the stream with it.
LEMMA EnvelopeIsCommitted ==
  ASSUME CollectionInv, Commit
  PROVE  CollectionInv'
<1> DEFINE e == serving.env
           old == position[leader]
           at == Advanced(position[leader])
           x == [env |-> e, by |-> Reign, at |-> at]
           n == Len(commits)
<1>1. /\ serving.pc = "locate" /\ old \notin {Unread, Broken}
      /\ position' = [position EXCEPT ![leader] = at]
      /\ stored' = ApplyCommittedTx(e, position'[leader])
      /\ commits' = IF e \in stored.done THEN commits
                    ELSE Append(commits, [env |-> e, by |-> Reign, at |-> position'[leader]])
      /\ serving' = [serving EXCEPT !.pc = "publish"]
      /\ UNCHANGED <<leader, announced, asking, relays, trouble>>
  BY DEF Commit
<1>2. UNCHANGED <<answered, request, relay, pending, relayed, sent>> BY <1>1 DEF asking, relays
<1>3. /\ leader \in Contexts /\ leader # Nobody /\ serving # Idle /\ e \in Envelopes
      /\ serving = [pc |-> "locate", env |-> e] /\ \A y : serving # [pc |-> "publish", env |-> y]
  BY <1>1, Locating
<1>4. /\ position \in [Contexts -> Positions \cup {Unread, Broken}] /\ stored.stream \in Positions
      /\ commits \in Seq(Stamps) /\ announced \in Seq(Stamps) /\ stored.done \in SUBSET Envelopes
  BY DEF CollectionInv, CollectionTyped
<1>5. old \in Positions /\ Located BY <1>1, <1>3, <1>4 DEF Located
<1>6. at \in Positions BY <1>5, PositionsAreTyped
<1> HIDE DEF e, old, at
<1>7. position'[leader] = at /\ \A c \in Contexts \ {leader} : position'[c] = position[c] BY <1>1, <1>3, <1>4
<1>8. position' \in [Contexts -> Positions \cup {Unread, Broken}] BY <1>1, <1>4, <1>6
<1>9. Located' BY <1>1, <1>3, <1>6, <1>7 DEF Located
<1>10. serving' = [pc |-> "publish", env |-> e] /\ serving'.pc = "publish" /\ serving'.env = e /\ serving' # Idle
  BY <1>1, <1>3 DEF Idle
<1>11. Reign' = Reign /\ Reign \in Nat BY <1>1, ReignIs DEF Reign, CollectionInv
<1>12. x \in Stamps BY <1>3, <1>6, <1>11 DEF Stamps
<1>13. /\ \A i \in DOMAIN commits : commits[i] \in Stamps /\ commits[i].at \in Positions /\ commits[i].by \in Nat
       /\ \A j \in DOMAIN announced : announced[j] \in Stamps /\ announced[j].at \in Positions /\ announced[j].by \in Nat
  <2>1. \A i \in DOMAIN commits : commits[i] \in Stamps BY <1>4
  <2>2. \A j \in DOMAIN announced : announced[j] \in Stamps BY <1>4
  <2> QED BY <2>1, <2>2 DEF Stamps
<1>14. NotAfter(stored.stream, old) BY <1>5 DEF CollectionInv, CommitsAgree, PositionStands, old
<1>15. \A p \in Positions : NotAfter(p, old) => Before(p, at) /\ NotAfter(p, at)
  <2>1. ASSUME NEW p \in Positions, NotAfter(p, old) PROVE Before(p, at) /\ NotAfter(p, at)
    <3>1. Before(p, at) BY <1>5, <2>1, PositionsOrdered DEF at, old
    <3> QED BY <1>6, <3>1, PositionsOrdered
  <2> QED BY <2>1
<1>16. Before(stored.stream, at) /\ NotAfter(stored.stream, at) BY <1>4, <1>14, <1>15
<1>17. \A i \in DOMAIN commits : NotAfter(commits[i].at, stored.stream) /\ Before(commits[i].at, at)
  <2>1. ASSUME NEW i \in DOMAIN commits PROVE NotAfter(commits[i].at, stored.stream) /\ Before(commits[i].at, at)
    <3>1. NotAfter(commits[i].at, stored.stream) BY DEF CollectionInv, CommitsAgree, PositionStands
    <3>2. NotAfter(commits[i].at, old) BY <1>4, <1>5, <1>13, <1>14, <3>1, PositionsOrdered
    <3> QED BY <1>13, <1>15, <3>1, <3>2
  <2> QED BY <2>1
<1>18. \A j \in DOMAIN announced : announced[j].by = Reign => Before(announced[j].at, at) /\ NotAfter(announced[j].at, at)
  <2>1. \A j \in DOMAIN announced : announced[j].by = Reign => NotAfter(announced[j].at, old)
    BY DEF CollectionInv, CommitsAgree, ReignsGrow, old
  <2> QED BY <1>13, <1>15, <2>1
<1>19. ReignsGrow' => (serving'.pc = "publish" => Located') BY <1>9
<1>20. CASE e \in stored.done
  <2>1. stored' = stored /\ commits' = commits BY <1>1, <1>20 DEF ApplyCommittedTx
  <2>2. CollectionTyped'
    <3>1. \A c \in Contexts \ {leader} : position'[c] = Unread BY <1>7 DEF CollectionInv, CollectionTyped
    <3>2. serving' \in [pc : {"locate", "publish"}, env : Envelopes] BY <1>3, <1>10
    <3> QED BY <1>1, <1>2, <1>3, <1>8, <2>1, <3>1, <3>2 DEF CollectionInv, CollectionTyped
  <2>3. PositionStands' BY <1>1, <1>7, <1>9, <1>16, <2>1 DEF CollectionInv, CommitsAgree, PositionStands
  <2>4. CommitsAreDone' BY <1>1, <1>10, <1>20, <2>1 DEF CollectionInv, CommitsAgree, CommitsAreDone
  <2>5. ReignsGrow' BY <1>1, <1>7, <1>9, <1>11, <1>18, <2>1 DEF CollectionInv, CommitsAgree, ReignsGrow
  <2>6. AnnouncedInOrder' BY <1>1, <2>1 DEF CollectionInv, CommitsAgree, AnnouncedInOrder
  <2>7. LeaderRemembers'
    BY <1>1, <1>2, <1>3, <1>10, <1>11, <2>1 DEF CollectionInv, CommitsAgree, LeaderRemembers
  <2>8. RowsFollowCommits' BY <2>1 DEF CollectionInv, CommitsAgree, RowsFollowCommits
  <2>9. PositionsGrow' BY <2>1 DEF CollectionInv, CommitsAgree, PositionsGrow
  <2>10. AnnouncedIsStored' BY <1>1, <2>1 DEF CollectionInv, CommitsAgree, AnnouncedIsStored
  <2> QED BY <1>1, <2>2, <2>3, <2>4, <2>5, <2>6, <2>7, <2>8, <2>9, <2>10, RelaysUntouched
          DEF CollectionInv, CommitsAgree
<1>21. CASE e \notin stored.done
  <2>1. commits' = Append(commits, x) BY <1>1, <1>7, <1>21
  <2>2. /\ n \in Nat /\ DOMAIN commits = 1..n /\ DOMAIN commits' = 1..(n + 1)
        /\ \A i \in 1..n : commits'[i] = commits[i]
        /\ commits'[n + 1] = x /\ commits' \in Seq(Stamps)
    BY <1>4, <1>12, <2>1
  <2>3. x.env = e /\ x.by = Reign /\ x.at = at OBVIOUS
  <2> HIDE DEF x, n
  <2>4. \A i \in 1..(n + 1) : i \in 1..n \/ i = n + 1 BY <2>2
  <2>5. 1..n \subseteq 1..(n + 1) /\ n + 1 \in 1..(n + 1) /\ \A i \in 1..n : i < n + 1 BY <2>2
  <2>6. /\ stored'.rows = Written(stored.rows, e) /\ stored'.done = stored.done \cup {e}
        /\ stored'.stream = at /\ DOMAIN stored'.indexes = DOMAIN stored.indexes
        /\ stored' = [rows |-> stored'.rows, done |-> stored'.done, stream |-> stored'.stream,
                      indexes |-> stored'.indexes]
    <3>1. StreamAfter(stored.stream, at) = at BY <1>4, <1>6, <1>16, StreamMoves
    <3>2. stored' = [rows |-> Written(stored.rows, e), done |-> stored.done \cup {e}, stream |-> at,
                     indexes |-> Indexed(DOMAIN stored.indexes, Written(stored.rows, e))]
      BY <1>1, <1>7, <1>21, <3>1 DEF ApplyCommittedTx
    <3>3. DOMAIN Indexed(DOMAIN stored.indexes, Written(stored.rows, e)) = DOMAIN stored.indexes BY DEF Indexed
    <3> QED BY <3>2, <3>3
  <2>7. CollectionTyped'
    <3>1. \A c \in Contexts \ {leader} : position'[c] = Unread BY <1>7 DEF CollectionInv, CollectionTyped
    <3>2. serving' \in [pc : {"locate", "publish"}, env : Envelopes] BY <1>3, <1>10
    <3>3. stored'.done \in SUBSET Envelopes BY <1>3, <1>4, <2>6
    <3> QED BY <1>1, <1>2, <1>3, <1>6, <1>8, <2>2, <2>6, <3>1, <3>2, <3>3 DEF CollectionInv, CollectionTyped
  <2>8. PositionStands'
    <3>1. NotAfter(at, at) BY <1>6, PositionsOrdered
    <3>2. \A i \in DOMAIN commits : NotAfter(commits[i].at, at) BY <1>6, <1>13, <1>17, PositionsOrdered
    <3>3. \A i \in DOMAIN commits' : NotAfter(commits'[i].at, at) BY <2>2, <2>3, <2>4, <3>1, <3>2
    <3> QED BY <1>1, <1>7, <1>9, <2>6, <3>1, <3>3 DEF PositionStands
  <2>9. CommitsAreDone'
    <3>1. stored.done = {commits[i].env : i \in DOMAIN commits}
          /\ (\A i, j \in DOMAIN commits : commits[i].env = commits[j].env => i = j)
          /\ \A j \in DOMAIN announced : announced[j].env \in stored.done
      BY DEF CollectionInv, CommitsAgree, CommitsAreDone
    <3>2. \A i \in 1..n : commits[i].env # e BY <1>21, <2>2, <3>1
    <3>3. stored'.done = {commits'[i].env : i \in DOMAIN commits'}
      <4>1. \A y \in stored'.done : \E i \in DOMAIN commits' : commits'[i].env = y
        <5>1. ASSUME NEW y \in stored'.done PROVE \E i \in DOMAIN commits' : commits'[i].env = y
          <6>1. CASE y = e BY <2>2, <2>3, <2>5, <6>1
          <6>2. CASE y \in stored.done
            <7>1. PICK i \in 1..n : commits[i].env = y BY <2>2, <3>1, <6>2
            <7> QED BY <2>2, <2>5, <7>1
          <6> QED BY <2>6, <6>1, <6>2
        <5> QED BY <5>1
      <4>2. \A i \in DOMAIN commits' : commits'[i].env \in stored'.done
        <5>1. ASSUME NEW i \in 1..(n + 1) PROVE commits'[i].env \in stored'.done
          <6>1. CASE i = n + 1 BY <2>2, <2>3, <2>6, <6>1
          <6>2. CASE i \in 1..n BY <2>2, <2>6, <3>1, <6>2
          <6> QED BY <2>4, <6>1, <6>2
        <5> QED BY <2>2, <5>1
      <4> QED BY <4>1, <4>2
    <3>4. \A i, j \in DOMAIN commits' : commits'[i].env = commits'[j].env => i = j
      BY <2>2, <2>3, <2>4, <3>1, <3>2
    <3>5. serving'.env \in stored'.done BY <1>10, <2>6
    <3>6. \A j \in DOMAIN announced' : announced'[j].env \in stored'.done BY <1>1, <2>6, <3>1
    <3> QED BY <3>3, <3>4, <3>5, <3>6 DEF CommitsAreDone
  <2>10. ReignsGrow'
    <3>1. \A i \in DOMAIN commits : commits[i].by <= Reign BY DEF CollectionInv, CommitsAgree, ReignsGrow
    <3>2. \A i \in DOMAIN commits' : commits'[i].by <= Reign BY <1>11, <2>2, <2>3, <2>4, <3>1
    <3>3. \A j \in DOMAIN announced : announced[j].by <= Reign BY DEF CollectionInv, CommitsAgree, ReignsGrow
    <3> QED BY <1>1, <1>7, <1>9, <1>11, <1>18, <3>2, <3>3 DEF ReignsGrow
  <2>11. \A j \in DOMAIN announced : announced[j] # x
    <3>1. ASSUME NEW j \in DOMAIN announced, announced[j] = x PROVE FALSE
      <4>1. announced[j].by = Reign /\ announced[j].at = at BY <2>3, <3>1
      <4>2. Before(at, at) BY <1>18, <4>1
      <4> QED BY <1>6, <4>2, PositionsOrdered
    <3> QED BY <3>1
  <2>12. AnnouncedInOrder'
    <3>1. SUFFICES ASSUME NEW i \in DOMAIN announced, NEW j \in DOMAIN announced, NEW a \in 1..(n + 1), NEW b \in 1..(n + 1),
                          i < j, commits'[a] = announced[i], commits'[b] = announced[j]
                   PROVE  a < b
      BY <1>1, <2>2 DEF AnnouncedInOrder
    <3>2. a \in 1..n /\ b \in 1..n BY <2>2, <2>4, <2>11, <3>1
    <3> QED BY <2>2, <3>1, <3>2 DEF CollectionInv, CommitsAgree, AnnouncedInOrder
  <2>13. LeaderRemembers'
    <3>1. SUFFICES ASSUME Cardinality(Envelopes) <= Capacity PROVE LeaderRemembers' BY DEF LeaderRemembers
    <3>2. /\ \A c \in Contexts : Distinctly(answered[c])
          /\ ~Knows(answered[leader], e)
          /\ \A j \in DOMAIN announced : announced[j].by = Reign => Knows(answered[leader], announced[j].env)
          /\ \A i \in DOMAIN commits : commits[i].by = Reign => Knows(answered[leader], commits[i].env)
      BY <1>3, <3>1 DEF CollectionInv, CommitsAgree, LeaderRemembers
    <3>3. \A i \in DOMAIN commits' : commits'[i].by = Reign =>
             \/ Knows(answered[leader], commits'[i].env)
             \/ serving' = [pc |-> "publish", env |-> commits'[i].env] /\ commits'[i].at = position'[leader]
      BY <1>7, <1>10, <2>2, <2>3, <2>4, <3>2
    <3> QED BY <1>1, <1>2, <1>3, <1>10, <1>11, <3>2, <3>3 DEF LeaderRemembers
  <2>14. RowsFollowCommits'
    <3>1. stored.rows = Folded(commits) BY DEF CollectionInv, CommitsAgree, RowsFollowCommits
    <3>2. Folded(Append(commits, x)) = Written(Folded(commits), x.env) BY <1>4, <1>12, FoldedAppend
    <3> QED BY <2>1, <2>3, <2>6, <3>1, <3>2 DEF RowsFollowCommits
  <2>15. PositionsGrow'
    <3>1. SUFFICES ASSUME NEW i \in 1..(n + 1), NEW j \in 1..(n + 1), i < j
                   PROVE  Before(commits'[i].at, commits'[j].at)
      BY <2>2 DEF PositionsGrow, Before
    <3>2. i \in 1..n BY <2>2, <3>1
    <3>3. CASE j = n + 1 BY <1>17, <2>2, <2>3, <3>2, <3>3
    <3>4. CASE j \in 1..n
      <4>1. Before(commits[i].at, commits[j].at)
        BY <2>2, <3>1, <3>2, <3>4 DEF CollectionInv, CommitsAgree, PositionsGrow, Before
      <4> QED BY <2>2, <3>2, <3>4, <4>1
    <3> QED BY <2>4, <3>3, <3>4
  <2>16. AnnouncedIsStored'
    <3>1. SUFFICES ASSUME NEW i \in DOMAIN announced
                   PROVE  /\ announced[i].env \in stored'.done
                          /\ \A j \in DOMAIN commits' :
                               /\ commits'[j].env = announced[i].env /\ commits'[j].by = announced[i].by
                               /\ Cardinality(Envelopes) <= Capacity
                               => commits'[j].at = announced[i].at
      BY <1>1 DEF AnnouncedIsStored
    <3>2. announced[i].env \in stored.done BY DEF CollectionInv, CommitsAgree, CommitsAreDone
    <3>3. announced[i].env # e BY <1>21, <3>2
    <3>4. ASSUME NEW j \in 1..(n + 1), commits'[j].env = announced[i].env, commits'[j].by = announced[i].by,
                 Cardinality(Envelopes) <= Capacity
          PROVE  commits'[j].at = announced[i].at
      <4>1. j \in 1..n BY <2>2, <2>3, <2>4, <3>3, <3>4
      <4> QED BY <2>2, <3>4, <4>1 DEF CollectionInv, CommitsAgree, AnnouncedIsStored
    <3> QED BY <2>2, <2>6, <3>2, <3>4
  <2> QED BY <1>1, <2>7, <2>8, <2>9, <2>10, <2>12, <2>13, <2>14, <2>15, <2>16, RelaysUntouched
          DEF CollectionInv, CommitsAgree
<1> QED BY <1>20, <1>21

\* What is published is behind everything this leader has published.
LEMMA CommitIsPublished ==
  ASSUME CollectionInv, NEW lost \in BOOLEAN, Publish(lost)
  PROVE  CollectionInv'
<1> DEFINE e == serving.env
           at == position[leader]
           x == [env |-> e, by |-> Reign, at |-> at]
           n == Len(announced)
           list == answered[leader]
<1>1. /\ serving.pc = "publish" /\ announced' = Append(announced, x)
      /\ answered' = [answered EXCEPT ![leader] = Remembered(list, e)]
      /\ \/ Trouble("lost") /\ request' = request
         \/ request' = [request EXCEPT ![e] = "answered"] /\ trouble' = trouble
      /\ serving' = Idle
      /\ UNCHANGED <<leader, stored, position, commits, relays>>
  BY DEF Publish, Announcement
<1>2. UNCHANGED <<relay, pending, relayed, sent>> BY <1>1 DEF relays
<1>3. /\ leader \in Contexts /\ leader # Nobody /\ serving # Idle /\ e \in Envelopes
      /\ serving = [pc |-> "publish", env |-> e] /\ at \in Positions /\ e \in stored.done /\ Located
  BY <1>1, Publishing DEF Located
<1>4. /\ commits \in Seq(Stamps) /\ announced \in Seq(Stamps) /\ answered \in [Contexts -> Seq(Envelopes)]
      /\ list \in Seq(Envelopes) /\ Len(list) <= Capacity
  BY <1>3 DEF CollectionInv, CollectionTyped
<1> HIDE DEF e, at, list
<1>5. /\ \A i \in DOMAIN commits : commits[i] \in Stamps /\ commits[i].at \in Positions /\ commits[i].by \in Nat
      /\ \A j \in DOMAIN announced : announced[j] \in Stamps /\ announced[j].at \in Positions /\ announced[j].by \in Nat
  <2>1. \A i \in DOMAIN commits : commits[i] \in Stamps BY <1>4
  <2>2. \A j \in DOMAIN announced : announced[j] \in Stamps BY <1>4
  <2> QED BY <2>1, <2>2 DEF Stamps
<1>6. trouble' \in [Kinds -> Nat] /\ trouble'["crash"] <= Budget["crash"] /\ Reign' = Reign /\ Reign \in Nat
  <2>1. CASE UNCHANGED trouble BY <2>1, ReignIs DEF CollectionInv, CollectionTyped, Reign
  <2>2. CASE Trouble("lost")
    <3>1. "lost" \in Kinds /\ "lost" # "crash" BY DEF Kinds
    <3> QED BY <2>2, <3>1, TroubleIs DEF CollectionInv
  <2> QED BY <1>1, <2>1, <2>2
<1>7. x \in Stamps BY <1>3, <1>6 DEF Stamps
<1>8. /\ n \in Nat /\ DOMAIN announced = 1..n /\ DOMAIN announced' = 1..(n + 1)
      /\ \A i \in 1..n : announced'[i] = announced[i]
      /\ announced'[n + 1] = x /\ announced' \in Seq(Stamps)
  BY <1>1, <1>4, <1>7
<1>9. x.env = e /\ x.by = Reign /\ x.at = at OBVIOUS
<1> HIDE DEF x, n
<1>10. \A i \in 1..(n + 1) : i \in 1..n \/ i = n + 1 BY <1>8
<1>11. Located' BY <1>1, <1>3 DEF Located, at
<1>12. serving'.pc = "idle" BY <1>1 DEF Idle
<1>13. /\ Remembered(list, e) \in Seq(Envelopes) /\ Len(Remembered(list, e)) <= Capacity
  BY <1>3, <1>4, RememberedIsTyped
<1>14. /\ answered' \in [Contexts -> Seq(Envelopes)] /\ answered'[leader] = Remembered(list, e)
       /\ \A c \in Contexts \ {leader} : answered'[c] = answered[c]
  BY <1>1, <1>3, <1>4, <1>13
<1>15. CollectionTyped'
  <2>1. \A c \in Contexts : Len(answered'[c]) <= Capacity BY <1>13, <1>14 DEF CollectionInv, CollectionTyped
  <2>2. \A c \in Contexts \ {leader} : answered'[c] = <<>> BY <1>14 DEF CollectionInv, CollectionTyped
  <2>3. request' \in [Envelopes -> {"new", "asked", "answered", "rejected", "abandoned"}]
    BY <1>1, <1>3 DEF CollectionInv, CollectionTyped
  <2> QED BY <1>1, <1>2, <1>6, <1>8, <1>14, <2>1, <2>2, <2>3 DEF CollectionInv, CollectionTyped
<1>16. PositionStands' BY <1>1, <1>11, <1>3, <1>12 DEF CollectionInv, CommitsAgree, PositionStands
<1>17. CommitsAreDone'
  <2>1. \A j \in DOMAIN announced : announced[j].env \in stored.done BY DEF CollectionInv, CommitsAgree, CommitsAreDone
  <2>2. \A j \in DOMAIN announced' : announced'[j].env \in stored.done BY <1>3, <1>8, <1>9, <1>10, <2>1
  <2> QED BY <1>1, <1>12, <2>2 DEF CollectionInv, CommitsAgree, CommitsAreDone
<1>18. \A j \in DOMAIN announced : announced[j].by = Reign => NotAfter(announced[j].at, at) /\ Before(announced[j].at, at)
  BY <1>1 DEF CollectionInv, CommitsAgree, ReignsGrow, at
<1>19. ReignsGrow'
  <2>1. NotAfter(at, at) BY <1>3, PositionsOrdered
  <2>2. \A j \in DOMAIN announced : announced[j].by <= Reign BY DEF CollectionInv, CommitsAgree, ReignsGrow
  <2>3. \A j \in DOMAIN announced' : announced'[j].by <= Reign BY <1>6, <1>8, <1>9, <1>10, <2>2
  <2>4. \A j \in DOMAIN announced' : announced'[j].by = Reign => NotAfter(announced'[j].at, at)
    BY <1>8, <1>9, <1>10, <1>18, <2>1
  <2>5. at = position'[leader'] BY <1>1 DEF at
  <2>6. \A i \in DOMAIN commits : commits[i].by <= Reign BY DEF CollectionInv, CommitsAgree, ReignsGrow
  <2> QED BY <1>1, <1>6, <1>11, <1>12, <2>3, <2>4, <2>5, <2>6 DEF ReignsGrow
<1>20. AnnouncedInOrder'
  <2>1. SUFFICES ASSUME NEW i \in 1..(n + 1), NEW j \in 1..(n + 1), NEW a \in DOMAIN commits, NEW b \in DOMAIN commits,
                        i < j, commits[a] = announced'[i], commits[b] = announced'[j]
                 PROVE  a < b
    BY <1>1, <1>8 DEF AnnouncedInOrder
  <2>2. i \in 1..n BY <1>8, <2>1
  <2>3. CASE j \in 1..n BY <1>8, <2>1, <2>2, <2>3 DEF CollectionInv, CommitsAgree, AnnouncedInOrder
  <2>4. CASE j = n + 1
    <3>1. commits[b].at = at /\ commits[b].by = Reign BY <1>8, <1>9, <2>1, <2>4
    <3>2. commits[a] = announced[i] BY <1>8, <2>1, <2>2
    <3>3. a # b
      <4>1. ASSUME a = b PROVE FALSE
        <5>1. announced[i].by = Reign /\ announced[i].at = at BY <3>1, <3>2, <4>1
        <5>2. Before(at, at) BY <1>8, <1>18, <2>2, <5>1
        <5> QED BY <1>3, <5>2, PositionsOrdered
      <4> QED BY <4>1
    <3>4. ~(b < a)
      <4>1. ASSUME b < a PROVE FALSE
        <5>1. Before(commits[b].at, commits[a].at) BY <4>1 DEF CollectionInv, CommitsAgree, PositionsGrow, Before
        <5>2. NotAfter(commits[a].at, stored.stream) /\ NotAfter(stored.stream, at)
          BY <1>3 DEF CollectionInv, CommitsAgree, PositionStands, at
        <5>3. stored.stream \in Positions BY DEF CollectionInv, CollectionTyped
        <5>4. NotAfter(commits[a].at, at) BY <1>3, <1>5, <5>2, <5>3, PositionsOrdered
        <5> QED BY <1>3, <1>5, <3>1, <5>1, <5>4, PositionsOrdered
      <4> QED BY <4>1
    <3>5. a \in Int /\ b \in Int BY <1>4
    <3> QED BY <3>3, <3>4, <3>5
  <2> QED BY <1>10, <2>3, <2>4
<1>21. LeaderRemembers'
  <2>1. SUFFICES ASSUME Cardinality(Envelopes) <= Capacity PROVE LeaderRemembers' BY DEF LeaderRemembers
  <2>2. /\ \A c \in Contexts : Distinctly(answered[c])
        /\ ~Knows(list, e)
        /\ \A j \in DOMAIN announced : announced[j].by = Reign => Knows(list, announced[j].env)
        /\ \A i \in DOMAIN commits : commits[i].by = Reign => Knows(list, commits[i].env) \/ commits[i].env = e
    BY <1>3, <2>1 DEF CollectionInv, CommitsAgree, LeaderRemembers, e, list
  <2>3. Distinctly(list) BY <1>3, <2>2 DEF list
  <2>4. /\ Remembered(list, e) = Append(list, e) /\ Distinctly(Append(list, e))
        /\ \A y : Knows(Append(list, e), y) <=> Knows(list, y) \/ y = e
    BY <1>3, <1>4, <2>1, <2>2, <2>3, CollectionAssumption, NothingIsForgotten
  <2>5. \A c \in Contexts : Distinctly(answered'[c]) BY <1>14, <2>2, <2>4
  <2>6. \A j \in DOMAIN announced' : announced'[j].by = Reign => Knows(answered'[leader], announced'[j].env)
    BY <1>8, <1>9, <1>10, <1>14, <2>2, <2>4
  <2>7. \A i \in DOMAIN commits : commits[i].by = Reign => Knows(answered'[leader], commits[i].env)
    BY <1>14, <2>2, <2>4
  <2> QED BY <1>1, <1>3, <1>6, <2>5, <2>6, <2>7 DEF LeaderRemembers
<1>22. RowsFollowCommits' BY <1>1 DEF CollectionInv, CommitsAgree, RowsFollowCommits
<1>23. PositionsGrow' BY <1>1 DEF CollectionInv, CommitsAgree, PositionsGrow
<1>24. AnnouncedIsStored'
  <2>1. SUFFICES ASSUME NEW i \in 1..(n + 1)
                 PROVE  /\ announced'[i].env \in stored.done
                        /\ \A j \in DOMAIN commits :
                             /\ commits[j].env = announced'[i].env /\ commits[j].by = announced'[i].by
                             /\ Cardinality(Envelopes) <= Capacity
                             => commits[j].at = announced'[i].at
    BY <1>1, <1>8 DEF AnnouncedIsStored
  <2>2. CASE i \in 1..n BY <1>8, <2>2 DEF CollectionInv, CommitsAgree, AnnouncedIsStored
  <2>3. CASE i = n + 1
    <3>1. ASSUME NEW j \in DOMAIN commits, commits[j].env = e, commits[j].by = Reign, Cardinality(Envelopes) <= Capacity
          PROVE  commits[j].at = at
      <4>1. ~Knows(list, e) BY <1>3, <3>1 DEF CollectionInv, CommitsAgree, LeaderRemembers, e, list
      <4> QED BY <3>1, <4>1 DEF CollectionInv, CommitsAgree, LeaderRemembers, at, list
    <3> QED BY <1>3, <1>8, <1>9, <2>3, <3>1
  <2> QED BY <1>10, <2>2, <2>3
<1> QED BY <1>1, <1>15, <1>16, <1>17, <1>19, <1>20, <1>21, <1>22, <1>23, <1>24, RelaysUntouched
        DEF CollectionInv, CommitsAgree

----------------------------------------------------------------------------
(* Relays *)

Asked(c) == {m \in Messages : Sender[m] = c /\ relay[m] = "asked"}

LEMMA AskedIsFinite ==
  ASSUME CollectionInv, NEW c \in Contexts
  PROVE  IsFiniteSet(Asked(c)) /\ pending[c] = Cardinality(Asked(c)) /\ Cardinality(Asked(c)) \in Nat
<1>1. Asked(c) \in SUBSET Messages BY DEF Asked
<1>2. IsFiniteSet(Asked(c)) BY <1>1, FS_Subset, CollectionAssumption
<1>3. pending[c] = Cardinality(Asked(c)) BY DEF CollectionInv, RelaysAreCounted, Asked
<1> QED BY <1>2, <1>3, FS_CardinalityType

LEMMA CountIs ==
  ASSUME \A c \in Contexts : pending'[c] = Cardinality(Asked(c)')
  PROVE  RelaysAreCounted'
BY DEF RelaysAreCounted, Asked

LEMMA MessageIsPublished ==
  ASSUME CollectionInv, NEW m \in Messages, PublishMessage(m)
  PROVE  CollectionInv'
<1> DEFINE c == Sender[m]
           over == c = leader \/ TooMany(c)
<1>1. /\ leader # Nobody /\ relay[m] = "new"
      /\ relay' = [relay EXCEPT ![m] = IF over THEN "over" ELSE "asked"]
      /\ pending' = IF over THEN pending ELSE [pending EXCEPT ![c] = pending[c] + 1]
      /\ sent' = IF c = leader THEN [sent EXCEPT ![c][m] = sent[c][m] + 1] ELSE sent
      /\ UNCHANGED <<leader, stored, position, serving, commits, announced, asking, relayed, trouble>>
  BY DEF PublishMessage
<1>2. UNCHANGED <<answered, request>> BY <1>1 DEF asking
<1>3. /\ c \in Contexts /\ relay \in [Messages -> {"new", "asked", "over"}]
      /\ pending \in [Contexts -> 0..MaxPending] /\ sent \in [Contexts -> [Messages -> Nat]]
      /\ MaxPending \in Nat /\ leader \in Contexts
  BY <1>1, CollectionAssumption DEF CollectionInv, CollectionTyped
<1> HIDE DEF c
<1>4. relay' \in [Messages -> {"new", "asked", "over"}] /\ \A other \in Messages \ {m} : relay'[other] = relay[other]
  BY <1>1, <1>3
<1>5. relay'[m] # "new" /\ (relay'[m] = "asked" <=> ~over) BY <1>1, <1>3
<1>6. pending' \in [Contexts -> 0..MaxPending]
  <2>1. CASE over BY <1>1, <1>3, <2>1
  <2>2. CASE ~over
    <3>1. pending[c] + 1 \in 0..MaxPending BY <1>3, <2>2 DEF TooMany
    <3> QED BY <1>1, <1>3, <2>2, <3>1
  <2> QED BY <2>1, <2>2
<1>7. /\ sent' \in [Contexts -> [Messages -> Nat]]
      /\ \A d \in Contexts, other \in Messages :
           sent'[d][other] = IF d = c /\ c = leader /\ other = m THEN sent[c][m] + 1 ELSE sent[d][other]
  BY <1>1, <1>3
<1>8. CollectionTyped'
  <2>1. \A d \in Contexts \ {leader} : \A other \in Messages : sent'[d][other] = 0
    <3>1. \A d \in Contexts \ {leader} : \A other \in Messages : sent[d][other] = 0
      BY DEF CollectionInv, CollectionTyped
    <3> QED BY <1>7, <3>1
  <2> QED BY <1>1, <1>2, <1>4, <1>6, <1>7, <2>1 DEF CollectionInv, CollectionTyped
<1>9. CommitsAgree' BY <1>1, <1>2, CommitsUntouched DEF CollectionInv, Reign
<1>10. RelaysAreCounted'
  <2>1. ASSUME NEW d \in Contexts PROVE pending'[d] = Cardinality(Asked(d)')
    <3>1. IsFiniteSet(Asked(d)) /\ pending[d] = Cardinality(Asked(d)) BY AskedIsFinite
    <3>2. m \notin Asked(d) BY <1>1 DEF Asked
    <3>3. CASE d = c /\ ~over
      <4>1. Asked(d)' = Asked(d) \cup {m} BY <1>1, <1>4, <1>5, <3>3 DEF Asked, c
      <4>2. Cardinality(Asked(d)') = Cardinality(Asked(d)) + 1 BY <3>1, <3>2, <4>1, FS_AddElement
      <4> QED BY <1>1, <1>3, <3>1, <3>3, <4>2
    <3>4. CASE ~(d = c /\ ~over)
      <4>1. Asked(d)' = Asked(d) BY <1>1, <1>4, <1>5, <3>4 DEF Asked, c
      <4>2. pending'[d] = pending[d] BY <1>1, <1>3, <3>4
      <4> QED BY <3>1, <4>1, <4>2
    <3> QED BY <3>3, <3>4
  <2> QED BY <2>1, CountIs
<1>11. SentIsRemembered'
  <2>1. SUFFICES ASSUME Cardinality(Messages) <= Capacity, NEW d \in Contexts, NEW other \in Messages
                 PROVE  /\ Distinctly(relayed[d]) /\ sent'[d][other] <= 1
                        /\ Sender[other] = d /\ relay'[other] = "new" => sent'[d][other] = 0
                        /\ Sender[other] # d /\ sent'[d][other] = 1 => Knows(relayed[d], other)
    <3>1. \A d \in Contexts : Cardinality(Messages) <= Capacity => Distinctly(relayed[d])
      BY DEF CollectionInv, SentIsRemembered
    <3> QED BY <1>1, <3>1 DEF SentIsRemembered
  <2>2. /\ Distinctly(relayed[d]) /\ sent[d][other] <= 1
        /\ Sender[other] = d /\ relay[other] = "new" => sent[d][other] = 0
        /\ Sender[other] # d /\ sent[d][other] = 1 => Knows(relayed[d], other)
    BY <2>1 DEF CollectionInv, SentIsRemembered
  <2>3. CASE other = m
    <3>1. CASE d = c /\ c = leader
      <4>1. sent[d][other] = 0 BY <1>1, <2>2, <2>3, <3>1 DEF c
      <4> QED BY <1>5, <1>7, <2>2, <2>3, <3>1, <4>1 DEF c
    <3>2. CASE ~(d = c /\ c = leader) BY <1>5, <1>7, <2>2, <2>3, <3>2
    <3> QED BY <3>1, <3>2
  <2>4. CASE other # m BY <1>4, <1>7, <2>2, <2>4
  <2> QED BY <2>3, <2>4
<1> QED BY <1>8, <1>9, <1>10, <1>11 DEF CollectionInv

\* A message that was asked for is asked for no more.
LEMMA CountedDown ==
  ASSUME CollectionInv, NEW m \in Messages, relay[m] = "asked", Returned(m)
  PROVE  /\ relay' \in [Messages -> {"new", "asked", "over"}] /\ pending' \in [Contexts -> 0..MaxPending]
         /\ relay'[m] = "over" /\ \A other \in Messages \ {m} : relay'[other] = relay[other]
         /\ RelaysAreCounted'
<1> DEFINE c == Sender[m]
<1>1. relay' = [relay EXCEPT ![m] = "over"] /\ pending' = [pending EXCEPT ![c] = pending[c] - 1] BY DEF Returned
<1>2. /\ c \in Contexts /\ relay \in [Messages -> {"new", "asked", "over"}]
      /\ pending \in [Contexts -> 0..MaxPending] /\ MaxPending \in Nat
  BY CollectionAssumption DEF CollectionInv, CollectionTyped
<1> HIDE DEF c
<1>3. m \in Asked(c) BY DEF Asked, c
<1>4. IsFiniteSet(Asked(c)) /\ pending[c] = Cardinality(Asked(c)) BY <1>2, AskedIsFinite
<1>5. Cardinality(Asked(c) \ {m}) = pending[c] - 1 /\ Cardinality(Asked(c) \ {m}) \in Nat
  <2>1. IsFiniteSet(Asked(c) \ {m}) /\ Cardinality(Asked(c) \ {m}) = Cardinality(Asked(c)) - 1
    BY <1>3, <1>4, FS_RemoveElement
  <2>2. Cardinality(Asked(c) \ {m}) \in Nat BY <2>1, FS_CardinalityType
  <2> QED BY <1>4, <2>1, <2>2
<1>6. pending[c] - 1 \in 0..MaxPending BY <1>2, <1>5
<1>7. pending' \in [Contexts -> 0..MaxPending] BY <1>1, <1>2, <1>6
<1>8. /\ relay' \in [Messages -> {"new", "asked", "over"}] /\ relay'[m] = "over"
      /\ \A other \in Messages \ {m} : relay'[other] = relay[other]
  BY <1>1, <1>2
<1>9. ASSUME NEW d \in Contexts PROVE pending'[d] = Cardinality(Asked(d)')
  <2>1. CASE d = c
    <3>1. Asked(d)' = Asked(c) \ {m} BY <1>8, <2>1 DEF Asked
    <3> QED BY <1>1, <1>2, <1>5, <2>1, <3>1
  <2>2. CASE d # c
    <3>1. Asked(d)' = Asked(d) BY <1>8, <2>2 DEF Asked, c
    <3>2. pending'[d] = pending[d] BY <1>1, <1>2, <2>2
    <3> QED BY <3>1, <3>2, AskedIsFinite
  <2> QED BY <2>1, <2>2
<1> QED BY <1>7, <1>8, <1>9, CountIs

LEMMA RelayIsMissed ==
  ASSUME CollectionInv, NEW m \in Messages, RelayFails(m)
  PROVE  CollectionInv'
<1>1. /\ relay[m] = "asked" /\ Trouble("fault") /\ Returned(m)
      /\ UNCHANGED <<leader, stored, position, serving, commits, announced, asking, relayed, sent>>
  BY DEF RelayFails
<1>2. UNCHANGED <<answered, request>> BY <1>1 DEF asking
<1>3. "fault" \in Kinds /\ "fault" # "crash" BY DEF Kinds
<1>4. trouble' \in [Kinds -> Nat] /\ trouble'["crash"] <= Budget["crash"] /\ Reign' = Reign
  BY <1>1, <1>3, TroubleIs DEF CollectionInv
<1>5. /\ relay' \in [Messages -> {"new", "asked", "over"}] /\ pending' \in [Contexts -> 0..MaxPending]
      /\ relay'[m] = "over" /\ \A other \in Messages \ {m} : relay'[other] = relay[other]
      /\ RelaysAreCounted'
  BY <1>1, CountedDown
<1>6. CollectionTyped' BY <1>1, <1>2, <1>4, <1>5 DEF CollectionInv, CollectionTyped
<1>7. CommitsAgree' BY <1>1, <1>2, <1>4, CommitsUntouched DEF CollectionInv
<1>8. SentIsRemembered'
  <2>1. \A other \in Messages : relay'[other] = "new" => relay[other] = "new" BY <1>5
  <2> QED BY <1>1, <2>1 DEF CollectionInv, SentIsRemembered
<1> QED BY <1>5, <1>6, <1>7, <1>8 DEF CollectionInv

\* The leader sends out what it does not remember to have sent.
LEMMA MessageIsRelayed ==
  ASSUME CollectionInv, NEW m \in Messages, NEW lost \in BOOLEAN, RelayMessage(m, lost)
  PROVE  CollectionInv'
<1> DEFINE list == relayed[leader]
<1>1. /\ leader \notin {Nobody, Sender[m]} /\ serving = Idle /\ relay[m] = "asked"
      /\ \/ Knows(list, m) /\ relayed' = relayed /\ sent' = sent
         \/ /\ ~Knows(list, m)
            /\ relayed' = [relayed EXCEPT ![leader] = Remembered(list, m)]
            /\ sent' = [sent EXCEPT ![leader][m] = sent[leader][m] + 1]
      /\ \/ Trouble("lost") /\ relay' = relay /\ pending' = pending
         \/ Returned(m) /\ trouble' = trouble
      /\ UNCHANGED <<leader, stored, position, serving, commits, announced, asking>>
  BY DEF RelayMessage, Known, Knows
<1>2. UNCHANGED <<answered, request>> BY <1>1 DEF asking
<1>3. trouble' \in [Kinds -> Nat] /\ trouble'["crash"] <= Budget["crash"] /\ Reign' = Reign
  <2>1. CASE UNCHANGED trouble BY <2>1 DEF CollectionInv, CollectionTyped, Reign
  <2>2. CASE Trouble("lost")
    <3>1. "lost" \in Kinds /\ "lost" # "crash" BY DEF Kinds
    <3> QED BY <2>2, <3>1, TroubleIs DEF CollectionInv
  <2> QED BY <1>1, <2>1, <2>2
<1>4. /\ relay' \in [Messages -> {"new", "asked", "over"}] /\ pending' \in [Contexts -> 0..MaxPending]
      /\ relay'[m] # "new" /\ \A other \in Messages \ {m} : relay'[other] = relay[other]
      /\ RelaysAreCounted'
  <2>1. CASE Returned(m) BY <1>1, <2>1, CountedDown
  <2>2. CASE relay' = relay /\ pending' = pending
    <3>1. RelaysAreCounted' BY <2>2 DEF CollectionInv, RelaysAreCounted
    <3> QED BY <1>1, <2>2, <3>1 DEF CollectionInv, CollectionTyped
  <2> QED BY <1>1, <2>1, <2>2
<1>5. /\ leader \in Contexts /\ relayed \in [Contexts -> Seq(Messages)] /\ sent \in [Contexts -> [Messages -> Nat]]
      /\ list \in Seq(Messages) /\ Len(list) <= Capacity
  BY <1>1 DEF CollectionInv, CollectionTyped
<1> HIDE DEF list
<1>6. CommitsAgree' BY <1>1, <1>2, <1>3, CommitsUntouched DEF CollectionInv
<1>7. CASE relayed' = relayed /\ sent' = sent
  <2>1. CollectionTyped' BY <1>1, <1>2, <1>3, <1>4, <1>7 DEF CollectionInv, CollectionTyped
  <2>2. SentIsRemembered'
    <3>1. \A other \in Messages : relay'[other] = "new" => relay[other] = "new" BY <1>4
    <3> QED BY <1>7, <3>1 DEF CollectionInv, SentIsRemembered
  <2> QED BY <1>4, <1>6, <2>1, <2>2 DEF CollectionInv
<1>8. CASE /\ ~Knows(list, m)
           /\ relayed' = [relayed EXCEPT ![leader] = Remembered(list, m)]
           /\ sent' = [sent EXCEPT ![leader][m] = sent[leader][m] + 1]
  <2>1. Remembered(list, m) \in Seq(Messages) /\ Len(Remembered(list, m)) <= Capacity BY <1>5, RememberedIsTyped
  <2>2. /\ relayed' \in [Contexts -> Seq(Messages)] /\ relayed'[leader] = Remembered(list, m)
        /\ \A d \in Contexts \ {leader} : relayed'[d] = relayed[d]
    BY <1>5, <1>8, <2>1
  <2>3. /\ sent' \in [Contexts -> [Messages -> Nat]]
        /\ \A d \in Contexts, other \in Messages :
             sent'[d][other] = IF d = leader /\ other = m THEN sent[leader][m] + 1 ELSE sent[d][other]
    BY <1>5, <1>8
  <2>4. CollectionTyped'
    <3>1. \A d \in Contexts : Len(relayed'[d]) <= Capacity BY <2>1, <2>2 DEF CollectionInv, CollectionTyped
    <3>2. \A d \in Contexts \ {leader} : relayed'[d] = <<>> /\ \A other \in Messages : sent'[d][other] = 0
      BY <2>2, <2>3 DEF CollectionInv, CollectionTyped
    <3> QED BY <1>1, <1>2, <1>3, <1>4, <2>2, <2>3, <3>1, <3>2 DEF CollectionInv, CollectionTyped
  <2>5. SentIsRemembered'
    <3>1. SUFFICES ASSUME Cardinality(Messages) <= Capacity, NEW d \in Contexts
                   PROVE  /\ Distinctly(relayed'[d])
                          /\ \A other \in Messages :
                               /\ sent'[d][other] <= 1
                               /\ Sender[other] = d /\ relay'[other] = "new" => sent'[d][other] = 0
                               /\ Sender[other] # d /\ sent'[d][other] = 1 => Knows(relayed'[d], other)
      BY DEF SentIsRemembered
    <3>2. /\ Distinctly(relayed[d])
          /\ \A other \in Messages :
               /\ sent[d][other] <= 1
               /\ Sender[other] = d /\ relay[other] = "new" => sent[d][other] = 0
               /\ Sender[other] # d /\ sent[d][other] = 1 => Knows(relayed[d], other)
      BY <3>1 DEF CollectionInv, SentIsRemembered
    <3>3. \A other \in Messages : relay'[other] = "new" => relay[other] = "new" BY <1>4
    <3>4. CASE d # leader BY <2>2, <2>3, <3>2, <3>3, <3>4
    <3>5. CASE d = leader
      <4>1. Distinctly(list) BY <3>2, <3>5 DEF list
      <4>2. /\ Remembered(list, m) = Append(list, m) /\ Distinctly(Append(list, m))
            /\ \A y : Knows(Append(list, m), y) <=> Knows(list, y) \/ y = m
        BY <1>5, <1>8, <3>1, <4>1, CollectionAssumption, NothingIsForgotten
      <4>3. sent[leader][m] = 0
        <5>1. sent[leader][m] <= 1 /\ sent[leader][m] # 1 BY <1>1, <1>8, <3>2, <3>5 DEF list
        <5>2. sent[leader][m] \in Nat BY <1>5
        <5> QED BY <5>1, <5>2
      <4>4. ASSUME NEW other \in Messages
            PROVE  /\ sent'[d][other] <= 1
                   /\ Sender[other] = d /\ relay'[other] = "new" => sent'[d][other] = 0
                   /\ Sender[other] # d /\ sent'[d][other] = 1 => Knows(relayed'[d], other)
        <5>1. CASE other = m
          <6>1. sent'[d][other] = 1 BY <1>5, <2>3, <3>5, <4>3, <5>1
          <6>2. Knows(relayed'[d], other) BY <2>2, <3>5, <4>2, <5>1
          <6> QED BY <1>4, <5>1, <6>1, <6>2
        <5>2. CASE other # m
          <6>1. sent'[d][other] = sent[d][other] BY <2>3, <5>2
          <6>2. Knows(relayed[d], other) => Knows(relayed'[d], other) BY <2>2, <3>5, <4>2 DEF list
          <6> QED BY <3>2, <3>3, <6>1, <6>2
        <5> QED BY <5>1, <5>2
      <4> QED BY <2>2, <3>5, <4>2, <4>4
    <3> QED BY <3>4, <3>5
  <2> QED BY <1>4, <1>6, <2>4, <2>5 DEF CollectionInv
<1> QED BY <1>1, <1>7, <1>8

----------------------------------------------------------------------------
(* The end of a leader *)

LEMMA LeaderEnds ==
  ASSUME CollectionInv, Crash
  PROVE  CollectionInv'
<1>1. /\ leader # Nobody /\ Trouble("crash") /\ leader' = Nobody
      /\ position' = [position EXCEPT ![leader] = Unread] /\ serving' = Idle
      /\ answered' = [answered EXCEPT ![leader] = <<>>]
      /\ request' = [e \in Envelopes |->
           IF Asker[e] = leader /\ request[e] = "asked" THEN "abandoned" ELSE request[e]]
      /\ relay' = [m \in Messages |-> IF Sender[m] = leader /\ relay[m] = "asked" THEN "over" ELSE relay[m]]
      /\ pending' = [pending EXCEPT ![leader] = 0]
      /\ relayed' = [relayed EXCEPT ![leader] = <<>>]
      /\ sent' = [sent EXCEPT ![leader] = [m \in Messages |-> 0]]
      /\ UNCHANGED <<stored, commits, announced>>
  BY DEF Crash
<1>2. /\ leader \in Contexts
      /\ position \in [Contexts -> Positions \cup {Unread, Broken}]
      /\ answered \in [Contexts -> Seq(Envelopes)] /\ relayed \in [Contexts -> Seq(Messages)]
      /\ request \in [Envelopes -> {"new", "asked", "answered", "rejected", "abandoned"}]
      /\ relay \in [Messages -> {"new", "asked", "over"}] /\ pending \in [Contexts -> 0..MaxPending]
      /\ sent \in [Contexts -> [Messages -> Nat]] /\ MaxPending \in Nat
      /\ commits \in Seq(Stamps) /\ announced \in Seq(Stamps)
  BY <1>1, CollectionAssumption DEF CollectionInv, CollectionTyped
<1>3. /\ trouble' \in [Kinds -> Nat] /\ trouble'["crash"] <= Budget["crash"] /\ Reign \in Nat /\ Reign' = Reign + 1
  <2>1. "crash" \in Kinds BY DEF Kinds
  <2> QED BY <1>1, <2>1, TroubleIs DEF CollectionInv
<1>4. position' \in [Contexts -> Positions \cup {Unread, Broken}] BY <1>1, <1>2
<1>5. answered' \in [Contexts -> Seq(Envelopes)] /\ relayed' \in [Contexts -> Seq(Messages)]
  <2>1. <<>> \in Seq(Envelopes) /\ <<>> \in Seq(Messages) OBVIOUS
  <2> QED BY <1>1, <1>2, <2>1
<1>6. request' \in [Envelopes -> {"new", "asked", "answered", "rejected", "abandoned"}] BY <1>1, <1>2
<1>7. relay' \in [Messages -> {"new", "asked", "over"}] BY <1>1, <1>2
<1>8. pending' \in [Contexts -> 0..MaxPending] BY <1>1, <1>2
<1>9. sent' \in [Contexts -> [Messages -> Nat]] BY <1>1, <1>2
<1>10. \A c \in Contexts :
         /\ position'[c] = Unread /\ answered'[c] = <<>> /\ relayed'[c] = <<>>
         /\ \A m \in Messages : sent'[c][m] = 0
  <2>1. ASSUME NEW c \in Contexts
        PROVE  /\ position'[c] = Unread /\ answered'[c] = <<>> /\ relayed'[c] = <<>>
               /\ \A m \in Messages : sent'[c][m] = 0
    <3>1. CASE c = leader BY <1>1, <1>2, <3>1
    <3>2. CASE c # leader
      <4>1. /\ position[c] = Unread /\ answered[c] = <<>> /\ relayed[c] = <<>>
            /\ \A m \in Messages : sent[c][m] = 0
        BY <3>2 DEF CollectionInv, CollectionTyped
      <4> QED BY <1>1, <1>2, <3>2, <4>1
    <3> QED BY <3>1, <3>2
  <2> QED BY <2>1
<1>11. CollectionTyped'
  <2>1. Len(<<>>) = 0 /\ Capacity \in Nat BY CollectionAssumption
  <2>2. \A c \in Contexts : Len(answered'[c]) <= Capacity /\ Len(relayed'[c]) <= Capacity BY <1>10, <2>1
  <2> QED BY <1>1, <1>3, <1>4, <1>5, <1>6, <1>7, <1>8, <1>9, <1>10, <2>2 DEF CollectionInv, CollectionTyped
<1>12. ~Located' /\ serving'.pc = "idle" BY <1>1 DEF Located, Idle
<1>13. /\ \A i \in DOMAIN commits : commits[i].by \in Nat /\ commits[i].by <= Reign
       /\ \A j \in DOMAIN announced : announced[j].by \in Nat /\ announced[j].by <= Reign
  <2>1. \A i \in DOMAIN commits : commits[i] \in Stamps BY <1>2
  <2>2. \A j \in DOMAIN announced : announced[j] \in Stamps BY <1>2
  <2> QED BY <2>1, <2>2 DEF Stamps, CollectionInv, CommitsAgree, ReignsGrow
<1>14. /\ \A i \in DOMAIN commits : commits[i].by <= Reign' /\ commits[i].by # Reign'
       /\ \A j \in DOMAIN announced : announced[j].by <= Reign' /\ announced[j].by # Reign'
  BY <1>3, <1>13
<1>15. PositionStands' BY <1>1, <1>12 DEF CollectionInv, CommitsAgree, PositionStands
<1>16. CommitsAreDone' BY <1>1, <1>12 DEF CollectionInv, CommitsAgree, CommitsAreDone
<1>17. ReignsGrow' BY <1>1, <1>14 DEF ReignsGrow
<1>18. AnnouncedInOrder' BY <1>1 DEF CollectionInv, CommitsAgree, AnnouncedInOrder
<1>19. LeaderRemembers'
  <2>1. Distinctly(<<>>) BY DEF Distinctly
  <2>2. \A c \in Contexts : Distinctly(answered'[c]) BY <1>10, <2>1
  <2> QED BY <1>1, <1>14, <2>2 DEF LeaderRemembers
<1>20. RowsFollowCommits' BY <1>1 DEF CollectionInv, CommitsAgree, RowsFollowCommits
<1>21. PositionsGrow' BY <1>1 DEF CollectionInv, CommitsAgree, PositionsGrow
<1>22. AnnouncedIsStored' BY <1>1 DEF CollectionInv, CommitsAgree, AnnouncedIsStored
<1>23. RelaysAreCounted'
  <2>1. ASSUME NEW c \in Contexts PROVE pending'[c] = Cardinality(Asked(c)')
    <3>1. CASE c = leader
      <4>1. Asked(c)' = {} BY <1>1, <3>1 DEF Asked
      <4> QED BY <1>1, <1>2, <3>1, <4>1, FS_EmptySet
    <3>2. CASE c # leader
      <4>1. Asked(c)' = Asked(c) BY <1>1, <1>2, <3>2 DEF Asked
      <4>2. pending'[c] = pending[c] BY <1>1, <1>2, <3>2
      <4> QED BY <4>1, <4>2, AskedIsFinite
    <3> QED BY <3>1, <3>2
  <2> QED BY <2>1, CountIs
<1>24. SentIsRemembered'
  <2>1. Distinctly(<<>>) BY DEF Distinctly
  <2> QED BY <1>10, <2>1 DEF SentIsRemembered
<1> QED BY <1>11, <1>15, <1>16, <1>17, <1>18, <1>19, <1>20, <1>21, <1>22, <1>23, <1>24 DEF CollectionInv, CommitsAgree

----------------------------------------------------------------------------
(* The theorems *)

LEMMA CollectionInvKept == CollectionInv /\ [CollectionNext]_collectionVars => CollectionInv'
<1> SUFFICES ASSUME CollectionInv, [CollectionNext]_collectionVars PROVE CollectionInv' OBVIOUS
<1>1. CASE Crash BY <1>1, LeaderEnds
<1>2. ASSUME NEW read \in BOOLEAN, Position(read) PROVE CollectionInv' BY <1>2, PositionIsRead
<1>3. CASE PositionUnknown
  <2>1. /\ serving.pc = "locate" /\ Reject /\ position' = position /\ trouble' = trouble
        /\ UNCHANGED <<leader, stored, commits, announced, answered, relays>>
    BY <1>3 DEF PositionUnknown
  <2> QED BY <2>1, HandlerGivesUp
<1>4. CASE Commit BY <1>4, EnvelopeIsCommitted
<1>5. CASE CommitFails
  <2>1. /\ serving.pc = "locate" /\ position[leader] \notin {Unread, Broken} /\ Reject /\ Trouble("fault")
        /\ position' = [position EXCEPT ![leader] = Advanced(position[leader])]
        /\ UNCHANGED <<leader, stored, commits, announced, answered, relays>>
    BY <1>5 DEF CommitFails
  <2>2. position[leader] \in Positions BY <2>1, Locating DEF CollectionInv, CollectionTyped
  <2> QED BY <2>1, <2>2, HandlerGivesUp
<1>6. ASSUME NEW lost \in BOOLEAN, Publish(lost) PROVE CollectionInv' BY <1>6, CommitIsPublished
<1>7. ASSUME NEW e \in Envelopes, RequestApplyLocalMutations(e) PROVE CollectionInv' BY <1>7, RequestIsMade
<1>8. ASSUME NEW e \in Envelopes, ApplyMutations(e) PROVE CollectionInv' BY <1>8, RequestIsTaken
<1>9. ASSUME NEW c \in Contexts, Lead(c) PROVE CollectionInv' BY <1>9, LeaderIsChosen
<1>10. ASSUME NEW m \in Messages, Relay(m) PROVE CollectionInv'
  <2>1. CASE PublishMessage(m) BY <2>1, MessageIsPublished
  <2>2. ASSUME NEW lost \in BOOLEAN, RelayMessage(m, lost) PROVE CollectionInv' BY <2>2, MessageIsRelayed
  <2>3. CASE RelayFails(m) BY <2>3, RelayIsMissed
  <2> QED BY <1>10, <2>1, <2>2, <2>3 DEF Relay
<1>11. ASSUME NEW s \in DOMAIN Signatures, EnsureIndex(s) \/ MarkIndexRemoved(s) PROVE CollectionInv'
  BY <1>11, IndexesChange
<1>12. CASE UNCHANGED collectionVars
  <2>1. /\ UNCHANGED <<leader, stored, position, serving, commits, announced, asking, relays, trouble>>
    BY <1>12 DEF collectionVars
  <2>2. UNCHANGED <<answered, request, relay, pending, relayed, sent>> BY <2>1 DEF asking, relays
  <2>3. CollectionTyped' BY <2>1, <2>2 DEF CollectionInv, CollectionTyped
  <2>4. CommitsAgree' BY <2>1, <2>2, CommitsUntouched DEF CollectionInv, Reign
  <2> QED BY <2>1, <2>3, <2>4, RelaysUntouched DEF CollectionInv
<1>13. CASE HandlerSteps BY <1>2, <1>3, <1>4, <1>5, <1>6, <1>13 DEF HandlerSteps
<1> QED BY <1>1, <1>7, <1>8, <1>9, <1>10, <1>11, <1>12, <1>13 DEF CollectionNext

\* Announcements in the order of the commits, of every one of them, leave the rows as the commits do: the
\* last one that writes a row is the announcement of the last commit that does.
LEMMA SubscribersFollow == CollectionInv => SubscribersAgree
<1> SUFFICES ASSUME CollectionInv, Unannounced = {}, Reannounced = {} PROVE Folded(announced) = stored.rows
  BY DEF SubscribersAgree
<1>1. /\ commits \in Seq(Stamps) /\ announced \in Seq(Stamps)
      /\ Len(commits) \in Nat /\ Len(announced) \in Nat
      /\ DOMAIN commits = 1..Len(commits) /\ DOMAIN announced = 1..Len(announced)
  BY DEF CollectionInv, CollectionTyped
<1>2. \A j \in DOMAIN announced : \E i \in DOMAIN commits : commits[i] = announced[j] BY DEF Reannounced
<1>3. \A i \in DOMAIN commits : \E j \in DOMAIN announced : commits[i] = announced[j]
  <2>1. ASSUME NEW i \in DOMAIN commits PROVE \E j \in DOMAIN announced : commits[i] = announced[j]
    <3>1. PICK j \in DOMAIN announced : announced[j].env = commits[i].env BY DEF Unannounced
    <3>2. PICK a \in DOMAIN commits : commits[a] = announced[j] BY <1>2
    <3>3. a = i BY <3>1, <3>2 DEF CollectionInv, CommitsAgree, CommitsAreDone
    <3> QED BY <3>2, <3>3
  <2> QED BY <2>1
<1>4. ASSUME NEW k \in RowKeys PROVE Folded(announced)[k] = Folded(commits)[k]
  <2>1. /\ Folded(commits)[k] = IF Writing(commits, k) = {} THEN Gone ELSE Writes[commits[Max(Writing(commits, k))].env][k]
        /\ Folded(announced)[k] =
             IF Writing(announced, k) = {} THEN Gone ELSE Writes[announced[Max(Writing(announced, k))].env][k]
    BY DEF Folded
  <2>2. Writing(announced, k) = {} <=> Writing(commits, k) = {} BY <1>2, <1>3 DEF Writing
  <2>3. CASE Writing(announced, k) = {} BY <2>1, <2>2, <2>3
  <2>4. CASE Writing(announced, k) # {}
    <3> DEFINE j == Max(Writing(announced, k))
               b == Max(Writing(commits, k))
    <3>1. j \in Writing(announced, k) /\ \A y \in Writing(announced, k) : y <= j
      <4>1. Writing(announced, k) \in SUBSET (0..Len(announced)) BY <1>1 DEF Writing
      <4> QED BY <1>1, <2>4, <4>1, MaxIs
    <3>2. b \in Writing(commits, k) /\ \A y \in Writing(commits, k) : y <= b
      <4>1. Writing(commits, k) \in SUBSET (0..Len(commits)) BY <1>1 DEF Writing
      <4> QED BY <1>1, <2>2, <2>4, <4>1, MaxIs
    <3> HIDE DEF j, b
    <3>3. j \in DOMAIN announced /\ b \in DOMAIN commits BY <3>1, <3>2 DEF Writing
    <3>4. PICK a \in DOMAIN commits : commits[a] = announced[j] BY <1>2, <3>3
    <3>5. PICK i \in DOMAIN announced : commits[b] = announced[i] BY <1>3, <3>3
    <3>6. a \in Writing(commits, k) /\ i \in Writing(announced, k) BY <3>1, <3>2, <3>4, <3>5 DEF Writing
    <3>7. a <= b /\ i <= j BY <3>1, <3>2, <3>6
    <3>8. i < j => b < a BY <3>3, <3>4, <3>5 DEF CollectionInv, CommitsAgree, AnnouncedInOrder
    <3>9. i = j BY <1>1, <3>3, <3>7, <3>8
    <3> QED BY <2>1, <2>2, <2>4, <3>5, <3>9 DEF j, b
  <2> QED BY <2>3, <2>4
<1>5. Folded(announced) = [k \in RowKeys |-> Folded(announced)[k]] /\ Folded(commits) = [k \in RowKeys |-> Folded(commits)[k]]
  BY DEF Folded
<1>6. Folded(announced) = Folded(commits) BY <1>4, <1>5
<1> QED BY <1>6 DEF CollectionInv, CommitsAgree, RowsFollowCommits

\* The state of a persisted collection has its types: who leads, the stored stream, what each context
\* remembers, requests, commits and announcements, and no more relays are under way than may be.
THEOREM CollectionTypeCorrect == CollectionSpec => []CollectionTypeOK
<1>1. CollectionInv => CollectionTypeOK
  <2> SUFFICES ASSUME CollectionInv PROVE CollectionTypeOK OBVIOUS
  <2>1. ASSUME NEW k \in RowKeys
        PROVE  stored.rows[k] = Gone \/ \E e \in Envelopes : k \in DOMAIN Writes[e] /\ stored.rows[k] = Writes[e][k]
    <3>1. stored.rows[k] = IF Writing(commits, k) = {} THEN Gone ELSE Writes[commits[Max(Writing(commits, k))].env][k]
      BY DEF CollectionInv, CommitsAgree, RowsFollowCommits, Folded
    <3>2. CASE Writing(commits, k) # {}
      <4>1. commits \in Seq(Stamps) /\ Len(commits) \in Nat /\ DOMAIN commits = 1..Len(commits)
        BY DEF CollectionInv, CollectionTyped
      <4>2. Writing(commits, k) \in SUBSET (0..Len(commits)) BY <4>1 DEF Writing
      <4>3. Max(Writing(commits, k)) \in Writing(commits, k) BY <3>2, <4>1, <4>2, MaxIs
      <4>4. Max(Writing(commits, k)) \in DOMAIN commits /\ k \in DOMAIN Writes[commits[Max(Writing(commits, k))].env]
        BY <4>3 DEF Writing
      <4>5. commits[Max(Writing(commits, k))] \in Stamps BY <4>1, <4>4
      <4>6. commits[Max(Writing(commits, k))].env \in Envelopes BY <4>5 DEF Stamps
      <4> QED BY <3>1, <3>2, <4>4, <4>6
    <3> QED BY <3>1, <3>2
  <2>2. \A c \in Contexts : position[c] \in {Unread, Broken} \/ position[c] \in Positions
    BY DEF CollectionInv, CollectionTyped
  <2> QED BY <2>1, <2>2 DEF CollectionInv, CollectionTyped, CollectionTypeOK
<1> QED BY <1>1, CollectionStarts, CollectionInvKept, PTL DEF CollectionSpec

\* Whichever leader dies where, and however often a request or a message reaches one: rows are what the
\* commits write in their order, at positions that grow; what is announced is stored, and leaves subscribers
\* that heard of every commit with the rows of the database; relays are counted and sent out once.
THEOREM CollectionIsConsistent == CollectionSpec => []CollectionAgrees
<1>1. CollectionInv => RelayedOnce
  BY DEF CollectionInv, SentIsRemembered, RelayedOnce
<1>2. CollectionInv => CollectionAgrees
  BY <1>1, SubscribersFollow DEF CollectionInv, CommitsAgree, CollectionAgrees
<1> QED BY <1>2, CollectionStarts, CollectionInvKept, PTL DEF CollectionSpec
=============================================================================
