---------------------------- MODULE OAuthProofs ----------------------------
(* What holds of the OAuth client for any number of tabs, callers, flows, token sets and disruptions. *)
EXTENDS OAuth, TLAPS

----------------------------------------------------------------------------
(* The OAuth client: the inductive invariant *)

\* The refresh service holds no flow, answers a caller when it ends, and writes only what was issued.
ServiceSteps ==
  {"idle", "load", "request", "resolve", "insert", "store", "stored", "forget", "unlist", "drop"}
Writing == {"resolve", "insert", "store", "stored"}
ServiceKeepsShape ==
  /\ task[Lane].pc \in ServiceSteps /\ task[Lane].flow = Nothing
  /\ task[Lane].pc = "idle" => task[Lane].by = Nothing
  /\ task[Lane].pc \in Writing => task[Lane].token # 0

\* A flow that nobody has begun left nothing, and no caller is in it.
UnusedIsEmpty ==
  \A f \in Flows : ~pending[f].used =>
     /\ ~pending[f].row /\ ~pending[f].secret /\ pending[f].remover = Nothing
     /\ \A c \in Callers : task[c].flow # f

FlowSteps == {"clean", "verifier", "browser", "exchange"}
FlowsAreKnown == \A c \in Callers : task[c].pc \in FlowSteps => task[c].flow \in Flows

\* Until its verifier is kept a flow belongs to the caller that began it.
Owns(c, f) == task[c].pc \in {"clean", "verifier"} /\ task[c].flow = f
BegunIsOwn ==
  \A c \in Callers, f \in Flows : Owns(c, f) =>
     /\ ~pending[f].secret /\ pending[f].remover = Nothing
     /\ pending[f].row <=> task[c].pc = "verifier"
     /\ \A d \in Callers : task[d].flow = f => d = c

FlowInv == UnusedIsEmpty /\ FlowsAreKnown /\ BegunIsOwn /\ VerifierIsListed

\* As long as nobody signs in or out only the refresh service writes; and unless a restoration
\* swept the record away it never leaves a secret without its record.
CallerSteps == {"idle", "get", "reload", "reread", "waiting", "answered", "tidy", "restore", "sweep"}
OnlyService ==
  Unattended => /\ \A c \in Callers : task[c].pc \in CallerSteps
                /\ task[Lane].pc = "stored" => stored = task[Lane].token
SecretIsSpared ==
  /\ stored # 0 => row
  /\ task[Lane].pc = "store" => row
  /\ task[Lane].pc \in {"insert", "store"} /\ ~task[Lane].existed => stored = 0
  /\ task[Lane].pc = "unlist" => stored = 0
NotSwept == Unattended /\ "swept" \notin races => SecretIsSpared

\* If no tab is reloaded either, and no read was late in the leader's tab, the leader knows the
\* stored token set, unless it has just replaced it.  So the service requests with it and forgets
\* only what the server has refused.  Before there is a leader every tab that has read it has read
\* the stored one.
LeaderIsFresh ==
  stored # 0 /\ task[Lane].pc # "stored" =>
    \A t \in Tabs : host \in {t, Nothing} => cached[t] \in {0, stored}
Reading(a) == task[a].read /\ task[a].pc \in Reads
ReadersAreFresh == host = Nothing => \A c \in Callers : Reading(c) => task[c].token = stored
ServiceUsesStored ==
  /\ stored # 0 /\ task[Lane].pc \in {"request", "forget"} => task[Lane].token = stored
  /\ task[Lane].pc = "forget" => task[Lane].token \notin valid
Fresh == LeaderIsFresh /\ ReadersAreFresh /\ ServiceUsesStored
Undisturbed == Unattended /\ spending["reload"] = 0 /\ "late" \notin races
NotReloaded == Undisturbed => Fresh

OAuthInv ==
  /\ Types /\ ServiceMatches /\ ServiceKeepsShape /\ FlowInv
  /\ OnlyService /\ NotSwept /\ NotReloaded

----------------------------------------------------------------------------
(* What the actions do to the tasks *)

Doing == [pc : Steps, token : 0..MaxToken, read : BOOLEAN, existed : BOOLEAN,
          flow : Flows \cup {Nothing}, by : Callers \cup {Nothing}]

LEMMA TasksAreTyped ==
  ASSUME Types
  PROVE  /\ DOMAIN task = Actors /\ task \in [Actors -> Doing] /\ \A a \in Actors : task[a] \in Doing
         /\ Lane \in Actors /\ Callers \subseteq Actors /\ Lane \notin Callers
         /\ stored \in 0..MaxToken /\ row \in BOOLEAN /\ cached \in [Tabs -> 0..MaxToken]
BY OAuthAssumption DEF Types, Doing, Actors

LEMMA ZeroIsToken == 0 \in 0..MaxToken
BY OAuthAssumption

LEMMA IdleIsTyped ==
  IdleTask \in Doing /\ \A pc \in Steps : [IdleTask EXCEPT !.pc = pc] \in Doing
BY ZeroIsToken DEF IdleTask, Doing, Steps

\* Actor a alone goes to another task.
Only(a) == task' \in [Actors -> Doing] /\ \A b \in Actors \ {a} : task'[b] = task[b]

LEMMA Altered ==
  ASSUME Types, NEW a \in Actors, NEW t \in Doing, task' = [task EXCEPT ![a] = t]
  PROVE  Only(a) /\ task'[a] = t
BY TasksAreTyped DEF Only

\* An actor goes to another step.
LEMMA GoMoves ==
  ASSUME Types, NEW a \in Actors, NEW pc \in Steps, Go(a, pc)
  PROVE  /\ Only(a) /\ task'[a].pc = pc /\ task'[a].flow = task[a].flow /\ task'[a].by = task[a].by
         /\ task'[a].token = task[a].token /\ task'[a].existed = task[a].existed
<1>1. task[a] \in Doing /\ [task[a] EXCEPT !.pc = pc] \in Doing
  BY TasksAreTyped DEF Doing
<1>2. task' = [task EXCEPT ![a] = [task[a] EXCEPT !.pc = pc]]
  BY <1>1, TasksAreTyped DEF Go, Doing
<1>3. Only(a) /\ task'[a] = [task[a] EXCEPT !.pc = pc]
  BY <1>1, <1>2, Altered
<1> QED BY <1>1, <1>3 DEF Doing

\* An actor begins to read the secret.
LEMMA AwaitMoves ==
  ASSUME Types, NEW a \in Actors, NEW pc \in Steps, Await(a, pc)
  PROVE  Only(a) /\ task'[a].pc = pc /\ task'[a].flow = Nothing /\ ~task'[a].read
<1>1. [IdleTask EXCEPT !.pc = pc] \in Doing
  BY IdleIsTyped
<1>2. Only(a) /\ task'[a] = [IdleTask EXCEPT !.pc = pc]
  BY <1>1, Altered DEF Await
<1> QED BY <1>2 DEF IdleTask

\* The secret store answers.
LEMMA ReadMoves ==
  ASSUME Types, NEW a \in Actors, Read(a)
  PROVE  /\ Only(a) /\ task'[a].pc = task[a].pc /\ task'[a].flow = task[a].flow
         /\ task'[a].by = task[a].by /\ task'[a].token = stored /\ task[a].pc \in Reads
<1>1. task[a] \in Doing /\ [task[a] EXCEPT !.read = TRUE, !.token = stored] \in Doing
  BY TasksAreTyped DEF Doing
<1>2. task' = [task EXCEPT ![a] = [task[a] EXCEPT !.read = TRUE, !.token = stored]]
  BY <1>1, TasksAreTyped DEF Read, Doing
<1>3. Only(a) /\ task'[a] = [task[a] EXCEPT !.read = TRUE, !.token = stored]
  BY <1>1, <1>2, Altered
<1>4. task[a].pc \in Reads
  BY DEF Read
<1> QED BY <1>1, <1>3, <1>4 DEF Doing

\* A caller ends what it does.
LEMMA CallerEnds ==
  ASSUME Types, NEW c \in Callers, NEW answer, Finish(c, answer)
  PROVE  Only(c) /\ task'[c].pc = "idle" /\ task'[c].flow = Nothing
<1>1. c # Lane /\ c \in Actors
  BY TasksAreTyped
<1>2. task' = [b \in Actors |-> IF b = c THEN IdleTask ELSE task[b]]
  BY <1>1 DEF Finish
<1>3. Only(c) /\ task'[c] = IdleTask
  BY <1>1, <1>2, IdleIsTyped, TasksAreTyped DEF Only
<1> QED BY <1>3 DEF IdleTask

\* Caller c makes a step that no caller of the service makes.
Moves(c) == Only(c) /\ task[c].pc # "waiting"

\* What caller c does afterwards begins no flow.
StaysOut(c) ==
  /\ task'[c].flow \in {Nothing, task[c].flow} /\ task'[c].pc \notin {"clean", "verifier"}
  /\ task'[c].pc \in FlowSteps => task'[c].flow \in Flows

\* It goes to one of some steps, and what it has read is what is stored.
Turns(c, pcs) ==
  /\ Moves(c) /\ task'[c].flow \in {Nothing, task[c].flow} /\ task'[c].pc \in pcs
  /\ Reading(c)' => task'[c].token = stored

LEMMA CallerGoes ==
  ASSUME Types, NEW c \in Callers, NEW pc \in Steps \ Reads, Go(c, pc), task[c].pc # "waiting"
  PROVE  Turns(c, {pc}) /\ task'[c].flow = task[c].flow
BY GoMoves, TasksAreTyped DEF Turns, Moves, Reading

LEMMA CallerAwaits ==
  ASSUME Types, NEW c \in Callers, NEW pc \in Steps, Await(c, pc), task[c].pc # "waiting"
  PROVE  Turns(c, {pc})
BY AwaitMoves, TasksAreTyped DEF Turns, Moves, Reading

LEMMA CallerStops ==
  ASSUME Types, NEW c \in Callers, NEW answer, Finish(c, answer), task[c].pc # "waiting"
  PROVE  Turns(c, {"idle"}) /\ StaysOut(c)
BY CallerEnds DEF Turns, Moves, StaysOut, FlowSteps, Reading, Reads

\* A caller that uses the session or gives it up, and one that restores it.
Calm(c) ==
  \/ Get(c) \/ Got(c) \/ Reload(c) \/ Refresh(c) \/ Answer(c) \/ Reread(c)
  \/ Tidied(c) \/ Restore(c) \/ Sweep(c)
Revokes(c) == StartRevoke(c) \/ LookedUp(c) \/ Revoke(c) \/ RevokeFails(c)
CallerStep(c) == Calm(c) \/ Revokes(c) \/ Read(c)

LEMMA CalmMoves ==
  ASSUME Types, NEW c \in Callers, Calm(c)
  PROVE  Turns(c, CallerSteps)
<1>1. task[c].pc # "waiting"
  BY DEF Calm, Get, Got, Reload, Refresh, Answer, Reread, Tidied, Restore, Sweep
<1>2. \/ \E pc \in {"get", "reload", "waiting", "reread", "restore"} : Await(c, pc)
      \/ Go(c, "waiting") \/ Go(c, "sweep") \/ Done(c) \/ Fail(c)
  BY DEF Calm, Get, Got, Reload, Refresh, Answer, Reread, Tidied, Restore, Sweep
<1>3. ASSUME NEW pc \in {"get", "reload", "waiting", "reread", "restore"}, Await(c, pc)
      PROVE  Turns(c, CallerSteps)
  <2>1. Turns(c, {pc})
    BY <1>1, <1>3, CallerAwaits DEF Steps, Reads
  <2> QED BY <2>1 DEF Turns, CallerSteps
<1>4. CASE Go(c, "waiting") \/ Go(c, "sweep")
  <2>1. Turns(c, {"waiting"}) \/ Turns(c, {"sweep"})
    BY <1>1, <1>4, CallerGoes DEF Steps, Reads
  <2> QED BY <2>1 DEF Turns, CallerSteps
<1>5. CASE Done(c) \/ Fail(c)
  <2>1. Turns(c, {"idle"})
    BY <1>1, <1>5, CallerStops DEF Done, Fail
  <2> QED BY <2>1 DEF Turns, CallerSteps
<1> QED BY <1>2, <1>3, <1>4, <1>5

LEMMA RevokeMoves ==
  ASSUME Types, NEW c \in Callers, Revokes(c)
  PROVE  Turns(c, {"lookup", "revoke", "forget", "idle"})
<1>1. task[c].pc # "waiting" /\ c \in Actors /\ task[c] \in Doing /\ In[c] \in Tabs
  BY TasksAreTyped, OAuthAssumption DEF Revokes, StartRevoke, LookedUp, Revoke, RevokeFails
<1>2. CASE Await(c, "lookup")
  BY <1>1, <1>2, CallerAwaits DEF Steps, Reads, Turns
<1>3. CASE RevokeFails(c)
  BY <1>1, <1>3, CallerStops DEF RevokeFails, Fail, Turns
<1>4. CASE Revoke(c)
  BY <1>1, <1>4, CallerGoes DEF Revoke, Steps, Reads, Turns
<1>5. CASE LookedUp(c)
  <2>1. PICK pc \in {"forget", "revoke"} : task' = [task EXCEPT ![c].pc = pc, ![c].read = FALSE]
    BY <1>5 DEF LookedUp
  <2>2. [task[c] EXCEPT !.pc = pc, !.read = FALSE] \in Doing
    BY <1>1 DEF Doing, Steps
  <2>3. task' = [task EXCEPT ![c] = [task[c] EXCEPT !.pc = pc, !.read = FALSE]]
    BY <1>1, <2>1, TasksAreTyped DEF Doing
  <2>4. Only(c) /\ task'[c] = [task[c] EXCEPT !.pc = pc, !.read = FALSE]
    BY <1>1, <2>2, <2>3, Altered
  <2> QED BY <1>1, <2>4 DEF Doing, Turns, Moves, Reading
<1>6. CASE task' = [task EXCEPT ![c].pc = "revoke", ![c].token = cached[In[c]]]
  <2>1. [task[c] EXCEPT !.pc = "revoke", !.token = cached[In[c]]] \in Doing
    BY <1>1, TasksAreTyped DEF Doing, Steps
  <2>2. task' = [task EXCEPT ![c] = [task[c] EXCEPT !.pc = "revoke", !.token = cached[In[c]]]]
    BY <1>1, <1>6, TasksAreTyped DEF Doing
  <2>3. Only(c) /\ task'[c] = [task[c] EXCEPT !.pc = "revoke", !.token = cached[In[c]]]
    BY <1>1, <2>1, <2>2, Altered
  <2> QED BY <1>1, <2>3 DEF Doing, Turns, Moves, Reading, Reads
<1> QED BY <1>2, <1>3, <1>4, <1>5, <1>6 DEF Revokes, StartRevoke

LEMMA CallerMoves ==
  ASSUME Types, NEW c \in Callers, CallerStep(c)
  PROVE  Moves(c) /\ StaysOut(c)
<1>1. CASE Calm(c)
  <2>1. Turns(c, CallerSteps)
    BY <1>1, CalmMoves
  <2> QED BY <2>1 DEF Turns, CallerSteps, StaysOut, FlowSteps
<1>2. CASE Revokes(c)
  <2>1. Turns(c, {"lookup", "revoke", "forget", "idle"})
    BY <1>2, RevokeMoves
  <2> QED BY <2>1 DEF Turns, StaysOut, FlowSteps
<1>3. CASE Read(c)
  BY <1>3, ReadMoves, TasksAreTyped DEF Moves, StaysOut, FlowSteps, Reads
<1> QED BY <1>1, <1>2, <1>3 DEF CallerStep

\* The user of a new access token is looked up.
LEMMA ResolveMoves ==
  ASSUME Types, NEW a \in Actors, Resolve(a)
  PROVE  /\ Only(a) /\ task'[a].pc = (IF row THEN "store" ELSE "insert") /\ task'[a].flow = task[a].flow
         /\ task'[a].by = task[a].by /\ task'[a].token = task[a].token /\ task'[a].existed = row
<1>1. PICK pc \in {"store", "insert"} : pc = (IF row THEN "store" ELSE "insert")
  OBVIOUS
<1>2. task[a] \in Doing /\ [task[a] EXCEPT !.existed = row, !.pc = pc] \in Doing
  BY TasksAreTyped DEF Doing, Steps
<1>3. task' = [task EXCEPT ![a] = [task[a] EXCEPT !.existed = row, !.pc = pc]]
  BY <1>1, <1>2, TasksAreTyped DEF Resolve, Doing
<1>4. Only(a) /\ task'[a] = [task[a] EXCEPT !.existed = row, !.pc = pc]
  BY <1>2, <1>3, Altered
<1> QED BY <1>1, <1>2, <1>4 DEF Doing

\* A caller that writes or forgets a session.
LEMMA WriterMoves ==
  ASSUME Types, NEW c \in Callers, Write(c)
  PROVE  Moves(c) /\ StaysOut(c)
<1>1. c \in Actors /\ task[c].pc # "waiting"
  BY TasksAreTyped DEF Write, Resolve, ResolveFails, Insert, Store, Remember, StoreFails, Forget, Unlist, Drop
<1>2. CASE Resolve(c)
  BY <1>1, <1>2, ResolveMoves DEF Moves, StaysOut, FlowSteps
<1>3. CASE Done(c) \/ Fail(c)
  BY <1>1, <1>3, CallerStops DEF Done, Fail, Turns
<1>4. ASSUME NEW pc \in {"store", "stored", "unlist", "drop"}, Go(c, pc) PROVE Moves(c) /\ StaysOut(c)
  BY <1>1, <1>4, GoMoves DEF Steps, Moves, StaysOut, FlowSteps
<1> QED BY <1>2, <1>3, <1>4
        DEF Write, ResolveFails, Insert, Store, Remember, StoreFails, Forget, Unlist, Drop

\* The service ends what it does, and its caller goes on.
Stops ==
  /\ task' \in [Actors -> Doing] /\ task'[Lane] = IdleTask
  /\ \A c \in Callers : task'[c] # task[c] => c = task[Lane].by /\ task'[c].pc \in {"answered", "idle"}
                                              /\ task'[c].flow = Nothing

LEMMA ServiceStops ==
  ASSUME Types, Done(Lane) \/ Fail(Lane)
  PROVE  Stops
<1>1. PICK answer \in {"answered", "idle"} : Finish(Lane, answer)
  BY DEF Done, Fail
<1>2. [IdleTask EXCEPT !.pc = answer] \in Doing
  BY IdleIsTyped DEF Steps
<1>3. [IdleTask EXCEPT !.pc = answer].pc = answer /\ [IdleTask EXCEPT !.pc = answer].flow = Nothing
  BY DEF IdleTask
<1>4. task' = [b \in Actors |-> IF b = Lane THEN IdleTask
                                 ELSE IF b = task[Lane].by THEN [IdleTask EXCEPT !.pc = answer]
                                 ELSE task[b]]
  BY <1>1 DEF Finish
<1> QED BY <1>2, <1>3, <1>4, IdleIsTyped, TasksAreTyped DEF Stops

\* What the service does while it keeps its caller waiting.
Works ==
  /\ task' \in [Actors -> Doing]
  /\ \A c \in Callers : task'[c] = task[c]
  /\ task'[Lane].by = task[Lane].by /\ task'[Lane].flow = task[Lane].flow

LEMMA ServiceGoes ==
  ASSUME Types, NEW pc \in Steps, Go(Lane, pc)
  PROVE  /\ Works /\ task'[Lane].pc = pc /\ task'[Lane].token = task[Lane].token
         /\ task'[Lane].existed = task[Lane].existed
BY GoMoves, TasksAreTyped DEF Only, Works

LEMMA ServiceReads ==
  ASSUME Types, Read(Lane)
  PROVE  /\ Works /\ task'[Lane].pc = task[Lane].pc /\ task[Lane].pc \in Reads
BY ReadMoves, TasksAreTyped DEF Only, Works

LEMMA RotateMoves ==
  ASSUME Types, Rotate
  PROVE  /\ Works /\ issued + 1 \in 1..MaxToken
         /\ task'[Lane].pc = "resolve" /\ task'[Lane].token = issued + 1
<1>1. task[Lane] \in Doing /\ Lane \in Actors
  BY TasksAreTyped
<1>2. issued + 1 \in 1..MaxToken /\ issued + 1 \in 0..MaxToken
  BY OAuthAssumption DEF Rotate, Types
<1>3. task' = [task EXCEPT ![Lane] = [task[Lane] EXCEPT !.pc = "resolve", !.token = issued + 1]]
  BY <1>1, TasksAreTyped DEF Rotate, Doing
<1>4. [task[Lane] EXCEPT !.pc = "resolve", !.token = issued + 1] \in Doing
  BY <1>1, <1>2 DEF Doing, Steps
<1>5. Only(Lane) /\ task'[Lane] = [task[Lane] EXCEPT !.pc = "resolve", !.token = issued + 1]
  BY <1>1, <1>3, <1>4, Altered
<1> QED BY <1>1, <1>2, <1>5, TasksAreTyped DEF Works, Only, Doing

\* The service has read the secret.
LEMMA LoadMoves ==
  ASSUME Types, Load
  PROVE  \/ Stops /\ task[Lane].token = 0
         \/ Works /\ task'[Lane].pc = "request" /\ task'[Lane].token = task[Lane].token
            /\ task[Lane].token # 0
<1>1. task[Lane] \in Doing /\ Lane \in Actors
  BY TasksAreTyped
<1>2. CASE task[Lane].token = 0
  BY <1>2, ServiceStops DEF Load
<1>3. CASE task[Lane].token # 0
  <2>1. task' = [task EXCEPT ![Lane] = [task[Lane] EXCEPT !.pc = "request", !.read = FALSE]]
    BY <1>1, <1>3, TasksAreTyped DEF Load, Doing
  <2>2. [task[Lane] EXCEPT !.pc = "request", !.read = FALSE] \in Doing
    BY <1>1 DEF Doing, Steps
  <2>3. Only(Lane) /\ task'[Lane] = [task[Lane] EXCEPT !.pc = "request", !.read = FALSE]
    BY <1>1, <2>1, <2>2, Altered
  <2> QED BY <1>1, <1>3, <2>3, TasksAreTyped DEF Works, Only, Doing
<1> QED BY <1>2, <1>3

\* The service takes the call of caller c.
Starts(c) ==
  /\ task' \in [Actors -> Doing] /\ \A d \in Callers : task'[d] = task[d]
  /\ task'[Lane].pc \in {"load", "request"} /\ (task'[Lane].pc = "request" => cached[host] # 0)
  /\ task'[Lane].token = cached[host] /\ task'[Lane].by = c /\ task'[Lane].flow = Nothing

\* It refuses the call when there is no session.
LEMMA StartMoves ==
  ASSUME Types, NEW c \in Callers, StartRefresh(c)
  PROVE  Starts(c) \/ (Only(c) /\ task'[c].pc = "idle" /\ task'[c].flow = Nothing)
<1>1. CASE row
  <2>0. PICK pc \in {"load", "request"} : pc = (IF cached[host] = 0 THEN "load" ELSE "request")
    OBVIOUS
  <2>1. task' = [task EXCEPT ![Lane] = [IdleTask EXCEPT !.pc = pc, !.token = cached[host], !.by = c]]
    BY <1>1, <2>0 DEF StartRefresh
  <2>2. host \in Tabs
    BY DEF StartRefresh, Types
  <2>3. [IdleTask EXCEPT !.pc = pc, !.token = cached[host], !.by = c] \in Doing
    BY <2>0, <2>2, ZeroIsToken, TasksAreTyped DEF IdleTask, Doing, Steps, Reads
  <2>4. Only(Lane) /\ task'[Lane] = [IdleTask EXCEPT !.pc = pc, !.token = cached[host], !.by = c]
    BY <2>1, <2>3, Altered, TasksAreTyped
  <2>5. task'[Lane].pc = pc /\ task'[Lane].token = cached[host] /\ task'[Lane].by = c /\ task'[Lane].flow = Nothing
    BY <2>4 DEF IdleTask
  <2>6. task' \in [Actors -> Doing] /\ \A d \in Callers : task'[d] = task[d]
    BY <2>4, TasksAreTyped DEF Only
  <2>7. pc = "request" => cached[host] # 0
    BY <2>0
  <2> QED BY <2>0, <2>5, <2>6, <2>7 DEF Starts
<1>2. CASE ~row
  BY <1>2, CallerEnds DEF StartRefresh, Fail
<1> QED BY <1>1, <1>2

\* A caller in an authorization flow that another one has begun, or that it goes on with.
LEMMA FlowGoes ==
  ASSUME Types, NEW c \in Callers, NEW f \in Flows, NEW pc \in Steps,
         task' = [task EXCEPT ![c].pc = pc, ![c].flow = f], task[c].pc # "waiting"
  PROVE  Moves(c) /\ task'[c].pc = pc /\ task'[c].flow = f
<1>1. c \in Actors /\ task[c] \in Doing
  BY TasksAreTyped
<1>2. task' = [task EXCEPT ![c] = [task[c] EXCEPT !.pc = pc, !.flow = f]]
  BY <1>1, TasksAreTyped DEF Doing
<1>3. [task[c] EXCEPT !.pc = pc, !.flow = f] \in Doing
  BY <1>1 DEF Doing
<1>4. Only(c) /\ task'[c] = [task[c] EXCEPT !.pc = pc, !.flow = f]
  BY <1>1, <1>2, <1>3, Altered
<1> QED BY <1>1, <1>4 DEF Moves, Doing

LEMMA ExchangeMoves ==
  ASSUME Types, NEW c \in Callers, Exchange(c)
  PROVE  /\ Moves(c) /\ task'[c].pc = "resolve" /\ task'[c].flow = task[c].flow
         /\ issued + 1 \in 1..MaxToken
<1>1. c \in Actors /\ task[c] \in Doing
  BY TasksAreTyped
<1>2. issued + 1 \in 1..MaxToken /\ issued + 1 \in 0..MaxToken
  BY OAuthAssumption DEF Exchange, Types
<1>3. task' = [task EXCEPT ![c] = [task[c] EXCEPT !.pc = "resolve", !.token = issued + 1]]
  BY <1>1, TasksAreTyped DEF Exchange, Doing
<1>4. [task[c] EXCEPT !.pc = "resolve", !.token = issued + 1] \in Doing
  BY <1>1, <1>2 DEF Doing, Steps
<1>5. Only(c) /\ task'[c] = [task[c] EXCEPT !.pc = "resolve", !.token = issued + 1]
  BY <1>1, <1>3, <1>4, Altered
<1>6. task'[c].pc = "resolve" /\ task'[c].flow = task[c].flow
  BY <1>1, <1>5 DEF Doing
<1>7. task[c].pc # "waiting"
  BY DEF Exchange
<1> QED BY <1>2, <1>5, <1>6, <1>7 DEF Moves

\* Caller c signs in or completes a flow.
FlowStep(c) ==
  \/ Begin(c) \/ KeepVerifier(c) \/ Callback(c) \/ Cancel(c) \/ Exchange(c) \/ ExchangeFails(c)
  \/ \E f \in Flows : StartSignIn(c, f) \/ CompleteRedirect(c, f)

LEMMA FlowMoves ==
  ASSUME Types, NEW c \in Callers, FlowStep(c)
  PROVE  Moves(c)
<1>1. CASE Exchange(c)
  BY <1>1, ExchangeMoves
<1>2. ASSUME NEW f \in Flows, StartSignIn(c, f) \/ CompleteRedirect(c, f) PROVE Moves(c)
  BY <1>2, FlowGoes DEF StartSignIn, CompleteRedirect, Steps
<1>3. CASE Begin(c) \/ KeepVerifier(c) \/ Callback(c) \/ Cancel(c) \/ ExchangeFails(c)
  <2>1. /\ task[c].pc # "waiting"
        /\ Go(c, "verifier") \/ Go(c, "browser") \/ Go(c, "exchange") \/ Fail(c)
    BY <1>3 DEF Begin, KeepVerifier, Callback, Cancel, ExchangeFails
  <2>2. ASSUME NEW pc \in {"verifier", "browser", "exchange"}, Go(c, pc) PROVE Only(c)
    BY <2>2, GoMoves, TasksAreTyped DEF Steps
  <2>3. Fail(c) => Only(c)
    BY CallerEnds DEF Fail
  <2> QED BY <2>1, <2>2, <2>3 DEF Moves
<1> QED BY <1>1, <1>2, <1>3 DEF FlowStep

\* A reload takes what the callers of the tab did, and what the service did in it.
LEMMA RestartMoves ==
  ASSUME Types, NEW c \in Callers, Restart(c)
  PROVE  /\ task' \in [Actors -> Doing]
         /\ task'[c].pc = "tidy" /\ task'[c].flow = Nothing
         /\ \A d \in Callers \ {c} : task'[d] = IF In[d] = In[c] THEN IdleTask ELSE task[d]
         /\ host = In[c] => host' = Nothing /\ task'[Lane] = IdleTask
         /\ host # In[c] =>
              /\ host' = host /\ task'[Lane].pc = task[Lane].pc /\ task'[Lane].flow = task[Lane].flow
              /\ task'[Lane].token = task[Lane].token /\ task'[Lane].existed = task[Lane].existed
              /\ task'[Lane].by = IF task[Lane].by \in Callers /\ In[task[Lane].by] = In[c] THEN Nothing
                                  ELSE task[Lane].by
<1>1. Lane \in Actors /\ c \in Actors /\ c # Lane /\ Lane \notin Callers /\ Callers \subseteq Actors
      /\ task[Lane] \in Doing /\ \A a \in Actors : task[a] \in Doing
  BY TasksAreTyped
<1>2. task[Lane].by \in Callers \cup {Nothing} /\ Nothing \notin Callers
  BY <1>1, OAuthAssumption DEF Doing
<1>3. [task[Lane] EXCEPT !.by = Nothing] \in Doing /\ [IdleTask EXCEPT !.pc = "tidy"] \in Doing /\ IdleTask \in Doing
  BY <1>1, IdleIsTyped DEF Doing, Steps
<1> DEFINE lost(a) == IF a = Lane THEN host = In[c] ELSE In[a] = In[c]
<1> DEFINE next(a) == IF a = c THEN [IdleTask EXCEPT !.pc = "tidy"]
                     ELSE IF lost(a) THEN IdleTask
                     ELSE IF a = Lane /\ task[a].by # Nothing /\ lost(task[a].by)
                          THEN [task[a] EXCEPT !.by = Nothing]
                     ELSE task[a]
<1>5. task' = [a \in Actors |-> next(a)]
  BY DEF Restart
<1>6. ASSUME NEW a \in Actors PROVE next(a) \in Doing
  <2>1. task[a] \in Doing /\ [task[a] EXCEPT !.by = Nothing] \in Doing
    BY <1>1 DEF Doing
  <2> QED BY <1>3, <2>1
<1> HIDE DEF next
<1>7. task' \in [Actors -> Doing]
  BY <1>5, <1>6
<1> USE DEF next
<1>8. task'[c].pc = "tidy" /\ task'[c].flow = Nothing
  BY <1>1, <1>5 DEF IdleTask
<1>9. \A d \in Callers \ {c} : task'[d] = IF In[d] = In[c] THEN IdleTask ELSE task[d]
  BY <1>1, <1>5
<1>10. task'[Lane] = IF host = In[c] THEN IdleTask
                     ELSE IF task[Lane].by # Nothing /\ lost(task[Lane].by) THEN [task[Lane] EXCEPT !.by = Nothing]
                     ELSE task[Lane]
  BY <1>1, <1>5
<1>11. task[Lane].by # Nothing /\ lost(task[Lane].by) <=> task[Lane].by \in Callers /\ In[task[Lane].by] = In[c]
  BY <1>1, <1>2
<1>12. host' = IF host = In[c] THEN Nothing ELSE host
  BY DEF Restart
<1>13. task'[Lane] = IF host = In[c] THEN IdleTask
                     ELSE IF task[Lane].by \in Callers /\ In[task[Lane].by] = In[c] THEN [task[Lane] EXCEPT !.by = Nothing]
                     ELSE task[Lane]
  BY <1>10, <1>11
<1> HIDE DEF lost, next
<1> QED BY <1>1, <1>7, <1>8, <1>9, <1>12, <1>13 DEF Doing


----------------------------------------------------------------------------
(* The types *)

Entries == [used : BOOLEAN, row : BOOLEAN, secret : BOOLEAN, remover : Callers \cup {Nothing}]

SessionTypes == row \in BOOLEAN /\ stored \in 0..MaxToken /\ cached \in [Tabs -> 0..MaxToken]
ServerTypes ==
  issued \in 0..MaxToken /\ valid \subseteq 1..issued /\ rotated \subseteq 1..issued /\ expired \subseteq 1..issued
NoteTypes == spending \in [DOMAIN Budget -> Nat] /\ races \subseteq {"late", "swept"}
HostTypes == host \in Tabs \cup {Nothing}
PendingTypes == pending \in [Flows -> Entries]
TaskTypes == task \in [Actors -> Doing]

LEMMA TypesInParts ==
  Types <=> SessionTypes /\ ServerTypes /\ NoteTypes /\ HostTypes /\ PendingTypes /\ TaskTypes
BY DEF Types, SessionTypes, ServerTypes, NoteTypes, HostTypes, PendingTypes, TaskTypes, Entries, Doing

LEMMA TypesFromParts ==
  ASSUME SessionTypes', ServerTypes', NoteTypes', HostTypes', PendingTypes', TaskTypes'
  PROVE  Types'
BY TypesInParts, PTL

LEMMA SpendIsTyped ==
  ASSUME Types, NEW kind \in {"reload", "fault", "end", "revoke"}, Spend(kind)
  PROVE  /\ spending' \in [DOMAIN Budget -> Nat] /\ spending'[kind] # 0
         /\ \A k \in {"reload", "fault", "end", "revoke"} \ {kind} : spending'[k] = spending[k]
<1>1. DOMAIN Budget = {"reload", "fault", "end", "revoke"}
  BY OAuthAssumption
<1>2. spending \in [{"reload", "fault", "end", "revoke"} -> Nat] /\ spending' = [spending EXCEPT ![kind] = spending[kind] + 1]
  BY <1>1 DEF Types, Spend
<1>3. spending[kind] + 1 \in Nat /\ spending[kind] + 1 # 0
  BY <1>2
<1> QED BY <1>1, <1>2, <1>3

LEMMA RemovingIsTyped ==
  ASSUME Types, NEW c \in Callers, NEW old
  PROVE  /\ Removing(c, old) \in [Flows -> Entries]
         /\ \A f \in Flows : Removing(c, old)[f] = IF f \in old THEN [pending[f] EXCEPT !.remover = c] ELSE pending[f]
<1>1. \A f \in Flows : pending[f] \in Entries /\ [pending[f] EXCEPT !.remover = c] \in Entries
  BY DEF Types, Entries
<1> QED BY <1>1 DEF Removing

LEMMA KeepIsTyped ==
  ASSUME Types, NEW t \in Tabs, NEW token \in 0..MaxToken, Keep(t, token)
  PROVE  cached' \in [Tabs -> 0..MaxToken]
BY DEF Types, Keep

LEMMA PlaceIsTab ==
  ASSUME Types, ServiceMatches, NEW a \in Actors, task[a].pc # "idle"
  PROVE  Place(a) \in Tabs
BY OAuthAssumption DEF Types, ServiceMatches, Actors, Place

LEMMA TakeIsTyped ==
  ASSUME Types, ServiceMatches, NEW a \in Actors, Take(a), task[a].pc # "idle"
  PROVE  cached' \in [Tabs -> 0..MaxToken] /\ races' \subseteq {"late", "swept"}
<1>1. Place(a) \in Tabs /\ task[a].token \in 0..MaxToken /\ cached \in [Tabs -> 0..MaxToken]
      /\ races \subseteq {"late", "swept"}
  BY PlaceIsTab, TasksAreTyped DEF Doing, Types
<1>2. cached' = cached \/ cached' = [cached EXCEPT ![Place(a)] = task[a].token]
  BY DEF Take
<1>3. races' = races \/ races' = races \cup {"late"}
  BY DEF Take
<1> QED BY <1>1, <1>2, <1>3

LEMMA ReadTypes ==
  ASSUME Types, NEW a \in Actors, Read(a)
  PROVE  Types'
<1>1. TaskTypes'
  BY ReadMoves DEF Only, TaskTypes
<1>2. SessionTypes' /\ ServerTypes' /\ NoteTypes' /\ HostTypes' /\ PendingTypes'
  BY TypesInParts DEF Read, session, server, SessionTypes, ServerTypes, NoteTypes, HostTypes, PendingTypes
<1> QED BY <1>1, <1>2, TypesFromParts

LEMMA CallerTypes ==
  ASSUME Types, ServiceMatches, NEW c \in Callers, CallerStep(c)
  PROVE  Types'
<1>1. CASE Read(c)
  BY <1>1, ReadTypes, TasksAreTyped
<1>2. CASE ~Read(c)
  <2>0. c \in Actors /\ In[c] \in Tabs /\ (Calm(c) \/ Revokes(c))
    BY <1>2, TasksAreTyped, OAuthAssumption DEF CallerStep
  <2>1. TaskTypes'
    BY CallerMoves DEF Moves, Only, TaskTypes
  <2>2. HostTypes' /\ PendingTypes'
    BY <2>0, TypesInParts
       DEF Calm, Get, Got, Reload, Refresh, Answer, Reread, Tidied, Restore, Sweep, Revokes, StartRevoke, LookedUp,
           Revoke, RevokeFails, session, HostTypes, PendingTypes
  <2>3. ServerTypes'
    <3>1. CASE Revoke(c)
      BY <3>1, TypesInParts DEF Revoke, ServerTypes
    <3>2. CASE UNCHANGED server
      BY <3>2, TypesInParts DEF server, ServerTypes
    <3> QED BY <2>0, <3>1, <3>2
            DEF Calm, Get, Got, Reload, Refresh, Answer, Reread, Tidied, Restore, Sweep, Revokes, StartRevoke, LookedUp,
                RevokeFails
  <2>4. row' \in BOOLEAN /\ stored' \in 0..MaxToken
    BY <2>0, TasksAreTyped
       DEF Calm, Get, Got, Reload, Refresh, Answer, Reread, Tidied, Restore, Sweep, Revokes, StartRevoke, LookedUp,
           Revoke, RevokeFails, session
  <2>5. spending' \in [DOMAIN Budget -> Nat]
    <3>1. CASE StartRevoke(c) \/ RevokeFails(c)
      BY <3>1, SpendIsTyped DEF StartRevoke, RevokeFails
    <3>2. CASE UNCHANGED spending
      BY <3>2 DEF Types
    <3> QED BY <2>0, <3>1, <3>2
            DEF Calm, Get, Got, Reload, Refresh, Answer, Reread, Tidied, Restore, Sweep, Revokes, LookedUp, Revoke
  <2>6. cached' \in [Tabs -> 0..MaxToken] /\ races' \subseteq {"late", "swept"}
    <3>1. CASE Got(c) \/ Reload(c) \/ Reread(c) \/ Restore(c) \/ LookedUp(c)
      BY <2>0, <3>1, TakeIsTyped DEF Got, Reload, Reread, Restore, LookedUp
    <3>2. CASE Answer(c)
      BY <2>0, <3>2, KeepIsTyped, ZeroIsToken DEF Answer, Types
    <3>3. CASE Sweep(c)
      BY <3>3 DEF Sweep, Types
    <3>4. CASE UNCHANGED <<cached, races>>
      BY <3>4 DEF Types
    <3> QED BY <2>0, <3>1, <3>2, <3>3, <3>4
            DEF Calm, Get, Refresh, Tidied, Revokes, StartRevoke, Revoke, RevokeFails, session
  <2>7. SessionTypes' /\ NoteTypes'
    BY <2>4, <2>5, <2>6 DEF SessionTypes, NoteTypes
  <2> QED BY <2>1, <2>2, <2>3, <2>7, TypesFromParts
<1> QED BY <1>1, <1>2

LEMMA FlowTypes ==
  ASSUME Types, NEW c \in Callers, FlowStep(c)
  PROVE  Types'
<1>1. TaskTypes'
  BY FlowMoves DEF Moves, Only, TaskTypes
<1>2. UNCHANGED <<row, stored, cached, host, spending, races>>
  BY DEF FlowStep, Begin, KeepVerifier, Callback, Cancel, Exchange, ExchangeFails, StartSignIn, CompleteRedirect, session
<1>3. ServerTypes'
  <2>1. CASE Exchange(c)
    <3>1. issued + 1 \in 1..MaxToken /\ issued \in Nat
      BY <2>1, ExchangeMoves DEF Types
    <3> QED BY <2>1, <3>1 DEF Exchange, Types, ServerTypes
  <2>2. CASE UNCHANGED server
    BY <2>2, TypesInParts DEF server, ServerTypes
  <2> QED BY <2>1, <2>2 DEF FlowStep, Begin, KeepVerifier, Callback, Cancel, ExchangeFails, StartSignIn, CompleteRedirect
<1>4. PendingTypes'
  <2>1. CASE Begin(c) \/ KeepVerifier(c)
    <3>1. pending \in [Flows -> Entries]
      BY TypesInParts DEF PendingTypes
    <3>2. \A f \in Flows : [pending[f] EXCEPT !.row = TRUE] \in Entries /\ [pending[f] EXCEPT !.secret = TRUE] \in Entries
      BY <3>1 DEF Entries
    <3>3. CASE Begin(c)
      BY <3>1, <3>2, <3>3 DEF Begin, PendingTypes
    <3>4. CASE KeepVerifier(c)
      BY <3>1, <3>2, <3>4 DEF KeepVerifier, PendingTypes
    <3> QED BY <2>1, <3>3, <3>4
  <2>2. CASE Cancel(c) \/ Exchange(c) \/ ExchangeFails(c)
    BY <2>2, RemovingIsTyped DEF Cancel, Exchange, ExchangeFails, PendingTypes
  <2>3. ASSUME NEW f \in Flows, StartSignIn(c, f) PROVE PendingTypes'
    <3>1. PICK old \in SUBSET Old : pending' = [Removing(c, old) EXCEPT ![f].used = TRUE]
      BY <2>3 DEF StartSignIn
    <3>2. Removing(c, old) \in [Flows -> Entries]
      BY RemovingIsTyped
    <3> QED BY <3>1, <3>2 DEF PendingTypes, Entries
  <2>4. CASE UNCHANGED pending
    BY <2>4, TypesInParts DEF PendingTypes
  <2> QED BY <2>1, <2>2, <2>3, <2>4 DEF FlowStep, Callback, CompleteRedirect
<1>5. SessionTypes' /\ HostTypes' /\ NoteTypes'
  BY <1>2, TypesInParts DEF SessionTypes, HostTypes, NoteTypes
<1> QED BY <1>1, <1>3, <1>4, <1>5, TypesFromParts

\* The service and the callers write alike.
LEMMA WriteMoves ==
  ASSUME Types, Write(Lane)
  PROVE  Works \/ Stops
<1>1. CASE Resolve(Lane)
  BY <1>1, ResolveMoves, TasksAreTyped DEF Only, Works
<1>2. ASSUME NEW pc \in {"store", "stored", "unlist", "drop"}, Go(Lane, pc) PROVE Works
  BY <1>2, ServiceGoes DEF Steps
<1>3. CASE Done(Lane) \/ Fail(Lane)
  BY <1>3, ServiceStops
<1> QED BY <1>1, <1>2, <1>3
        DEF Write, ResolveFails, Insert, Store, Remember, StoreFails, Forget, Unlist, Drop

LEMMA WriteTypes ==
  ASSUME Types, ServiceMatches, NEW a \in Actors, Write(a)
  PROVE  Types'
<1>1. TaskTypes'
  <2>1. CASE a = Lane
    BY <2>1, WriteMoves DEF Works, Stops, TaskTypes
  <2>2. CASE a \in Callers
    BY <2>2, WriterMoves DEF Moves, Only, TaskTypes
  <2> QED BY <2>1, <2>2 DEF Actors
<1>2. UNCHANGED <<host, pending, server, races>>
  BY DEF Write, Resolve, ResolveFails, Insert, Store, Remember, StoreFails, Forget, Unlist, Drop
<1>3. HostTypes' /\ PendingTypes' /\ ServerTypes'
  BY <1>2, TypesInParts DEF server, HostTypes, PendingTypes, ServerTypes
<1>4. NoteTypes'
  <2>1. CASE ResolveFails(a) \/ StoreFails(a)
    BY <1>2, <2>1, SpendIsTyped DEF ResolveFails, StoreFails, NoteTypes, Types
  <2>2. CASE UNCHANGED spending
    BY <1>2, <2>2, TypesInParts DEF NoteTypes
  <2> QED BY <2>1, <2>2 DEF Write, Resolve, Insert, Store, Remember, Forget, Unlist, Drop
<1>5. SessionTypes'
  <2>1. 0 \in 0..MaxToken /\ task[a].token \in 0..MaxToken /\ task[a].existed \in BOOLEAN
    BY TasksAreTyped, OAuthAssumption DEF Doing
  <2>2. CASE Remember(a) \/ Drop(a)
    <3>1. Place(a) \in Tabs
      BY <2>2, PlaceIsTab DEF Remember, Drop
    <3> QED BY <2>1, <2>2, <3>1, KeepIsTyped, TypesInParts DEF Remember, Drop, SessionTypes
  <2>3. CASE Insert(a) \/ StoreFails(a) \/ Unlist(a)
    BY <2>1, <2>3, TasksAreTyped, TypesInParts DEF Insert, StoreFails, Unlist, SessionTypes
  <2>4. CASE Forget(a) \/ Store(a)
    BY <2>1, <2>4, TypesInParts DEF Forget, Store, SessionTypes
  <2>5. CASE Resolve(a) \/ ResolveFails(a)
    BY <2>5, TypesInParts DEF Resolve, ResolveFails, session, SessionTypes
  <2> QED BY <2>2, <2>3, <2>4, <2>5 DEF Write
<1> QED BY <1>1, <1>3, <1>4, <1>5, TypesFromParts

LEMMA ServiceTypes ==
  ASSUME Types, ServiceMatches, Service
  PROVE  Types'
<1>1. CASE Rotate
  <2>1. issued + 1 \in 1..MaxToken /\ issued \in Nat /\ task[Lane].token \in valid
    BY <1>1, RotateMoves DEF Types, Rotate
  <2>2. TaskTypes' /\ ServerTypes'
    BY <1>1, <2>1, RotateMoves DEF Works, TaskTypes, Rotate, ServerTypes, Types
  <2>3. SessionTypes' /\ HostTypes' /\ PendingTypes' /\ NoteTypes'
    BY <1>1, TypesInParts DEF Rotate, session, SessionTypes, HostTypes, PendingTypes, NoteTypes
  <2> QED BY <2>2, <2>3, TypesFromParts
<1>2. CASE RefreshRefused \/ Unreachable
  <2>1. TaskTypes'
    BY <1>2, ServiceGoes, ServiceStops DEF Works, Stops, TaskTypes, RefreshRefused, Unreachable, Fail, Steps
  <2>2. NoteTypes'
    BY <1>2, SpendIsTyped, TypesInParts DEF RefreshRefused, Unreachable, NoteTypes, Types
  <2>3. SessionTypes' /\ HostTypes' /\ PendingTypes' /\ ServerTypes'
    BY <1>2, TypesInParts DEF RefreshRefused, Unreachable, session, server, SessionTypes, HostTypes, PendingTypes, ServerTypes
  <2> QED BY <2>1, <2>2, <2>3, TypesFromParts
<1>3. ASSUME NEW c \in Callers, StartRefresh(c) PROVE Types'
  <2>1. TaskTypes'
    BY <1>3, StartMoves DEF Starts, Only, TaskTypes
  <2>2. SessionTypes' /\ NoteTypes' /\ HostTypes' /\ PendingTypes' /\ ServerTypes'
    BY <1>3, TypesInParts
       DEF StartRefresh, session, server, SessionTypes, NoteTypes, HostTypes, PendingTypes, ServerTypes
  <2> QED BY <2>1, <2>2, TypesFromParts
<1>4. CASE Load
  <2>1. TaskTypes'
    BY <1>4, LoadMoves DEF Works, Stops, TaskTypes
  <2>2. cached' \in [Tabs -> 0..MaxToken] /\ races' \subseteq {"late", "swept"}
    BY <1>4, TakeIsTyped, TasksAreTyped DEF Load
  <2>3. SessionTypes' /\ NoteTypes' /\ HostTypes' /\ PendingTypes' /\ ServerTypes'
    BY <1>4, <2>2, TypesInParts DEF Load, server, SessionTypes, NoteTypes, HostTypes, PendingTypes, ServerTypes
  <2> QED BY <2>1, <2>3, TypesFromParts
<1> QED BY <1>1, <1>2, <1>3, <1>4 DEF Service

\* A reload ends the removals of its tab, and c begins to remove flows that were left.
LEMMA RestartPending ==
  ASSUME Types, NEW c \in Callers, Restart(c)
  PROVE  /\ PendingTypes'
         /\ \A f \in Flows : \/ pending'[f] = pending[f]
                             \/ pending[f].remover # Nothing /\ pending'[f] = [pending[f] EXCEPT !.remover = Nothing]
                             \/ f \in Old /\ pending'[f] = [pending[f] EXCEPT !.remover = c]
<1> DEFINE lost(a) == IF a = Lane THEN host = In[c] ELSE In[a] = In[c]
<1>1. PICK old \in SUBSET Old :
        pending' = [f \in Flows |-> IF pending[f].remover # Nothing /\ lost(pending[f].remover)
                                    THEN [pending[f] EXCEPT !.remover = Nothing]
                                    ELSE Removing(c, old)[f]]
  BY DEF Restart
<1> HIDE DEF lost
<1>2. \A f \in Flows : Removing(c, old)[f] = IF f \in old THEN [pending[f] EXCEPT !.remover = c] ELSE pending[f]
  BY RemovingIsTyped
<1>3. \A f \in Flows : [pending[f] EXCEPT !.remover = Nothing] \in Entries
  BY DEF Types, Entries
<1>4. \A f \in Flows : Removing(c, old)[f] \in Entries
  BY RemovingIsTyped
<1> QED BY <1>1, <1>2, <1>3, <1>4 DEF PendingTypes

LEMMA OtherTypes ==
  ASSUME Types,
         \/ \E t \in Tabs : Lead(t)
         \/ \E c \in Callers : Restart(c)
         \/ \E f \in Flows : RemovePending(f)
         \/ \E t \in 1..MaxToken : Expire(t) \/ EndGrant(t)
  PROVE  Types'
<1>1. ASSUME NEW t \in Tabs, Lead(t) PROVE Types'
  BY <1>1 DEF Lead, session, server, Types
<1>2. ASSUME NEW c \in Callers, Restart(c) PROVE Types'
  <2>1. TaskTypes' /\ HostTypes'
    BY <1>2, RestartMoves, TypesInParts DEF TaskTypes, HostTypes
  <2>2. PendingTypes' /\ NoteTypes'
    BY <1>2, RestartPending, SpendIsTyped DEF Restart, NoteTypes, Types
  <2>3. SessionTypes' /\ ServerTypes'
    BY <1>2, KeepIsTyped, ZeroIsToken, TypesInParts, OAuthAssumption DEF Restart, SessionTypes, server, ServerTypes
  <2> QED BY <2>1, <2>2, <2>3, TypesFromParts
<1>3. ASSUME NEW f \in Flows, RemovePending(f) PROVE Types'
  <2>1. [pending[f] EXCEPT !.secret = FALSE] \in Entries
        /\ [pending[f] EXCEPT !.row = FALSE, !.remover = Nothing] \in Entries
    BY DEF Types, Entries
  <2>2. PendingTypes'
    BY <1>3, <2>1, TypesInParts DEF RemovePending, PendingTypes
  <2>3. SessionTypes' /\ HostTypes' /\ TaskTypes' /\ ServerTypes' /\ NoteTypes'
    BY <1>3, TypesInParts DEF RemovePending, session, server, SessionTypes, HostTypes, TaskTypes, ServerTypes, NoteTypes
  <2> QED BY <2>2, <2>3, TypesFromParts
<1>4. ASSUME NEW t \in 1..MaxToken, Expire(t) PROVE Types'
  BY <1>4 DEF Expire, session, Types
<1>5. ASSUME NEW t \in 1..MaxToken, EndGrant(t) PROVE Types'
  <2>1. NoteTypes' /\ ServerTypes'
    BY <1>5, SpendIsTyped, TypesInParts DEF EndGrant, NoteTypes, Types, ServerTypes
  <2>2. SessionTypes' /\ HostTypes' /\ TaskTypes' /\ PendingTypes'
    BY <1>5, TypesInParts DEF EndGrant, session, SessionTypes, HostTypes, TaskTypes, PendingTypes
  <2> QED BY <2>1, <2>2, TypesFromParts
<1> QED BY <1>1, <1>2, <1>3, <1>4, <1>5

----------------------------------------------------------------------------
(* What the actions leave alone *)

LEMMA CallerFrame ==
  ASSUME NEW c \in Callers, CallerStep(c)
  PROVE  UNCHANGED <<stored, host, pending>>
BY DEF CallerStep, Calm, Get, Got, Reload, Refresh, Answer, Reread, Tidied, Restore, Sweep, Revokes, StartRevoke,
       LookedUp, Revoke, RevokeFails, Read, session

LEMMA FlowFrame ==
  ASSUME NEW c \in Callers, FlowStep(c)
  PROVE  UNCHANGED <<session, host>>
BY DEF FlowStep, Begin, KeepVerifier, Callback, Cancel, Exchange, ExchangeFails, StartSignIn, CompleteRedirect

LEMMA WriteFrame ==
  ASSUME NEW a \in Actors, Write(a)
  PROVE  UNCHANGED <<host, pending, server, races>>
BY DEF Write, Resolve, ResolveFails, Insert, Store, Remember, StoreFails, Forget, Unlist, Drop

LEMMA ServiceFrame ==
  ASSUME Service \/ Read(Lane)
  PROVE  UNCHANGED <<row, stored, host, pending>>
BY DEF Service, StartRefresh, Load, Rotate, RefreshRefused, Unreachable, Read, session

\* The groups of actions.
LEMMA NextInGroups ==
  ASSUME OAuthNext
  PROVE  \/ \E c \in Callers : CallerStep(c) \/ FlowStep(c) \/ Restart(c)
         \/ \E a \in Actors : Write(a)
         \/ Service \/ Read(Lane)
         \/ \E f \in Flows : RemovePending(f)
         \/ \E t \in Tabs : Lead(t)
         \/ \E t \in 1..MaxToken : Expire(t) \/ EndGrant(t)
BY DEF OAuthNext, CallerStep, Calm, Revokes, FlowStep, Actors

----------------------------------------------------------------------------
(* The service and its caller *)

ServiceInv == ServiceMatches /\ ServiceKeepsShape

LEMMA MovesKeepService ==
  ASSUME Types, ServiceInv, NEW c \in Callers, Moves(c), UNCHANGED host
  PROVE  ServiceInv'
<1>1. Lane \in Actors \ {c} /\ Callers \subseteq Actors
  BY TasksAreTyped
<1>2. task'[Lane] = task[Lane] /\ \A d \in Callers \ {c} : task'[d] = task[d]
  BY <1>1 DEF Moves, Only
<1>3. task[Lane].by \in Callers \cup {Nothing}
  BY TasksAreTyped DEF Doing
<1>4. task[Lane].by # c
  BY OAuthAssumption DEF Moves, ServiceInv, ServiceMatches
<1>5. ServiceMatches'
  BY <1>2, <1>3, <1>4 DEF ServiceInv, ServiceMatches
<1>6. ServiceKeepsShape'
  BY <1>2 DEF ServiceInv, ServiceKeepsShape
<1> QED BY <1>5, <1>6 DEF ServiceInv

LEMMA WorksKeepService ==
  ASSUME Types, ServiceInv, Works, UNCHANGED host, task[Lane].pc # "idle",
         task'[Lane].pc \in ServiceSteps \ {"idle"},
         task'[Lane].pc \in Writing => task'[Lane].token # 0
  PROVE  ServiceInv'
<1>1. task[Lane].by \in Callers \cup {Nothing}
  BY TasksAreTyped DEF Doing
<1>2. ServiceMatches'
  BY <1>1 DEF Works, ServiceInv, ServiceMatches
<1>3. ServiceKeepsShape'
  BY DEF Works, ServiceInv, ServiceKeepsShape
<1> QED BY <1>2, <1>3 DEF ServiceInv

LEMMA IdleKeepsService ==
  ASSUME task'[Lane] = IdleTask
  PROVE  ServiceInv'
<1>1. task'[Lane].pc = "idle" /\ task'[Lane].flow = Nothing /\ task'[Lane].by = Nothing
  BY DEF IdleTask
<1> QED BY <1>1 DEF ServiceInv, ServiceMatches, ServiceKeepsShape, ServiceSteps, Writing

\* What the service does to its task when it goes on writing or forgetting.
Goes(pc) ==
  /\ Works /\ task'[Lane].pc = pc
  /\ task'[Lane].token = task[Lane].token
LEMMA WriteGoes ==
  ASSUME Types, Write(Lane)
  PROVE  \/ Stops
         \/ Resolve(Lane) /\ task'[Lane].existed = row /\ Goes(IF row THEN "store" ELSE "insert")
         \/ Insert(Lane) /\ task'[Lane].existed = task[Lane].existed /\ Goes("store")
         \/ Store(Lane) /\ Goes("stored")
         \/ Forget(Lane) /\ row /\ Goes("unlist")
         \/ Unlist(Lane) /\ Goes("drop")
<1>1. CASE Resolve(Lane)
  <2>1. Only(Lane) /\ task'[Lane].by = task[Lane].by /\ task'[Lane].flow = task[Lane].flow
    BY <1>1, ResolveMoves, TasksAreTyped
  <2>2. Works
    BY <2>1, TasksAreTyped DEF Only, Works
  <2>3. task'[Lane].pc = (IF row THEN "store" ELSE "insert") /\ task'[Lane].token = task[Lane].token
        /\ task'[Lane].existed = row
    BY <1>1, ResolveMoves, TasksAreTyped
  <2> QED BY <1>1, <2>2, <2>3 DEF Goes
<1>2. ASSUME NEW pc \in {"store", "stored", "unlist", "drop"}, Go(Lane, pc)
      PROVE  Goes(pc) /\ task'[Lane].existed = task[Lane].existed
  BY <1>2, ServiceGoes DEF Steps, Goes
<1>3. CASE Insert(Lane)
  BY <1>2, <1>3 DEF Insert
<1>4. CASE Store(Lane)
  BY <1>2, <1>4 DEF Store
<1>5. CASE Forget(Lane) /\ row
  BY <1>2, <1>5 DEF Forget
<1>6. CASE Unlist(Lane) /\ row
  BY <1>2, <1>6 DEF Unlist
<1>7. CASE Done(Lane) \/ Fail(Lane)
  BY <1>7, ServiceStops
<1> QED BY <1>1, <1>3, <1>4, <1>5, <1>6, <1>7 DEF Write, ResolveFails, Remember, StoreFails, Forget, Unlist, Drop

LEMMA WriteKeepsService ==
  ASSUME Types, ServiceInv, Write(Lane)
  PROVE  ServiceInv'
<1>1. UNCHANGED host /\ task[Lane].pc # "idle"
  BY WriteFrame, TasksAreTyped
     DEF Write, Resolve, ResolveFails, Insert, Store, Remember, StoreFails, Forget, Unlist, Drop
<1>2. CASE Stops
  BY <1>2, IdleKeepsService DEF Stops
<1>3. CASE Resolve(Lane) /\ Goes(IF row THEN "store" ELSE "insert")
  <2>1. task[Lane].token # 0 /\ task'[Lane].pc \in {"store", "insert"}
    BY <1>3 DEF Resolve, Goes, ServiceInv, ServiceKeepsShape, Writing
  <2> QED BY <1>1, <1>3, <2>1, WorksKeepService DEF Goes, ServiceSteps
<1>4. CASE (Insert(Lane) /\ Goes("store")) \/ (Store(Lane) /\ Goes("stored"))
  <2>1. task[Lane].token # 0 /\ task'[Lane].pc \in {"store", "stored"}
    BY <1>4 DEF Insert, Store, Goes, ServiceInv, ServiceKeepsShape, Writing
  <2> QED BY <1>1, <1>4, <2>1, WorksKeepService DEF Goes, ServiceSteps
<1>5. CASE Goes("unlist") \/ Goes("drop")
  BY <1>1, <1>5, WorksKeepService DEF Goes, ServiceSteps, Writing
<1> QED BY <1>2, <1>3, <1>4, <1>5, WriteGoes

LEMMA ServiceStepKeepsService ==
  ASSUME Types, ServiceInv, Service \/ Read(Lane)
  PROVE  ServiceInv'
<1>1. CASE Rotate
  <2>1. issued + 1 # 0 /\ task[Lane].pc = "request" /\ UNCHANGED host
    BY <1>1, RotateMoves DEF Rotate
  <2> QED BY <1>1, <2>1, RotateMoves, WorksKeepService DEF ServiceSteps
<1>2. CASE RefreshRefused
  BY <1>2, ServiceGoes, WorksKeepService DEF RefreshRefused, Steps, ServiceSteps, Writing
<1>3. CASE Unreachable
  BY <1>3, ServiceStops, IdleKeepsService DEF Unreachable, Fail, Stops
<1>4. ASSUME NEW c \in Callers, StartRefresh(c) PROVE ServiceInv'
  <2>0. host' = host /\ host # Nothing /\ task[Lane].pc = "idle" /\ task[c].pc = "waiting" /\ c # Nothing
        /\ Lane \in Actors \ {c}
    BY <1>4, TasksAreTyped, OAuthAssumption DEF StartRefresh
  <2>1. CASE Starts(c)
    <3>1. task'[Lane].by = c /\ task'[c].pc = "waiting" /\ task'[Lane].flow = Nothing
          /\ task'[Lane].pc \in {"load", "request"}
      BY <2>0, <2>1 DEF Starts
    <3>2. ServiceMatches'
      BY <2>0, <3>1 DEF ServiceMatches
    <3>3. ServiceKeepsShape'
      BY <3>1 DEF ServiceKeepsShape, ServiceSteps, Writing
    <3> QED BY <3>2, <3>3 DEF ServiceInv
  <2>2. CASE Only(c)
    <3>1. task'[Lane] = task[Lane] /\ task[Lane].by = Nothing
      BY <2>0, <2>2 DEF Only, ServiceInv, ServiceKeepsShape
    <3> QED BY <2>0, <3>1 DEF ServiceInv, ServiceMatches, ServiceKeepsShape
  <2> QED BY <1>4, <2>1, <2>2, StartMoves
<1>5. CASE Load
  <2>1. UNCHANGED host /\ task[Lane].pc = "load"
    BY <1>5 DEF Load
  <2>2. CASE Stops
    BY <2>2, IdleKeepsService DEF Stops
  <2>3. CASE Works /\ task'[Lane].pc = "request"
    BY <2>1, <2>3, WorksKeepService DEF ServiceSteps, Writing
  <2> QED BY <1>5, <2>2, <2>3, LoadMoves
<1>6. CASE Read(Lane)
  <2>1. Works /\ task'[Lane].pc = task[Lane].pc /\ task[Lane].pc \in Reads /\ UNCHANGED host
    BY <1>6, ServiceReads DEF Read
  <2>2. task[Lane].pc = "load"
    BY <2>1 DEF ServiceInv, ServiceKeepsShape, ServiceSteps, Reads
  <2> QED BY <2>1, <2>2, WorksKeepService DEF ServiceSteps, Writing
<1> QED BY <1>1, <1>2, <1>3, <1>4, <1>5, <1>6 DEF Service

LEMMA RestartKeepsService ==
  ASSUME Types, ServiceInv, NEW c \in Callers, Restart(c)
  PROVE  ServiceInv'
<1>1. CASE host = In[c]
  BY <1>1, RestartMoves, IdleKeepsService
<1>2. CASE host # In[c]
  <2>1. host' = host /\ task'[Lane].pc = task[Lane].pc /\ task'[Lane].flow = task[Lane].flow
        /\ task'[Lane].token = task[Lane].token
    BY <1>2, RestartMoves
  <2>2. task[Lane].by \in Callers \cup {Nothing} /\ Nothing \notin Callers
    BY TasksAreTyped, OAuthAssumption DEF Doing
  <2>3. CASE task[Lane].by \in Callers /\ In[task[Lane].by] = In[c]
    <3>1. task'[Lane].by = Nothing
      BY <1>2, <2>3, RestartMoves
    <3> QED BY <2>1, <3>1 DEF ServiceInv, ServiceMatches, ServiceKeepsShape
  <2>4. CASE ~(task[Lane].by \in Callers /\ In[task[Lane].by] = In[c])
    <3>1. task'[Lane].by = task[Lane].by
      BY <1>2, <2>4, RestartMoves
    <3>2. task[Lane].by # Nothing => task'[task[Lane].by] = task[task[Lane].by]
      BY <2>2, <2>4, RestartMoves
    <3> QED BY <2>1, <3>1, <3>2 DEF ServiceInv, ServiceMatches, ServiceKeepsShape
  <2> QED BY <2>3, <2>4
<1> QED BY <1>1, <1>2

LEMMA UnmovedKeepsService ==
  ASSUME ServiceInv, UNCHANGED task, host' = host \/ host' # Nothing
  PROVE  ServiceInv'
BY DEF ServiceInv, ServiceMatches, ServiceKeepsShape

LEMMA ServiceIsKept ==
  ASSUME Types, ServiceInv, OAuthNext
  PROVE  ServiceInv'
<1>1. ASSUME NEW c \in Callers, CallerStep(c) PROVE ServiceInv'
  BY <1>1, CallerFrame, CallerMoves, MovesKeepService
<1>2. ASSUME NEW c \in Callers, FlowStep(c) PROVE ServiceInv'
  BY <1>2, FlowFrame, FlowMoves, MovesKeepService
<1>3. ASSUME NEW c \in Callers, Write(c) PROVE ServiceInv'
  BY <1>3, WriteFrame, WriterMoves, MovesKeepService, TasksAreTyped
<1>4. ASSUME NEW t \in Tabs, Lead(t) PROVE ServiceInv'
  BY <1>4, UnmovedKeepsService, OAuthAssumption DEF Lead
<1>5. ASSUME NEW f \in Flows, RemovePending(f) PROVE ServiceInv'
  BY <1>5, UnmovedKeepsService DEF RemovePending
<1>6. ASSUME NEW t \in 1..MaxToken, Expire(t) \/ EndGrant(t) PROVE ServiceInv'
  BY <1>6, UnmovedKeepsService DEF Expire, EndGrant
<1> QED BY <1>1, <1>2, <1>3, <1>4, <1>5, <1>6, WriteKeepsService, ServiceStepKeepsService, RestartKeepsService,
           NextInGroups DEF Actors

----------------------------------------------------------------------------
(* The flows *)

\* No caller begins a flow, and what is pending changes only for flows that were begun, that
\* no caller is beginning, and so that a verifier stays listed.
FlowsGoOn ==
  /\ \A c \in Callers : task'[c] = task[c] \/ StaysOut(c)
  /\ \A f \in Flows : pending'[f] = pending[f]
       \/ /\ pending[f].used /\ pending'[f].used /\ (pending'[f].secret => pending'[f].row)
          /\ ~\E c \in Callers : Owns(c, f)

LEMMA FlowsGoOnKeeps ==
  ASSUME FlowInv, FlowsGoOn
  PROVE  FlowInv'
<1>1. \A c \in Callers : task'[c].flow \in {Nothing, task[c].flow}
  BY DEF FlowsGoOn, StaysOut
<1>2. \A c \in Callers : task'[c].pc \in {"clean", "verifier"} => task'[c] = task[c]
  BY DEF FlowsGoOn, StaysOut
<1>3. UnusedIsEmpty'
  BY <1>1, OAuthAssumption DEF FlowsGoOn, FlowInv, UnusedIsEmpty
<1>4. FlowsAreKnown'
  BY DEF FlowsGoOn, StaysOut, FlowInv, FlowsAreKnown
<1>5. VerifierIsListed'
  BY DEF FlowsGoOn, FlowInv, VerifierIsListed
<1>6. BegunIsOwn'
  <2> SUFFICES ASSUME NEW c \in Callers, NEW f \in Flows, Owns(c, f)'
               PROVE  /\ ~pending'[f].secret /\ pending'[f].remover = Nothing
                      /\ pending'[f].row <=> task'[c].pc = "verifier"
                      /\ \A d \in Callers : task'[d].flow = f => d = c
    BY DEF BegunIsOwn
  <2>1. task'[c] = task[c] /\ Owns(c, f)
    BY <1>2 DEF Owns
  <2>2. pending'[f] = pending[f]
    BY <2>1 DEF FlowsGoOn
  <2>3. \A d \in Callers : task'[d].flow = f => task[d].flow = f
    BY <1>1, OAuthAssumption
  <2> QED BY <2>1, <2>2, <2>3 DEF FlowInv, BegunIsOwn
<1> QED BY <1>3, <1>4, <1>5, <1>6 DEF FlowInv

\* One caller stays out, and the flows in a set are being removed.
LEMMA StayingOutKeeps ==
  ASSUME FlowInv, NEW c \in Callers, Moves(c), StaysOut(c), UNCHANGED pending
  PROVE  FlowInv'
<1>1. FlowsGoOn
  BY DEF FlowsGoOn, Moves, Only, Actors
<1> QED BY <1>1, FlowsGoOnKeeps

LEMMA RemovingKeeps ==
  ASSUME Types, FlowInv, NEW c \in Callers, Moves(c), StaysOut(c),
         task[c].pc \in {"browser", "exchange"}, pending' = Removing(c, {task[c].flow})
  PROVE  FlowInv'
<1>1. PICK g \in Flows : g = task[c].flow
  BY DEF FlowInv, FlowsAreKnown, FlowSteps
<1>2. pending[g].used
  BY <1>1 DEF FlowInv, UnusedIsEmpty
<1>3. ~\E d \in Callers : Owns(d, g)
  BY <1>1 DEF FlowInv, BegunIsOwn, Owns
<1>4. pending' = Removing(c, {g})
  BY <1>1
<1>5. \A f \in Flows : Removing(c, {g})[f] = IF f \in {g} THEN [pending[f] EXCEPT !.remover = c] ELSE pending[f]
  BY RemovingIsTyped
<1>6. pending'[g] = [pending[g] EXCEPT !.remover = c] /\ pending[g] \in Entries
  BY <1>4, <1>5 DEF Types, Entries
<1>7. pending'[g].used = pending[g].used /\ pending'[g].secret = pending[g].secret /\ pending'[g].row = pending[g].row
  BY <1>6 DEF Entries
<1>8. \A f \in Flows : f # g => pending'[f] = pending[f]
  BY <1>4, <1>5
<1>9. pending'[g].secret => pending'[g].row
  BY <1>7 DEF FlowInv, VerifierIsListed
<1>10. FlowsGoOn
  BY <1>2, <1>3, <1>7, <1>8, <1>9 DEF FlowsGoOn, Moves, Only, Actors
<1> QED BY <1>10, FlowsGoOnKeeps

LEMMA OldIsLeft ==
  ASSUME FlowInv, NEW f \in Old
  PROVE  f \in Flows /\ pending[f].row /\ pending[f].used /\ ~\E c \in Callers : Owns(c, f)
<1>1. f \in Flows /\ pending[f].row
  BY DEF Old
<1>2. pending[f].used
  BY <1>1 DEF FlowInv, UnusedIsEmpty
<1>3. ASSUME NEW c \in Callers, Owns(c, f) PROVE FALSE
  BY <1>1, <1>3 DEF FlowInv, BegunIsOwn, Owns, Old
<1> QED BY <1>1, <1>2, <1>3

\* The first step of a sign-in begins a flow that no caller is in.
LEMMA SignInKeeps ==
  ASSUME Types, FlowInv, NEW c \in Callers, NEW f \in Flows, StartSignIn(c, f)
  PROVE  FlowInv'
<1>1. PICK old \in SUBSET Old : pending' = [Removing(c, old) EXCEPT ![f].used = TRUE]
  BY DEF StartSignIn
<1>2. /\ ~pending[f].used /\ ~pending[f].row /\ ~pending[f].secret /\ pending[f].remover = Nothing
      /\ \A d \in Callers : task[d].flow # f
  BY DEF StartSignIn, FlowInv, UnusedIsEmpty
<1>3. f \notin old
  BY <1>2, OldIsLeft
<1>4. \A g \in Flows : pending[g] \in Entries /\ Removing(c, old)[g] = IF g \in old THEN [pending[g] EXCEPT !.remover = c]
                                                                     ELSE pending[g]
  BY RemovingIsTyped DEF Types, Entries
<1>5. Removing(c, old) \in [Flows -> Entries]
  BY RemovingIsTyped
<1>6. pending'[f] = [pending[f] EXCEPT !.used = TRUE]
  BY <1>1, <1>3, <1>4, <1>5
<1>7. \A g \in Flows \ {f} : pending'[g] = IF g \in old THEN [pending[g] EXCEPT !.remover = c] ELSE pending[g]
  BY <1>1, <1>4, <1>5
<1>8. Moves(c) /\ task'[c].pc = "clean" /\ task'[c].flow = f
  BY FlowGoes DEF StartSignIn, Steps
<1>9. \A d \in Callers \ {c} : task'[d] = task[d]
  BY <1>8 DEF Moves, Only, Actors
<1>10. /\ pending'[f].used /\ ~pending'[f].row /\ ~pending'[f].secret /\ pending'[f].remover = Nothing
  BY <1>2, <1>4, <1>6 DEF Entries
<1>11. \A g \in Flows \ {f} : /\ pending'[g].used = pending[g].used /\ pending'[g].row = pending[g].row
                              /\ pending'[g].secret = pending[g].secret
                              /\ g \notin old => pending'[g] = pending[g]
                              /\ g \in old => pending[g].used
  <2>1. ASSUME NEW g \in Flows \ {f}, g \in old
        PROVE  /\ pending'[g].used = pending[g].used /\ pending'[g].row = pending[g].row
               /\ pending'[g].secret = pending[g].secret /\ pending[g].used
    <3>1. pending'[g] = [pending[g] EXCEPT !.remover = c] /\ pending[g] \in Entries
      BY <1>4, <1>7, <2>1
    <3>2. pending[g].used
      BY <2>1, OldIsLeft
    <3> QED BY <3>1, <3>2 DEF Entries
  <2>2. \A g \in Flows \ {f} : g \notin old => pending'[g] = pending[g]
    BY <1>7
  <2> QED BY <2>1, <2>2
<1>12. UnusedIsEmpty'
  BY <1>8, <1>9, <1>10, <1>11 DEF FlowInv, UnusedIsEmpty
<1>13. FlowsAreKnown'
  BY <1>8, <1>9 DEF FlowInv, FlowsAreKnown
<1>14. VerifierIsListed'
  BY <1>10, <1>11 DEF FlowInv, VerifierIsListed
<1>15. BegunIsOwn'
  <2> SUFFICES ASSUME NEW d \in Callers, NEW g \in Flows, Owns(d, g)'
               PROVE  /\ ~pending'[g].secret /\ pending'[g].remover = Nothing
                      /\ pending'[g].row <=> task'[d].pc = "verifier"
                      /\ \A e \in Callers : task'[e].flow = g => e = d
    BY DEF BegunIsOwn
  <2>1. CASE d = c
    <3>1. g = f
      BY <1>8, <2>1 DEF Owns
    <3> QED BY <1>2, <1>8, <1>9, <1>10, <2>1, <3>1
  <2>2. CASE d # c
    <3>1. Owns(d, g) /\ g # f /\ task'[d] = task[d]
      BY <1>2, <1>9, <2>2 DEF Owns
    <3>2. g \notin old
      BY <3>1, OldIsLeft
    <3> QED BY <1>8, <1>9, <1>11, <3>1, <3>2 DEF FlowInv, BegunIsOwn
  <2> QED BY <2>1, <2>2
<1> QED BY <1>12, <1>13, <1>14, <1>15 DEF FlowInv

\* The record of a flow is written before its verifier.
LEMMA OwnerKeeps ==
  ASSUME Types, FlowInv, NEW c \in Callers, Begin(c) \/ KeepVerifier(c)
  PROVE  FlowInv'
<1>1. task[c].pc \in {"clean", "verifier"}
  BY DEF Begin, KeepVerifier
<1>2. PICK f \in Flows : f = task[c].flow
  BY <1>1 DEF FlowInv, FlowsAreKnown, FlowSteps
<1>3. /\ ~pending[f].secret /\ pending[f].remover = Nothing /\ (pending[f].row <=> task[c].pc = "verifier")
      /\ \A d \in Callers : task[d].flow = f => d = c
  BY <1>1, <1>2 DEF FlowInv, BegunIsOwn, Owns
<1>4. Moves(c) /\ task'[c].flow = f /\ task'[c].pc = (IF Begin(c) THEN "verifier" ELSE "browser")
  <2>1. CASE Begin(c)
    BY <1>2, <2>1, CallerGoes DEF Begin, Steps, Reads, Turns
  <2>2. CASE ~Begin(c)
    BY <1>2, <2>2, CallerGoes DEF KeepVerifier, Steps, Reads, Turns
  <2> QED BY <2>1, <2>2
<1>5. \A d \in Callers \ {c} : task'[d] = task[d]
  BY <1>4 DEF Moves, Only, Actors
<1>6. pending[f] \in Entries
  BY DEF Types, Entries
<1>7. /\ pending'[f].used = pending[f].used /\ pending'[f].row /\ pending'[f].remover = Nothing
      /\ Begin(c) => ~pending'[f].secret
  <2>1. CASE Begin(c)
    <3>1. pending'[f] = [pending[f] EXCEPT !.row = TRUE]
      BY <1>2, <2>1 DEF Begin, Types
    <3> QED BY <1>3, <1>6, <3>1 DEF Entries
  <2>2. CASE KeepVerifier(c) /\ ~Begin(c)
    <3>1. pending'[f] = [pending[f] EXCEPT !.secret = TRUE] /\ task[c].pc = "verifier"
      BY <1>2, <2>2 DEF KeepVerifier, Types
    <3> QED BY <1>3, <1>6, <2>2, <3>1 DEF Entries
  <2> QED BY <2>1, <2>2
<1>8. \A g \in Flows \ {f} : pending'[g] = pending[g]
  BY <1>2 DEF Begin, KeepVerifier, Types
<1>9. pending[f].used
  BY <1>2 DEF FlowInv, UnusedIsEmpty
<1>10. UnusedIsEmpty'
  <2> SUFFICES ASSUME NEW g \in Flows, ~pending'[g].used
               PROVE  /\ ~pending'[g].row /\ ~pending'[g].secret /\ pending'[g].remover = Nothing
                      /\ \A d \in Callers : task'[d].flow # g
    BY DEF UnusedIsEmpty
  <2>1. g # f /\ pending'[g] = pending[g]
    BY <1>7, <1>8, <1>9
  <2>2. /\ ~pending[g].row /\ ~pending[g].secret /\ pending[g].remover = Nothing
        /\ \A d \in Callers : task[d].flow # g
    BY <2>1 DEF FlowInv, UnusedIsEmpty
  <2> QED BY <1>4, <1>5, <2>1, <2>2
<1>11. FlowsAreKnown'
  BY <1>4, <1>5 DEF FlowInv, FlowsAreKnown
<1>12. VerifierIsListed'
  BY <1>7, <1>8 DEF FlowInv, VerifierIsListed
<1>13. BegunIsOwn'
  <2> SUFFICES ASSUME NEW d \in Callers, NEW g \in Flows, Owns(d, g)'
               PROVE  /\ ~pending'[g].secret /\ pending'[g].remover = Nothing
                      /\ pending'[g].row <=> task'[d].pc = "verifier"
                      /\ \A e \in Callers : task'[e].flow = g => e = d
    BY DEF BegunIsOwn
  <2>1. CASE d = c
    <3>1. g = f /\ Begin(c)
      BY <1>4, <2>1 DEF Owns
    <3> QED BY <1>3, <1>4, <1>5, <1>7, <2>1, <3>1
  <2>2. CASE d # c
    <3>1. Owns(d, g) /\ task'[d] = task[d]
      BY <1>5, <2>2 DEF Owns
    <3>2. g # f
      BY <1>3, <2>2, <3>1 DEF Owns
    <3> QED BY <1>4, <1>5, <1>8, <3>1, <3>2 DEF FlowInv, BegunIsOwn
  <2> QED BY <2>1, <2>2
<1> QED BY <1>10, <1>11, <1>12, <1>13 DEF FlowInv

\* A page completes a flow whose record and verifier it finds.
LEMMA RedirectKeeps ==
  ASSUME Types, FlowInv, NEW c \in Callers, NEW f \in Flows, CompleteRedirect(c, f)
  PROVE  FlowInv'
<1>1. Moves(c) /\ task'[c].pc = "exchange" /\ task'[c].flow = f
  BY FlowGoes DEF CompleteRedirect, Steps
<1>2. pending' = pending /\ pending[f].secret
  BY DEF CompleteRedirect
<1>3. \A d \in Callers \ {c} : task'[d] = task[d]
  BY <1>1 DEF Moves, Only, Actors
<1>4. pending[f].used
  BY <1>2 DEF FlowInv, UnusedIsEmpty
<1>5. UnusedIsEmpty' /\ FlowsAreKnown' /\ VerifierIsListed'
  BY <1>1, <1>2, <1>3, <1>4 DEF FlowInv, UnusedIsEmpty, FlowsAreKnown, VerifierIsListed
<1>6. BegunIsOwn'
  <2> SUFFICES ASSUME NEW d \in Callers, NEW g \in Flows, Owns(d, g)'
               PROVE  /\ ~pending'[g].secret /\ pending'[g].remover = Nothing
                      /\ pending'[g].row <=> task'[d].pc = "verifier"
                      /\ \A e \in Callers : task'[e].flow = g => e = d
    BY DEF BegunIsOwn
  <2>1. d # c
    BY <1>1 DEF Owns
  <2>2. Owns(d, g) /\ task'[d] = task[d]
    BY <1>3, <2>1 DEF Owns
  <2>3. g # f
    BY <1>2, <2>2 DEF FlowInv, BegunIsOwn
  <2> QED BY <1>1, <1>2, <1>3, <2>2, <2>3 DEF FlowInv, BegunIsOwn
<1> QED BY <1>5, <1>6 DEF FlowInv

LEMMA FlowStepKeeps ==
  ASSUME Types, FlowInv, NEW c \in Callers, FlowStep(c)
  PROVE  FlowInv'
<1>1. CASE Callback(c)
  <2>1. task[c].pc = "browser" /\ UNCHANGED pending /\ (Go(c, "exchange") \/ Fail(c))
    BY <1>1 DEF Callback
  <2>2. CASE Go(c, "exchange")
    <3>1. Moves(c) /\ task'[c].pc = "exchange" /\ task'[c].flow = task[c].flow
      BY <2>1, <2>2, CallerGoes DEF Steps, Reads, Turns
    <3>2. task[c].flow \in Flows
      BY <2>1 DEF FlowInv, FlowsAreKnown, FlowSteps
    <3>3. StaysOut(c)
      BY <3>1, <3>2 DEF StaysOut
    <3> QED BY <2>1, <3>1, <3>3, StayingOutKeeps
  <2> QED BY <2>1, <2>2, CallerStops, StayingOutKeeps DEF Fail, Turns
<1>2. CASE Cancel(c) \/ ExchangeFails(c)
  BY <1>2, CallerStops, RemovingKeeps DEF Cancel, ExchangeFails, Fail, Turns
<1>3. CASE Exchange(c)
  <2>1. Moves(c) /\ StaysOut(c)
    BY <1>3, ExchangeMoves DEF StaysOut, FlowSteps
  <2> QED BY <1>3, <2>1, RemovingKeeps DEF Exchange
<1> QED BY <1>1, <1>2, <1>3, OwnerKeeps, SignInKeeps, RedirectKeeps DEF FlowStep

\* Removing goes from the verifier to its record.
LEMMA RemovePendingKeeps ==
  ASSUME Types, FlowInv, NEW f \in Flows, RemovePending(f)
  PROVE  FlowInv'
<1>1. pending[f].used
  BY DEF RemovePending, FlowInv, UnusedIsEmpty
<1>2. ~\E c \in Callers : Owns(c, f)
  BY DEF RemovePending, FlowInv, BegunIsOwn
<1>3. pending[f] \in Entries
  BY DEF Types, Entries
<1>4. pending'[f] = IF pending[f].secret THEN [pending[f] EXCEPT !.secret = FALSE]
                    ELSE [pending[f] EXCEPT !.row = FALSE, !.remover = Nothing]
  BY DEF RemovePending, Types
<1>5. pending'[f].used = pending[f].used /\ ~pending'[f].secret
  BY <1>3, <1>4 DEF Entries
<1>6. \A g \in Flows \ {f} : pending'[g] = pending[g]
  BY DEF RemovePending, Types
<1>7. FlowsGoOn
  BY <1>1, <1>2, <1>5, <1>6 DEF FlowsGoOn, RemovePending
<1> QED BY <1>7, FlowsGoOnKeeps
LEMMA RestartKeepsFlows ==
  ASSUME Types, FlowInv, NEW c \in Callers, Restart(c)
  PROVE  FlowInv'
<1>1. /\ task'[c].pc = "tidy" /\ task'[c].flow = Nothing
      /\ \A d \in Callers \ {c} : task'[d] = IdleTask \/ task'[d] = task[d]
  BY RestartMoves
<1>2. \A d \in Callers : task'[d] = task[d] \/ StaysOut(d)
  BY <1>1 DEF StaysOut, IdleTask, FlowSteps
<1>3. ASSUME NEW f \in Flows, pending'[f] # pending[f]
      PROVE  /\ pending[f].used /\ pending'[f].used /\ (pending'[f].secret => pending'[f].row)
             /\ ~\E d \in Callers : Owns(d, f)
  <2>1. pending[f] \in Entries /\ (pending[f].secret => pending[f].row)
    BY DEF Types, Entries, FlowInv, VerifierIsListed
  <2>2. CASE pending[f].remover # Nothing /\ pending'[f] = [pending[f] EXCEPT !.remover = Nothing]
    <3>1. pending[f].used /\ ~\E d \in Callers : Owns(d, f)
      BY <2>2 DEF FlowInv, UnusedIsEmpty, BegunIsOwn
    <3> QED BY <2>1, <2>2, <3>1 DEF Entries
  <2>3. CASE f \in Old /\ pending'[f] = [pending[f] EXCEPT !.remover = c]
    <3>1. pending[f].used /\ ~\E d \in Callers : Owns(d, f)
      BY <2>3, OldIsLeft
    <3> QED BY <2>1, <2>3, <3>1 DEF Entries
  <2> QED BY <1>3, <2>2, <2>3, RestartPending
<1>4. FlowsGoOn
  BY <1>2, <1>3 DEF FlowsGoOn
<1> QED BY <1>4, FlowsGoOnKeeps

\* The service begins no flow.
LEMMA ServiceKeepsFlows ==
  ASSUME Types, FlowInv, Write(Lane) \/ Service \/ Read(Lane)
  PROVE  FlowInv'
<1>1. UNCHANGED pending
  BY WriteFrame, ServiceFrame, TasksAreTyped
<1>2. \A c \in Callers : task'[c] = task[c] \/ StaysOut(c)
  <2>1. CASE Works
    BY <2>1 DEF Works
  <2>2. CASE Stops
    BY <2>2 DEF Stops, StaysOut, FlowSteps
  <2>3. ASSUME NEW c \in Callers, StartRefresh(c) PROVE \A d \in Callers : task'[d] = task[d] \/ StaysOut(d)
    <3>1. CASE Starts(c)
      BY <3>1 DEF Starts
    <3>2. CASE Only(c) /\ task'[c].pc = "idle" /\ task'[c].flow = Nothing
      BY <3>2 DEF StaysOut, FlowSteps, Only, Actors
    <3> QED BY <2>3, <3>1, <3>2, StartMoves
  <2>4. Rotate \/ RefreshRefused => Works
    BY RotateMoves, ServiceGoes DEF RefreshRefused, Steps
  <2>5. Unreachable => Stops
    BY ServiceStops DEF Unreachable, Fail
  <2> QED BY <2>1, <2>2, <2>3, <2>4, <2>5, WriteMoves, LoadMoves, ServiceReads DEF Service
<1>3. FlowsGoOn
  BY <1>1, <1>2 DEF FlowsGoOn
<1> QED BY <1>3, FlowsGoOnKeeps

LEMMA UnmovedKeepsFlows ==
  ASSUME FlowInv, UNCHANGED <<task, pending>>
  PROVE  FlowInv'
BY DEF FlowInv, UnusedIsEmpty, FlowsAreKnown, BegunIsOwn, Owns, VerifierIsListed

LEMMA FlowsAreKept ==
  ASSUME Types, FlowInv, OAuthNext
  PROVE  FlowInv'
<1>1. ASSUME NEW c \in Callers, CallerStep(c) PROVE FlowInv'
  BY <1>1, CallerFrame, CallerMoves, StayingOutKeeps
<1>2. ASSUME NEW c \in Callers, Write(c) PROVE FlowInv'
  BY <1>2, WriteFrame, WriterMoves, StayingOutKeeps, TasksAreTyped
<1>3. ASSUME NEW t \in Tabs, Lead(t) PROVE FlowInv'
  BY <1>3, UnmovedKeepsFlows DEF Lead
<1>4. ASSUME NEW t \in 1..MaxToken, Expire(t) \/ EndGrant(t) PROVE FlowInv'
  BY <1>4, UnmovedKeepsFlows DEF Expire, EndGrant
<1> QED BY <1>1, <1>2, <1>3, <1>4, FlowStepKeeps, RestartKeepsFlows, ServiceKeepsFlows, RemovePendingKeeps, NextInGroups
        DEF Actors

----------------------------------------------------------------------------
(* As long as nobody signs in or out *)

LEMMA RemovingUses ==
  ASSUME Types, NEW c \in Callers, NEW old, NEW f \in Flows
  PROVE  Removing(c, old)[f].used = pending[f].used
<1>1. Removing(c, old)[f] = IF f \in old THEN [pending[f] EXCEPT !.remover = c] ELSE pending[f]
  BY RemovingIsTyped
<1>2. pending[f] \in Entries
  BY DEF Types, Entries
<1> QED BY <1>1, <1>2 DEF Entries

LEMMA UsedStays ==
  ASSUME Types, OAuthNext
  PROVE  \A f \in Flows : pending[f].used => pending'[f].used
<1>0. \A f \in Flows : pending[f] \in Entries
  BY DEF Types, Entries
<1>1. ASSUME NEW c \in Callers, Restart(c) PROVE \A f \in Flows : pending[f].used => pending'[f].used
  BY <1>0, <1>1, RestartPending DEF Entries
<1>2. ASSUME NEW c \in Callers, NEW old, pending' = Removing(c, old)
      PROVE  \A f \in Flows : pending[f].used => pending'[f].used
  BY <1>2, RemovingUses
<1>3. ASSUME NEW c \in Callers, NEW f \in Flows, StartSignIn(c, f)
      PROVE  \A g \in Flows : pending[g].used => pending'[g].used
  <2>1. PICK old \in SUBSET Old : pending' = [Removing(c, old) EXCEPT ![f].used = TRUE]
    BY <1>3 DEF StartSignIn
  <2>2. Removing(c, old) \in [Flows -> Entries] /\ \A g \in Flows : pending[g].used => Removing(c, old)[g].used
    BY RemovingIsTyped, RemovingUses
  <2> QED BY <2>1, <2>2 DEF Entries
<1>4. ASSUME NEW c \in Callers, Begin(c) \/ KeepVerifier(c)
      PROVE  \A f \in Flows : pending[f].used => pending'[f].used
  <2>1. PICK g : g = task[c].flow
    OBVIOUS
  <2>2. pending' = [pending EXCEPT ![g].row = TRUE] \/ pending' = [pending EXCEPT ![g].secret = TRUE]
    BY <1>4, <2>1 DEF Begin, KeepVerifier
  <2>3. pending \in [Flows -> Entries]
    BY DEF Types, Entries
  <2> QED BY <2>2, <2>3 DEF Entries
<1>5. ASSUME NEW f \in Flows, RemovePending(f)
      PROVE  \A g \in Flows : pending[g].used => pending'[g].used
  <2>1. pending' = [pending EXCEPT ![f] = IF pending[f].secret THEN [pending[f] EXCEPT !.secret = FALSE]
                                          ELSE [pending[f] EXCEPT !.row = FALSE, !.remover = Nothing]]
    BY <1>5 DEF RemovePending
  <2> QED BY <1>0, <2>1 DEF Types, Entries
<1>6. ASSUME NEW c \in Callers, FlowStep(c) PROVE \A f \in Flows : pending[f].used => pending'[f].used
  BY <1>2, <1>3, <1>4, <1>6 DEF FlowStep, Callback, Cancel, Exchange, ExchangeFails, CompleteRedirect
<1> QED BY <1>1, <1>5, <1>6, NextInGroups, CallerFrame, WriteFrame, ServiceFrame DEF Lead, Expire, EndGrant

\* A disruption and a race stay noted.
LEMMA SpentStays ==
  ASSUME Types, OAuthNext, NEW k \in {"reload", "revoke"}
  PROVE  spending'[k] = 0 => spending[k] = 0
<1>1. UNCHANGED spending \/ \E kind \in {"reload", "fault", "end", "revoke"} : Spend(kind)
  BY DEF OAuthNext, Get, Got, Reload, Refresh, Answer, Reread, Tidied, Restore, Sweep, StartRevoke, LookedUp, Revoke,
         RevokeFails, Read, Begin, KeepVerifier, Callback, Cancel, Exchange, ExchangeFails, StartSignIn,
         CompleteRedirect, Write, Resolve, ResolveFails, Insert, Store, Remember, StoreFails, Forget, Unlist, Drop,
         Service, StartRefresh, Load, Rotate, RefreshRefused, Unreachable, RemovePending, Lead, Restart, Expire, EndGrant
<1> QED BY <1>1, SpendIsTyped

LEMMA RacesStay ==
  ASSUME OAuthNext
  PROVE  races \subseteq races'
BY DEF OAuthNext, Get, Got, Reload, Refresh, Answer, Reread, Tidied, Restore, Sweep, StartRevoke, LookedUp, Revoke,
       RevokeFails, Read, Take, Begin, KeepVerifier, Callback, Cancel, Exchange, ExchangeFails, StartSignIn,
       CompleteRedirect, Write, Resolve, ResolveFails, Insert, Store, Remember, StoreFails, Forget, Unlist, Drop,
       Service, StartRefresh, Load, Rotate, RefreshRefused, Unreachable, RemovePending, Lead, Restart, Expire, EndGrant

\* Steps of a system in which nobody signs in or out.
QuietStep ==
  \/ \E c \in Callers : Calm(c) \/ Read(c) \/ Restart(c)
  \/ Write(Lane) \/ Service \/ Read(Lane)
  \/ \E t \in Tabs : Lead(t)
  \/ \E t \in 1..MaxToken : Expire(t) \/ EndGrant(t)

LEMMA QuietNext ==
  ASSUME Types, FlowInv, OnlyService, OAuthNext, Unattended'
  PROVE  Unattended /\ QuietStep
<1>1. Unattended
  BY UsedStays, SpentStays DEF Unattended
<1>2. \A c \in Callers : task[c].pc \in CallerSteps
  BY <1>1 DEF OnlyService
<1>3. ASSUME NEW c \in Callers PROVE ~Revokes(c)
  <2>1. ~StartRevoke(c)
    BY SpendIsTyped DEF StartRevoke, Unattended
  <2> QED BY <1>2, <2>1 DEF CallerSteps, Revokes, LookedUp, Revoke, RevokeFails
<1>4. ASSUME NEW c \in Callers PROVE ~Write(c)
  BY <1>2 DEF CallerSteps, Write, Resolve, ResolveFails, Insert, Store, Remember, StoreFails, Forget, Unlist, Drop
<1>5. ASSUME NEW c \in Callers, NEW f \in Flows PROVE ~StartSignIn(c, f) /\ ~CompleteRedirect(c, f)
  <2>1. ~pending[f].used /\ ~pending[f].row
    BY <1>1 DEF Unattended, FlowInv, UnusedIsEmpty
  <2>2. ASSUME StartSignIn(c, f) PROVE FALSE
    <3>1. PICK old \in SUBSET Old : pending' = [Removing(c, old) EXCEPT ![f].used = TRUE]
      BY <2>2 DEF StartSignIn
    <3>2. pending'[f].used
      BY <3>1, RemovingIsTyped DEF Entries
    <3> QED BY <3>2 DEF Unattended
  <2> QED BY <2>1, <2>2 DEF CompleteRedirect
<1>6. ASSUME NEW c \in Callers PROVE ~FlowStep(c)
  BY <1>2, <1>5 DEF CallerSteps, FlowStep, Begin, KeepVerifier, Callback, Cancel, Exchange, ExchangeFails
<1>7. ASSUME NEW f \in Flows PROVE ~RemovePending(f)
  BY <1>1 DEF Unattended, FlowInv, UnusedIsEmpty, RemovePending
<1>8. QuietStep
  BY <1>3, <1>4, <1>6, <1>7, NextInGroups DEF CallerStep, QuietStep, Actors
<1> QED BY <1>1, <1>8

\* What the service does apart from writing and forgetting.
LEMMA ServiceTurns ==
  ASSUME Types, ServiceInv, Service \/ Read(Lane)
  PROVE  \/ task'[Lane].pc \in {"idle", "load", "request", "resolve", "forget"}
         \/ task'[Lane] = task[Lane]
<1>1. Rotate => task'[Lane].pc = "resolve"
  BY RotateMoves
<1>2. RefreshRefused => task'[Lane].pc = "forget"
  BY ServiceGoes DEF RefreshRefused, Steps
<1>3. Stops => task'[Lane].pc = "idle"
  BY DEF Stops, IdleTask
<1>4. Unreachable => Stops
  BY ServiceStops DEF Unreachable, Fail
<1>5. Read(Lane) => task'[Lane].pc = "load"
  BY ServiceReads DEF ServiceInv, ServiceKeepsShape, ServiceSteps, Reads
<1>6. ASSUME NEW c \in Callers, StartRefresh(c)
      PROVE  task'[Lane].pc \in {"load", "request"} \/ task'[Lane] = task[Lane]
  BY <1>6, StartMoves, TasksAreTyped DEF Starts, Only
<1> QED BY <1>1, <1>2, <1>3, <1>4, <1>5, <1>6, LoadMoves DEF Service

\* What the quiet steps of a caller do not change.
LEMMA QuietCallerSpares ==
  ASSUME Types, NEW c \in Callers, Calm(c) \/ Read(c)
  PROVE  /\ Moves(c) /\ task'[Lane] = task[Lane] /\ UNCHANGED <<stored, host, valid>>
         /\ Reading(c)' => task'[c].token = stored
<1>1. Moves(c) /\ UNCHANGED <<stored, host>>
  BY CallerMoves, CallerFrame DEF CallerStep
<1>2. task'[Lane] = task[Lane]
  BY <1>1, TasksAreTyped DEF Moves, Only
<1>3. UNCHANGED valid
  BY DEF Calm, Get, Got, Reload, Refresh, Answer, Reread, Tidied, Restore, Sweep, Read, server
<1>4. Calm(c) => (Reading(c)' => task'[c].token = stored)
  BY CalmMoves DEF Turns, Reading
<1>5. Read(c) => task'[c].token = stored
  BY ReadMoves, TasksAreTyped
<1> QED BY <1>1, <1>2, <1>3, <1>4, <1>5

LEMMA CallersStayCallers ==
  ASSUME Types, QuietStep, \A c \in Callers : task[c].pc \in CallerSteps
  PROVE  \A c \in Callers : task'[c].pc \in CallerSteps
<1>1. ASSUME NEW c \in Callers, Calm(c) \/ Read(c) PROVE \A d \in Callers : task'[d].pc \in CallerSteps
  <2>1. \A d \in Callers \ {c} : task'[d] = task[d]
    BY <1>1, QuietCallerSpares DEF Moves, Only, Actors
  <2>2. task'[c].pc \in CallerSteps
    BY <1>1, CalmMoves, ReadMoves, TasksAreTyped DEF Turns
  <2> QED BY <2>1, <2>2
<1>2. ASSUME NEW c \in Callers, Restart(c) PROVE \A d \in Callers : task'[d].pc \in CallerSteps
  BY <1>2, RestartMoves DEF IdleTask, CallerSteps
<1>3. CASE Works \/ Stops
  BY <1>3 DEF Works, Stops, CallerSteps
<1>4. ASSUME NEW c \in Callers, StartRefresh(c) PROVE \A d \in Callers : task'[d].pc \in CallerSteps
  <2>1. CASE Starts(c)
    BY <2>1 DEF Starts
  <2>2. CASE Only(c) /\ task'[c].pc = "idle"
    BY <2>2 DEF CallerSteps, Only, Actors
  <2> QED BY <1>4, <2>1, <2>2, StartMoves
<1>5. Rotate \/ RefreshRefused \/ Unreachable \/ Load \/ Read(Lane) => Works \/ Stops
  BY RotateMoves, ServiceGoes, ServiceStops, LoadMoves, ServiceReads DEF RefreshRefused, Unreachable, Fail, Steps
<1>6. ASSUME UNCHANGED task PROVE \A d \in Callers : task'[d].pc \in CallerSteps
  BY <1>6
<1> QED BY <1>1, <1>2, <1>3, <1>4, <1>5, <1>6, WriteMoves DEF QuietStep, Service, Lead, Expire, EndGrant

\* The service remembers what it has stored.
LEMMA StoredIsTask ==
  ASSUME Types, ServiceInv, QuietStep, task[Lane].pc = "stored" => stored = task[Lane].token
  PROVE  task'[Lane].pc = "stored" => stored' = task'[Lane].token
<1>1. ASSUME NEW c \in Callers, Calm(c) \/ Read(c) PROVE task'[Lane] = task[Lane] /\ stored' = stored
  BY <1>1, QuietCallerSpares
<1>2. ASSUME NEW c \in Callers, Restart(c)
      PROVE  task'[Lane].pc = "stored" => stored' = task'[Lane].token
  <2>1. stored' = stored
    BY <1>2 DEF Restart
  <2> QED BY <1>2, <2>1, RestartMoves DEF IdleTask
<1>3. ASSUME Service \/ Read(Lane) PROVE task'[Lane].pc = "stored" => stored' = task'[Lane].token
  BY <1>3, ServiceTurns, ServiceFrame
<1>4. ASSUME Write(Lane) PROVE task'[Lane].pc = "stored" => stored' = task'[Lane].token
  BY <1>4, WriteGoes DEF Goes, Store, Stops, IdleTask
<1>5. ASSUME NEW t \in Tabs, Lead(t) PROVE UNCHANGED <<task, stored>>
  BY <1>5 DEF Lead, session
<1>6. ASSUME NEW t \in 1..MaxToken, Expire(t) \/ EndGrant(t) PROVE UNCHANGED <<task, stored>>
  BY <1>6 DEF Expire, EndGrant, session
<1> QED BY <1>1, <1>2, <1>3, <1>4, <1>5, <1>6 DEF QuietStep

LEMMA OnlyServiceIsKept ==
  ASSUME Types, ServiceInv, FlowInv, OnlyService, OAuthNext
  PROVE  OnlyService'
<1> SUFFICES ASSUME Unattended'
             PROVE  (\A c \in Callers : task'[c].pc \in CallerSteps)
                    /\ (task'[Lane].pc = "stored" => stored' = task'[Lane].token)
  BY DEF OnlyService
<1>1. QuietStep /\ (\A c \in Callers : task[c].pc \in CallerSteps)
      /\ (task[Lane].pc = "stored" => stored = task[Lane].token)
  BY QuietNext DEF OnlyService
<1> QED BY <1>1, CallersStayCallers, StoredIsTask

----------------------------------------------------------------------------
(* The secret is listed unless a restoration sweeps the record away *)

LEMMA IdleSpares ==
  ASSUME task'[Lane] = IdleTask, stored' # 0 => row'
  PROVE  SecretIsSpared'
BY DEF SecretIsSpared, IdleTask

LEMMA WriteSpares ==
  ASSUME Types, ServiceInv, SecretIsSpared, Write(Lane)
  PROVE  SecretIsSpared'
<1>0. row \in BOOLEAN /\ task[Lane].existed \in BOOLEAN
  BY TasksAreTyped DEF Types, Doing
<1>1. CASE Stops
  <2>1. stored' # 0 => row'
    <3>1. CASE Resolve(Lane) \/ ResolveFails(Lane) \/ Remember(Lane) \/ Drop(Lane)
      BY <3>1 DEF Resolve, ResolveFails, Remember, Drop, session, SecretIsSpared
    <3>2. CASE Insert(Lane)
      BY <3>2 DEF Insert
    <3>3. CASE Store(Lane)
      BY <3>3 DEF Store, SecretIsSpared
    <3>4. CASE StoreFails(Lane)
      BY <1>0, <3>4 DEF StoreFails, SecretIsSpared
    <3>5. CASE Forget(Lane)
      BY <3>5 DEF Forget, SecretIsSpared
    <3>6. CASE Unlist(Lane)
      BY <3>6 DEF Unlist, SecretIsSpared
    <3> QED BY <3>1, <3>2, <3>3, <3>4, <3>5, <3>6 DEF Write
  <2> QED BY <1>1, <2>1, IdleSpares DEF Stops
<1>2. CASE Resolve(Lane) /\ task'[Lane].existed = row /\ Goes(IF row THEN "store" ELSE "insert")
  BY <1>0, <1>2 DEF Goes, Resolve, session, SecretIsSpared
<1>3. CASE Insert(Lane) /\ task'[Lane].existed = task[Lane].existed /\ Goes("store")
  BY <1>3 DEF Goes, Insert, SecretIsSpared
<1>4. CASE Store(Lane) /\ Goes("stored")
  BY <1>4 DEF Goes, Store, SecretIsSpared
<1>5. CASE Forget(Lane) /\ row /\ Goes("unlist")
  BY <1>5 DEF Goes, Forget, SecretIsSpared
<1>6. CASE Unlist(Lane) /\ Goes("drop")
  BY <1>6 DEF Goes, Unlist, SecretIsSpared
<1> QED BY <1>1, <1>2, <1>3, <1>4, <1>5, <1>6, WriteGoes

LEMMA SameLaneSpares ==
  ASSUME SecretIsSpared, UNCHANGED <<row, stored>>, task'[Lane].pc = task[Lane].pc,
         task'[Lane].existed = task[Lane].existed
  PROVE  SecretIsSpared'
BY DEF SecretIsSpared

\* A restoration that sweeps while there is no secret, and nobody stores one, spares it.
LEMMA SweepSpares ==
  ASSUME Types, SecretIsSpared, NEW c \in Callers, Sweep(c), "swept" \notin races'
  PROVE  SecretIsSpared'
<1>1. task'[Lane] = task[Lane] /\ stored' = stored
  BY QuietCallerSpares DEF Calm
<1>2. stored = 0 /\ task[Lane].pc # "store"
  BY TasksAreTyped DEF Sweep
<1> QED BY <1>1, <1>2 DEF SecretIsSpared

LEMMA SpareIsKept ==
  ASSUME Types, ServiceInv, FlowInv, OnlyService, NotSwept, OAuthNext
  PROVE  NotSwept'
<1> SUFFICES ASSUME Unattended', "swept" \notin races' PROVE SecretIsSpared'
  BY DEF NotSwept
<1>1. QuietStep /\ SecretIsSpared
  BY QuietNext, RacesStay DEF NotSwept
<1>2. ASSUME NEW c \in Callers, Calm(c) \/ Read(c) PROVE SecretIsSpared'
  <2>1. CASE Sweep(c)
    BY <1>1, <2>1, SweepSpares
  <2>2. CASE ~Sweep(c)
    <3>1. UNCHANGED row
      BY <1>2, <2>2 DEF Calm, Get, Got, Reload, Refresh, Answer, Reread, Tidied, Restore, Read, session
    <3>2. task'[Lane] = task[Lane] /\ UNCHANGED stored
      BY <1>2, QuietCallerSpares
    <3> QED BY <1>1, <3>1, <3>2, SameLaneSpares
  <2> QED BY <2>1, <2>2
<1>3. ASSUME NEW c \in Callers, Restart(c) PROVE SecretIsSpared'
  <2>1. UNCHANGED <<row, stored>>
    BY <1>3 DEF Restart
  <2>2. CASE host = In[c]
    BY <1>1, <1>3, <2>1, <2>2, RestartMoves, IdleSpares DEF SecretIsSpared
  <2>3. CASE host # In[c]
    BY <1>1, <1>3, <2>1, <2>3, RestartMoves, SameLaneSpares
  <2> QED BY <2>2, <2>3
<1>4. ASSUME Service \/ Read(Lane) PROVE SecretIsSpared'
  <2>1. UNCHANGED <<row, stored>>
    BY <1>4, ServiceFrame
  <2> QED BY <1>1, <1>4, <2>1, ServiceTurns DEF SecretIsSpared
<1>5. ASSUME NEW t \in Tabs, Lead(t) PROVE SecretIsSpared'
  BY <1>1, <1>5, SameLaneSpares DEF Lead, session
<1>6. ASSUME NEW t \in 1..MaxToken, Expire(t) \/ EndGrant(t) PROVE SecretIsSpared'
  BY <1>1, <1>6, SameLaneSpares DEF Expire, EndGrant, session
<1> QED BY <1>1, <1>2, <1>3, <1>4, <1>5, <1>6, WriteSpares DEF QuietStep

----------------------------------------------------------------------------
(* As long as no tab is reloaded either, and no read was late in the leader's tab *)

\* A copy that is replaced by the stored token set, or removed, is fresh.
LEMMA FreshCopyKeeps ==
  ASSUME Types, LeaderIsFresh, NEW t \in Tabs, NEW token \in {0, stored}, Keep(t, token),
         UNCHANGED <<stored, host>>, task'[Lane].pc = task[Lane].pc \/ task[Lane].pc # "stored"
  PROVE  LeaderIsFresh'
BY DEF Types, LeaderIsFresh, Keep

LEMMA SameCopiesKeep ==
  ASSUME LeaderIsFresh, UNCHANGED <<cached, stored>>, host' = host \/ host = Nothing,
         task'[Lane].pc = task[Lane].pc \/ task[Lane].pc # "stored"
  PROVE  LeaderIsFresh'
BY DEF LeaderIsFresh

\* So is what was read in time.
LEMMA TakenIsFresh ==
  ASSUME Types, ServiceMatches, LeaderIsFresh, ReadersAreFresh, NEW a \in Actors, Take(a), task[a].pc \in Reads,
         "late" \notin races', UNCHANGED <<stored, host>>,
         task'[Lane].pc = task[Lane].pc \/ task[Lane].pc # "stored"
  PROVE  LeaderIsFresh'
<1>1. Place(a) \in Tabs
  BY PlaceIsTab DEF Reads
<1>2. task[a].token \in {0, stored} \/ Place(a) # host
  BY DEF Take
<1>3. host = Nothing => task[a].token = stored
  <2>1. ASSUME host = Nothing PROVE a \in Callers
    BY <2>1 DEF ServiceMatches, Actors, Reads
  <2> QED BY <2>1 DEF ReadersAreFresh, Reading, Take
<1>4. CASE cached' = cached
  BY <1>4, SameCopiesKeep
<1>5. CASE cached' = [cached EXCEPT ![Place(a)] = task[a].token]
  <2>1. CASE task[a].token \in {0, stored}
    BY <1>1, <1>5, <2>1, FreshCopyKeeps DEF Keep
  <2>2. CASE Place(a) # host /\ host # Nothing
    BY <1>1, <1>5, <2>2 DEF LeaderIsFresh, Types
  <2> QED BY <1>2, <1>3, <2>1, <2>2
<1> QED BY <1>4, <1>5 DEF Take

LEMMA CallersStayFresh ==
  ASSUME Types, ServiceMatches, Fresh, NEW c \in Callers, Calm(c) \/ Read(c), "late" \notin races'
  PROVE  Fresh'
<1>1. /\ Moves(c) /\ task'[Lane] = task[Lane] /\ UNCHANGED <<stored, host, valid>>
      /\ Reading(c)' => task'[c].token = stored
  BY QuietCallerSpares
<1>2. c \in Actors /\ In[c] \in Tabs /\ LeaderIsFresh /\ ReadersAreFresh /\ ServiceUsesStored
  BY TasksAreTyped, OAuthAssumption DEF Fresh
<1>3. LeaderIsFresh'
  <2>1. CASE Got(c) \/ Reload(c) \/ Reread(c) \/ Restore(c)
    BY <1>1, <1>2, <2>1, TakenIsFresh DEF Got, Reload, Reread, Restore, Reads
  <2>2. CASE Answer(c)
    BY <1>1, <1>2, <2>2, FreshCopyKeeps DEF Answer
  <2>3. CASE UNCHANGED cached
    BY <1>1, <1>2, <2>3, SameCopiesKeep
  <2> QED BY <2>1, <2>2, <2>3 DEF Calm, Get, Refresh, Tidied, Sweep, Read, session
<1>4. ReadersAreFresh'
  <2>1. \A d \in Callers \ {c} : task'[d] = task[d]
    BY <1>1 DEF Moves, Only, Actors
  <2> QED BY <1>1, <1>2, <2>1 DEF ReadersAreFresh, Reading
<1>5. ServiceUsesStored'
  BY <1>1, <1>2 DEF ServiceUsesStored
<1> QED BY <1>3, <1>4, <1>5 DEF Fresh

\* With a leader the reads of the callers are of no concern.
LEMMA LedIsFresh ==
  ASSUME host' # Nothing, LeaderIsFresh', ServiceUsesStored'
  PROVE  Fresh'
BY DEF Fresh, ReadersAreFresh

LEMMA WritesStayFresh ==
  ASSUME Types, ServiceInv, Fresh, Write(Lane), task[Lane].pc = "stored" => stored = task[Lane].token
  PROVE  Fresh'
<1>1. task[Lane].pc # "idle" /\ UNCHANGED host
  BY WriteFrame, TasksAreTyped
     DEF Write, Resolve, ResolveFails, Insert, Store, Remember, StoreFails, Forget, Unlist, Drop
<1>2. host \in Tabs /\ host # Nothing /\ Place(Lane) = host
  BY <1>1, OAuthAssumption DEF ServiceInv, ServiceMatches, Types, Place
<1>3. LeaderIsFresh /\ ServiceUsesStored /\ 0 \in {0, stored}
  BY DEF Fresh
<1>4. LeaderIsFresh'
  <2>1. CASE Resolve(Lane) \/ ResolveFails(Lane) \/ Insert(Lane) \/ StoreFails(Lane) \/ Unlist(Lane)
    <3>1. UNCHANGED <<cached, stored>> /\ task[Lane].pc # "stored"
      BY <2>1 DEF Resolve, ResolveFails, Insert, StoreFails, Unlist, session
    <3> QED BY <1>1, <1>3, <3>1, SameCopiesKeep
  <2>2. CASE Store(Lane)
    <3>1. task'[Lane].pc = "stored"
      BY <2>2, ServiceGoes DEF Store, Steps
    <3> QED BY <3>1 DEF LeaderIsFresh
  <2>3. CASE Remember(Lane)
    <3>1. Keep(host, stored) /\ stored' = stored
      BY <1>2, <2>3 DEF Remember
    <3>2. cached' = [cached EXCEPT ![host] = stored]
      BY <3>1 DEF Keep
    <3> QED BY <1>1, <1>2, <3>1, <3>2 DEF LeaderIsFresh, Types
  <2>4. CASE Forget(Lane)
    <3>1. UNCHANGED cached /\ (stored' = 0 \/ stored' = stored) /\ task[Lane].pc # "stored"
      BY <2>4 DEF Forget
    <3>2. CASE stored' = 0
      BY <3>2 DEF LeaderIsFresh
    <3>3. CASE stored' = stored
      BY <1>1, <1>3, <3>1, <3>3, SameCopiesKeep
    <3> QED BY <3>1, <3>2, <3>3
  <2>5. CASE Drop(Lane)
    <3>1. Keep(host, 0) /\ stored' = stored /\ task[Lane].pc # "stored"
      BY <1>2, <2>5 DEF Drop
    <3> QED BY <1>1, <1>2, <1>3, <3>1, FreshCopyKeeps
  <2> QED BY <2>1, <2>2, <2>3, <2>4, <2>5 DEF Write
<1>5. task'[Lane].pc \in {"idle", "store", "insert", "stored", "unlist", "drop"}
  BY WriteGoes DEF Goes, Stops, IdleTask
<1>6. ServiceUsesStored'
  BY <1>5 DEF ServiceUsesStored
<1> QED BY <1>1, <1>2, <1>4, <1>6, LedIsFresh

LEMMA ServiceStaysFresh ==
  ASSUME Types, ServiceInv, Fresh, Service \/ Read(Lane), "late" \notin races'
  PROVE  Fresh'
<1>1. host # Nothing /\ UNCHANGED <<host, stored>>
  <2>1. CASE task[Lane].pc # "idle"
    BY <2>1, ServiceFrame DEF ServiceInv, ServiceMatches
  <2>2. CASE task[Lane].pc = "idle"
    BY <2>2, ServiceFrame DEF Service, StartRefresh, Load, Rotate, RefreshRefused, Unreachable, Read, Reads
  <2> QED BY <2>1, <2>2
<1>2. LeaderIsFresh /\ ReadersAreFresh /\ ServiceUsesStored /\ Lane \in Actors /\ ServiceMatches
  BY TasksAreTyped DEF Fresh, ServiceInv
<1>3. CASE Rotate \/ Unreachable
  <2>1. UNCHANGED cached /\ task[Lane].pc = "request"
    BY <1>3 DEF Rotate, Unreachable, session
  <2>2. task'[Lane].pc \in {"resolve", "idle"}
    BY <1>3, RotateMoves, ServiceStops DEF Unreachable, Fail, Stops, IdleTask
  <2>3. LeaderIsFresh'
    BY <1>1, <1>2, <2>1, SameCopiesKeep
  <2>4. ServiceUsesStored'
    BY <2>2 DEF ServiceUsesStored
  <2> QED BY <1>1, <2>3, <2>4, LedIsFresh
<1>4. CASE RefreshRefused
  <2>1. UNCHANGED <<cached, valid>> /\ task[Lane].pc = "request" /\ task[Lane].token \notin valid
    BY <1>4 DEF RefreshRefused, session, server
  <2>2. task'[Lane].token = task[Lane].token
    BY <1>4, ServiceGoes DEF RefreshRefused, Steps
  <2>3. LeaderIsFresh'
    BY <1>1, <1>2, <2>1, SameCopiesKeep
  <2>4. ServiceUsesStored'
    BY <1>1, <1>2, <2>1, <2>2 DEF ServiceUsesStored
  <2> QED BY <1>1, <2>3, <2>4, LedIsFresh
<1>5. ASSUME NEW c \in Callers, StartRefresh(c) PROVE Fresh'
  <2>1. host \in Tabs /\ UNCHANGED <<cached, valid>> /\ task[Lane].pc = "idle"
    BY <1>5 DEF StartRefresh, Types, session, server
  <2>2. LeaderIsFresh'
    BY <1>1, <1>2, <2>1, SameCopiesKeep
  <2>3. CASE Starts(c)
    <3>1. cached[host] \in {0, stored} \/ stored = 0
      BY <1>2, <2>1 DEF LeaderIsFresh
    <3>2. task'[Lane].pc = "request" /\ stored # 0 => task'[Lane].token = stored
      BY <2>3, <3>1 DEF Starts
    <3>3. task'[Lane].pc # "forget"
      BY <2>3 DEF Starts
    <3>4. ServiceUsesStored'
      BY <1>1, <3>2, <3>3 DEF ServiceUsesStored
    <3> QED BY <1>1, <2>2, <3>4, LedIsFresh
  <2>4. CASE Only(c)
    <3>1. task'[Lane] = task[Lane]
      BY <2>4, TasksAreTyped DEF Only
    <3>2. ServiceUsesStored'
      BY <1>1, <1>2, <2>1, <3>1 DEF ServiceUsesStored
    <3> QED BY <1>1, <2>2, <3>2, LedIsFresh
  <2> QED BY <1>5, <2>3, <2>4, StartMoves
<1>6. CASE Load
  <2>1. task[Lane].pc = "load" /\ Take(Lane)
    BY <1>6 DEF Load
  <2>2. LeaderIsFresh'
    BY <1>1, <1>2, <2>1, TakenIsFresh DEF Reads
  <2>3. task[Lane].token \in {0, stored}
    BY <1>1, <2>1 DEF Take, Place
  <2>4. task'[Lane].pc = "idle" \/ (task'[Lane].pc = "request" /\ task'[Lane].token = stored)
    BY <1>6, <2>3, LoadMoves DEF Stops, IdleTask
  <2>5. ServiceUsesStored'
    BY <1>1, <2>4 DEF ServiceUsesStored
  <2> QED BY <1>1, <2>2, <2>5, LedIsFresh
<1>7. CASE Read(Lane)
  <2>1. UNCHANGED cached /\ task'[Lane].pc = task[Lane].pc /\ task[Lane].pc \in Reads
    BY <1>7, ServiceReads DEF Read, session
  <2>2. LeaderIsFresh'
    BY <1>1, <1>2, <2>1, SameCopiesKeep
  <2>3. ServiceUsesStored'
    BY <2>1 DEF ServiceUsesStored, Reads
  <2> QED BY <1>1, <2>2, <2>3, LedIsFresh
<1> QED BY <1>3, <1>4, <1>5, <1>6, <1>7 DEF Service

LEMMA UndisturbedIsKept ==
  ASSUME Types, ServiceInv, FlowInv, OnlyService, NotReloaded, OAuthNext
  PROVE  NotReloaded'
<1> SUFFICES ASSUME Unattended', spending'["reload"] = 0, "late" \notin races' PROVE Fresh'
  BY DEF NotReloaded, Undisturbed
<1>1. QuietStep /\ Fresh /\ (task[Lane].pc = "stored" => stored = task[Lane].token)
  BY QuietNext, SpentStays, RacesStay DEF OnlyService, NotReloaded, Undisturbed
<1>2. ASSUME NEW c \in Callers PROVE ~Restart(c)
  BY SpendIsTyped DEF Restart
<1>3. ASSUME NEW c \in Callers, Calm(c) \/ Read(c) PROVE Fresh'
  BY <1>1, <1>3, CallersStayFresh DEF ServiceInv
<1>4. ASSUME NEW t \in Tabs, Lead(t) PROVE Fresh'
  <2>1. UNCHANGED <<cached, stored, task, valid>> /\ host = Nothing /\ host' # Nothing
    BY <1>4, OAuthAssumption DEF Lead, session, server
  <2>2. LeaderIsFresh'
    BY <1>1, <2>1, SameCopiesKeep DEF Fresh
  <2>3. ServiceUsesStored'
    BY <1>1, <2>1 DEF Fresh, ServiceUsesStored
  <2> QED BY <2>1, <2>2, <2>3, LedIsFresh
<1>5. ASSUME NEW t \in 1..MaxToken, Expire(t) \/ EndGrant(t) PROVE Fresh'
  <2>1. UNCHANGED <<cached, stored, host, task>> /\ valid' \subseteq valid
    BY <1>5 DEF Expire, EndGrant, session
  <2>2. LeaderIsFresh'
    BY <1>1, <2>1, SameCopiesKeep DEF Fresh
  <2>3. ReadersAreFresh' /\ ServiceUsesStored'
    BY <1>1, <2>1 DEF Fresh, ReadersAreFresh, Reading, ServiceUsesStored
  <2> QED BY <2>2, <2>3 DEF Fresh
<1> QED BY <1>1, <1>2, <1>3, <1>4, <1>5, WritesStayFresh, ServiceStaysFresh DEF QuietStep

----------------------------------------------------------------------------
(* The theorems *)

LEMMA OAuthStarts ==
  ASSUME OAuthInit
  PROVE  OAuthInv
<1>1. Types
  <2>1. 0 \in 0..MaxToken /\ 1 \in 0..MaxToken /\ stored \in {0, 1} /\ DOMAIN task = Actors
    BY OAuthAssumption DEF OAuthInit
  <2>2. TaskTypes
    BY IdleIsTyped DEF OAuthInit, TaskTypes
  <2>3. PendingTypes
    BY DEF OAuthInit, PendingTypes, Entries
  <2>4. SessionTypes /\ ServerTypes /\ NoteTypes /\ HostTypes
    BY <2>1 DEF OAuthInit, SessionTypes, ServerTypes, NoteTypes, HostTypes
  <2> QED BY <2>2, <2>3, <2>4, TypesInParts
<1>2. \A a \in Actors : task[a] = IdleTask
  BY DEF OAuthInit
<1>3. Lane \in Actors /\ Callers \subseteq Actors
  BY DEF Actors
<1>4. ServiceMatches /\ ServiceKeepsShape
  BY <1>2, <1>3 DEF ServiceMatches, ServiceKeepsShape, ServiceSteps, Writing, IdleTask
<1>5. FlowInv
  <2>1. \A f \in Flows : ~pending[f].used /\ ~pending[f].row /\ ~pending[f].secret /\ pending[f].remover = Nothing
    BY DEF OAuthInit
  <2>2. \A c \in Callers : task[c].flow = Nothing /\ task[c].pc = "idle"
    BY <1>2, <1>3 DEF IdleTask
  <2> QED BY <2>1, <2>2, OAuthAssumption DEF FlowInv, UnusedIsEmpty, FlowsAreKnown, FlowSteps, BegunIsOwn, Owns, VerifierIsListed
<1>6. OnlyService /\ NotSwept
  BY <1>2, <1>3 DEF OAuthInit, OnlyService, CallerSteps, NotSwept, SecretIsSpared, IdleTask
<1>7. LeaderIsFresh /\ ReadersAreFresh /\ ServiceUsesStored
  BY <1>2, <1>3 DEF OAuthInit, LeaderIsFresh, ReadersAreFresh, Reading, ServiceUsesStored, IdleTask
<1> QED BY <1>1, <1>4, <1>5, <1>6, <1>7 DEF OAuthInv, NotReloaded, Fresh

LEMMA OAuthStutters == OAuthInv /\ UNCHANGED oauthVars => OAuthInv'
BY DEF OAuthInv, oauthVars, session, server, Types, ServiceMatches, ServiceKeepsShape, FlowInv, UnusedIsEmpty,
       FlowsAreKnown, BegunIsOwn, Owns, VerifierIsListed, OnlyService, Unattended, NotSwept, SecretIsSpared, NotReloaded,
       Undisturbed, Fresh, LeaderIsFresh, ReadersAreFresh, Reading, ServiceUsesStored

LEMMA OAuthSteps == OAuthInv /\ OAuthNext => OAuthInv'
<1> SUFFICES ASSUME OAuthInv, OAuthNext PROVE OAuthInv'
  OBVIOUS
<1>1. Types /\ ServiceInv /\ FlowInv /\ OnlyService /\ NotSwept /\ NotReloaded /\ ServiceMatches
  BY DEF OAuthInv, ServiceInv
<1>2. Types'
  BY <1>1, CallerTypes, FlowTypes, ReadTypes, WriteTypes, ServiceTypes, OtherTypes, NextInGroups, TasksAreTyped
<1>3. ServiceInv' /\ FlowInv' /\ OnlyService' /\ NotSwept' /\ NotReloaded'
  BY <1>1, ServiceIsKept, FlowsAreKept, OnlyServiceIsKept, SpareIsKept, UndisturbedIsKept
<1> QED BY <1>2, <1>3 DEF OAuthInv, ServiceInv

\* The variables keep their types, and the refresh service works only in a leader, for a caller
\* that waits for it.
THEOREM OAuthTypeCorrect == OAuthSpec => []OAuthTypeOK
<1>1. OAuthInit => OAuthInv
  BY OAuthStarts
<1>2. OAuthInv /\ [OAuthNext]_oauthVars => OAuthInv'
  BY OAuthSteps, OAuthStutters
<1>3. OAuthInv => OAuthTypeOK
  BY DEF OAuthInv, OAuthTypeOK
<1> QED BY <1>1, <1>2, <1>3, PTL DEF OAuthSpec

\* Whatever fails, is reloaded or interleaves, a verifier is found by its pending record, and
\* the secret by the session record as long as nobody signs in or out and no restoration has
\* swept the record away while the secret was written.
THEOREM StorageListed == OAuthSpec => []StorageIsListed
<1>1. OAuthInit => OAuthInv
  BY OAuthStarts
<1>2. OAuthInv /\ [OAuthNext]_oauthVars => OAuthInv'
  BY OAuthSteps, OAuthStutters
<1>3. OAuthInv => StorageIsListed
  BY DEF OAuthInv, FlowInv, NotSwept, SecretIsSpared, StorageIsListed, SecretIsListed
<1> QED BY <1>1, <1>2, <1>3, PTL DEF OAuthSpec

\* The secret goes only after the server has refused its token set.
LEMMA ForgetsRefused ==
  ASSUME OAuthInv, OAuthNext, Undisturbed, stored # 0, stored' = 0
  PROVE  stored \notin valid
<1>1. PICK a \in Actors : Store(a) \/ Forget(a)
  <2>1. ASSUME NEW c \in Callers, Restart(c) PROVE UNCHANGED stored
    BY <2>1 DEF Restart
  <2>2. ASSUME NEW a \in Actors, Write(a) PROVE UNCHANGED stored \/ Store(a) \/ Forget(a)
    BY <2>2 DEF Write, Resolve, ResolveFails, Insert, Remember, StoreFails, Unlist, Drop, session
  <2>3. ASSUME NEW c \in Callers, FlowStep(c) PROVE UNCHANGED stored
    BY <2>3, FlowFrame DEF session
  <2> QED BY <2>1, <2>2, <2>3, NextInGroups, CallerFrame, ServiceFrame DEF RemovePending, Lead, Expire, EndGrant, session
<1>2. a = Lane
  BY <1>1 DEF OAuthInv, OnlyService, Undisturbed, CallerSteps, Store, Forget, Actors
<1>3. task[Lane].pc # "store"
  BY <1>1, <1>2 DEF OAuthInv, ServiceKeepsShape, Writing, Store, Forget
<1>4. task[Lane].pc = "forget"
  BY <1>1, <1>2, <1>3 DEF Store, Forget
<1> QED BY <1>4 DEF OAuthInv, NotReloaded, Fresh, ServiceUsesStored

\* However many tabs and calls refresh and fail, no session is given up that the server would
\* still accept, as long as no tab is reloaded, nobody signs in or out, and no read of the secret
\* is late in the leader's tab.
THEOREM LiveSessionStays == OAuthSpec => LiveSessionIsKept
<1>1. OAuthInit => OAuthInv
  BY OAuthStarts
<1>2. OAuthInv /\ [OAuthNext]_oauthVars => OAuthInv'
  BY OAuthSteps, OAuthStutters
<1>3. OAuthInv /\ [OAuthNext]_oauthVars
      => [Unattended /\ spending["reload"] = 0 /\ "late" \notin races /\ stored # 0 /\ stored' = 0
            => stored \notin valid]_oauthVars
  BY ForgetsRefused DEF Undisturbed
<1> QED BY <1>1, <1>2, <1>3, PTL DEF OAuthSpec, LiveSessionIsKept

=============================================================================
