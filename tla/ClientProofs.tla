----------------------------- MODULE ClientProofs -----------------------------
(***************************************************************************)
(* What holds of what a client keeps beside its outbox: of Connections for *)
(* any contexts, callers, settings and bound, of LiveOntology for any      *)
(* number of collections, readers and calls, and of Projections for any    *)
(* entries, whichever of them change something.                            *)
(***************************************************************************)
EXTENDS Connections, LiveOntology, Projections, FiniteSetTheorems, SequenceTheorems, WellFoundedInduction, TLAPS

----------------------------------------------------------------------------
(* Connections: the inductive invariant *)

Tasks == [pc : Steps, to : Statuses, previous : 0..MaxSession, new : 0..MaxSession]
RollsBack(a) == task[a].pc = "rollback"
StartSteps == {"idle", "established", "writing", "settle", "rollback"}

\* What is used belongs to a context that takes part, and callers wait for their manager to start.
Placed ==
  /\ \A c \in Contexts : open[c] # "closed" => c \in setting.contexts
  /\ \A a \in Actors : task[a].pc # "idle" => Place(a) \in setting.contexts
  /\ \A c \in Contexts : open[c] = "starting" => task[c].pc \in StartSteps
  /\ \A a \in Callers : open[At[a]] = "starting" => task[a].pc = "idle"

\* An operation that decides on the record ends a connection.
NoneActivates == \A a \in Actors : task[a].to # "active"

\* A write that is under way is awaited by one operation of its context, or by a page that is gone.
Queued ==
  \A c \in Contexts : \A i \in DOMAIN queue[c] :
    /\ c \in setting.contexts
    /\ queue[c][i].by # Nobody =>
         /\ Place(queue[c][i].by) = c /\ task[queue[c][i].by].pc = "writing"
         /\ \A j \in DOMAIN queue[c] : queue[c][j].by = queue[c][i].by => j = i

\* A session is held by the context it was made in, and only an operation that writes or has written it holds any.
Owned ==
  /\ \A c \in Contexts : session[c] # 0 => made[session[c]] = c
  /\ \A a \in Actors : task[a].previous # 0 => made[task[a].previous] = Place(a)
  /\ \A a \in Actors : task[a].new # 0 => made[task[a].new] = Place(a)
  /\ \A a \in Actors : task[a].new # 0 => task[a].pc \in {"writing", "settle", "rollback"}
  /\ \A a \in Actors : task[a].new = 0 => task[a].previous = 0
  /\ spent["fault"] = 0 => \A a \in Actors : ~RollsBack(a)

\* While one write at most has failed: no session that is used, will be cleaned up or may be put back has
\* a second owner.  Any write may still be the first to fail.
Exclusive ==
  spent["fault"] <= 1 =>
    /\ \A c \in Contexts : session[c] \notin cleaned
    /\ \A a \in Actors, c \in Contexts : task[a].previous # 0 => task[a].previous # session[c]
    /\ \A a, b \in Actors : RollsBack(a) /\ RollsBack(b) => a = b
    /\ \A a \in Actors : (RollsBack(a) \/ spent["fault"] = 0) /\ task[a].previous # 0 =>
         /\ task[a].previous \notin cleaned /\ task[a].previous # task[a].new
         /\ \A b \in Actors : b # a => task[a].previous # task[b].previous

\* While none has failed: a session is in use, was cleaned up, or is about to be.
Accounted ==
  spent["fault"] = 0 =>
    \A h \in 1..MaxSession, c \in Contexts : made[h] = c =>
      h \in cleaned \/ h = session[c] \/ \E a \in Actors : Place(a) = c /\ h = task[a].previous

\* The manager that starts keeps the session that it has restored.
Restored ==
  spent["fault"] = 0 => \A c \in Contexts : open[c] = "starting" /\ task[c].new # 0 => session[c] # 0

\* A manager has a session, is gone, or starts and has not found that it restores none.
Refrains(c) == task[c].pc \in {"writing", "settle"} /\ task[c].new = 0
Attended(c) == session[c] # 0 \/ open[c] = "closed" \/ (open[c] = "starting" /\ ~Refrains(c))
Decides(a) == task[a].pc = "write"
EndsAfter(c, i) == \E j \in DOMAIN queue[c] : i < j /\ queue[c][j].to # "active"

\* An active record, and one that is being written, have a manager that attends to them, or will be ended.
RecordAttended ==
  status = "active" =>
    \/ \E c \in setting.contexts : Attended(c)
    \/ \E a \in Actors : Decides(a)
    \/ \E c \in Contexts : EndsAfter(c, 0)
WritesAttended ==
  \A c \in Contexts : \A i \in DOMAIN queue[c] : queue[c][i].to = "active" =>
    Attended(c) \/ EndsAfter(c, i) \/ \E a \in Actors : Place(a) = c /\ Decides(a)
Usable == spent["fault"] = 0 /\ ~missed => RecordAttended /\ WritesAttended

Inv == Types /\ Placed /\ NoneActivates /\ Queued /\ Owned /\ Exclusive /\ Accounted /\ Restored /\ Usable

----------------------------------------------------------------------------
(* What the steps are made of *)

LEMMA PlaceTypes ==
  /\ \A a \in Actors : Place(a) \in Contexts
  /\ \A c \in Contexts : c \in Actors /\ Place(c) = c
  /\ Nobody \notin Actors
  BY PlacesAssumption DEF Actors, Place

LEMMA IdleTypes == Idle \in Tasks /\ Idle.pc = "idle" /\ Idle.previous = 0 /\ Idle.new = 0 /\ Idle.to # "active"
  BY SessionAssumption DEF Idle, Tasks, Steps, Statuses

TaskTypes == task \in [Actors -> Tasks]

\* One task goes on: its step changes, and what it is about may.
LEMMA GoEffect ==
  ASSUME TaskTypes, NEW a \in Actors, NEW pc \in Steps, Go(a, pc)
  PROVE  /\ TaskTypes' /\ \A b \in Actors : b # a => task'[b] = task[b]
         /\ task'[a].pc = pc /\ task'[a].previous = task[a].previous /\ task'[a].new = task[a].new
         /\ task'[a].to = task[a].to
<1>1. task' = [task EXCEPT ![a] = [task[a] EXCEPT !.pc = pc]]
  BY DEF Go
<1>2. task[a] \in Tasks
  BY DEF TaskTypes
<1>3. [task[a] EXCEPT !.pc = pc] \in Tasks
  BY <1>2 DEF Tasks
<1> QED BY <1>1, <1>2, <1>3 DEF TaskTypes, Tasks

LEMMA GoToEffect ==
  ASSUME TaskTypes, NEW a \in Actors, NEW pc \in Steps, NEW to \in Statuses, GoTo(a, pc, to)
  PROVE  /\ TaskTypes' /\ \A b \in Actors : b # a => task'[b] = task[b]
         /\ task'[a].pc = pc /\ task'[a].previous = task[a].previous /\ task'[a].new = task[a].new
         /\ task'[a].to = to
<1> DEFINE t == [task[a] EXCEPT !.pc = pc, !.to = to]
<1>1. task[a] \in Tasks
  BY DEF TaskTypes
<1>2. t \in Tasks /\ t.pc = pc /\ t.previous = task[a].previous /\ t.new = task[a].new /\ t.to = to
  BY <1>1 DEF Tasks
<1>3. task' = [task EXCEPT ![a] = t]
  BY DEF GoTo, TaskTypes
<1> HIDE DEF t
<1> QED BY <1>2, <1>3 DEF TaskTypes

LEMMA DoneEffect ==
  ASSUME TaskTypes, NEW a \in Actors, Done(a)
  PROVE  /\ TaskTypes' /\ (\A b \in Actors : b # a => task'[b] = task[b])
         /\ task'[a].pc = "idle" /\ task'[a].previous = 0 /\ task'[a].new = 0
         /\ task'[a].to # "active"
<1>1. task' = [task EXCEPT ![a] = Idle]
  BY DEF Done
<1> QED BY <1>1, IdleTypes DEF TaskTypes

SpentTypes == spent \in [Kinds -> Nat]

\* Only a fault counts as one.
LEMMA SpendEffect ==
  ASSUME SpentTypes, NEW kind \in Kinds, Spend(kind)
  PROVE  SpentTypes' /\ spent'["fault"] = IF kind = "fault" THEN spent["fault"] + 1 ELSE spent["fault"]
<1>1. spent' = [spent EXCEPT ![kind] = spent[kind] + 1] /\ spent[kind] \in Nat /\ "fault" \in Kinds
  BY DEF Spend, SpentTypes, Kinds
<1> QED BY <1>1 DEF SpentTypes

RecordTypes ==
  /\ status \in Statuses /\ due \in {"no", "refresh", "over"}
  /\ queue \in [Contexts -> Seq(RecordWrites)] /\ missed \in BOOLEAN
SessionTypes ==
  /\ made \in [1..MaxSession -> Contexts \cup {Nobody}] /\ cleaned \subseteq 1..MaxSession
  /\ session \in [Contexts -> 0..MaxSession]
OpenTypes == open \in [Contexts -> {"starting", "open", "closed"}]
OtherTypes == setting \in Settings /\ kept \in BOOLEAN /\ leader \in Contexts \cup {Nobody}

LEMMA TypesParts == Types <=> RecordTypes /\ SessionTypes /\ OpenTypes /\ OtherTypes /\ TaskTypes /\ SpentTypes
  BY DEF Types, RecordTypes, SessionTypes, OpenTypes, OtherTypes, TaskTypes, SpentTypes, Tasks

LEMMA InvTypes ==
  ASSUME Inv
  PROVE  /\ RecordTypes /\ SessionTypes /\ OpenTypes /\ OtherTypes /\ TaskTypes /\ SpentTypes
         /\ \A c \in Contexts : session[c] \in 0..MaxSession
         /\ \A a \in Actors : task[a].previous \in 0..MaxSession /\ task[a].new \in 0..MaxSession
         /\ 0 \notin cleaned /\ spent["fault"] \in Nat /\ setting.contexts \subseteq Contexts
<1>1. RecordTypes /\ SessionTypes /\ OpenTypes /\ OtherTypes /\ TaskTypes /\ SpentTypes
  BY TypesParts DEF Inv
<1>2. setting.contexts \subseteq Contexts
  BY <1>1, SettingsAssumption DEF OtherTypes
<1> QED BY <1>1, <1>2, SessionAssumption DEF SessionTypes, TaskTypes, Tasks, SpentTypes, Kinds

LEMMA EntryTypes ==
  ASSUME Inv, NEW c \in Contexts
  PROVE  /\ queue[c] \in Seq(RecordWrites) /\ DOMAIN queue[c] = 1..Len(queue[c]) /\ Len(queue[c]) \in Nat
         /\ \A i \in DOMAIN queue[c] : queue[c][i] \in RecordWrites /\ queue[c][i].by \in Actors \cup {Nobody}
<1>1. queue[c] \in Seq(RecordWrites)
  BY InvTypes DEF RecordTypes
<1>2. \A i \in DOMAIN queue[c] : queue[c][i] \in RecordWrites
  BY <1>1
<1>3. \A w \in RecordWrites : w.by \in Actors \cup {Nobody}
  BY DEF RecordWrites
<1> QED BY <1>1, <1>2, <1>3

\* A manager that starts is waited for, except by its own start.
Begun(a) == open[Place(a)] # "starting"

LEMMA WorksWhenBegun ==
  ASSUME Placed, NEW a \in Actors, task[a].pc \notin StartSteps
  PROVE  Begun(a) /\ Place(a) \in setting.contexts
  BY PlaceTypes DEF Placed, Begun, Actors, Place, StartSteps

LEMMA SpendGrows ==
  ASSUME Inv, UNCHANGED spent \/ \E kind \in Kinds : Spend(kind)
  PROVE  SpentTypes' /\ spent'["fault"] \in Nat /\ spent'["fault"] >= spent["fault"]
<1>1. SpentTypes /\ spent["fault"] \in Nat
  BY InvTypes
<1>2. CASE UNCHANGED spent
  BY <1>1, <1>2 DEF SpentTypes
<1>3. CASE \E kind \in Kinds : Spend(kind)
  BY <1>1, <1>3, SpendEffect
<1> QED BY <1>2, <1>3

----------------------------------------------------------------------------
(* What steps leave alone *)

\* The operations hold the same sessions, and none has begun to roll back.
HoldTheSame ==
  \A a \in Actors : /\ task'[a].previous = task[a].previous /\ task'[a].new = task[a].new
                    /\ task'[a].pc = "rollback" => task[a].pc = "rollback"
                    /\ task[a].new # 0 => task'[a].pc \in {"writing", "settle", "rollback"}

LEMMA SessionsStay ==
  ASSUME Inv, HoldTheSame, UNCHANGED sessions, spent'["fault"] \in Nat, spent'["fault"] >= spent["fault"]
  PROVE  Owned' /\ Exclusive' /\ Accounted'
<1>1. UNCHANGED <<session, made, cleaned>>
  BY DEF sessions
<1>2. spent["fault"] \in Nat
  BY InvTypes
<1>3. Owned'
  BY <1>1, <1>2 DEF Inv, Owned, RollsBack, HoldTheSame
<1>4. Exclusive'
  BY <1>1, <1>2 DEF Inv, Exclusive, RollsBack, HoldTheSame
<1>5. Accounted'
  BY <1>1, <1>2 DEF Inv, Accounted, HoldTheSame
<1> QED BY <1>3, <1>4, <1>5

\* A manager that starts keeps its session, unless it gives up what it has made.
LEMMA RestoredStays ==
  ASSUME Inv, spent'["fault"] \in Nat, spent'["fault"] >= spent["fault"],
         \A c \in Contexts : /\ open'[c] = "starting" => open[c] = "starting" /\ session'[c] = session[c]
                             /\ task'[c].new # 0 => task[c].new # 0
  PROVE  Restored'
<1>1. spent["fault"] \in Nat
  BY InvTypes
<1> QED BY <1>1 DEF Inv, Restored

\* The writes under way stay awaited as long as nobody stops waiting.
LEMMA QueueStays ==
  ASSUME Inv, UNCHANGED <<setting, queue>>, \A a \in Actors : task[a].pc = "writing" => task'[a].pc = "writing"
  PROVE  Queued'
<1>1. \A c \in Contexts : \A i \in DOMAIN queue[c] : queue[c][i].by # Nobody => queue[c][i].by \in Actors
  BY EntryTypes
<1> QED BY <1>1 DEF Inv, Queued

\* An active record stays attended to while managers keep their sessions and operations still decide.
LEMMA UsableStays ==
  ASSUME Inv, UNCHANGED <<setting, queue, missed>>, spent'["fault"] \in Nat, spent'["fault"] >= spent["fault"],
         status' # "active" \/ status = "active",
         \A c \in Contexts : Attended(c) => Attended(c)',
         \A a \in Actors : Decides(a) => Decides(a)'
  PROVE  Usable'
<1>1. spent["fault"] \in Nat /\ setting.contexts \subseteq Contexts
  BY InvTypes
<1>2. SUFFICES ASSUME spent["fault"] = 0, ~missed
      PROVE  RecordAttended' /\ WritesAttended'
  BY <1>1 DEF Usable
<1>3. RecordAttended /\ WritesAttended
  BY <1>2 DEF Inv, Usable
<1>4. \A c \in Contexts, i \in Nat : EndsAfter(c, i)' <=> EndsAfter(c, i)
  BY DEF EndsAfter
<1>5. RecordAttended'
  BY <1>1, <1>3, <1>4 DEF RecordAttended
<1>6. \A c \in Contexts : DOMAIN queue[c] \subseteq Nat
  BY EntryTypes
<1>7. WritesAttended'
  BY <1>3, <1>4, <1>6 DEF WritesAttended
<1> QED BY <1>5, <1>7

----------------------------------------------------------------------------
(* Calls, answers and refreshes *)

\* The task of a moves between steps that hold no session and await no write.
Moves(a) ==
  /\ TaskTypes' /\ \A b \in Actors : b # a => task'[b] = task[b]
  /\ task[a].pc \notin {"writing", "settle", "rollback", "write"} /\ task'[a].pc \notin {"writing", "settle", "rollback"}
  /\ task'[a].previous = 0 /\ task'[a].new = 0 /\ task'[a].to # "active"
  /\ \/ task'[a].pc = "idle"
     \/ Begun(a) /\ Place(a) \in setting.contexts
     \/ task'[a].pc = "established" /\ a \in Contexts /\ a \in setting.contexts

\* What Moves asks for, by how a task goes on.
LEMMA GoMoves ==
  ASSUME Inv, NEW a \in Actors, NEW pc \in Steps \ {"writing", "settle", "rollback"}, Go(a, pc),
         task[a].pc \notin {"writing", "settle", "rollback", "write"},
         (Begun(a) /\ Place(a) \in setting.contexts) \/ (pc = "established" /\ a \in Contexts /\ a \in setting.contexts)
  PROVE  Moves(a)
<1>1. TaskTypes /\ task[a].previous = 0 /\ task[a].new = 0 /\ task[a].to # "active"
  BY InvTypes DEF Inv, Owned, NoneActivates
<1> QED BY <1>1, GoEffect DEF Moves

LEMMA GoToMoves ==
  ASSUME Inv, NEW a \in Actors, NEW pc \in Steps \ {"writing", "settle", "rollback"}, NEW to \in Statuses \ {"active"},
         GoTo(a, pc, to), task[a].pc \notin {"writing", "settle", "rollback", "write"},
         Begun(a), Place(a) \in setting.contexts
  PROVE  Moves(a)
<1>1. TaskTypes /\ task[a].previous = 0 /\ task[a].new = 0
  BY InvTypes DEF Inv, Owned
<1> QED BY <1>1, GoToEffect DEF Moves

LEMMA DoneMoves ==
  ASSUME Inv, NEW a \in Actors, Done(a), task[a].pc \notin {"writing", "settle", "rollback", "write"}
  PROVE  Moves(a)
  BY InvTypes, DoneEffect DEF Moves

LEMMA ReadyMoves ==
  ASSUME Inv, NEW a \in Actors, Ready(a)
  PROVE  Begun(a) /\ Place(a) \in setting.contexts /\ task[a].pc = "idle"
  BY PlaceTypes DEF Inv, Placed, Ready, Begun

\* A step of one operation that leaves the record and the sessions alone.
LEMMA QuietStep ==
  ASSUME Inv, NEW a \in Actors, Moves(a), UNCHANGED <<setting, record, sessions, open, leader>>,
         kept' \in BOOLEAN, SpentTypes', spent'["fault"] \in Nat, spent'["fault"] >= spent["fault"]
  PROVE  Inv'
<1>1. Types'
  BY TypesParts DEF Inv, Types, record, sessions, Moves, TaskTypes, SpentTypes, Tasks
<1>2. task[a].previous = 0 /\ task[a].new = 0
  BY DEF Inv, Owned, Moves
<1>3. UNCHANGED <<status, queue, missed, session>>
  BY DEF record, sessions
<1>4. Placed'
  <2>1. \A c \in Contexts : open'[c] # "closed" => c \in setting'.contexts
    BY DEF Inv, Placed
  <2>2. \A b \in Actors : task'[b].pc # "idle" => Place(b) \in setting'.contexts
    BY PlaceTypes DEF Inv, Placed, Moves
  <2>3. \A c \in Contexts : open'[c] = "starting" => task'[c].pc \in StartSteps
    BY PlaceTypes DEF Inv, Placed, Moves, Begun, StartSteps
  <2>4. \A b \in Callers : open'[At[b]] = "starting" => task'[b].pc = "idle"
    BY PlacesAssumption DEF Inv, Placed, Moves, Begun, Place, Actors
  <2> QED BY <2>1, <2>2, <2>3, <2>4 DEF Placed
<1>5. NoneActivates'
  BY DEF Inv, NoneActivates, Moves
<1>6. Queued'
  BY <1>3, QueueStays DEF Moves
<1>7. HoldTheSame
  BY <1>2 DEF HoldTheSame, Moves, Inv, Owned
<1>8. Restored'
  BY <1>2, <1>3, RestoredStays, PlaceTypes DEF Moves
<1>9. \A c \in Contexts : Attended(c) => Attended(c)'
  BY <1>3, PlaceTypes DEF Attended, Refrains, Moves
<1>10. Usable'
  BY <1>3, <1>9, UsableStays DEF Decides, Moves
<1> QED BY <1>1, <1>4, <1>5, <1>6, <1>7, <1>8, <1>10, SessionsStay DEF Inv

LEMMA CallKeeps ==
  ASSUME Inv, NEW a \in setting.callers, Calls(a), UNCHANGED setting
  PROVE  Inv'
<1>0. a \in Callers
  BY InvTypes, SettingsAssumption DEF OtherTypes
<1>1. a \in Actors /\ Ready(a) /\ UNCHANGED <<record, sessions, leader, open, spent>> /\ kept' \in BOOLEAN
  BY <1>0, InvTypes DEF OtherTypes, Actors, Calls, SignIn, Send, SignOut
<1>2. Moves(a)
  <2>1. CASE SignIn(a) \/ Send(a)
    BY <1>1, <2>1, ReadyMoves, GoMoves DEF SignIn, Send, Steps
  <2>2. ASSUME NEW to \in {"inactive", "absent"}, SignOut(a, to)
        PROVE  Moves(a)
    <3> DEFINE pc == IF session[Place(a)] = 0 THEN "release" ELSE "sign-out"
    <3>1. pc \in Steps \ {"writing", "settle", "rollback"} /\ to \in Statuses \ {"active"} /\ GoTo(a, pc, to)
      BY <2>2 DEF SignOut, Steps, Statuses
    <3> QED BY <1>1, <3>1, ReadyMoves, GoToMoves
  <2> QED BY <2>1, <2>2 DEF Calls
<1> QED BY <1>1, <1>2, SpendGrows, QuietStep

LEMMA AnswerKeeps ==
  ASSUME Inv, NEW a \in Actors, Answers(a), UNCHANGED setting
  PROVE  Inv'
<1>1. /\ task[a].pc \in {"sign-out", "sent"} /\ UNCHANGED <<record, sessions, leader, open>> /\ kept' \in BOOLEAN
      /\ UNCHANGED spent \/ \E kind \in Kinds : Spend(kind)
  BY InvTypes DEF OtherTypes, Answers, SignedOut, SignOutFails, Accepted, Refused, Unreachable, Kinds
<1>2. Begun(a) /\ Place(a) \in setting.contexts
  BY <1>1, WorksWhenBegun DEF Inv, StartSteps
<1>3. \/ Done(a) \/ \E pc \in {"release", "established"} : Go(a, pc) \/ \E to \in {"needs-auth"} : GoTo(a, "release", to)
  BY DEF Answers, SignedOut, SignOutFails, Accepted, Refused, Unreachable
<1>4. {"release", "established"} \subseteq Steps \ {"writing", "settle", "rollback"} /\ "needs-auth" \in Statuses \ {"active"}
  BY DEF Steps, Statuses
<1>5. Moves(a)
  BY <1>1, <1>2, <1>3, <1>4, DoneMoves, GoMoves, GoToMoves
<1> QED BY <1>1, <1>5, SpendGrows, QuietStep

\* The refresh loop, and a start that has restored a session.
LEMMA RefreshKeeps ==
  ASSUME Inv, NEW c \in setting.contexts, RefreshDue(c) \/ Over(c) \/ StartRestored(c), UNCHANGED setting
  PROVE  Inv'
<1>1. c \in Contexts /\ c \in Actors /\ Place(c) = c
  BY InvTypes, PlaceTypes
<1>2. UNCHANGED <<record, sessions, leader, open, spent>> /\ kept' \in BOOLEAN /\ task[c].pc = "idle"
  BY InvTypes DEF OtherTypes, RefreshDue, Over, StartRestored, Refreshing, Ready
<1>3. CASE RefreshDue(c)
  <2>1. Moves(c)
    BY <1>1, <1>2, <1>3, ReadyMoves, GoMoves DEF RefreshDue, Refreshing, Steps
  <2> QED BY <1>1, <1>2, <2>1, SpendGrows, QuietStep
<1>4. CASE Over(c)
  <2>1. "release" \in Steps \ {"writing", "settle", "rollback"} /\ "needs-auth" \in Statuses \ {"active"}
    BY DEF Steps, Statuses
  <2>2. Moves(c)
    BY <1>1, <1>2, <1>4, <2>1, ReadyMoves, GoToMoves DEF Over, Refreshing
  <2> QED BY <1>1, <1>2, <2>2, SpendGrows, QuietStep
<1>5. CASE StartRestored(c)
  <2>1. Moves(c)
    BY <1>1, <1>2, <1>5, GoMoves DEF StartRestored, Steps
  <2> QED BY <1>1, <1>2, <2>1, SpendGrows, QuietStep
<1> QED BY <1>3, <1>4, <1>5

----------------------------------------------------------------------------
(* The writes of the record *)

\* A write is issued: it is the last one of its context.
LEMMA IssueEffect ==
  ASSUME Inv, NEW a \in Actors, NEW to \in Statuses, Issues(a, to)
  PROVE  /\ queue' \in [Contexts -> Seq(RecordWrites)]
         /\ \A c \in Contexts : c # Place(a) => queue'[c] = queue[c]
         /\ DOMAIN queue'[Place(a)] = 1..(Len(queue[Place(a)]) + 1)
         /\ \A i \in DOMAIN queue[Place(a)] : queue'[Place(a)][i] = queue[Place(a)][i]
         /\ queue'[Place(a)][Len(queue[Place(a)]) + 1] = [to |-> to, by |-> a]
<1> DEFINE w == [to |-> to, by |-> a]
<1>1. w \in RecordWrites
  BY DEF RecordWrites
<1>2. queue[Place(a)] \in Seq(RecordWrites) /\ Place(a) \in Contexts
  BY EntryTypes, PlaceTypes
<1> HIDE DEF w
<1>3. /\ Append(queue[Place(a)], w) \in Seq(RecordWrites)
      /\ DOMAIN Append(queue[Place(a)], w) = 1..(Len(queue[Place(a)]) + 1)
      /\ \A i \in DOMAIN queue[Place(a)] : Append(queue[Place(a)], w)[i] = queue[Place(a)][i]
      /\ Append(queue[Place(a)], w)[Len(queue[Place(a)]) + 1] = w
  BY <1>1, <1>2
<1>4. queue' = [queue EXCEPT ![Place(a)] = Append(queue[Place(a)], w)]
  BY DEF Issues, w
<1>5. queue \in [Contexts -> Seq(RecordWrites)]
  BY InvTypes DEF RecordTypes
<1>6. queue'[Place(a)] = Append(queue[Place(a)], w) /\ \A c \in Contexts : c # Place(a) => queue'[c] = queue[c]
  BY <1>2, <1>4, <1>5
<1>7. queue' \in [Contexts -> Seq(RecordWrites)]
  BY <1>2, <1>3, <1>4, <1>5
<1> QED BY <1>3, <1>6, <1>7 DEF w

\* An operation that begins to wait for its write is the only one to wait for it.
LEMMA IssueQueues ==
  ASSUME Inv, NEW a \in Actors, NEW to \in Statuses, Issues(a, to), UNCHANGED setting, Place(a) \in setting.contexts,
         task[a].pc # "writing", task'[a].pc = "writing", \A b \in Actors : b # a => task'[b] = task[b]
  PROVE  Queued'
<1> DEFINE c == Place(a)
           n == Len(queue[c]) + 1
<1>1. c \in Contexts /\ a # Nobody /\ Len(queue[c]) \in Nat /\ DOMAIN queue[c] = 1..Len(queue[c])
  BY PlaceTypes, EntryTypes
<1>2. /\ \A d \in Contexts : d # c => queue'[d] = queue[d]
      /\ DOMAIN queue'[c] = 1..n /\ queue'[c][n].by = a
      /\ \A i \in DOMAIN queue[c] : queue'[c][i] = queue[c][i]
  <2>1. queue'[c][n] = [to |-> to, by |-> a]
    BY IssueEffect
  <2>2. queue'[c][n].by = a
    BY <2>1
  <2> QED BY <2>2, IssueEffect
<1>3. \A d \in Contexts : \A i \in DOMAIN queue[d] : queue[d][i].by # Nobody => queue[d][i].by \in Actors /\ queue[d][i].by # a
  BY EntryTypes DEF Inv, Queued
<1>4. \A i \in DOMAIN queue'[c] : i # n => i \in DOMAIN queue[c]
  BY <1>1, <1>2
<1> HIDE DEF n
<1>5. ASSUME NEW d \in Contexts, NEW i \in DOMAIN queue'[d]
      PROVE  /\ d \in setting.contexts
             /\ queue'[d][i].by # Nobody =>
                  /\ Place(queue'[d][i].by) = d /\ task'[queue'[d][i].by].pc = "writing"
                  /\ \A j \in DOMAIN queue'[d] : queue'[d][j].by = queue'[d][i].by => j = i
  <2>1. CASE d # c
    BY <1>2, <1>3, <1>5, <2>1 DEF Inv, Queued
  <2>2. CASE d = c /\ i = n
    BY <1>1, <1>2, <1>3, <1>4, <2>2
  <2>3. CASE d = c /\ i # n
    <3>1. i \in DOMAIN queue[c] /\ queue'[c][i] = queue[c][i]
      BY <1>2, <1>4, <1>5, <2>3
    <3> HIDE DEF c
    <3>2. queue[c][i].by # Nobody =>
            /\ Place(queue[c][i].by) = c /\ task[queue[c][i].by].pc = "writing"
            /\ \A j \in DOMAIN queue[c] : queue[c][j].by = queue[c][i].by => j = i
      BY <1>1, <3>1 DEF Inv, Queued
    <3>3. queue[c][i].by # Nobody => queue[c][i].by \in Actors /\ queue[c][i].by # a
      BY <1>1, <1>3, <3>1
    <3>4. queue[c][i].by # Nobody => task'[queue[c][i].by].pc = "writing"
      BY <3>2, <3>3
    <3>5. ASSUME queue[c][i].by # Nobody, NEW j \in DOMAIN queue'[c], queue'[c][j].by = queue'[c][i].by
          PROVE  j = i
      <4>1. j # n
        BY <1>2, <3>1, <3>3, <3>5
      <4>2. j \in DOMAIN queue[c] /\ queue'[c][j] = queue[c][j]
        BY <1>2, <1>4, <3>5, <4>1
      <4> QED BY <3>1, <3>2, <3>5, <4>2
    <3> USE DEF c
    <3> QED BY <1>1, <2>3, <3>1, <3>2, <3>4, <3>5 DEF Inv, Queued
  <2> QED BY <2>1, <2>2, <2>3
<1> QED BY <1>5 DEF Queued

\* The record that is attended to stays so when a manager that has a session, or gives one up, issues a write.
LEMMA IssueUsable ==
  ASSUME Inv, NEW a \in Actors, NEW to \in Statuses, Issues(a, to), UNCHANGED <<setting, status, missed>>,
         spent'["fault"] \in Nat, spent'["fault"] >= spent["fault"], Place(a) \in setting.contexts,
         to # "active" \/ Attended(Place(a))',
         \A c \in Contexts : c # Place(a) => (Attended(c) => Attended(c)'),
         \A b \in Actors : b # a => (Decides(b) => Decides(b)'),
         Decides(a) => to # "active"
  PROVE  Usable'
<1> DEFINE p == Place(a)
           n == Len(queue[p]) + 1
<1>1. p \in Contexts /\ Len(queue[p]) \in Nat /\ DOMAIN queue[p] = 1..Len(queue[p])
  BY PlaceTypes, EntryTypes
<1>2. /\ \A c \in Contexts : c # p => queue'[c] = queue[c]
      /\ DOMAIN queue'[p] = 1..n /\ queue'[p][n].to = to
      /\ \A i \in DOMAIN queue[p] : queue'[p][i] = queue[p][i]
  <2>1. queue'[p][n] = [to |-> to, by |-> a]
    BY IssueEffect
  <2>2. queue'[p][n].to = to
    BY <2>1
  <2> QED BY <2>2, IssueEffect
<1>3. SUFFICES ASSUME spent["fault"] = 0, ~missed
      PROVE  RecordAttended' /\ WritesAttended'
  BY InvTypes DEF Usable
<1>4. RecordAttended /\ WritesAttended
  BY <1>3 DEF Inv, Usable
<1>5. to # "active" => \A i \in 0..(n - 1) : EndsAfter(p, i)'
  BY <1>1, <1>2 DEF EndsAfter
<1>6. \A c \in Contexts, i \in Nat : EndsAfter(c, i) => EndsAfter(c, i)'
  BY <1>1, <1>2 DEF EndsAfter
<1>7. to # "active" \/ Attended(p)'
  OBVIOUS
<1>8. n \in Nat /\ 0 \in 0..(n - 1)
  BY <1>1
<1> HIDE DEF n, p
<1>9. RecordAttended'
  <2>1. CASE to # "active"
    BY <1>1, <1>5, <1>8, <2>1 DEF RecordAttended
  <2>2. CASE to = "active"
    BY <1>7, <2>2 DEF RecordAttended, p
  <2> QED BY <2>1, <2>2
<1>10. ASSUME NEW c \in Contexts, NEW i \in DOMAIN queue'[c], queue'[c][i].to = "active"
       PROVE  Attended(c)' \/ EndsAfter(c, i)' \/ \E b \in Actors : Place(b) = c /\ Decides(b)'
  <2>1. CASE c # p
    <3>1. Attended(c) \/ EndsAfter(c, i) \/ \E b \in Actors : Place(b) = c /\ Decides(b)
      BY <1>2, <1>4, <1>10, <2>1 DEF WritesAttended
    <3>2. i \in Nat
      BY <1>2, <1>10, <2>1, EntryTypes
    <3> QED BY <1>6, <2>1, <3>1, <3>2 DEF p
  <2>2. CASE c = p /\ to # "active"
    <3>1. i \in 0..(n - 1)
      BY <1>1, <1>2, <1>8, <1>10, <2>2
    <3> QED BY <1>5, <2>2, <3>1
  <2>3. CASE c = p /\ to = "active"
    BY <1>7, <2>3
  <2> QED BY <2>1, <2>2, <2>3
<1> QED BY <1>9, <1>10 DEF WritesAttended

\* An operation that holds no session begins to write what ends the connection.
LEMMA EndingIssued ==
  ASSUME Inv, NEW a \in Actors, NEW to \in Statuses \ {"active"}, Issues(a, to), Go(a, "writing"), task[a].new = 0,
         task[a].pc # "writing", Place(a) \in setting.contexts, a \in Contexts \/ Begun(a),
         UNCHANGED <<setting, status, due, missed, sessions, kept, leader, open, spent>>
  PROVE  Inv'
<1>1. TaskTypes' /\ \A b \in Actors : b # a => task'[b] = task[b]
  BY InvTypes, GoEffect DEF Steps
<1>2. /\ task'[a].pc = "writing" /\ task'[a].previous = task[a].previous /\ task'[a].new = task[a].new
      /\ task'[a].to = task[a].to
  BY InvTypes, GoEffect DEF Steps
<1>3. Types'
  BY <1>1, IssueEffect DEF Inv, Types, sessions, TaskTypes, Tasks
<1>4. Placed' /\ NoneActivates'
  <2>1. \A b \in Actors : task'[b].pc # "idle" => Place(b) \in setting'.contexts
    BY <1>1 DEF Inv, Placed
  <2>2. \A c \in Contexts : open'[c] = "starting" => task'[c].pc \in StartSteps
    BY <1>1, <1>2, PlaceTypes DEF Inv, Placed, StartSteps
  <2>3. \A b \in Callers : open'[At[b]] = "starting" => task'[b].pc = "idle"
    BY <1>1, PlacesAssumption DEF Inv, Placed, Begun, Place, Actors
  <2>4. NoneActivates'
    BY <1>1, <1>2 DEF Inv, NoneActivates
  <2> QED BY <2>1, <2>2, <2>3, <2>4 DEF Inv, Placed
<1>5. Queued'
  BY <1>1, <1>2, IssueQueues
<1>6. HoldTheSame
  BY <1>1, <1>2 DEF HoldTheSame, Inv, Owned
<1>7. spent'["fault"] \in Nat /\ spent'["fault"] >= spent["fault"]
  BY InvTypes
<1>8. Restored'
  BY <1>1, <1>2, <1>7, RestoredStays, PlaceTypes DEF sessions
<1>9. \A c \in Contexts : c # Place(a) => (Attended(c) => Attended(c)')
  BY <1>1, PlaceTypes DEF Attended, Refrains, sessions
<1>10. Usable'
  BY <1>1, <1>7, <1>9, IssueUsable DEF Decides
<1> QED BY <1>3, <1>4, <1>5, <1>6, <1>7, <1>8, <1>10, SessionsStay DEF Inv

\* The record is left alone by an operation that ends a connection: a sign-in that was being written is missed.
LEMMA UnwrittenUsable ==
  ASSUME Inv, NEW a \in Actors, NEW to \in Statuses \ {"active"}, Unwritten(a, to), UNCHANGED <<setting, spent>>,
         \A c \in Contexts : c # Place(a) => (Attended(c) => Attended(c)'),
         \A b \in Actors : b # a => (Decides(b) => Decides(b)')
  PROVE  Usable'
<1>1. SUFFICES ASSUME spent["fault"] = 0, ~missed, ~Activates(Place(a))
      PROVE  RecordAttended' /\ WritesAttended'
  BY DEF Usable, Unwritten
<1>2. WritesAttended
  BY <1>1 DEF Inv, Usable
<1>3. status' # "active" /\ UNCHANGED queue
  BY DEF Unwritten
<1>4. RecordAttended'
  BY <1>3 DEF RecordAttended
<1>5. ASSUME NEW c \in Contexts, NEW i \in DOMAIN queue'[c], queue'[c][i].to = "active"
      PROVE  Attended(c)' \/ EndsAfter(c, i)' \/ \E b \in Actors : Place(b) = c /\ Decides(b)'
  <2>1. c # Place(a)
    BY <1>1, <1>3, <1>5 DEF Activates
  <2>2. Attended(c) \/ EndsAfter(c, i) \/ \E b \in Actors : Place(b) = c /\ Decides(b)
    BY <1>2, <1>3, <1>5 DEF WritesAttended
  <2> QED BY <1>3, <2>1, <2>2 DEF EndsAfter
<1> QED BY <1>4, <1>5 DEF WritesAttended

LEMMA WriteKeeps ==
  ASSUME Inv, NEW a \in Actors, Write(a), UNCHANGED setting
  PROVE  Inv'
<1>1. task[a].pc = "write" /\ UNCHANGED <<sessions, kept, leader, open, spent>>
  BY DEF Write
<1>2. Begun(a) /\ Place(a) \in setting.contexts
  BY <1>1, WorksWhenBegun DEF Inv, StartSteps
<1>3. task[a].new = 0 /\ task[a].previous = 0 /\ task[a].to \in Statuses \ {"active"}
  BY <1>1, InvTypes DEF Inv, Owned, NoneActivates, TaskTypes, Tasks
<1>4. CASE Issues(a, task[a].to) /\ Go(a, "writing") /\ UNCHANGED <<status, due, missed>>
  BY <1>1, <1>2, <1>3, <1>4, EndingIssued
<1>5. CASE Unwritten(a, task[a].to) /\ Done(a)
  <2>1. TaskTypes' /\ (\A b \in Actors : b # a => task'[b] = task[b])
    BY <1>5, DoneEffect, InvTypes
  <2>2. task'[a].pc = "idle" /\ task'[a].previous = 0 /\ task'[a].new = 0 /\ task'[a].to # "active"
    BY <1>5, DoneEffect, InvTypes
  <2>3. UNCHANGED <<status, due, queue>> /\ missed' \in BOOLEAN
    BY <1>5 DEF Unwritten
  <2>4. Types'
    BY <1>1, <2>1, <2>3 DEF Inv, Types, sessions, TaskTypes, Tasks
  <2>5. Placed' /\ NoneActivates'
    BY <1>1, <2>1, <2>2, PlacesAssumption DEF Inv, Placed, NoneActivates, StartSteps, Actors
  <2>6. Queued'
    BY <1>1, <2>1, <2>3, QueueStays
  <2>7. HoldTheSame
    BY <1>3, <2>1, <2>2 DEF HoldTheSame, Inv, Owned
  <2>8. spent'["fault"] \in Nat /\ spent'["fault"] >= spent["fault"]
    BY <1>1, InvTypes
  <2>9. Restored'
    BY <1>1, <2>1, <2>2, <2>8, RestoredStays, PlaceTypes DEF sessions
  <2>10. \A c \in Contexts : c # Place(a) => (Attended(c) => Attended(c)')
    BY <1>1, <2>1, PlaceTypes DEF Attended, Refrains, sessions
  <2>11. Usable'
    BY <1>1, <1>3, <1>5, <2>1, <2>10, UnwrittenUsable DEF Decides
  <2> QED BY <1>1, <2>4, <2>5, <2>6, <2>7, <2>8, <2>9, <2>11, SessionsStay DEF Inv
<1> QED BY <1>1, <1>4, <1>5 DEF Write

LEMMA RefreshMissingKeeps ==
  ASSUME Inv, NEW c \in setting.contexts, RefreshMissing(c), UNCHANGED setting
  PROVE  Inv'
<1>1. c \in Contexts /\ c \in Actors /\ Place(c) = c
  BY InvTypes, PlaceTypes
<1>2. task[c].pc = "idle" /\ task[c].new = 0
  BY <1>1 DEF RefreshMissing, Refreshing, Ready, Inv, Owned
<1> QED BY <1>1, <1>2, EndingIssued DEF RefreshMissing, Statuses

\* A manager that restores nothing leaves no active record behind.
LEMMA StartWithoutKeeps ==
  ASSUME Inv, NEW c \in setting.contexts, StartWithout(c), UNCHANGED setting
  PROVE  Inv'
<1>1. c \in Contexts /\ c \in Actors /\ Place(c) = c
  BY InvTypes, PlaceTypes
<1>2. /\ open[c] = "starting" /\ task[c].pc = "idle" /\ task[c].new = 0
      /\ UNCHANGED <<sessions, kept, leader, spent>>
  BY <1>1 DEF StartWithout, Inv, Owned
<1>3. CASE Issues(c, "inactive") /\ Go(c, "writing") /\ UNCHANGED <<status, due, missed, open>>
  BY <1>1, <1>2, <1>3, EndingIssued DEF Statuses
<1>4. ASSUME NEW to \in {"inactive", "needs-auth"}, Unwritten(c, to), Started(c, "open"), UNCHANGED task
      PROVE  Inv'
  <2>1. open' = [open EXCEPT ![c] = "open"]
    BY <1>1, <1>2, <1>4 DEF Started
  <2>2. open' \in [Contexts -> {"starting", "open", "closed"}] /\ open'[c] = "open" /\ \A d \in Contexts : d # c => open'[d] = open[d]
    BY <1>1, <2>1, InvTypes DEF OpenTypes
  <2>3. UNCHANGED <<status, due, queue>> /\ missed' \in BOOLEAN
    BY <1>4 DEF Unwritten
  <2>4. Types'
    BY <1>2, <1>4, <2>2, <2>3 DEF Inv, Types, sessions
  <2>5. Placed' /\ NoneActivates'
    BY <1>1, <1>4, <2>2, PlacesAssumption DEF Inv, Placed, NoneActivates
  <2>6. Queued'
    BY <1>4, <2>3, QueueStays
  <2>7. HoldTheSame
    BY <1>4 DEF HoldTheSame, Inv, Owned
  <2>8. spent'["fault"] \in Nat /\ spent'["fault"] >= spent["fault"]
    BY <1>2, InvTypes
  <2>9. Restored'
    BY <1>2, <1>4, <2>2, <2>8, RestoredStays DEF sessions
  <2>10. \A d \in Contexts : d # Place(c) => (Attended(d) => Attended(d)')
    BY <1>1, <1>2, <1>4, <2>2 DEF Attended, Refrains, sessions
  <2>11. to \in Statuses \ {"active"}
    BY <1>4 DEF Statuses
  <2>12. Usable'
    BY <1>1, <1>2, <1>4, <2>10, <2>11, UnwrittenUsable DEF Decides
  <2> QED BY <1>2, <2>4, <2>5, <2>6, <2>7, <2>8, <2>9, <2>12, SessionsStay DEF Inv
<1> QED BY <1>3, <1>4 DEF StartWithout

\* What the first write of a context does to the queue.
LEMMA FirstEffect ==
  ASSUME Inv, NEW c \in Contexts, queue[c] # <<>>, queue' = [queue EXCEPT ![c] = Tail(queue[c])]
  PROVE  /\ 1 \in DOMAIN queue[c] /\ Head(queue[c]) = queue[c][1] /\ queue[c][1] \in RecordWrites
         /\ queue' \in [Contexts -> Seq(RecordWrites)]
         /\ \A d \in Contexts : d # c => queue'[d] = queue[d]
         /\ DOMAIN queue'[c] = 1..(Len(queue[c]) - 1)
         /\ \A i \in DOMAIN queue'[c] : i + 1 \in DOMAIN queue[c] /\ queue'[c][i] = queue[c][i + 1]
         /\ \A i \in DOMAIN queue[c] : i # 1 => i - 1 \in DOMAIN queue'[c] /\ queue'[c][i - 1] = queue[c][i]
<1>1. queue[c] \in Seq(RecordWrites) /\ Len(queue[c]) \in Nat /\ Len(queue[c]) # 0 /\ DOMAIN queue[c] = 1..Len(queue[c])
  BY EntryTypes
<1>2. 1 \in DOMAIN queue[c] /\ Head(queue[c]) = queue[c][1] /\ queue[c][1] \in RecordWrites
  BY <1>1, EntryTypes
<1>3. /\ Tail(queue[c]) \in Seq(RecordWrites) /\ Len(Tail(queue[c])) = Len(queue[c]) - 1
      /\ DOMAIN Tail(queue[c]) = 1..(Len(queue[c]) - 1)
      /\ \A i \in 1..(Len(queue[c]) - 1) : Tail(queue[c])[i] = queue[c][i + 1]
  BY <1>1
<1>4. queue \in [Contexts -> Seq(RecordWrites)]
  BY InvTypes DEF RecordTypes
<1>5. queue'[c] = Tail(queue[c]) /\ \A d \in Contexts : d # c => queue'[d] = queue[d]
  BY <1>4
<1>6. queue' \in [Contexts -> Seq(RecordWrites)]
  BY <1>3, <1>4
<1>7. \A i \in DOMAIN queue'[c] : i + 1 \in DOMAIN queue[c] /\ queue'[c][i] = queue[c][i + 1]
  <2>1. \A i \in 1..(Len(queue[c]) - 1) : i + 1 \in 1..Len(queue[c])
    BY <1>1
  <2> QED BY <1>1, <1>3, <1>5, <2>1
<1>8. \A i \in DOMAIN queue[c] : i # 1 => i - 1 \in DOMAIN queue'[c] /\ queue'[c][i - 1] = queue[c][i]
  <2>1. ASSUME NEW i \in DOMAIN queue[c], i # 1 PROVE i - 1 \in 1..(Len(queue[c]) - 1) /\ (i - 1) + 1 = i
    BY <1>1, <2>1
  <2> QED BY <1>3, <1>5, <2>1
<1> QED BY <1>2, <1>3, <1>5, <1>6, <1>7, <1>8

\* The write of an operation takes effect or fails, and the operation is told so.
LEMMA PersistKeeps ==
  ASSUME Inv, NEW c \in Contexts, Persist(c), UNCHANGED setting
  PROVE  Inv'
<1> DEFINE a == queue[c][1].by
<1>1. PICK ok \in BOOLEAN :
        /\ queue[c] # <<>> /\ queue' = [queue EXCEPT ![c] = Tail(queue[c])]
        /\ IF ok THEN status' = Head(queue[c]).to /\ due' = "no" /\ UNCHANGED spent
           ELSE Spend("fault") /\ UNCHANGED <<status, due>>
        /\ Go(Head(queue[c]).by, IF ok THEN "settle" ELSE "rollback")
        /\ UNCHANGED <<missed, sessions, kept, leader, open>>
  BY DEF Persist
<1>2. /\ 1 \in DOMAIN queue[c] /\ Head(queue[c]) = queue[c][1] /\ queue[c][1] \in RecordWrites
      /\ queue' \in [Contexts -> Seq(RecordWrites)]
      /\ \A d \in Contexts : d # c => queue'[d] = queue[d]
      /\ DOMAIN queue'[c] = 1..(Len(queue[c]) - 1)
      /\ \A i \in DOMAIN queue'[c] : i + 1 \in DOMAIN queue[c] /\ queue'[c][i] = queue[c][i + 1]
      /\ \A i \in DOMAIN queue[c] : i # 1 => i - 1 \in DOMAIN queue'[c] /\ queue'[c][i - 1] = queue[c][i]
  BY <1>1, FirstEffect
<1> DEFINE pc == IF ok THEN "settle" ELSE "rollback"
<1>3. a \in Actors \cup {Nobody} /\ queue[c][1].to \in Statuses /\ c \in setting.contexts
  BY <1>2 DEF RecordWrites, Inv, Queued
<1>4. a \in Actors => Place(a) = c /\ task[a].pc = "writing"
  BY <1>2, PlaceTypes DEF Inv, Queued
<1>5. /\ TaskTypes' /\ \A b \in Actors : b # a => task'[b] = task[b]
      /\ a \in Actors => /\ task'[a].pc = pc /\ task'[a].previous = task[a].previous
                         /\ task'[a].new = task[a].new /\ task'[a].to = task[a].to
  <2>1. CASE a \in Actors
    <3>1. pc \in Steps
      BY DEF Steps
    <3>2. Go(a, pc) /\ TaskTypes
      BY <1>1, <1>2, InvTypes
    <3> HIDE DEF pc, a
    <3> QED BY <2>1, <3>1, <3>2, GoEffect
  <2>2. CASE a = Nobody
    <3>1. UNCHANGED task
      <4>1. task' = [task EXCEPT ![a].pc = pc] /\ a \notin DOMAIN task /\ TaskTypes
        BY <1>1, <1>2, <2>2, PlaceTypes, InvTypes DEF Go, TaskTypes
      <4> HIDE DEF a, pc
      <4> QED BY <4>1 DEF TaskTypes
    <3> QED BY <2>2, <3>1, InvTypes, PlaceTypes DEF TaskTypes
  <2> QED BY <1>3, <2>1, <2>2
<1>6. SpentTypes' /\ spent'["fault"] = (IF ok THEN spent["fault"] ELSE spent["fault"] + 1) /\ spent["fault"] \in Nat
  <2>1. SpentTypes /\ "fault" \in Kinds /\ spent["fault"] \in Nat
    BY InvTypes DEF Kinds
  <2> QED BY <1>1, <2>1, SpendEffect DEF SpentTypes
<1> HIDE DEF pc, a
<1>7. Types'
  BY <1>1, <1>2, <1>3, <1>5, <1>6 DEF Inv, Types, sessions, TaskTypes, Tasks, SpentTypes
<1>8. \A b \in Actors : task'[b].pc = task[b].pc \/ (b = a /\ task[b].pc = "writing" /\ task'[b].pc \in {"settle", "rollback"})
  BY <1>4, <1>5 DEF pc
<1>9. \A b \in Actors : task'[b].previous = task[b].previous /\ task'[b].new = task[b].new /\ task'[b].to = task[b].to
  BY <1>5
<1>10. Placed' /\ NoneActivates'
  <2>1. \A b \in Actors : task'[b].pc # "idle" => Place(b) \in setting'.contexts
    BY <1>8 DEF Inv, Placed
  <2>2. \A d \in Contexts : open'[d] = "starting" => task'[d].pc \in StartSteps
    BY <1>1, <1>8, PlaceTypes DEF Inv, Placed, StartSteps
  <2>3. \A b \in Callers : open'[At[b]] = "starting" => task'[b].pc = "idle"
    BY <1>1, <1>8 DEF Inv, Placed, Actors
  <2> QED BY <1>1, <1>9, <2>1, <2>2, <2>3 DEF Inv, Placed, NoneActivates
<1>11. Queued'
  <2>1. ASSUME NEW d \in Contexts, NEW i \in DOMAIN queue'[d], queue'[d][i].by # Nobody
        PROVE  /\ Place(queue'[d][i].by) = d /\ task'[queue'[d][i].by].pc = "writing"
               /\ \A j \in DOMAIN queue'[d] : queue'[d][j].by = queue'[d][i].by => j = i
    <3>1. CASE d # c
      <4>1. queue[d][i].by \in Actors /\ Place(queue[d][i].by) = d /\ task[queue[d][i].by].pc = "writing"
        BY <1>2, <2>1, <3>1, EntryTypes DEF Inv, Queued
      <4>2. queue[d][i].by # a
        BY <1>4, <3>1, <4>1
      <4> QED BY <1>2, <1>5, <2>1, <3>1, <4>1, <4>2 DEF Inv, Queued
    <3>2. CASE d = c
      <4>1. i + 1 \in DOMAIN queue[c] /\ queue'[c][i] = queue[c][i + 1] /\ i \in Nat \ {0}
        BY <1>2, <2>1, <3>2, EntryTypes
      <4>2. /\ queue[c][i + 1].by \in Actors /\ Place(queue[c][i + 1].by) = c /\ task[queue[c][i + 1].by].pc = "writing"
            /\ \A j \in DOMAIN queue[c] : queue[c][j].by = queue[c][i + 1].by => j = i + 1
        BY <2>1, <3>2, <4>1, EntryTypes DEF Inv, Queued
      <4>3. queue[c][i + 1].by # a
        BY <1>2, <4>1, <4>2 DEF a
      <4>4. ASSUME NEW j \in DOMAIN queue'[c], queue'[c][j].by = queue'[c][i].by PROVE j = i
        <5>1. j + 1 \in DOMAIN queue[c] /\ queue'[c][j] = queue[c][j + 1] /\ j \in Nat
          BY <1>2, <4>4, EntryTypes
        <5>2. j + 1 = i + 1
          BY <4>1, <4>2, <4>4, <5>1
        <5> QED BY <4>1, <5>1, <5>2
      <4> QED BY <1>5, <3>2, <4>1, <4>2, <4>3, <4>4
    <3> QED BY <3>1, <3>2
  <2>2. \A d \in Contexts : \A i \in DOMAIN queue'[d] : d \in setting'.contexts
    BY <1>2, <1>3 DEF Inv, Queued
  <2> QED BY <2>1, <2>2 DEF Queued
<1>12. Owned' /\ Exclusive' /\ Accounted' /\ Restored'
  <2>1. UNCHANGED <<session, made, cleaned>>
    BY <1>1 DEF sessions
  <2>2. \A b \in Actors : RollsBack(b)' => RollsBack(b) \/ (b = a /\ ~ok)
    BY <1>4, <1>5 DEF RollsBack, pc
  <2>3. spent["fault"] = 0 => \A b \in Actors : ~RollsBack(b)
    BY DEF Inv, Owned
  <2>4. Owned'
    <3>1. spent'["fault"] = 0 => \A b \in Actors : ~RollsBack(b)'
      BY <1>6, <2>2, <2>3
    <3>2. \A b \in Actors : task'[b].new # 0 => task'[b].pc \in {"writing", "settle", "rollback"}
      BY <1>8, <1>9 DEF Inv, Owned
    <3> QED BY <1>9, <2>1, <3>1, <3>2 DEF Inv, Owned
  <2>5. Exclusive'
    <3>1. SUFFICES ASSUME spent'["fault"] <= 1
          PROVE  /\ \A d \in Contexts : session[d] \notin cleaned
                 /\ \A b \in Actors, d \in Contexts : task[b].previous # 0 => task[b].previous # session[d]
                 /\ \A b, d \in Actors : RollsBack(b)' /\ RollsBack(d)' => b = d
                 /\ \A b \in Actors : (RollsBack(b)' \/ spent'["fault"] = 0) /\ task[b].previous # 0 =>
                      /\ task[b].previous \notin cleaned /\ task[b].previous # task[b].new
                      /\ \A d \in Actors : d # b => task[b].previous # task[d].previous
      BY <1>9, <2>1 DEF Exclusive
    <3>2. spent["fault"] <= 1 /\ (~ok => spent["fault"] = 0)
      BY <1>6, <3>1
    <3> QED BY <1>6, <2>2, <2>3, <3>2 DEF Inv, Exclusive
  <2>6. Accounted'
    BY <1>6, <1>9, <2>1 DEF Inv, Accounted
  <2>7. Restored'
    BY <1>1, <1>6, <1>9, <2>1, PlaceTypes DEF Inv, Restored
  <2> QED BY <2>4, <2>5, <2>6, <2>7
<1>13. Usable'
  <2>1. SUFFICES ASSUME ok, spent["fault"] = 0, ~missed
        PROVE  RecordAttended' /\ WritesAttended'
    BY <1>1, <1>6 DEF Usable
  <2>2. WritesAttended
    BY <2>1 DEF Inv, Usable
  <2>3. \A d \in Contexts : Attended(d) => Attended(d)'
    <3>1. \A d \in Contexts : Refrains(d)' => Refrains(d)
      BY <1>8, <1>9, PlaceTypes DEF Refrains
    <3> QED BY <1>1, <3>1 DEF Attended, sessions
  <2>4. \A b \in Actors : Decides(b) => Decides(b)'
    BY <1>8 DEF Decides
  <2>5. ASSUME NEW i \in DOMAIN queue[c], EndsAfter(c, i) PROVE EndsAfter(c, i - 1)'
    <3>1. PICK j \in DOMAIN queue[c] : i < j /\ queue[c][j].to # "active"
      BY <2>5 DEF EndsAfter
    <3>2. i \in Nat \ {0} /\ j \in Nat
      BY EntryTypes
    <3>3. j # 1 /\ i - 1 < j - 1
      BY <3>1, <3>2
    <3>4. j - 1 \in DOMAIN queue'[c] /\ queue'[c][j - 1] = queue[c][j]
      BY <1>2, <3>3
    <3> QED BY <3>1, <3>3, <3>4 DEF EndsAfter
  <2>6. RecordAttended'
    <3>1. SUFFICES ASSUME queue[c][1].to = "active"
          PROVE  \/ \E d \in setting.contexts : Attended(d)'
                 \/ \E b \in Actors : Decides(b)'
                 \/ \E d \in Contexts : EndsAfter(d, 0)'
      BY <1>1, <1>2, <2>1 DEF RecordAttended
    <3>2. Attended(c) \/ EndsAfter(c, 1) \/ \E b \in Actors : Decides(b)
      BY <1>2, <2>2, <3>1 DEF WritesAttended
    <3>3. EndsAfter(c, 1) => EndsAfter(c, 1 - 1)'
      BY <1>2, <2>5
    <3>4. 1 - 1 = 0
      OBVIOUS
    <3> QED BY <1>3, <2>3, <2>4, <3>2, <3>3, <3>4
  <2>7. ASSUME NEW d \in Contexts, NEW i \in DOMAIN queue'[d], queue'[d][i].to = "active"
        PROVE  Attended(d)' \/ EndsAfter(d, i)' \/ \E b \in Actors : Place(b) = d /\ Decides(b)'
    <3>1. CASE d # c
      <4>1. Attended(d) \/ EndsAfter(d, i) \/ \E b \in Actors : Place(b) = d /\ Decides(b)
        BY <1>2, <2>2, <2>7, <3>1 DEF WritesAttended
      <4> QED BY <1>2, <2>3, <2>4, <3>1, <4>1 DEF EndsAfter
    <3>2. CASE d = c
      <4>1. i + 1 \in DOMAIN queue[c] /\ queue[c][i + 1].to = "active" /\ i \in Nat
        BY <1>2, <2>7, <3>2, EntryTypes
      <4>2. Attended(c) \/ EndsAfter(c, i + 1) \/ \E b \in Actors : Place(b) = c /\ Decides(b)
        BY <2>2, <4>1 DEF WritesAttended
      <4>3. EndsAfter(c, i + 1) => EndsAfter(c, (i + 1) - 1)'
        BY <2>5, <4>1
      <4>4. (i + 1) - 1 = i
        BY <4>1
      <4> QED BY <2>3, <2>4, <3>2, <4>2, <4>3, <4>4
    <3> QED BY <3>1, <3>2
  <2> QED BY <2>6, <2>7 DEF WritesAttended
<1> QED BY <1>7, <1>10, <1>11, <1>12, <1>13 DEF Inv

\* A write that held no session failed.
LEMMA FailsKeeps ==
  ASSUME Inv, NEW a \in Actors, Fails(a), UNCHANGED setting
  PROVE  Inv'
<1>1. /\ RollsBack(a) /\ task[a].new = 0 /\ task[a].previous = 0
      /\ open' = [open EXCEPT ![Place(a)] = IF open[Place(a)] = "starting" THEN "closed" ELSE open[Place(a)]]
      /\ UNCHANGED <<record, sessions, kept, leader, spent>>
  BY DEF Fails, RollsBack, Started, Inv, Owned
<1>2. /\ TaskTypes' /\ \A b \in Actors : b # a => task'[b] = task[b]
      /\ task'[a].pc \in {"idle", "stopped"} /\ task'[a].previous = 0 /\ task'[a].new = 0 /\ task'[a].to # "active"
  <2>1. TaskTypes /\ task[a].to # "active"
    BY InvTypes DEF Inv, NoneActivates
  <2>2. CASE Go(a, "stopped")
    BY <1>1, <2>1, <2>2, GoEffect DEF Steps
  <2>3. CASE Done(a)
    BY <2>1, <2>3, DoneEffect
  <2> QED BY <2>2, <2>3 DEF Fails
<1>3. /\ \A c \in Contexts : open'[c] = open[c] \/ (c = Place(a) /\ open'[c] = "closed")
      /\ open'[Place(a)] # "starting" /\ open' \in [Contexts -> {"starting", "open", "closed"}]
  BY <1>1, PlaceTypes, InvTypes DEF OpenTypes
<1>4. spent["fault"] \in Nat /\ spent["fault"] # 0
  BY <1>1, InvTypes DEF Inv, Owned
<1>5. Types'
  BY <1>1, <1>2, <1>3 DEF Inv, Types, record, sessions, TaskTypes, Tasks
<1>6. Placed' /\ NoneActivates'
  <2>1. \A c \in Contexts : open'[c] # "closed" => c \in setting'.contexts
    BY <1>3 DEF Inv, Placed
  <2>2. \A b \in Actors : task'[b].pc # "idle" => Place(b) \in setting'.contexts
    BY <1>1, <1>2 DEF Inv, Placed, RollsBack
  <2>3. \A c \in Contexts : open'[c] = "starting" => task'[c].pc \in StartSteps
    BY <1>2, <1>3, PlaceTypes DEF Inv, Placed
  <2>4. \A b \in Callers : open'[At[b]] = "starting" => task'[b].pc = "idle"
    <3>1. ASSUME NEW b \in Callers, open'[At[b]] = "starting" PROVE b \in Actors /\ b # a /\ open[At[b]] = "starting"
      BY <1>3, <3>1, PlacesAssumption DEF Actors, Place
    <3> QED BY <1>2, <3>1 DEF Inv, Placed
  <2> QED BY <1>2, <2>1, <2>2, <2>3, <2>4 DEF Inv, Placed, NoneActivates
<1>7. Queued'
  BY <1>1, <1>2, QueueStays DEF record, RollsBack
<1>8. HoldTheSame
  BY <1>1, <1>2 DEF HoldTheSame, Inv, Owned
<1>9. Restored' /\ Usable'
  BY <1>1, <1>4 DEF Restored, Usable
<1> QED BY <1>1, <1>4, <1>5, <1>6, <1>7, <1>8, <1>9, SessionsStay DEF Inv

LEMMA LeadershipKeeps ==
  ASSUME Inv, LoseLeadership \/ Expire \/ \E c \in setting.contexts : Lead(c), UNCHANGED setting
  PROVE  Inv'
<1>1. UNCHANGED <<status, queue, missed, sessions, kept, open, task>> /\ (UNCHANGED spent \/ \E kind \in Kinds : Spend(kind))
  BY DEF LoseLeadership, Expire, Lead, record, Kinds
<1>2. SpentTypes' /\ spent'["fault"] >= spent["fault"] /\ spent["fault"] \in Nat /\ spent'["fault"] \in Nat
  BY <1>1, SpendGrows, InvTypes
<1>3. due' \in {"no", "refresh", "over"} /\ leader' \in Contexts \cup {Nobody}
  BY InvTypes DEF RecordTypes, OtherTypes, LoseLeadership, Expire, Lead, record
<1>4. Types'
  BY <1>1, <1>2, <1>3 DEF Inv, Types, sessions, SpentTypes
<1>5. Placed' /\ NoneActivates' /\ Queued'
  BY <1>1, QueueStays DEF Inv, Placed, NoneActivates
<1>6. HoldTheSame
  BY <1>1 DEF HoldTheSame, Inv, Owned
<1>7. Restored'
  BY <1>1, <1>2, RestoredStays DEF sessions
<1>8. Usable'
  BY <1>1, <1>2, UsableStays DEF Attended, Refrains, Decides, sessions
<1> QED BY <1>1, <1>2, <1>4, <1>5, <1>6, <1>7, <1>8, SessionsStay DEF Inv

----------------------------------------------------------------------------
(* Sessions that are made, replaced, put back and cleaned up *)

\* A session that nobody holds.
LEMMA FreeIsUnheld ==
  ASSUME Inv, NEW h \in Free
  PROVE  /\ h \in 1..MaxSession /\ h # 0
         /\ \A c \in Contexts : session[c] # h
         /\ \A a \in Actors : task[a].previous # h /\ task[a].new # h
<1>1. h \in 1..MaxSession /\ h # 0
  <2>1. setting.sessions \in 0..MaxSession
    BY SettingsAssumption DEF Inv, Types
  <2> QED BY <2>1, SessionAssumption DEF Free
<1>2. CASE made[h] = Nobody
  <2>1. \A a \in Actors : made[h] # Place(a)
    BY <1>2, PlaceTypes, PlacesAssumption
  <2>2. \A c \in Contexts : made[h] # c
    BY <1>2, PlacesAssumption
  <2> QED BY <1>1, <2>1, <2>2 DEF Inv, Owned
<1>3. CASE made[h] # Nobody
  BY <1>1, <1>3 DEF Free
<1> QED BY <1>2, <1>3, <1>1

LEMMA EstablishEffect ==
  ASSUME Inv, NEW a \in Actors, Establish(a), UNCHANGED setting
  PROVE  \E h \in Free, written \in BOOLEAN :
           /\ made' = [made EXCEPT ![h] = Place(a)] /\ cleaned' = cleaned \ {h}
           /\ session' = [session EXCEPT ![Place(a)] = h]
           /\ TaskTypes' /\ \A b \in Actors : b # a => task'[b] = task[b]
           /\ task'[a].pc = IF written THEN "writing" ELSE "settle"
           /\ task'[a].previous = session[Place(a)] /\ task'[a].new = h /\ task'[a].to # "active"
           /\ IF written THEN Issues(a, "active") ELSE UNCHANGED queue
<1>1. PICK h \in Free, written \in BOOLEAN :
        /\ made' = [made EXCEPT ![h] = Place(a)] /\ cleaned' = cleaned \ {h}
        /\ session' = [session EXCEPT ![Place(a)] = h]
        /\ task' = [task EXCEPT ![a] = [Idle EXCEPT !.pc = IF written THEN "writing" ELSE "settle",
                                          !.previous = session[Place(a)], !.new = h]]
        /\ IF written THEN Issues(a, "active") ELSE UNCHANGED queue
  BY DEF Establish
<1> DEFINE t == [Idle EXCEPT !.pc = IF written THEN "writing" ELSE "settle", !.previous = session[Place(a)], !.new = h]
<1>2. h \in 0..MaxSession /\ session[Place(a)] \in 0..MaxSession
  BY FreeIsUnheld, PlaceTypes, SessionAssumption DEF Inv, Types
<1>3. /\ t \in Tasks /\ t.pc = (IF written THEN "writing" ELSE "settle") /\ t.previous = session[Place(a)] /\ t.new = h
      /\ t.to # "active"
  BY <1>2 DEF Idle, Tasks, Steps, Statuses
<1>4. task' = [task EXCEPT ![a] = t]
  BY <1>1
<1> HIDE DEF t
<1>5. TaskTypes' /\ task'[a] = t /\ \A b \in Actors : b # a => task'[b] = task[b]
  BY <1>3, <1>4, InvTypes DEF TaskTypes
<1> QED BY <1>1, <1>3, <1>5

LEMMA EstablishKeeps ==
  ASSUME Inv, NEW a \in Actors, Establish(a), UNCHANGED setting
  PROVE  Inv'
<1>1. PICK h \in Free, written \in BOOLEAN :
        /\ made' = [made EXCEPT ![h] = Place(a)] /\ cleaned' = cleaned \ {h}
        /\ session' = [session EXCEPT ![Place(a)] = h]
        /\ TaskTypes' /\ \A b \in Actors : b # a => task'[b] = task[b]
        /\ task'[a].pc = IF written THEN "writing" ELSE "settle"
        /\ task'[a].previous = session[Place(a)] /\ task'[a].new = h /\ task'[a].to # "active"
        /\ IF written THEN Issues(a, "active") ELSE UNCHANGED queue
  BY EstablishEffect
<1>2. h \in 1..MaxSession /\ h # 0 /\ Place(a) \in Contexts
  BY FreeIsUnheld, PlaceTypes
<1>3. UNCHANGED <<status, due, missed, kept, leader, open, spent>> /\ task[a].pc = "established"
  BY DEF Establish
<1>4. Place(a) \in setting.contexts
  BY <1>3 DEF Inv, Placed
<1>5. task[a].previous = 0 /\ task[a].new = 0 /\ spent["fault"] \in Nat
  BY <1>3, InvTypes DEF Inv, Owned
<1>6. made'[h] = Place(a) /\ \A g \in 1..MaxSession : g # h => made'[g] = made[g]
  BY <1>1, <1>2 DEF Inv, Types
<1>7. session'[Place(a)] = h /\ \A c \in Contexts : c # Place(a) => session'[c] = session[c]
  BY <1>1, <1>2 DEF Inv, Types
<1>8. Types'
  <2>1. session' \in [Contexts -> 0..MaxSession] /\ made' \in [1..MaxSession -> Contexts \cup {Nobody}]
    BY <1>1, <1>2 DEF Inv, Types
  <2>2. queue' \in [Contexts -> Seq(RecordWrites)]
    BY <1>1, IssueEffect DEF Inv, Types, Statuses
  <2> QED BY <1>1, <1>3, <2>1, <2>2 DEF Inv, Types, TaskTypes, Tasks
<1>9. Placed' /\ NoneActivates'
  <2>1. \A c \in Contexts : open'[c] # "closed" => c \in setting'.contexts
    BY <1>3 DEF Inv, Placed
  <2>2. \A b \in Actors : task'[b].pc # "idle" => Place(b) \in setting'.contexts
    BY <1>1, <1>4 DEF Inv, Placed
  <2>3. \A c \in Contexts : open'[c] = "starting" => task'[c].pc \in StartSteps
    BY <1>1, <1>3, PlaceTypes DEF Inv, Placed, StartSteps
  <2>4. \A b \in Callers : open'[At[b]] = "starting" => task'[b].pc = "idle"
    BY <1>1, <1>3 DEF Inv, Placed, Actors
  <2>5. NoneActivates'
    BY <1>1 DEF Inv, NoneActivates
  <2> QED BY <2>1, <2>2, <2>3, <2>4, <2>5 DEF Placed
<1>10. Queued'
  <2>1. CASE written
    BY <1>1, <1>3, <1>4, <2>1, IssueQueues DEF Statuses
  <2>2. CASE ~written
    BY <1>1, <1>3, <2>2, QueueStays
  <2> QED BY <2>1, <2>2
<1>11. \A b \in Actors : RollsBack(b)' => b # a /\ RollsBack(b)
  BY <1>1 DEF RollsBack
<1>12. Owned'
  <2>1. \A c \in Contexts : session'[c] # 0 => made'[session'[c]] = c
    <3>1. SUFFICES ASSUME NEW c \in Contexts, session'[c] # 0 PROVE made'[session'[c]] = c
      OBVIOUS
    <3>2. CASE c = Place(a)
      BY <1>6, <1>7, <3>2
    <3>3. CASE c # Place(a)
      <4>1. session'[c] = session[c] /\ session[c] \in 1..MaxSession /\ session[c] # h
        BY <1>7, <3>1, <3>3, FreeIsUnheld, InvTypes, SessionAssumption
      <4> QED BY <1>6, <3>1, <4>1 DEF Inv, Owned
    <3> QED BY <3>2, <3>3
  <2>2. \A b \in Actors : task[b].previous \in 0..MaxSession /\ task[b].new \in 0..MaxSession
    BY InvTypes
  <2>3. \A b \in Actors : task'[b].previous # 0 => made'[task'[b].previous] = Place(b)
    <3>1. CASE session[Place(a)] = 0
      BY <1>1, <1>6, <2>2, <3>1, FreeIsUnheld DEF Inv, Owned
    <3>2. CASE session[Place(a)] # 0
      <4>1. session[Place(a)] \in 1..MaxSession /\ session[Place(a)] # h
        BY <1>2, <3>2, FreeIsUnheld, SessionAssumption DEF Inv, Types
      <4>2. made'[task'[a].previous] = Place(a)
        BY <1>1, <1>2, <1>6, <3>2, <4>1 DEF Inv, Owned
      <4> QED BY <1>1, <1>6, <2>2, <4>2, FreeIsUnheld DEF Inv, Owned
    <3> QED BY <3>1, <3>2
  <2>4. \A b \in Actors : task'[b].new # 0 => made'[task'[b].new] = Place(b)
    BY <1>1, <1>6, <2>2, FreeIsUnheld DEF Inv, Owned
  <2>5. \A b \in Actors : task'[b].new # 0 => task'[b].pc \in {"writing", "settle", "rollback"}
    BY <1>1 DEF Inv, Owned
  <2>6. \A b \in Actors : task'[b].new = 0 => task'[b].previous = 0
    BY <1>1, <1>2 DEF Inv, Owned
  <2>7. spent'["fault"] = 0 => \A b \in Actors : ~RollsBack(b)'
    BY <1>3, <1>11 DEF Inv, Owned
  <2> QED BY <2>1, <2>3, <2>4, <2>5, <2>6, <2>7 DEF Owned
<1>13. Exclusive'
  <2>1. SUFFICES ASSUME spent["fault"] <= 1
        PROVE  /\ \A c \in Contexts : session'[c] \notin cleaned'
               /\ \A b \in Actors, c \in Contexts : task'[b].previous # 0 => task'[b].previous # session'[c]
               /\ \A b, d \in Actors : RollsBack(b)' /\ RollsBack(d)' => b = d
               /\ \A b \in Actors : (RollsBack(b)' \/ spent["fault"] = 0) /\ task'[b].previous # 0 =>
                    /\ task'[b].previous \notin cleaned' /\ task'[b].previous # task'[b].new
                    /\ \A d \in Actors : d # b => task'[b].previous # task'[d].previous
    BY <1>3 DEF Exclusive
  <2>2. \A c \in Contexts : session'[c] \notin cleaned'
    BY <1>1, <1>7, <2>1 DEF Inv, Exclusive
  <2>3. session[Place(a)] # 0 => \A c \in Contexts : session[Place(a)] # session'[c]
    BY <1>2, <1>7, FreeIsUnheld DEF Inv, Owned
  <2>4. \A b \in Actors, c \in Contexts : task'[b].previous # 0 => task'[b].previous # session'[c]
    BY <1>1, <1>7, <2>1, <2>3, FreeIsUnheld DEF Inv, Exclusive
  <2>5. \A b, d \in Actors : RollsBack(b)' /\ RollsBack(d)' => b = d
    BY <1>11, <2>1 DEF Inv, Exclusive
  <2>6. ASSUME NEW b \in Actors, RollsBack(b)' \/ spent["fault"] = 0, task'[b].previous # 0
        PROVE  /\ task'[b].previous \notin cleaned' /\ task'[b].previous # task'[b].new
               /\ \A d \in Actors : d # b => task'[b].previous # task'[d].previous
    <3>1. CASE b = a
      <4>1. task'[b].previous = session[Place(a)] /\ task'[b].new = h
        BY <1>1, <3>1
      <4>2. task'[b].previous \notin cleaned' /\ task'[b].previous # task'[b].new
        BY <1>1, <1>2, <2>1, <4>1, FreeIsUnheld DEF Inv, Exclusive
      <4>3. \A d \in Actors : d # b => task'[b].previous # task'[d].previous
        BY <1>1, <1>2, <2>1, <2>6, <3>1, <4>1 DEF Inv, Exclusive
      <4> QED BY <4>2, <4>3
    <3>2. CASE b # a
      <4>1. (RollsBack(b) \/ spent["fault"] = 0) /\ task'[b] = task[b]
        BY <1>1, <1>11, <2>6, <3>2
      <4>2. /\ task[b].previous \notin cleaned /\ task[b].previous # task[b].new
            /\ \A d \in Actors : d # b => task[b].previous # task[d].previous
            /\ task[b].previous # session[Place(a)]
        BY <1>2, <2>1, <2>6, <4>1 DEF Inv, Exclusive
      <4> QED BY <1>1, <4>1, <4>2
    <3> QED BY <3>1, <3>2
  <2> QED BY <2>2, <2>4, <2>5, <2>6
<1>14. Accounted'
  <2>1. SUFFICES ASSUME spent["fault"] = 0, NEW g \in 1..MaxSession, NEW c \in Contexts, made'[g] = c
        PROVE  g \in cleaned' \/ g = session'[c] \/ \E b \in Actors : Place(b) = c /\ g = task'[b].previous
    BY <1>3 DEF Accounted
  <2>2. CASE g = h
    BY <1>6, <1>7, <2>1, <2>2
  <2>3. CASE g # h
    <3>1. g \in cleaned \/ g = session[c] \/ \E b \in Actors : Place(b) = c /\ g = task[b].previous
      BY <1>6, <2>1, <2>3 DEF Inv, Accounted
    <3>2. CASE g = session[c] /\ c = Place(a)
      BY <1>1, <3>2
    <3>3. CASE g = session[c] /\ c # Place(a)
      BY <1>7, <3>3
    <3>4. CASE \E b \in Actors : Place(b) = c /\ g = task[b].previous
      <4>1. PICK b \in Actors : Place(b) = c /\ g = task[b].previous
        BY <3>4
      <4>2. g # 0 /\ b # a
        BY <1>5, <2>1, <4>1, SessionAssumption
      <4> QED BY <1>1, <4>1, <4>2
    <3> QED BY <1>1, <2>3, <3>1, <3>2, <3>3, <3>4
  <2> QED BY <2>2, <2>3
<1>15. Restored'
  BY <1>1, <1>2, <1>3, <1>7, PlaceTypes DEF Inv, Restored
<1>16. Usable'
  <2>1. Attended(Place(a))' /\ \A c \in Contexts : Attended(c) => Attended(c)'
    BY <1>1, <1>2, <1>3, <1>7, PlaceTypes DEF Attended, Refrains
  <2>2. ~Decides(a) /\ \A b \in Actors : Decides(b) => Decides(b)'
    BY <1>1, <1>3 DEF Decides
  <2>3. CASE written
    BY <1>1, <1>3, <1>4, <1>5, <2>1, <2>2, <2>3, IssueUsable DEF Statuses
  <2>4. CASE ~written
    BY <1>1, <1>3, <1>5, <2>1, <2>2, <2>4, UsableStays
  <2> QED BY <2>3, <2>4
<1> QED BY <1>8, <1>9, <1>10, <1>12, <1>13, <1>14, <1>15, <1>16 DEF Inv

\* The previous session has been replaced for good, or a write that held none is done.
LEMMA SettleKeeps ==
  ASSUME Inv, NEW a \in Actors, Settle(a), UNCHANGED setting
  PROVE  Inv'
<1>1. /\ task[a].pc = "settle" /\ cleaned' = cleaned \cup ({task[a].previous} \ {0})
      /\ open' = [open EXCEPT ![Place(a)] = IF open[Place(a)] = "starting" THEN "open" ELSE open[Place(a)]]
      /\ UNCHANGED <<record, session, made, kept, leader, spent>>
  BY DEF Settle, Started
<1>2. /\ TaskTypes' /\ \A b \in Actors : b # a => task'[b] = task[b]
      /\ task'[a].pc = "idle" /\ task'[a].previous = 0 /\ task'[a].new = 0 /\ task'[a].to # "active"
  BY DoneEffect, InvTypes DEF Settle
<1>3. \A b \in Actors : RollsBack(b)' <=> RollsBack(b)
  BY <1>1, <1>2 DEF RollsBack
<1>4. /\ \A c \in Contexts : open'[c] = open[c] \/ (c = Place(a) /\ open[c] = "starting" /\ open'[c] = "open")
      /\ open'[Place(a)] # "starting" /\ open' \in [Contexts -> {"starting", "open", "closed"}]
  BY <1>1, PlaceTypes, InvTypes DEF OpenTypes
<1>5. Types'
  <2>1. cleaned' \subseteq 1..MaxSession
    <3>1. task[a].previous # 0 => task[a].previous \in 1..MaxSession
      BY InvTypes, SessionAssumption
    <3>2. cleaned \subseteq 1..MaxSession
      BY DEF Inv, Types
    <3> QED BY <1>1, <3>1, <3>2
  <2> QED BY <1>1, <1>2, <1>4, <2>1 DEF Inv, Types, TaskTypes, Tasks, record
<1>6. Placed' /\ NoneActivates'
  <2>1. \A c \in Contexts : open'[c] # "closed" => c \in setting'.contexts
    BY <1>4 DEF Inv, Placed
  <2>2. \A b \in Actors : task'[b].pc # "idle" => Place(b) \in setting'.contexts
    BY <1>2 DEF Inv, Placed
  <2>3. \A c \in Contexts : open'[c] = "starting" => task'[c].pc \in StartSteps
    BY <1>2, <1>4, PlaceTypes DEF Inv, Placed
  <2>4. \A b \in Callers : open'[At[b]] = "starting" => task'[b].pc = "idle"
    BY <1>2, <1>4, PlacesAssumption DEF Inv, Placed, Actors
  <2>5. NoneActivates'
    BY <1>2 DEF Inv, NoneActivates
  <2> QED BY <2>1, <2>2, <2>3, <2>4, <2>5 DEF Placed
<1>7. Queued'
  BY <1>1, <1>2, QueueStays DEF record
<1>8. Owned'
  BY <1>1, <1>2, <1>3 DEF Inv, Owned
<1>9. Exclusive'
  <2>1. ASSUME spent["fault"] <= 1
        PROVE  /\ \A c \in Contexts : session[c] \notin cleaned'
               /\ \A b \in Actors : b # a /\ (RollsBack(b) \/ spent["fault"] = 0) /\ task[b].previous # 0 =>
                    task[b].previous \notin cleaned'
    BY <1>1, <2>1 DEF Inv, Exclusive
  <2> QED BY <1>1, <1>2, <1>3, <2>1 DEF Inv, Exclusive
<1>10. Accounted'
  <2>1. SUFFICES ASSUME spent["fault"] = 0, NEW g \in 1..MaxSession, NEW c \in Contexts, made[g] = c
        PROVE  g \in cleaned' \/ g = session[c] \/ \E b \in Actors : Place(b) = c /\ g = task'[b].previous
    BY <1>1 DEF Accounted
  <2>2. g \in cleaned \/ g = session[c] \/ \E b \in Actors : Place(b) = c /\ g = task[b].previous
    BY <2>1 DEF Inv, Accounted
  <2>3. ASSUME NEW b \in Actors, Place(b) = c, g = task[b].previous
        PROVE  g \in cleaned' \/ \E d \in Actors : Place(d) = c /\ g = task'[d].previous
    BY <1>1, <1>2, <2>3, g # 0, SessionAssumption
  <2> QED BY <1>1, <2>2, <2>3
<1>11. spent'["fault"] \in Nat /\ spent'["fault"] >= spent["fault"]
  BY <1>1, InvTypes
<1>12. Restored'
  BY <1>1, <1>2, <1>4, <1>11, PlaceTypes, RestoredStays
<1>13. Usable'
  <2>1. SUFFICES ASSUME spent["fault"] = 0 PROVE Usable'
    BY <1>1 DEF Usable
  <2>2. ASSUME open[Place(a)] = "starting" PROVE Place(a) = a /\ (session[a] # 0 \/ Refrains(a))
    <3>1. a \notin Callers
      BY <1>1, <2>2 DEF Inv, Placed, Place
    <3>2. Place(a) = a /\ a \in Contexts
      BY <3>1, PlaceTypes DEF Actors
    <3> QED BY <1>1, <2>1, <2>2, <3>2 DEF Inv, Restored, Refrains
  <2>3. ASSUME NEW c \in Contexts, Attended(c) PROVE Attended(c)'
    <3>1. CASE open'[c] = open[c] /\ open[c] = "starting"
      <4>1. c # Place(a) /\ c # a /\ c \in Actors
        BY <1>4, <3>1, PlaceTypes
      <4> QED BY <1>1, <1>2, <2>3, <3>1, <4>1 DEF Attended, Refrains
    <3>2. CASE open'[c] = open[c] /\ open[c] # "starting"
      BY <1>1, <2>3, <3>2 DEF Attended
    <3>3. CASE c = Place(a) /\ open[c] = "starting" /\ open'[c] = "open"
      BY <1>1, <2>2, <2>3, <3>3 DEF Attended
    <3> QED BY <1>4, <3>1, <3>2, <3>3
  <2>4. \A b \in Actors : Decides(b) => Decides(b)'
    BY <1>1, <1>2 DEF Decides
  <2> QED BY <1>1, <1>11, <2>3, <2>4, UsableStays DEF record
<1> QED BY <1>5, <1>6, <1>7, <1>8, <1>9, <1>10, <1>12, <1>13 DEF Inv

\* The write of the session failed: the previous one is put back.
LEMMA RollbackKeeps ==
  ASSUME Inv, NEW a \in Actors, Rollback(a), UNCHANGED setting
  PROVE  Inv'
<1>1. /\ RollsBack(a) /\ task[a].new # 0 /\ cleaned' = cleaned \cup {task[a].new}
      /\ session' = [session EXCEPT ![Place(a)] = task[a].previous]
      /\ open' = [open EXCEPT ![Place(a)] = IF open[Place(a)] = "starting" THEN "closed" ELSE open[Place(a)]]
      /\ UNCHANGED <<record, made, kept, leader, spent>>
  BY DEF Rollback, RollsBack, Started
<1>2. /\ TaskTypes' /\ \A b \in Actors : b # a => task'[b] = task[b]
      /\ task'[a].pc = "idle" /\ task'[a].previous = 0 /\ task'[a].new = 0 /\ task'[a].to # "active"
  BY DoneEffect, InvTypes DEF Rollback
<1>3. \A b \in Actors : RollsBack(b)' <=> b # a /\ RollsBack(b)
  BY <1>2 DEF RollsBack
<1>4. /\ \A c \in Contexts : open'[c] = open[c] \/ (c = Place(a) /\ open'[c] = "closed")
      /\ open'[Place(a)] # "starting" /\ open' \in [Contexts -> {"starting", "open", "closed"}]
  BY <1>1, PlaceTypes, InvTypes DEF OpenTypes
<1>5. session'[Place(a)] = task[a].previous /\ \A c \in Contexts : c # Place(a) => session'[c] = session[c]
  BY <1>1, PlaceTypes DEF Inv, Types
<1>6. spent["fault"] \in Nat /\ spent["fault"] # 0
  BY <1>1, InvTypes DEF Inv, Owned
<1>7. Types'
  <2>1. cleaned' \subseteq 1..MaxSession
    <3>1. task[a].new \in 1..MaxSession
      BY <1>1, InvTypes, SessionAssumption
    <3>2. cleaned \subseteq 1..MaxSession
      BY DEF Inv, Types
    <3> QED BY <1>1, <3>1, <3>2
  <2>2. session' \in [Contexts -> 0..MaxSession]
    BY <1>1, InvTypes DEF SessionTypes
  <2> QED BY <1>1, <1>2, <1>4, <2>1, <2>2 DEF Inv, Types, TaskTypes, Tasks, record
<1>8. Placed' /\ NoneActivates'
  <2>1. \A c \in Contexts : open'[c] # "closed" => c \in setting'.contexts
    BY <1>4 DEF Inv, Placed
  <2>2. \A b \in Actors : task'[b].pc # "idle" => Place(b) \in setting'.contexts
    BY <1>2 DEF Inv, Placed
  <2>3. \A c \in Contexts : open'[c] = "starting" => task'[c].pc \in StartSteps
    BY <1>2, <1>4, PlaceTypes DEF Inv, Placed
  <2>4. \A b \in Callers : open'[At[b]] = "starting" => task'[b].pc = "idle"
    BY <1>2, <1>4, PlacesAssumption DEF Inv, Placed, Actors
  <2>5. NoneActivates'
    BY <1>2 DEF Inv, NoneActivates
  <2> QED BY <2>1, <2>2, <2>3, <2>4, <2>5 DEF Placed
<1>9. Queued'
  BY <1>1, <1>2, QueueStays DEF record, RollsBack
<1>10. Owned'
  <2>1. task[a].previous # 0 => made[task[a].previous] = Place(a)
    BY DEF Inv, Owned
  <2> QED BY <1>1, <1>2, <1>3, <1>5, <1>6, <2>1 DEF Inv, Owned
<1>11. Exclusive'
  <2>1. SUFFICES ASSUME spent["fault"] <= 1
        PROVE  /\ \A c \in Contexts : session'[c] \notin cleaned'
               /\ \A b \in Actors, c \in Contexts : task'[b].previous # 0 => task'[b].previous # session'[c]
               /\ \A b \in Actors : ~RollsBack(b)'
    BY <1>1, <1>6 DEF Exclusive
  <2>2. \A b \in Actors : ~RollsBack(b)'
    BY <1>1, <1>3, <2>1 DEF Inv, Exclusive
  <2>3. \A b \in Actors, c \in Contexts : task'[b].previous # 0 => task'[b].previous # session'[c]
    <3>1. \A b \in Actors : task'[b].previous # 0 => b # a /\ task'[b] = task[b]
      BY <1>2
    <3>2. \A b \in Actors : b # a /\ task[b].previous # 0 => task[b].previous # task[a].previous
      BY <1>1, <2>1 DEF Inv, Exclusive
    <3> QED BY <1>5, <2>1, <3>1, <3>2 DEF Inv, Exclusive
  <2>4. session'[Place(a)] \notin cleaned'
    BY <1>1, <1>5, <2>1, InvTypes DEF Inv, Exclusive
  <2>5. ASSUME NEW c \in Contexts, c # Place(a) PROVE session'[c] \notin cleaned'
    <3>1. session[c] # task[a].new
      BY <1>1, <2>5 DEF Inv, Owned
    <3> QED BY <1>1, <1>5, <2>1, <2>5, <3>1 DEF Inv, Exclusive
  <2> QED BY <2>2, <2>3, <2>4, <2>5
<1>12. Accounted' /\ Restored' /\ Usable'
  BY <1>1, <1>6 DEF Accounted, Restored, Usable
<1> QED BY <1>7, <1>8, <1>9, <1>10, <1>11, <1>12 DEF Inv

\* The live session of a context is dropped and cleaned up.
LEMMA DropKeeps ==
  ASSUME Inv, NEW c \in Contexts, cleaned' = cleaned \cup ({session[c]} \ {0}), session' = [session EXCEPT ![c] = 0],
         UNCHANGED made, spent'["fault"] = spent["fault"],
         \A b \in Actors : /\ RollsBack(b)' <=> RollsBack(b)
                           /\ task'[b].previous = task[b].previous /\ task'[b].new = task[b].new
                           /\ task[b].new # 0 => task'[b].pc = task[b].pc
  PROVE  SessionTypes' /\ Owned' /\ Exclusive' /\ Accounted'
<1>1. session'[c] = 0 /\ \A d \in Contexts : d # c => session'[d] = session[d]
  BY DEF Inv, Types
<1>2. SessionTypes'
  <2>1. session[c] # 0 => session[c] \in 1..MaxSession
    BY InvTypes, SessionAssumption
  <2>2. cleaned \subseteq 1..MaxSession /\ session \in [Contexts -> 0..MaxSession]
    BY DEF Inv, Types
  <2>3. session' \in [Contexts -> 0..MaxSession]
    BY <2>2, SessionAssumption
  <2>4. cleaned' \subseteq 1..MaxSession
    BY <2>1, <2>2
  <2> QED BY <2>3, <2>4 DEF Inv, Types, SessionTypes
<1>3. Owned'
  BY <1>1 DEF Inv, Owned
<1>4. Exclusive'
  <2>1. SUFFICES ASSUME spent["fault"] <= 1
        PROVE  /\ \A d \in Contexts : session'[d] \notin cleaned'
               /\ \A b \in Actors, d \in Contexts : task[b].previous # 0 => task[b].previous # session'[d]
               /\ \A b \in Actors : (RollsBack(b) \/ spent["fault"] = 0) /\ task[b].previous # 0 =>
                    task[b].previous \notin cleaned'
    BY DEF Inv, Exclusive
  <2>2. ASSUME NEW d \in Contexts PROVE session'[d] \notin cleaned'
    <3>1. CASE session'[d] = 0
      BY <3>1, InvTypes
    <3>2. CASE session'[d] # 0
      <4>1. session'[d] = session[d] /\ session[d] # session[c]
        BY <1>1, <3>2 DEF Inv, Owned
      <4> QED BY <2>1, <4>1 DEF Inv, Exclusive
    <3> QED BY <3>1, <3>2
  <2> QED BY <1>1, <2>1, <2>2 DEF Inv, Exclusive
<1>5. Accounted'
  BY <1>1, SessionAssumption DEF Inv, Accounted
<1> QED BY <1>2, <1>3, <1>4, <1>5

\* What was attended to stays so, or somebody decides on it, when a context gives its session up.
LEMMA DropUsable ==
  ASSUME Inv, NEW c \in setting.contexts, UNCHANGED <<setting, status, missed>>, spent'["fault"] \in Nat,
         spent'["fault"] >= spent["fault"],
         \A d \in Contexts : d # c => queue'[d] = queue[d] /\ (Attended(d) => Attended(d)'),
         Attended(c)' \/ (UNCHANGED queue /\ \E a \in Actors : Place(a) = c /\ Decides(a)'),
         \A a \in Actors : Place(a) # c => (Decides(a) => Decides(a)')
  PROVE  Usable'
<1>1. SUFFICES ASSUME spent["fault"] = 0, ~missed
      PROVE  RecordAttended' /\ WritesAttended'
  BY InvTypes DEF Usable
<1>2. WritesAttended
  BY <1>1 DEF Inv, Usable
<1>3. RecordAttended'
  BY DEF RecordAttended
<1>4. ASSUME NEW d \in Contexts, NEW i \in DOMAIN queue'[d], queue'[d][i].to = "active"
      PROVE  Attended(d)' \/ EndsAfter(d, i)' \/ \E b \in Actors : Place(b) = d /\ Decides(b)'
  <2>1. CASE d # c
    <3>1. Attended(d) \/ EndsAfter(d, i) \/ \E b \in Actors : Place(b) = d /\ Decides(b)
      BY <1>2, <1>4, <2>1 DEF WritesAttended
    <3> QED BY <2>1, <3>1 DEF EndsAfter
  <2>2. CASE d = c
    BY <2>2
  <2> QED BY <2>1, <2>2
<1> QED BY <1>3, <1>4 DEF WritesAttended

LEMMA ReleaseKeeps ==
  ASSUME Inv, NEW a \in Actors, Release(a), UNCHANGED setting
  PROVE  Inv'
<1>1. /\ task[a].pc = "release" /\ cleaned' = cleaned \cup ({session[Place(a)]} \ {0})
      /\ session' = [session EXCEPT ![Place(a)] = 0] /\ UNCHANGED <<record, made, kept, leader, open, spent>>
  BY DEF Release
<1>2. /\ TaskTypes' /\ \A b \in Actors : b # a => task'[b] = task[b]
      /\ task'[a].pc = "write" /\ task'[a].previous = task[a].previous /\ task'[a].new = task[a].new
      /\ task'[a].to = task[a].to
  BY GoEffect, InvTypes DEF Release, Steps
<1>3. task[a].new = 0
  BY <1>1 DEF Inv, Owned
<1>4. \A b \in Actors : /\ RollsBack(b)' <=> RollsBack(b)
                        /\ task'[b].previous = task[b].previous /\ task'[b].new = task[b].new
                        /\ task[b].new # 0 => task'[b].pc = task[b].pc
  BY <1>1, <1>2, <1>3 DEF RollsBack
<1>5. SessionTypes' /\ Owned' /\ Exclusive' /\ Accounted'
  BY <1>1, <1>4, DropKeeps, PlaceTypes
<1>6. Types'
  BY <1>1, <1>2, <1>5 DEF Inv, Types, SessionTypes, TaskTypes, Tasks, record
<1>7. Begun(a) /\ Place(a) \in setting.contexts
  BY <1>1, WorksWhenBegun DEF Inv, StartSteps
<1>8. Placed' /\ NoneActivates'
  <2>1. \A b \in Actors : task'[b].pc # "idle" => Place(b) \in setting'.contexts
    BY <1>2, <1>7 DEF Inv, Placed
  <2>2. \A c \in Contexts : open'[c] = "starting" => task'[c].pc \in StartSteps
    BY <1>1, <1>2, <1>7, PlaceTypes DEF Inv, Placed, Begun
  <2>3. \A b \in Callers : open'[At[b]] = "starting" => task'[b].pc = "idle"
    BY <1>1, <1>2, <1>7 DEF Inv, Placed, Begun, Place, Actors
  <2>4. NoneActivates'
    BY <1>2 DEF Inv, NoneActivates
  <2> QED BY <1>1, <2>1, <2>2, <2>3, <2>4 DEF Inv, Placed
<1>9. Queued'
  BY <1>1, <1>2, QueueStays DEF record
<1>10. Restored'
  BY <1>1, <1>2, <1>7, PlaceTypes DEF Inv, Types, Restored, Begun
<1>11. Usable'
  <2>1. \A d \in Contexts : d # Place(a) => (Attended(d) => Attended(d)')
    BY <1>1, <1>2, PlaceTypes, InvTypes DEF Attended, Refrains, SessionTypes
  <2>2. Decides(a)' /\ \A b \in Actors : Decides(b) => Decides(b)'
    BY <1>2 DEF Decides
  <2>3. spent'["fault"] \in Nat /\ spent'["fault"] >= spent["fault"]
    BY <1>1, InvTypes
  <2> QED BY <1>1, <1>7, <2>1, <2>2, <2>3, DropUsable DEF record
<1> QED BY <1>5, <1>6, <1>8, <1>9, <1>10, <1>11 DEF Inv

LEMMA CloseKeeps ==
  ASSUME Inv, NEW c \in setting.contexts, Close(c), UNCHANGED setting
  PROVE  Inv'
<1>1. /\ open[c] = "open" /\ open' = [open EXCEPT ![c] = "closed"] /\ cleaned' = cleaned \cup ({session[c]} \ {0})
      /\ session' = [session EXCEPT ![c] = 0] /\ UNCHANGED <<record, made, kept, leader, task>> /\ Spend("close")
  BY DEF Close
<1>2. c \in Contexts
  BY InvTypes
<1>3. SpentTypes' /\ spent'["fault"] = spent["fault"] /\ spent["fault"] \in Nat
  BY <1>1, SpendEffect, InvTypes DEF Kinds
<1>4. SessionTypes' /\ Owned' /\ Exclusive' /\ Accounted'
  BY <1>1, <1>2, <1>3, DropKeeps DEF RollsBack
<1>5. /\ open' \in [Contexts -> {"starting", "open", "closed"}] /\ open'[c] = "closed"
      /\ \A d \in Contexts : d # c => open'[d] = open[d] /\ session'[d] = session[d]
  BY <1>1, <1>2, InvTypes DEF OpenTypes, SessionTypes
<1>6. Types'
  BY <1>1, <1>3, <1>4, <1>5 DEF Inv, Types, SessionTypes, SpentTypes, record
<1>7. Placed' /\ NoneActivates'
  BY <1>1, <1>5, PlacesAssumption DEF Inv, Placed, NoneActivates
<1>8. Queued'
  BY <1>1, QueueStays DEF record
<1>9. Restored'
  BY <1>1, <1>3, <1>5 DEF Inv, Restored
<1>10. Usable'
  BY <1>1, <1>3, <1>5, DropUsable DEF Attended, Refrains, Decides, record
<1> QED BY <1>4, <1>6, <1>7, <1>8, <1>9, <1>10 DEF Inv

\* Nothing of a page's memory is left after it is loaded again, and nobody waits for what it wrote last.
LEMMA ReloadKeeps ==
  ASSUME Inv, NEW c \in setting.contexts, Reload(c), UNCHANGED setting
  PROVE  Inv'
<1>1. PICK n \in 0..Len(queue[c]) :
      /\ open' = [open EXCEPT ![c] = "starting"] /\ session' = [session EXCEPT ![c] = 0]
      /\ cleaned' = cleaned \cup {h \in 1..MaxSession : made[h] = c}
      /\ task' = [a \in Actors |-> IF Place(a) = c THEN Idle ELSE task[a]]
      /\ queue' = [queue EXCEPT ![c] = [i \in 1..n |-> [queue[c][i] EXCEPT !.by = Nobody]]]
      /\ UNCHANGED <<status, due, missed, made, kept>> /\ Spend("reload") /\ leader' \in Contexts \cup {Nobody}
  BY DEF Reload, Inv, Types
<1>2. c \in Contexts
  BY InvTypes
<1>3. SpentTypes' /\ spent'["fault"] = spent["fault"] /\ spent["fault"] \in Nat
  BY <1>1, SpendEffect, InvTypes DEF Kinds
<1>4. /\ \A a \in Actors : Place(a) = c => task'[a].pc = "idle" /\ task'[a].previous = 0 /\ task'[a].new = 0 /\ task'[a].to # "active"
      /\ \A a \in Actors : Place(a) # c => task'[a] = task[a]
      /\ TaskTypes'
  BY <1>1, IdleTypes, InvTypes DEF TaskTypes
<1>5. \A a \in Actors : RollsBack(a)' => RollsBack(a) /\ Place(a) # c
  BY <1>4 DEF RollsBack
<1>6. session'[c] = 0 /\ \A d \in Contexts : d # c => session'[d] = session[d]
  BY <1>1, <1>2 DEF Inv, Types
<1>7. open' \in [Contexts -> {"starting", "open", "closed"}] /\ open'[c] = "starting" /\ \A d \in Contexts : d # c => open'[d] = open[d]
  BY <1>1, <1>2 DEF Inv, Types
<1>8. /\ queue' \in [Contexts -> Seq(RecordWrites)] /\ \A d \in Contexts : d # c => queue'[d] = queue[d]
      /\ \A i \in DOMAIN queue'[c] : queue'[c][i].by = Nobody
  <2> DEFINE q == [i \in 1..n |-> [queue[c][i] EXCEPT !.by = Nobody]]
  <2>1. /\ queue[c] \in Seq(RecordWrites) /\ Len(queue[c]) \in Nat /\ n \in Nat
        /\ \A i \in 1..n : queue[c][i] \in RecordWrites
    BY <1>2, EntryTypes
  <2>2. \A w \in RecordWrites : [w EXCEPT !.by = Nobody] \in RecordWrites /\ [w EXCEPT !.by = Nobody].by = Nobody
    BY DEF RecordWrites
  <2>3. \A i \in 1..n : q[i] \in RecordWrites /\ q[i].by = Nobody
    BY <2>1, <2>2
  <2>4. q \in [1..n -> RecordWrites]
    BY <2>3
  <2>5. q \in Seq(RecordWrites) /\ DOMAIN q = 1..n
    <3> HIDE DEF q
    <3>1. DOMAIN q = 1..n
      BY <2>4
    <3>2. q \in Seq(RecordWrites)
      BY <2>1, <2>4, SeqDef
    <3> QED BY <3>1, <3>2
  <2>6. queue \in [Contexts -> Seq(RecordWrites)] /\ queue' = [queue EXCEPT ![c] = q]
    BY <1>1, InvTypes DEF RecordTypes
  <2> HIDE DEF q
  <2> QED BY <1>2, <2>3, <2>5, <2>6
<1>9. Types'
  <2>1. session' \in [Contexts -> 0..MaxSession] /\ cleaned' \subseteq 1..MaxSession
    <3>1. session' \in [Contexts -> 0..MaxSession]
      <4>1. session \in [Contexts -> 0..MaxSession] /\ session' = [session EXCEPT ![c] = 0] /\ 0 \in 0..MaxSession
        BY <1>1, SessionAssumption DEF Inv, Types
      <4> QED BY <4>1
    <3>2. cleaned \subseteq 1..MaxSession
      BY DEF Inv, Types
    <3> QED BY <1>1, <3>1, <3>2
  <2> QED BY <1>1, <1>3, <1>4, <1>7, <1>8, <2>1 DEF Inv, Types, TaskTypes, Tasks, SpentTypes
<1>10. Placed' /\ NoneActivates'
  <2>1. \A d \in Contexts : open'[d] # "closed" => d \in setting'.contexts
    BY <1>7 DEF Inv, Placed
  <2>2. \A a \in Actors : task'[a].pc # "idle" => Place(a) \in setting'.contexts
    BY <1>4 DEF Inv, Placed
  <2>3. \A d \in Contexts : open'[d] = "starting" => task'[d].pc \in StartSteps
    BY <1>4, <1>7, PlaceTypes DEF Inv, Placed, StartSteps
  <2>4. \A a \in Callers : open'[At[a]] = "starting" => task'[a].pc = "idle"
    BY <1>4, <1>7, PlaceTypes DEF Inv, Placed, Actors, Place
  <2>5. NoneActivates'
    BY <1>4 DEF Inv, NoneActivates
  <2> QED BY <2>1, <2>2, <2>3, <2>4, <2>5 DEF Placed
<1>11. Queued'
  <2>1. ASSUME NEW d \in Contexts, NEW i \in DOMAIN queue'[d], queue'[d][i].by # Nobody
        PROVE  /\ Place(queue'[d][i].by) = d /\ task'[queue'[d][i].by].pc = "writing"
               /\ \A j \in DOMAIN queue'[d] : queue'[d][j].by = queue'[d][i].by => j = i
    <3>1. d # c /\ queue'[d] = queue[d] /\ queue[d][i].by \in Actors
      BY <1>8, <2>1, EntryTypes
    <3> QED BY <1>4, <2>1, <3>1 DEF Inv, Queued
  <2>2. \A d \in Contexts : \A i \in DOMAIN queue'[d] : d \in setting'.contexts
    BY <1>8 DEF Inv, Queued
  <2> QED BY <2>1, <2>2 DEF Queued
<1>12. Owned'
  <2>1. \A a \in Actors : task'[a].new # 0 => task'[a].pc \in {"writing", "settle", "rollback"}
    BY <1>4 DEF Inv, Owned
  <2>2. \A a \in Actors : task'[a].new = 0 => task'[a].previous = 0
    BY <1>4 DEF Inv, Owned
  <2> QED BY <1>1, <1>3, <1>4, <1>5, <1>6, <2>1, <2>2 DEF Inv, Owned
<1>13. Exclusive'
  <2>1. SUFFICES ASSUME spent["fault"] <= 1
        PROVE  /\ \A d \in Contexts : session'[d] \notin cleaned'
               /\ \A a \in Actors, d \in Contexts : task'[a].previous # 0 => task'[a].previous # session'[d]
               /\ \A a, b \in Actors : RollsBack(a)' /\ RollsBack(b)' => a = b
               /\ \A a \in Actors : (RollsBack(a)' \/ spent["fault"] = 0) /\ task'[a].previous # 0 =>
                    /\ task'[a].previous \notin cleaned' /\ task'[a].previous # task'[a].new
                    /\ \A b \in Actors : b # a => task'[a].previous # task'[b].previous
    BY <1>3 DEF Exclusive
  <2>2. ASSUME NEW d \in Contexts PROVE session'[d] \notin cleaned'
    <3>1. CASE session'[d] = 0
      BY <1>1, <3>1, InvTypes
    <3>2. CASE session'[d] # 0
      <4>1. session'[d] = session[d] /\ made[session[d]] = d /\ d # c
        BY <1>6, <3>2 DEF Inv, Owned
      <4> QED BY <1>1, <2>1, <4>1 DEF Inv, Exclusive
    <3> QED BY <3>1, <3>2
  <2>3. ASSUME NEW a \in Actors, RollsBack(a)' \/ spent["fault"] = 0, task'[a].previous # 0
        PROVE  /\ task'[a].previous \notin cleaned' /\ task'[a].previous # task'[a].new
               /\ \A b \in Actors : b # a => task'[a].previous # task'[b].previous
    <3>1. Place(a) # c /\ task'[a] = task[a] /\ made[task[a].previous] = Place(a)
      BY <1>4, <2>3 DEF Inv, Owned
    <3>2. RollsBack(a) \/ spent["fault"] = 0
      BY <1>5, <2>3
    <3>3. task'[a].previous \notin cleaned' /\ task'[a].previous # task'[a].new
      BY <1>1, <2>1, <2>3, <3>1, <3>2 DEF Inv, Exclusive
    <3>4. \A b \in Actors : b # a => task'[a].previous # task'[b].previous
      BY <1>4, <2>1, <2>3, <3>1, <3>2 DEF Inv, Exclusive
    <3> QED BY <3>3, <3>4
  <2>4. \A a \in Actors, d \in Contexts : task'[a].previous # 0 => task'[a].previous # session'[d]
    BY <1>4, <1>6, <2>1 DEF Inv, Exclusive
  <2>5. \A a, b \in Actors : RollsBack(a)' /\ RollsBack(b)' => a = b
    BY <1>5, <2>1 DEF Inv, Exclusive
  <2> QED BY <2>2, <2>3, <2>4, <2>5
<1>14. Accounted'
  <2>1. SUFFICES ASSUME spent["fault"] = 0, NEW g \in 1..MaxSession, NEW d \in Contexts, made[g] = d
        PROVE  g \in cleaned' \/ g = session'[d] \/ \E a \in Actors : Place(a) = d /\ g = task'[a].previous
    BY <1>1, <1>3 DEF Accounted
  <2>2. CASE d = c
    BY <1>1, <2>1, <2>2
  <2>3. CASE d # c
    BY <1>1, <1>4, <1>6, <2>1, <2>3 DEF Inv, Accounted
  <2> QED BY <2>2, <2>3
<1>15. Restored'
  BY <1>3, <1>4, <1>6, <1>7, PlaceTypes DEF Inv, Restored
<1>16. Usable'
  <2>1. Attended(c)' /\ \A d \in Contexts : d # c => (Attended(d) => Attended(d)')
    BY <1>2, <1>4, <1>6, <1>7, PlaceTypes DEF Attended, Refrains
  <2>2. \A a \in Actors : Place(a) # c => (Decides(a) => Decides(a)')
    BY <1>4 DEF Decides
  <2> QED BY <1>1, <1>3, <1>8, <2>1, <2>2, DropUsable
<1> QED BY <1>9, <1>10, <1>11, <1>12, <1>13, <1>14, <1>15, <1>16 DEF Inv

----------------------------------------------------------------------------
(* Theorems *)

LEMMA InitInv == Init => Inv
<1> SUFFICES ASSUME Init PROVE Inv
  OBVIOUS
<1>1. Types
  <2>1. queue \in [Contexts -> Seq(RecordWrites)]
    BY DEF Init
  <2> QED BY <2>1, IdleTypes, SessionAssumption, SettingsAssumption DEF Init, Types, Tasks, Statuses, Kinds
<1>2. \A a \in Actors : task[a] = Idle
  BY DEF Init
<1>3. Placed /\ NoneActivates /\ Queued
  <2>1. Placed /\ NoneActivates
    BY <1>2, IdleTypes DEF Init, Placed, NoneActivates, Actors, StartSteps
  <2>2. \A c \in Contexts : DOMAIN queue[c] = {}
    <3>1. \A c \in Contexts : queue[c] = <<>>
      BY DEF Init
    <3>2. DOMAIN <<>> = {}
      OBVIOUS
    <3> QED BY <3>1, <3>2
  <2> QED BY <2>1, <2>2 DEF Queued
<1>4. Owned /\ Exclusive
  BY <1>2, IdleTypes DEF Init, Owned, Exclusive, RollsBack
<1>5. Accounted
  BY PlacesAssumption DEF Init, Accounted
<1>6. Restored
  BY <1>2, IdleTypes, PlaceTypes DEF Restored
<1>7. Usable
  BY DEF Init, Usable, RecordAttended, WritesAttended
<1> QED BY <1>1, <1>3, <1>4, <1>5, <1>6, <1>7 DEF Inv

LEMMA StepInv == Inv /\ [Next]_vars => Inv'
<1> SUFFICES ASSUME Inv, [Next]_vars PROVE Inv'
  OBVIOUS
<1>1. CASE UNCHANGED vars
  BY <1>1 DEF vars, moving, record, sessions, Inv, Types, Placed, NoneActivates, Queued, Owned, Exclusive, Accounted, Restored,
              Usable, RecordAttended, WritesAttended, Attended, Refrains, Decides, EndsAfter, RollsBack
<1>2. CASE Next
  <2>1. Step /\ UNCHANGED setting
    BY <1>2 DEF Next
  <2>2. CASE \E a \in setting.callers : Calls(a)
    BY <2>1, <2>2, CallKeeps
  <2>3. CASE \E a \in Actors : Answers(a)
    BY <2>1, <2>3, AnswerKeeps
  <2>4. CASE \E a \in Actors : Works(a)
    BY <2>1, <2>4, EstablishKeeps, SettleKeeps, RollbackKeeps, FailsKeeps, ReleaseKeeps, WriteKeeps DEF Works
  <2>5. CASE \E c \in setting.contexts : RunsOn(c)
    BY <2>1, <2>5, RefreshKeeps, RefreshMissingKeeps, StartWithoutKeeps DEF RunsOn, Refreshes, Starts
  <2>6. CASE \E c \in setting.contexts : Close(c) \/ Reload(c)
    BY <2>1, <2>6, CloseKeeps, ReloadKeeps
  <2>7. CASE LoseLeadership \/ Expire \/ \E c \in setting.contexts : Lead(c)
    BY <2>1, <2>7, LeadershipKeeps
  <2>8. CASE \E c \in Contexts : Persist(c)
    BY <2>1, <2>8, PersistKeeps
  <2> QED BY <2>1, <2>2, <2>3, <2>4, <2>5, <2>6, <2>7, <2>8 DEF Step, GoesOn
<1> QED BY <1>1, <1>2

\* Sessions are held in the context that made them and by operations that still write, settle or roll back; none
\* has a second owner while one write at most has failed, none is without one while none has, and an active record
\* has a manager or an end.
THEOREM Invariance == Spec => []Inv
<1> QED BY InitInv, StepInv, PTL DEF Spec

\* The state of the managers keeps its types, and nobody calls a manager that is starting.
THEOREM TypeCorrect == Spec => []TypeOK
<1>1. Inv => TypeOK
  BY DEF Inv, Placed, TypeOK
<1> QED BY <1>1, Invariance, PTL

\* A user's session is not cleaned up under the manager that uses it while one write at most has failed; while
\* none has, no session is forgotten, and an active connection has one unless a decision to end it was lost on a
\* record that was still being written (applyEstablishedConnection, releaseSession, updateConnection, cleanup and
\* the start of a manager, in any interleaving of their steps with the writes they await).
THEOREM SessionsKept == Spec => []SessionsAreKept
<1>1. Inv => SessionIsOpen /\ NothingLeaks
  BY DEF Inv, Exclusive, Accounted, SessionIsOpen, NothingLeaks
<1>2. Inv => ActiveIsUsable
  <2>1. SUFFICES ASSUME Inv, status = "active", spent["fault"] = 0, ~missed
        PROVE  \/ \E c \in setting.contexts : session[c] # 0 \/ open[c] # "open"
               \/ \E a \in Actors : task[a].pc = "write"
               \/ \E c \in Contexts : \E i \in DOMAIN queue[c] : queue[c][i].to # "active"
    BY DEF ActiveIsUsable
  <2>2. RecordAttended
    BY <2>1 DEF Inv, Usable
  <2> QED BY <2>1, <2>2 DEF RecordAttended, Attended, Decides, EndsAfter
<1>3. Inv => SessionsAreKept
  BY <1>1, <1>2 DEF SessionsAreKept
<1> QED BY <1>3, Invariance, PTL

----------------------------------------------------------------------------
(* The life of a live ontology: the inductive invariant *)

Parts == {"outbox", "blobs", "backend", "runtime"}
Conditions == {"idle", "loading", "ready", "error", "cleaned-up"}

PartTypes ==
  parts \in [Parts -> {"starting", "up", "failed", "down", "destroyed"}] /\ parts["outbox"] # "destroyed"
StatusTypes == condition \in [Collections -> Conditions]
CallStages == {"idle", "resolving", "waiting", "asked", "queued", "showing", "preparing", "applying", "binding", "resolved",
               "rejected"}
Doing == [stage : CallStages, shown : BOOLEAN, heard : {"no", "registered", "late", "disposed"}]
DoingTypes == doing \in [LiveCalls -> Doing]

\* What the cleanup has behind it, by what it waits for.
OutboxIsBehind ==
  teardown \in {"objects", "collections", "stores", "failed", "done"} => parts["outbox"] \in {"down", "failed"}
CollectionsAreBehind ==
  teardown \in {"stores", "failed", "done"} => \A c \in Collections : condition[c] = "cleaned-up"
StoresAreBehind == teardown = "done" => parts["blobs"] = "down" /\ parts["backend"] = "down"
RuntimeIsLast == parts["runtime"] # "up" => teardown = "done"

TeardownInOrder == OutboxIsBehind /\ CollectionsAreBehind /\ StoresAreBehind /\ RuntimeIsLast

LifeInv == PartTypes /\ StatusTypes /\ DoingTypes /\ TeardownInOrder /\ RegisteredIsServed

----------------------------------------------------------------------------
(* Initially, and by group of actions *)

LEMMA LifeStarts == LifeInit => LifeInv
<1> SUFFICES ASSUME LifeInit PROVE LifeInv
  OBVIOUS
<1>1. PartTypes /\ parts["runtime"] = "up" /\ teardown = "none"
  BY DEF LifeInit, PartTypes, Parts
<1>2. StatusTypes
  BY DEF LifeInit, StatusTypes, Conditions
<1>3. DoingTypes /\ RegisteredIsServed
  BY DEF LifeInit, DoingTypes, Doing, CallStages, NoDoing, RegisteredIsServed
<1> QED BY <1>1, <1>2, <1>3 DEF LifeInv, TeardownInOrder, OutboxIsBehind, CollectionsAreBehind, StoresAreBehind, RuntimeIsLast

\* The start of a parts, which has not been awaited yet.
LEMMA StartKeeps ==
  ASSUME LifeInv, NEW p \in {"outbox", "blobs"}, NEW outcome \in {"up", "failed"}, PartStarted(p, outcome)
  PROVE  LifeInv'
<1>1. parts' = [parts EXCEPT ![p] = outcome] /\ parts[p] = "starting" /\ UNCHANGED <<condition, doing, teardown>>
  BY DEF PartStarted
<1>2. PartTypes' /\ StatusTypes' /\ DoingTypes'
  BY <1>1 DEF LifeInv, PartTypes, Parts, StatusTypes, DoingTypes
<1>3. TeardownInOrder'
  BY <1>1 DEF LifeInv, PartTypes, Parts, TeardownInOrder, OutboxIsBehind, CollectionsAreBehind, StoresAreBehind, RuntimeIsLast
<1>4. RegisteredIsServed'
  BY <1>1 DEF LifeInv, PartTypes, Parts, RegisteredIsServed
<1> QED BY <1>2, <1>3, <1>4 DEF LifeInv

\* Steps of the collections and of those that wait for them.
LEMMA CollectionsKeep ==
  ASSUME LifeInv, UNCHANGED <<parts, doing, teardown>>,
         StatusTypes', \A c \in Collections : condition[c] = "cleaned-up" => condition'[c] = "cleaned-up"
  PROVE  LifeInv'
<1>1. PartTypes' /\ DoingTypes' /\ RegisteredIsServed'
  BY DEF LifeInv, PartTypes, DoingTypes, RegisteredIsServed
<1>2. TeardownInOrder'
  BY DEF LifeInv, TeardownInOrder, OutboxIsBehind, CollectionsAreBehind, StoresAreBehind, RuntimeIsLast
<1> QED BY <1>1, <1>2 DEF LifeInv

LEMMA CollectionStep ==
  ASSUME LifeInv, NEW c \in Collections,
         Query(c) \/ CollectionDown(c) \/ \E outcome \in {"ready", "error"} : CollectionStarted(c, outcome)
  PROVE  LifeInv'
<1>1. PICK to \in {"loading", "ready", "error", "cleaned-up"} :
        /\ condition' = [condition EXCEPT ![c] = to]
        /\ condition[c] # "cleaned-up"
        /\ UNCHANGED <<parts, doing, teardown>>
  BY DEF Query, CollectionDown, CollectionStarted
<1>2. StatusTypes'
  BY <1>1 DEF LifeInv, StatusTypes, Conditions
<1>3. \A x \in Collections : condition[x] = "cleaned-up" => condition'[x] = "cleaned-up"
  BY <1>1 DEF LifeInv, StatusTypes
<1> QED BY <1>1, <1>2, <1>3, CollectionsKeep

LEMMA WaitStep ==
  ASSUME LifeInv, NEW r \in Readers, WaitForReady(r) \/ WaitForCollections(r)
  PROVE  LifeInv'
<1>1. UNCHANGED <<parts, doing, teardown>>
  BY DEF WaitForReady, WaitForCollections
<1>2. \/ condition' = condition
      \/ condition' = [c \in Collections |-> IF condition[c] = "idle" THEN "loading" ELSE condition[c]]
  BY DEF WaitForReady, WaitForCollections
<1>3. StatusTypes'
  BY <1>2 DEF LifeInv, StatusTypes, Conditions
<1>4. \A x \in Collections : condition[x] = "cleaned-up" => condition'[x] = "cleaned-up"
  BY <1>2 DEF LifeInv, StatusTypes
<1> QED BY <1>1, <1>3, <1>4, CollectionsKeep

\* Steps of a call: it is registered only with an outbox that is up.
LEMMA LiveCallKeeps ==
  ASSUME LifeInv, UNCHANGED alone, NEW c \in LiveCalls, NEW to \in CallStages, NEW shown \in BOOLEAN,
         NEW heard \in {"no", "registered", "late", "disposed"}, heard = "registered" => parts["outbox"] = "up",
         doing' = [doing EXCEPT ![c] = [stage |-> to, shown |-> shown, heard |-> heard]]
  PROVE  LifeInv'
<1>1. PartTypes' /\ StatusTypes' /\ TeardownInOrder'
  BY DEF LifeInv, PartTypes, StatusTypes, alone, TeardownInOrder, OutboxIsBehind, CollectionsAreBehind, StoresAreBehind,
         RuntimeIsLast
<1>2. DoingTypes'
  BY DEF LifeInv, DoingTypes, Doing
<1>3. RegisteredIsServed'
  BY DEF LifeInv, DoingTypes, RegisteredIsServed, alone
<1> QED BY <1>1, <1>2, <1>3 DEF LifeInv

\* The record of a call with some of its fields changed.
LEMMA StageForm ==
  ASSUME NEW d \in Doing, NEW to \in CallStages
  PROVE  [d EXCEPT !.stage = to] = [stage |-> to, shown |-> d.shown, heard |-> d.heard]
  BY DEF Doing

LEMMA ShownForm ==
  ASSUME NEW d \in Doing, NEW to \in CallStages, NEW shown \in BOOLEAN
  PROVE  [d EXCEPT !.stage = to, !.shown = shown] = [stage |-> to, shown |-> shown, heard |-> d.heard]
<1> DEFINE e == [d EXCEPT !.stage = to, !.shown = shown]
<1>1. e \in Doing /\ e.stage = to /\ e.shown = shown /\ e.heard = d.heard
  BY DEF Doing
<1>2. \A r \in Doing : r = [stage |-> r.stage, shown |-> r.shown, heard |-> r.heard]
  BY DEF Doing
<1> HIDE DEF e
<1>3. e = [stage |-> to, shown |-> shown, heard |-> d.heard]
  BY <1>1, <1>2, Zenon
<1> QED BY <1>3 DEF e

LEMMA HeardForm ==
  ASSUME NEW d \in Doing, NEW to \in CallStages, NEW heard \in {"no", "registered", "late", "disposed"}
  PROVE  [d EXCEPT !.stage = to, !.heard = heard] = [stage |-> to, shown |-> d.shown, heard |-> heard]
<1> DEFINE e == [d EXCEPT !.stage = to, !.heard = heard]
<1>1. e \in Doing /\ e.stage = to /\ e.shown = d.shown /\ e.heard = heard
  BY DEF Doing
<1>2. \A r \in Doing : r = [stage |-> r.stage, shown |-> r.shown, heard |-> r.heard]
  BY DEF Doing
<1> HIDE DEF e
<1>3. e = [stage |-> to, shown |-> d.shown, heard |-> heard]
  BY <1>1, <1>2, Zenon
<1> QED BY <1>3 DEF e

LEMMA GoesForm ==
  ASSUME DoingTypes, NEW c \in LiveCalls, NEW from, NEW to \in CallStages, Goes(c, from, to)
  PROVE  doing' = [doing EXCEPT ![c] = [stage |-> to, shown |-> doing[c].shown, heard |-> doing[c].heard]]
<1>1. doing' = [doing EXCEPT ![c] = [doing[c] EXCEPT !.stage = to]]
  BY DEF Goes
<1>2. doing[c] \in Doing
  BY DEF DoingTypes
<1> QED BY <1>1, <1>2, StageForm, Zenon

LEMMA EndsForm ==
  ASSUME DoingTypes, NEW c \in LiveCalls, NEW from, NEW to \in CallStages, Ends(c, from, to)
  PROVE  doing' = [doing EXCEPT ![c] = [stage |-> to, shown |-> FALSE, heard |-> doing[c].heard]]
<1>1. doing[c] \in Doing
  BY DEF DoingTypes
<1>2. [doing[c] EXCEPT !.stage = to, !.shown = FALSE] = [stage |-> to, shown |-> FALSE, heard |-> doing[c].heard]
  BY <1>1, ShownForm, Zenon
<1>3. doing' = [doing EXCEPT ![c] = [doing[c] EXCEPT !.stage = to, !.shown = FALSE]]
  BY DEF Ends, DoingTypes
<1> QED BY <1>2, <1>3, Zenon

LEMMA CallStep ==
  ASSUME LifeInv, NEW c \in LiveCalls,
         \/ Call(c) \/ Submit(c) \/ Enqueue(c) \/ Enqueued(c) \/ Optimistic(c) \/ Prepared(c) \/ Applied(c) \/ Bound(c)
         \/ CallFails(c)
         \/ \E outcome \in {"resolved", "rejected"} : Executed(c, outcome)
  PROVE  LifeInv'
<1>1. /\ DoingTypes /\ doing[c] \in Doing /\ doing[c].shown \in BOOLEAN
      /\ doing[c].heard \in {"no", "registered", "late", "disposed"}
      /\ doing[c].heard = "registered" => parts["outbox"] = "up"
      /\ \A stage \in {"resolving", "waiting", "asked", "queued", "showing", "preparing", "applying", "binding", "resolved",
                       "rejected"} : stage \in CallStages
  BY DEF LifeInv, DoingTypes, Doing, RegisteredIsServed, CallStages
<1>2. ASSUME UNCHANGED alone, NEW from, NEW to \in CallStages, Goes(c, from, to)
      PROVE  LifeInv'
  <2>1. doing' = [doing EXCEPT ![c] = [stage |-> to, shown |-> doing[c].shown, heard |-> doing[c].heard]]
    BY <1>1, <1>2, GoesForm
  <2> QED BY <1>1, <1>2, <2>1, LiveCallKeeps
<1>3. ASSUME UNCHANGED alone, NEW from, NEW to \in CallStages, Ends(c, from, to)
      PROVE  LifeInv'
  <2>1. doing' = [doing EXCEPT ![c] = [stage |-> to, shown |-> FALSE, heard |-> doing[c].heard]]
    BY <1>1, <1>3, EndsForm
  <2> QED BY <1>1, <1>3, <2>1, LiveCallKeeps
<1>4. CASE Call(c) \/ Prepared(c) \/ Applied(c) \/ \E outcome \in {"resolved", "rejected"} : Executed(c, outcome)
  BY <1>1, <1>2, <1>4 DEF Call, Prepared, Applied, Executed
<1>5. CASE Submit(c)
  <2> DEFINE to == IF manner[c].mode = "outbox" THEN "waiting"
                   ELSE IF manner[c].visibility = "optimistic" THEN "showing" ELSE "preparing"
  <2>1. to \in CallStages
    BY <1>1
  <2>2. Goes(c, "resolving", to) /\ UNCHANGED alone
    BY <1>5 DEF Submit
  <2> HIDE DEF to
  <2> QED BY <1>2, <2>1, <2>2
<1>6. CASE Enqueued(c)
  <2> DEFINE to == IF doing[c].heard = "disposed" THEN "rejected" ELSE "queued"
  <2>1. to \in CallStages
    BY <1>1
  <2>2. Goes(c, "asked", to) /\ UNCHANGED alone
    BY <1>6 DEF Enqueued
  <2> HIDE DEF to
  <2> QED BY <1>2, <2>1, <2>2
<1>7. CASE Bound(c) \/ CallFails(c)
  BY <1>1, <1>3, <1>7 DEF Bound, CallFails
<1>8. CASE Optimistic(c)
  <2>1. PICK changes \in BOOLEAN : doing' = [doing EXCEPT ![c].stage = "preparing", ![c].shown = changes]
    BY <1>8 DEF Optimistic
  <2>2. doing' = [doing EXCEPT ![c] = [doing[c] EXCEPT !.stage = "preparing", !.shown = changes]]
    BY <2>1 DEF LifeInv, DoingTypes
  <2>3. doing' = [doing EXCEPT ![c] = [stage |-> "preparing", shown |-> changes, heard |-> doing[c].heard]]
    <3>1. "preparing" \in CallStages
      BY <1>1
    <3>2. [doing[c] EXCEPT !.stage = "preparing", !.shown = changes]
            = [stage |-> "preparing", shown |-> changes, heard |-> doing[c].heard]
      BY <1>1, <3>1, ShownForm, Zenon
    <3> QED BY <2>2, <3>2, Zenon
  <2> QED BY <1>1, <1>8, <2>3, LiveCallKeeps DEF Optimistic
<1>9. CASE Enqueue(c)
  <2>1. doing[c].stage = "waiting" /\ UNCHANGED alone
    BY <1>9 DEF Enqueue
  <2>2. CASE parts["outbox"] = "failed"
    <3>1. doing' = [doing EXCEPT ![c] = [doing[c] EXCEPT !.stage = "rejected"]]
      BY <1>9, <2>2 DEF Enqueue
    <3>2. doing' = [doing EXCEPT ![c] = [stage |-> "rejected", shown |-> doing[c].shown, heard |-> doing[c].heard]]
      <4>1. "rejected" \in CallStages
        BY <1>1
      <4> QED BY <1>1, <3>1, <4>1, StageForm, Zenon
    <3> QED BY <1>1, <2>1, <3>2, LiveCallKeeps
  <2>3. CASE parts["outbox"] # "failed"
    <3> DEFINE heard == IF parts["outbox"] = "up" THEN "registered" ELSE "late"
    <3>1. doing' = [doing EXCEPT ![c] = [doing[c] EXCEPT !.stage = "asked", !.heard = heard]]
      BY <1>9, <2>3 DEF Enqueue
    <3>2. heard \in {"no", "registered", "late", "disposed"} /\ (heard = "registered" => parts["outbox"] = "up")
      OBVIOUS
    <3> HIDE DEF heard
    <3>3. doing' = [doing EXCEPT ![c] = [stage |-> "asked", shown |-> doing[c].shown, heard |-> heard]]
      <4>1. "asked" \in CallStages /\ heard \in {"no", "registered", "late", "disposed"}
        BY <1>1, <3>2
      <4>2. [doing[c] EXCEPT !.stage = "asked", !.heard = heard]
              = [stage |-> "asked", shown |-> doing[c].shown, heard |-> heard]
        BY <1>1, <4>1, HeardForm, Zenon
      <4> QED BY <3>1, <4>2, Zenon
    <3> QED BY <1>1, <2>1, <3>2, <3>3, LiveCallKeeps
  <2> QED BY <2>2, <2>3
<1> QED BY <1>4, <1>5, <1>6, <1>7, <1>8, <1>9

----------------------------------------------------------------------------
(* Cleanup *)

\* The cleanup is asked for, or waits for the outbox.
LEMMA CleanupBegins ==
  ASSUME LifeInv, Cleanup \/ Settled \/ Destroy
  PROVE  LifeInv'
<1>1. UNCHANGED <<parts, condition, doing>> /\ (teardown' = teardown \/ teardown' \in {"settling", "outbox"})
  BY DEF Cleanup, Settled, Destroy
<1>2. teardown' # teardown => teardown \in {"none", "settling"}
  BY DEF Cleanup, Settled, Destroy
<1>3. TeardownInOrder'
  BY <1>1, <1>2 DEF LifeInv, TeardownInOrder, OutboxIsBehind, CollectionsAreBehind, StoresAreBehind, RuntimeIsLast
<1> QED BY <1>1, <1>3 DEF LifeInv, PartTypes, StatusTypes, DoingTypes, RegisteredIsServed

\* The outbox rejects the completions that are registered before it is gone.
LEMMA OutboxDownKeeps ==
  ASSUME LifeInv, OutboxDown
  PROVE  LifeInv'
<1>1. /\ parts' = [parts EXCEPT !["outbox"] = IF parts["outbox"] = "up" THEN "down" ELSE parts["outbox"]]
      /\ parts["outbox"] # "starting" /\ teardown = "outbox" /\ teardown' = "objects"
      /\ UNCHANGED condition /\ doing' = Disposed(doing)
  BY DEF OutboxDown
<1>2. PartTypes' /\ parts'["outbox"] \in {"down", "failed"} /\ parts'["runtime"] = parts["runtime"]
  BY <1>1 DEF LifeInv, PartTypes, Parts
<1>3. TeardownInOrder'
  BY <1>1, <1>2 DEF LifeInv, TeardownInOrder, OutboxIsBehind, CollectionsAreBehind, StoresAreBehind, RuntimeIsLast
<1>4. ASSUME NEW c \in LiveCalls
      PROVE  /\ doing'[c] \in Doing
             /\ doing'[c].heard # "registered"
  <2>1. doing[c] \in Doing
    BY DEF LifeInv, DoingTypes
  <2>2. doing'[c] = IF doing[c].heard # "registered" THEN doing[c]
                    ELSE [doing[c] EXCEPT !.heard = "disposed",
                                          !.stage = IF doing[c].stage = "queued" THEN "rejected" ELSE doing[c].stage]
    BY <1>1 DEF Disposed
  <2>3. CASE doing[c].heard # "registered"
    BY <2>1, <2>2, <2>3, Zenon
  <2>4. CASE doing[c].heard = "registered"
    BY <2>1, <2>2, <2>4 DEF Doing, CallStages
  <2> QED BY <2>3, <2>4
<1>5. DoingTypes'
  BY <1>1, <1>4 DEF DoingTypes, Disposed
<1>6. RegisteredIsServed'
  BY <1>4 DEF RegisteredIsServed
<1>7. StatusTypes'
  BY <1>1 DEF LifeInv, StatusTypes
<1> QED BY <1>2, <1>3, <1>5, <1>6, <1>7 DEF LifeInv

\* The collections, then the stores are next; no collection that was cleaned up comes back.
LEMMA ObjectsDownKeeps ==
  ASSUME LifeInv, ObjectsDown \/ StoresDown
  PROVE  LifeInv'
<1>1. PartTypes' /\ DoingTypes' /\ RegisteredIsServed' /\ UNCHANGED parts
  BY DEF LifeInv, ObjectsDown, StoresDown, PartTypes, DoingTypes, RegisteredIsServed
<1>2. CASE ObjectsDown
  <2>1. /\ teardown = "objects" /\ teardown' = "collections"
        /\ condition' = [c \in Collections |-> IF condition[c] = "loading" THEN "loading" ELSE "cleaned-up"]
    BY <1>2 DEF ObjectsDown
  <2>2. StatusTypes'
    BY <2>1 DEF StatusTypes, Conditions
  <2>3. TeardownInOrder'
    BY <1>1, <2>1 DEF LifeInv, TeardownInOrder, OutboxIsBehind, CollectionsAreBehind, StoresAreBehind, RuntimeIsLast
  <2> QED BY <1>1, <2>2, <2>3 DEF LifeInv
<1>3. CASE StoresDown
  <2>1. /\ teardown = "collections" /\ teardown' = "stores" /\ UNCHANGED condition
        /\ \A c \in Collections : condition[c] = "cleaned-up"
    BY <1>3 DEF StoresDown
  <2>2. StatusTypes'
    BY <2>1 DEF LifeInv, StatusTypes
  <2>3. TeardownInOrder'
    BY <1>1, <2>1 DEF LifeInv, TeardownInOrder, OutboxIsBehind, CollectionsAreBehind, StoresAreBehind, RuntimeIsLast
  <2> QED BY <1>1, <2>2, <2>3 DEF LifeInv
<1> QED BY <1>2, <1>3

\* The stores go when the outbox and the collections have; the runtime waits for both of them.
LEMMA StoresKeep ==
  ASSUME LifeInv, TeardownFails \/ RuntimeDown \/ Destroyed \/ \E p \in {"blobs", "backend"} : StoreDown(p)
  PROVE  LifeInv'
<1>1. StatusTypes' /\ DoingTypes' /\ UNCHANGED <<condition, doing>>
  BY DEF LifeInv, TeardownFails, RuntimeDown, Destroyed, StoreDown, StatusTypes, DoingTypes
<1>2. CASE TeardownFails
  <2>1. teardown = "stores" /\ teardown' = "failed" /\ UNCHANGED parts
    BY <1>2 DEF TeardownFails
  <2>2. TeardownInOrder'
    BY <1>1, <2>1 DEF LifeInv, TeardownInOrder, OutboxIsBehind, CollectionsAreBehind, StoresAreBehind, RuntimeIsLast
  <2> QED BY <1>1, <2>1, <2>2 DEF LifeInv, PartTypes, RegisteredIsServed
<1>3. CASE RuntimeDown
  <2>1. /\ teardown = "stores" /\ parts["blobs"] = "down" /\ parts["backend"] = "down"
        /\ parts' = [parts EXCEPT !["runtime"] = "down"] /\ teardown' = "done"
    BY <1>3 DEF RuntimeDown
  <2>2. PartTypes' /\ \A p \in {"outbox", "blobs", "backend"} : parts'[p] = parts[p]
    BY <2>1 DEF LifeInv, PartTypes, Parts
  <2>3. TeardownInOrder'
    BY <1>1, <2>1, <2>2 DEF LifeInv, TeardownInOrder, OutboxIsBehind, CollectionsAreBehind, StoresAreBehind, RuntimeIsLast
  <2>4. RegisteredIsServed'
    BY <1>1, <2>2 DEF LifeInv, RegisteredIsServed
  <2> QED BY <1>1, <2>2, <2>3, <2>4 DEF LifeInv
<1>4. CASE Destroyed
  <2>1. /\ teardown \in {"done", "failed"} /\ UNCHANGED teardown
        /\ parts' = parts \/ (teardown = "done" /\ parts' = [parts EXCEPT !["runtime"] = "destroyed"])
    BY <1>4 DEF Destroyed
  <2>2. PartTypes' /\ \A p \in {"outbox", "blobs", "backend"} : parts'[p] = parts[p]
    BY <2>1 DEF LifeInv, PartTypes, Parts
  <2>3. TeardownInOrder'
    BY <1>1, <2>1, <2>2 DEF LifeInv, TeardownInOrder, OutboxIsBehind, CollectionsAreBehind, StoresAreBehind, RuntimeIsLast
  <2>4. RegisteredIsServed'
    BY <1>1, <2>2 DEF LifeInv, RegisteredIsServed
  <2> QED BY <1>1, <2>2, <2>3, <2>4 DEF LifeInv
<1>5. CASE \E p \in {"blobs", "backend"} : StoreDown(p)
  <2>1. PICK p \in {"blobs", "backend"} : parts' = [parts EXCEPT ![p] = "down"] /\ UNCHANGED teardown
    BY <1>5 DEF StoreDown
  <2>2. PartTypes' /\ \A q \in Parts : parts'[q] = IF q = p THEN "down" ELSE parts[q]
    BY <2>1 DEF LifeInv, PartTypes, Parts
  <2>3. TeardownInOrder'
    BY <1>1, <2>1, <2>2 DEF LifeInv, Parts, TeardownInOrder, OutboxIsBehind, CollectionsAreBehind, StoresAreBehind,
                            RuntimeIsLast
  <2>4. RegisteredIsServed'
    BY <1>1, <2>2 DEF LifeInv, Parts, RegisteredIsServed
  <2> QED BY <1>1, <2>2, <2>3, <2>4 DEF LifeInv
<1> QED BY <1>2, <1>3, <1>4, <1>5

LEMMA LifeStep == LifeInv /\ [LifeNext]_lifeVars => LifeInv'
<1> SUFFICES ASSUME LifeInv, [LifeNext]_lifeVars PROVE LifeInv'
  OBVIOUS
<1>1. CASE UNCHANGED lifeVars
  BY <1>1 DEF lifeVars, LifeInv, PartTypes, StatusTypes, DoingTypes, TeardownInOrder, OutboxIsBehind, CollectionsAreBehind,
              StoresAreBehind, RuntimeIsLast, RegisteredIsServed
<1>2. CASE Proceeds
  BY <1>2, StartKeeps, CollectionStep, WaitStep, CallStep, CleanupBegins, OutboxDownKeeps, ObjectsDownKeeps, StoresKeep
     DEF Proceeds
<1>3. CASE LifeNext /\ ~Proceeds
  BY <1>3, CleanupBegins, CollectionStep, WaitStep, CallStep DEF LifeNext
<1> QED BY <1>1, <1>2, <1>3

----------------------------------------------------------------------------
(* Theorems *)

\* At each step of the cleanup the parts it has waited for are down, and a completion is registered only
\* with an outbox that is up.
THEOREM LifeInvariant == LifeSpec => []LifeInv
<1> QED BY LifeStarts, LifeStep, PTL DEF LifeSpec

\* Whenever the runtime of a live ontology has ended, what keeps its state in it has ended before: the outbox,
\* the blobs, the backend and every collection (cleanup and destroy of createLiveOntology).
THEOREM RuntimeIsLastToGo == LifeSpec => []RuntimeOutlivesAll
<1>1. LifeInv => RuntimeOutlivesAll
  BY DEF LifeInv, TeardownInOrder, OutboxIsBehind, CollectionsAreBehind, StoresAreBehind, RuntimeIsLast, RuntimeOutlivesAll
<1> QED BY <1>1, LifeInvariant, PTL

\* A completion stays registered only while the outbox is up: those it holds when it is disposed of are rejected,
\* and no call registers one afterwards (useOntologyOutbox, enqueue).
THEOREM NoneIsLeftRegistered == LifeSpec => []RegisteredIsServed
<1>1. LifeInv => RegisteredIsServed
  BY DEF LifeInv
<1> QED BY <1>1, LifeInvariant, PTL

----------------------------------------------------------------------------
(* Projections: the inductive invariant *)

Bares == [id : Entries, sequence : Nat, request : Nat \ {0}]
Rows == [id : Entries, sequence : Nat, request : Nat \ {0}, status : {"queued", "failed"}]
Notices == [type : {"answer"}, entry : Rows] \cup [type : {"result"}, id : Entries]
WorkItems == [type : {"reconcile"}, entries : SUBSET Rows] \cup [type : {"ensure"}, entry : Rows]
         \cup [type : {"discard"}, id : Entries]

\* Rows of a table differ in their ids and in their sequences.
Table(T) ==
  /\ T \in SUBSET Rows /\ IsFiniteSet(T)
  /\ \A a, b \in T : a # b => a.id # b.id /\ a.sequence # b.sequence

\* Rows are in the order of their sequences, each under an id of its own.
Ordered(list) ==
  \A i, j \in DOMAIN list : i < j => list[i].id # list[j].id /\ list[i].sequence <= list[j].sequence

ProjectionTyped ==
  /\ Table(entries) /\ Table(replica) /\ commits \in Seq(SUBSET Rows) /\ \A i \in DOMAIN commits : Table(commits[i])
  /\ news \in Seq(Notices) /\ requests \in [Entries -> Nat] /\ asked \in BOOLEAN
  /\ work \in Seq(WorkItems) /\ \A i \in DOMAIN work : work[i].type = "reconcile" => Table(work[i].entries)
  /\ projecting \in Seq(Bares) /\ wanted \in Seq(Bares) /\ Ordered(wanted) /\ overlay \in Seq(Bares)
  /\ stale \in BOOLEAN /\ disabled \in BOOLEAN /\ phase \in {"open", "disposing", "closed"}
  /\ fingerprints \in [Entries -> Nat]

\* The rows that are known anywhere, as they are projected.
Given(item) ==
  CASE item.type = "reconcile" -> {Bare(x) : x \in item.entries} [] item.type = "ensure" -> {Bare(item.entry)}
    [] item.type = "discard" -> {}
Known ==
  {r \in Bares :
     \/ \E x \in entries \cup replica : r = Bare(x)
     \/ \E i \in DOMAIN commits : \E x \in commits[i] : r = Bare(x)
     \/ \E i \in DOMAIN news : news[i].type = "answer" /\ r = Bare(news[i].entry)
     \/ \E i \in DOMAIN work : r \in Given(work[i])
     \/ \E i \in DOMAIN wanted : r = wanted[i]}
\* An entry keeps its place, and is not known before it is enqueued.
EntriesKeepPlace ==
  /\ \A a, b \in Known : a.id = b.id => a.sequence = b.sequence
  /\ \A a \in Known : requests[a.id] # 0

\* What is wanted is installed but for what the work that has begun still has to install; of the installed,
\* those that change something are shown, in their order.
Installed == Len(wanted) - Len(projecting)
InstalledIsShown ==
  phase # "closed" =>
    /\ ~stale /\ Len(projecting) <= Len(wanted) /\ projecting = SubSeq(wanted, Installed + 1, Len(wanted))
    /\ \A i \in 1..Installed : fingerprints[wanted[i].id] = wanted[i].request
    /\ \A e \in Entries : fingerprints[e] # 0 => \E i \in 1..Installed : wanted[i].id = e
    /\ \A k \in DOMAIN overlay : \E i \in 1..Installed : overlay[k] = wanted[i] /\ wanted[i].id \in Effective
    /\ \A i \in 1..Installed : wanted[i].id \in Effective => \E k \in DOMAIN overlay : overlay[k] = wanted[i]
    /\ \A k, l \in DOMAIN overlay, i, j \in DOMAIN wanted :
         k < l /\ overlay[k] = wanted[i] /\ overlay[l] = wanted[j] => i < j
    /\ disabled => wanted = <<>>
\* After the end nothing is, and what is still being projected will not be installed.
Ended ==
  phase = "closed" =>
    /\ wanted = <<>> /\ overlay = <<>> /\ work = <<>> /\ fingerprints = [e \in Entries |-> 0]
    /\ stale \/ projecting = <<>>

\* The rows that will be tried.
Tried(T) == {Bare(x) : x \in {y \in T : y.status # "failed"}}
\* A message, or a work, that is the last to be about entry e leaves it as the table has it.
Tells(m, e) ==
  IF m.type = "answer" THEN Bare(m.entry) \in Tried(entries) ELSE \A r \in Tried(entries) : r.id # e
Leaves(item, e) ==
  CASE item.type = "ensure" -> Bare(item.entry) \in Tried(entries)
    [] item.type = "discard" -> \A r \in Tried(entries) : r.id # e
    [] item.type = "reconcile" -> TRUE
IsAbout(m, e) == IF m.type = "answer" THEN m.entry.id = e ELSE m.id = e
Concerns(item, e) ==
  CASE item.type = "ensure" -> item.entry.id = e [] item.type = "discard" -> item.id = e
    [] item.type = "reconcile" -> TRUE
Synced == commits = <<>> /\ ~asked
Agrees(e) == \A r \in Bares : r.id = e => (r \in Range(wanted) <=> r \in Tried(entries))

TablesArrive ==
  /\ commits # <<>> => commits[Len(commits)] = entries
  /\ commits = <<>> => replica = entries
  /\ Synced => \A i \in DOMAIN work :
       work[i].type = "reconcile" /\ (\A j \in DOMAIN work : work[j].type = "reconcile" => j <= i)
         => work[i].entries = entries
NewsAreTrue ==
  \A e \in Entries, i \in DOMAIN news :
    IsAbout(news[i], e) /\ (\A j \in DOMAIN news : IsAbout(news[j], e) => j <= i) => Tells(news[i], e)
WorkIsTrue ==
  \A e \in Entries : (\A j \in DOMAIN news : ~IsAbout(news[j], e)) =>
    /\ \A i \in DOMAIN work :
         Concerns(work[i], e) /\ (\A j \in DOMAIN work : Concerns(work[j], e) => j <= i) => Leaves(work[i], e)
    /\ Synced /\ (\A j \in DOMAIN work : ~Concerns(work[j], e)) => Agrees(e)
OutboxArrives == phase = "open" /\ ~disabled => TablesArrive /\ NewsAreTrue /\ WorkIsTrue

ProjectionInv == ProjectionTyped /\ EntriesKeepPlace /\ InstalledIsShown /\ Ended /\ OutboxArrives

----------------------------------------------------------------------------
(* Lists: what is ascending, and what is left of a list *)

LEMMA AscendingIs ==
  ASSUME NEW S, S \subseteq Nat, IsFiniteSet(S)
  PROVE  /\ Cardinality(S) \in Nat /\ Ascending(S) \in [1..Cardinality(S) -> S]
         /\ \A i, j \in 1..Cardinality(S) : i < j => Ascending(S)[i] < Ascending(S)[j]
         /\ \A x \in S : \E i \in 1..Cardinality(S) : Ascending(S)[i] = x
<1> DEFINE n == Cardinality(S)
           Below(x) == {y \in S : y <= x}
           rank == [x \in S |-> Cardinality(Below(x))]
           rises(at) == \A i, j \in DOMAIN at : i < j => at[i] < at[j]
<1>1. n \in Nat BY FS_CardinalityType
<1>2. IsFiniteSet(1..n) /\ Cardinality(1..n) = n BY <1>1, FS_Interval
<1>3. ASSUME NEW x \in S PROVE IsFiniteSet(Below(x)) /\ Cardinality(Below(x)) \in 1..n
  <2>1. Below(x) \in SUBSET S /\ x \in Below(x) BY <1>3
  <2>2. IsFiniteSet(Below(x)) /\ Cardinality(Below(x)) <= n BY <2>1, FS_Subset
  <2>3. Cardinality(Below(x)) \in Nat BY <2>2, FS_CardinalityType
  <2>4. Cardinality(Below(x)) # 0 BY <2>1, <2>2, FS_EmptySet
  <2> QED BY <1>1, <2>2, <2>3, <2>4
<1>4. ASSUME NEW x \in S, NEW y \in S, x < y PROVE Cardinality(Below(x)) < Cardinality(Below(y))
  <2>1. Below(x) \in SUBSET Below(y)
    <3>1. ASSUME NEW z \in S, z <= x PROVE z <= y
      <4>1. x \in Nat /\ y \in Nat /\ z \in Nat OBVIOUS
      <4> QED BY <1>4, <3>1, <4>1
    <3> QED BY <3>1
  <2>2. y \in Below(y) /\ y \notin Below(x)
    <3>1. x \in Nat /\ y \in Nat OBVIOUS
    <3> QED BY <1>4, <3>1
  <2>3. Cardinality(Below(x)) <= Cardinality(Below(y)) /\ Cardinality(Below(x)) # Cardinality(Below(y))
    BY <1>3, <2>1, <2>2, FS_Subset
  <2>4. Cardinality(Below(x)) \in Int /\ Cardinality(Below(y)) \in Int BY <1>3
  <2> QED BY <2>3, <2>4
<1>5. rank \in [S -> 1..n] BY <1>3
<1>6. ASSUME NEW x \in S, NEW y \in S, rank[x] <= rank[y] PROVE x <= y
  <2>1. x \in Nat /\ y \in Nat /\ rank[x] \in 1..n /\ rank[y] \in 1..n BY <1>5
  <2>2. ~(y < x) BY <1>4, <1>6, <2>1
  <2> QED BY <2>1, <2>2
<1>7. \A x, y \in S : rank[x] = rank[y] => x = y
  <2>1. ASSUME NEW x \in S, NEW y \in S, rank[x] = rank[y] PROVE x = y
    <3>1. x \in Nat /\ y \in Nat /\ rank[x] \in Nat BY <1>5
    <3>2. x <= y /\ y <= x BY <1>6, <2>1, <3>1
    <3> QED BY <3>1, <3>2
  <2> QED BY <2>1
<1>8. rank \in Injection(S, 1..n) BY <1>5, <1>7 DEF Injection, IsInjective
<1>9. rank \in Surjection(S, 1..n) BY <1>2, <1>8, FS_Injection
<1>10. \A k \in 1..n : \E x \in S : rank[x] = k BY <1>9 DEF Surjection
<1>11. \E at \in [1..n -> S] : rises(at)
  <2> DEFINE at == [k \in 1..n |-> CHOOSE x \in S : rank[x] = k]
  <2>1. \A k \in 1..n : at[k] \in S /\ rank[at[k]] = k BY <1>10
  <2>2. at \in [1..n -> S] BY <2>1
  <2> HIDE DEF at, n, rank
  <2>3. ASSUME NEW i \in 1..n, NEW j \in 1..n, i < j PROVE at[i] < at[j]
    <3>1. at[i] \in S /\ at[j] \in S /\ rank[at[i]] = i /\ rank[at[j]] = j BY <2>1
    <3>2. rank[at[i]] <= rank[at[j]] BY <1>1, <2>3, <3>1
    <3>3. at[i] <= at[j] BY <1>6, <3>1, <3>2
    <3>4. at[i] # at[j] BY <1>1, <2>3, <3>1
    <3>5. at[i] \in Nat /\ at[j] \in Nat BY <3>1
    <3> QED BY <3>3, <3>4, <3>5
  <2>4. rises(at) BY <2>2, <2>3
  <2> QED BY <2>2, <2>4
<1> DEFINE A == Ascending(S)
<1>12. A \in [1..n -> S] /\ rises(A) BY <1>11 DEF Ascending
<1>13. A \in Injection(1..n, S)
  <2>1. ASSUME NEW i \in 1..n, NEW j \in 1..n, i # j PROVE A[i] # A[j]
    <3>1. i < j \/ j < i BY <1>1, <2>1
    <3>2. A[i] \in Nat /\ A[j] \in Nat BY <1>12
    <3> QED BY <1>12, <3>1, <3>2
  <2> QED BY <1>12, <2>1 DEF Injection, IsInjective
<1>14. A \in Surjection(1..n, S) BY <1>2, <1>13, FS_Injection
<1>15. \A x \in S : \E i \in 1..n : A[i] = x BY <1>14 DEF Surjection
<1> QED BY <1>1, <1>12, <1>15

\* An index with a property: the least one.
LEMMA LeastPlace ==
  ASSUME NEW S, S \subseteq Nat, S # {}
  PROVE  \E m \in S : \A x \in S : m <= x
<1>1. PICK m \in S : \A x \in S : ~(<<x, m>> \in OpToRel(<, Nat)) BY WFMin, NatLessThanWellFounded
<1>2. ASSUME NEW x \in S PROVE m <= x
  <2>1. m \in Nat /\ x \in Nat OBVIOUS
  <2>2. ~(x < m) BY <1>1, <2>1 DEF OpToRel
  <2> QED BY <2>1, <2>2
<1> QED BY <1>2

\* The greatest element of a finite set of numbers is the last in ascending order.
LEMMA MaxIs ==
  ASSUME NEW S, S \subseteq Nat, IsFiniteSet(S), S # {}
  PROVE  Max(S) \in S /\ Max(S) \in Nat /\ \A x \in S : x <= Max(S)
<1> DEFINE n == Cardinality(S)
           A == Ascending(S)
<1>1. n \in Nat /\ A \in [1..n -> S] /\ (\A i, j \in 1..n : i < j => A[i] < A[j]) /\ \A x \in S : \E i \in 1..n : A[i] = x
  BY AscendingIs
<1> HIDE DEF n, A
<1>2. n \in 1..n
  <2>1. PICK x \in S : TRUE OBVIOUS
  <2>2. PICK i \in 1..n : A[i] = x BY <1>1, <2>1
  <2> QED BY <1>1, <2>2
<1>3. ASSUME NEW x \in S PROVE A[n] >= x
  <2>1. PICK i \in 1..n : A[i] = x BY <1>1
  <2>2. A[i] \in Nat /\ A[n] \in Nat BY <1>1, <1>2
  <2>3. i = n \/ i < n BY <1>1
  <2> QED BY <1>1, <1>2, <2>1, <2>2, <2>3
<1>4. A[n] \in S BY <1>1, <1>2
<1>5. Max(S) \in S /\ \A x \in S : Max(S) >= x BY <1>3, <1>4 DEF Max
<1>6. \A x \in S : x \in Nat OBVIOUS
<1> QED BY <1>5, <1>6


\* There is one way to count the same numbers in ascending order.
Rises(n, at) == \A i, j \in 1..n : i < j => at[i] < at[j]
Covers(n, a, m, b) == \A j \in 1..m : \E i \in 1..n : a[i] = b[j]
LEMMA SameRise ==
  ASSUME NEW n \in Nat, NEW m \in Nat, NEW a \in [1..n -> Nat], NEW b \in [1..m -> Nat],
         Rises(n, a), Rises(m, b), Covers(n, a, m, b), Covers(m, b, n, a)
  PROVE  n = m /\ a = b
<1>0. /\ \A i, j \in 1..n : i < j => a[i] < a[j]
      /\ \A i, j \in 1..m : i < j => b[i] < b[j]
      /\ \A i \in 1..n : \E j \in 1..m : a[i] = b[j]
      /\ \A j \in 1..m : \E i \in 1..n : b[j] = a[i]
  BY DEF Rises, Covers
<1> DEFINE differ == {k \in 1..n \cup 1..m : ~(k \in 1..n /\ k \in 1..m /\ a[k] = b[k])}
<1>1. ASSUME differ # {} PROVE FALSE
  <2>0. differ \subseteq Nat OBVIOUS
  <2>1. PICK k \in differ : \A x \in differ : k <= x BY <1>1, <2>0, LeastPlace
  <2>2. k \in Nat /\ k \in 1..n \cup 1..m /\ ~(k \in 1..n /\ k \in 1..m /\ a[k] = b[k]) OBVIOUS
  <2>3. \A i \in 1..n \cup 1..m : i < k => i \in 1..n /\ i \in 1..m /\ a[i] = b[i]
    <3>1. ASSUME NEW i \in 1..n \cup 1..m, i < k PROVE i \notin differ
      <4>1. i \in Nat OBVIOUS
      <4>2. ~(k <= i) BY <2>2, <3>1, <4>1
      <4> QED BY <2>1, <4>2
    <3> QED BY <3>1
  <2> HIDE DEF differ
  <2>4. CASE k \in 1..n
    <3>1. PICK j \in 1..m : a[k] = b[j] BY <1>0, <2>4
    <3>2. CASE j < k
      <4>1. j \in 1..n /\ a[j] = b[j] BY <2>3, <3>2
      <4> QED BY <1>0, <2>4, <3>1, <3>2, <4>1
    <3>3. CASE j = k BY <2>2, <2>4, <3>1, <3>3
    <3>4. CASE k < j
      <4>1. k \in 1..m BY <2>4, <3>4
      <4>2. PICK i \in 1..n : b[k] = a[i] BY <1>0, <4>1
      <4>3. b[k] < b[j] BY <1>0, <3>4, <4>1
      <4>4. CASE i < k
        <5>1. i \in 1..m /\ a[i] = b[i] BY <2>3, <4>4
        <5> QED BY <1>0, <4>1, <4>2, <4>4, <5>1
      <4>5. CASE i = k BY <2>2, <2>4, <4>1, <4>2, <4>5
      <4>6. CASE k < i
        <5>1. a[k] < a[i] BY <1>0, <2>4, <4>6
        <5>2. a[k] \in Nat /\ a[i] \in Nat /\ b[j] \in Nat /\ b[k] \in Nat BY <2>4, <4>1
        <5> QED BY <3>1, <4>2, <4>3, <5>1, <5>2
      <4> QED BY <2>2, <4>4, <4>5, <4>6
    <3> QED BY <2>2, <3>2, <3>3, <3>4
  <2>5. CASE k \in 1..m
    <3>1. PICK j \in 1..n : b[k] = a[j] BY <1>0, <2>5
    <3>2. CASE j < k
      <4>1. j \in 1..m /\ a[j] = b[j] BY <2>3, <3>2
      <4> QED BY <1>0, <2>5, <3>1, <3>2, <4>1
    <3>3. CASE j = k BY <2>2, <2>5, <3>1, <3>3
    <3>4. CASE k < j
      <4>1. k \in 1..n BY <2>5, <3>4
      <4> QED BY <2>4, <4>1
    <3> QED BY <2>2, <3>2, <3>3, <3>4
  <2> QED BY <2>2, <2>4, <2>5
<1>2. \A k \in 1..n \cup 1..m : k \in 1..n /\ k \in 1..m /\ a[k] = b[k] BY <1>1
<1>3. n = m
  <2>1. n # 0 => n \in 1..n OBVIOUS
  <2>2. m # 0 => m \in 1..m OBVIOUS
  <2>3. n # 0 => n <= m BY <1>2, <2>1
  <2>4. m # 0 => m <= n BY <1>2, <2>2
  <2> QED BY <2>3, <2>4
<1> QED BY <1>2, <1>3

LEMMA AscendingIsOnly ==
  ASSUME NEW n \in Nat, NEW S, S \subseteq Nat, NEW at \in [1..n -> S],
         Rises(n, at), \A x \in S : \E i \in 1..n : at[i] = x
  PROVE  Cardinality(S) = n /\ Ascending(S) = at
<1>1. at \in Surjection(1..n, S) BY DEF Surjection
<1>2. IsFiniteSet(1..n) BY FS_Interval
<1>3. IsFiniteSet(S) BY <1>1, <1>2, FS_Surjection
<1> DEFINE m == Cardinality(S)
           A == Ascending(S)
<1>4. m \in Nat /\ A \in [1..m -> S] /\ (\A i, j \in 1..m : i < j => A[i] < A[j]) /\ \A x \in S : \E i \in 1..m : A[i] = x
  BY <1>3, AscendingIs
<1> HIDE DEF m, A
<1>5. A \in [1..m -> Nat] /\ at \in [1..n -> Nat] BY <1>4
<1>6. Rises(n, at) /\ Rises(m, A) BY <1>4 DEF Rises
<1>7. Covers(n, at, m, A) /\ Covers(m, A, n, at) BY <1>4 DEF Covers
<1>8. n = m /\ at = A BY <1>4, <1>5, <1>6, <1>7, SameRise
<1> QED BY <1>8 DEF m, A

\* The places of what is left of a list.
Rest(list, ids) == {i \in DOMAIN list : list[i].id \notin ids}
Left(list, ids) == Ascending(Rest(list, ids))
LEMMA WithoutIs ==
  ASSUME NEW T, NEW list \in Seq(T), NEW ids
  PROVE  LET w == Without(list, ids)
             at == Left(list, ids)
         IN  /\ w \in Seq(T) /\ Len(w) \in Nat /\ DOMAIN w = 1..Len(w) /\ at \in [DOMAIN w -> DOMAIN list]
             /\ \A k, l \in DOMAIN w : k < l => at[k] < at[l]
             /\ \A k \in DOMAIN w : w[k] = list[at[k]] /\ list[at[k]].id \notin ids
             /\ \A i \in DOMAIN list : list[i].id \notin ids => \E k \in DOMAIN w : at[k] = i
<1> DEFINE S == Rest(list, ids)
           at == Left(list, ids)
           n == Cardinality(S)
<1>1. S \in SUBSET (1..Len(list)) /\ Len(list) \in Nat BY DEF Rest
<1>2. IsFiniteSet(S) /\ S \subseteq Nat
  <2>1. IsFiniteSet(1..Len(list)) BY <1>1, FS_Interval
  <2> QED BY <1>1, <2>1, FS_Subset
<1>3. n \in Nat /\ at \in [1..n -> S] /\ (\A i, j \in 1..n : i < j => at[i] < at[j]) /\ \A x \in S : \E i \in 1..n : at[i] = x
  BY <1>2, AscendingIs DEF Left
<1>4. Without(list, ids) = [k \in 1..n |-> list[at[k]]]
  <2>1. DOMAIN at = 1..n BY <1>3
  <2> QED BY <2>1 DEF Without, Left, Rest
<1>5. \A i \in S : i \in DOMAIN list /\ list[i].id \notin ids BY DEF Rest
<1>6. \A i \in DOMAIN list : list[i].id \notin ids => i \in S BY DEF Rest
<1> HIDE DEF S, at, n
<1>7. \A k \in 1..n : list[at[k]] \in T BY <1>3, <1>5
<1>8. Without(list, ids) \in Seq(T) /\ Len(Without(list, ids)) = n BY <1>3, <1>4, <1>7
<1>9. at \in [1..n -> DOMAIN list] BY <1>3, <1>5
<1>10. DOMAIN Without(list, ids) = 1..n BY <1>4
<1> DEFINE w == Without(list, ids)
<1>11. w \in Seq(T) /\ Len(w) = n /\ DOMAIN w = 1..n /\ w = [k \in 1..n |-> list[at[k]]] BY <1>4, <1>8, <1>10
<1> HIDE DEF w
<1>12. w \in Seq(T) /\ Len(w) \in Nat /\ DOMAIN w = 1..Len(w) /\ at \in [DOMAIN w -> DOMAIN list]
  BY <1>3, <1>9, <1>11
<1>13. \A k, l \in DOMAIN w : k < l => at[k] < at[l] BY <1>3, <1>11
<1>14. \A k \in DOMAIN w : w[k] = list[at[k]] /\ list[at[k]].id \notin ids
  <2>1. ASSUME NEW k \in 1..n PROVE w[k] = list[at[k]] /\ at[k] \in S BY <1>3, <1>11
  <2> QED BY <1>5, <1>11, <2>1
<1>15. \A i \in DOMAIN list : list[i].id \notin ids => \E k \in DOMAIN w : at[k] = i BY <1>3, <1>6, <1>11
<1> QED BY <1>12, <1>13, <1>14, <1>15 DEF w, at

\* What is left at the end of a list.
LEMMA WithoutStart ==
  ASSUME NEW T, NEW list \in Seq(T), NEW ids, NEW from \in 1..(Len(list) + 1),
         \A i \in DOMAIN list : list[i].id \notin ids <=> from <= i
  PROVE  Without(list, ids) = SubSeq(list, from, Len(list))
<1> DEFINE n == Len(list) - from + 1
           at == [k \in 1..n |-> from + k - 1]
           S == Rest(list, ids)
<1>1. n \in Nat /\ Len(list) \in Nat /\ from \in Nat /\ DOMAIN list = 1..Len(list) OBVIOUS
<1>2. S = from..Len(list)
  <2>1. \A i : i \in S <=> i \in 1..Len(list) /\ from <= i BY <1>1 DEF Rest
  <2> HIDE DEF S
  <2>2. \A i : i \in from..Len(list) <=> i \in 1..Len(list) /\ from <= i BY <1>1
  <2> QED BY <2>1, <2>2
<1> HIDE DEF S
<1>3. at \in [1..n -> S] BY <1>1, <1>2
<1>4. Rises(n, at) BY <1>1 DEF Rises
<1>5. ASSUME NEW x \in S PROVE \E i \in 1..n : at[i] = x
  <2>1. x \in from..Len(list) BY <1>2
  <2>2. x - from + 1 \in 1..n BY <1>1, <2>1
  <2>3. at[x - from + 1] = x BY <1>1, <2>1, <2>2
  <2> QED BY <2>2, <2>3
<1>6. S \subseteq Nat BY <1>1, <1>2
<1>7. Ascending(S) = at
  <2>1. n \in Nat BY <1>1
  <2>2. \A x \in S : \E i \in 1..n : at[i] = x BY <1>5
  <2> HIDE DEF at, n
  <2> QED BY <1>3, <1>4, <1>6, <2>1, <2>2, AscendingIsOnly
<1>8. Without(list, ids) = [k \in 1..n |-> list[from + k - 1]] BY <1>7 DEF Without, S, Rest
<1> QED BY <1>1, <1>8

LEMMA WithoutRange ==
  ASSUME NEW T, NEW list \in Seq(T), NEW ids
  PROVE  Range(Without(list, ids)) = {r \in Range(list) : r.id \notin ids}
<1> DEFINE w == Without(list, ids)
           at == Left(list, ids)
<1>1. /\ at \in [DOMAIN w -> DOMAIN list]
      /\ \A k \in DOMAIN w : w[k] = list[at[k]] /\ list[at[k]].id \notin ids
      /\ \A i \in DOMAIN list : list[i].id \notin ids => \E k \in DOMAIN w : at[k] = i
  BY WithoutIs
<1> HIDE DEF w, at
<1>2. ASSUME NEW r \in Range(w) PROVE r \in Range(list) /\ r.id \notin ids BY <1>1 DEF Range
<1>3. ASSUME NEW r \in Range(list), r.id \notin ids PROVE r \in Range(w)
  <2>1. PICK i \in DOMAIN list : list[i] = r BY DEF Range
  <2>2. PICK k \in DOMAIN w : at[k] = i BY <1>1, <1>3, <2>1
  <2> QED BY <1>1, <2>1, <2>2 DEF Range
<1> QED BY <1>2, <1>3 DEF w

LEMMA WithoutOrdered ==
  ASSUME NEW list \in Seq(Bares), Ordered(list), NEW ids
  PROVE  Without(list, ids) \in Seq(Bares) /\ Ordered(Without(list, ids))
<1> DEFINE w == Without(list, ids)
           at == Left(list, ids)
<1>1. /\ w \in Seq(Bares) /\ at \in [DOMAIN w -> DOMAIN list] /\ \A k, l \in DOMAIN w : k < l => at[k] < at[l]
      /\ \A k \in DOMAIN w : w[k] = list[at[k]]
  BY WithoutIs
<1> HIDE DEF w, at
<1>2. Ordered(w) BY <1>1 DEF Ordered
<1> QED BY <1>1, <1>2 DEF w

\* Two lists in strict order that hold the same rows are the same.
Strict(list) == \A i, j \in DOMAIN list : i < j => list[i].sequence < list[j].sequence
LEMMA StrictListIsOnly ==
  ASSUME NEW a \in Seq(Bares), NEW b \in Seq(Bares), Strict(a), Strict(b), Range(a) = Range(b)
  PROVE  a = b
<1> DEFINE n == Len(a)
           m == Len(b)
           f == [i \in 1..n |-> a[i].sequence]
           g == [i \in 1..m |-> b[i].sequence]
<1>1. n \in Nat /\ m \in Nat /\ DOMAIN a = 1..n /\ DOMAIN b = 1..m OBVIOUS
<1>2. f \in [1..n -> Nat] /\ g \in [1..m -> Nat]
  <2>1. (\A i \in 1..n : a[i] \in Bares) /\ \A i \in 1..m : b[i] \in Bares OBVIOUS
  <2> QED BY <2>1 DEF Bares
<1>3. Rises(n, f) /\ Rises(m, g) BY <1>1 DEF Rises, Strict
<1>4. (\A i \in 1..n : \E j \in 1..m : a[i] = b[j]) /\ (\A j \in 1..m : \E i \in 1..n : b[j] = a[i])
  BY <1>1 DEF Range
<1>5. Covers(n, f, m, g) /\ Covers(m, g, n, f) BY <1>1, <1>4 DEF Covers
<1>6. n = m /\ f = g
  <2> HIDE DEF n, m, f, g
  <2> QED BY <1>1, <1>2, <1>3, <1>5, SameRise
<1>7. ASSUME NEW i \in 1..n PROVE a[i] = b[i]
  <2>1. a[i].sequence = b[i].sequence
    <3>1. f[i] = g[i] /\ i \in 1..m BY <1>6
    <3> QED BY <3>1
  <2>2. PICK j \in 1..m : a[i] = b[j] BY <1>4
  <2>3. b[i] \in Bares /\ b[j] \in Bares /\ b[i].sequence \in Nat /\ b[j].sequence \in Nat
    <3>1. b[i] \in Bares /\ b[j] \in Bares BY <1>1, <1>6
    <3> QED BY <3>1 DEF Bares
  <2>4. ~(i < j) /\ ~(j < i) BY <1>1, <1>6, <2>1, <2>2, <2>3 DEF Strict
  <2> QED BY <1>1, <1>6, <2>2, <2>4
<1> QED BY <1>1, <1>6, <1>7


----------------------------------------------------------------------------
(* What a work aims at *)

LEMMA BareIs ==
  ASSUME NEW x \in Rows
  PROVE  /\ Bare(x) \in Bares /\ Bare(x).id = x.id /\ Bare(x).sequence = x.sequence /\ Bare(x).request = x.request
         /\ x.id \in Entries /\ x.sequence \in Nat /\ x.request \in Nat /\ x.request # 0
BY DEF Rows, Bares, Bare

LEMMA BaresAre ==
  ASSUME NEW r \in Bares
  PROVE  /\ r.id \in Entries /\ r.sequence \in Nat /\ r.request \in Nat /\ r.request # 0
         /\ r = [id |-> r.id, sequence |-> r.sequence, request |-> r.request]
BY DEF Bares

LEMMA TriedIs ==
  ASSUME NEW T, Table(T)
  PROVE  /\ Tried(T) \subseteq Bares
         /\ \A a, b \in Tried(T) : a # b => a.id # b.id /\ a.sequence # b.sequence
<1>1. ASSUME NEW a \in Tried(T) PROVE \E x \in T : x \in Rows /\ a = Bare(x) BY DEF Tried, Table
<1>2. Tried(T) \subseteq Bares BY <1>1, BareIs
<1>3. ASSUME NEW a \in Tried(T), NEW b \in Tried(T), a # b PROVE a.id # b.id /\ a.sequence # b.sequence
  <2>1. PICK x \in T : x \in Rows /\ a = Bare(x) BY <1>1
  <2>2. PICK y \in T : y \in Rows /\ b = Bare(y) BY <1>1
  <2>3. x # y BY <1>3, <2>1, <2>2
  <2>4. x.id # y.id /\ x.sequence # y.sequence BY <2>3 DEF Table
  <2> QED BY <2>1, <2>2, <2>4, BareIs
<1> QED BY <1>2, <1>3

LEMMA DesiredIs ==
  ASSUME NEW T, Table(T)
  PROVE  LET list == DesiredProjections(T)
         IN  list \in Seq(Bares) /\ Range(list) = Tried(T) /\ Strict(list) /\ Ordered(list)
<1> DEFINE tried == {x \in T : x.status # "failed"}
           S == {x.sequence : x \in tried}
           n == Cardinality(S)
           at == Ascending(S)
           Who(k) == CHOOSE x \in tried : x.sequence = at[k]
           list == DesiredProjections(T)
<1>1. T \subseteq Rows /\ IsFiniteSet(T) /\ \A a, b \in T : a # b => a.id # b.id /\ a.sequence # b.sequence
  BY DEF Table
<1>2. IsFiniteSet(tried) BY <1>1, FS_Subset
<1>3. S \subseteq Nat /\ IsFiniteSet(S)
  <2> DEFINE f == [x \in tried |-> x.sequence]
  <2>1. \A x \in tried : x.sequence \in Nat BY <1>1, BareIs
  <2>2. f \in Surjection(tried, S) BY DEF Surjection
  <2>3. IsFiniteSet(S) BY <1>2, <2>2, FS_Surjection
  <2> QED BY <2>1, <2>3
<1>4. n \in Nat /\ at \in [1..n -> S] /\ (\A i, j \in 1..n : i < j => at[i] < at[j]) /\ \A x \in S : \E i \in 1..n : at[i] = x
  BY <1>3, AscendingIs
<1>5. list = [k \in 1..n |-> Bare(Who(k))]
  <2>1. DOMAIN at = 1..n BY <1>4
  <2> QED BY <2>1 DEF DesiredProjections
<1> HIDE DEF n, at, list
<1>6. ASSUME NEW k \in 1..n PROVE Who(k) \in tried /\ Who(k).sequence = at[k]
  <2>1. at[k] \in S BY <1>4
  <2>2. \E x \in tried : x.sequence = at[k] BY <2>1
  <2> QED BY <2>2
<1> HIDE DEF S
<1>7. ASSUME NEW k \in 1..n
      PROVE  Bare(Who(k)) \in Bares /\ Bare(Who(k)).sequence = at[k] /\ Bare(Who(k)).id = Who(k).id
  <2>1. Who(k) \in Rows BY <1>1, <1>6
  <2> QED BY <1>6, <2>1, BareIs
<1>8. list \in Seq(Bares) /\ DOMAIN list = 1..n /\ \A k \in 1..n : list[k] = Bare(Who(k)) BY <1>4, <1>5, <1>7
<1>9. Strict(list)
  <2>1. ASSUME NEW i \in DOMAIN list, NEW j \in DOMAIN list, i < j PROVE list[i].sequence < list[j].sequence
    <3>1. i \in 1..n /\ j \in 1..n /\ at[i] < at[j] BY <1>4, <1>8, <2>1
    <3> QED BY <1>7, <1>8, <3>1
  <2> QED BY <2>1 DEF Strict
<1>10. Range(list) = Tried(T)
  <2>1. ASSUME NEW r \in Range(list) PROVE r \in Tried(T)
    <3>1. PICK k \in 1..n : r = Bare(Who(k)) BY <1>8 DEF Range
    <3> QED BY <1>6, <3>1 DEF Tried
  <2>2. ASSUME NEW r \in Tried(T) PROVE r \in Range(list)
    <3>1. PICK x \in tried : r = Bare(x) BY DEF Tried
    <3>2. PICK k \in 1..n : at[k] = x.sequence BY <1>4 DEF S
    <3>3. Who(k) = x BY <1>1, <1>6, <3>2
    <3> QED BY <1>8, <3>1, <3>3 DEF Range
  <2> QED BY <2>1, <2>2
<1>11. Ordered(list)
  <2>1. ASSUME NEW i \in DOMAIN list, NEW j \in DOMAIN list, i < j
        PROVE  list[i].id # list[j].id /\ list[i].sequence <= list[j].sequence
    <3>1. list[i] \in Tried(T) /\ list[j] \in Tried(T) BY <1>10 DEF Range
    <3>2. list[i].sequence < list[j].sequence BY <1>9, <2>1 DEF Strict
    <3>3. list[i] \in Bares /\ list[j] \in Bares BY <3>1, TriedIs
    <3>4. list[i].sequence \in Nat /\ list[j].sequence \in Nat BY <3>3, BaresAre
    <3>5. list[i] # list[j] BY <3>2, <3>4
    <3> QED BY <3>1, <3>2, <3>4, <3>5, TriedIs
  <2> QED BY <2>1 DEF Ordered
<1> QED BY <1>8, <1>9, <1>10, <1>11 DEF list

LEMMA EnsuredIs ==
  ASSUME wanted \in Seq(Bares), Ordered(wanted), NEW x \in Rows
  PROVE  LET list == Ensured(x)
         IN  /\ list \in Seq(Bares) /\ Ordered(list)
             /\ Range(list) = {r \in Range(wanted) : r.id # x.id} \cup {Bare(x)}
<1> DEFINE others == Without(wanted, {x.id})
           n == Len(others)
           S == {0} \cup {i \in DOMAIN others : others[i].sequence <= x.sequence}
           before == Max(S)
           list == Ensured(x)
           head == SubSeq(others, 1, before)
           tail == SubSeq(others, before + 1, n)
<1>1. others \in Seq(Bares) /\ Ordered(others) /\ n \in Nat /\ DOMAIN others = 1..n
  <2>1. others \in Seq(Bares) /\ Ordered(others) BY WithoutOrdered
  <2> QED BY <2>1
<1>2. Range(others) = {r \in Range(wanted) : r.id # x.id} BY WithoutRange
<1>3. list = head \o <<Bare(x)>> \o tail BY DEF Ensured
<1> HIDE DEF others, n, list
<1>4. before \in S /\ before \in 0..n /\ \A i \in S : i <= before
  <2>1. S \in SUBSET (0..n) BY <1>1
  <2>2. IsFiniteSet(0..n) BY <1>1, FS_Interval
  <2>3. IsFiniteSet(S) BY <2>1, <2>2, FS_Subset
  <2>4. S \subseteq Nat /\ S # {} BY <1>1, <2>1
  <2> HIDE DEF S
  <2>5. before \in S /\ \A i \in S : i <= before BY <2>3, <2>4, MaxIs
  <2> QED BY <2>1, <2>5
<1>5. Bare(x) \in Bares /\ Bare(x).id = x.id /\ Bare(x).sequence = x.sequence /\ x.sequence \in Nat BY BareIs
<1>6. \A i \in 1..n : others[i] \in Bares /\ others[i].id # x.id /\ others[i].sequence \in Nat
  <2>1. ASSUME NEW i \in 1..n PROVE others[i] \in Bares /\ others[i] \in Range(others) BY <1>1 DEF Range
  <2> QED BY <1>2, <2>1, BaresAre
<1>7. \A i \in 1..n : i <= before => others[i].sequence <= x.sequence
  <2>1. ASSUME NEW i \in 1..n, i <= before PROVE others[i].sequence <= x.sequence
    <3>1. before \in 1..n /\ others[before].sequence <= x.sequence BY <1>1, <1>4, <2>1
    <3>2. i = before \/ i < before BY <2>1, <3>1
    <3>3. others[i].sequence <= others[before].sequence BY <1>1, <1>6, <3>1, <3>2 DEF Ordered
    <3> QED BY <1>5, <1>6, <3>1, <3>3
  <2> QED BY <2>1
<1>8. \A i \in 1..n : before < i => x.sequence <= others[i].sequence
  <2>1. ASSUME NEW i \in 1..n, before < i, ~(x.sequence <= others[i].sequence) PROVE FALSE
    <3>1. others[i].sequence <= x.sequence BY <1>5, <1>6, <2>1
    <3>2. i \in S BY <1>1, <3>1
    <3> QED BY <1>4, <2>1, <3>2
  <2> QED BY <2>1
<1> HIDE DEF S, before
<1>9. /\ list \in Seq(Bares) /\ DOMAIN list = 1..(n + 1)
      /\ \A i \in 1..(n + 1) : /\ i <= before => list[i] = others[i]
                               /\ i = before + 1 => list[i] = Bare(x)
                               /\ before + 1 < i => list[i] = others[i - 1]
  <2>1. head \in Seq(Bares) /\ Len(head) = before /\ \A i \in 1..before : head[i] = others[i] BY <1>1, <1>4
  <2>2. tail \in Seq(Bares) /\ Len(tail) = n - before /\ \A i \in 1..(n - before) : tail[i] = others[before + i]
    BY <1>1, <1>4
  <2> HIDE DEF head, tail
  <2>3. list \in Seq(Bares) /\ Len(list) = n + 1 BY <1>1, <1>3, <1>4, <1>5, <2>1, <2>2
  <2>4. ASSUME NEW i \in 1..(n + 1)
        PROVE  /\ i <= before => list[i] = others[i]
               /\ i = before + 1 => list[i] = Bare(x)
               /\ before + 1 < i => list[i] = others[i - 1]
    <3>1. i <= before => list[i] = head[i] BY <1>1, <1>3, <1>4, <2>1, <2>2
    <3>2. i = before + 1 => list[i] = Bare(x)
      <4> DEFINE mid == head \o <<Bare(x)>>
      <4>1. mid \in Seq(Bares) /\ Len(mid) = before + 1 /\ mid[before + 1] = Bare(x) BY <1>4, <1>5, <2>1
      <4>2. list = mid \o tail BY <1>3
      <4> HIDE DEF mid
      <4> QED BY <1>4, <2>2, <4>1, <4>2
    <3>3. before + 1 < i => list[i] = tail[i - before - 1] BY <1>1, <1>3, <1>4, <2>1, <2>2
    <3>4. before + 1 < i => i - before - 1 \in 1..(n - before) /\ before + (i - before - 1) = i - 1 BY <1>1, <1>4
    <3>5. i <= before => i \in 1..before BY <1>4
    <3> QED BY <2>1, <2>2, <3>1, <3>2, <3>3, <3>4, <3>5
  <2> QED BY <1>1, <2>3, <2>4
<1>10. ASSUME NEW i \in 1..(n + 1), NEW j \in 1..(n + 1), i < j
       PROVE  list[i].id # list[j].id /\ list[i].sequence <= list[j].sequence
  <2>1. \A k, l \in 1..n : k < l => others[k].id # others[l].id /\ others[k].sequence <= others[l].sequence
    BY <1>1 DEF Ordered
  <2>2. CASE j <= before
    <3>1. i \in 1..n /\ j \in 1..n /\ list[i] = others[i] /\ list[j] = others[j] BY <1>1, <1>4, <1>9, <1>10, <2>2
    <3> QED BY <1>10, <2>1, <3>1
  <2>3. CASE j = before + 1
    <3>1. i \in 1..n /\ i <= before /\ list[i] = others[i] /\ list[j] = Bare(x) BY <1>1, <1>4, <1>9, <1>10, <2>3
    <3> QED BY <1>5, <1>6, <1>7, <3>1
  <2>4. CASE before + 1 < j
    <3>1. j - 1 \in 1..n /\ before < j - 1 /\ list[j] = others[j - 1] BY <1>1, <1>4, <1>9, <2>4
    <3>2. CASE i <= before
      <4>1. i \in 1..n /\ i < j - 1 /\ list[i] = others[i] BY <1>1, <1>4, <1>9, <2>4, <3>2
      <4> QED BY <2>1, <3>1, <4>1
    <3>3. CASE i = before + 1
      <4>1. list[i] = Bare(x) BY <1>9, <3>3
      <4> QED BY <1>5, <1>6, <1>8, <3>1, <4>1
    <3>4. CASE before + 1 < i
      <4>1. i - 1 \in 1..n /\ i - 1 < j - 1 /\ list[i] = others[i - 1] BY <1>1, <1>4, <1>9, <1>10, <3>4
      <4> QED BY <2>1, <3>1, <4>1
    <3> QED BY <1>4, <3>2, <3>3, <3>4
  <2> QED BY <1>4, <2>2, <2>3, <2>4
<1>11. Ordered(list) BY <1>9, <1>10 DEF Ordered
<1>12. Range(list) = Range(others) \cup {Bare(x)}
  <2>1. ASSUME NEW i \in 1..(n + 1) PROVE list[i] \in Range(others) \cup {Bare(x)}
    <3>1. i <= before => i \in 1..n BY <1>1, <1>4
    <3>2. before + 1 < i => i - 1 \in 1..n BY <1>1, <1>4
    <3>3. i <= before \/ i = before + 1 \/ before + 1 < i BY <1>4
    <3> QED BY <1>1, <1>9, <3>1, <3>2, <3>3 DEF Range
  <2>2. ASSUME NEW k \in 1..n PROVE others[k] \in Range(list)
    <3>1. CASE k <= before
      <4>1. k \in 1..(n + 1) /\ list[k] = others[k] BY <1>1, <1>9, <3>1
      <4> QED BY <1>9, <4>1 DEF Range
    <3>2. CASE before < k
      <4>1. k + 1 \in 1..(n + 1) /\ before + 1 < k + 1 /\ (k + 1) - 1 = k BY <1>1, <1>4, <3>2
      <4>2. list[k + 1] = others[k] BY <1>9, <4>1
      <4> QED BY <1>9, <4>1, <4>2 DEF Range
    <3> QED BY <1>4, <3>1, <3>2
  <2>3. Bare(x) \in Range(list)
    <3>1. before + 1 \in 1..(n + 1) BY <1>1, <1>4
    <3>2. list[before + 1] = Bare(x) BY <1>9, <3>1
    <3> QED BY <1>9, <3>1, <3>2 DEF Range
  <2>4. Range(list) = {list[i] : i \in 1..(n + 1)} /\ Range(others) = {others[i] : i \in 1..n} BY <1>1, <1>9 DEF Range
  <2> QED BY <2>1, <2>2, <2>3, <2>4
<1> QED BY <1>2, <1>9, <1>11, <1>12 DEF list

LEMMA DivergenceIs ==
  ASSUME NEW a \in Seq(Bares), NEW b \in Seq(Bares)
  PROVE  LET from == FirstDivergence(a, b)
         IN  from \in 1..(Len(a) + 1) /\ from \in 1..(Len(b) + 1) /\ \A i \in 1..(from - 1) : Same(a[i], b[i])
<1> DEFINE S == {n \in 0..Len(a) : n <= Len(b) /\ \A i \in 1..n : Same(a[i], b[i])}
<1>1. Len(a) \in Nat /\ Len(b) \in Nat OBVIOUS
<1>2. IsFiniteSet(0..Len(a)) BY <1>1, FS_Interval
<1>3. IsFiniteSet(S) BY <1>2, FS_Subset
<1>4. 0 \in S BY <1>1
<1>5. S \subseteq Nat BY <1>1
<1>6. Max(S) \in S /\ Max(S) \in Nat
  <2> HIDE DEF S
  <2> QED BY <1>3, <1>4, <1>5, MaxIs
<1>7. FirstDivergence(a, b) = 1 + Max(S) BY DEF FirstDivergence
<1>8. Max(S) <= Len(a) /\ Max(S) <= Len(b) /\ \A i \in 1..Max(S) : Same(a[i], b[i]) BY <1>1, <1>6
<1> HIDE DEF S
<1>9. (1 + Max(S)) - 1 = Max(S) /\ 1 + Max(S) \in 1..(Len(a) + 1) /\ 1 + Max(S) \in 1..(Len(b) + 1)
  BY <1>1, <1>6, <1>8
<1> QED BY <1>7, <1>8, <1>9


----------------------------------------------------------------------------
(* The invariant holds initially, and steps of the leader keep it *)

LEMMA AimIs ==
  ASSUME ProjectionTyped, work # <<>>
  PROVE  LET item == Head(work)
             next == Aim(item)
         IN  /\ item \in WorkItems /\ next \in Seq(Bares) /\ Ordered(next)
             /\ item.type = "reconcile" => Table(item.entries) /\ Range(next) = Tried(item.entries)
             /\ item.type = "ensure" =>
                  /\ item.entry \in Rows
                  /\ Range(next) = {r \in Range(wanted) : r.id # item.entry.id} \cup {Bare(item.entry)}
             /\ item.type = "discard" => Range(next) = {r \in Range(wanted) : r.id # item.id}
<1> DEFINE item == Head(work)
           next == Aim(item)
<1>1. wanted \in Seq(Bares) /\ Ordered(wanted) BY DEF ProjectionTyped
<1>2. item \in WorkItems BY DEF ProjectionTyped
<1>3. item.type = "reconcile" => Table(item.entries)
  <2>1. 1 \in DOMAIN work /\ work[1] = item BY DEF ProjectionTyped
  <2> QED BY <2>1 DEF ProjectionTyped
<1> HIDE DEF item
<1>4. CASE item.type = "reconcile"
  <2>1. next = DesiredProjections(item.entries) BY <1>4 DEF Aim
  <2> QED BY <1>2, <1>3, <1>4, <2>1, DesiredIs DEF item
<1>5. CASE item.type = "ensure"
  <2>1. item.entry \in Rows BY <1>2, <1>5 DEF WorkItems
  <2>2. next = Ensured(item.entry) BY <1>5 DEF Aim
  <2> QED BY <1>1, <1>2, <1>5, <2>1, <2>2, EnsuredIs DEF item
<1>6. CASE item.type = "discard"
  <2>1. next = Without(wanted, {item.id}) BY <1>6 DEF Aim, Discarded
  <2>2. Range(next) = {r \in Range(wanted) : r.id # item.id} BY <1>1, <2>1, WithoutRange
  <2>3. next \in Seq(Bares) /\ Ordered(next) BY <1>1, <2>1, WithoutOrdered
  <2> QED BY <1>2, <1>6, <2>2, <2>3 DEF item
<1>7. item.type \in {"reconcile", "ensure", "discard"} BY <1>2 DEF WorkItems
<1> QED BY <1>4, <1>5, <1>6, <1>7

LEMMA ProjectionStarts ==
  ASSUME ProjectionInit
  PROVE  ProjectionInv
<1>1. IsFiniteSet({}) BY FS_EmptySet
<1>2. Table({}) BY <1>1 DEF Table
<1>3. ProjectionTyped
  <2>1. Ordered(<<>>) BY DEF Ordered
  <2>2. /\ <<>> \in Seq(SUBSET Rows) /\ <<>> \in Seq(Notices) /\ <<>> \in Seq(WorkItems) /\ <<>> \in Seq(Bares)
        /\ DOMAIN <<>> = {}
    OBVIOUS
  <2> QED BY <1>2, <2>1, <2>2 DEF ProjectionInit, ProjectionTyped
<1>4. Known = {} BY DEF ProjectionInit, Known
<1>5. EntriesKeepPlace BY <1>4 DEF EntriesKeepPlace
<1>6. InstalledIsShown BY DEF ProjectionInit, InstalledIsShown, Installed
<1>7. Ended BY DEF ProjectionInit, Ended
<1>8. OutboxArrives
  <2>1. TablesArrive BY DEF ProjectionInit, TablesArrive
  <2>2. NewsAreTrue BY DEF ProjectionInit, NewsAreTrue
  <2>3. Tried(entries) = {} /\ Range(wanted) = {} BY DEF ProjectionInit, Tried, Range
  <2>4. \A e \in Entries : Agrees(e) BY <2>3 DEF Agrees
  <2>5. WorkIsTrue BY <2>4 DEF ProjectionInit, WorkIsTrue
  <2> QED BY <2>1, <2>2, <2>5 DEF OutboxArrives
<1> QED BY <1>3, <1>5, <1>6, <1>7, <1>8 DEF ProjectionInv

\* An entry keeps its place where what is known is known before.
LEMMA PlacesKept ==
  ASSUME EntriesKeepPlace, Known' \subseteq Known, UNCHANGED requests
  PROVE  EntriesKeepPlace'
BY DEF EntriesKeepPlace

\* What keeps its types because it stays as it is.
LEMMA LeaderTypesStay ==
  ASSUME ProjectionTyped, UNCHANGED <<entries, commits, news, requests, replica>>
  PROVE  (/\ Table(entries) /\ Table(replica) /\ commits \in Seq(SUBSET Rows) /\ \A i \in DOMAIN commits : Table(commits[i])
          /\ news \in Seq(Notices) /\ requests \in [Entries -> Nat])'
<1>1. (Table(entries) /\ Table(replica))' BY DEF ProjectionTyped, Table
<1>2. (\A i \in DOMAIN commits : Table(commits[i]))' BY DEF ProjectionTyped, Table
<1>3. (commits \in Seq(SUBSET Rows) /\ news \in Seq(Notices) /\ requests \in [Entries -> Nat])' BY DEF ProjectionTyped
<1> QED BY <1>1, <1>2, <1>3

LEMMA WorkTypesStay ==
  ASSUME ProjectionTyped, UNCHANGED work
  PROVE  (work \in Seq(WorkItems) /\ \A i \in DOMAIN work : work[i].type = "reconcile" => Table(work[i].entries))'
BY DEF ProjectionTyped, Table

LEMMA WantedTypesStay ==
  ASSUME ProjectionTyped, UNCHANGED wanted
  PROVE  (wanted \in Seq(Bares) /\ Ordered(wanted))'
BY DEF ProjectionTyped, Ordered

LEMMA InstallsStay ==
  ASSUME InstalledIsShown, Ended, UNCHANGED <<projecting, stale, wanted, fingerprints, overlay, disabled, phase>>,
         phase = "closed" => work' = <<>>
  PROVE  InstalledIsShown' /\ Ended'
<1>1. InstalledIsShown' BY DEF InstalledIsShown, Installed
<1>2. Ended' BY DEF Ended
<1> QED BY <1>1, <1>2

\* A table that is committed, with the message about the entry that changed.
LEMMA CommitKeeps ==
  ASSUME ProjectionInv, NEW table, NEW message \in Notices, Commit(table, message), Table(table),
         NEW f \in Entries, IsAbout(message, f), requests' \in [Entries -> Nat],
         \A r \in Bares : r.id # f => (r \in Tried(table) <=> r \in Tried(entries)),
         message.type = "answer" => message.entry \in table /\ message.entry.status = "queued",
         message.type = "result" => \A r \in Tried(table) : r.id # f,
         \A x \in table, s \in Known : s.id = x.id => s.sequence = x.sequence,
         \A e \in Entries : requests[e] # 0 => requests'[e] # 0, \A x \in table : requests'[x.id] # 0
  PROVE  ProjectionInv'
<1>1. /\ entries' = table /\ commits' = Append(commits, table) /\ news' = Append(news, message)
      /\ UNCHANGED <<replica, asked, manager, phase>>
  BY DEF Commit
<1>2. UNCHANGED <<asked, work, projecting, stale, wanted, fingerprints, overlay, disabled, phase>> BY <1>1 DEF manager
<1>3. ProjectionTyped /\ EntriesKeepPlace /\ InstalledIsShown /\ Ended /\ OutboxArrives BY DEF ProjectionInv
<1>4. ProjectionTyped'
  <2>1. table \in SUBSET Rows BY DEF Table
  <2>2. commits' \in Seq(SUBSET Rows) /\ \A i \in DOMAIN commits' : Table(commits'[i])
    BY <1>1, <1>3, <2>1 DEF ProjectionTyped
  <2>3. news' \in Seq(Notices) BY <1>1, <1>3 DEF ProjectionTyped
  <2>4. (Table(entries) /\ Table(replica))' BY <1>1, <1>3 DEF ProjectionTyped, Table
  <2> QED BY <1>1, <1>2, <1>3, <2>2, <2>3, <2>4, WorkTypesStay, WantedTypesStay DEF ProjectionTyped
<1>5. EntriesKeepPlace'
  <2>1. ASSUME NEW r \in Known' PROVE r \in Known \/ \E x \in table : r = Bare(x)
    <3>1. /\ \A i \in DOMAIN commits' : commits'[i] = table \/ \E j \in DOMAIN commits : commits'[i] = commits[j]
          /\ \A i \in DOMAIN news' : news'[i] = message \/ \E j \in DOMAIN news : news'[i] = news[j]
      BY <1>1, <1>3 DEF ProjectionTyped
    <3>2. UNCHANGED <<replica, work, wanted>> /\ entries' = table BY <1>1, <1>2
    <3> QED BY <3>1, <3>2 DEF Known
  <2>2. \A x \in table : Bare(x).id = x.id /\ Bare(x).sequence = x.sequence BY DEF Bare
  <2>3. \A r \in Known : r.id \in Entries BY BaresAre DEF Known
  <2>4. ASSUME NEW a \in Known', NEW b \in Known', a.id = b.id PROVE a.sequence = b.sequence
    <3>1. CASE a \in Known /\ b \in Known BY <1>3, <2>4, <3>1 DEF EntriesKeepPlace
    <3>2. CASE a \in Known /\ b \notin Known
      <4>1. PICK x \in table : b = Bare(x) BY <2>1, <3>2
      <4> QED BY <2>2, <2>4, <3>2, <4>1
    <3>3. CASE a \notin Known /\ b \in Known
      <4>1. PICK x \in table : a = Bare(x) BY <2>1, <3>3
      <4> QED BY <2>2, <2>4, <3>3, <4>1
    <3>4. CASE a \notin Known /\ b \notin Known
      <4>1. PICK x \in table : a = Bare(x) BY <2>1, <3>4
      <4>2. PICK y \in table : b = Bare(y) BY <2>1, <3>4
      <4> QED BY <2>2, <2>4, <4>1, <4>2 DEF Table
    <3> QED BY <3>1, <3>2, <3>3, <3>4
  <2>5. ASSUME NEW a \in Known' PROVE requests'[a.id] # 0
    <3>1. CASE a \in Known BY <1>3, <2>3, <3>1 DEF EntriesKeepPlace
    <3>2. CASE a \notin Known
      <4>1. PICK x \in table : a = Bare(x) BY <2>1, <3>2
      <4> QED BY <2>2, <4>1
    <3> QED BY <3>1, <3>2
  <2> QED BY <2>4, <2>5 DEF EntriesKeepPlace
<1>6. InstalledIsShown' /\ Ended'
  <2>1. phase = "closed" => work' = <<>> BY <1>2, <1>3 DEF Ended
  <2> QED BY <1>2, <1>3, <2>1, InstallsStay
<1>7. OutboxArrives'
  <2> SUFFICES ASSUME phase' = "open", ~disabled' PROVE (TablesArrive /\ NewsAreTrue /\ WorkIsTrue)' BY DEF OutboxArrives
  <2>1. TablesArrive /\ NewsAreTrue /\ WorkIsTrue BY <1>2, <1>3 DEF OutboxArrives
  <2>2. commits' # <<>> /\ commits'[Len(commits')] = table BY <1>1, <1>3 DEF ProjectionTyped
  <2>3. TablesArrive' BY <1>1, <2>2 DEF TablesArrive, Synced
  <2>4. ASSUME NEW e \in Entries, e # f, NEW m \in Notices, IsAbout(m, e) PROVE Tells(m, e) <=> Tells(m, e)'
    <3>1. CASE m.type = "answer"
      <4>1. m.entry \in Rows /\ m.entry.id = e BY <2>4, <3>1 DEF Notices, IsAbout
      <4>2. Bare(m.entry) \in Bares /\ Bare(m.entry).id = e BY <4>1, BareIs
      <4> QED BY <1>1, <2>4, <3>1, <4>2 DEF Tells
    <3>2. CASE m.type # "answer"
      <4>1. Tried(entries) \subseteq Bares /\ Tried(table) \subseteq Bares BY <1>3, TriedIs DEF ProjectionTyped
      <4> QED BY <1>1, <2>4, <3>2, <4>1 DEF Tells
    <3> QED BY <3>1, <3>2
  <2>5. Len(news) \in Nat /\ DOMAIN news = 1..Len(news) /\ DOMAIN news' = 1..(Len(news) + 1)
        /\ news'[Len(news) + 1] = message /\ \A i \in DOMAIN news : news'[i] = news[i] /\ news[i] \in Notices
    BY <1>1, <1>3 DEF ProjectionTyped
  <2>6. Tells(message, f)'
    <3>1. CASE message.type = "answer"
      <4>1. Bare(message.entry) \in Tried(table) BY <3>1 DEF Tried
      <4> QED BY <1>1, <3>1, <4>1 DEF Tells
    <3>2. CASE message.type # "answer"
      <4>1. message.type = "result" BY <3>2 DEF Notices
      <4> QED BY <1>1, <3>2, <4>1 DEF Tells
    <3> QED BY <3>1, <3>2
  <2>7. \A e \in Entries : IsAbout(message, e) => e = f BY DEF IsAbout
  <2>8. ASSUME NEW e \in Entries, NEW i \in DOMAIN news', IsAbout(news'[i], e),
               \A j \in DOMAIN news' : IsAbout(news'[j], e) => j <= i
        PROVE  Tells(news[i], e)'
    <3>1. CASE i = Len(news) + 1 BY <2>5, <2>6, <2>7, <2>8, <3>1
    <3>2. CASE i # Len(news) + 1
      <4>1. i \in DOMAIN news /\ news'[i] = news[i] BY <2>5, <3>2
      <4>2. e # f
        <5>1. Len(news) + 1 \in DOMAIN news' /\ ~(Len(news) + 1 <= i) BY <2>5, <4>1
        <5> QED BY <2>5, <2>8, <5>1
      <4>3. \A j \in DOMAIN news : IsAbout(news[j], e) => j <= i BY <2>5, <2>8
      <4>4. Tells(news[i], e) BY <2>1, <2>8, <4>1, <4>3 DEF NewsAreTrue
      <4> QED BY <2>4, <2>5, <2>8, <4>1, <4>2, <4>4
    <3> QED BY <3>1, <3>2
  <2>9. NewsAreTrue' BY <2>8 DEF NewsAreTrue
  <2>10. ASSUME NEW e \in Entries, \A j \in DOMAIN news' : ~IsAbout(news'[j], e), NEW i \in DOMAIN work',
                Concerns(work'[i], e), \A j \in DOMAIN work' : Concerns(work'[j], e) => j <= i
         PROVE  Leaves(work[i], e)'
    <3>1. e # f
      <4>1. Len(news) + 1 \in DOMAIN news' BY <2>5
      <4> QED BY <2>5, <2>10, <4>1
    <3>2. \A j \in DOMAIN news : ~IsAbout(news[j], e) BY <2>5, <2>10
    <3>3. work' = work BY <1>2
    <3>4. i \in DOMAIN work /\ Concerns(work[i], e) /\ \A j \in DOMAIN work : Concerns(work[j], e) => j <= i
      BY <2>10, <3>3
    <3>5. Leaves(work[i], e) BY <2>1, <3>2, <3>4 DEF WorkIsTrue
    <3>6. Leaves(work[i], e) /\ Concerns(work[i], e) /\ work[i] \in WorkItems BY <1>3, <3>4, <3>5 DEF ProjectionTyped
    <3>7. Tried(entries) \subseteq Bares /\ Tried(table) \subseteq Bares BY <1>3, TriedIs DEF ProjectionTyped
    <3>8. CASE work[i].type = "ensure"
      <4>1. work[i].entry \in Rows /\ work[i].entry.id = e BY <3>6, <3>8 DEF WorkItems, Concerns
      <4>2. Bare(work[i].entry) \in Bares /\ Bare(work[i].entry).id = e BY <4>1, BareIs
      <4> QED BY <1>1, <1>2, <3>1, <3>6, <3>8, <4>2 DEF Leaves
    <3>9. CASE work[i].type = "discard" BY <1>1, <1>2, <3>1, <3>6, <3>7, <3>9 DEF Leaves
    <3>10. CASE work[i].type = "reconcile" BY <1>2, <3>10 DEF Leaves
    <3> QED BY <3>6, <3>8, <3>9, <3>10 DEF WorkItems
  <2>11. ~Synced' BY <2>2 DEF Synced
  <2>12. WorkIsTrue' BY <2>10, <2>11 DEF WorkIsTrue
  <2> QED BY <2>3, <2>9, <2>12
<1> QED BY <1>4, <1>5, <1>6, <1>7 DEF ProjectionInv


\* What is in the table is known, and each entry in it once.
LEMMA RowKnown ==
  ASSUME ProjectionTyped, EntriesKeepPlace, NEW x \in entries
  PROVE  /\ x \in Rows /\ Bare(x) \in Known /\ requests[x.id] # 0
         /\ \A s \in Known : s.id = x.id => s.sequence = x.sequence
         /\ \A y \in entries : y.id = x.id => y = x
<1>1. x \in Rows /\ \A y \in entries : y.id = x.id => y = x BY DEF ProjectionTyped, Table
<1>2. Bare(x) \in Bares /\ Bare(x).id = x.id /\ Bare(x).sequence = x.sequence BY <1>1, BareIs
<1>3. Bare(x) \in Known BY <1>2 DEF Known
<1> QED BY <1>1, <1>2, <1>3 DEF EntriesKeepPlace

LEMMA TriedChanges ==
  ASSUME NEW T, NEW S, NEW f \in Entries,
         \A x \in T : x \in S \/ x.id = f, \A x \in S : x \in T \/ x.id = f
  PROVE  \A r \in Bares : r.id # f => (r \in Tried(T) <=> r \in Tried(S))
<1>1. \A x : Bare(x).id = x.id BY DEF Bare
<1>2. ASSUME NEW r \in Bares, r.id # f, r \in Tried(T) PROVE r \in Tried(S)
  <2>1. PICK x \in T : x.status # "failed" /\ r = Bare(x) BY <1>2 DEF Tried
  <2>2. x \in S BY <1>1, <1>2, <2>1
  <2> QED BY <2>1, <2>2 DEF Tried
<1>3. ASSUME NEW r \in Bares, r.id # f, r \in Tried(S) PROVE r \in Tried(T)
  <2>1. PICK x \in S : x.status # "failed" /\ r = Bare(x) BY <1>3 DEF Tried
  <2>2. x \in T BY <1>1, <1>3, <2>1
  <2> QED BY <2>1, <2>2 DEF Tried
<1> QED BY <1>2, <1>3

LEMMA EnqueueKeeps ==
  ASSUME ProjectionInv, NEW e \in Entries, EnqueueEntry(e)
  PROVE  ProjectionInv'
<1> DEFINE S == {0} \cup {x.sequence : x \in entries}
           row == Row(e, 1 + Max(S))
           table == entries \cup {row}
<1>1. ProjectionTyped /\ EntriesKeepPlace BY DEF ProjectionInv
<1>2. requests[e] = 0 /\ requests' = [requests EXCEPT ![e] = 1] /\ Commit(table, Answer(row)) BY DEF EnqueueEntry
<1>3. requests' \in [Entries -> Nat] /\ requests'[e] = 1 /\ \A x \in Entries : requests[x] # 0 => requests'[x] # 0
  BY <1>1, <1>2 DEF ProjectionTyped
<1>4. Max(S) \in Nat /\ \A x \in entries : x.sequence <= Max(S) /\ x.sequence \in Nat
  <2>1. \A x \in entries : x.sequence \in Nat BY <1>1, RowKnown, BareIs
  <2>2. IsFiniteSet({x.sequence : x \in entries})
    <3> DEFINE f == [x \in entries |-> x.sequence]
    <3>1. f \in Surjection(entries, {x.sequence : x \in entries}) BY DEF Surjection
    <3>2. IsFiniteSet(entries) BY <1>1 DEF ProjectionTyped, Table
    <3> QED BY <3>1, <3>2, FS_Surjection
  <2>3. IsFiniteSet(S) BY <2>2, FS_AddElement, FS_Singleton, FS_Union
  <2>4. S \subseteq Nat /\ S # {} BY <2>1
  <2>5. \A x \in entries : x.sequence \in S OBVIOUS
  <2> HIDE DEF S
  <2> QED BY <2>1, <2>3, <2>4, <2>5, MaxIs
<1> HIDE DEF S
<1>5. row \in Rows /\ row.id = e /\ row.sequence = 1 + Max(S) /\ row.status = "queued" BY <1>3, <1>4 DEF Row, Rows
<1>6. \A x \in entries : x.id # e BY <1>1, <1>2, RowKnown
<1> HIDE DEF row
<1>7. Table(table)
  <2>1. IsFiniteSet(table) BY <1>1, FS_AddElement DEF ProjectionTyped, Table
  <2>2. \A x \in entries : x.sequence # row.sequence BY <1>4, <1>5
  <2> QED BY <1>1, <1>5, <1>6, <2>1, <2>2 DEF ProjectionTyped, Table
<1>8. Answer(row) \in Notices /\ Answer(row).type = "answer" /\ Answer(row).entry = row /\ IsAbout(Answer(row), e)
  BY <1>5 DEF Answer, Notices, IsAbout
<1>9. \A r \in Bares : r.id # e => (r \in Tried(table) <=> r \in Tried(entries))
  <2>1. (\A x \in table : x \in entries \/ x.id = e) /\ \A x \in entries : x \in table \/ x.id = e BY <1>5
  <2> QED BY <2>1, TriedChanges
<1>10. \A x \in table, s \in Known : s.id = x.id => s.sequence = x.sequence
  <2>1. \A s \in Known : s.id # e BY <1>1, <1>2 DEF EntriesKeepPlace
  <2> QED BY <1>1, <1>5, <2>1, RowKnown
<1>11. \A x \in table : requests'[x.id] # 0
  <2>1. ASSUME NEW x \in entries PROVE requests'[x.id] # 0 BY <1>1, <1>3, RowKnown, BareIs
  <2> QED BY <1>3, <1>5, <2>1
<1> HIDE DEF table
<1>12. row \in table BY DEF table
<1> QED BY <1>2, <1>3, <1>5, <1>7, <1>8, <1>9, <1>10, <1>11, <1>12, CommitKeeps

\* An entry of the table that is replaced by another row of it, or taken away.
TakePlace(rows, x) ==
  rows \subseteq Rows /\ (\A y \in rows : y.id = x.id /\ y.sequence = x.sequence) /\ \A y, z \in rows : y = z
StayRequested == requests' \in [Entries -> Nat] /\ \A e \in Entries : requests[e] # 0 => requests'[e] # 0
Succeeds(table, x) ==
  /\ Table(table)
  /\ \A r \in Bares : r.id # x.id => (r \in Tried(table) <=> r \in Tried(entries))
  /\ \A y \in table, s \in Known : s.id = y.id => s.sequence = y.sequence
  /\ \A y \in table : requests'[y.id] # 0

LEMMA RowsChange ==
  ASSUME ProjectionTyped, EntriesKeepPlace, NEW x \in entries, NEW rows, TakePlace(rows, x), StayRequested
  PROVE  Succeeds((entries \ {x}) \cup rows, x)
<1> DEFINE table == (entries \ {x}) \cup rows
<1>1. /\ rows \subseteq Rows /\ (\A y \in rows : y.id = x.id /\ y.sequence = x.sequence) /\ \A y, z \in rows : y = z
      /\ requests' \in [Entries -> Nat] /\ \A e \in Entries : requests[e] # 0 => requests'[e] # 0
  BY DEF TakePlace, StayRequested
<1>2. /\ entries \subseteq Rows /\ IsFiniteSet(entries)
      /\ \A a, b \in entries : a # b => a.id # b.id /\ a.sequence # b.sequence
  BY DEF ProjectionTyped, Table
<1>3. IsFiniteSet(table)
  <2>1. IsFiniteSet(entries \ {x}) BY <1>2, FS_RemoveElement
  <2>2. CASE rows = {}
    <3>1. table = entries \ {x} BY <2>2
    <3> QED BY <2>1, <3>1
  <2>3. CASE rows # {}
    <3>1. PICK y \in rows : TRUE BY <2>3
    <3>2. rows = {y} BY <1>1, <3>1
    <3> QED BY <2>1, <3>2, FS_AddElement
  <2> QED BY <2>2, <2>3
<1>4. ASSUME NEW a \in table, NEW b \in table, a # b PROVE a.id # b.id /\ a.sequence # b.sequence
  <2>1. CASE a \in entries \ {x} /\ b \in entries \ {x} BY <1>2, <1>4, <2>1
  <2>2. CASE a \in entries \ {x} /\ b \in rows BY <1>1, <1>2, <2>2
  <2>3. CASE a \in rows /\ b \in entries \ {x} BY <1>1, <1>2, <2>3
  <2>4. CASE a \in rows /\ b \in rows BY <1>1, <1>4, <2>4
  <2> QED BY <2>1, <2>2, <2>3, <2>4
<1>5. Table(table) BY <1>1, <1>2, <1>3, <1>4 DEF Table
<1>6. x.id \in Entries BY <1>2 DEF Rows
<1>7. \A r \in Bares : r.id # x.id => (r \in Tried(table) <=> r \in Tried(entries))
  <2>1. (\A y \in table : y \in entries \/ y.id = x.id) /\ \A y \in entries : y \in table \/ y.id = x.id BY <1>1
  <2> HIDE DEF table
  <2> QED BY <1>6, <2>1, TriedChanges
<1>8. \A y \in table, s \in Known : s.id = y.id => s.sequence = y.sequence
  <2>1. \A y \in entries, s \in Known : s.id = y.id => s.sequence = y.sequence BY RowKnown
  <2> QED BY <1>1, <2>1
<1>9. \A y \in table : requests'[y.id] # 0
  <2>1. ASSUME NEW y \in entries PROVE requests'[y.id] # 0
    <3>1. requests[y.id] # 0 /\ y.id \in Entries BY RowKnown, BareIs
    <3> QED BY <1>1, <3>1
  <2> QED BY <1>1, <2>1
<1> QED BY <1>5, <1>7, <1>8, <1>9 DEF Succeeds

LEMMA EditKeeps ==
  ASSUME ProjectionInv, NEW x \in entries, Edit(x)
  PROVE  ProjectionInv'
<1> DEFINE row == Row(x.id, x.sequence)
           table == (entries \ {x}) \cup {row}
<1>1. ProjectionTyped /\ EntriesKeepPlace BY DEF ProjectionInv
<1>2. requests' = [requests EXCEPT ![x.id] = @ + 1] /\ Commit(table, Answer(row)) BY DEF Edit
<1>3. x \in Rows /\ x.id \in Entries /\ x.sequence \in Nat BY <1>1, RowKnown, BareIs
<1>4. /\ requests' \in [Entries -> Nat] /\ requests'[x.id] \in Nat \ {0}
      /\ \A e \in Entries : requests[e] # 0 => requests'[e] # 0
  BY <1>1, <1>2, <1>3 DEF ProjectionTyped
<1>5. row \in Rows /\ row.id = x.id /\ row.sequence = x.sequence /\ row.status = "queued" BY <1>3, <1>4 DEF Row, Rows
<1> HIDE DEF row
<1>6. Succeeds(table, x)
  <2>1. TakePlace({row}, x) /\ StayRequested BY <1>4, <1>5 DEF TakePlace, StayRequested
  <2> QED BY <1>1, <2>1, RowsChange
<1>7. Answer(row) \in Notices /\ Answer(row).type = "answer" /\ Answer(row).entry = row /\ IsAbout(Answer(row), x.id)
  BY <1>5 DEF Answer, Notices, IsAbout
<1>8. row \in table OBVIOUS
<1> HIDE DEF table
<1> QED BY <1>2, <1>3, <1>4, <1>5, <1>6, <1>7, <1>8, CommitKeeps DEF Succeeds

LEMMA SettlesKeeps ==
  ASSUME ProjectionInv, NEW x \in entries, EntrySettles(x)
  PROVE  ProjectionInv'
<1> DEFINE rows == {}
           table == (entries \ {x}) \cup rows
<1>1. ProjectionTyped /\ EntriesKeepPlace BY DEF ProjectionInv
<1>2. requests' = requests /\ Commit(table, Result(x))
  <2>1. table = entries \ {x} OBVIOUS
  <2> HIDE DEF table
  <2> QED BY <2>1 DEF EntrySettles
<1>3. x \in Rows /\ x.id \in Entries BY <1>1, RowKnown, BareIs
<1>4. requests' \in [Entries -> Nat] /\ \A e \in Entries : requests[e] # 0 => requests'[e] # 0
  BY <1>1, <1>2 DEF ProjectionTyped
<1>5. Succeeds(table, x)
  <2>1. TakePlace(rows, x) /\ StayRequested BY <1>4 DEF TakePlace, StayRequested
  <2> HIDE DEF rows
  <2> QED BY <1>1, <2>1, RowsChange
<1>6. Result(x) \in Notices /\ Result(x).type = "result" /\ IsAbout(Result(x), x.id)
  BY <1>3 DEF Result, Notices, IsAbout
<1>7. \A r \in Tried(table) : r.id # x.id
  <2>1. \A y \in table : y.id # x.id BY <1>1, RowKnown
  <2>2. \A y : Bare(y).id = y.id BY DEF Bare
  <2> QED BY <2>1, <2>2 DEF Tried
<1> HIDE DEF table
<1> QED BY <1>2, <1>3, <1>4, <1>5, <1>6, <1>7, CommitKeeps DEF Succeeds

LEMMA FailKeeps ==
  ASSUME ProjectionInv, NEW x \in entries, Fail(x)
  PROVE  ProjectionInv'
<1> DEFINE row == [x EXCEPT !.status = "failed"]
           table == (entries \ {x}) \cup {row}
<1>1. ProjectionTyped /\ EntriesKeepPlace BY DEF ProjectionInv
<1>2. requests' = requests /\ Commit(table, Result(x)) BY DEF Fail
<1>3. x \in Rows /\ x.id \in Entries BY <1>1, RowKnown, BareIs
<1>4. requests' \in [Entries -> Nat] /\ \A e \in Entries : requests[e] # 0 => requests'[e] # 0
  BY <1>1, <1>2 DEF ProjectionTyped
<1>5. row \in Rows /\ row.id = x.id /\ row.sequence = x.sequence /\ row.status = "failed" BY <1>3 DEF Rows
<1> HIDE DEF row
<1>6. Succeeds(table, x)
  <2>1. TakePlace({row}, x) /\ StayRequested BY <1>4, <1>5 DEF TakePlace, StayRequested
  <2> QED BY <1>1, <2>1, RowsChange
<1>7. Result(x) \in Notices /\ Result(x).type = "result" /\ IsAbout(Result(x), x.id)
  BY <1>3 DEF Result, Notices, IsAbout
<1>8. \A r \in Tried(table) : r.id # x.id
  <2>1. \A y \in table : y.status # "failed" => y.id # x.id BY <1>1, <1>5, RowKnown
  <2>2. \A y : Bare(y).id = y.id BY DEF Bare
  <2> QED BY <2>1, <2>2 DEF Tried
<1> HIDE DEF table
<1> QED BY <1>2, <1>3, <1>4, <1>6, <1>7, <1>8, CommitKeeps DEF Succeeds


----------------------------------------------------------------------------
(* Steps of this context keep it *)

LEMMA TableChangesKeeps ==
  ASSUME ProjectionInv, TableChanges
  PROVE  ProjectionInv'
<1>1. ProjectionTyped /\ EntriesKeepPlace /\ InstalledIsShown /\ Ended /\ OutboxArrives BY DEF ProjectionInv
<1>2. /\ commits # <<>> /\ replica' = Head(commits) /\ commits' = Tail(commits) /\ asked' = (phase = "open")
      /\ UNCHANGED <<entries, news, requests, work, projecting, stale, wanted, fingerprints, overlay, disabled, phase>>
  BY DEF TableChanges, manager
<1>3. /\ commits' \in Seq(SUBSET Rows) /\ 1 \in DOMAIN commits /\ replica' = commits[1]
      /\ Len(commits) \in Nat /\ DOMAIN commits = 1..Len(commits) /\ DOMAIN commits' = 1..(Len(commits) - 1)
      /\ Len(commits') = Len(commits) - 1
      /\ \A i \in DOMAIN commits' : i + 1 \in DOMAIN commits /\ commits'[i] = commits[i + 1]
  BY <1>1, <1>2 DEF ProjectionTyped
<1>4. ProjectionTyped'
  <2>1. Table(replica') /\ \A i \in DOMAIN commits' : Table(commits'[i]) BY <1>1, <1>3 DEF ProjectionTyped
  <2> QED BY <1>1, <1>2, <1>3, <2>1, WorkTypesStay, WantedTypesStay DEF ProjectionTyped
<1>5. Known' \subseteq Known
  <2>1. \A x \in replica' : \E i \in DOMAIN commits : x \in commits[i] BY <1>3
  <2>2. \A i \in DOMAIN commits' : \E j \in DOMAIN commits : commits'[i] = commits[j] BY <1>3
  <2>3. UNCHANGED <<entries, news, work, wanted>> BY <1>2
  <2> QED BY <2>1, <2>2, <2>3 DEF Known
<1>6. EntriesKeepPlace' BY <1>1, <1>2, <1>5, PlacesKept
<1>7. InstalledIsShown' /\ Ended'
  <2>1. phase = "closed" => work' = <<>> BY <1>1, <1>2 DEF Ended
  <2> QED BY <1>1, <1>2, <2>1, InstallsStay
<1>8. OutboxArrives'
  <2> SUFFICES ASSUME phase' = "open", ~disabled' PROVE (TablesArrive /\ NewsAreTrue /\ WorkIsTrue)' BY DEF OutboxArrives
  <2>1. TablesArrive /\ NewsAreTrue /\ WorkIsTrue BY <1>1, <1>2 DEF OutboxArrives
  <2>2. ~Synced' BY <1>2 DEF Synced
  <2>3. commits' # <<>> => commits'[Len(commits')] = entries'
    <3>1. ASSUME commits' # <<>> PROVE commits'[Len(commits')] = entries
      <4>1. Len(commits') = Len(commits) - 1 /\ Len(commits') \in DOMAIN commits' BY <1>2, <1>3, <3>1
      <4>2. commits'[Len(commits')] = commits[Len(commits)] BY <1>3, <4>1
      <4> QED BY <1>2, <2>1, <4>2 DEF TablesArrive
    <3> QED BY <1>2, <3>1
  <2>4. commits' = <<>> => replica' = entries'
    <3>1. ASSUME commits' = <<>> PROVE replica' = entries
      <4>1. Len(commits) = 1
        <5>1. Len(commits') = 0 BY <3>1
        <5> QED BY <1>3, <5>1
      <4> QED BY <1>2, <1>3, <2>1, <4>1 DEF TablesArrive
    <3> QED BY <1>2, <3>1
  <2>5. TablesArrive' BY <2>2, <2>3, <2>4 DEF TablesArrive
  <2>6. NewsAreTrue' BY <1>2, <2>1 DEF NewsAreTrue, Tells
  <2>7. WorkIsTrue' BY <1>2, <2>1, <2>2 DEF WorkIsTrue, Leaves
  <2> QED BY <2>5, <2>6, <2>7
<1> QED BY <1>4, <1>6, <1>7, <1>8 DEF ProjectionInv

\* A work that is given to the manager.
LEMMA ScheduleIs ==
  ASSUME ProjectionTyped, NEW item \in WorkItems, item.type = "reconcile" => Table(item.entries), Schedule(item)
  PROVE  /\ work' \in Seq(WorkItems) /\ \A i \in DOMAIN work' : work'[i].type = "reconcile" => Table(work'[i].entries)
         /\ Ended => (phase = "closed" => work' = <<>>)
         /\ \A i \in DOMAIN work' : work'[i] = item \/ \E j \in DOMAIN work : work'[i] = work[j]
         /\ Len(work) \in Nat /\ DOMAIN work = 1..Len(work)
         /\ phase = "open" =>
              /\ DOMAIN work' = 1..(Len(work) + 1) /\ work'[Len(work) + 1] = item
              /\ \A i \in DOMAIN work : i \in DOMAIN work' /\ work'[i] = work[i] /\ i <= Len(work)
<1>1. work \in Seq(WorkItems) /\ Len(work) \in Nat /\ DOMAIN work = 1..Len(work) BY DEF ProjectionTyped
<1>2. CASE phase = "closed"
  <2>1. work' = work BY <1>2 DEF Schedule
  <2> QED BY <1>1, <1>2, <2>1 DEF ProjectionTyped, Ended
<1>3. CASE phase # "closed"
  <2>1. work' = Append(work, item) BY <1>3 DEF Schedule
  <2>2. work' \in Seq(WorkItems) /\ DOMAIN work' = 1..(Len(work) + 1) /\ work'[Len(work) + 1] = item
        /\ \A i \in DOMAIN work : i \in DOMAIN work' /\ work'[i] = work[i] /\ i <= Len(work)
    BY <1>1, <2>1
  <2>3. ASSUME NEW i \in DOMAIN work' PROVE work'[i] = item \/ \E j \in DOMAIN work : work'[i] = work[j]
    <3>1. i = Len(work) + 1 \/ i \in DOMAIN work BY <1>1, <2>2
    <3> QED BY <2>2, <3>1
  <2>4. \A i \in DOMAIN work' : work'[i].type = "reconcile" => Table(work'[i].entries) BY <2>3 DEF ProjectionTyped
  <2> QED BY <1>1, <1>3, <2>2, <2>3, <2>4
<1> QED BY <1>2, <1>3

LEMMA ReconcileKeeps ==
  ASSUME ProjectionInv, Reconcile
  PROVE  ProjectionInv'
<1> DEFINE item == [type |-> "reconcile", entries |-> replica]
<1>1. ProjectionTyped /\ EntriesKeepPlace /\ InstalledIsShown /\ Ended /\ OutboxArrives BY DEF ProjectionInv
<1>2. /\ asked /\ asked' = FALSE /\ Schedule(item)
      /\ UNCHANGED <<entries, commits, news, requests, replica, projecting, stale, wanted, fingerprints, overlay, disabled,
                     phase>>
  BY DEF Reconcile, leading
<1>3. item \in WorkItems /\ item.type = "reconcile" /\ item.entries = replica /\ Table(replica)
  BY <1>1 DEF WorkItems, ProjectionTyped, Table
<1> HIDE DEF item
<1>4. /\ work' \in Seq(WorkItems) /\ \A i \in DOMAIN work' : work'[i].type = "reconcile" => Table(work'[i].entries)
      /\ phase = "closed" => work' = <<>>
      /\ \A i \in DOMAIN work' : work'[i] = item \/ \E j \in DOMAIN work : work'[i] = work[j]
      /\ Len(work) \in Nat /\ DOMAIN work = 1..Len(work)
      /\ phase = "open" =>
           /\ DOMAIN work' = 1..(Len(work) + 1) /\ work'[Len(work) + 1] = item
           /\ \A i \in DOMAIN work : i \in DOMAIN work' /\ work'[i] = work[i] /\ i <= Len(work)
  BY <1>1, <1>2, <1>3, ScheduleIs
<1>5. ProjectionTyped' BY <1>1, <1>2, <1>4, LeaderTypesStay, WantedTypesStay DEF ProjectionTyped
<1>6. Known' \subseteq Known
  <2>1. ASSUME NEW r \in Bares, NEW i \in DOMAIN work', r \in Given(work'[i]) PROVE r \in Known
    <3>1. CASE work'[i] = item
      <4>1. \E x \in replica : r = Bare(x) BY <1>3, <2>1, <3>1 DEF Given
      <4> QED BY <4>1 DEF Known
    <3>2. CASE \E j \in DOMAIN work : work'[i] = work[j] BY <2>1, <3>2 DEF Known
    <3> QED BY <1>4, <3>1, <3>2
  <2>2. UNCHANGED <<entries, replica, commits, news, wanted>> BY <1>2
  <2> QED BY <2>1, <2>2 DEF Known
<1>7. EntriesKeepPlace' BY <1>1, <1>2, <1>6, PlacesKept
<1>8. InstalledIsShown' /\ Ended' BY <1>1, <1>2, <1>4, InstallsStay
<1>9. OutboxArrives'
  <2> SUFFICES ASSUME phase' = "open", ~disabled' PROVE (TablesArrive /\ NewsAreTrue /\ WorkIsTrue)' BY DEF OutboxArrives
  <2>1. TablesArrive /\ NewsAreTrue /\ WorkIsTrue BY <1>1, <1>2 DEF OutboxArrives
  <2> DEFINE last == Len(work) + 1
  <2>2. phase = "open" /\ last \in DOMAIN work' /\ work'[last] = item /\ \A i \in DOMAIN work' : i \in Nat /\ i <= last
    BY <1>2, <1>4
  <2> HIDE DEF last
  <2>3. TablesArrive'
    <3>1. ASSUME commits' = <<>>, NEW i \in DOMAIN work', work'[i].type = "reconcile",
                 \A j \in DOMAIN work' : work'[j].type = "reconcile" => j <= i
          PROVE  work'[i].entries = entries'
      <4>1. last <= i /\ i <= last /\ i \in Nat /\ last \in Nat BY <1>3, <2>2, <3>1
      <4>2. i = last BY <4>1
      <4> QED BY <1>2, <1>3, <2>1, <2>2, <3>1, <4>2 DEF TablesArrive
    <3> QED BY <1>2, <2>1, <3>1 DEF TablesArrive, Synced
  <2>4. NewsAreTrue' BY <1>2, <2>1 DEF NewsAreTrue, Tells
  <2>5. ASSUME NEW e \in Entries PROVE Concerns(work'[last], e) BY <1>3, <2>2 DEF Concerns
  <2>6. ASSUME NEW e \in Entries, NEW i \in DOMAIN work', \A j \in DOMAIN work' : Concerns(work'[j], e) => j <= i
        PROVE  Leaves(work[i], e)'
    <3>1. last <= i /\ i <= last /\ i \in Nat /\ last \in Nat BY <2>2, <2>5, <2>6
    <3>2. i = last BY <3>1
    <3> QED BY <1>3, <2>2, <3>2 DEF Leaves
  <2>7. WorkIsTrue' BY <2>2, <2>5, <2>6 DEF WorkIsTrue
  <2> QED BY <2>3, <2>4, <2>7
<1> QED BY <1>5, <1>7, <1>8, <1>9 DEF ProjectionInv

LEMMA DisposeKeeps ==
  ASSUME ProjectionInv, Dispose
  PROVE  ProjectionInv'
<1>1. ProjectionTyped /\ EntriesKeepPlace /\ InstalledIsShown /\ Ended /\ OutboxArrives BY DEF ProjectionInv
<1>2. /\ phase = "open" /\ phase' = "disposing" /\ asked' = FALSE
      /\ UNCHANGED <<entries, commits, news, requests, replica, work, projecting, stale, wanted, fingerprints, overlay,
                     disabled>>
  BY DEF Dispose, leading, manager
<1>3. ProjectionTyped' BY <1>1, <1>2, LeaderTypesStay, WorkTypesStay, WantedTypesStay DEF ProjectionTyped
<1>4. EntriesKeepPlace'
  <2>1. Known' \subseteq Known BY <1>2 DEF Known, Given
  <2> QED BY <1>1, <1>2, <2>1, PlacesKept
<1>5. InstalledIsShown' BY <1>1, <1>2 DEF InstalledIsShown, Installed
<1>6. Ended' /\ OutboxArrives' BY <1>2 DEF Ended, OutboxArrives
<1> QED BY <1>3, <1>4, <1>5, <1>6 DEF ProjectionInv


LEMMA ToldKeeps ==
  ASSUME ProjectionInv, Told
  PROVE  ProjectionInv'
<1> DEFINE m == Head(news)
           item == IF m.type = "answer" THEN [type |-> "ensure", entry |-> m.entry] ELSE [type |-> "discard", id |-> m.id]
<1>1. ProjectionTyped /\ EntriesKeepPlace /\ InstalledIsShown /\ Ended /\ OutboxArrives BY DEF ProjectionInv
<1>2. /\ news # <<>> /\ news' = Tail(news)
      /\ UNCHANGED <<entries, commits, requests, replica, asked, projecting, stale, wanted, fingerprints, overlay,
                     disabled, phase>>
  BY DEF Told
<1>3. /\ news' \in Seq(Notices) /\ 1 \in DOMAIN news /\ m = news[1] /\ m \in Notices
      /\ Len(news) \in Nat /\ DOMAIN news = 1..Len(news) /\ DOMAIN news' = 1..(Len(news) - 1)
      /\ \A i \in DOMAIN news' : i + 1 \in DOMAIN news /\ news'[i] = news[i + 1]
  BY <1>1, <1>2 DEF ProjectionTyped
<1> HIDE DEF m
<1>4. item \in WorkItems /\ item.type \in {"ensure", "discard"}
  <2>1. CASE m.type = "answer"
    <3>1. m.entry \in Rows BY <1>3, <2>1 DEF Notices
    <3> QED BY <2>1, <3>1 DEF WorkItems
  <2>2. CASE m.type # "answer"
    <3>1. m.id \in Entries BY <1>3, <2>2 DEF Notices
    <3> QED BY <2>2, <3>1 DEF WorkItems
  <2> QED BY <2>1, <2>2
<1>5. Schedule(item) \/ (work' = work /\ phase # "open")
  <2>1. m.type \in {"answer", "result"} BY <1>3 DEF Notices
  <2>2. CASE m.type = "answer" BY <2>2 DEF Told, m
  <2>3. CASE m.type = "result" /\ phase = "open" BY <2>3 DEF Told, m
  <2>4. CASE m.type = "result" /\ phase # "open" BY <2>4 DEF Told, m
  <2> QED BY <2>1, <2>2, <2>3, <2>4
<1>6. /\ \A e \in Entries : Concerns(item, e) <=> IsAbout(m, e)
      /\ \A e \in Entries : IsAbout(m, e) /\ Tells(m, e) => Leaves(item, e)
  <2>1. CASE m.type = "answer" BY <2>1 DEF Concerns, IsAbout, Tells, Leaves
  <2>2. CASE m.type # "answer" BY <2>2 DEF Concerns, IsAbout, Tells, Leaves
  <2> QED BY <2>1, <2>2
<1>7. Given(item) \subseteq IF m.type = "answer" THEN {Bare(m.entry)} ELSE {}
  <2>1. CASE m.type = "answer" BY <2>1 DEF Given
  <2>2. CASE m.type # "answer" BY <2>2 DEF Given
  <2> QED BY <2>1, <2>2
<1> HIDE DEF item
<1>8. item.type # "reconcile" BY <1>4
<1>9. /\ work' \in Seq(WorkItems) /\ \A i \in DOMAIN work' : work'[i].type = "reconcile" => Table(work'[i].entries)
      /\ phase = "closed" => work' = <<>>
      /\ \A i \in DOMAIN work' : work'[i] = item \/ \E j \in DOMAIN work : work'[i] = work[j]
      /\ Len(work) \in Nat /\ DOMAIN work = 1..Len(work)
      /\ phase = "open" =>
           /\ DOMAIN work' = 1..(Len(work) + 1) /\ work'[Len(work) + 1] = item
           /\ \A i \in DOMAIN work : i \in DOMAIN work' /\ work'[i] = work[i] /\ i <= Len(work)
  <2>1. CASE Schedule(item) BY <1>1, <1>4, <1>8, <2>1, ScheduleIs
  <2>2. CASE work' = work /\ phase # "open" BY <1>1, <2>2 DEF ProjectionTyped, Ended
  <2> QED BY <1>5, <2>1, <2>2
<1>10. ProjectionTyped'
  <2>1. (Table(entries) /\ Table(replica) /\ \A i \in DOMAIN commits : Table(commits[i]))'
    BY <1>1, <1>2 DEF ProjectionTyped, Table
  <2> QED BY <1>1, <1>2, <1>3, <1>9, <2>1, WantedTypesStay DEF ProjectionTyped
<1>11. Known' \subseteq Known
  <2>1. ASSUME NEW r \in Bares, NEW i \in DOMAIN work', r \in Given(work'[i]) PROVE r \in Known
    <3>1. CASE work'[i] = item
      <4>1. m.type = "answer" /\ r = Bare(m.entry) BY <1>7, <2>1, <3>1
      <4> QED BY <1>3, <4>1 DEF Known
    <3>2. CASE \E j \in DOMAIN work : work'[i] = work[j] BY <2>1, <3>2 DEF Known
    <3> QED BY <1>9, <3>1, <3>2
  <2>2. \A i \in DOMAIN news' : \E j \in DOMAIN news : news'[i] = news[j] BY <1>3
  <2>3. UNCHANGED <<entries, replica, commits, wanted>> BY <1>2
  <2> QED BY <2>1, <2>2, <2>3 DEF Known
<1>12. EntriesKeepPlace' BY <1>1, <1>2, <1>11, PlacesKept
<1>13. InstalledIsShown' /\ Ended' BY <1>1, <1>2, <1>9, InstallsStay
<1>14. OutboxArrives'
  <2> SUFFICES ASSUME phase' = "open", ~disabled' PROVE (TablesArrive /\ NewsAreTrue /\ WorkIsTrue)' BY DEF OutboxArrives
  <2>1. TablesArrive /\ NewsAreTrue /\ WorkIsTrue BY <1>1, <1>2 DEF OutboxArrives
  <2> DEFINE last == Len(work) + 1
  <2>2. /\ phase = "open" /\ last \in DOMAIN work' /\ work'[last] = item
        /\ \A i \in DOMAIN work' : i = last \/ (i \in DOMAIN work /\ i < last /\ work'[i] = work[i])
        /\ \A i \in DOMAIN work : i \in DOMAIN work' /\ i < last /\ work'[i] = work[i]
        /\ last \in Nat
    BY <1>2, <1>9
  <2> HIDE DEF last
  <2>3. TablesArrive'
    <3>1. ASSUME Synced, NEW i \in DOMAIN work', work'[i].type = "reconcile",
                 \A j \in DOMAIN work' : work'[j].type = "reconcile" => j <= i
          PROVE  work'[i].entries = entries
      <4>1. i # last BY <1>8, <2>2, <3>1
      <4>2. i \in DOMAIN work /\ work'[i] = work[i] BY <2>2, <4>1
      <4>3. \A j \in DOMAIN work : work[j].type = "reconcile" => j <= i BY <2>2, <3>1
      <4> QED BY <2>1, <3>1, <4>2, <4>3 DEF TablesArrive
    <3> QED BY <1>2, <2>1, <3>1 DEF TablesArrive, Synced
  <2>4. NewsAreTrue'
    <3>1. ASSUME NEW e \in Entries, NEW i \in DOMAIN news', IsAbout(news'[i], e),
                 \A j \in DOMAIN news' : IsAbout(news'[j], e) => j <= i
          PROVE  Tells(news[i + 1], e)
      <4>1. i + 1 \in DOMAIN news /\ IsAbout(news[i + 1], e) BY <1>3, <3>1
      <4>2. ASSUME NEW j \in DOMAIN news, IsAbout(news[j], e) PROVE j <= i + 1
        <5>1. j = 1 \/ (j - 1 \in DOMAIN news' /\ news'[j - 1] = news[j])
          <6>1. j = 1 \/ j - 1 \in DOMAIN news' BY <1>3
          <6>2. (j - 1) + 1 = j BY <1>3
          <6> QED BY <1>3, <6>1, <6>2
        <5>2. i \in Nat /\ j \in Nat /\ i >= 1 BY <1>3
        <5>3. j - 1 \in DOMAIN news' /\ news'[j - 1] = news[j] => j - 1 <= i BY <3>1, <4>2
        <5> QED BY <5>1, <5>2, <5>3
      <4> QED BY <2>1, <4>1, <4>2 DEF NewsAreTrue
    <3>2. ASSUME NEW e \in Entries, NEW i \in DOMAIN news', Tells(news[i + 1], e) PROVE Tells(news[i], e)'
      <4>1. news'[i] = news[i + 1] BY <1>3
      <4> QED BY <1>2, <3>2, <4>1 DEF Tells
    <3> QED BY <3>1, <3>2 DEF NewsAreTrue
  <2>5. ASSUME NEW e \in Entries, \A j \in DOMAIN news' : ~IsAbout(news'[j], e)
        PROVE  /\ IsAbout(m, e) => Tells(m, e)
               /\ ~IsAbout(m, e) => \A j \in DOMAIN news : ~IsAbout(news[j], e)
    <3>1. ASSUME NEW j \in DOMAIN news, j # 1 PROVE ~IsAbout(news[j], e)
      <4>1. j - 1 \in DOMAIN news' /\ (j - 1) + 1 = j BY <1>3, <3>1
      <4>2. news'[j - 1] = news[j] BY <1>3, <4>1
      <4> QED BY <2>5, <4>1, <4>2
    <3>2. ASSUME IsAbout(m, e) PROVE Tells(m, e)
      <4>1. \A j \in DOMAIN news : IsAbout(news[j], e) => j <= 1 BY <3>1
      <4> QED BY <1>3, <2>1, <3>2, <4>1 DEF NewsAreTrue
    <3> QED BY <1>3, <3>1, <3>2
  <2>6. ASSUME NEW e \in Entries, \A j \in DOMAIN news' : ~IsAbout(news'[j], e), NEW i \in DOMAIN work',
               Concerns(work'[i], e), \A j \in DOMAIN work' : Concerns(work'[j], e) => j <= i
        PROVE  Leaves(work[i], e)'
    <3>1. Leaves(work'[i], e)
      <4>1. CASE i = last BY <1>6, <2>2, <2>5, <2>6, <4>1
      <4>2. CASE i # last
        <5>1. i \in DOMAIN work /\ i < last /\ work'[i] = work[i] /\ ~(last <= i) BY <2>2, <1>9, <4>2
        <5>2. ~Concerns(item, e) BY <2>2, <2>6, <5>1
        <5>3. \A j \in DOMAIN news : ~IsAbout(news[j], e) BY <1>6, <2>5, <2>6, <5>2
        <5>4. \A j \in DOMAIN work : Concerns(work[j], e) => j <= i BY <2>2, <2>6
        <5>5. Leaves(work[i], e) BY <2>1, <2>6, <5>1, <5>3, <5>4 DEF WorkIsTrue
        <5> QED BY <5>1, <5>5
      <4> QED BY <4>1, <4>2
    <3> QED BY <1>2, <3>1 DEF Leaves
  <2>7. ASSUME NEW e \in Entries, \A j \in DOMAIN news' : ~IsAbout(news'[j], e), Synced',
               \A j \in DOMAIN work' : ~Concerns(work'[j], e)
        PROVE  Agrees(e)'
    <3>1. ~Concerns(item, e) /\ \A j \in DOMAIN work : ~Concerns(work[j], e) BY <2>2, <2>7
    <3>2. \A j \in DOMAIN news : ~IsAbout(news[j], e) BY <1>6, <2>5, <2>7, <3>1
    <3>3. Agrees(e) BY <1>2, <2>1, <2>7, <3>1, <3>2 DEF WorkIsTrue, Synced
    <3> QED BY <1>2, <3>3 DEF Agrees
  <2>8. WorkIsTrue' BY <2>6, <2>7 DEF WorkIsTrue
  <2> QED BY <2>3, <2>4, <2>8
<1> QED BY <1>10, <1>12, <1>13, <1>14 DEF ProjectionInv


----------------------------------------------------------------------------
(* Steps of the manager keep it *)

LEMMA RowsOf ==
  ASSUME NEW list \in Seq(Bares), Ordered(list)
  PROVE  /\ Len(list) \in Nat /\ DOMAIN list = 1..Len(list)
         /\ \A i \in DOMAIN list : list[i] \in Bares /\ list[i].id \in Entries /\ list[i].request \in Nat \ {0}
         /\ \A i, j \in DOMAIN list : list[i].id = list[j].id => i = j
         /\ \A i \in DOMAIN list : list[i] \in Range(list)
<1>1. Len(list) \in Nat /\ DOMAIN list = 1..Len(list) OBVIOUS
<1>2. \A i \in DOMAIN list : list[i] \in Bares /\ list[i].id \in Entries /\ list[i].request \in Nat \ {0}
  <2>1. \A i \in DOMAIN list : list[i] \in Bares OBVIOUS
  <2> QED BY <2>1, BaresAre
<1>3. ASSUME NEW i \in DOMAIN list, NEW j \in DOMAIN list, list[i].id = list[j].id PROVE i = j
  <2>1. ~(i < j) /\ ~(j < i) BY <1>3 DEF Ordered
  <2> QED BY <1>1, <2>1
<1>4. \A i \in DOMAIN list : list[i] \in Range(list) BY DEF Range
<1> QED BY <1>1, <1>2, <1>3, <1>4

LEMMA WantedKnown ==
  ASSUME ProjectionTyped, EntriesKeepPlace
  PROVE  \A r \in Range(wanted) : r \in Known
<1>1. \A i \in DOMAIN wanted : wanted[i] \in Bares BY DEF ProjectionTyped
<1> QED BY <1>1 DEF Known, Range

\* The works that are left when one has begun.
LEMMA WorkBegins ==
  ASSUME ProjectionTyped, work # <<>>, work' = Tail(work)
  PROVE  /\ work' \in Seq(WorkItems) /\ \A i \in DOMAIN work' : work'[i].type = "reconcile" => Table(work'[i].entries)
         /\ 1 \in DOMAIN work /\ Head(work) = work[1] /\ \A i \in DOMAIN work : i \in Nat /\ i >= 1
         /\ \A i \in DOMAIN work' : i \in Nat /\ i + 1 \in DOMAIN work /\ work'[i] = work[i + 1]
         /\ \A i \in DOMAIN work : i = 1 \/ \E j \in DOMAIN work' : i = j + 1 /\ work'[j] = work[i]
<1>1. /\ work \in Seq(WorkItems) /\ work' \in Seq(WorkItems) /\ 1 \in DOMAIN work /\ Head(work) = work[1]
      /\ Len(work) \in Nat /\ DOMAIN work = 1..Len(work) /\ DOMAIN work' = 1..(Len(work) - 1)
      /\ \A i \in DOMAIN work' : i + 1 \in DOMAIN work /\ work'[i] = work[i + 1]
  BY DEF ProjectionTyped
<1>2. \A i \in DOMAIN work' : work'[i].type = "reconcile" => Table(work'[i].entries) BY <1>1 DEF ProjectionTyped
<1>3. ASSUME NEW i \in DOMAIN work, i # 1 PROVE \E j \in DOMAIN work' : i = j + 1 /\ work'[j] = work[i]
  <2>1. i - 1 \in DOMAIN work' /\ i = (i - 1) + 1 BY <1>1, <1>3
  <2> QED BY <1>1, <2>1
<1> QED BY <1>1, <1>2, <1>3

\* What remains of the works agrees with the outbox, where what is wanted follows the one that has begun.
LEMMA WorkIsDone ==
  ASSUME ProjectionTyped, TablesArrive, NewsAreTrue, WorkIsTrue, work # <<>>, work' = Tail(work),
         UNCHANGED <<entries, commits, news, replica, asked>>, wanted' = Aim(Head(work))
  PROVE  (TablesArrive /\ NewsAreTrue /\ WorkIsTrue)'
<1> DEFINE item == Head(work)
           next == Aim(item)
<1>1. /\ 1 \in DOMAIN work /\ item = work[1] /\ \A i \in DOMAIN work : i \in Nat /\ i >= 1
      /\ \A i \in DOMAIN work' : i \in Nat /\ i + 1 \in DOMAIN work /\ work'[i] = work[i + 1]
      /\ \A i \in DOMAIN work : i = 1 \/ \E j \in DOMAIN work' : i = j + 1 /\ work'[j] = work[i]
  BY WorkBegins
<1>2. /\ item \in WorkItems /\ next \in Seq(Bares)
      /\ item.type = "reconcile" => Table(item.entries) /\ Range(next) = Tried(item.entries)
      /\ item.type = "ensure" =>
           item.entry \in Rows /\ Range(next) = {r \in Range(wanted) : r.id # item.entry.id} \cup {Bare(item.entry)}
      /\ item.type = "discard" => Range(next) = {r \in Range(wanted) : r.id # item.id}
  BY AimIs
<1> HIDE DEF item, next
<1>3. wanted' = next BY DEF item, next
<1>4. ASSUME NEW P, NEW i \in DOMAIN work', \A j \in DOMAIN work' : j \in P => j <= i, NEW k \in DOMAIN work,
             k # 1 => \E j \in DOMAIN work' : k = j + 1 /\ j \in P
      PROVE  k <= i + 1
  <2>1. i \in Nat BY <1>1
  <2>2. CASE k = 1 BY <2>1, <2>2
  <2>3. CASE k # 1
    <3>1. PICK j \in DOMAIN work' : k = j + 1 /\ j <= i BY <1>4, <2>3
    <3>2. j \in Nat BY <1>1
    <3> QED BY <2>1, <3>1, <3>2
  <2> QED BY <2>2, <2>3
<1>5. TablesArrive'
  <2>1. ASSUME Synced, NEW i \in DOMAIN work', work'[i].type = "reconcile",
               \A j \in DOMAIN work' : work'[j].type = "reconcile" => j <= i
        PROVE  work'[i].entries = entries
    <3> DEFINE P == {j \in DOMAIN work' : work'[j].type = "reconcile"}
    <3>1. ASSUME NEW k \in DOMAIN work, work[k].type = "reconcile" PROVE k <= i + 1
      <4>1. k # 1 => \E j \in DOMAIN work' : k = j + 1 /\ j \in P BY <1>1, <3>1
      <4>2. \A j \in DOMAIN work' : j \in P => j <= i BY <2>1
      <4> HIDE DEF P
      <4> QED BY <1>4, <4>1, <4>2
    <3>2. i + 1 \in DOMAIN work /\ work'[i] = work[i + 1] BY <1>1
    <3> QED BY <2>1, <3>1, <3>2 DEF TablesArrive
  <2> QED BY <2>1 DEF TablesArrive, Synced
<1>6. NewsAreTrue' BY DEF NewsAreTrue, Tells
<1>7. ASSUME NEW e \in Entries, \A j \in DOMAIN news : ~IsAbout(news[j], e), NEW i \in DOMAIN work',
             Concerns(work'[i], e), \A j \in DOMAIN work' : Concerns(work'[j], e) => j <= i
      PROVE  Leaves(work[i], e)'
  <2> DEFINE P == {j \in DOMAIN work' : Concerns(work'[j], e)}
  <2>1. ASSUME NEW k \in DOMAIN work, Concerns(work[k], e) PROVE k <= i + 1
    <3>1. k # 1 => \E j \in DOMAIN work' : k = j + 1 /\ j \in P
      <4>1. ASSUME k # 1 PROVE \E j \in DOMAIN work' : k = j + 1 /\ j \in P
        <5>1. PICK j \in DOMAIN work' : k = j + 1 /\ work'[j] = work[k] BY <1>1, <4>1
        <5>2. Concerns(work'[j], e) BY <2>1, <5>1
        <5> QED BY <5>1, <5>2
      <4> QED BY <4>1
    <3>2. \A j \in DOMAIN work' : j \in P => j <= i BY <1>7
    <3> HIDE DEF P
    <3> QED BY <1>4, <3>1, <3>2
  <2>2. i + 1 \in DOMAIN work /\ work'[i] = work[i + 1] BY <1>1
  <2>3. Concerns(work[i + 1], e) BY <1>7, <2>2
  <2>4. Leaves(work[i + 1], e) BY <1>7, <2>1, <2>2, <2>3 DEF WorkIsTrue
  <2> QED BY <2>2, <2>4 DEF Leaves
<1>8. ASSUME NEW e \in Entries, \A j \in DOMAIN news : ~IsAbout(news[j], e), Synced,
             \A j \in DOMAIN work' : ~Concerns(work'[j], e), NEW r \in Bares, r.id = e
      PROVE  r \in Range(next) <=> r \in Tried(entries)
  <2>1. \A k \in DOMAIN work : Concerns(work[k], e) => k = 1
    <3>1. ASSUME NEW k \in DOMAIN work, Concerns(work[k], e), k # 1 PROVE FALSE
      <4>1. PICK j \in DOMAIN work' : k = j + 1 /\ work'[j] = work[k] BY <1>1, <3>1
      <4>2. Concerns(work'[j], e) BY <3>1, <4>1
      <4> QED BY <1>8, <4>2
    <3> QED BY <3>1
  <2>2. Tried(entries) \subseteq Bares /\ \A a, b \in Tried(entries) : a # b => a.id # b.id
    <3>1. Table(entries) BY DEF ProjectionTyped
    <3> QED BY <3>1, TriedIs
  <2>3. CASE Concerns(item, e)
    <3>1. \A k \in DOMAIN work : Concerns(work[k], e) => k <= 1 BY <2>1
    <3>2. Leaves(item, e) BY <1>1, <1>8, <2>3, <3>1 DEF WorkIsTrue
    <3>3. CASE item.type = "reconcile"
      <4>1. ASSUME NEW k \in DOMAIN work, work[k].type = "reconcile" PROVE k <= 1
        <5>1. Concerns(work[k], e) BY <4>1 DEF Concerns
        <5> QED BY <3>1, <5>1
      <4>2. item.entries = entries BY <1>1, <1>8, <3>3, <4>1 DEF TablesArrive
      <4> QED BY <1>2, <3>3, <4>2
    <3>4. CASE item.type = "ensure"
      <4>1. item.entry.id = e /\ Bare(item.entry) \in Tried(entries) BY <2>3, <3>2, <3>4 DEF Concerns, Leaves
      <4>2. Bare(item.entry).id = e BY <4>1 DEF Bare
      <4>3. r \in Range(next) <=> r = Bare(item.entry) BY <1>2, <1>8, <3>4, <4>1, <4>2
      <4>4. r \in Tried(entries) <=> r = Bare(item.entry) BY <1>8, <2>2, <4>1, <4>2
      <4> QED BY <4>3, <4>4
    <3>5. CASE item.type = "discard"
      <4>1. item.id = e /\ \A q \in Tried(entries) : q.id # e BY <2>3, <3>2, <3>5 DEF Concerns, Leaves
      <4> QED BY <1>2, <1>8, <3>5, <4>1
    <3> QED BY <1>2, <3>3, <3>4, <3>5 DEF WorkItems
  <2>4. CASE ~Concerns(item, e)
    <3>1. \A k \in DOMAIN work : ~Concerns(work[k], e) BY <1>1, <2>1, <2>4
    <3>2. Agrees(e) BY <1>8, <3>1 DEF WorkIsTrue
    <3>3. r \in Range(next) <=> r \in Range(wanted)
      <4>1. CASE item.type = "reconcile" BY <2>4, <4>1 DEF Concerns
      <4>2. CASE item.type = "ensure"
        <5>1. item.entry.id # e BY <2>4, <4>2 DEF Concerns
        <5>2. Bare(item.entry).id # e BY <5>1 DEF Bare
        <5> QED BY <1>2, <1>8, <4>2, <5>1, <5>2
      <4>3. CASE item.type = "discard"
        <5>1. item.id # e BY <2>4, <4>3 DEF Concerns
        <5> QED BY <1>2, <1>8, <4>3, <5>1
      <4> QED BY <1>2, <4>1, <4>2, <4>3 DEF WorkItems
    <3> QED BY <1>8, <3>2, <3>3 DEF Agrees
  <2> QED BY <2>3, <2>4
<1>9. WorkIsTrue'
  <2>1. ASSUME NEW e \in Entries, \A j \in DOMAIN news : ~IsAbout(news[j], e), Synced,
               \A j \in DOMAIN work' : ~Concerns(work'[j], e)
        PROVE  Agrees(e)'
    <3>1. \A r \in Bares : r.id = e => (r \in Range(next) <=> r \in Tried(entries)) BY <1>8, <2>1
    <3> QED BY <1>3, <3>1 DEF Agrees
  <2>2. UNCHANGED Synced BY DEF Synced
  <2> QED BY <1>7, <2>1, <2>2 DEF WorkIsTrue
<1> QED BY <1>5, <1>6, <1>9


\* The transactions of some entries are settled.
LEMMA TakenIs ==
  ASSUME ProjectionTyped, NEW ids, Taken(ids)
  PROVE  /\ fingerprints' \in [Entries -> Nat] /\ overlay' \in Seq(Bares)
         /\ \A e \in Entries : fingerprints'[e] = IF e \in ids THEN 0 ELSE fingerprints[e]
         /\ \E at \in [DOMAIN overlay' -> DOMAIN overlay] :
              /\ \A k, l \in DOMAIN overlay' : k < l => at[k] < at[l]
              /\ \A k \in DOMAIN overlay' : overlay'[k] = overlay[at[k]] /\ overlay[at[k]].id \notin ids
              /\ \A i \in DOMAIN overlay : overlay[i].id \notin ids => \E k \in DOMAIN overlay' : at[k] = i
<1>1. fingerprints' = [e \in Entries |-> IF e \in ids THEN 0 ELSE fingerprints[e]] /\ overlay' = Without(overlay, ids)
  BY DEF Taken
<1>2. fingerprints \in [Entries -> Nat] /\ overlay \in Seq(Bares) BY DEF ProjectionTyped
<1>3. fingerprints' \in [Entries -> Nat] /\ \A e \in Entries : fingerprints'[e] = IF e \in ids THEN 0 ELSE fingerprints[e]
  BY <1>1, <1>2
<1> DEFINE at == Left(overlay, ids)
<1>4. /\ overlay' \in Seq(Bares) /\ at \in [DOMAIN overlay' -> DOMAIN overlay]
      /\ \A k, l \in DOMAIN overlay' : k < l => at[k] < at[l]
      /\ \A k \in DOMAIN overlay' : overlay'[k] = overlay[at[k]] /\ overlay[at[k]].id \notin ids
      /\ \A i \in DOMAIN overlay : overlay[i].id \notin ids => \E k \in DOMAIN overlay' : at[k] = i
  BY <1>1, <1>2, WithoutIs
<1> HIDE DEF at
<1> QED BY <1>3, <1>4

\* Where all that is wanted is taken back, nothing is shown.
LEMMA AllTaken ==
  ASSUME ProjectionTyped, InstalledIsShown, Ended, Taken(Ids(wanted))
  PROVE  overlay' = <<>> /\ fingerprints' = [e \in Entries |-> 0]
<1>1. /\ fingerprints' \in [Entries -> Nat] /\ overlay' \in Seq(Bares)
      /\ \A e \in Entries : fingerprints'[e] = IF e \in Ids(wanted) THEN 0 ELSE fingerprints[e]
  BY TakenIs
<1>2. PICK at \in [DOMAIN overlay' -> DOMAIN overlay] :
        \A k \in DOMAIN overlay' : overlay'[k] = overlay[at[k]] /\ overlay[at[k]].id \notin Ids(wanted)
  BY TakenIs
<1>3. \A i \in 1..Installed : i \in DOMAIN wanted
  <2>1. Len(wanted) \in Nat /\ DOMAIN wanted = 1..Len(wanted) /\ Len(projecting) \in Nat BY DEF ProjectionTyped
  <2> QED BY <2>1 DEF Installed
<1>4. ASSUME NEW i \in DOMAIN overlay PROVE overlay[i].id \in Ids(wanted)
  <2>1. CASE phase = "closed" BY <1>4, <2>1 DEF Ended
  <2>2. CASE phase # "closed"
    <3>1. PICK j \in 1..Installed : overlay[i] = wanted[j] BY <2>2 DEF InstalledIsShown
    <3> QED BY <1>3, <3>1 DEF Ids
  <2> QED BY <2>1, <2>2
<1>5. ASSUME NEW e \in Entries PROVE fingerprints'[e] = 0
  <2>1. CASE e \in Ids(wanted) BY <1>1, <2>1
  <2>2. CASE e \notin Ids(wanted)
    <3>1. CASE phase = "closed" BY <1>1, <2>2, <3>1 DEF Ended
    <3>2. CASE phase # "closed"
      <4>1. fingerprints[e] # 0 => \E j \in 1..Installed : wanted[j].id = e BY <3>2 DEF InstalledIsShown
      <4>2. fingerprints[e] = 0 BY <1>3, <2>2, <4>1 DEF Ids
      <4> QED BY <1>1, <2>2, <4>2
    <3> QED BY <3>1, <3>2
  <2> QED BY <2>1, <2>2
<1>6. DOMAIN overlay' = {} BY <1>2, <1>4
<1>7. overlay' = <<>> BY <1>1, <1>6
<1> QED BY <1>1, <1>5, <1>7

LEMMA DisableKeeps ==
  ASSUME ProjectionInv, Disable
  PROVE  ProjectionInv'
<1>1. ProjectionTyped /\ EntriesKeepPlace /\ InstalledIsShown /\ Ended BY DEF ProjectionInv
<1>2. /\ Taken(Ids(wanted)) /\ wanted' = <<>> /\ projecting' = <<>> /\ disabled' = TRUE /\ stale' = FALSE
      /\ UNCHANGED <<entries, commits, news, requests, replica, asked, work, phase>>
  BY DEF Disable, leading
<1>3. overlay' = <<>> /\ fingerprints' = [e \in Entries |-> 0] BY <1>1, <1>2, AllTaken
<1>4. <<>> \in Seq(Bares) /\ Ordered(<<>>) /\ Len(<<>>) = 0 /\ DOMAIN <<>> = {} BY DEF Ordered
<1>5. ProjectionTyped'
  <2>1. Ordered(wanted)' BY <1>2, <1>4 DEF Ordered
  <2> QED BY <1>1, <1>2, <1>3, <1>4, <2>1, LeaderTypesStay, WorkTypesStay DEF ProjectionTyped
<1>6. Known' \subseteq Known BY <1>2, <1>4 DEF Known
<1>7. EntriesKeepPlace' BY <1>1, <1>2, <1>6, PlacesKept
<1>8. InstalledIsShown' BY <1>2, <1>3, <1>4 DEF InstalledIsShown, Installed
<1>9. Ended' BY <1>1, <1>2, <1>3 DEF Ended
<1>10. OutboxArrives' BY <1>2 DEF OutboxArrives
<1> QED BY <1>5, <1>7, <1>8, <1>9, <1>10 DEF ProjectionInv

LEMMA EndKeeps ==
  ASSUME ProjectionInv, CloseProjections
  PROVE  ProjectionInv'
<1>1. ProjectionTyped /\ EntriesKeepPlace /\ InstalledIsShown /\ Ended BY DEF ProjectionInv
<1>2. /\ phase = "disposing" /\ phase' = "closed"
      /\ Taken(Ids(wanted)) /\ wanted' = <<>> /\ work' = <<>> /\ stale' = (projecting # <<>>)
      /\ UNCHANGED <<entries, commits, news, requests, replica, asked, projecting, disabled>>
  BY DEF CloseProjections, leading
<1>3. overlay' = <<>> /\ fingerprints' = [e \in Entries |-> 0] BY <1>1, <1>2, AllTaken
<1>4. <<>> \in Seq(Bares) /\ <<>> \in Seq(WorkItems) /\ Ordered(<<>>) /\ DOMAIN <<>> = {} BY DEF Ordered
<1>5. ProjectionTyped'
  <2>1. Ordered(wanted)' BY <1>2, <1>4 DEF Ordered
  <2> QED BY <1>1, <1>2, <1>3, <1>4, <2>1, LeaderTypesStay DEF ProjectionTyped
<1>6. Known' \subseteq Known BY <1>2 DEF Known
<1>7. EntriesKeepPlace' BY <1>1, <1>2, <1>6, PlacesKept
<1>8. InstalledIsShown' /\ OutboxArrives' BY <1>2 DEF InstalledIsShown, OutboxArrives
<1>9. Ended' BY <1>2, <1>3 DEF Ended
<1> QED BY <1>5, <1>7, <1>8, <1>9 DEF ProjectionInv

\* What is left to be installed is the end of what is wanted.
LEMMA EndOf ==
  ASSUME NEW T, NEW list \in Seq(T), NEW n \in 0..Len(list), SubSeq(list, n + 1, Len(list)) # <<>>
  PROVE  LET end == SubSeq(list, n + 1, Len(list))
         IN  /\ n + 1 \in 1..Len(list) /\ Head(end) = list[n + 1]
             /\ Tail(end) \in Seq(T) /\ Tail(end) = SubSeq(list, n + 2, Len(list)) /\ Len(Tail(end)) = Len(list) - n - 1
<1> DEFINE end == SubSeq(list, n + 1, Len(list))
           rest == SubSeq(list, n + 2, Len(list))
<1>1. Len(list) \in Nat /\ n \in Nat /\ n <= Len(list) OBVIOUS
<1>2. end \in Seq(T) /\ Len(end) = Len(list) - n /\ \A i \in 1..(Len(list) - n) : end[i] = list[n + i] BY <1>1
<1>3. n < Len(list)
  <2>1. Len(end) # 0 BY <1>2
  <2> QED BY <1>1, <1>2, <2>1
<1>4. rest \in Seq(T) /\ Len(rest) = Len(list) - n - 1 /\ \A i \in 1..(Len(list) - n - 1) : rest[i] = list[n + 1 + i]
  BY <1>1, <1>3
<1> HIDE DEF end, rest
<1>5. Tail(end) \in Seq(T) /\ Len(Tail(end)) = Len(list) - n - 1 /\ Head(end) = end[1]
      /\ \A i \in 1..(Len(list) - n - 1) : Tail(end)[i] = end[i + 1]
  BY <1>1, <1>2, <1>3
<1>6. \A i \in 1..(Len(list) - n - 1) : Tail(end)[i] = rest[i]
  <2>1. ASSUME NEW i \in 1..(Len(list) - n - 1) PROVE Tail(end)[i] = rest[i]
    <3>1. i + 1 \in 1..(Len(list) - n) /\ n + (i + 1) = n + 1 + i BY <1>1, <1>3
    <3> QED BY <1>2, <1>4, <1>5, <3>1
  <2> QED BY <2>1
<1>7. Tail(end) = rest
  <2> DEFINE last == Tail(end)
             m == Len(list) - n - 1
  <2>1. m \in Nat BY <1>1, <1>3
  <2>2. last \in Seq(T) /\ rest \in Seq(T) /\ Len(last) = m /\ Len(rest) = m /\ \A i \in 1..m : last[i] = rest[i]
    BY <1>4, <1>5, <1>6
  <2> HIDE DEF last, m
  <2>3. last = rest BY <2>1, <2>2
  <2> QED BY <2>3 DEF last
<1>8. Head(end) = list[n + 1]
  <2>1. 1 \in 1..(Len(list) - n) BY <1>1, <1>3
  <2> QED BY <1>2, <1>5, <2>1
<1> QED BY <1>1, <1>3, <1>5, <1>7, <1>8 DEF end, rest

LEMMA InstallKeeps ==
  ASSUME ProjectionInv, Install
  PROVE  ProjectionInv'
<1> DEFINE entry == Head(projecting)
           n == Installed
<1>1. ProjectionTyped /\ EntriesKeepPlace /\ InstalledIsShown /\ Ended /\ OutboxArrives BY DEF ProjectionInv
<1>2. /\ projecting # <<>> /\ projecting' = (IF stale THEN <<>> ELSE Tail(projecting)) /\ stale' = FALSE
      /\ UNCHANGED <<entries, commits, news, requests, replica, asked, work, wanted, disabled, phase>>
  BY DEF Install, leading
<1>3. projecting \in Seq(Bares) /\ wanted \in Seq(Bares) /\ overlay \in Seq(Bares) /\ fingerprints \in [Entries -> Nat]
      /\ Ordered(wanted)
  BY <1>1 DEF ProjectionTyped
<1>4. EntriesKeepPlace'
  <2>1. Known' \subseteq Known BY <1>2 DEF Known, Given
  <2> QED BY <1>1, <1>2, <2>1, PlacesKept
<1>5. OutboxArrives'
  <2>1. UNCHANGED <<TablesArrive, NewsAreTrue, WorkIsTrue>>
    <3>1. UNCHANGED TablesArrive BY <1>2 DEF TablesArrive, Synced
    <3>2. UNCHANGED NewsAreTrue BY <1>2 DEF NewsAreTrue, Tells
    <3>3. UNCHANGED WorkIsTrue BY <1>2 DEF WorkIsTrue, Leaves, Agrees, Synced
    <3> QED BY <3>1, <3>2, <3>3
  <2> QED BY <1>1, <1>2, <2>1 DEF OutboxArrives
<1>6. CASE stale
  <2>1. phase = "closed" BY <1>1, <1>6 DEF InstalledIsShown
  <2>2. UNCHANGED <<overlay, fingerprints>> /\ projecting' = <<>> BY <1>2, <1>6 DEF Install
  <2>3. <<>> \in Seq(Bares) OBVIOUS
  <2>4. ProjectionTyped' BY <1>1, <1>2, <2>2, <2>3, LeaderTypesStay, WorkTypesStay, WantedTypesStay DEF ProjectionTyped
  <2>5. InstalledIsShown' BY <1>2, <2>1 DEF InstalledIsShown
  <2>6. Ended' BY <1>1, <1>2, <2>2 DEF Ended
  <2> QED BY <1>4, <1>5, <2>4, <2>5, <2>6 DEF ProjectionInv
<1>7. CASE ~stale
  <2>1. phase # "closed" BY <1>1, <1>2, <1>7 DEF Ended
  <2>2. /\ overlay' = (IF entry.id \in Effective THEN Append(overlay, entry) ELSE overlay)
        /\ fingerprints' = [fingerprints EXCEPT ![entry.id] = entry.request]
        /\ projecting' = Tail(projecting)
    BY <1>2, <1>7 DEF Install
  <2>3. /\ Len(projecting) <= Len(wanted) /\ n = Len(wanted) - Len(projecting)
        /\ projecting = SubSeq(wanted, n + 1, Len(wanted))
    BY <1>1, <2>1 DEF InstalledIsShown, Installed
  <2>4. Len(projecting) <= Len(wanted) /\ n = Len(wanted) - Len(projecting) BY <2>3
  <2>5. /\ \A i \in 1..n : fingerprints[wanted[i].id] = wanted[i].request
        /\ \A e \in Entries : fingerprints[e] # 0 => \E i \in 1..n : wanted[i].id = e
        /\ \A k \in DOMAIN overlay : \E i \in 1..n : overlay[k] = wanted[i] /\ wanted[i].id \in Effective
        /\ \A i \in 1..n : wanted[i].id \in Effective => \E k \in DOMAIN overlay : overlay[k] = wanted[i]
        /\ \A k, l \in DOMAIN overlay, i, j \in DOMAIN wanted :
             k < l /\ overlay[k] = wanted[i] /\ overlay[l] = wanted[j] => i < j
        /\ disabled => wanted = <<>>
    BY <1>1, <2>1 DEF InstalledIsShown, Installed
  <2> HIDE DEF n
  <2>6. /\ Len(wanted) \in Nat /\ Len(projecting) \in Nat /\ DOMAIN wanted = 1..Len(wanted)
        /\ n \in Nat /\ n \in 0..Len(wanted)
    <3>1. Len(wanted) \in Nat /\ Len(projecting) \in Nat /\ DOMAIN wanted = 1..Len(wanted) BY <1>3
    <3> QED BY <2>4, <3>1
  <2>7. /\ n + 1 \in 1..Len(wanted) /\ entry = wanted[n + 1]
        /\ projecting' \in Seq(Bares) /\ Len(projecting') = Len(wanted) - n - 1
    <3>1. SubSeq(wanted, n + 1, Len(wanted)) # <<>> BY <1>2, <2>3
    <3>2. LET end == SubSeq(wanted, n + 1, Len(wanted))
          IN  /\ n + 1 \in 1..Len(wanted) /\ Head(end) = wanted[n + 1]
              /\ Tail(end) \in Seq(Bares) /\ Tail(end) = SubSeq(wanted, n + 2, Len(wanted))
              /\ Len(Tail(end)) = Len(wanted) - n - 1
      BY <1>3, <2>6, <3>1, EndOf
    <3> QED BY <2>2, <2>3, <3>2
  <2>8. projecting' = SubSeq(wanted, n + 2, Len(wanted))
    <3>1. SubSeq(wanted, n + 1, Len(wanted)) # <<>> BY <1>2, <2>3
    <3> QED BY <1>3, <2>2, <2>6, <2>3, <3>1, EndOf
  <2>9. /\ \A i \in DOMAIN wanted : wanted[i] \in Bares /\ wanted[i].id \in Entries /\ wanted[i].request \in Nat \ {0}
        /\ \A i, j \in DOMAIN wanted : wanted[i].id = wanted[j].id => i = j
    BY <1>3, RowsOf
  <2>10. entry \in Bares /\ entry.id \in Entries /\ entry.request \in Nat \ {0} BY <2>6, <2>7, <2>9
  <2> HIDE DEF entry
  <2>11. fingerprints' \in [Entries -> Nat] /\ overlay' \in Seq(Bares) BY <1>3, <2>2, <2>10
  <2>12. ProjectionTyped' BY <1>1, <1>2, <2>7, <2>11, LeaderTypesStay, WorkTypesStay, WantedTypesStay DEF ProjectionTyped
  <2>13. Installed' = n + 1
    <3>1. Installed' = Len(wanted) - Len(projecting') BY <1>2 DEF Installed
    <3>2. Len(projecting') = Len(wanted) - n - 1 BY <2>7
    <3> QED BY <2>6, <3>1, <3>2
  <2>14. \A i \in 1..(n + 1) : i \in DOMAIN wanted /\ (i = n + 1 \/ i \in 1..n) BY <2>6, <2>7
  <2>15. \A i \in 1..n : i \in 1..(n + 1) /\ i \in DOMAIN wanted /\ i < n + 1 /\ wanted[i].id # entry.id
    BY <2>6, <2>7, <2>9
  <2>16. \A i \in 1..(n + 1) : fingerprints'[wanted[i].id] = wanted[i].request
    BY <1>3, <2>2, <2>5, <2>6, <2>7, <2>9, <2>14, <2>15
  <2>17. \A e \in Entries : fingerprints'[e] # 0 => \E i \in 1..(n + 1) : wanted[i].id = e
    <3>1. ASSUME NEW e \in Entries, fingerprints'[e] # 0, e # entry.id PROVE \E i \in 1..(n + 1) : wanted[i].id = e
      <4>1. fingerprints[e] # 0 BY <1>3, <2>2, <3>1
      <4>2. PICK i \in 1..n : wanted[i].id = e BY <2>5, <4>1
      <4> QED BY <2>15, <4>2
    <3>2. n + 1 \in 1..(n + 1) /\ wanted[n + 1].id = entry.id BY <2>6, <2>7
    <3> QED BY <3>1, <3>2
  <2>18. /\ \A k \in DOMAIN overlay : k \in DOMAIN overlay' /\ overlay'[k] = overlay[k]
         /\ \A k \in DOMAIN overlay' :
              k \in DOMAIN overlay \/ (entry.id \in Effective /\ overlay'[k] = entry /\ \A l \in DOMAIN overlay : l < k)
         /\ entry.id \in Effective => \E k \in DOMAIN overlay' : overlay'[k] = entry
         /\ \A k, l \in DOMAIN overlay' : k < l => k \in DOMAIN overlay
    <3>1. Len(overlay) \in Nat /\ DOMAIN overlay = 1..Len(overlay) BY <1>3
    <3>2. CASE entry.id \in Effective
      <4>1. overlay' = Append(overlay, entry) BY <2>2, <3>2
      <4>2. DOMAIN overlay' = 1..(Len(overlay) + 1) /\ overlay'[Len(overlay) + 1] = entry
            /\ \A k \in 1..Len(overlay) : overlay'[k] = overlay[k]
        BY <1>3, <3>1, <4>1
      <4>3. \A k \in DOMAIN overlay' : k \in DOMAIN overlay \/ k = Len(overlay) + 1 BY <3>1, <4>2
      <4>4. \A k \in DOMAIN overlay : k \in DOMAIN overlay' /\ k < Len(overlay) + 1 BY <3>1, <4>2
      <4>5. Len(overlay) + 1 \in DOMAIN overlay' BY <3>1, <4>2
      <4>6. \A k, l \in DOMAIN overlay' : k < l => k \in DOMAIN overlay BY <3>1, <4>2
      <4> QED BY <3>1, <3>2, <4>2, <4>3, <4>4, <4>5, <4>6
    <3>3. CASE entry.id \notin Effective BY <2>2, <3>3
    <3> QED BY <3>2, <3>3
  <2>19. \A k \in DOMAIN overlay' : \E i \in 1..(n + 1) : overlay'[k] = wanted[i] /\ wanted[i].id \in Effective
    <3>1. ASSUME NEW k \in DOMAIN overlay
          PROVE  \E i \in 1..(n + 1) : overlay'[k] = wanted[i] /\ wanted[i].id \in Effective
      <4>1. PICK i \in 1..n : overlay[k] = wanted[i] /\ wanted[i].id \in Effective BY <2>5
      <4> QED BY <2>15, <2>18, <4>1
    <3>2. n + 1 \in 1..(n + 1) BY <2>6, <2>7
    <3> QED BY <2>6, <2>7, <2>18, <3>1, <3>2
  <2>20. \A i \in 1..(n + 1) : wanted[i].id \in Effective => \E k \in DOMAIN overlay' : overlay'[k] = wanted[i]
    <3>1. ASSUME NEW i \in 1..n, wanted[i].id \in Effective PROVE \E k \in DOMAIN overlay' : overlay'[k] = wanted[i]
      <4>1. PICK k \in DOMAIN overlay : overlay[k] = wanted[i] BY <2>5, <3>1
      <4> QED BY <2>18, <4>1
    <3> QED BY <2>6, <2>7, <2>14, <2>18, <3>1
  <2>21. ASSUME NEW k \in DOMAIN overlay', NEW l \in DOMAIN overlay', NEW i \in DOMAIN wanted, NEW j \in DOMAIN wanted,
                k < l, overlay'[k] = wanted[i], overlay'[l] = wanted[j]
         PROVE  i < j
    <3>1. k \in DOMAIN overlay /\ overlay[k] = wanted[i] BY <2>18, <2>21
    <3>2. CASE l \in DOMAIN overlay
      <4>1. overlay[l] = wanted[j] BY <2>18, <2>21, <3>2
      <4> QED BY <2>5, <2>21, <3>1, <3>2, <4>1
    <3>3. CASE l \notin DOMAIN overlay
      <4>1. wanted[j] = entry BY <2>18, <2>21, <3>3
      <4>2. j = n + 1 BY <2>6, <2>7, <2>9, <4>1
      <4>3. PICK h \in 1..n : overlay[k] = wanted[h] BY <2>5, <3>1
      <4>4. h = i BY <2>9, <2>15, <3>1, <4>3
      <4> QED BY <2>15, <4>2, <4>3, <4>4
    <3> QED BY <3>2, <3>3
  <2>22. Len(projecting') <= Len(wanted) /\ (n + 1) + 1 = n + 2 BY <2>6, <2>7
  <2>23. InstalledIsShown' BY <1>2, <2>5, <2>8, <2>13, <2>16, <2>17, <2>19, <2>20, <2>21, <2>22 DEF InstalledIsShown
  <2>24. Ended' BY <1>2, <2>1 DEF Ended
  <2> QED BY <1>4, <1>5, <2>12, <2>23, <2>24 DEF ProjectionInv
<1> QED BY <1>6, <1>7


LEMMA ApplyKeeps ==
  ASSUME ProjectionInv, Apply
  PROVE  ProjectionInv'
<1>1. ProjectionTyped /\ EntriesKeepPlace /\ InstalledIsShown /\ Ended /\ OutboxArrives BY DEF ProjectionInv
<1>2. /\ work # <<>> /\ projecting = <<>> /\ phase # "closed" /\ work' = Tail(work) /\ stale' = FALSE
      /\ UNCHANGED <<entries, commits, news, requests, replica, asked, phase, disabled>>
  BY DEF Apply, leading
<1>3. /\ work' \in Seq(WorkItems) /\ \A i \in DOMAIN work' : work'[i].type = "reconcile" => Table(work'[i].entries)
      /\ \A i \in DOMAIN work' : i + 1 \in DOMAIN work /\ work'[i] = work[i + 1]
      /\ 1 \in DOMAIN work /\ Head(work) = work[1]
  BY <1>1, <1>2, WorkBegins
<1>4. Ended' BY <1>2 DEF Ended
<1>5. CASE disabled
  <2>1. UNCHANGED <<projecting, wanted, fingerprints, overlay>> BY <1>5 DEF Apply
  <2>2. ProjectionTyped' BY <1>1, <1>2, <1>3, <2>1, LeaderTypesStay, WantedTypesStay DEF ProjectionTyped
  <2>3. Known' \subseteq Known BY <1>2, <1>3, <2>1 DEF Known
  <2>4. EntriesKeepPlace' BY <1>1, <1>2, <2>3, PlacesKept
  <2>5. InstalledIsShown' BY <1>1, <1>2, <2>1 DEF InstalledIsShown, Installed
  <2>6. OutboxArrives' BY <1>2, <1>5 DEF OutboxArrives
  <2> QED BY <1>4, <2>2, <2>4, <2>5, <2>6 DEF ProjectionInv
<1>6. CASE ~disabled
  <2> DEFINE next == Aim(Head(work))
             from == FirstDivergence(wanted, next)
             gone == InvalidateFrom(from)
             installed == {e \in Entries : \E i \in DOMAIN next : next[i].id = e /\ next[i].request = fingerprints'[e]}
  <2>1. wanted' = next /\ Taken(gone) /\ projecting' = Without(next, installed) BY <1>6 DEF Apply
  <2>2. /\ Head(work) \in WorkItems /\ next \in Seq(Bares) /\ Ordered(next)
        /\ Head(work).type = "reconcile" => Table(Head(work).entries) /\ Range(next) = Tried(Head(work).entries)
        /\ Head(work).type = "ensure" =>
             /\ Head(work).entry \in Rows
             /\ Range(next) = {r \in Range(wanted) : r.id # Head(work).entry.id} \cup {Bare(Head(work).entry)}
        /\ Head(work).type = "discard" => Range(next) = {r \in Range(wanted) : r.id # Head(work).id}
    BY <1>1, <1>2, AimIs
  <2>3. wanted \in Seq(Bares) /\ Ordered(wanted) /\ fingerprints \in [Entries -> Nat] /\ overlay \in Seq(Bares)
    BY <1>1 DEF ProjectionTyped
  <2>4. OutboxArrives'
    <3> SUFFICES ASSUME phase' = "open", ~disabled' PROVE (TablesArrive /\ NewsAreTrue /\ WorkIsTrue)' BY DEF OutboxArrives
    <3>1. TablesArrive /\ NewsAreTrue /\ WorkIsTrue BY <1>1, <1>2 DEF OutboxArrives
    <3> QED BY <1>1, <1>2, <2>1, <3>1, WorkIsDone
  <2> HIDE DEF next
  <2>5. \A r \in Range(next) : r \in Known
    <3>1. ASSUME NEW r \in Bares, r \in Given(Head(work)) PROVE r \in Known BY <1>3, <3>1 DEF Known
    <3>2. \A r \in Range(wanted) : r \in Known BY <1>1, WantedKnown
    <3>3. CASE Head(work).type = "reconcile"
      <4>1. \A r \in Tried(Head(work).entries) : r \in Bares BY <2>2, <3>3, TriedIs
      <4>2. \A r \in Tried(Head(work).entries) : r \in Given(Head(work)) BY <3>3 DEF Tried, Given
      <4> QED BY <2>2, <3>1, <3>3, <4>1, <4>2
    <3>4. CASE Head(work).type = "ensure"
      <4>1. Bare(Head(work).entry) \in Bares /\ Bare(Head(work).entry) \in Given(Head(work))
        BY <2>2, <3>4, BareIs DEF Given
      <4> QED BY <2>2, <3>1, <3>2, <3>4, <4>1
    <3>5. CASE Head(work).type = "discard" BY <2>2, <3>2, <3>5
    <3> QED BY <2>2, <3>3, <3>4, <3>5 DEF WorkItems
  <2>6. EntriesKeepPlace'
    <3>1. \A i \in DOMAIN next : next[i] \in Known BY <2>5 DEF Range
    <3>2. Known' \subseteq Known BY <1>2, <1>3, <2>1, <3>1 DEF Known
    <3> QED BY <1>1, <1>2, <3>2, PlacesKept
  <2>7. from \in 1..(Len(wanted) + 1) /\ from \in 1..(Len(next) + 1) /\ \A i \in 1..(from - 1) : Same(wanted[i], next[i])
    BY <2>2, <2>3, DivergenceIs
  <2> HIDE DEF from
  <2>8. /\ Len(wanted) \in Nat /\ DOMAIN wanted = 1..Len(wanted)
        /\ \A i \in DOMAIN wanted : wanted[i] \in Bares /\ wanted[i].id \in Entries /\ wanted[i].request \in Nat \ {0}
        /\ \A i, j \in DOMAIN wanted : wanted[i].id = wanted[j].id => i = j
        /\ \A i \in DOMAIN wanted : wanted[i] \in Range(wanted)
    BY <2>3, RowsOf
  <2>9. /\ Len(next) \in Nat /\ DOMAIN next = 1..Len(next)
        /\ \A i \in DOMAIN next : next[i] \in Bares /\ next[i].id \in Entries /\ next[i].request \in Nat \ {0}
        /\ \A i, j \in DOMAIN next : next[i].id = next[j].id => i = j
        /\ \A i \in DOMAIN next : next[i] \in Range(next)
    BY <2>2, RowsOf
  <2>10. \A i \in 1..(from - 1) : i \in DOMAIN wanted /\ i \in DOMAIN next /\ i < from BY <2>7, <2>8, <2>9
  <2>11. from \in Nat /\ \A i \in DOMAIN wanted \cup DOMAIN next : i < from => i \in 1..(from - 1) BY <2>7, <2>8, <2>9
  <2>12. ASSUME NEW i \in 1..(from - 1) PROVE wanted[i] = next[i]
    <3>1. wanted[i].id = next[i].id /\ wanted[i].request = next[i].request BY <2>7 DEF Same
    <3>2. wanted[i] \in Known /\ next[i] \in Known BY <1>1, <2>5, <2>8, <2>9, <2>10, WantedKnown
    <3>3. wanted[i].sequence = next[i].sequence BY <1>1, <3>1, <3>2 DEF EntriesKeepPlace
    <3>4. wanted[i] \in Bares /\ next[i] \in Bares BY <2>8, <2>9, <2>10
    <3> QED BY <3>1, <3>3, <3>4, BaresAre
  <2>13. /\ \A i \in 1..Len(wanted) : fingerprints[wanted[i].id] = wanted[i].request
         /\ \A e \in Entries : fingerprints[e] # 0 => \E i \in 1..Len(wanted) : wanted[i].id = e
         /\ \A k \in DOMAIN overlay : \E i \in 1..Len(wanted) : overlay[k] = wanted[i] /\ wanted[i].id \in Effective
         /\ \A i \in 1..Len(wanted) : wanted[i].id \in Effective => \E k \in DOMAIN overlay : overlay[k] = wanted[i]
         /\ \A k, l \in DOMAIN overlay, i, j \in DOMAIN wanted :
              k < l /\ overlay[k] = wanted[i] /\ overlay[l] = wanted[j] => i < j
    <3>1. Installed = Len(wanted) BY <1>2, <2>8 DEF Installed
    <3> QED BY <1>1, <1>2, <3>1 DEF InstalledIsShown
  <2>14. /\ \A i \in 1..(from - 1) : wanted[i].id \notin gone
         /\ \A i \in DOMAIN wanted : wanted[i].id \notin gone => i \in 1..(from - 1)
    <3>1. gone = {wanted[i].id : i \in from..Len(wanted)} BY DEF InvalidateFrom
    <3>2. ASSUME NEW i \in 1..(from - 1), wanted[i].id \in gone PROVE FALSE
      <4>1. PICK j \in from..Len(wanted) : wanted[j].id = wanted[i].id BY <3>1, <3>2
      <4>2. j \in DOMAIN wanted /\ from <= j BY <2>7, <2>8
      <4>3. i = j BY <2>8, <2>10, <4>1, <4>2
      <4> QED BY <2>10, <2>11, <4>2, <4>3
    <3>3. ASSUME NEW i \in DOMAIN wanted, wanted[i].id \notin gone PROVE i \in 1..(from - 1)
      <4>1. i \notin from..Len(wanted) BY <3>1, <3>3
      <4>2. i < from BY <2>7, <2>8, <4>1
      <4> QED BY <2>11, <4>2
    <3> QED BY <3>2, <3>3
  <2> HIDE DEF gone
  <2>15. /\ fingerprints' \in [Entries -> Nat] /\ overlay' \in Seq(Bares)
         /\ \A e \in Entries : fingerprints'[e] = IF e \in gone THEN 0 ELSE fingerprints[e]
    BY <1>1, <2>1, TakenIs
  <2>16. PICK at \in [DOMAIN overlay' -> DOMAIN overlay] :
           /\ \A k, l \in DOMAIN overlay' : k < l => at[k] < at[l]
           /\ \A k \in DOMAIN overlay' : overlay'[k] = overlay[at[k]] /\ overlay[at[k]].id \notin gone
           /\ \A i \in DOMAIN overlay : overlay[i].id \notin gone => \E k \in DOMAIN overlay' : at[k] = i
    BY <1>1, <2>1, TakenIs
  <2>17. \A i \in 1..(from - 1) : fingerprints'[next[i].id] = next[i].request
    <3>1. ASSUME NEW i \in 1..(from - 1) PROVE fingerprints'[next[i].id] = next[i].request
      <4>1. next[i] = wanted[i] /\ i \in 1..Len(wanted) /\ wanted[i].id \in Entries /\ wanted[i].id \notin gone
        BY <2>8, <2>10, <2>12, <2>14
      <4> QED BY <2>13, <2>15, <4>1
    <3> QED BY <3>1
  <2>18. \A e \in Entries : fingerprints'[e] # 0 => \E i \in 1..(from - 1) : next[i].id = e
    <3>1. ASSUME NEW e \in Entries, fingerprints'[e] # 0 PROVE \E i \in 1..(from - 1) : next[i].id = e
      <4>1. e \notin gone /\ fingerprints[e] # 0 BY <2>15, <3>1
      <4>2. PICK i \in 1..Len(wanted) : wanted[i].id = e BY <2>13, <4>1
      <4>3. i \in 1..(from - 1) BY <2>8, <2>14, <4>1, <4>2
      <4> QED BY <2>12, <4>2, <4>3
    <3> QED BY <3>1
  <2>19. \A k \in DOMAIN next : next[k].id \notin installed <=> from <= k
    <3>1. ASSUME NEW k \in DOMAIN next, k < from PROVE next[k].id \in installed
      <4>1. k \in 1..(from - 1) BY <2>11, <3>1
      <4> QED BY <2>9, <2>17, <4>1
    <3>2. ASSUME NEW k \in DOMAIN next, from <= k, next[k].id \in installed PROVE FALSE
      <4>1. PICK i \in DOMAIN next : next[i].id = next[k].id /\ next[i].request = fingerprints'[next[k].id] BY <3>2
      <4>2. fingerprints'[next[k].id] # 0 /\ next[k].id \in Entries BY <2>9, <4>1
      <4>3. PICK j \in 1..(from - 1) : next[j].id = next[k].id BY <2>18, <4>2
      <4>4. j = k BY <2>9, <2>10, <4>3
      <4>5. k < from BY <2>10, <4>4
      <4>6. k \in Nat BY <2>9
      <4> QED BY <2>11, <3>2, <4>5, <4>6
    <3>3. \A k \in DOMAIN next : k < from \/ from <= k BY <2>9, <2>11
    <3>4. \A k \in DOMAIN next : ~(k < from /\ from <= k) BY <2>9, <2>11
    <3> QED BY <3>1, <3>2, <3>3, <3>4
  <2> HIDE DEF installed
  <2>20. projecting' = SubSeq(next, from, Len(next)) BY <2>1, <2>2, <2>7, <2>19, WithoutStart
  <2>21. projecting' \in Seq(Bares) /\ Len(projecting') = Len(next) - from + 1 BY <2>2, <2>7, <2>9, <2>20
  <2>22. Installed' = from - 1
    <3>1. Installed' = Len(next) - Len(projecting') BY <2>1 DEF Installed
    <3>2. Len(projecting') = Len(next) - from + 1 BY <2>21
    <3> QED BY <2>9, <2>11, <3>1, <3>2
  <2>23. ProjectionTyped'
    <3>1. Ordered(wanted)' BY <2>1, <2>2 DEF Ordered
    <3> QED BY <1>1, <1>2, <1>3, <2>1, <2>2, <2>15, <2>21, <3>1, LeaderTypesStay DEF ProjectionTyped
  <2>24. \A k \in DOMAIN overlay' : \E i \in 1..(from - 1) :
           overlay'[k] = next[i] /\ next[i].id \in Effective /\ overlay[at[k]] = wanted[i] /\ i \in DOMAIN wanted
    <3>1. ASSUME NEW k \in DOMAIN overlay'
          PROVE  \E i \in 1..(from - 1) : overlay'[k] = next[i] /\ next[i].id \in Effective /\ overlay[at[k]] = wanted[i]
                                          /\ i \in DOMAIN wanted
      <4>1. at[k] \in DOMAIN overlay /\ overlay'[k] = overlay[at[k]] /\ overlay[at[k]].id \notin gone BY <2>16
      <4>2. PICK i \in 1..Len(wanted) : overlay[at[k]] = wanted[i] /\ wanted[i].id \in Effective BY <2>13, <4>1
      <4>3. i \in 1..(from - 1) BY <2>8, <2>14, <4>1, <4>2
      <4> QED BY <2>10, <2>12, <4>1, <4>2, <4>3
    <3> QED BY <3>1
  <2>25. ASSUME NEW i \in 1..(from - 1), next[i].id \in Effective PROVE \E k \in DOMAIN overlay' : overlay'[k] = next[i]
    <3>1. next[i] = wanted[i] /\ i \in 1..Len(wanted) /\ wanted[i].id \notin gone BY <2>8, <2>10, <2>12, <2>14
    <3>2. PICK l \in DOMAIN overlay : overlay[l] = wanted[i] BY <2>13, <2>25, <3>1
    <3>3. PICK k \in DOMAIN overlay' : at[k] = l BY <2>16, <3>1, <3>2
    <3> QED BY <2>16, <3>1, <3>2, <3>3
  <2>26. ASSUME NEW k \in DOMAIN overlay', NEW l \in DOMAIN overlay', NEW i \in DOMAIN next, NEW j \in DOMAIN next,
                k < l, overlay'[k] = next[i], overlay'[l] = next[j]
         PROVE  i < j
    <3>1. PICK f \in 1..(from - 1) : overlay'[k] = next[f] /\ overlay[at[k]] = wanted[f] /\ f \in DOMAIN wanted BY <2>24
    <3>2. PICK g \in 1..(from - 1) : overlay'[l] = next[g] /\ overlay[at[l]] = wanted[g] /\ g \in DOMAIN wanted BY <2>24
    <3>3. f = i /\ g = j BY <2>9, <2>10, <2>26, <3>1, <3>2
    <3>4. at[k] \in DOMAIN overlay /\ at[l] \in DOMAIN overlay /\ at[k] < at[l] BY <2>16, <2>26
    <3> QED BY <2>13, <3>1, <3>2, <3>3, <3>4
  <2>27. Len(projecting') <= Len(next) /\ (from - 1) + 1 = from BY <2>7, <2>9, <2>11, <2>21
  <2>28. InstalledIsShown'
    <3>1. stale' = FALSE /\ disabled' = FALSE /\ wanted' = next BY <1>2, <1>6, <2>1
    <3>2. projecting' = SubSeq(next, Installed' + 1, Len(next)) BY <2>20, <2>22, <2>27
    <3> QED BY <2>17, <2>18, <2>22, <2>24, <2>25, <2>26, <2>27, <3>1, <3>2 DEF InstalledIsShown
  <2> QED BY <1>4, <2>4, <2>6, <2>23, <2>28 DEF ProjectionInv
<1> QED BY <1>5, <1>6


LEMMA ProjectionSteps == ProjectionInv /\ [ProjectionNext]_projectionVars => ProjectionInv'
<1> SUFFICES ASSUME ProjectionInv, [ProjectionNext]_projectionVars PROVE ProjectionInv' OBVIOUS
<1>1. ASSUME NEW e \in Entries, EnqueueEntry(e) PROVE ProjectionInv' BY <1>1, EnqueueKeeps
<1>2. ASSUME NEW x \in entries, Edit(x) PROVE ProjectionInv' BY <1>2, EditKeeps
<1>3. ASSUME NEW x \in entries, EntrySettles(x) PROVE ProjectionInv' BY <1>3, SettlesKeeps
<1>4. ASSUME NEW x \in entries, Fail(x) PROVE ProjectionInv' BY <1>4, FailKeeps
<1>5. CASE TableChanges BY <1>5, TableChangesKeeps
<1>6. CASE Reconcile BY <1>6, ReconcileKeeps
<1>7. CASE Told BY <1>7, ToldKeeps
<1>8. CASE Dispose BY <1>8, DisposeKeeps
<1>9. CASE Apply BY <1>9, ApplyKeeps
<1>10. CASE Install BY <1>10, InstallKeeps
<1>11. CASE Disable BY <1>11, DisableKeeps
<1>12. CASE CloseProjections BY <1>12, EndKeeps
<1>13. CASE UNCHANGED projectionVars
  <2>1. UNCHANGED <<entries, commits, news, requests, replica, asked, work, projecting, stale, wanted, fingerprints,
                    overlay, disabled, phase>>
    BY <1>13 DEF projectionVars, leading, manager
  <2>2. ProjectionTyped' BY <2>1 DEF ProjectionInv, ProjectionTyped, Table, Ordered
  <2>3. Known' \subseteq Known BY <2>1 DEF Known
  <2>4. EntriesKeepPlace' BY <2>1, <2>3, PlacesKept DEF ProjectionInv
  <2>5. phase = "closed" => work' = <<>> BY <2>1 DEF ProjectionInv, Ended
  <2>6. InstalledIsShown' /\ Ended' BY <2>1, <2>5, InstallsStay DEF ProjectionInv
  <2>7. UNCHANGED <<TablesArrive, NewsAreTrue, WorkIsTrue>>
    <3>1. UNCHANGED TablesArrive BY <2>1 DEF TablesArrive, Synced
    <3>2. UNCHANGED NewsAreTrue BY <2>1 DEF NewsAreTrue, Tells
    <3>3. UNCHANGED WorkIsTrue BY <2>1 DEF WorkIsTrue, Leaves, Agrees, Synced
    <3> QED BY <3>1, <3>2, <3>3
  <2>8. OutboxArrives' BY <2>1, <2>7 DEF ProjectionInv, OutboxArrives
  <2> QED BY <2>2, <2>4, <2>6, <2>8 DEF ProjectionInv
<1> QED BY <1>1, <1>2, <1>3, <1>4, <1>5, <1>6, <1>7, <1>8, <1>9, <1>10, <1>11, <1>12, <1>13 DEF ProjectionNext

LEMMA ProjectionInvariant == ProjectionSpec => []ProjectionInv
<1>1. ProjectionInit => ProjectionInv BY ProjectionStarts
<1> QED BY <1>1, ProjectionSteps, PTL DEF ProjectionSpec

----------------------------------------------------------------------------
(* What it implies *)

\* What is installed at its place.
LEMMA InstalledIs ==
  ASSUME ProjectionTyped, InstalledIsShown, phase # "closed"
  PROVE  Installed \in Nat /\ Len(wanted) \in Nat /\ Installed <= Len(wanted) /\ \A i \in 1..Installed : i \in DOMAIN wanted
<1>1. Len(wanted) \in Nat /\ Len(projecting) \in Nat /\ DOMAIN wanted = 1..Len(wanted) BY DEF ProjectionTyped
<1>2. Len(projecting) <= Len(wanted) BY DEF InstalledIsShown
<1> QED BY <1>1, <1>2 DEF Installed

LEMMA TypesFollow == ProjectionInv => ProjectionTypeOK
<1> SUFFICES ASSUME ProjectionInv PROVE ProjectionTypeOK OBVIOUS
<1>1. ProjectionTyped /\ InstalledIsShown /\ Ended BY DEF ProjectionInv
<1>2. wanted \in Seq(Bares) /\ Ordered(wanted) BY <1>1 DEF ProjectionTyped
<1>3. \A i, j \in DOMAIN wanted : i < j => wanted[i].id # wanted[j].id BY <1>2 DEF Ordered
<1>4. CASE phase = "closed"
  <2>1. fingerprints = [e \in Entries |-> 0] /\ overlay = <<>> BY <1>1, <1>4 DEF Ended
  <2> QED BY <1>1, <1>3, <2>1 DEF ProjectionTypeOK, ProjectionTyped
<1>5. CASE phase # "closed"
  <2>1. /\ \A i \in 1..Installed : fingerprints[wanted[i].id] = wanted[i].request /\ i \in DOMAIN wanted
        /\ \A e \in Entries : fingerprints[e] # 0 => \E i \in 1..Installed : wanted[i].id = e
        /\ \A k \in DOMAIN overlay : \E i \in 1..Installed : overlay[k] = wanted[i]
        /\ disabled => wanted = <<>>
    BY <1>1, <1>5, InstalledIs DEF InstalledIsShown
  <2>2. ASSUME NEW e \in Entries, fingerprints[e] # 0
        PROVE  \E i \in DOMAIN wanted : Same(wanted[i], [id |-> e, request |-> fingerprints[e]])
    <3>1. PICK i \in 1..Installed : wanted[i].id = e BY <2>1, <2>2
    <3> QED BY <2>1, <3>1 DEF Same
  <2>3. \A i \in DOMAIN overlay : fingerprints[overlay[i].id] = overlay[i].request BY <2>1
  <2>4. disabled => overlay = <<>>
    <3>1. ASSUME disabled PROVE overlay = <<>>
      <4>1. DOMAIN wanted = {} BY <2>1, <3>1
      <4>2. DOMAIN overlay = {} BY <2>1, <4>1
      <4>3. overlay \in Seq(Bares) BY <1>1 DEF ProjectionTyped
      <4> QED BY <4>2, <4>3
    <3> QED BY <3>1
  <2> QED BY <1>1, <1>3, <2>2, <2>3, <2>4 DEF ProjectionTypeOK, ProjectionTyped
<1> QED BY <1>4, <1>5

LEMMA ShownIs ==
  ASSUME ProjectionInv, phase # "closed", NEW k \in DOMAIN overlay, NEW l \in DOMAIN overlay, k < l
  PROVE  \E i, j \in DOMAIN wanted : i < j /\ overlay[k] = wanted[i] /\ overlay[l] = wanted[j]
<1>1. ProjectionTyped /\ InstalledIsShown BY DEF ProjectionInv
<1>2. PICK i \in 1..Installed : overlay[k] = wanted[i] BY <1>1 DEF InstalledIsShown
<1>3. PICK j \in 1..Installed : overlay[l] = wanted[j] BY <1>1 DEF InstalledIsShown
<1>4. i \in DOMAIN wanted /\ j \in DOMAIN wanted BY <1>1, InstalledIs
<1>5. i < j BY <1>1, <1>2, <1>3, <1>4 DEF InstalledIsShown
<1> QED BY <1>2, <1>3, <1>4, <1>5

LEMMA ShownInOrderFollows == ProjectionInv => ShownInOrder
<1> SUFFICES ASSUME ProjectionInv, NEW k \in DOMAIN overlay, NEW l \in DOMAIN overlay, k < l
             PROVE  overlay[k].id # overlay[l].id /\ overlay[k].sequence <= overlay[l].sequence
  BY DEF ShownInOrder
<1>1. CASE phase = "closed" BY <1>1 DEF ProjectionInv, Ended
<1>2. CASE phase # "closed"
  <2>1. PICK i \in DOMAIN wanted, j \in DOMAIN wanted : i < j /\ overlay[k] = wanted[i] /\ overlay[l] = wanted[j]
    BY <1>2, ShownIs
  <2> QED BY <2>1 DEF ProjectionInv, ProjectionTyped, Ordered
<1> QED BY <1>1, <1>2

LEMMA OverlayIsOutboxFollows == ProjectionInv => OverlayIsOutbox
<1> DEFINE rest == Entries \ Effective
           list == DesiredProjections(entries)
<1> SUFFICES ASSUME ProjectionInv, QuietProjections, phase = "open", ~disabled PROVE overlay = Without(list, rest)
  BY DEF OverlayIsOutbox
<1>1. ProjectionTyped /\ InstalledIsShown /\ OutboxArrives BY DEF ProjectionInv
<1>2. commits = <<>> /\ news = <<>> /\ ~asked /\ work = <<>> /\ projecting = <<>> BY DEF QuietProjections
<1>3. wanted \in Seq(Bares) /\ overlay \in Seq(Bares) /\ Table(entries) BY <1>1 DEF ProjectionTyped
<1>4. list \in Seq(Bares) /\ Range(list) = Tried(entries) /\ Strict(list) /\ Ordered(list) BY <1>3, DesiredIs
<1>5. Tried(entries) \subseteq Bares /\ \A a, b \in Tried(entries) : a # b => a.id # b.id /\ a.sequence # b.sequence
  BY <1>3, TriedIs
<1>6. \A e \in Entries : Agrees(e) BY <1>1, <1>2 DEF OutboxArrives, WorkIsTrue, Synced
<1>7. Range(wanted) = Tried(entries)
  <2>1. \A r \in Range(wanted) : r \in Bares BY <1>3 DEF Range
  <2>2. \A r \in Bares : r \in Range(wanted) <=> r \in Tried(entries) BY <1>6, BaresAre DEF Agrees
  <2> QED BY <1>5, <2>1, <2>2
<1>8. Installed = Len(wanted) /\ DOMAIN wanted = 1..Len(wanted) BY <1>2, <1>3 DEF Installed
<1>9. Range(overlay) = {r \in Tried(entries) : r.id \in Effective}
  <2>1. ASSUME NEW k \in DOMAIN overlay PROVE overlay[k] \in Range(wanted) /\ overlay[k].id \in Effective
    <3>1. PICK i \in 1..Installed : overlay[k] = wanted[i] /\ wanted[i].id \in Effective BY <1>1 DEF InstalledIsShown
    <3> QED BY <1>8, <3>1 DEF Range
  <2>2. ASSUME NEW r \in Range(wanted), r.id \in Effective PROVE r \in Range(overlay)
    <3>1. PICK i \in DOMAIN wanted : wanted[i] = r BY DEF Range
    <3>2. PICK k \in DOMAIN overlay : overlay[k] = wanted[i] BY <1>1, <1>8, <2>2, <3>1 DEF InstalledIsShown
    <3> QED BY <3>1, <3>2 DEF Range
  <2>3. \A r \in Range(overlay) : r \in Range(wanted) /\ r.id \in Effective BY <2>1 DEF Range
  <2> QED BY <1>7, <2>2, <2>3
<1> HIDE DEF list
<1>10. Without(list, rest) \in Seq(Bares) /\ Range(Without(list, rest)) = {r \in Tried(entries) : r.id \in Effective}
  <2>1. Without(list, rest) \in Seq(Bares) BY <1>4, WithoutOrdered
  <2>2. Range(Without(list, rest)) = {r \in Tried(entries) : r.id \notin rest} BY <1>4, WithoutRange
  <2>3. \A r \in Tried(entries) : r.id \notin rest <=> r.id \in Effective BY <1>5, BaresAre
  <2> QED BY <2>1, <2>2, <2>3
<1>11. Strict(Without(list, rest))
  <2> DEFINE w == Without(list, rest)
             at == Left(list, rest)
  <2>1. /\ at \in [DOMAIN w -> DOMAIN list] /\ \A k, l \in DOMAIN w : k < l => at[k] < at[l]
        /\ \A k \in DOMAIN w : w[k] = list[at[k]]
    BY <1>4, WithoutIs
  <2> HIDE DEF w, at
  <2>2. Strict(w) BY <1>4, <2>1 DEF Strict
  <2> QED BY <2>2 DEF w
<1>12. Strict(overlay)
  <2>1. ASSUME NEW k \in DOMAIN overlay, NEW l \in DOMAIN overlay, k < l PROVE overlay[k].sequence < overlay[l].sequence
    <3>1. overlay[k].id # overlay[l].id /\ overlay[k].sequence <= overlay[l].sequence
      BY <2>1, ShownInOrderFollows DEF ShownInOrder
    <3>2. overlay[k] \in Tried(entries) /\ overlay[l] \in Tried(entries) BY <1>9 DEF Range
    <3>3. overlay[k].sequence # overlay[l].sequence BY <1>5, <3>1, <3>2
    <3>4. overlay[k].sequence \in Nat /\ overlay[l].sequence \in Nat BY <1>5, <3>2, BaresAre
    <3> QED BY <3>1, <3>3, <3>4
  <2> QED BY <2>1 DEF Strict
<1>13. Range(overlay) = Range(Without(list, rest)) BY <1>9, <1>10
<1> QED BY <1>3, <1>10, <1>11, <1>12, <1>13, StrictListIsOnly

\* The variables have their types; what is installed is desired, what is shown is installed, and nothing
\* is shown once a projection has failed.
THEOREM ProjectionTypeCorrect == ProjectionSpec => []ProjectionTypeOK
BY ProjectionInvariant, TypesFollow, PTL

\* What is shown follows the outbox: in its order at any time, exactly when everything has arrived, and
\* not beyond its life.
THEOREM OverlayIsFollowing == ProjectionSpec => []OverlayFollows
<1>1. ProjectionInv => OverlayFollows
  <2>1. ProjectionInv => NothingIsLeftShown BY DEF ProjectionInv, Ended, NothingIsLeftShown
  <2> QED BY <2>1, ShownInOrderFollows, OverlayIsOutboxFollows DEF OverlayFollows
<1> QED BY <1>1, ProjectionInvariant, PTL

=============================================================================
