----------------------------- MODULE Connections -----------------------------
(***************************************************************************)
(* The connection managers of one user in several contexts (tabs).  They   *)
(* share the persisted connection record; each holds a live session in     *)
(* memory, or none.  Users sign in and out, requests are refused late, the *)
(* leader refreshes what is about to expire.                               *)
(***************************************************************************)
EXTENDS Naturals, Sequences

CONSTANTS Contexts,     \* contexts that run a connection manager
          Callers, At,  \* callers of the managers, and the context of each
          Nobody,       \* no context
          MaxSession,   \* bound on the sessions that are held on to
          Settings      \* what is used of them, and bounds on what disrupts it

Kinds == {"reload", "close", "fault", "refuse", "handover"}

ASSUME PlacesAssumption ==
  /\ Contexts \cap Callers = {} /\ Nobody \notin Contexts \cup Callers /\ At \in [Callers -> Contexts]
ASSUME SessionAssumption == MaxSession \in Nat
ASSUME SettingsAssumption ==
  Settings \subseteq [contexts : SUBSET Contexts, callers : SUBSET Callers, sessions : 0..MaxSession,
                      budget : [Kinds -> Nat]]

VARIABLES
  setting,  \* the setting of this installation
  status,   \* the state of the persisted connection, as every context sees it
  due,      \* whether it is about to expire and can be refreshed, or is over
  queue,    \* per context: the writes of the record that it awaits, in the order it issued them
  missed,   \* the record was left alone while a sign-in was being written (see Unwritten)
  session,  \* per context: the session in memory, 0 if there is none
  made,     \* per session: the context it was made in
  cleaned,  \* sessions that were cleaned up
  kept,     \* the adapter has credentials that the backend accepts
  leader,   \* the context that leads
  open,     \* per context: whether its manager is starting, open or closed
  task,     \* per caller, and per refresh loop: the operation it executes
  spent     \* how much of each bound is used

record == <<status, due, queue, missed>>
sessions == <<session, made, cleaned>>
moving == <<record, sessions, kept, leader, open, task, spent>>
vars == <<setting, moving>>

Actors == Callers \cup Contexts   \* the actor c is the refresh loop of context c
Place(a) == IF a \in Callers THEN At[a] ELSE a
Statuses == {"absent", "active", "inactive", "needs-auth", "error"}
Idle == [pc |-> "idle", to |-> "absent", previous |-> 0, new |-> 0]
Steps == {"idle", "established", "writing", "settle", "rollback", "sign-out", "sent", "release", "write", "stopped"}
RecordWrites == [to : Statuses, by : Actors \cup {Nobody}]

Types ==
  /\ setting \in Settings
  /\ status \in Statuses /\ due \in {"no", "refresh", "over"}
  /\ queue \in [Contexts -> Seq(RecordWrites)] /\ missed \in BOOLEAN
  /\ made \in [1..MaxSession -> Contexts \cup {Nobody}] /\ cleaned \subseteq 1..MaxSession
  /\ session \in [Contexts -> 0..MaxSession]
  /\ kept \in BOOLEAN /\ leader \in Contexts \cup {Nobody}
  /\ open \in [Contexts -> {"starting", "open", "closed"}]
  /\ task \in [Actors -> [pc : Steps, to : Statuses, previous : 0..MaxSession,
                          new : 0..MaxSession]]
  /\ spent \in [Kinds -> Nat]

Init ==
  /\ setting \in Settings
  /\ status \in {"absent", "inactive", "needs-auth"} /\ due = "no"
  /\ queue = [c \in Contexts |-> <<>>] /\ missed = FALSE
  /\ session = [c \in Contexts |-> 0] /\ made = [h \in 1..MaxSession |-> Nobody]
  /\ cleaned = {} /\ kept = FALSE /\ leader = Nobody
  /\ open = [c \in Contexts |-> IF c \in setting.contexts THEN "starting" ELSE "closed"] /\ task = [a \in Actors |-> Idle]
  /\ spent = [kind \in Kinds |-> 0]

----------------------------------------------------------------------------
(* What the operations are built from *)

Spend(kind) ==
  /\ spent[kind] < setting.budget[kind] /\ spent' = [spent EXCEPT ![kind] = spent[kind] + 1]

Go(a, pc) == task' = [task EXCEPT ![a].pc = pc]
GoTo(a, pc, to) == task' = [task EXCEPT ![a].pc = pc, ![a].to = to]
Done(a) == task' = [task EXCEPT ![a] = Idle]

\* Names for a session: those of none, and of one that was cleaned up and is not held on to.
Free ==
  {h \in 1..setting.sessions :
     \/ made[h] = Nobody
     \/ /\ h \in cleaned /\ \A c \in Contexts : session[c] # h
        /\ \A a \in Actors : h \notin {task[a].previous, task[a].new}}

\* Mutant: a manager is handed out while it is starting.
ReadyEarly(a) == task[a].pc = "idle" /\ open[Place(a)] # "closed"

\* A manager can be called once it was made; a closed one is not asked for anything new.
Ready(a) == task[a].pc = "idle" /\ open[Place(a)] = "open"

----------------------------------------------------------------------------
(* The record.  Its writes are not optimistic: what they write is decided from the record that
   is there, is seen when they persist, and their callers go on after that. *)

Issues(a, to) == queue' = [queue EXCEPT ![Place(a)] = Append(@, [to |-> to, by |-> a])]

\* Some sign-in of the context is being written.
Activates(c) == \E i \in DOMAIN queue[c] : queue[c][i].to = "active"

\* The record is not written: there is none, or it has the state that it would get.
Unwritten(a, to) ==
  /\ status \in {"absent", to} /\ missed' = (missed \/ Activates(Place(a)))
  /\ UNCHANGED <<status, due, queue>>

\* updateConnection, and the deletion of a record that is forgotten.
Write(a) ==
  /\ task[a].pc = "write"
  /\ \/ status # "absent" /\ Issues(a, task[a].to) /\ Go(a, "writing") /\ UNCHANGED <<status, due, missed>>
     \/ Unwritten(a, task[a].to) /\ Done(a)
  /\ UNCHANGED <<sessions, kept, leader, open, spent>>

\* The next write of a context takes effect, whatever the record has become, or it fails.
\* Nobody goes on after a write whose page was loaded again.
Persist(c) ==
  /\ queue[c] # <<>> /\ queue' = [queue EXCEPT ![c] = Tail(@)]
  /\ \/ /\ status' = Head(queue[c]).to /\ due' = "no"
        /\ Go(Head(queue[c]).by, "settle") /\ UNCHANGED spent
     \/ Spend("fault") /\ Go(Head(queue[c]).by, "rollback") /\ UNCHANGED <<status, due>>
  /\ UNCHANGED <<missed, sessions, kept, leader, open>>

\* A manager that wrote what was restored, or what was not, has started, or has failed to.
Started(a, outcome) ==
  open' = [open EXCEPT ![Place(a)] = IF @ = "starting" THEN outcome ELSE @]

\* A write other than a sign-in's failed.  It ends the refresh loop that issued it.
Fails(a) ==
  /\ task[a].pc = "rollback" /\ task[a].new = 0 /\ Started(a, "closed")
  /\ IF a \in Contexts THEN Go(a, "stopped") ELSE Done(a)
  /\ UNCHANGED <<record, sessions, kept, leader, spent>>

----------------------------------------------------------------------------
(* applyEstablishedConnection *)

\* The session is installed and the write of the active connection begins, or is not needed: the
\* record may be the same already, unless it is about to expire.
Establish(a) ==
  /\ task[a].pc = "established"
  /\ \E h \in Free, written \in BOOLEAN :
       /\ (\A g \in Free : h <= g) /\ (written \/ (status = "active" /\ due = "no"))
       /\ made' = [made EXCEPT ![h] = Place(a)] /\ cleaned' = cleaned \ {h}
       /\ session' = [session EXCEPT ![Place(a)] = h]
       /\ task' = [task EXCEPT ![a] = [Idle EXCEPT !.pc = IF written THEN "writing" ELSE "settle",
                                         !.previous = session[Place(a)], !.new = h]]
       /\ IF written THEN Issues(a, "active") ELSE UNCHANGED queue
  /\ UNCHANGED <<status, due, missed, kept, leader, open, spent>>

\* Mutant: the previous session is dropped without cleanup.
SettleOnly(a) ==
  /\ task[a].pc = "settle" /\ Done(a) /\ Started(a, "open")
  /\ UNCHANGED <<record, sessions, kept, leader, spent>>

Settle(a) ==
  /\ task[a].pc = "settle" /\ Done(a) /\ Started(a, "open")
  /\ cleaned' = cleaned \cup ({task[a].previous} \ {0})
  /\ UNCHANGED <<record, session, made, kept, leader, spent>>

\* Mutant: the session that failed is cleaned up and stays in use.
RollbackInUse(a) ==
  /\ task[a].pc = "rollback" /\ task[a].new # 0 /\ Done(a) /\ Started(a, "closed")
  /\ cleaned' = cleaned \cup {task[a].new}
  /\ UNCHANGED <<record, session, made, kept, leader, spent>>

Rollback(a) ==
  /\ task[a].pc = "rollback" /\ task[a].new # 0 /\ Done(a) /\ Started(a, "closed")
  /\ session' = [session EXCEPT ![Place(a)] = task[a].previous]
  /\ cleaned' = cleaned \cup {task[a].new}
  /\ UNCHANGED <<record, made, kept, leader, spent>>

----------------------------------------------------------------------------
(* connect, disconnect, forget and the requests of callers *)

\* The user signs in with the authentication client, which calls connect.
SignIn(a) ==
  /\ Ready(a) /\ kept' = TRUE /\ Go(a, "established")
  /\ UNCHANGED <<record, sessions, leader, open, spent>>

\* disconnect and forget: a live session is signed out first.
SignOut(a, to) ==
  /\ Ready(a) /\ GoTo(a, IF session[Place(a)] = 0 THEN "release" ELSE "sign-out", to)
  /\ UNCHANGED <<record, sessions, kept, leader, open, spent>>

SignedOut(a) ==
  /\ task[a].pc = "sign-out" /\ kept' = FALSE /\ Go(a, "release")
  /\ UNCHANGED <<record, sessions, leader, open, spent>>

SignOutFails(a) ==
  /\ task[a].pc = "sign-out" /\ Spend("fault") /\ Done(a)
  /\ UNCHANGED <<record, sessions, kept, leader, open>>

\* A request with the handlers of the live session, or the refresh of that session.
Send(a) ==
  /\ Ready(a) /\ session[Place(a)] # 0 /\ Go(a, "sent")
  /\ UNCHANGED <<record, sessions, kept, leader, open, spent>>

\* The backend accepts the credentials.
Accepted(a) ==
  /\ task[a].pc = "sent" /\ kept
  /\ IF a \in Callers THEN Done(a) ELSE Go(a, "established")
  /\ UNCHANGED <<record, sessions, kept, leader, open, spent>>

\* Mutant: the refusal of a refresh is taken for a transient failure.
RefusedAgain(a) ==
  /\ task[a].pc = "sent"
  /\ IF kept THEN Spend("refuse") /\ kept' = FALSE ELSE UNCHANGED <<spent, kept>>
  /\ IF a \in Callers THEN GoTo(a, "release", "needs-auth") ELSE Done(a)
  /\ UNCHANGED <<record, sessions, leader, open>>

\* It refuses them: that is reported for the user, whatever session is live by then.
Refused(a) ==
  /\ task[a].pc = "sent"
  /\ IF kept THEN Spend("refuse") /\ kept' = FALSE ELSE UNCHANGED <<spent, kept>>
  /\ GoTo(a, "release", "needs-auth")
  /\ UNCHANGED <<record, sessions, leader, open>>

\* The backend cannot be reached.
Unreachable(a) ==
  /\ task[a].pc = "sent" /\ Spend("fault") /\ Done(a)
  /\ UNCHANGED <<record, sessions, kept, leader, open>>

\* releaseSession: the session that is live now is cleaned up.
Release(a) ==
  /\ task[a].pc = "release" /\ Go(a, "write")
  /\ cleaned' = cleaned \cup ({session[Place(a)]} \ {0})
  /\ session' = [session EXCEPT ![Place(a)] = 0]
  /\ UNCHANGED <<record, made, kept, leader, open, spent>>

----------------------------------------------------------------------------
(* refreshDueConnections, in the leader *)

Refreshing(c) == Ready(c) /\ leader = c /\ status = "active"

RefreshDue(c) ==
  /\ Refreshing(c) /\ due = "refresh" /\ session[c] # 0 /\ Go(c, "sent")
  /\ UNCHANGED <<record, sessions, kept, leader, open, spent>>

\* The leader has no session that it could refresh.
RefreshMissing(c) ==
  /\ Refreshing(c) /\ due = "refresh" /\ session[c] = 0
  /\ Issues(c, "error") /\ Go(c, "writing")
  /\ UNCHANGED <<status, due, missed, sessions, kept, leader, open, spent>>

Over(c) ==
  /\ Refreshing(c) /\ due = "over" /\ GoTo(c, "release", "needs-auth")
  /\ UNCHANGED <<record, sessions, kept, leader, open, spent>>

----------------------------------------------------------------------------
(* Managers, leadership and time *)

\* Mutant: a connection that was not restored stays as it was persisted.
StartAsPersisted(c) ==
  /\ open[c] = "starting" /\ task[c].pc = "idle" /\ open' = [open EXCEPT ![c] = "open"]
  /\ UNCHANGED <<record, sessions, kept, leader, task, spent>>

\* The adapter restores nothing: the connection is not usable here.
StartWithout(c) ==
  /\ open[c] = "starting" /\ task[c].pc = "idle"
  /\ \/ /\ status \notin {"absent", "needs-auth"} /\ Issues(c, "inactive") /\ Go(c, "writing")
        /\ UNCHANGED <<status, due, missed, open>>
     \/ /\ Unwritten(c, "inactive") \/ Unwritten(c, "needs-auth")
        /\ Started(c, "open") /\ UNCHANGED task
  /\ UNCHANGED <<sessions, kept, leader, spent>>

StartRestored(c) ==
  /\ open[c] = "starting" /\ task[c].pc = "idle" /\ kept
  /\ Go(c, "established")
  /\ UNCHANGED <<record, sessions, kept, leader, open, spent>>

\* cleanup: what callers and the refresh began goes on.
Close(c) ==
  /\ open[c] = "open" /\ Spend("close") /\ open' = [open EXCEPT ![c] = "closed"]
  /\ cleaned' = cleaned \cup ({session[c]} \ {0}) /\ session' = [session EXCEPT ![c] = 0]
  /\ UNCHANGED <<record, made, kept, leader, task>>

\* The page is loaded again.  Nothing of its memory is left to be cleaned up.  What it wrote
\* last may be lost.
Reload(c) ==
  /\ Spend("reload") /\ open' = [open EXCEPT ![c] = "starting"]
  /\ session' = [session EXCEPT ![c] = 0]
  /\ cleaned' = cleaned \cup {h \in 1..MaxSession : made[h] = c}
  /\ task' = [a \in Actors |-> IF Place(a) = c THEN Idle ELSE task[a]]
  /\ leader' = IF leader = c THEN Nobody ELSE leader
  /\ \E n \in 0..Len(queue[c]) :
       queue' = [queue EXCEPT ![c] = [i \in 1..n |-> [queue[c][i] EXCEPT !.by = Nobody]]]
  /\ UNCHANGED <<status, due, missed, made, kept>>

Lead(c) ==
  /\ leader = Nobody /\ leader' = c
  /\ UNCHANGED <<record, sessions, kept, open, task, spent>>

\* The leader loses the lock; the refresh that it began goes on.
LoseLeadership ==
  /\ leader # Nobody /\ Spend("handover") /\ leader' = Nobody
  /\ UNCHANGED <<record, sessions, kept, open, task>>

\* Time passes for a connection that expires.
Expire ==
  /\ status = "active" /\ due = "no" /\ due' \in {"refresh", "over"}
  /\ UNCHANGED <<status, queue, missed, sessions, kept, leader, open, task, spent>>

Calls(a) == SignIn(a) \/ Send(a) \/ SignOut(a, "inactive") \/ SignOut(a, "absent")
Answers(a) == SignedOut(a) \/ SignOutFails(a) \/ Accepted(a) \/ Refused(a) \/ Unreachable(a)
Works(a) == Establish(a) \/ Settle(a) \/ Rollback(a) \/ Fails(a) \/ Release(a) \/ Write(a)
Refreshes(c) == RefreshDue(c) \/ RefreshMissing(c) \/ Over(c)
Starts(c) == StartWithout(c) \/ StartRestored(c)

GoesOn(a) == Answers(a) \/ Works(a)
RunsOn(c) == Refreshes(c) \/ Starts(c)

Step ==
  \/ \E a \in setting.callers : Calls(a)
  \/ \E a \in Actors : GoesOn(a)
  \/ \E c \in Contexts : Persist(c)
  \/ \E c \in setting.contexts : RunsOn(c) \/ Close(c) \/ Reload(c) \/ Lead(c)
  \/ LoseLeadership \/ Expire

Next == Step /\ UNCHANGED setting

Spec == Init /\ [][Next]_vars

\* Managers start, the lock is granted, refresh loops poll and answers arrive.  Callers
\* may never call.
Fairness ==
  /\ \A a \in Actors : WF_moving(GoesOn(a))
  /\ \A c \in Contexts : WF_moving(Persist(c)) /\ WF_moving(RunsOn(c)) /\ WF_moving(c \in setting.contexts /\ Lead(c))

LiveSpec == Spec /\ Fairness

----------------------------------------------------------------------------
(* Properties *)

\* The variables have their types, and nobody calls a manager that is starting.
TypeOK == Types /\ \A a \in Callers : open[At[a]] = "starting" => task[a].pc = "idle"

\* The session that a manager would use was not cleaned up, however establishing,
\* releasing and one failing write interleave.
SessionIsOpen == spent["fault"] <= 1 => \A c \in Contexts : session[c] \notin cleaned

\* As long as no write fails, no session is forgotten without cleanup: what an open manager
\* made is its live session, was cleaned up, or is about to be replaced.
NothingLeaks ==
  spent["fault"] = 0 => \A c \in Contexts, h \in 1..MaxSession :
    open[c] = "open" /\ made[h] = c =>
      \/ h \in cleaned \cup {session[c]}
      \/ \E a \in Actors : Place(a) = c /\ h \in {task[a].previous, task[a].new}

\* As long as no write fails, and no decision to end a sign-in was lost because its record was
\* still being written, a connection is recorded as active only while a manager has a session for
\* it, was closed or starts, or the record is about to change.  (The rollback of a write that
\* failed ends the session that another caller established meanwhile.)
ActiveIsUsable ==
  status = "active" /\ spent["fault"] = 0 /\ ~missed =>
    \/ \E c \in setting.contexts : session[c] # 0 \/ open[c] # "open"
    \/ \E a \in Actors : task[a].pc = "write"
    \/ \E c \in Contexts : \E i \in DOMAIN queue[c] : queue[c][i].to # "active"

\* A user's session is not cleaned up under the manager that uses it, not forgotten, and recorded.
SessionsAreKept == SessionIsOpen /\ NothingLeaks /\ ActiveIsUsable

\* A connection that is due is refreshed, or is reported, as long as a manager is open and the
\* refresh loop of the leader was not ended by a failing write.
NothingIsDue ==
  \/ status # "active" \/ due = "no" \/ \A c \in Contexts : open[c] # "open"
  \/ leader # Nobody /\ task[leader].pc = "stopped"
DueIsHandled == []<>NothingIsDue

\* A connection that the user left is active again only after signing in.
DisconnectedStays ==
  [][status = "inactive" /\ status' = "active" =>
       \E a \in Callers : task[a].pc = "writing" /\ task'[a].pc = "settle"]_vars
=============================================================================
