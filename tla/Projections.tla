----------------------------- MODULE Projections -----------------------------
(***************************************************************************)
(* The optimistic projections of one context: what the entries of the      *)
(* outbox will change is shown at once, by a transaction per entry that    *)
(* stays open until the entry is settled.  The leader changes the table of *)
(* entries; its commits arrive apart from its answers and results.  The    *)
(* manager's works run one after another, and each may wait for projects.  *)
(***************************************************************************)
EXTENDS Integers, Sequences, FiniteSetsExt

CONSTANTS Entries,
          Effective,        \* entries whose projection changes something
          Occasions     \* bounds on what may happen, a record each

VARIABLES
  entries,      \* the leader's table: entries with their sequence, request and status
  commits,      \* tables that have not arrived here yet
  replica,      \* the table as this context has it
  news,         \* the leader's answers and results under way
  requests,     \* per entry: the requests it has had, none before it is enqueued
  asked,        \* a reconciliation has asked for the entries
  work,         \* works the manager was given and has not begun
  projecting,   \* what the work that has begun still has to install; the first is being projected
  stale,        \* that one was invalidated meanwhile
  wanted,       \* desired: what should be shown, by sequence
  fingerprints, \* installedFingerprints, 0 for none
  overlay,      \* open transactions, in the order they were made
  phase,        \* "open", "disposing" or "closed"
  disabled,     \* disabledError
  spare         \* how often what may still happen, and the bound on what is under way or not begun

leading == <<entries, commits, news, requests>>
manager == <<work, projecting, stale, wanted, fingerprints, overlay, disabled>>
projectionVars == <<leading, replica, asked, manager, phase, spare>>

ProjectionInit ==
  /\ entries = {} /\ commits = <<>> /\ replica = {} /\ news = <<>>
  /\ requests = [e \in Entries |-> 0] /\ asked = FALSE
  /\ work = <<>> /\ projecting = <<>> /\ stale = FALSE /\ wanted = <<>>
  /\ fingerprints = [e \in Entries |-> 0] /\ overlay = <<>>
  /\ phase = "open" /\ disabled = FALSE /\ spare \in Occasions

----------------------------------------------------------------------------
(* The leader *)

Happens(what) == spare[what] > 0 /\ spare' = [spare EXCEPT ![what] = @ - 1]

\* Rows without those of some entries: the positions that are left, in their order.
Ascending(numbers) ==
  CHOOSE at \in [1..Cardinality(numbers) -> numbers] : \A i, j \in DOMAIN at : i < j => at[i] < at[j]
Without(list, ids) ==
  LET at == Ascending({i \in DOMAIN list : list[i].id \notin ids}) IN [k \in DOMAIN at |-> list[at[k]]]

Ids(list) == {list[i].id : i \in DOMAIN list}

Commit(table, message) ==
  /\ Len(commits) < spare["behind"] /\ Len(news) < spare["behind"]
  /\ entries' = table /\ commits' = Append(commits, table) /\ news' = Append(news, message)
  /\ UNCHANGED <<replica, asked, manager, phase>>

Row(e, sequence) == [id |-> e, sequence |-> sequence, request |-> requests'[e], status |-> "queued"]
Answer(entry) == [type |-> "answer", entry |-> entry]
Result(entry) == [type |-> "result", id |-> entry.id]

\* An entry goes behind those that are in the table.
EnqueueEntry(e) ==
  /\ requests[e] = 0 /\ Happens("enqueue") /\ requests' = [requests EXCEPT ![e] = 1]
  /\ LET row == Row(e, 1 + Max({0} \cup {entry.sequence : entry \in entries}))
     IN  Commit(entries \cup {row}, Answer(row))

\* It keeps its place.
Edit(entry) ==
  /\ Happens("edit") /\ requests' = [requests EXCEPT ![entry.id] = @ + 1]
  /\ LET row == Row(entry.id, entry.sequence) IN Commit((entries \ {entry}) \cup {row}, Answer(row))

\* It completes, is removed, or is rejected and discarded.
EntrySettles(entry) == Commit(entries \ {entry}, Result(entry)) /\ UNCHANGED <<requests, spare>>

\* It is kept, to be removed or edited by hand.
Fail(entry) ==
  /\ entry.status = "queued" /\ Happens("fail")
  /\ Commit((entries \ {entry}) \cup {[entry EXCEPT !.status = "failed"]}, Result(entry))
  /\ UNCHANGED requests

----------------------------------------------------------------------------
(* This context *)

Schedule(item) == Len(work) < spare["behind"] /\ work' = IF phase = "closed" THEN work ELSE Append(work, item)

\* Every change asks for the entries again; an earlier request is superseded.
TableChanges ==
  /\ commits # <<>> /\ replica' = Head(commits) /\ commits' = Tail(commits) /\ asked' = (phase = "open")
  /\ UNCHANGED <<entries, news, requests, manager, phase, spare>>

\* reconcileProjections
Reconcile ==
  /\ asked /\ asked' = FALSE /\ Schedule([type |-> "reconcile", entries |-> replica])
  /\ UNCHANGED <<leading, replica, projecting, stale, wanted, fingerprints, overlay, disabled, phase, spare>>

\* enqueue and edit project the entry they are answered with; a result takes a projection back, unless
\* the outbox has ended.
Told ==
  /\ news # <<>> /\ news' = Tail(news)
  /\ CASE Head(news).type = "answer" -> Schedule([type |-> "ensure", entry |-> Head(news).entry])
       [] Head(news).type = "result" /\ phase = "open" -> Schedule([type |-> "discard", id |-> Head(news).id])
       [] OTHER -> UNCHANGED work
  /\ UNCHANGED <<entries, commits, requests, replica, asked, projecting, stale, wanted, fingerprints, overlay,
                 disabled, phase, spare>>

\* The outbox ends: results and changes are not heard of any more.
Dispose ==
  /\ phase = "open" /\ Happens("dispose") /\ phase' = "disposing" /\ asked' = FALSE
  /\ UNCHANGED <<leading, replica, manager>>

----------------------------------------------------------------------------
(* The manager *)

Bare(entry) == [id |-> entry.id, sequence |-> entry.sequence, request |-> entry.request]
Same(a, b) == a.id = b.id /\ a.request = b.request

\* The entries that will be tried, by sequence.
DesiredProjections(table) ==
  LET tried == {entry \in table : entry.status # "failed"}
      at == Ascending({entry.sequence : entry \in tried})
  IN  [k \in DOMAIN at |-> Bare(CHOOSE entry \in tried : entry.sequence = at[k])]

\* Mutant: an entry that is projected again goes behind all others.
EnsuredLast(entry) == Append(Without(wanted, {entry.id}), Bare(entry))

\* One entry more, or with another request.
Ensured(entry) ==
  LET others == Without(wanted, {entry.id})
      before == Max({0} \cup {i \in DOMAIN others : others[i].sequence <= entry.sequence})
  IN  SubSeq(others, 1, before) \o <<Bare(entry)>> \o SubSeq(others, before + 1, Len(others))

Discarded(id) == Without(wanted, {id})

Aim(item) ==
  CASE item.type = "reconcile" -> DesiredProjections(item.entries)
    [] item.type = "ensure" -> Ensured(item.entry)
    [] item.type = "discard" -> Discarded(item.id)

FirstDivergence(current, next) ==
  1 + Max({n \in 0..Len(current) : n <= Len(next) /\ \A i \in 1..n : Same(current[i], next[i])})

\* Mutant: only the entry that differs is taken back, not what was projected after it.
InvalidateOne(from) == {wanted[i].id : i \in {j \in DOMAIN wanted : j = from}}

\* What was projected behind a difference saw it, and is projected again.
InvalidateFrom(from) == {wanted[i].id : i \in from..Len(wanted)}

\* The open transactions of some entries are settled.
Taken(ids) ==
  /\ fingerprints' = [e \in Entries |-> IF e \in ids THEN 0 ELSE fingerprints[e]]
  /\ overlay' = Without(overlay, ids)

\* applyDesired, up to the first projection it waits for.
Apply ==
  /\ work # <<>> /\ projecting = <<>> /\ phase # "closed" /\ work' = Tail(work)
  /\ IF disabled THEN UNCHANGED <<projecting, wanted, fingerprints, overlay>>
     ELSE LET next == Aim(Head(work))
              from == FirstDivergence(wanted, next)
              installed == {e \in Entries : \E i \in DOMAIN next :
                                             next[i].id = e /\ next[i].request = fingerprints'[e]}
          IN  /\ wanted' = next /\ Taken(InvalidateFrom(from)) /\ projecting' = Without(next, installed)
  /\ stale' = FALSE
  /\ UNCHANGED <<leading, replica, asked, phase, disabled, spare>>

\* Mutant: a projection that ends late is kept.
InstallLate ==
  /\ projecting # <<>>
  /\ LET entry == Head(projecting)
     IN  /\ overlay' = IF entry.id \in Effective THEN Append(overlay, entry) ELSE overlay
         /\ fingerprints' = [fingerprints EXCEPT ![entry.id] = entry.request]
  /\ projecting' = (IF stale THEN <<>> ELSE Tail(projecting)) /\ stale' = FALSE
  /\ UNCHANGED <<leading, replica, asked, work, wanted, disabled, phase, spare>>

\* A projection has been made; it is settled at once if it was invalidated meanwhile.
Install ==
  /\ projecting # <<>>
  /\ LET entry == Head(projecting)
     IN  IF stale THEN UNCHANGED <<overlay, fingerprints>>
         ELSE /\ overlay' = IF entry.id \in Effective THEN Append(overlay, entry) ELSE overlay
              /\ fingerprints' = [fingerprints EXCEPT ![entry.id] = entry.request]
  /\ projecting' = (IF stale THEN <<>> ELSE Tail(projecting)) /\ stale' = FALSE
  /\ UNCHANGED <<leading, replica, asked, work, wanted, disabled, phase, spare>>

\* disable: a projection that fails ends all of them, for good.
Disable ==
  /\ projecting # <<>> /\ Happens("break")
  /\ Taken(Ids(wanted)) /\ wanted' = <<>> /\ projecting' = <<>> /\ disabled' = TRUE /\ stale' = FALSE
  /\ UNCHANGED <<leading, replica, asked, work, phase>>

\* Whatever is projected at that time ends when it has been made.
CloseProjections ==
  /\ phase = "disposing" /\ phase' = "closed"
  /\ Taken(Ids(wanted)) /\ wanted' = <<>> /\ work' = <<>> /\ stale' = (projecting # <<>>)
  /\ UNCHANGED <<leading, replica, asked, projecting, disabled, spare>>

ProjectionNext ==
  \/ \E e \in Entries : EnqueueEntry(e)
  \/ \E entry \in entries : Edit(entry) \/ EntrySettles(entry) \/ Fail(entry)
  \/ TableChanges \/ Reconcile \/ Told \/ Dispose \/ Apply \/ Install \/ Disable \/ CloseProjections

ProjectionSpec == ProjectionInit /\ [][ProjectionNext]_projectionVars

----------------------------------------------------------------------------
(* What must hold *)

\* The variables have their types; what is installed is desired, what is shown is installed, and nothing
\* is shown once a projection has failed.
ProjectionTypeOK ==
  /\ phase \in {"open", "disposing", "closed"} /\ disabled \in BOOLEAN /\ stale \in BOOLEAN
  /\ requests \in [Entries -> Nat] /\ fingerprints \in [Entries -> Nat]
  /\ \A i, j \in DOMAIN wanted : i < j => wanted[i].id # wanted[j].id
  /\ \A e \in Entries : fingerprints[e] # 0 => \E i \in DOMAIN wanted : Same(wanted[i], [id |-> e, request |-> fingerprints[e]])
  /\ \A i \in DOMAIN overlay : fingerprints[overlay[i].id] = overlay[i].request
  /\ disabled => overlay = <<>>

\* Projections build on one another in the order in which the backend will execute the entries, also
\* while answers, results and commits overtake one another.
ShownInOrder ==
  \A i, j \in DOMAIN overlay : i < j => overlay[i].id # overlay[j].id /\ overlay[i].sequence <= overlay[j].sequence

\* When everything has arrived, exactly the entries that will be tried are shown, with their last requests.
QuietProjections == commits = <<>> /\ news = <<>> /\ ~asked /\ work = <<>> /\ projecting = <<>>
OverlayIsOutbox ==
  QuietProjections /\ phase = "open" /\ ~disabled =>
    overlay = Without(DesiredProjections(entries), Entries \ Effective)

\* After the outbox has been disposed of, no transaction stays open: a projection that was being made is
\* settled when it is made, and an answer that comes late makes none.
NothingIsLeftShown == phase = "closed" => overlay = <<>>

\* What is shown follows the outbox: in its order, in the end exactly, and not beyond its life.
OverlayFollows == ShownInOrder /\ OverlayIsOutbox /\ NothingIsLeftShown
================================================================================
