-------------------------- MODULE FoundryCollection --------------------------
(***************************************************************************)
(* The collection of one Foundry object type in one context.  It is kept   *)
(* up to date from the edit history, of which a durable cursor remembers   *)
(* what was applied; the watcher's messages only say that there is more.   *)
(* Once the history fails, the watcher's updates are applied themselves,   *)
(* and a full refresh follows whatever may have been missed.               *)
(*                                                                         *)
(* An edit is its position in the history; row k shows the object after    *)
(* edit rows[k], which may be its deletion, or as it was before any (0).   *)
(***************************************************************************)
EXTENDS Integers, Sequences, SequencesExt, FiniteSetsExt

CONSTANTS ObjectKeys,
          MaxEdits,     \* bound on the edits that are made
          EditPage,     \* EDIT_HISTORY_PAGE_SIZE
          Ways          \* what is edited, loaded and awaited, the clocks, how many commits may be
                        \* deferred at once, and bounds on what goes wrong

VARIABLES
  way,          \* the way that is followed
  edits,        \* the server: the history, edits with key, time and operation
  clock,        \* the server: its time
  rows,         \* per key: the edit it shows, or Unloaded, once all that was committed is applied
  cursor,       \* the time up to which edits were committed, and those seen of that time
  base,         \* edits made before the cursor was created
  held,         \* what the collection shows, and keeps if it is persisted: rows with their cursor
  deferred,     \* what was committed since and is not applied yet, in order
  syncing,      \* the sync function runs and is not disposed of
  unavailable,  \* editHistoryUnavailable
  fetching,     \* the catch-up that is under way
  again,        \* catchUpRequested
  strays,       \* tasks of earlier runs that have not ended: catch-ups with their updates, refreshes
  refresh,      \* the full refresh that is under way: the rows the server answered with
  refreshAgain, \* fullRefreshRequested
  updates,      \* pendingDirectWatcherUpdates
  socket,       \* the watcher's subscription is open
  feed,         \* its messages under way
  load,         \* the subset load that is under way: what the server answered with
  seenOps,      \* seenOperationIds
  receipts,     \* how many of the deferred commits the catch-up and the refresh wait for
  waiter,       \* one call of awaitOperationId
  trouble       \* how much went wrong

history == <<edits, clock>>
committed == <<rows, cursor, base>>
applying == <<held, deferred, receipts>>
durable == <<committed, applying>>
catching == <<fetching, again, strays>>
refreshing == <<refresh, refreshAgain>>
foundryVars == <<way, history, durable, syncing, unavailable, catching, refreshing, updates, socket, feed, load,
                 seenOps, waiter, trouble>>

Unloaded == -1
Unanswered == -1
Taken == -2
NoFetch == [busy |-> FALSE, cursor |-> [at |-> 0, seen |-> {}], got |-> {}, token |-> 0, upTo |-> Unanswered]
NoRows == [k \in ObjectKeys |-> Unloaded]
NoRefresh == [step |-> "none", rows |-> NoRows]
NoReceipts == [catchUp |-> 0, refresh |-> 0]
NoWaiter == [state |-> "none", op |-> 0]
Troubles == {"history", "refresh", "late", "drop", "stop", "reload"}

\* Nothing is kept: a run begins anew.
Unmade == [rows |-> NoRows, cursor |-> NoFetch.cursor, base |-> MaxEdits + 1]

\* What an instance assumes of its constants.
ASSUME FoundryAssumption ==
  /\ IsFiniteSet(ObjectKeys) /\ MaxEdits \in Nat /\ EditPage \in Nat \ {0}
  /\ \A w \in Ways : w.ticks \in Nat /\ w.ahead \in Int /\ w.operations \subseteq SUBSET ObjectKeys

\* The time is that of the client, whose clock may differ from the server's.
NewCursor == [at |-> clock + way.ahead, seen |-> {}]

Committed == [rows |-> rows, cursor |-> cursor, base |-> base]

FoundryInit ==
  /\ way \in Ways
  /\ edits = <<>> /\ clock = 0
  /\ rows = NoRows /\ cursor = NewCursor /\ base = 0 /\ receipts = NoReceipts
  /\ \/ held = Committed /\ deferred = <<>>
     \/ way.defers > 0 /\ held = Unmade /\ deferred = <<Committed>>
  /\ syncing = TRUE /\ unavailable = FALSE
  /\ fetching = NoFetch /\ again = FALSE /\ strays = {}
  /\ refresh = NoRefresh /\ refreshAgain = FALSE /\ updates = <<>>
  /\ socket = FALSE /\ feed = <<>> /\ load = NoRows /\ seenOps = {}
  /\ waiter = NoWaiter /\ trouble = [t \in Troubles |-> 0]

Trouble(t) == trouble[t] < way.trouble[t] /\ trouble' = [trouble EXCEPT ![t] = @ + 1]

Operation(op) == {i \in DOMAIN edits : edits[i].op = op}
Latest(k) == Max({0} \cup {i \in DOMAIN edits : edits[i].key = k})
SourceRows == [k \in ObjectKeys |-> Latest(k)]

----------------------------------------------------------------------------
(* Commits.  One is applied at once, or deferred behind those before it; its receipt tells. *)

\* What follows is the state after each of some transactions.
Commit(states) ==
  \/ states = <<>> /\ UNCHANGED <<held, deferred>>
  \/ states # <<>> /\ held' = Last(states) /\ deferred' = <<>>
  \/ /\ states # <<>> /\ Len(deferred) + Len(states) <= way.defers
     /\ deferred' = deferred \o states /\ UNCHANGED held

Left(n) == IF n = 0 THEN 0 ELSE n - 1

\* A deferred commit is applied.
ApplyCommit ==
  /\ deferred # <<>> /\ held' = Head(deferred) /\ deferred' = Tail(deferred)
  /\ receipts' = [task \in DOMAIN receipts |-> Left(receipts[task])]
  /\ UNCHANGED <<way, history, committed, syncing, unavailable, catching, refreshing, updates, socket, feed, load,
                 seenOps, waiter, trouble>>

\* A task waits for what it committed last.
Await(task) == receipts' = [receipts EXCEPT ![task] = Len(deferred')]

----------------------------------------------------------------------------
(* Foundry: the objects, their history and the watcher *)

\* An operation edits some objects at once; an open subscription is told.
EditObjects(keys) ==
  LET op == Len(edits) + 1
      made == SetToSeq({[key |-> k, at |-> clock, op |-> op] : k \in keys})
  IN  /\ Len(edits) + Cardinality(keys) <= MaxEdits
      /\ edits' = edits \o made
      /\ feed' = IF socket THEN Append(feed, [type |-> "change", updates |->
                                       [i \in 1..Len(made) |-> Len(edits) + i]]) ELSE feed
      /\ UNCHANGED <<way, clock, durable, syncing, unavailable, catching, refreshing, updates, socket, load,
                     seenOps, waiter, trouble>>

Tick ==
  /\ clock < way.ticks /\ clock' = clock + 1
  /\ UNCHANGED <<way, edits, durable, syncing, unavailable, catching, refreshing, updates, socket, feed, load,
                 seenOps, waiter, trouble>>

Connect ==
  /\ syncing /\ ~socket /\ socket' = TRUE /\ feed' = <<[type |-> "open"]>>
  /\ UNCHANGED <<way, history, durable, syncing, unavailable, catching, refreshing, updates, load, seenOps,
                 waiter, trouble>>

\* What is under way is lost.
Drop ==
  /\ socket /\ Trouble("drop") /\ socket' = FALSE /\ feed' = <<>>
  /\ UNCHANGED <<way, history, durable, syncing, unavailable, catching, refreshing, updates, load, seenOps,
                 waiter>>

----------------------------------------------------------------------------
(* The edit history *)

\* Mutant: edits of the cursor's time count as applied.
DueAfter(c, i) == edits[i].at > c.at

\* shouldProcessEditHistoryEntry
Due(c, i) == edits[i].at > c.at \/ (edits[i].at = c.at /\ i \notin c.seen)

\* advanceEditHistoryCursor, for the edits of a page
Advanced(c, page) ==
  LET at == Max({c.at} \cup {edits[i].at : i \in page})
  IN  [at |-> at, seen |-> (IF at = c.at THEN c.seen ELSE {}) \cup {i \in page : edits[i].at = at}]

Begun == [busy |-> TRUE, cursor |-> cursor, got |-> {}, token |-> 0, upTo |-> Unanswered]

\* requestEditHistoryCatchUp: one task at a time, and once more if it was requested meanwhile.
RequestCatchUp ==
  IF unavailable THEN UNCHANGED <<fetching, again>>
  ELSE IF fetching.busy THEN again' = TRUE /\ UNCHANGED fetching
       ELSE again' = FALSE /\ fetching' = Begun

RefreshAsked == [NoRefresh EXCEPT !.step = "asked"]

\* requestFullRefresh
RequestRefresh ==
  IF refresh # NoRefresh THEN refreshAgain' = TRUE /\ UNCHANGED refresh
  ELSE refreshAgain' = FALSE /\ refresh' = RefreshAsked

\* The server answers with what there is now.
AnswerPage ==
  /\ fetching.busy /\ fetching.upTo = Unanswered /\ fetching' = [fetching EXCEPT !.upTo = Len(edits)]
  /\ UNCHANGED <<way, history, durable, syncing, unavailable, again, strays, refreshing, updates, socket, feed,
                 load, seenOps, waiter, trouble>>

Following == {i \in 1..fetching.upTo : i > fetching.token /\ edits[i].at >= fetching.cursor.at}
Page == {i \in Following : Cardinality({j \in Following : j < i}) < EditPage}

\* A page that is followed by another one.
ReadPage ==
  /\ fetching.upTo >= 0 /\ Page # Following
  /\ LET new == {i \in Page : Due(fetching.cursor, i)}
     IN  fetching' = [fetching EXCEPT !.got = fetching.got \cup new, !.token = Max(Page), !.upTo = Unanswered,
                                !.cursor = Advanced(fetching.cursor, new)]
  /\ UNCHANGED <<way, history, durable, syncing, unavailable, again, strays, refreshing, updates, socket, feed,
                 load, seenOps, waiter, trouble>>

\* The rows after edits, of which the last one of a key counts.
Showing(shown, applied) ==
  [k \in ObjectKeys |->
     LET own == {i \in applied : edits[i].key = k} IN IF own = {} THEN shown[k] ELSE Max(own)]

Observed(ops) == waiter.state = "waiting" /\ waiter.op \in ops

\* Mutant: only what the last page holds is written.
LastPage(new) == new

AllPages(new) == fetching.got \cup new

\* Mutant: updates that the watcher sent meanwhile are kept.
KeepUpdates == UNCHANGED updates

ForgetUpdates == updates' = <<>>

\* The last page: all edits and the cursor are committed in one transaction, and the operations
\* are told of, whether it has been applied or not.
CatchUp ==
  /\ fetching.upTo >= 0 /\ Page = Following
  /\ LET new == {i \in Page : Due(fetching.cursor, i)}
         taken == AllPages(new)
     IN  /\ rows' = Showing(rows, taken) /\ cursor' = Advanced(fetching.cursor, new) /\ UNCHANGED base
         /\ seenOps' = seenOps \cup {edits[i].op : i \in taken}
         /\ Commit(IF taken = {} THEN <<>> ELSE <<Committed'>>)
         /\ IF taken = {} THEN UNCHANGED receipts ELSE Await("catchUp")
  /\ fetching' = [NoFetch EXCEPT !.busy = TRUE, !.upTo = Taken] /\ ForgetUpdates
  /\ waiter' = IF Observed(seenOps') THEN [waiter EXCEPT !.state = "seen"] ELSE waiter
  /\ UNCHANGED <<way, history, syncing, unavailable, again, strays, refreshing, socket, feed, load, trouble>>

\* It ends when that has been applied, and runs again if this was requested.
CatchUpEnds ==
  /\ fetching.upTo = Taken /\ receipts["catchUp"] = 0
  /\ fetching' = (IF again THEN Begun ELSE NoFetch) /\ again' = FALSE
  /\ UNCHANGED <<way, history, durable, syncing, unavailable, strays, refreshing, updates, socket, feed, load,
                 seenOps, waiter, trouble>>

----------------------------------------------------------------------------
(* Direct updates, once the history is unavailable *)

\* An update or a refresh satisfies whoever waits, since operations are not told any more.
Synchronized(state) == IF state = "waiting" THEN "direct" ELSE state

LastOf(list) == {list[i] : i \in {j \in DOMAIN list : \A n \in j + 1..Len(list) :
                                                        edits[list[n]].key # edits[list[j]].key}}

\* applyDirectWatcherUpdates: in their order, so the last one of a key counts, be it older.
ApplyDirect(list) ==
  /\ rows' = Showing(rows, LastOf(list)) /\ UNCHANGED <<cursor, base>>
  /\ Commit(IF list = <<>> THEN <<>> ELSE <<Committed'>>)
  /\ waiter' = [waiter EXCEPT !.state = IF list # <<>> THEN Synchronized(@) ELSE @]

\* A page of the history fails: what was read of it is dropped, and never asked for again.
SwitchToDirectWebsocketMode ==
  /\ fetching.busy /\ fetching.upTo # Taken /\ Trouble("history")
  /\ unavailable' = TRUE /\ fetching' = NoFetch /\ again' = FALSE
  /\ ApplyDirect(updates) /\ updates' = <<>> /\ RequestRefresh
  /\ UNCHANGED <<way, history, receipts, syncing, strays, socket, feed, load, seenOps>>

\* The server answers with the objects as they are; updates are kept until they are written.
FetchAll ==
  /\ refresh.step = "asked" /\ refresh' = [step |-> "answered", rows |-> SourceRows]
  /\ UNCHANGED <<way, history, durable, syncing, unavailable, catching, refreshAgain, updates, socket, feed, load,
                 seenOps, waiter, trouble>>

RefreshEnds ==
  IF refreshAgain THEN refresh' = RefreshAsked /\ refreshAgain' = FALSE
  ELSE refresh' = NoRefresh /\ UNCHANGED refreshAgain

\* refreshAllFromSource: the rows are committed, and the updates that came meanwhile.
RefreshAll ==
  /\ refresh.step = "answered"
  /\ rows' = Showing(refresh.rows, LastOf(updates)) /\ updates' = <<>> /\ UNCHANGED <<cursor, base>>
  /\ Commit(<<[Committed EXCEPT !.rows = refresh.rows]>> \o (IF updates = <<>> THEN <<>> ELSE <<Committed'>>))
  /\ Await("refresh")
  /\ refresh' = [NoRefresh EXCEPT !.step = IF updates = <<>> THEN "written" ELSE "updated"]
  /\ waiter' = [waiter EXCEPT !.state = Synchronized(@)]
  /\ UNCHANGED <<way, history, syncing, unavailable, catching, refreshAgain, socket, feed, load, seenOps, trouble>>

Writing == refresh.step \in {"written", "updated"}

\* It ends when both have been applied.  Updates that came since then are left.
RefreshDone ==
  /\ Writing /\ receipts["refresh"] = 0 /\ RefreshEnds
  /\ waiter' = [waiter EXCEPT !.state = IF refresh.step = "updated" THEN Synchronized(@) ELSE @]
  /\ UNCHANGED <<way, history, durable, syncing, unavailable, catching, updates, socket, feed, load, seenOps, trouble>>

\* It is only logged, unless another refresh was requested meanwhile.
RefreshFails ==
  /\ refresh.step = "asked" /\ Trouble("refresh") /\ RefreshEnds
  /\ UNCHANGED <<way, history, durable, syncing, unavailable, catching, updates, socket, feed, load, seenOps, waiter>>

----------------------------------------------------------------------------
(* The watcher's messages *)

\* A change, by the mode and by what is under way.  (A refresh whose commits have been applied goes on
\* before the next message.)
HandleChange ==
  /\ feed # <<>> /\ Head(feed).type = "change" /\ feed' = Tail(feed)
  /\ IF unavailable /\ refresh = NoRefresh
     THEN ApplyDirect(Head(feed).updates) /\ UNCHANGED updates
     ELSE updates' = updates \o Head(feed).updates /\ UNCHANGED <<committed, held, deferred, waiter>>
  /\ IF unavailable /\ Writing THEN receipts["refresh"] > 0 /\ Trouble("late") ELSE UNCHANGED trouble
  /\ RequestCatchUp
  /\ UNCHANGED <<way, history, receipts, syncing, unavailable, strays, refreshing, socket, load, seenOps>>

\* Mutant: only a change starts a catch-up.
IgnoreOpen ==
  /\ feed # <<>> /\ Head(feed).type = "open" /\ feed' = Tail(feed)
  /\ UNCHANGED <<way, history, durable, syncing, unavailable, catching, refreshing, updates, socket, load, seenOps,
                 waiter, trouble>>

\* The subscription is open, or the server asks for a refresh: something may have been missed.
HandleOpen ==
  /\ feed # <<>> /\ Head(feed).type = "open" /\ feed' = Tail(feed)
  /\ IF unavailable THEN RequestRefresh /\ UNCHANGED <<fetching, again>>
     ELSE RequestCatchUp /\ UNCHANGED refreshing
  /\ UNCHANGED <<way, history, durable, syncing, unavailable, strays, updates, socket, load, seenOps, waiter, trouble>>

----------------------------------------------------------------------------
(* The application *)

\* The objects that match and exist are answered.
FetchSubset(k) ==
  /\ k \in way.loads /\ syncing /\ load = NoRows /\ rows[k] = Unloaded
  /\ load' = [NoRows EXCEPT ![k] = Latest(k)]
  /\ UNCHANGED <<way, history, durable, syncing, unavailable, catching, refreshing, updates, socket, feed, seenOps,
                 waiter, trouble>>

\* The answer is not compared with what was written since it was given.
LoadSubset ==
  /\ syncing /\ load # NoRows /\ load' = NoRows
  /\ ~way.overtaken => \A k \in ObjectKeys : load[k] \in {Unloaded, Latest(k)}
  /\ rows' = [k \in ObjectKeys |-> IF load[k] = Unloaded THEN rows[k] ELSE load[k]]
  /\ UNCHANGED <<cursor, base>> /\ Commit(<<Committed'>>)
  /\ UNCHANGED <<way, history, receipts, syncing, unavailable, catching, refreshing, updates, socket, feed,
                 seenOps, waiter, trouble>>

\* In a way that is calm nobody loads what is edited meanwhile.
LoadIsOvertaken ==
  /\ load # NoRows /\ ~way.overtaken /\ \E k \in ObjectKeys : load[k] \notin {Unloaded, Latest(k)}
  /\ load' = NoRows
  /\ UNCHANGED <<way, history, durable, syncing, unavailable, catching, refreshing, updates, socket, feed, seenOps,
                 waiter, trouble>>

\* An action has been applied and its operation is waited for; this starts a catch-up, too.
AwaitOperationId(op) ==
  /\ way.awaits /\ syncing /\ waiter = NoWaiter /\ \E i \in DOMAIN edits : edits[i].op = op
  /\ IF op \in seenOps THEN waiter' = [state |-> "seen", op |-> op] /\ UNCHANGED <<fetching, again>>
     ELSE waiter' = [state |-> "waiting", op |-> op] /\ RequestCatchUp
  /\ UNCHANGED <<way, history, durable, syncing, unavailable, strays, refreshing, updates, socket, feed, load, seenOps,
                 trouble>>

\* The caller goes on, after a timeout if nothing was observed.
AwaitEnds ==
  /\ waiter # NoWaiter /\ waiter' = NoWaiter
  /\ UNCHANGED <<way, history, durable, syncing, unavailable, catching, refreshing, updates, socket, feed, load,
                 seenOps, trouble>>

\* What a sync run holds ends with it, and commits that are still deferred are dropped.
Ended ==
  /\ fetching' = NoFetch /\ again' = FALSE /\ refresh' = NoRefresh /\ refreshAgain' = FALSE /\ updates' = <<>>
  /\ socket' = FALSE /\ feed' = <<>> /\ waiter' = NoWaiter /\ receipts' = NoReceipts

Kept == IF way.persisted THEN held ELSE Unmade

Resume(state) ==
  /\ rows' = state.rows /\ cursor' = state.cursor /\ base' = state.base /\ held' = state /\ deferred' = <<>>

\* A run begins with what is kept.  If nothing is, it commits a new cursor first.
BeginRun ==
  IF Kept # Unmade THEN Resume(Kept)
  ELSE /\ rows' = NoRows /\ cursor' = NewCursor /\ base' = Len(edits)
       /\ \/ held' = Committed' /\ deferred' = <<>>
          \/ way.defers > 0 /\ held' = Unmade /\ deferred' = <<Committed'>>

LateCatchUp == [task |-> "catchUp", updates |-> updates, run |-> trouble["stop"]]
LateRefresh == [task |-> "refresh", updates |-> <<>>, run |-> trouble["stop"]]

\* cleanup: a catch-up that is under way writes nothing any more, except its updates if it fails.
StopSync ==
  /\ syncing /\ Trouble("stop") /\ syncing' = FALSE /\ Ended /\ Resume(Kept)
  /\ strays' = strays \cup {task \in {LateCatchUp} : fetching.busy /\ fetching.upTo # Taken}
                     \cup {task \in {LateRefresh} : refresh.step = "updated"}
  /\ UNCHANGED <<way, history, unavailable, load, seenOps>>

Sync ==
  /\ ~syncing /\ syncing' = TRUE /\ BeginRun
  /\ UNCHANGED <<way, history, receipts, unavailable, catching, refreshing, updates, socket, feed, load, seenOps, waiter,
                 trouble>>

\* The catch-up of an earlier run fails: it writes its own updates and switches the present run.
StrayFails ==
  /\ Trouble("history") /\ unavailable' = TRUE
  /\ \E task \in strays :
       /\ task.task = "catchUp" /\ strays' = strays \ {task}
       /\ IF syncing THEN ApplyDirect(task.updates) /\ RequestRefresh
          ELSE UNCHANGED <<committed, held, deferred, waiter, refreshing>>
  /\ UNCHANGED <<way, history, receipts, syncing, fetching, again, updates, socket, feed, load, seenOps>>

\* One that ends otherwise does nothing; a refresh satisfies who waits.
StrayEnds ==
  /\ \E task \in strays :
       /\ strays' = strays \ {task}
       /\ waiter' = [waiter EXCEPT !.state = IF task.task = "refresh" /\ unavailable THEN Synchronized(@) ELSE @]
  /\ UNCHANGED <<way, history, durable, syncing, unavailable, fetching, again, refreshing, updates, socket, feed, load,
                 seenOps, trouble>>

\* A new context starts with what was persisted.
Restart ==
  /\ Trouble("reload") /\ Ended /\ BeginRun /\ syncing' = TRUE /\ unavailable' = FALSE /\ strays' = {}
  /\ load' = NoRows /\ seenOps' = {} /\ UNCHANGED <<way, history>>

FoundryNext ==
  \/ (\E keys \in way.operations : EditObjects(keys)) \/ Tick \/ Connect \/ Drop
  \/ ApplyCommit
  \/ AnswerPage \/ ReadPage \/ CatchUp \/ CatchUpEnds \/ SwitchToDirectWebsocketMode
  \/ FetchAll \/ RefreshAll \/ RefreshDone \/ RefreshFails
  \/ HandleChange \/ HandleOpen
  \/ (\E k \in ObjectKeys : FetchSubset(k)) \/ LoadSubset \/ LoadIsOvertaken
  \/ (\E op \in 1..MaxEdits : AwaitOperationId(op)) \/ AwaitEnds
  \/ StopSync \/ Sync \/ StrayFails \/ StrayEnds \/ Restart

FoundrySpec == FoundryInit /\ [][FoundryNext]_foundryVars

----------------------------------------------------------------------------
(* What must hold *)

\* The variables have their types, and updates are only kept while something will use them, unless they
\* came when a full refresh had taken over what it uses.
FoundryTypeOK ==
  /\ way \in Ways /\ clock \in 0..way.ticks /\ Len(edits) <= MaxEdits
  /\ rows \in [ObjectKeys -> Unloaded..Len(edits)] /\ load \in [ObjectKeys -> Unloaded..Len(edits)]
  /\ held.rows \in [ObjectKeys -> Unloaded..Len(edits)] /\ Len(deferred) <= way.defers
  /\ cursor.at \in Int /\ cursor.seen \subseteq DOMAIN edits /\ base \in 0..MaxEdits + 1
  /\ fetching.got \subseteq DOMAIN edits /\ fetching.token \in 0..MaxEdits
  /\ waiter.state \in {"none", "waiting", "seen", "direct"}
  /\ again => fetching.busy
  /\ refreshAgain => refresh # NoRefresh
  /\ updates # <<>> => fetching.busy \/ refresh # NoRefresh \/ trouble["refresh"] + trouble["late"] > 0

\* While there is a history, the cursor that is kept never passes an edit that the rows do not show:
\* whenever the run or the context ends, an edit is applied or will still be read.  (The cursor starts
\* with the time of the client: edits are passed over when its clock is ahead of the server's.)
NothingIsSkipped ==
  ~way.overtaken /\ way.ahead <= 0 /\ trouble["history"] = 0 =>
    \A i \in DOMAIN edits : i <= held.base \/ Due(held.cursor, i) \/ held.rows[edits[i].key] >= i

Quiet ==
  syncing /\ socket /\ feed = <<>> /\ ~fetching.busy /\ refresh = NoRefresh /\ load = NoRows /\ deferred = <<>>

\* A full refresh was lost, by a failure or with the context, after older updates were written, or
\* the run before has failed the history that this one reads, or updates came when a full refresh was
\* waiting for its commits: they are left, and the next refresh writes them over newer rows.
Regressed ==
  \/ trouble["refresh"] + trouble["late"] > 0
  \/ trouble["history"] > 0 /\ trouble["reload"] + trouble["stop"] > 0

\* When everything under way has been handled, what the collection shows is what Foundry holds,
\* in either mode, after lost messages, a failure of the history and restarts.
Converges ==
  Quiet /\ ~way.overtaken /\ way.ahead <= 0 /\ ~Regressed =>
    \A k \in ObjectKeys : held.rows[k] \in {Unloaded, Latest(k)}

\* The collection follows Foundry: no edit is passed over, and in the end it holds what Foundry holds.
CollectionFollows == NothingIsSkipped /\ Converges

\* What the collection shows when all that was committed has been applied.
Coming == IF deferred = <<>> THEN held ELSE Last(deferred)

\* A full refresh repairs what was missed while the subscription was lost, in the mode without history.
Reconciles ==
  Quiet /\ unavailable /\ trouble["drop"] > 0 /\ ~way.overtaken
    /\ trouble["refresh"] + trouble["stop"] + trouble["reload"] = 0 =>
      \A k \in ObjectKeys : held.rows[k] \in {Unloaded, Latest(k)}

\* It is told by the history.
Told == waiter.state # "seen" /\ waiter'.state = "seen"

\* Who waits for an operation and is told by the history that it was seen finds all of its edits in
\* the collection, or in what was committed and will be applied: it is told before that.  (A run that
\* is stopped drops such commits, and the operations remain seen.)
AwaitedIsShown ==
  [][ Told /\ ~way.overtaken /\ trouble["history"] = 0 /\ (way.defers = 0 \/ trouble["stop"] = 0) =>
        \A i \in Operation(waiter'.op) : i <= Coming'.base \/ Coming'.rows[edits[i].key] >= i ]_foundryVars
=============================================================================
