---------------------------- MODULE LiveOntology ----------------------------
(***************************************************************************)
(* The life of a live ontology in one context: the start of its outbox and *)
(* blobs, the readiness of its object collections, its calls of actions,   *)
(* and its cleanup, which may be asked for at any time.  Calls go through  *)
(* the outbox, or directly to the backend, confirmed or with an optimistic *)
(* transaction.                                                            *)
(***************************************************************************)
EXTENDS Integers, FiniteSets

CONSTANTS Collections, Readers, LiveCalls,
          Manners       \* how the calls are made: functions to records with mode and visibility

VARIABLES
  manner,
  parts,        \* the outbox, the blobs, the backend and the runtime
  readiness,    \* the promise `ready'
  condition,    \* the status of the collections
  reading,      \* waitForLiveOntologyReady, by its caller
  doing,        \* calls: their stage, whether their transaction is open, what became of the completion
  teardown,     \* what cleanup is waiting for
  destroying

lifeVars == <<manner, parts, readiness, condition, reading, doing, teardown, destroying>>

Manner(mode, visibility) == [mode |-> mode, visibility |-> visibility]
NoReading == [stage |-> "idle", missing |-> {}]
NoDoing == [stage |-> "idle", shown |-> FALSE, heard |-> "no"]

LifeInit ==
  /\ manner \in Manners
  /\ parts = [p \in {"outbox", "blobs", "backend", "runtime"} |-> IF p \in {"outbox", "blobs"} THEN "starting" ELSE "up"]
  /\ readiness = "pending" /\ condition = [c \in Collections |-> "idle"]
  /\ reading = [r \in Readers |-> NoReading] /\ doing = [c \in LiveCalls |-> NoDoing]
  /\ teardown = "none" /\ destroying = "no"

----------------------------------------------------------------------------
(* Startup and readiness *)

\* The outbox or the blobs have started, or cannot; the first failure decides `ready'.
PartStarted(p, outcome) ==
  /\ parts[p] = "starting" /\ parts' = [parts EXCEPT ![p] = outcome]
  /\ readiness' = IF readiness # "pending" THEN readiness
                  ELSE IF outcome = "failed" THEN "rejected"
                  ELSE IF parts'["outbox"] = "up" /\ parts'["blobs"] = "up" THEN "resolved" ELSE "pending"
  /\ UNCHANGED <<manner, condition, reading, doing, teardown, destroying>>

\* Mutant: only success is listened for.
HeardSuccess(readings, c, outcome) ==
  [r \in Readers |->
     IF readings[r].stage # "collections" \/ c \notin readings[r].missing \/ outcome # "ready" THEN readings[r]
     ELSE [readings[r] EXCEPT !.missing = @ \ {c}, !.stage = IF readings[r].missing = {c} THEN "resolved" ELSE @]]

\* status:change, as those that wait for the collection hear of it.
Heard(readings, c, outcome) ==
  [r \in Readers |->
     IF readings[r].stage # "collections" \/ c \notin readings[r].missing THEN readings[r]
     ELSE IF outcome # "ready" THEN [stage |-> "rejected", missing |-> {}]
     ELSE [readings[r] EXCEPT !.missing = @ \ {c}, !.stage = IF readings[r].missing = {c} THEN "resolved" ELSE @]]

CollectionStarted(c, outcome) ==
  /\ condition[c] = "loading" /\ condition' = [condition EXCEPT ![c] = outcome]
  /\ reading' = Heard(reading, c, outcome)
  /\ UNCHANGED <<manner, parts, readiness, doing, teardown, destroying>>

\* A query of the collection starts it.
Query(c) ==
  /\ condition[c] = "idle" /\ condition' = [condition EXCEPT ![c] = "loading"]
  /\ UNCHANGED <<manner, parts, readiness, reading, doing, teardown, destroying>>

WaitForReady(r) ==
  /\ reading[r].stage = "idle" /\ reading' = [reading EXCEPT ![r].stage = "ready"]
  /\ UNCHANGED <<manner, parts, readiness, condition, doing, teardown, destroying>>

\* Idle collections are started; one that has ended fails the wait, but not the start of the others.
WaitForCollections(r) ==
  /\ reading[r].stage = "ready" /\ readiness # "pending"
  /\ IF readiness = "rejected" THEN reading' = [reading EXCEPT ![r].stage = "rejected"] /\ UNCHANGED condition
     ELSE LET missing == {c \in Collections : condition[c] \in {"idle", "loading"}}
          IN  /\ condition' = [c \in Collections |-> IF condition[c] = "idle" THEN "loading" ELSE condition[c]]
              /\ reading' = [reading EXCEPT ![r] =
                   IF \E c \in Collections : condition[c] \in {"error", "cleaned-up"} THEN [stage |-> "rejected", missing |-> {}]
                   ELSE [stage |-> IF missing = {} THEN "resolved" ELSE "collections", missing |-> missing]]
  /\ UNCHANGED <<manner, parts, readiness, doing, teardown, destroying>>

----------------------------------------------------------------------------
(* Calls *)

Goes(c, from, to) == doing[c].stage = from /\ doing' = [doing EXCEPT ![c].stage = to]
\* Mutant: the transaction stays open.
EndsShown(c, from, outcome) == Goes(c, from, outcome)
\* The transaction ends with the call.
Ends(c, from, outcome) == doing[c].stage = from /\ doing' = [doing EXCEPT ![c].stage = outcome, ![c].shown = FALSE]
alone == <<manner, parts, readiness, condition, reading, teardown, destroying>>

Call(c) == Goes(c, "idle", "resolving") /\ UNCHANGED alone

\* Its parameters have been resolved.
Submit(c) ==
  /\ Goes(c, "resolving", IF manner[c].mode = "outbox" THEN "waiting"
                          ELSE IF manner[c].visibility = "optimistic" THEN "showing" ELSE "preparing")
  /\ UNCHANGED alone

\* enqueue, once the outbox has started: the completion is registered before the entry is sent.
Enqueue(c) ==
  /\ doing[c].stage = "waiting" /\ parts["outbox"] # "starting"
  /\ doing' = [doing EXCEPT ![c] =
       IF parts["outbox"] = "failed" THEN [@ EXCEPT !.stage = "rejected"]
       ELSE [@ EXCEPT !.stage = "asked", !.heard = IF parts["outbox"] = "up" THEN "registered" ELSE "late"]]
  /\ UNCHANGED alone

\* The leader has it; the call awaits its completion.
Enqueued(c) ==
  /\ Goes(c, "asked", IF doing[c].heard = "disposed" THEN "rejected" ELSE "queued") /\ UNCHANGED alone
Executed(c, outcome) ==
  /\ doing[c].heard = "registered" /\ Goes(c, "queued", outcome) /\ UNCHANGED alone

\* The mutator changes something, or nothing.
Optimistic(c) ==
  /\ doing[c].stage = "showing"
  /\ \E changes \in BOOLEAN : doing' = [doing EXCEPT ![c].stage = "preparing", ![c].shown = changes]
  /\ UNCHANGED alone

\* executeRemote reads the attachments' bytes, applies the action and binds the attachments' remote ids.
Prepared(c) == Goes(c, "preparing", "applying") /\ UNCHANGED alone
Applied(c) == Goes(c, "applying", "binding") /\ UNCHANGED alone
Bound(c) == Ends(c, "binding", "resolved") /\ UNCHANGED alone
CallFails(c) ==
  /\ \E from \in {"resolving", "asked", "showing", "preparing", "applying", "binding"} : Ends(c, from, "rejected")
  /\ UNCHANGED alone

----------------------------------------------------------------------------
(* Cleanup *)

Cleanup ==
  /\ teardown = "none" /\ teardown' = "settling"
  /\ UNCHANGED <<manner, parts, readiness, condition, reading, doing, destroying>>

Settled ==
  /\ teardown = "settling" /\ readiness # "pending" /\ teardown' = "outbox"
  /\ UNCHANGED <<manner, parts, readiness, condition, reading, doing, destroying>>

\* Mutant: the outbox ends without a word to those who wait.
DisposedSilently(calls) == calls

\* Completions that are registered are rejected.
Disposed(calls) ==
  [c \in LiveCalls |->
     IF calls[c].heard # "registered" THEN calls[c]
     ELSE [calls[c] EXCEPT !.heard = "disposed", !.stage = IF @ = "queued" THEN "rejected" ELSE @]]

\* The outbox settles its own start first; one that could not start has ended.
OutboxDown ==
  /\ teardown = "outbox" /\ parts["outbox"] # "starting"
  /\ parts' = [parts EXCEPT !["outbox"] = IF @ = "up" THEN "down" ELSE @] /\ doing' = Disposed(doing) /\ teardown' = "objects"
  /\ UNCHANGED <<manner, readiness, condition, reading, destroying>>

\* Collections that are being loaded are waited for, the others are cleaned up at once.
ObjectsDown ==
  /\ teardown = "objects" /\ teardown' = "collections"
  /\ condition' = [c \in Collections |-> IF condition[c] = "loading" THEN "loading" ELSE "cleaned-up"]
  /\ UNCHANGED <<manner, parts, readiness, reading, doing, destroying>>
CollectionDown(c) ==
  /\ teardown = "collections" /\ condition[c] \in {"ready", "error"}
  /\ condition' = [condition EXCEPT ![c] = "cleaned-up"] /\ reading' = Heard(reading, c, "cleaned-up")
  /\ UNCHANGED <<manner, parts, readiness, doing, teardown, destroying>>

StoresDown ==
  /\ teardown = "collections" /\ \A c \in Collections : condition[c] = "cleaned-up"
  /\ teardown' = "stores"
  /\ UNCHANGED <<manner, parts, readiness, condition, reading, doing, destroying>>

\* The blobs and the backend are cleaned up side by side; the blobs settle their own start.
StoreDown(p) ==
  /\ teardown \in {"stores", "failed"} /\ p \in {"blobs", "backend"} /\ parts[p] \in {"up", "failed"}
  /\ parts' = [parts EXCEPT ![p] = "down"]
  /\ UNCHANGED <<manner, readiness, condition, reading, doing, teardown, destroying>>
\* The first failure ends the cleanup: the runtime stays as it is, and is not destroyed.
TeardownFails ==
  /\ teardown = "stores" /\ teardown' = "failed"
  /\ UNCHANGED <<manner, parts, readiness, condition, reading, doing, destroying>>

\* Mutant: the runtime is cleaned up side by side with them.
RuntimeAlong ==
  /\ teardown = "stores"
  /\ parts' = [parts EXCEPT !["runtime"] = "down"] /\ teardown' = "done"
  /\ UNCHANGED <<manner, readiness, condition, reading, doing, destroying>>
RuntimeDown ==
  /\ teardown = "stores" /\ parts["blobs"] = "down" /\ parts["backend"] = "down"
  /\ parts' = [parts EXCEPT !["runtime"] = "down"] /\ teardown' = "done"
  /\ UNCHANGED <<manner, readiness, condition, reading, doing, destroying>>

\* destroy cleans up first.
Destroy ==
  /\ destroying = "no" /\ destroying' = "asked"
  /\ teardown' = IF teardown = "none" THEN "settling" ELSE teardown
  /\ UNCHANGED <<manner, parts, readiness, condition, reading, doing>>
Destroyed ==
  /\ destroying = "asked" /\ teardown \in {"done", "failed"}
  /\ IF teardown = "failed" THEN destroying' = "failed" /\ UNCHANGED parts
     ELSE destroying' = "done" /\ parts' = [parts EXCEPT !["runtime"] = "destroyed"]
  /\ UNCHANGED <<manner, readiness, condition, reading, doing, teardown>>

----------------------------------------------------------------------------
\* What goes on by itself.  The leader may take its time: it may be offline.
Proceeds ==
  \/ \E p \in {"outbox", "blobs"}, outcome \in {"up", "failed"} : PartStarted(p, outcome)
  \/ \E c \in Collections : CollectionDown(c) \/ \E outcome \in {"ready", "error"} : CollectionStarted(c, outcome)
  \/ \E r \in Readers : WaitForCollections(r)
  \/ \E c \in LiveCalls : Submit(c) \/ Enqueue(c) \/ Enqueued(c) \/ Optimistic(c) \/ Prepared(c) \/ Applied(c) \/ Bound(c)
                            \/ CallFails(c)
  \/ Settled \/ OutboxDown \/ ObjectsDown \/ StoresDown \/ RuntimeDown \/ TeardownFails \/ Destroyed
  \/ \E p \in {"blobs", "backend"} : StoreDown(p)

LifeNext ==
  \/ Proceeds \/ Cleanup \/ Destroy
  \/ \E c \in Collections : Query(c)
  \/ \E r \in Readers : WaitForReady(r)
  \/ \E c \in LiveCalls : Call(c) \/ \E outcome \in {"resolved", "rejected"} : Executed(c, outcome)

LifeSpec == LifeInit /\ [][LifeNext]_lifeVars

----------------------------------------------------------------------------
(* What must hold *)

Final == {"idle", "resolved", "rejected"}

\* The variables have their types, and an optimistic change is shown only while its call is under way.
LifeTypeOK ==
  /\ readiness \in {"pending", "resolved", "rejected"} /\ destroying \in {"no", "asked", "done", "failed"}
  /\ condition \in [Collections -> {"idle", "loading", "ready", "error", "cleaned-up"}]
  /\ \A r \in Readers : (reading[r].missing # {}) = (reading[r].stage = "collections")
  /\ \A c \in LiveCalls : doing[c].shown => doing[c].stage \notin Final /\ manner[c] = Manner("direct", "optimistic")

\* What keeps its state in the runtime has started, or failed to, and has ended before the runtime ends:
\* no startup completes, no object is written and no blob is collected with the persistence gone.
RuntimeOutlivesAll ==
  parts["runtime"] # "up" =>
    /\ parts["blobs"] = "down" /\ parts["backend"] = "down" /\ parts["outbox"] \in {"down", "failed"}
    /\ \A c \in Collections : condition[c] = "cleaned-up"

\* A completion that is registered has an outbox that will answer it: nobody registers with one that has ended.
RegisteredIsServed == \A c \in LiveCalls : doing[c].heard = "registered" => parts["outbox"] = "up"

Stuck(c) == doing[c].stage \notin Final /\ doing[c].heard # "late" /\ ~(doing[c].stage = "queued" /\ parts["outbox"] = "up")

\* Whatever is awaited settles, however the start, the calls and the cleanup meet: readiness, calls (also
\* those the outbox took before it was disposed of), cleanup and destruction.
NothingHangs ==
  /\ \A r \in Readers : reading[r].stage \in Final
  /\ \A c \in LiveCalls : ~Stuck(c)
  /\ teardown \in {"none", "done", "failed"} /\ destroying # "asked"
EverythingSettles == []<>NothingHangs
=============================================================================
