--------------------------- MODULE SQLiteOntology ---------------------------
(***************************************************************************)
(* The SQLite ontology adapter with the bytes of its attachments in an     *)
(* external store (R2 under a durable object) or in the database.  An      *)
(* action is applied by an optimistic transaction on the collections, an   *)
(* upload of its attachments under keys of their own, journaled before the *)
(* bytes are written, and one final SQL transaction.  Collectors delete    *)
(* the bytes that nothing links.                                           *)
(***************************************************************************)
EXTENDS Naturals, FiniteSets

CONSTANTS Ids,           \* attachment ids
          Applications,  \* applications of an action, all of them to one object
          Listed,        \* keys on a page of a listing of the store
          Collectors,    \* runs of the orphan collection
          Nothing,       \* no collector, no upload
          Inline,        \* in place of an upload: the bytes are in the database
          Plans          \* what the applications upload, and bounds on what goes wrong

Mishaps == {"crash", "fault", "rush"}
Keys == Ids \X Applications   \* the storage key of an id in the generation of one upload

\* What an instance assumes of its constants.
ASSUME StoreAssumption ==
  /\ Plans \subseteq [uploads : [Applications -> SUBSET Ids], budget : [Mishaps -> Nat]]
  /\ Nothing \notin Collectors \cup Applications /\ Inline \notin Applications /\ Inline # Nothing
  /\ Listed \in Nat \ {0}

VARIABLES
  plan,      \* the plan that is followed
  saved,     \* the object's row: the applications whose effect it holds
  attached,  \* per id: the upload whose bytes its row links, Inline, or Nothing if it has no row
  journal,   \* per key: its row in the journal of uploads and orphans
  progress,  \* per application: what it has done
  collector, \* per collector: the orphans it has left to visit, and the one it deletes
  store,     \* keys with bytes in the external store
  puts,      \* writes to the store that are under way
  deletes,   \* deletions from the store that are under way, with the collector each is for
  status,    \* of the backend: open, or a step of its destruction
  listing,   \* the keys of the page that is being deleted
  late,      \* keys whose write outlived the application, or whose upload was recovered early
  hasty,     \* keys whose claim was recovered while their deletion was under way
  failures   \* how much of each bound is used

database == <<plan, saved, attached, journal>>
contents == <<store, puts, deletes>>
closing == <<status, listing>>
rushed == <<late, hasty>>
storeVars == <<database, progress, collector, contents, closing, rushed, failures>>

NoRow == [state |-> "none", token |-> "none", claim |-> Nothing]
Rows == [state : {"none", "uploading", "pending", "collecting"},
         token : {"none", "upload", "replaced"}, claim : Collectors \cup {Nothing}]
NewTask == [pc |-> "idle", seen |-> {}, external |-> FALSE, left |-> {}]
Resting == [pc |-> "idle", list |-> {}, at |-> {}]

StoreTypeOK ==
  /\ plan \in Plans /\ saved \subseteq Applications
  /\ attached \in [Ids -> Applications \cup {Nothing, Inline}] /\ journal \in [Keys -> Rows]
  /\ progress \in [Applications -> [pc : {"idle", "mutated", "writing", "committed", "failed"},
                                seen : SUBSET Applications, external : BOOLEAN,
                                left : SUBSET Ids]]
  /\ collector \in [Collectors -> [pc : {"idle", "visiting", "deleting"},
                                   list : SUBSET (Keys \X {"upload", "replaced"}),
                                   at : SUBSET Keys]]
  /\ store \subseteq Keys /\ puts \subseteq Keys /\ deletes \subseteq Keys \X Collectors
  /\ late \subseteq Keys /\ hasty \subseteq Keys
  /\ status \in {"open", "closed", "listing", "deleting", "last", "destroyed"}
  /\ listing \subseteq Keys
  /\ failures \in [Mishaps -> Nat]

StoreInit ==
  /\ plan \in Plans /\ saved = {}
  /\ attached = [id \in Ids |-> Nothing] /\ journal = [k \in Keys |-> NoRow]
  /\ progress = [w \in Applications |-> NewTask] /\ collector = [c \in Collectors |-> Resting]
  /\ store = {} /\ puts = {} /\ deletes = {} /\ status = "open" /\ listing = {} /\ late = {}
  /\ hasty = {} /\ failures = [kind \in Mishaps |-> 0]

----------------------------------------------------------------------------
(* What the operations are built from *)

Spend(kind) ==
  /\ failures[kind] < plan.budget[kind] /\ failures' = [failures EXCEPT ![kind] = failures[kind] + 1]

Doomed == status \in {"listing", "deleting", "last", "destroyed"}   \* destruction has begun
KeysOf(w) == plan.uploads[w] \X {w}
Running(w) == progress[w].pc \in {"mutated", "writing"}
Linked(k) == attached[k[1]] = k[2]
Ends(w, pc) == progress' = [progress EXCEPT ![w] = [NewTask EXCEPT !.pc = pc]]

\* What a read of the object gives: its row under the effects of the transactions under way.
Overlaid == saved \cup {w \in Applications : Running(w)}

----------------------------------------------------------------------------
(* Applying an action *)

\* The mutator changes the object as the collection shows it; the change is written back whole.
Mutate(w, external) ==
  /\ status = "open" /\ progress[w].pc = "idle" /\ (external => plan.uploads[w] # {})
  /\ progress' = [progress EXCEPT ![w] =
       [pc |-> "mutated", seen |-> Overlaid \cup {w}, external |-> external, left |-> plan.uploads[w]]]
  /\ UNCHANGED <<database, collector, contents, closing, rushed, failures>>

\* The keys are journaled as uploads in one transaction before any byte is written.
Record(w) ==
  /\ progress[w].pc = "mutated" /\ progress[w].external /\ plan.uploads[w] # {}
  /\ journal' = [k \in Keys |-> IF k \in KeysOf(w)
                                THEN [state |-> "uploading", token |-> "upload", claim |-> Nothing]
                                ELSE journal[k]]
  /\ progress' = [progress EXCEPT ![w].pc = "writing"]
  /\ UNCHANGED <<plan, saved, attached, collector, contents, closing, rushed, failures>>

\* The next attachment is written; a store that was closed rejects the write.
PutBegins(w, id) ==
  /\ progress[w].pc = "writing" /\ id \in progress[w].left /\ KeysOf(w) \cap puts = {}
  /\ IF status = "open"
     THEN puts' = puts \cup {<<id, w>>} /\ UNCHANGED progress
     ELSE Ends(w, "failed") /\ UNCHANGED puts
  /\ UNCHANGED <<database, collector, store, deletes, closing, rushed, failures>>

\* The bytes arrive; the application that waits for them goes on.
PutLands(k) ==
  /\ k \in puts /\ store' = store \cup {k} /\ puts' = puts \ {k}
  /\ progress' = IF Running(k[2]) THEN [progress EXCEPT ![k[2]].left = progress[k[2]].left \ {k[1]}] ELSE progress
  /\ UNCHANGED <<database, collector, deletes, closing, rushed, failures>>

\* A write fails, and the bytes may still arrive.
PutFails(k, arrives) ==
  /\ k \in puts /\ Running(k[2]) /\ Spend("fault")
  /\ Ends(k[2], "failed")
  /\ IF arrives THEN late' = late \cup {k} /\ UNCHANGED puts
     ELSE puts' = puts \ {k} /\ UNCHANGED late
  /\ UNCHANGED <<database, collector, store, deletes, closing, hasty>>

\* Mutant: a key whose upload was replaced or collected is linked.
OwnedByAll(w) == TRUE

\* Every upload of w is in the journal under its own token, and no collector has claimed it.
Owned(w) ==
  \A k \in KeysOf(w) : journal[k].state \in {"uploading", "pending"} /\ journal[k].token = "upload"

Uploaded(w) ==
  \/ /\ progress[w].pc = "writing" /\ progress[w].left = {}
  \/ /\ progress[w].pc = "mutated" /\ (plan.uploads[w] = {} \/ ~progress[w].external)

\* Mutant: only what the transaction changed is written.
WrittenChanges(w) == plan.uploads[w]

\* Objects are written whole, as the transaction changed them.
WrittenBack(w) == progress[w].seen

\* Mutant: the bytes that a new upload replaces are not journaled.
ReplacedUnseen(w) == {}

\* The bytes that the rows written by w linked until now.
Replaced(w) == {k \in Keys : k[1] \in plan.uploads[w] /\ Linked(k) /\ k \notin KeysOf(w)}

\* Completion is published and, with no await between, the final transaction writes the object,
\* links the uploads, journals what they replace and clears their own journal rows.
CommitAction(w) ==
  /\ status # "destroyed" /\ Uploaded(w) /\ (progress[w].external => Owned(w))
  /\ saved' = WrittenBack(w)
  /\ attached' = [id \in Ids |-> IF id \notin plan.uploads[w] THEN attached[id]
                                 ELSE IF progress[w].external THEN w ELSE Inline]
  /\ journal' = [k \in Keys |->
       IF k \in Replaced(w) /\ journal[k].state = "none"
       THEN [state |-> "pending", token |-> "replaced", claim |-> Nothing]
       ELSE IF k \in KeysOf(w) THEN NoRow ELSE journal[k]]
  /\ Ends(w, "committed")
  /\ UNCHANGED <<plan, collector, contents, closing, rushed, failures>>

\* The intent of an upload was replaced before completion, or the tables are gone.
PublishFails(w) ==
  /\ Uploaded(w) /\ ((progress[w].external /\ ~Owned(w)) \/ status = "destroyed") /\ Ends(w, "failed")
  /\ UNCHANGED <<database, collector, contents, closing, rushed, failures>>

\* The final transaction is rolled back after completion was published.
CommitFails(w) ==
  /\ status # "destroyed" /\ Uploaded(w) /\ (progress[w].external => Owned(w)) /\ Spend("fault") /\ Ends(w, "failed")
  /\ journal' = [k \in Keys |->
       IF k \in KeysOf(w) /\ journal[k].state = "uploading"
       THEN [journal[k] EXCEPT !.state = "pending"] ELSE journal[k]]
  /\ UNCHANGED <<plan, saved, attached, collector, contents, closing, rushed>>

\* The process is gone; what it sent to the store may still arrive.
Crash ==
  /\ status # "destroyed" /\ Spend("crash")
  /\ progress' = [w \in Applications |->
       IF Running(w) THEN [NewTask EXCEPT !.pc = "failed"] ELSE progress[w]]
  /\ late' = late \cup {k \in puts : Running(k[2])}
  /\ collector' = [c \in Collectors |-> Resting]
  /\ status' = (IF Doomed THEN "listing" ELSE "open") /\ listing' = {}
  /\ UNCHANGED <<database, contents, hasty>>
----------------------------------------------------------------------------
(* Collecting orphans *)

\* Mutant: the uploads that were given up count as under way for good.
PendingReplaced == {k \in Keys : journal[k].state = "pending" /\ journal[k].token = "replaced"}

PendingKeys == {k \in Keys : journal[k].state = "pending"}

\* A collection reads the orphans that are pending.
Scan(c) ==
  /\ status = "open" /\ collector[c].pc = "idle" /\ PendingKeys # {}
  /\ collector' = [collector EXCEPT ![c] = [pc |-> "visiting", at |-> {}, list |->
       {<<k, journal[k].token>> : k \in PendingKeys}]]
  /\ UNCHANGED <<database, progress, contents, closing, rushed, failures>>

\* Mutant: an orphan is claimed whatever became of it since it was listed.
ClaimableAnyway(c, k, token) == ~Linked(k)

\* The orphan is as it was listed, and nothing links its bytes.
Claimable(c, k, token) ==
  ~Linked(k) /\ journal[k].state = "pending" /\ journal[k].token = token

\* One orphan is visited in one transaction: claimed for deletion, forgotten because it is
\* linked, or left alone.
Visit(c, k, token) ==
  /\ collector[c].pc = "visiting" /\ <<k, token>> \in collector[c].list /\ status = "open"
  /\ journal' = [journal EXCEPT ![k] =
       IF Linked(k) THEN NoRow
       ELSE IF Claimable(c, k, token)
            THEN [journal[k] EXCEPT !.state = "collecting", !.claim = c] ELSE journal[k]]
  /\ collector' = [collector EXCEPT
       ![c].list = collector[c].list \ {<<k, token>>},
       ![c].pc = IF Claimable(c, k, token) THEN "deleting" ELSE "visiting",
       ![c].at = IF Claimable(c, k, token) THEN {k} ELSE {}]
  /\ deletes' = IF Claimable(c, k, token) THEN deletes \cup {<<k, c>>} ELSE deletes
  /\ UNCHANGED <<plan, saved, attached, progress, store, puts, closing, rushed, failures>>

\* The collection is over, or the closed store rejects its next deletion, whose claim it returns.
Leave(c) ==
  /\ collector[c].pc = "visiting" /\ (collector[c].list = {} \/ status # "open")
  /\ collector' = [collector EXCEPT ![c] = Resting]
  /\ UNCHANGED <<database, progress, contents, closing, rushed, failures>>

DeleteLands(k, c) ==
  /\ <<k, c>> \in deletes /\ store' = store \ {k} /\ deletes' = deletes \ {<<k, c>>}
  /\ UNCHANGED <<database, progress, collector, puts, closing, rushed, failures>>

Mine(c, k) == journal[k].claim = c

\* The bytes are gone, and their row goes with them.
DeleteRow(c, k) ==
  /\ collector[c].pc = "deleting" /\ k \in collector[c].at /\ <<k, c>> \notin deletes
  /\ journal' = IF Mine(c, k) THEN [journal EXCEPT ![k] = NoRow] ELSE journal
  /\ collector' = [collector EXCEPT ![c].pc = "visiting", ![c].at = {}]
  /\ UNCHANGED <<plan, saved, attached, progress, contents, closing, rushed, failures>>

\* The deletion fails, with the bytes deleted or not: the orphan is pending again and the
\* collection ends with the error.
DeletionFails(c, k, gone) ==
  /\ collector[c].pc = "deleting" /\ k \in collector[c].at /\ <<k, c>> \in deletes /\ Spend("fault")
  /\ deletes' = deletes \ {<<k, c>>} /\ store' = IF gone THEN store \ {k} ELSE store
  /\ journal' = IF Mine(c, k)
                THEN [journal EXCEPT ![k].state = "pending", ![k].claim = Nothing] ELSE journal
  /\ collector' = [collector EXCEPT ![c] = Resting]
  /\ UNCHANGED <<plan, saved, attached, progress, puts, closing, rushed>>

\* A deletion of the bytes may still take effect, or its collector has not taken note of it.
Deleting(k) == \E c \in Collectors : <<k, c>> \in deletes \/ k \in collector[c].at

\* An upload may still go on.
Slow(k) == Running(k[2]) \/ k \in puts

Requeue(k) ==
  /\ status = "open" /\ journal' = [journal EXCEPT ![k].state = "pending", ![k].claim = Nothing]
  /\ UNCHANGED <<plan, saved, attached, progress, collector, contents, closing>>

\* Claims and uploads from before some time become pending orphans.
RecoverKey(k) ==
  /\ \/ journal[k].state = "collecting" /\ ~Deleting(k)
     \/ journal[k].state = "uploading" /\ ~Slow(k)
  /\ Requeue(k) /\ UNCHANGED <<rushed, failures>>

\* So do those of a deletion or an application that is only slow: nothing but their age is asked for.
RecoverEarly(k) ==
  /\ \/ journal[k].state = "collecting" /\ Deleting(k) /\ hasty' = hasty \cup {k} /\ UNCHANGED late
     \/ journal[k].state = "uploading" /\ Slow(k) /\ late' = late \cup {k} /\ UNCHANGED hasty
  /\ Requeue(k) /\ Spend("rush")

----------------------------------------------------------------------------
(* Closing the backend and destroying what it stored *)

\* The backend is closed: its store takes no more operations.
Close ==
  /\ status = "open" /\ status' = "closed"
  /\ UNCHANGED <<database, progress, collector, contents, listing, rushed, failures>>

\* No operation that the store's process tracks is under way.
StoreSettled == puts \subseteq late /\ \A c \in Collectors : deletes \cap (collector[c].at \X {c}) = {}

BeginDestroy ==
  /\ status = "closed" /\ StoreSettled /\ status' = "listing"
  /\ UNCHANGED <<database, progress, collector, contents, listing, rushed, failures>>

\* Mutant: the deletion of the prefix ends with its first page.
TruncatedNever(keys) == FALSE

Truncated(keys) == keys # store

\* A page of the keys under the prefix is listed.
List(keys) ==
  /\ status = "listing" /\ keys \subseteq store
  /\ Cardinality(keys) = (IF Cardinality(store) < Listed THEN Cardinality(store) ELSE Listed)
  /\ listing' = keys /\ status' = (IF Truncated(keys) THEN "deleting" ELSE "last")
  /\ UNCHANGED <<database, progress, collector, contents, rushed, failures>>

DeletePage ==
  /\ status = "deleting" /\ store' = store \ listing /\ listing' = {} /\ status' = "listing"
  /\ UNCHANGED <<database, progress, collector, puts, deletes, rushed, failures>>

\* The last page is deleted, and then the whole database.
Wipe ==
  /\ status = "last" /\ store' = store \ listing /\ listing' = {} /\ status' = "destroyed"
  /\ saved' = {} /\ attached' = [id \in Ids |-> Nothing] /\ journal' = [k \in Keys |-> NoRow]
  /\ UNCHANGED <<plan, progress, collector, puts, deletes, rushed, failures>>

----------------------------------------------------------------------------
ApplyAction(w) ==
  \/ \E external \in BOOLEAN : Mutate(w, external)
  \/ Record(w) \/ (\E id \in Ids : PutBegins(w, id))
  \/ CommitAction(w) \/ PublishFails(w) \/ CommitFails(w)

Bytes(k) == PutLands(k) \/ (\E arrives \in BOOLEAN : PutFails(k, arrives))
            \/ (\E c \in Collectors : DeleteLands(k, c))

CollectOrphans(c) ==
  \/ Scan(c) \/ Leave(c)
  \/ \E k \in Keys, token \in {"upload", "replaced"} : Visit(c, k, token)
  \/ \E k \in Keys : DeleteRow(c, k) \/ (\E gone \in BOOLEAN : DeletionFails(c, k, gone))

Destroy == Close \/ BeginDestroy \/ (\E keys \in SUBSET Keys : List(keys)) \/ DeletePage \/ Wipe

StoreNext ==
  \/ Crash \/ Destroy
  \/ \E w \in Applications : ApplyAction(w)
  \/ \E k \in Keys : Bytes(k) \/ RecoverKey(k) \/ RecoverEarly(k)
  \/ \E c \in Collectors : CollectOrphans(c)

\* The callers of the collection and of the recovery run them again and again; requests to the
\* store are answered and a process goes on with what it began.
Proceeds(w) == Record(w) \/ (\E id \in Ids : PutBegins(w, id)) \/ CommitAction(w) \/ PublishFails(w)
Answered(k) == PutLands(k) \/ (\E c \in Collectors : DeleteLands(k, c)) \/ RecoverKey(k)
Collects(c) ==
  \/ Scan(c) \/ Leave(c)
  \/ \E k \in Keys : DeleteRow(c, k) \/ \E token \in {"upload", "replaced"} : Visit(c, k, token)

Fairness ==
  /\ WF_storeVars(\E w \in Applications : Proceeds(w)) /\ WF_storeVars(\E k \in Keys : Answered(k))
  /\ \A c \in Collectors : WF_storeVars(Collects(c))

StoreSpec == StoreInit /\ [][StoreNext]_storeVars /\ Fairness

----------------------------------------------------------------------------
(* What must hold *)

\* An attachment row whose bytes are external has them in the store until the whole storage is
\* destroyed, whatever fails, is recovered early or is collected beside it; only an upload that
\* was recovered early may have lost them, to an operation of the store that failed or to a deletion
\* whose claim was recovered early in turn.
LinkedBytesStay ==
  ~Doomed => \A k \in Keys : Linked(k) => k \in store \/ (k \in late /\ (failures["fault"] > 0 \/ k \in hasty))

\* Bytes in the store are linked or found in the journal, so that some collection will meet
\* them; only those that arrive after they were given up may be found by nobody.
BytesHaveOwner ==
  status # "destroyed" => \A k \in store \ late : Linked(k) \/ journal[k].state # "none"

\* When the destruction has ended, nothing is left that a process knew of.
DestroyedIsEmpty == status = "destroyed" => store \subseteq late

\* No two collections delete the bytes of one orphan, unless the claim of the first was recovered early.
OneCollector ==
  \A c, d \in Collectors : c # d => collector[c].at \cap collector[d].at \subseteq hasty

\* The external store and the database agree, whatever fails between them: bytes that are linked
\* stay, bytes that are not have an owner and one collector at most, and destruction leaves none.
StoreMatchesDatabase == LinkedBytesStay /\ BytesHaveOwner /\ OneCollector /\ DestroyedIsEmpty

\* Bytes that nothing links are deleted, as long as the backend stays open.
NoOrphans == status # "open" \/ \A k \in store \ late : Linked(k)
OrphansGo == []<>NoOrphans

\* An application that failed leaves no reference in the object to bytes that it did not attach.
FailedLeavesNoReference ==
  ~Doomed => \A w \in saved : progress[w].pc = "failed" => \A id \in plan.uploads[w] : attached[id] # Nothing
=============================================================================
