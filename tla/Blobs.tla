------------------------------- MODULE Blobs -------------------------------
(***************************************************************************)
(* The blob store of a runtime: metadata records and bytes that no one     *)
(* transaction covers.  The coordination host owns the records and changes *)
(* them in its service lane; every context writes and reads bytes itself.  *)
(* The host of a term first recovers what the last one left behind, then   *)
(* collects garbage until it dies.                                         *)
(***************************************************************************)
EXTENDS Naturals, FiniteSets

CONSTANTS Contexts,    \* browsing contexts, each may become the host
          Blobs,       \* blob ids
          None,        \* no context, no blob
          RemoteOf,    \* the id under which the backend knows a blob
          PageSize,    \* records of one page of candidates
          Settings     \* what contexts do with which blobs, and how often what disrupts it

Kinds == {"ops", "hostCrash", "clientCrash", "timeout", "write", "delete"}
Uses == {"stage", "bind", "read", "metadata"}

\* What an instance assumes of its constants.
ASSUME BlobsAssumption ==
  /\ None \notin Contexts \cup Blobs
  /\ RemoteOf \in [Blobs -> Blobs] /\ \A b \in Blobs : RemoteOf[RemoteOf[b]] = RemoteOf[b]
  /\ Settings \subseteq
       [blobs : SUBSET Blobs, ops : SUBSET Uses, budget : [Kinds -> Nat],
        collects : BOOLEAN,      \* the host collects garbage (gcTime is finite)
        boundFirst : BOOLEAN]    \* a query by remote id meets the bound local record first

VARIABLES
  setting,  \* the setting of this runtime
  record,   \* per id: its metadata record
  bytes,    \* per id: "none", "partial" or "whole" in the byte store
  host,     \* the context that serves the records
  term,     \* of the host: "off", "recovering", "idle", "purging" or "stopped"
  page,     \* ids the recovery or the collection has yet to visit
  active,   \* the write operations begun in this term (activeOperationIds)
  task,     \* the handler of several steps in the lane
  client,   \* per context: what it does and the call or byte operation it awaits
  answer,   \* per context: what it does next, once its call is answered
  known,    \* ids the application has been given
  begun,    \* write operations begun so far
  spent     \* disruptions so far

hosting == <<host, term, page, active, task>>
moving == <<record, bytes, hosting, client, answer, known, begun, spent>>
blobVars == <<setting, moving>>

Locals == {b \in Blobs : RemoteOf[b] # b}
Remotes == Blobs \ Locals

NoOp == [kind |-> "none", status |-> "none", num |-> 0]
Op(kind, status, num) == [kind |-> kind, status |-> status, num |-> num]
Absent == [state |-> "absent", bound |-> FALSE, op |-> NoOp]
NoTask == [kind |-> "none", id |-> None, deleted |-> FALSE, by |-> None]
Idle == [op |-> "none", step |-> "idle", id |-> None, base |-> None, at |-> None,
         ref |-> "absent", found |-> FALSE, got |-> "none", num |-> 0]

CallSteps == {"find", "load", "touch", "merge", "remote", "begin", "commit", "fail", "bind"}

NoAnswer == [Idle EXCEPT !.step = "none"]

States == {"absent", "new", "staged", "persisted", "cached"}
Operations == [kind : {"none", "stage", "cache", "purge"},
               status : {"none", "pending", "failed"}, num : Nat]
Records == [state : States, bound : BOOLEAN, op : Operations]
ClientStates ==
  [op : {"none", "stage", "bind", "read", "metadata", "final"},
   step : CallSteps \cup {"none", "idle", "returned", "bytes", "resolve", "fetch", "write", "writing",
           "apply"},
   id : Blobs \cup {None}, base : Blobs \cup {None}, at : Blobs \cup {None},
   ref : States, found : BOOLEAN, got : {"none", "partial", "whole"}, num : Nat]
Tasks == [kind : {"none", "fail", "recover", "purge"}, id : Blobs \cup {None},
          deleted : BOOLEAN, by : Contexts \cup Blobs \cup {None}]

BlobsTypes ==
  /\ setting \in Settings
  /\ record \in [Blobs -> Records]
  /\ bytes \in [Blobs -> {"none", "partial", "whole"}]
  /\ host \in Contexts \cup {None}
  /\ term \in {"off", "recovering", "idle", "purging", "stopped"}
  /\ page \in SUBSET Blobs /\ active \in SUBSET Nat
  /\ task \in Tasks
  /\ client \in [Contexts -> ClientStates]
  /\ answer \in [Contexts -> ClientStates]
  /\ known \in SUBSET Blobs /\ begun \in Nat /\ spent \in [Kinds -> Nat]

Present(b) == record[b].state # "absent"

RecordsMatch ==
  \A b \in Blobs :
    /\ record[b].op.kind = "none" <=> record[b].op.status = "none"
    /\ record[b].state = "absent" => record[b] = Absent

HostMatches == host = None <=> term = "off"

TaskMatches == task # NoTask => task.id \in Blobs /\ Present(task.id)

BlobsInit ==
  /\ setting \in Settings
  /\ record = [b \in Blobs |-> Absent] /\ bytes = [b \in Blobs |-> "none"]
  /\ host = None /\ term = "off" /\ page = {} /\ active = {} /\ task = NoTask
  /\ client = [c \in Contexts |-> Idle] /\ answer = [c \in Contexts |-> NoAnswer]
  /\ known = Remotes \ {RemoteOf[b] : b \in Locals}
  /\ begun = 0 /\ spent = [d \in Kinds |-> 0]

Disrupt(d) == spent[d] < setting.budget[d] /\ spent' = [spent EXCEPT ![d] = @ + 1]

Pending(b) == record[b].op.status = "pending"
Pulled(state) == state \in {"persisted", "cached"}

\* Records whose remote id is another id: bound local blobs.
Aliases(id) == {b \in Locals : record[b].bound /\ RemoteOf[b] = id}

\* The record a query by local or remote id returns; both may match different records.
Lookup(id) ==
  IF Aliases(id) # {} /\ (setting.boundFirst \/ ~Present(id)) THEN CHOOSE b \in Aliases(id) : TRUE
  ELSE IF Present(id) THEN id ELSE None

----------------------------------------------------------------------------
(* What a context does *)

Become(c, r) == client' = [client EXCEPT ![c] = r]

Ready(c) == client[c].step \in {"idle", "returned"}

\* A staged blob gets a fresh id.
Fresh(b) == b \in Locals \ known /\ ~Present(b) /\ \A c \in Contexts : client[c].id # b

Start(c, op, b) ==
  /\ Ready(c) /\ op \in setting.ops /\ b \in setting.blobs /\ Disrupt("ops")
  /\ IF op = "stage" THEN Fresh(b) ELSE b \in known
  /\ op = "bind" => b \in Locals
  /\ Become(c, [Idle EXCEPT !.op = op, !.id = b, !.base = b, !.at = b,
        !.step = CASE op = "stage" -> "begin" [] op = "bind" -> "apply" [] OTHER -> "find"])
  /\ UNCHANGED <<record, bytes, hosting, answer, known, begun>>

\* The backend stores the blob that an action refers to, and pushes its remote id.
Apply(c) ==
  /\ client[c].step = "apply"
  /\ known' = known \cup {RemoteOf[client[c].id]}
  /\ Become(c, [client[c] EXCEPT !.step = "bind"])
  /\ UNCHANGED <<record, bytes, hosting, answer, begun, spent>>

\* The backend can serve the blob of c: under the remote id of its record, or its own id.
Served(c) ==
  LET k == client[c] IN
  (IF k.ref = "absent" THEN k.id ELSE RemoteOf[k.base]) \in known \cap Remotes

\* The operation of k has succeeded.
Returned(k) == [Idle EXCEPT !.op = k.op, !.id = k.id, !.got = k.got, !.step = "returned"]

\* How an operation goes on once the bytes were read, or turned out to be unavailable.
WithBytes(k) ==
  IF k.op = "read" THEN Returned(k) ELSE [k EXCEPT !.step = "merge"]

WithoutBytes(k) ==
  IF k.op = "metadata"
  THEN IF Pulled(k.ref) \/ k.ref = "absent" THEN [k EXCEPT !.step = "resolve"]
       ELSE [k EXCEPT !.op = "final", !.step = "find"]
  ELSE IF Pulled(k.ref) \/ k.ref = "absent" THEN [k EXCEPT !.step = "fetch"] ELSE Idle

ReadBytes(c) ==
  LET k == client[c] IN
  /\ k.step = "bytes"
  /\ Become(c, IF bytes[k.at] = "none" THEN WithoutBytes(k)
               ELSE IF k.found THEN [k EXCEPT !.got = bytes[k.at], !.step = "touch"]
               ELSE WithBytes([k EXCEPT !.got = bytes[k.at]]))
  /\ UNCHANGED <<record, bytes, hosting, answer, known, begun, spent>>

\* The bytes fetched from the remote source are cached before they are returned.
Fetch(c) ==
  /\ client[c].step = "fetch"
  /\ Become(c, IF Served(c) THEN [client[c] EXCEPT !.step = "begin"] ELSE Idle)
  /\ UNCHANGED <<record, bytes, hosting, answer, known, begun, spent>>

\* Fields that are still missing come from the remote metadata, where there is some, and
\* then from the bytes.
LastResort(k) ==
  IF k.got = "none" THEN [k EXCEPT !.op = "final", !.step = "find"]
  ELSE [k EXCEPT !.op = "final", !.step = "merge"]

Resolve(c) ==
  /\ client[c].step = "resolve"
  /\ \/ Served(c) /\ Become(c, [client[c] EXCEPT !.step = "remote"])
     \/ Become(c, LastResort(client[c]))
  /\ UNCHANGED <<record, bytes, hosting, answer, known, begun, spent>>

\* Opening a file creates an empty one; what it holds is replaced when it is closed.
OpenFile(c) ==
  LET b == client[c].at IN
  /\ client[c].step = "write"
  /\ bytes' = [bytes EXCEPT ![b] = IF @ = "none" THEN "partial" ELSE @]
  /\ Become(c, [client[c] EXCEPT !.step = "writing"])
  /\ UNCHANGED <<record, hosting, answer, known, begun, spent>>

CloseFile(c) ==
  /\ client[c].step = "writing"
  /\ bytes' = [bytes EXCEPT ![client[c].at] = "whole"]
  /\ Become(c, [client[c] EXCEPT !.step = "commit"])
  /\ UNCHANGED <<record, hosting, answer, known, begun, spent>>

\* What a failed write wrote is discarded; a file that it created stays empty.
WriteFails(c) ==
  /\ client[c].step = "writing" /\ Disrupt("write")
  /\ Become(c, [client[c] EXCEPT !.step = "fail"])
  /\ UNCHANGED <<record, bytes, hosting, answer, known, begun>>

\* A write that cannot be committed is failed; any other rejected call fails the operation.
AfterError(k) == IF k.step = "commit" THEN [k EXCEPT !.step = "fail"] ELSE Idle

\* The answer of a call arrives.
Deliver(c) ==
  LET k == answer[c] IN
  /\ k # NoAnswer
  /\ Become(c, k) /\ answer' = [answer EXCEPT ![c] = NoAnswer]
  /\ known' = IF k.op = "stage" /\ k.step = "returned" THEN known \cup {k.id} ELSE known
  /\ UNCHANGED <<record, bytes, hosting, begun, spent>>

\* The caller gives up: the call is cancelled if it still waits for the lane.
TimeOut(c) ==
  /\ client[c].step \in CallSteps /\ Disrupt("timeout")
  /\ Become(c, AfterError(client[c])) /\ answer' = [answer EXCEPT ![c] = NoAnswer]
  /\ UNCHANGED <<record, bytes, hosting, known, begun>>
----------------------------------------------------------------------------
(* Calls of the blob service *)

\* The lane of the host is free for a call; recovery is the first call of a term.
LaneFree == term \in {"idle", "purging"} /\ task = NoTask

\* The call of c is the next in the lane.
Handling(c, step) == LaneFree /\ client[c].step = step /\ answer[c] = NoAnswer

\* The handler persists its change of record b; the answer is on its way to c.
Answer(c, k) == answer' = [answer EXCEPT ![c] = k]
Persist(b, r) == record' = [record EXCEPT ![b] = r]
OnlyAnswers == UNCHANGED <<bytes, hosting, client, known, begun, spent>>

Find(c) ==
  LET k == client[c]  b == Lookup(k.id) IN
  /\ Handling(c, "find")
  /\ Answer(c, [k EXCEPT !.step = "load", !.base = IF b = None THEN k.id ELSE b,
                 !.ref = IF b = None THEN "absent" ELSE record[b].state])
  /\ UNCHANGED record /\ OnlyAnswers

\* The second query, by the byte read: a record that is being written has no bytes to offer.
Load(c) ==
  LET k == client[c]  b == Lookup(k.id) IN
  /\ Handling(c, "load")
  /\ Answer(c,
       IF b # None /\ record[b].op.kind \in {"stage", "cache"} THEN WithoutBytes(k)
       ELSE [k EXCEPT !.step = "bytes", !.at = IF b = None THEN k.id ELSE b,
                      !.found = (b # None)])
  /\ UNCHANGED record /\ OnlyAnswers

Touch(c) ==
  /\ Handling(c, "touch")
  /\ Answer(c, IF Lookup(client[c].at) = None THEN Idle ELSE WithBytes(client[c]))
  /\ UNCHANGED record /\ OnlyAnswers

\* What is left to do once the fields known so far have been written.
Merged(k) ==
  {Returned(k)} \cup
    IF k.op = "metadata" THEN {[k EXCEPT !.step = "resolve"]} ELSE {}

\* Fields read off the bytes: a record that is gone is created without a stable state.
Merge(c) ==
  LET k == client[c] IN
  /\ Handling(c, "merge") /\ \E n \in Merged(k) : Answer(c, n)
  /\ IF Lookup(k.id) = None THEN Persist(k.id, [Absent EXCEPT !.state = "new"])
     ELSE UNCHANGED record
  /\ OnlyAnswers

\* Fields of the remote metadata: the record is created as one the backend knows.
Remote(c) ==
  LET k == client[c] IN
  /\ Handling(c, "remote")
  /\ Answer(c, LastResort(k)) \/ Answer(c, Returned(k))
  /\ IF Lookup(k.id) = None
     THEN Persist(k.id, [Absent EXCEPT !.state = "persisted", !.bound = TRUE])
     ELSE UNCHANGED record
  /\ OnlyAnswers

\* Begin the write of blob c.base: its intent is durable before its bytes change.
Begin(c) ==
  LET k == client[c]
      b == Lookup(k.base)
      to == IF b = None THEN k.base ELSE b
      kind == IF k.op = "stage" THEN "stage" ELSE "cache"
      old == record[to]
  IN
  /\ Handling(c, "begin")
  /\ IF b # None /\ Pending(b)
     THEN Answer(c, Idle) /\ UNCHANGED <<record, begun, active>>
     ELSE /\ begun' = begun + 1 /\ active' = active \cup {begun'}
          /\ Persist(to, [state |-> IF kind = "cache" /\ old.state \in {"absent", "new"}
                                    THEN "persisted"
                                    ELSE IF old.state = "absent" THEN "new" ELSE old.state,
                          bound |-> old.bound \/ (kind = "cache" /\ b = None),
                          op |-> Op(kind, "pending", begun')])
          /\ Answer(c, [k EXCEPT !.step = "write", !.at = to, !.num = begun',
                          !.ref = "absent", !.found = FALSE])
  /\ UNCHANGED <<bytes, host, term, page, task, client, known, spent>>

\* Mutant: the operation id is not compared.
IsSomeWrite(b, k) == b # None /\ record[b].op.kind \in {"stage", "cache"}

\* The operation of k is that of record b, the one its id resolves to.
IsCurrentWrite(b, k) ==
  b # None /\ record[b].op.num = k.num /\ record[b].op.kind \in {"stage", "cache"}

Commit(c) ==
  LET k == client[c]  b == Lookup(k.at) IN
  /\ Handling(c, "commit")
  /\ IF IsCurrentWrite(b, k) /\ Pending(b)
     THEN /\ Persist(b, [record[b] EXCEPT !.op = NoOp,
               !.state = IF record[b].op.kind = "stage" THEN "staged" ELSE "cached"])
          /\ active' = active \ {k.num}
          /\ Answer(c, IF k.op = "stage" THEN Returned(k)
                       ELSE WithBytes([k EXCEPT !.got = "whole"]))
     ELSE Answer(c, [k EXCEPT !.step = "fail"]) /\ UNCHANGED <<record, active>>
  /\ UNCHANGED <<bytes, host, term, page, task, client, known, begun, spent>>

\* Deleting bytes may fail, and then changes nothing.
Deleted(b) == bytes' = [bytes EXCEPT ![b] = "none"] /\ UNCHANGED spent
DeleteFails == Disrupt("delete") /\ UNCHANGED bytes

\* A failed write deletes the bytes it may have left behind, then marks its operation.
Fail(c) ==
  LET k == client[c]  b == Lookup(k.at) IN
  /\ Handling(c, "fail")
  /\ IF IsCurrentWrite(b, k)
     THEN /\ Deleted(b) \/ DeleteFails
          /\ task' = [kind |-> "fail", id |-> b, deleted |-> TRUE, by |-> c]
          /\ UNCHANGED answer
     ELSE Answer(c, Idle) /\ UNCHANGED <<bytes, task, spent>>
  /\ UNCHANGED <<record, host, term, page, active, client, known, begun>>

MarkFailed(b) == Persist(b, [record[b] EXCEPT !.op.status = "failed"])

FailEnds ==
  LET c == task.by IN
  /\ task.kind = "fail"
  /\ MarkFailed(task.id) /\ active' = active \ {record[task.id].op.num} /\ task' = NoTask
  /\ IF client[c].step = "fail" /\ client[c].num = record[task.id].op.num
     THEN Answer(c, Idle) ELSE UNCHANGED answer
  /\ UNCHANGED <<bytes, host, term, page, client, known, begun, spent>>

\* A local blob is stored by the backend from now on.
Bind(c) ==
  LET k == client[c]  b == Lookup(k.id) IN
  /\ Handling(c, "bind")
  /\ IF b = None \/ Pending(b) THEN Answer(c, Idle) /\ UNCHANGED record
     ELSE /\ Persist(b, [state |-> "persisted", bound |-> TRUE, op |-> NoOp])
          /\ Answer(c, Returned(k))
  /\ OnlyAnswers

\* The host's blob service was closed: calls are rejected until there is another host.
Unavailable(c) ==
  /\ term = "stopped" /\ client[c].step \in CallSteps /\ answer[c] = NoAnswer
  /\ Become(c, AfterError(client[c]))
  /\ UNCHANGED <<record, bytes, hosting, answer, known, begun, spent>>

----------------------------------------------------------------------------
(* Leadership, recovery and garbage collection *)

\* The first call of a term is its recovery, which queries the pending operations.
BecomeHost(c) ==
  /\ host = None /\ host' = c /\ term' = "recovering"
  /\ page' = {b \in Blobs : Pending(b)} /\ active' = {} /\ task' = NoTask
  /\ UNCHANGED <<record, bytes, client, answer, known, begun, spent>>

\* The host dies and its page reopens: callers whose answer was lost call the next host.
HostCrash ==
  /\ host # None /\ Disrupt("hostCrash")
  /\ host' = None /\ term' = "off" /\ page' = {} /\ active' = {} /\ task' = NoTask
  /\ Become(host, Idle) /\ answer' = [c \in Contexts |-> NoAnswer]
  /\ UNCHANGED <<record, bytes, known, begun>>

ClientCrash(c) ==
  /\ c # host /\ client[c] # Idle /\ Disrupt("clientCrash")
  /\ Become(c, Idle) /\ answer' = [answer EXCEPT ![c] = NoAnswer]
  /\ UNCHANGED <<record, bytes, hosting, known, begun>>

\* Mutant: recovery looks at the interrupted writes only.
InterruptedWrite(b) == b # None /\ Pending(b) /\ record[b].op.kind # "purge"
\* Mutant: recovery leaves interrupted operations to their writers.
InterruptedNever(b) == FALSE
\* A pending operation of an earlier term; operations begun in this one go on.
Interrupted(b) == b # None /\ Pending(b) /\ record[b].op.num \notin active

\* Recovery visits record i, and passes over what is not interrupted.
RecoverVisits(i) ==
  LET b == Lookup(i) IN
  /\ term = "recovering" /\ task = NoTask /\ i \in page
  /\ IF Interrupted(b)
     THEN /\ \E deleted \in BOOLEAN :
               /\ IF deleted THEN Deleted(b) ELSE DeleteFails
               /\ task' = [kind |-> "recover", id |-> b, deleted |-> deleted, by |-> i]
          /\ UNCHANGED page
     ELSE page' = page \ {i} /\ UNCHANGED <<bytes, task, spent>>
  /\ UNCHANGED <<record, host, term, active, client, answer, known, begun>>

\* An interrupted write has failed; an interrupted purge is completed.
RecoverMarks ==
  /\ task.kind = "recover"
  /\ IF record[task.id].op.kind = "purge" /\ task.deleted THEN Persist(task.id, Absent)
     ELSE MarkFailed(task.id)
  /\ page' = page \ {task.by} /\ task' = NoTask
  /\ UNCHANGED <<bytes, host, term, active, client, answer, known, begun, spent>>

PageEnds ==
  /\ term \in {"recovering", "purging"} /\ page = {} /\ task = NoTask
  /\ term' = "idle"
  /\ UNCHANGED <<record, bytes, host, page, active, task, client, answer, known, begun, spent>>

\* Mutant: the stable state of a candidate is not looked at.
CandidatesOfAnyState == {b \in Blobs : Present(b) /\ record[b].op = NoOp}
Candidates == {b \in Blobs : Pulled(record[b].state) /\ record[b].op = NoOp}

\* Woken by its timer, by a cached blob or by the end of a full page, the host queries the
\* candidates that are old enough; the query does not enter the lane.
Collect ==
  /\ term = "idle" /\ setting.collects
  /\ \E P \in SUBSET Candidates :
       P # {} /\ Cardinality(P) <= PageSize /\ page' = P /\ term' = "purging"
  /\ UNCHANGED <<record, bytes, host, active, task, client, answer, known, begun, spent>>

\* A purge that is rejected ends the collection, and with it the blob service of this host.
Stop == term' = "stopped" /\ page' = {} /\ task' = NoTask /\ active' = {}

Purge(i) ==
  LET b == Lookup(i) IN
  /\ LaneFree /\ i \in page
  /\ IF b = None
     THEN /\ Deleted(i) /\ page' = page \ {i}
          /\ UNCHANGED <<record, term, active, task>>
     ELSE IF Pending(b) THEN Stop /\ UNCHANGED <<record, bytes, spent>>
     ELSE /\ Persist(b, [record[b] EXCEPT !.op = Op("purge", "pending", 0)])
          /\ task' = [kind |-> "purge", id |-> b, deleted |-> FALSE, by |-> i]
          /\ UNCHANGED <<bytes, term, page, active, spent>>
  /\ UNCHANGED <<host, client, answer, known, begun>>

PurgeDeletes ==
  /\ task.kind = "purge" /\ ~task.deleted
  /\ \/ Deleted(task.id) /\ task' = [task EXCEPT !.deleted = TRUE]
        /\ UNCHANGED <<record, term, page, active>>
     \/ DeleteFails /\ MarkFailed(task.id) /\ Stop
  /\ UNCHANGED <<host, client, answer, known, begun>>

\* Mutant: the record is cleared but its operation stays.
PurgeEndsHalfway ==
  /\ task.kind = "purge" /\ task.deleted
  /\ Persist(task.id, [record[task.id] EXCEPT !.state = "absent"])
  /\ page' = page \ {task.by} /\ task' = NoTask
  /\ UNCHANGED <<bytes, host, term, active, client, answer, known, begun, spent>>

PurgeEnds ==
  /\ task.kind = "purge" /\ task.deleted
  /\ Persist(task.id, Absent) /\ page' = page \ {task.by} /\ task' = NoTask
  /\ UNCHANGED <<bytes, host, term, active, client, answer, known, begun, spent>>

----------------------------------------------------------------------------

Handle(c) ==
  \/ Find(c) \/ Load(c) \/ Touch(c) \/ Merge(c) \/ Remote(c)
  \/ Begin(c) \/ Commit(c) \/ Fail(c) \/ Bind(c) \/ Unavailable(c)

Progress(c) ==
  \/ Apply(c) \/ ReadBytes(c) \/ Fetch(c) \/ Resolve(c)
  \/ OpenFile(c) \/ CloseFile(c) \/ Deliver(c)

Recover == RecoverMarks \/ \E i \in Blobs : RecoverVisits(i)

Garbage == PurgeDeletes \/ PurgeEnds \/ \E i \in Blobs : Purge(i)

Step ==
  \/ \E c \in Contexts : Handle(c) \/ Progress(c) \/ BecomeHost(c)
  \/ \E c \in Contexts : WriteFails(c) \/ TimeOut(c) \/ ClientCrash(c)
  \/ \E c \in Contexts, op \in Uses, b \in Blobs : Start(c, op, b)
  \/ HostCrash \/ FailEnds \/ Recover \/ PageEnds \/ Collect \/ Garbage

BlobsNext == Step /\ UNCHANGED setting

BlobsSpec == BlobsInit /\ [][BlobsNext]_blobVars

\* The lane serves every call, the steps of a client and of the host go on, and the lock
\* of a dead host is granted to another context.
HostGoesOn == FailEnds \/ Recover \/ PageEnds \/ Garbage \/ \E c \in Contexts : BecomeHost(c)

BlobsFairSpec ==
  /\ BlobsSpec /\ WF_moving(HostGoesOn)
  /\ SF_moving(\E c \in Contexts : Handle(c)) /\ WF_moving(\E c \in Contexts : Progress(c))

----------------------------------------------------------------------------
(* Properties *)

\* The variables have their types, records and operations are consistent, and the handler
\* in the lane works on a record.
BlobsTypeOK == BlobsTypes /\ RecordsMatch /\ HostMatches /\ TaskMatches

\* Staged and cached records without an operation have their bytes, whoever else was still
\* writing, failing, recovering or purging the blob.
CommittedHasBytes ==
  \A b \in Blobs : record[b].state \in {"staged", "cached"} /\ record[b].op = NoOp
    => bytes[b] = "whole"

\* The only copy of a blob is kept: once its stage returned, its record stays staged with
\* its bytes until the backend has stored it.
OnlyCopyStays ==
  \A b \in Locals : b \in known /\ RemoteOf[b] \notin known
    => record[b].state = "staged" /\ bytes[b] = "whole"

\* Recovery leaves nothing behind: afterwards each pending write was begun in this term,
\* and each pending purge is the one in the lane.  This is so where a query for an id returns
\* the record of that id; where it returns a local record bound to it, recovery misses the other.
NothingLeftPending ==
  \A b \in Blobs : term \in {"idle", "purging"} /\ Pending(b) /\ ~setting.boundFirst
    => record[b].op.num \in active \/ (task.kind = "purge" /\ task.id = b)

\* Records and bytes agree through writes, crashes, recovery and collection: committed records
\* have their bytes, the only copy is kept, and recovery leaves no write pending.
RecordsKeepBytes == CommittedHasBytes /\ OnlyCopyStays /\ NothingLeftPending

\* A pending operation ends: committed, failed, recovered by the next host, or purged.  Only
\* one whose writer died, whose call timed out or whose deletion failed waits for a next host.
\* This is so where nothing is collected: a conflict of the collection stops the host's service.
NothingPends ==
  \/ \A b \in Blobs : record[b].op.status # "pending"
  \/ setting.collects \/ \E kind \in {"clientCrash", "timeout", "delete"} : spent[kind] > 0
PendingSettles == []<>NothingPends
=============================================================================
