----------------------------- MODULE BlobsProofs -----------------------------
(* What holds of the blob store for any contexts, blobs and settings. *)
EXTENDS Blobs, TLAPS

WriteKinds == {"stage", "cache"}
Writing == {"write", "writing", "commit", "fail"}

\* The backend knows blob b, under its own id or the one it was stored under.
Backed(b) == RemoteOf[b] \in known

\* The steps of each kind of operation.
Course ==
  [op \in {"none", "stage", "bind", "read", "metadata", "final"} |->
     CASE op = "none" -> {"none", "idle"}
       [] op = "stage" -> Writing \cup {"begin", "returned"}
       [] op = "bind" -> {"apply", "bind", "returned"}
       [] op = "read" ->
            Writing \cup {"find", "load", "touch", "bytes", "fetch", "begin", "returned"}
       [] op = "metadata" ->
            {"find", "load", "touch", "bytes", "merge", "resolve", "remote", "returned"}
       [] op = "final" ->
            Writing \cup {"find", "load", "touch", "bytes", "fetch", "begin", "merge", "returned"}]

\* What the query for its record told an operation.
Looked(x) ==
  \/ x.step \in {"load", "touch", "bytes", "fetch", "resolve"}
  \/ x.step = "merge" /\ x.op = "metadata"

\* What is so of an operation x, as its context or the answer on its way to it knows it.
Fits(x) ==
  /\ x.step \in Course[x.op] /\ x.num <= begun /\ (x.op = "none" => x.id = None)
  /\ x.step \notin {"none", "idle", "returned"} => x.id \in Blobs /\ x.base \in Blobs /\ x.at \in Blobs
  /\ x.op = "stage" =>
       /\ x.id \in Locals
       /\ x.step # "returned" => x.base = x.id
       /\ x.step \in Writing => x.at = x.id
  /\ Looked(x) => /\ x.base = x.id \/ RemoteOf[x.base] = x.id
                  /\ x.ref = "absent" => x.base = x.id
  /\ x.step = "begin" => x.op = "stage" \/ Backed(x.base)
  /\ x.step \in {"remote", "bind"} => Backed(x.id)
  /\ x.step \in Writing => x.num # 0

\* A record with the number of the write x is the record x writes.
Owns(x) ==
  x.step \in Writing =>
    \A b \in Blobs : record[b].op.kind \in WriteKinds /\ record[b].op.num = x.num =>
      b = x.at /\ (record[b].op.kind = "stage" <=> x.op = "stage")

Views(c) == {client[c], answer[c]}

Operating ==
  /\ \A c \in Contexts : \A x \in Views(c) : Fits(x) /\ Owns(x)
  /\ \A c, d \in Contexts : c # d =>
       \A x \in Views(c), y \in Views(d) : x.num = y.num => x.num = 0

\* An answer is on its way to the call that is waited for.
Answering ==
  \A c \in Contexts : answer[c] # NoAnswer =>
    /\ client[c].step \in CallSteps /\ answer[c].step \notin {"commit", "writing", "apply"}
    /\ answer[c].op # "none" => answer[c].id = client[c].id
    /\ answer[c].op = "stage" => client[c].op = "stage"

\* A blob that is being staged is not known, and nothing else is done with it.
Stages(x) == x.op = "stage" /\ x.step # "returned"

Staging ==
  \A c \in Contexts : Stages(client[c]) =>
    client[c].id \notin known /\ \A d \in Contexts : d # c => client[d].id # client[c].id

\* Numbers of writes are used once, and what was pulled, cached or bound is known to the backend.
Recorded ==
  /\ \A b \in Blobs : IF record[b].op.kind \in WriteKinds THEN record[b].op.num \in 1..begun
                      ELSE record[b].op.num = 0
  /\ \A a, b \in Blobs :
       record[a].op.kind \in WriteKinds /\ record[b].op.kind \in WriteKinds
       /\ record[a].op.num = record[b].op.num => a = b
  /\ \A b \in Blobs : record[b].bound \/ Pulled(record[b].state) \/ record[b].op.kind = "cache"
       => Backed(b)

\* The host's term, and the handler in its lane.
Hosting ==
  /\ term \in {"off", "recovering", "stopped"} => active = {}
  /\ term \in {"off", "stopped"} => task = NoTask
  /\ term \in {"off", "stopped", "idle"} => page = {}
  /\ term = "purging" => \A i \in page : Backed(i)
  /\ task.kind = "none" => task = NoTask
  /\ task.kind = "purge" => term = "purging" /\ record[task.id].op = Op("purge", "pending", 0)
  /\ task.kind = "fail" => /\ task.by \in Contexts /\ term \in {"idle", "purging"}
                           /\ record[task.id].op.kind \in WriteKinds
  /\ task.kind = "recover" =>
       /\ term = "recovering" /\ task.by \in page /\ record[task.id].op.status = "pending"
       /\ \A i \in Blobs : task.by = i => Lookup(i) = task.id

\* Recovery has yet to visit what is pending.
Recovering ==
  term = "recovering" =>
    \A b \in Blobs : Pending(b) /\ (b \in Locals \/ ~setting.boundFirst) => b \in page

\* What is about to be committed has its bytes, or recovery has yet to fail it.
Written ==
  \A c \in Contexts, b \in Blobs :
    /\ client[c].step = "commit" /\ client[c].at = b
    /\ record[b].op.num = client[c].num /\ record[b].op.kind \in WriteKinds /\ Pending(b)
    => \/ bytes[b] = "whole"
       \/ Lookup(b) = b /\ (term = "off" \/ (term = "recovering" /\ b \in page))

\* A blob that only this runtime has is staged, from the moment the stage was committed.
Kept ==
  \A b \in Locals :
    /\ ~Backed(b)
    /\ \/ b \in known
       \/ \E c \in Contexts :
            answer[c].op = "stage" /\ answer[c].step = "returned" /\ answer[c].id = b
    => record[b].state = "staged" /\ record[b].op = NoOp

Inv ==
  /\ BlobsTypeOK /\ Operating /\ Answering /\ Staging /\ Recorded /\ Hosting /\ Recovering
  /\ Written /\ Kept /\ CommittedHasBytes /\ NothingLeftPending

----------------------------------------------------------------------------
(* The record a query returns *)

\* A local blob is bound to no local blob, so the queries for it return its own record.
LEMMA LocalsStandAlone ==
  ASSUME NEW b \in Locals
  PROVE  Aliases(b) = {} /\ RemoteOf[b] # b /\ b \in Blobs
BY BlobsAssumption DEF Locals, Aliases

\* A query returns the record of its id or a local one bound to it, if there is any.
LEMMA LookupCases ==
  ASSUME NEW id \in Blobs
  PROVE  /\ Lookup(id) \in Blobs \cup {None}
         /\ Lookup(id) = None <=> ~Present(id) /\ Aliases(id) = {}
         /\ Lookup(id) # None =>
              \/ Lookup(id) = id /\ Present(id)
              \/ /\ Lookup(id) \in Locals /\ record[Lookup(id)].bound
                 /\ RemoteOf[Lookup(id)] = id /\ Lookup(id) # id /\ RemoteOf[id] = id
<1>1. None \notin Blobs BY BlobsAssumption
<1>2. CASE Aliases(id) # {} /\ (setting.boundFirst \/ ~Present(id))
  <2>1. Lookup(id) = CHOOSE b \in Aliases(id) : TRUE BY <1>2 DEF Lookup
  <2>2. Lookup(id) \in Aliases(id) BY <2>1, <1>2
  <2>3. Lookup(id) \in Locals /\ record[Lookup(id)].bound /\ RemoteOf[Lookup(id)] = id
    BY <2>2 DEF Aliases
  <2>4. Lookup(id) \in Blobs /\ Lookup(id) # id BY <2>3 DEF Locals
  <2>5. RemoteOf[id] = id BY <2>3, <2>4, BlobsAssumption
  <2> QED BY <1>1, <1>2, <2>3, <2>4, <2>5
<1>3. CASE ~(Aliases(id) # {} /\ (setting.boundFirst \/ ~Present(id))) /\ Present(id)
  <2>1. Lookup(id) = id BY <1>3 DEF Lookup
  <2> QED BY <1>1, <1>3, <2>1
<1>4. CASE ~(Aliases(id) # {} /\ (setting.boundFirst \/ ~Present(id))) /\ ~Present(id)
  <2>1. Lookup(id) = None BY <1>4 DEF Lookup
  <2> QED BY <1>1, <1>4, <2>1
<1> QED BY <1>2, <1>3, <1>4

\* When the queries for an id return the record of that id.
LEMMA LooksAtItself ==
  ASSUME NEW id \in Blobs
  PROVE  Lookup(id) = id <=> Present(id) /\ (Aliases(id) = {} \/ ~setting.boundFirst)
<1>1. CASE Aliases(id) # {} /\ (setting.boundFirst \/ ~Present(id))
  <2>1. Lookup(id) = CHOOSE b \in Aliases(id) : TRUE BY <1>1 DEF Lookup
  <2>2. Lookup(id) \in Aliases(id) BY <2>1, <1>1
  <2>3. Lookup(id) # id BY <2>2 DEF Aliases, Locals
  <2> QED BY <1>1, <2>3
<1>2. CASE ~(Aliases(id) # {} /\ (setting.boundFirst \/ ~Present(id)))
  <2>1. None # id BY BlobsAssumption
  <2> QED BY <1>2, <2>1 DEF Lookup
<1> QED BY <1>1, <1>2

\* A query for a local id returns its own record.
LEMMA LookupOfLocal ==
  ASSUME NEW b \in Locals
  PROVE  Lookup(b) = IF Present(b) THEN b ELSE None
BY LocalsStandAlone DEF Lookup

\* A record that a query returns is there, where records without a state are absent ones.
LEMMA LookupFindsRecords ==
  ASSUME BlobsTypeOK, NEW id \in Blobs, Lookup(id) # None
  PROVE  Lookup(id) \in Blobs /\ Present(Lookup(id))
<1>1. RecordsMatch BY DEF BlobsTypeOK
<1>2. CASE Lookup(id) = id /\ Present(id) BY <1>2
<1>3. CASE Lookup(id) \in Locals /\ record[Lookup(id)].bound
  <2>1. Lookup(id) \in Blobs BY <1>3 DEF Locals
  <2>2. ~Absent.bound BY DEF Absent
  <2> QED BY <1>1, <1>3, <2>1, <2>2 DEF RecordsMatch, Present
<1> QED BY <1>1, <1>2, <1>3, LookupCases

\* What the backend knows under one id, it knows under the record's.
LEMMA LookupIsBacked ==
  ASSUME NEW id \in Blobs, Backed(id), Lookup(id) # None
  PROVE  Backed(Lookup(id))
BY LookupCases DEF Backed

----------------------------------------------------------------------------
(* How operations go on *)

\* x goes on with the operation of k, and does not write.
Follows(x, k) ==
  /\ x \in ClientStates /\ Fits(x) /\ x.step \notin Writing \cup {"apply", "begin"}
  /\ x.op # "none" => x.id = k.id
  /\ x.op = "stage" => k.op = "stage" /\ x.step = "returned"
  /\ x.num \in {0, k.num}

\* The courses of the operations, one by one.
LEMMA Courses ==
  /\ Course["none"] = {"none", "idle"}
  /\ Course["stage"] = {"write", "writing", "commit", "fail", "begin", "returned"}
  /\ Course["bind"] = {"apply", "bind", "returned"}
  /\ Course["read"] = {"write", "writing", "commit", "fail", "find", "load", "touch", "bytes", "fetch",
                       "begin", "returned"}
  /\ Course["metadata"] = {"find", "load", "touch", "bytes", "merge", "resolve", "remote", "returned"}
  /\ Course["final"] = {"write", "writing", "commit", "fail", "find", "load", "touch", "bytes", "fetch",
                        "begin", "merge", "returned"}
BY DEF Course, Writing

LEMMA IdleTyped ==
  /\ Idle \in ClientStates /\ NoAnswer \in ClientStates
  /\ Idle.op = "none" /\ Idle.step = "idle" /\ Idle.num = 0 /\ Idle.id = None
  /\ NoAnswer.op = "none" /\ NoAnswer.step = "none" /\ NoAnswer.num = 0 /\ NoAnswer.id = None
<1>1. Idle \in ClientStates BY DEF Idle, ClientStates, States
<1>2. NoAnswer \in ClientStates BY <1>1 DEF NoAnswer, ClientStates
<1> QED BY <1>1, <1>2 DEF Idle, NoAnswer

LEMMA IdleFollows ==
  ASSUME BlobsTypeOK, NEW k \in ClientStates
  PROVE  Follows(Idle, k) /\ Follows(NoAnswer, k)
<1>1. begun \in Nat BY DEF BlobsTypeOK, BlobsTypes
<1> QED BY <1>1, Courses, IdleTyped DEF Follows, Fits, Looked, Writing

LEMMA ReturnedFollows ==
  ASSUME BlobsTypeOK, NEW k \in ClientStates, Fits(k), k.op # "none"
  PROVE  Follows(Returned(k), k) /\ Returned(k).step = "returned" /\ Returned(k).op = k.op
<1>1. begun \in Nat BY DEF BlobsTypeOK, BlobsTypes
<1> DEFINE x == Returned(k)
<1>2. /\ x \in ClientStates /\ x.step = "returned" /\ x.op = k.op /\ x.id = k.id /\ x.num = 0
  <2> DEFINE y == [Idle EXCEPT !.op = k.op, !.id = k.id]
  <2>1. /\ y \in ClientStates /\ y.op = k.op /\ y.id = k.id /\ y.num = 0
    BY IdleTyped DEF ClientStates
  <2>2. x = [y EXCEPT !.got = k.got, !.step = "returned"] BY DEF Returned
  <2> HIDE DEF x, y
  <2>3. k.got \in {"none", "partial", "whole"} BY DEF ClientStates
  <2>4. /\ x \in ClientStates /\ x.step = "returned" /\ x.op = y.op /\ x.id = y.id /\ x.num = y.num
    BY <2>1, <2>2, <2>3 DEF ClientStates
  <2> QED BY <2>1, <2>4
<1> HIDE DEF x
<1>3. k.op \in {"stage", "bind", "read", "metadata", "final"} BY DEF ClientStates
<1>4. x.step \in Course[x.op] BY <1>2, <1>3, Courses
<1>5. Fits(x) BY <1>1, <1>2, <1>4 DEF Fits, Looked, Writing
<1> QED BY <1>2, <1>5 DEF Follows, x, Writing

LEMMA WithBytesFollows ==
  ASSUME BlobsTypeOK, NEW k \in ClientStates, Fits(k), k.op \in {"read", "metadata", "final"},
         k.op = "metadata" => Looked(k), k.step \notin {"none", "idle", "returned"},
         NEW g \in {"none", "partial", "whole"}
  PROVE  Follows(WithBytes([k EXCEPT !.got = g]), k)
<1> DEFINE r == [k EXCEPT !.got = g]
<1>1. /\ r \in ClientStates /\ r.op = k.op /\ r.id = k.id /\ r.base = k.base /\ r.at = k.at
      /\ r.step = k.step /\ r.num = k.num /\ r.ref = k.ref
  BY DEF ClientStates
<1> HIDE DEF r
<1>2. Fits(r) BY <1>1 DEF Fits, Looked
<1>3. CASE r.op = "read"
  <2>1. WithBytes(r) = Returned(r) BY <1>3 DEF WithBytes
  <2>2. Follows(Returned(r), r) BY <1>1, <1>2, <1>3, ReturnedFollows
  <2> QED BY <2>1, <2>2, <1>1, <1>3 DEF Follows, r
<1>4. CASE r.op \in {"metadata", "final"}
  <2> DEFINE x == [r EXCEPT !.step = "merge"]
  <2>1. /\ x \in ClientStates /\ x.op = r.op /\ x.id = r.id /\ x.base = r.base /\ x.at = r.at
        /\ x.step = "merge" /\ x.num = r.num /\ x.ref = r.ref
    BY <1>1 DEF ClientStates, CallSteps
  <2>2. WithBytes(r) = x BY <1>4 DEF WithBytes
  <2> HIDE DEF x
  <2>3. x.step \in Course[x.op] BY <1>4, <2>1, Courses
  <2>4. Fits(x) BY <1>1, <1>2, <1>4, <2>1, <2>3 DEF Fits, Looked, Writing
  <2> QED BY <1>1, <1>4, <2>1, <2>2, <2>4 DEF Follows, Writing, r
<1> QED BY <1>1, <1>3, <1>4

LEMMA FinalSteps ==
  ASSUME NEW k \in ClientStates, NEW s \in {"find", "merge"}
  PROVE  LET x == [k EXCEPT !.op = "final", !.step = s]
         IN  /\ x \in ClientStates /\ x.op = "final" /\ x.id = k.id /\ x.base = k.base /\ x.at = k.at
             /\ x.step = s /\ x.num = k.num /\ x.ref = k.ref
<1> DEFINE y == [k EXCEPT !.op = "final"]
           x == [k EXCEPT !.op = "final", !.step = s]
<1>1. /\ y \in ClientStates /\ y.op = "final" /\ y.id = k.id /\ y.base = k.base /\ y.at = k.at
      /\ y.num = k.num /\ y.ref = k.ref
  BY DEF ClientStates
<1>2. x = [y EXCEPT !.step = s] OBVIOUS
<1> HIDE DEF x, y
<1>3. s \in CallSteps BY DEF CallSteps
<1>4. /\ x \in ClientStates /\ x.op = y.op /\ x.id = y.id /\ x.base = y.base /\ x.at = y.at
      /\ x.step = s /\ x.num = y.num /\ x.ref = y.ref
  BY <1>1, <1>2, <1>3 DEF ClientStates
<1> QED BY <1>1, <1>4 DEF x

LEMMA WithoutBytesFollows ==
  ASSUME BlobsTypeOK, NEW k \in ClientStates, Fits(k), k.step \in {"load", "bytes"}
  PROVE  Follows(WithoutBytes(k), k)
<1>1. k.op \in {"read", "metadata", "final"} BY Courses DEF Fits, ClientStates
<1>2. Follows(Idle, k) BY IdleFollows
<1>3. CASE k.op = "metadata" /\ (Pulled(k.ref) \/ k.ref = "absent")
  <2> DEFINE x == [k EXCEPT !.step = "resolve"]
  <2>1. /\ x \in ClientStates /\ x.op = k.op /\ x.id = k.id /\ x.base = k.base /\ x.at = k.at
        /\ x.step = "resolve" /\ x.num = k.num /\ x.ref = k.ref
    BY DEF ClientStates, CallSteps
  <2>2. WithoutBytes(k) = x BY <1>3 DEF WithoutBytes
  <2> HIDE DEF x
  <2>3. x.step \in Course[x.op] BY <1>3, <2>1, Courses
  <2>4. Fits(x) BY <1>3, <2>1, <2>3 DEF Fits, Looked, Writing
  <2> QED BY <1>3, <2>1, <2>2, <2>4 DEF Follows, Writing
<1>4. CASE k.op = "metadata" /\ ~(Pulled(k.ref) \/ k.ref = "absent")
  <2> DEFINE x == [k EXCEPT !.op = "final", !.step = "find"]
  <2>1. /\ x \in ClientStates /\ x.op = "final" /\ x.id = k.id /\ x.base = k.base /\ x.at = k.at
        /\ x.step = "find" /\ x.num = k.num /\ x.ref = k.ref
    BY FinalSteps
  <2>2. WithoutBytes(k) = x BY <1>4 DEF WithoutBytes
  <2> HIDE DEF x
  <2>3. x.step \in Course[x.op] BY <2>1, Courses
  <2>4. Fits(x) BY <2>1, <2>3 DEF Fits, Looked, Writing
  <2> QED BY <2>1, <2>2, <2>4 DEF Follows, Writing
<1>5. CASE k.op \in {"read", "final"} /\ (Pulled(k.ref) \/ k.ref = "absent")
  <2> DEFINE x == [k EXCEPT !.step = "fetch"]
  <2>1. /\ x \in ClientStates /\ x.op = k.op /\ x.id = k.id /\ x.base = k.base /\ x.at = k.at
        /\ x.step = "fetch" /\ x.num = k.num /\ x.ref = k.ref
    BY DEF ClientStates, CallSteps
  <2>2. WithoutBytes(k) = x BY <1>5 DEF WithoutBytes
  <2> HIDE DEF x
  <2>3. x.step \in Course[x.op] BY <1>5, <2>1, Courses
  <2>4. Fits(x) BY <1>5, <2>1, <2>3 DEF Fits, Looked, Writing
  <2> QED BY <1>5, <2>1, <2>2, <2>4 DEF Follows, Writing
<1>6. CASE k.op \in {"read", "final"} /\ ~(Pulled(k.ref) \/ k.ref = "absent")
  <2>1. WithoutBytes(k) = Idle BY <1>6 DEF WithoutBytes
  <2> QED BY <1>2, <2>1
<1> QED BY <1>1, <1>3, <1>4, <1>5, <1>6

LEMMA LastResortFollows ==
  ASSUME BlobsTypeOK, NEW k \in ClientStates, Fits(k), k.step \in {"resolve", "remote"}
  PROVE  Follows(LastResort(k), k)
<1>1. k.op = "metadata" BY Courses DEF Fits, ClientStates
<1>2. PICK s \in {"find", "merge"} : LastResort(k) = [k EXCEPT !.op = "final", !.step = s]
  BY DEF LastResort
<1> DEFINE x == [k EXCEPT !.op = "final", !.step = s]
<1>3. /\ x \in ClientStates /\ x.op = "final" /\ x.id = k.id /\ x.base = k.base /\ x.at = k.at
      /\ x.step = s /\ x.num = k.num /\ x.ref = k.ref
  BY FinalSteps
<1>4. LastResort(k) = x BY <1>2
<1> HIDE DEF x
<1>5. x.step \in Course[x.op] BY <1>3, Courses
<1>6. Fits(x) BY <1>3, <1>5 DEF Fits, Looked, Writing
<1> QED BY <1>3, <1>4, <1>6 DEF Follows, Writing

----------------------------------------------------------------------------
(* Steps of a context: the records and the host stay *)

\* What is so of an operation stays so while more is known and begun.
LEMMA FitsOn ==
  ASSUME NEW x, x.num \in Nat, Fits(x), known \subseteq known', begun \in Nat, begun' \in Nat, begun <= begun'
  PROVE  Fits(x)'
<1>1. \A b \in Blobs : Backed(b) => Backed(b)' BY DEF Backed
<1>2. x.num <= begun' BY DEF Fits
<1>3. x.step = "begin" => x.op = "stage" \/ Backed(x.base)' BY DEF Fits, Backed
<1>4. x.step \in {"remote", "bind"} => Backed(x.id)' BY DEF Fits, Backed
<1> QED BY <1>2, <1>3, <1>4 DEF Fits

\* Context c turns to x: no blob that another one stages is touched, or becomes known.
Apart(c, x) ==
  /\ Stages(x) => x.id \notin known' /\ \A d \in Contexts : d # c => client[d].id # x.id
  /\ \A d \in Contexts : d # c /\ Stages(client[d]) => client[d].id \notin known' /\ x.id # client[d].id

Moves(c, x) ==
  /\ x \in ClientStates
  /\ client' = [client EXCEPT ![c] = x] /\ answer' = [answer EXCEPT ![c] = NoAnswer]
  /\ UNCHANGED <<setting, record, hosting, begun>>
  /\ bytes' \in [Blobs -> {"none", "partial", "whole"}]
  /\ \A b \in Blobs : bytes[b] = "whole" => bytes'[b] = "whole"
  /\ known \subseteq known' /\ known' \in SUBSET Blobs /\ spent' \in [Kinds -> Nat]
  /\ x.num \in {0, client[c].num, answer[c].num}
  /\ x.step = "commit" => bytes'[x.at] = "whole"
  /\ \A b \in Locals : b \in known' \ known =>
       answer[c].op = "stage" /\ answer[c].step = "returned" /\ answer[c].id = b

\* The invariant stays when a context turns to an operation that fits.
LEMMA MovesKeep ==
  ASSUME Inv, NEW c \in Contexts, NEW x, Moves(c, x), Fits(x)', Owns(x), Apart(c, x)
  PROVE  Inv'
<1>1. /\ client \in [Contexts -> ClientStates] /\ answer \in [Contexts -> ClientStates] /\ begun \in Nat
      /\ record \in [Blobs -> Records]
  BY DEF Inv, BlobsTypeOK, BlobsTypes
<1>2. /\ client'[c] = x /\ \A d \in Contexts : d # c => client'[d] = client[d]
      /\ answer'[c] = NoAnswer /\ \A d \in Contexts : d # c => answer'[d] = answer[d]
      /\ client' \in [Contexts -> ClientStates] /\ answer' \in [Contexts -> ClientStates]
  BY <1>1, IdleTyped DEF Moves
<1>3. \A b \in Blobs : Backed(b) => Backed(b)' BY DEF Backed, Moves
<1>4. \A b \in Blobs : Pending(b)' = Pending(b) /\ Lookup(b)' = Lookup(b)
  BY DEF Moves, Pending, Lookup, Present, Aliases
<1>5. BlobsTypeOK'
  <2>1. BlobsTypes' BY <1>2 DEF Inv, BlobsTypeOK, BlobsTypes, Moves, hosting
  <2>2. RecordsMatch' /\ HostMatches' /\ TaskMatches'
    BY DEF Inv, BlobsTypeOK, RecordsMatch, HostMatches, TaskMatches, Moves, hosting, Present
  <2> QED BY <2>1, <2>2 DEF Inv, BlobsTypeOK
<1>6. Operating'
  <2>1. ASSUME NEW d \in Contexts PROVE \A y \in Views(d)' : y = x \/ y = NoAnswer \/ (y \in Views(d) /\ y # NoAnswer)
    BY <1>2 DEF Views
  <2>2. ASSUME NEW d \in Contexts, NEW y \in Views(d)' PROVE Fits(y)' /\ Owns(y)'
    <3>1. CASE y = x BY <3>1 DEF Moves, Owns
    <3>2. CASE y = NoAnswer
      <4>1. Fits(NoAnswer) BY IdleFollows, IdleTyped DEF Inv, Follows
      <4>2. Fits(y)' BY <1>1, <3>2, <4>1, FitsOn, IdleTyped DEF Moves
      <4> QED BY <3>2, <4>2, IdleTyped DEF Owns, Writing
    <3>3. CASE y \in Views(d)
      <4>1. Fits(y) /\ Owns(y) BY <3>3 DEF Inv, Operating
      <4>2. y.num \in Nat BY <1>1, <3>3 DEF Views, ClientStates
      <4>3. Fits(y)' BY <1>1, <4>1, <4>2, FitsOn DEF Moves
      <4> QED BY <4>1, <4>3 DEF Owns, Moves
    <3> QED BY <2>1, <3>1, <3>2, <3>3
  <2>3. ASSUME NEW d \in Contexts, NEW e \in Contexts, d # e, NEW y \in Views(d)', NEW z \in Views(e)', y.num = z.num
        PROVE  y.num = 0
    <3>1. \A f \in Contexts : \A w \in Views(f)' : w.num = 0 \/ \E v \in Views(f) : v.num = w.num
      <4> SUFFICES ASSUME NEW f \in Contexts, NEW w \in Views(f)'
                   PROVE  w.num = 0 \/ \E v \in Views(f) : v.num = w.num
        OBVIOUS
      <4>1. CASE f = c BY <1>2, <4>1, IdleTyped DEF Views, Moves
      <4>2. CASE f # c BY <1>2, <4>2 DEF Views
      <4> QED BY <4>1, <4>2
    <3>2. y.num = 0 \/ \E v \in Views(d) : v.num = y.num BY <3>1
    <3>3. z.num = 0 \/ \E v \in Views(e) : v.num = z.num BY <3>1
    <3> QED BY <2>3, <3>2, <3>3 DEF Inv, Operating
  <2> QED BY <2>2, <2>3 DEF Operating
<1>7. Answering'
  <2> SUFFICES ASSUME NEW d \in Contexts, answer'[d] # NoAnswer
               PROVE  /\ client'[d].step \in CallSteps /\ answer'[d].step \notin {"commit", "writing", "apply"}
                      /\ answer'[d].op # "none" => answer'[d].id = client'[d].id
                      /\ answer'[d].op = "stage" => client'[d].op = "stage"
    BY DEF Answering
  <2>1. d # c BY <1>2
  <2> QED BY <1>2, <2>1 DEF Inv, Answering
<1>8. Staging'
  <2> SUFFICES ASSUME NEW d \in Contexts, Stages(client'[d])
               PROVE  client'[d].id \notin known' /\ \A e \in Contexts : e # d => client'[e].id # client'[d].id
    BY DEF Staging, Stages
  <2>1. CASE d = c BY <1>2, <2>1 DEF Apart
  <2>2. CASE d # c BY <1>2, <2>2 DEF Apart, Inv, Staging
  <2> QED BY <2>1, <2>2
<1>9. Recorded' BY <1>3 DEF Inv, Recorded, Moves
<1>10. Hosting'
  <2>1. term = "purging" => \A i \in page : Backed(i)' BY <1>1, <1>3 DEF Inv, Hosting, BlobsTypeOK, BlobsTypes
  <2>2. task.kind = "recover" => task.by \in Blobs BY DEF Inv, Hosting, BlobsTypeOK, BlobsTypes
  <2> QED BY <1>4, <2>1, <2>2 DEF Inv, Hosting, Moves, hosting, Pending
<1>11. Recovering' BY <1>4 DEF Inv, Recovering, Moves, hosting
<1>12. Written'
  <2> SUFFICES ASSUME NEW d \in Contexts, NEW b \in Blobs, client'[d].step = "commit", client'[d].at = b,
                      record'[b].op.num = client'[d].num, record'[b].op.kind \in WriteKinds, Pending(b)'
               PROVE  \/ bytes'[b] = "whole"
                      \/ Lookup(b)' = b /\ (term' = "off" \/ (term' = "recovering" /\ b \in page'))
    BY DEF Written
  <2>1. CASE d = c BY <1>2, <2>1 DEF Moves
  <2>2. CASE d # c
    <3>1. client'[d] = client[d] BY <1>2, <2>2
    <3>2. \/ bytes[b] = "whole"
          \/ Lookup(b) = b /\ (term = "off" \/ (term = "recovering" /\ b \in page))
      BY <1>4, <3>1 DEF Inv, Written, Moves
    <3> QED BY <1>4, <3>2 DEF Moves, hosting
  <2> QED BY <2>1, <2>2
<1>13. Kept'
  <2> SUFFICES ASSUME NEW b \in Locals, ~Backed(b)',
                      \/ b \in known'
                      \/ \E d \in Contexts :
                           answer'[d].op = "stage" /\ answer'[d].step = "returned" /\ answer'[d].id = b
               PROVE  record'[b].state = "staged" /\ record'[b].op = NoOp
    BY DEF Kept
  <2>1. ~Backed(b) BY <1>3 DEF Locals
  <2>2. \/ b \in known
        \/ \E d \in Contexts :
             answer[d].op = "stage" /\ answer[d].step = "returned" /\ answer[d].id = b
    BY <1>2, IdleTyped DEF Moves
  <2> QED BY <2>1, <2>2 DEF Inv, Kept, Moves
<1>14. CommittedHasBytes' BY DEF Inv, CommittedHasBytes, Moves
<1>15. NothingLeftPending' BY <1>4 DEF Inv, NothingLeftPending, Moves, hosting
<1> QED BY <1>5, <1>6, <1>7, <1>8, <1>9, <1>10, <1>11, <1>12, <1>13, <1>14, <1>15 DEF Inv

LEMMA NoTaskTyped == NoTask.kind = "none" /\ NoTask \in Tasks
BY DEF NoTask, Tasks

\* What the steps of a context and of the lane need of the types.
LEMMA Members ==
  ASSUME Inv
  PROVE  /\ client \in [Contexts -> ClientStates] /\ answer \in [Contexts -> ClientStates]
         /\ record \in [Blobs -> Records] /\ bytes \in [Blobs -> {"none", "partial", "whole"}]
         /\ known \in SUBSET Blobs /\ begun \in Nat /\ spent \in [Kinds -> Nat]
         /\ BlobsTypeOK /\ \A c \in Contexts : Fits(client[c]) /\ Owns(client[c])
BY DEF Inv, BlobsTypeOK, BlobsTypes, Operating, Views

\* A context that awaits no call has no answer on its way.
LEMMA NoStrayAnswer ==
  ASSUME Inv, NEW c \in Contexts, client[c].step \notin CallSteps
  PROVE  answer[c] = NoAnswer /\ answer = [answer EXCEPT ![c] = NoAnswer]
<1>1. answer[c] = NoAnswer BY DEF Inv, Answering
<1> QED BY <1>1, Members

LEMMA DisruptCounts ==
  ASSUME Inv, NEW d \in Kinds, Disrupt(d)
  PROVE  spent' \in [Kinds -> Nat]
BY Members DEF Disrupt

\* An operation that ends or goes on for the same blob stays apart from what others stage.
LEMMA GoesApart ==
  ASSUME Inv, NEW c \in Contexts, NEW x,
         \/ x.op = "none" /\ x.id = None
         \/ x.id = client[c].id /\ (Stages(x) => Stages(client[c])),
         known' \cap Locals \subseteq known
  PROVE  Apart(c, x)
<1>1. ASSUME NEW d \in Contexts, Stages(client[d])
      PROVE  /\ client[d].id \in Locals /\ client[d].id \notin known' /\ client[d].id # None
             /\ \A e \in Contexts : e # d => client[e].id # client[d].id
  <2>1. client[d].id \in Locals BY <1>1, Members DEF Fits, Stages
  <2>2. client[d].id # None BY <2>1, Members, BlobsAssumption DEF Locals
  <2> QED BY <1>1, <2>1, <2>2 DEF Inv, Staging
<1>2. CASE x.op = "none" /\ x.id = None BY <1>1, <1>2 DEF Apart, Stages
<1>3. CASE x.id = client[c].id /\ (Stages(x) => Stages(client[c])) BY <1>1, <1>3 DEF Apart
<1> QED BY <1>2, <1>3

\* A context goes on without writing.
LEMMA FollowingKeeps ==
  ASSUME Inv, NEW c \in Contexts, NEW x, Follows(x, client[c]), Moves(c, x), known' \cap Locals \subseteq known
  PROVE  Inv'
<1>1. x.num \in Nat BY DEF Follows, ClientStates
<1>2. Fits(x) BY DEF Follows
<1>3. begun \in Nat /\ begun' \in Nat /\ begun <= begun' /\ known \subseteq known' BY Members DEF Moves
<1>4. Fits(x)' BY <1>1, <1>2, <1>3, FitsOn
<1>5. Owns(x) BY DEF Follows, Owns
<1>6. Apart(c, x)
  <2>1. ~Stages(x) BY DEF Follows, Stages
  <2>2. x.op = "none" => x.id = None BY <1>2 DEF Fits
  <2> QED BY <2>1, <2>2, GoesApart DEF Follows
<1> QED BY <1>4, <1>5, <1>6, MovesKeep

\* A context turns to x, and nothing else changes but what it has spent.
LEMMA MovesAlone ==
  ASSUME Inv, NEW c \in Contexts, NEW x, Follows(x, client[c]),
         client' = [client EXCEPT ![c] = x], answer' = [answer EXCEPT ![c] = NoAnswer],
         UNCHANGED <<setting, record, bytes, hosting, known, begun>>, spent' \in [Kinds -> Nat]
  PROVE  Inv'
<1>1. x.step # "commit" /\ x.num \in {0, client[c].num} /\ x \in ClientStates BY DEF Follows, Writing
<1>2. Moves(c, x) BY <1>1, Members DEF Moves
<1> QED BY <1>2, FollowingKeeps

\* The write of a context goes on.
LEMMA WritingOn ==
  ASSUME Inv, NEW c \in Contexts, client[c].step \in Writing, NEW s \in Writing, NEW x,
         x = [client[c] EXCEPT !.step = s]
  PROVE  /\ x \in ClientStates /\ Fits(x) /\ Owns(x) /\ x.op = client[c].op /\ x.id = client[c].id
         /\ x.at = client[c].at /\ x.at \in Blobs /\ x.num = client[c].num /\ x.step = s
         /\ (Stages(x) <=> Stages(client[c]))
<1> DEFINE k == client[c]
<1>1. k \in ClientStates /\ Fits(k) /\ Owns(k) BY Members
<1>2. /\ x \in ClientStates /\ x.op = k.op /\ x.id = k.id /\ x.base = k.base /\ x.at = k.at
      /\ x.num = k.num /\ x.step = s /\ x.ref = k.ref
  BY <1>1 DEF ClientStates, Writing, CallSteps
<1> HIDE DEF k
<1>3. k.step \in Writing BY DEF k
<1>4. x.step \in Course[x.op] BY <1>1, <1>2, <1>3, Courses DEF Fits, Writing, ClientStates
<1>5. Fits(x) BY <1>1, <1>2, <1>3, <1>4 DEF Fits, Looked, Writing
<1>6. x.at \in Blobs BY <1>1, <1>2, <1>3 DEF Fits, Writing
<1>7. Owns(x) BY <1>1, <1>2, <1>3 DEF Owns
<1>8. Stages(x) <=> Stages(k) BY <1>2, <1>3 DEF Stages, Writing
<1> QED BY <1>2, <1>5, <1>6, <1>7, <1>8 DEF k

LEMMA WriteMovesOn ==
  ASSUME Inv, NEW c \in Contexts, client[c].step \in Writing, NEW s \in Writing, NEW x,
         x = [client[c] EXCEPT !.step = s], Moves(c, x), known' = known
  PROVE  Inv'
<1>1. x \in ClientStates /\ Fits(x) /\ Owns(x) /\ x.id = client[c].id /\ (Stages(x) <=> Stages(client[c]))
  BY WritingOn
<1>2. x.num \in Nat /\ begun \in Nat /\ begun' \in Nat /\ begun <= begun' /\ known \subseteq known'
  BY <1>1, Members DEF ClientStates, Moves
<1>3. Fits(x)' BY <1>1, <1>2, FitsOn
<1>4. Apart(c, x) BY <1>1, GoesApart
<1> QED BY <1>1, <1>3, <1>4, MovesKeep

LEMMA StartKeeps ==
  ASSUME Inv, NEW c \in Contexts, NEW op \in Uses, NEW b \in Blobs, Start(c, op, b), UNCHANGED setting
  PROVE  Inv'
<1> SUFFICES ASSUME NEW s, s = (CASE op = "stage" -> "begin" [] op = "bind" -> "apply" [] OTHER -> "find"),
                    NEW x, x = [Idle EXCEPT !.op = op, !.id = b, !.base = b, !.at = b, !.step = s]
             PROVE  Inv'
  OBVIOUS
<1>1. /\ Ready(c) /\ spent' \in [Kinds -> Nat] /\ client' = [client EXCEPT ![c] = x]
      /\ UNCHANGED <<record, bytes, hosting, answer, known, begun, setting>>
      /\ IF op = "stage" THEN Fresh(b) ELSE b \in known
      /\ op = "bind" => b \in Locals
  BY DisruptCounts DEF Start, Become, Kinds
<1>2. s \in {"begin", "apply", "find"} /\ (s = "begin" <=> op = "stage") /\ (s = "apply" <=> op = "bind")
  BY DEF Uses
<1>3. /\ x \in ClientStates /\ x.op = op /\ x.id = b /\ x.base = b /\ x.at = b /\ x.step = s /\ x.num = 0
  BY <1>2, IdleTyped DEF ClientStates, Uses, CallSteps
<1>4. x.step \in Course[x.op] BY <1>2, <1>3, Courses DEF Uses
<1>5. op = "stage" => b \in Locals BY <1>1 DEF Fresh
<1>6. Fits(x) BY <1>2, <1>3, <1>4, <1>5, Members DEF Fits, Looked, Writing, Uses
<1>7. Fits(x)'
  <2>1. known \subseteq known' /\ begun \in Nat /\ begun' \in Nat /\ begun <= begun' /\ x.num \in Nat BY <1>1, <1>3, Members
  <2> QED BY <1>6, <2>1, FitsOn
<1>8. Owns(x) BY <1>2, <1>3 DEF Owns, Writing
<1>9. answer' = [answer EXCEPT ![c] = NoAnswer]
  <2>1. client[c].step \notin CallSteps BY <1>1 DEF Ready, CallSteps
  <2> QED BY <1>1, <2>1, NoStrayAnswer
<1>10. Apart(c, x)
  <2>1. op = "stage" => b \notin known' /\ \A d \in Contexts : client[d].id # b BY <1>1 DEF Fresh
  <2>2. op # "stage" => b \in known BY <1>1
  <2>3. ASSUME NEW d \in Contexts, Stages(client[d]) PROVE client[d].id \notin known' /\ b # client[d].id
    <3>1. client[d].id \notin known' BY <1>1, <2>3 DEF Inv, Staging
    <3> QED BY <1>1, <2>1, <2>2, <3>1
  <2> QED BY <1>3, <2>1, <2>3 DEF Apart, Stages
<1>11. Moves(c, x)
  <2>1. x.step # "commit" BY <1>2, <1>3
  <2> QED BY <1>1, <1>3, <1>9, <2>1, Members DEF Moves
<1> QED BY <1>7, <1>8, <1>10, <1>11, MovesKeep

LEMMA ApplyKeeps ==
  ASSUME Inv, NEW c \in Contexts, Apply(c), UNCHANGED setting
  PROVE  Inv'
<1> SUFFICES ASSUME NEW x, x = [client[c] EXCEPT !.step = "bind"], NEW k, k = client[c]
             PROVE  Inv'
  OBVIOUS
<1>1. /\ k.step = "apply" /\ k \in ClientStates /\ Fits(k) /\ known' = known \cup {RemoteOf[k.id]}
      /\ client' = [client EXCEPT ![c] = x]
      /\ UNCHANGED <<record, bytes, hosting, answer, begun, spent, setting>>
  BY Members DEF Apply, Become
<1>2. k.op = "bind" /\ k.id \in Blobs BY <1>1, Courses DEF Fits, ClientStates
<1>3. /\ x \in ClientStates /\ x.op = k.op /\ x.id = k.id /\ x.base = k.base /\ x.at = k.at
      /\ x.num = k.num /\ x.step = "bind" /\ x.ref = k.ref
  BY <1>1 DEF ClientStates, CallSteps
<1>4. /\ RemoteOf[k.id] \in Blobs /\ RemoteOf[k.id] \notin Locals /\ known \subseteq known'
      /\ RemoteOf[k.id] \in known' /\ known' \in SUBSET Blobs
  BY <1>1, <1>2, Members, BlobsAssumption DEF Locals
<1>5. Fits(x)'
  <2>1. x.step \in Course[x.op] BY <1>2, <1>3, Courses
  <2>2. RemoteOf[x.id] \in known' BY <1>3, <1>4
  <2> QED BY <1>1, <1>2, <1>3, <2>1, <2>2 DEF Fits, Looked, Writing, Backed
<1>6. Owns(x) BY <1>3 DEF Owns, Writing
<1>7. Apart(c, x)
  <2>1. x.id = client[c].id /\ ~Stages(x) BY <1>2, <1>3 DEF Stages
  <2> QED BY <1>1, <1>4, <2>1, GoesApart
<1>8. answer' = [answer EXCEPT ![c] = NoAnswer] BY <1>1, NoStrayAnswer DEF CallSteps
<1>9. Moves(c, x) BY <1>1, <1>3, <1>4, <1>8, Members DEF Moves
<1> QED BY <1>5, <1>6, <1>7, <1>9, MovesKeep

\* What the backend serves for an operation that looked, it knows under both its ids.
LEMMA ServedIsBacked ==
  ASSUME Inv, NEW c \in Contexts, Looked(client[c]), Served(c)
  PROVE  Backed(client[c].base) /\ Backed(client[c].id)
<1>1. /\ client[c].id \in Blobs /\ client[c].base \in Blobs
      /\ client[c].base = client[c].id \/ RemoteOf[client[c].base] = client[c].id
      /\ client[c].ref = "absent" => client[c].base = client[c].id
  BY Members DEF Fits, Looked
<1>2. \A b \in Remotes : b \in Blobs /\ RemoteOf[b] = b BY DEF Remotes, Locals
<1> QED BY <1>1, <1>2 DEF Served, Backed

LEMMA FetchKeeps ==
  ASSUME Inv, NEW c \in Contexts, Fetch(c), UNCHANGED setting
  PROVE  Inv'
<1> SUFFICES ASSUME NEW x, x = IF Served(c) THEN [client[c] EXCEPT !.step = "begin"] ELSE Idle,
                    NEW k, k = client[c]
             PROVE  Inv'
  OBVIOUS
<1>1. /\ k.step = "fetch" /\ k \in ClientStates /\ Fits(k) /\ client' = [client EXCEPT ![c] = x]
      /\ UNCHANGED <<record, bytes, hosting, answer, known, begun, spent, setting>>
  BY Members DEF Fetch, Become
<1>2. answer' = [answer EXCEPT ![c] = NoAnswer] BY <1>1, NoStrayAnswer DEF CallSteps
<1>3. CASE Served(c)
  <2>1. Backed(k.base) BY <1>1, <1>3, ServedIsBacked DEF Looked
  <2>2. k.op \in {"read", "final"} BY <1>1, Courses DEF Fits, ClientStates
  <2>3. /\ x \in ClientStates /\ x.op = k.op /\ x.id = k.id /\ x.base = k.base /\ x.at = k.at
        /\ x.num = k.num /\ x.step = "begin"
    BY <1>1, <1>3 DEF ClientStates, CallSteps
  <2>4. x.step \in Course[x.op] BY <2>2, <2>3, Courses
  <2>5. Fits(x) BY <1>1, <2>1, <2>2, <2>3, <2>4 DEF Fits, Looked, Writing
  <2>6. Fits(x)'
    <3>1. known \subseteq known' /\ begun \in Nat /\ begun' \in Nat /\ begun <= begun' /\ x.num \in Nat
      BY <1>1, <2>3, Members DEF ClientStates
    <3> QED BY <2>5, <3>1, FitsOn
  <2>7. Owns(x) BY <2>3 DEF Owns, Writing
  <2>8. Apart(c, x)
    <3>1. x.id = client[c].id /\ ~Stages(x) BY <2>2, <2>3 DEF Stages
    <3>2. known' \cap Locals \subseteq known BY <1>1
    <3> QED BY <3>1, <3>2, GoesApart
  <2>9. Moves(c, x) BY <1>1, <1>2, <2>3, Members DEF Moves
  <2> QED BY <2>6, <2>7, <2>8, <2>9, MovesKeep
<1>4. CASE ~Served(c)
  <2>1. Follows(x, client[c]) BY <1>1, <1>4, IdleFollows, Members
  <2> QED BY <1>1, <1>2, <2>1, MovesAlone, Members
<1> QED BY <1>3, <1>4

LEMMA ResolveKeeps ==
  ASSUME Inv, NEW c \in Contexts, Resolve(c), UNCHANGED setting
  PROVE  Inv'
<1>1. /\ client[c].step = "resolve" /\ client[c] \in ClientStates /\ Fits(client[c])
      /\ UNCHANGED <<record, bytes, hosting, answer, known, begun, spent, setting>>
  BY Members DEF Resolve
<1>2. answer' = [answer EXCEPT ![c] = NoAnswer] BY <1>1, NoStrayAnswer DEF CallSteps
<1>3. client[c].op = "metadata" BY <1>1, Courses DEF Fits, ClientStates
<1>4. ASSUME Served(c), NEW x, x = [client[c] EXCEPT !.step = "remote"], Become(c, x)
      PROVE  Inv'
  <2>1. Backed(client[c].id) BY <1>1, <1>4, ServedIsBacked DEF Looked
  <2> DEFINE k == client[c]
  <2>2. /\ x \in ClientStates /\ x.op = k.op /\ x.id = k.id /\ x.base = k.base /\ x.at = k.at
        /\ x.num = k.num /\ x.step = "remote"
    BY <1>1, <1>4 DEF ClientStates, CallSteps
  <2>3. x.step \in Course[x.op] BY <1>3, <2>2, Courses
  <2>4. Fits(x) BY <1>1, <1>3, <2>1, <2>2, <2>3 DEF Fits, Looked, Writing
  <2>5. Follows(x, k) BY <1>3, <2>2, <2>4 DEF Follows, Writing
  <2> QED BY <1>1, <1>2, <1>4, <2>5, MovesAlone, Members DEF Become
<1>5. ASSUME NEW x, x = LastResort(client[c]), Become(c, x)
      PROVE  Inv'
  <2>1. Follows(x, client[c]) BY <1>1, <1>5, LastResortFollows, Members
  <2> QED BY <1>1, <1>2, <1>5, <2>1, MovesAlone, Members DEF Become
<1> QED BY <1>4, <1>5 DEF Resolve

LEMMA ReadBytesKeeps ==
  ASSUME Inv, NEW c \in Contexts, ReadBytes(c), UNCHANGED setting
  PROVE  Inv'
<1> SUFFICES ASSUME NEW k, k = client[c],
                    NEW x, x = IF bytes[k.at] = "none" THEN WithoutBytes(k)
                               ELSE IF k.found THEN [k EXCEPT !.got = bytes[k.at], !.step = "touch"]
                               ELSE WithBytes([k EXCEPT !.got = bytes[k.at]])
             PROVE  Inv'
  OBVIOUS
<1>1. /\ k.step = "bytes" /\ k \in ClientStates /\ Fits(k) /\ client' = [client EXCEPT ![c] = x]
      /\ UNCHANGED <<record, bytes, hosting, answer, known, begun, spent, setting>>
  BY Members DEF ReadBytes, Become
<1>2. answer' = [answer EXCEPT ![c] = NoAnswer] BY <1>1, NoStrayAnswer DEF CallSteps
<1>3. k.op \in {"read", "metadata", "final"} BY <1>1, Courses DEF Fits, ClientStates
<1>4. bytes[k.at] \in {"none", "partial", "whole"} BY <1>1, Members DEF Fits
<1>5. Follows(x, k)
  <2>1. CASE bytes[k.at] = "none" BY <1>1, <2>1, WithoutBytesFollows, Members
  <2>2. CASE bytes[k.at] # "none" /\ k.found
    <3>1. /\ x \in ClientStates /\ x.op = k.op /\ x.id = k.id /\ x.base = k.base /\ x.at = k.at
          /\ x.num = k.num /\ x.step = "touch" /\ x.ref = k.ref
      BY <1>1, <1>4, <2>2 DEF ClientStates, CallSteps
    <3>2. x.step \in Course[x.op] BY <1>3, <3>1, Courses
    <3>3. Fits(x) BY <1>1, <1>3, <3>1, <3>2 DEF Fits, Looked, Writing
    <3> QED BY <1>3, <3>1, <3>3 DEF Follows, Writing
  <2>3. CASE bytes[k.at] # "none" /\ ~k.found
    <3>1. Follows(WithBytes([k EXCEPT !.got = bytes[k.at]]), k)
      BY <1>1, <1>3, <1>4, WithBytesFollows, Members DEF Looked
    <3> QED BY <2>3, <3>1
  <2> QED BY <2>1, <2>2, <2>3
<1> QED BY <1>1, <1>2, <1>5, MovesAlone, Members

LEMMA OpenFileKeeps ==
  ASSUME Inv, NEW c \in Contexts, OpenFile(c), UNCHANGED setting
  PROVE  Inv'
<1> SUFFICES ASSUME NEW x, x = [client[c] EXCEPT !.step = "writing"]
             PROVE  Inv'
  OBVIOUS
<1>1. /\ client[c].step = "write" /\ client' = [client EXCEPT ![c] = x]
      /\ bytes' = [bytes EXCEPT ![client[c].at] = IF bytes[client[c].at] = "none" THEN "partial"
                                                  ELSE bytes[client[c].at]]
      /\ UNCHANGED <<record, hosting, answer, known, begun, spent, setting>>
  BY DEF OpenFile, Become
<1>2. answer' = [answer EXCEPT ![c] = NoAnswer] BY <1>1, NoStrayAnswer DEF CallSteps
<1>3. x \in ClientStates /\ x.num = client[c].num /\ x.step = "writing" BY <1>1, WritingOn DEF Writing
<1>4. /\ bytes' \in [Blobs -> {"none", "partial", "whole"}]
      /\ \A b \in Blobs : bytes[b] = "whole" => bytes'[b] = "whole"
  BY <1>1, Members
<1>5. Moves(c, x) BY <1>1, <1>2, <1>3, <1>4, Members DEF Moves
<1> QED BY <1>1, <1>5, WriteMovesOn DEF Writing

LEMMA CloseFileKeeps ==
  ASSUME Inv, NEW c \in Contexts, CloseFile(c), UNCHANGED setting
  PROVE  Inv'
<1> SUFFICES ASSUME NEW x, x = [client[c] EXCEPT !.step = "commit"]
             PROVE  Inv'
  OBVIOUS
<1>1. /\ client[c].step = "writing" /\ client' = [client EXCEPT ![c] = x]
      /\ bytes' = [bytes EXCEPT ![client[c].at] = "whole"]
      /\ UNCHANGED <<record, hosting, answer, known, begun, spent, setting>>
  BY DEF CloseFile, Become
<1>2. answer' = [answer EXCEPT ![c] = NoAnswer] BY <1>1, NoStrayAnswer DEF CallSteps
<1>3. x \in ClientStates /\ x.num = client[c].num /\ x.step = "commit" /\ x.at = client[c].at /\ x.at \in Blobs
  BY <1>1, WritingOn DEF Writing
<1>4. /\ bytes' \in [Blobs -> {"none", "partial", "whole"}] /\ bytes'[x.at] = "whole"
      /\ \A b \in Blobs : bytes[b] = "whole" => bytes'[b] = "whole"
  BY <1>1, <1>3, Members
<1>5. Moves(c, x) BY <1>1, <1>2, <1>3, <1>4, Members DEF Moves
<1> QED BY <1>1, <1>5, WriteMovesOn DEF Writing

LEMMA WriteFailsKeeps ==
  ASSUME Inv, NEW c \in Contexts, WriteFails(c), UNCHANGED setting
  PROVE  Inv'
<1> SUFFICES ASSUME NEW x, x = [client[c] EXCEPT !.step = "fail"]
             PROVE  Inv'
  OBVIOUS
<1>1. /\ client[c].step = "writing" /\ client' = [client EXCEPT ![c] = x] /\ spent' \in [Kinds -> Nat]
      /\ UNCHANGED <<record, bytes, hosting, answer, known, begun, setting>>
  BY DisruptCounts DEF WriteFails, Become, Kinds
<1>2. answer' = [answer EXCEPT ![c] = NoAnswer] BY <1>1, NoStrayAnswer DEF CallSteps
<1>3. x \in ClientStates /\ x.num = client[c].num /\ x.step = "fail" BY <1>1, WritingOn DEF Writing
<1>4. Moves(c, x) BY <1>1, <1>2, <1>3, Members DEF Moves
<1> QED BY <1>1, <1>4, WriteMovesOn DEF Writing

LEMMA DeliverKeeps ==
  ASSUME Inv, NEW c \in Contexts, Deliver(c), UNCHANGED setting
  PROVE  Inv'
<1> SUFFICES ASSUME NEW x, x = answer[c]
             PROVE  Inv'
  OBVIOUS
<1>1. /\ x # NoAnswer /\ client' = [client EXCEPT ![c] = x] /\ answer' = [answer EXCEPT ![c] = NoAnswer]
      /\ known' = (IF x.op = "stage" /\ x.step = "returned" THEN known \cup {x.id} ELSE known)
      /\ UNCHANGED <<record, bytes, hosting, begun, spent, setting>>
  BY DEF Deliver, Become
<1>2. /\ client[c].step \in CallSteps /\ x.step # "commit" /\ (x.op # "none" => x.id = client[c].id)
      /\ x.op = "stage" => client[c].op = "stage"
  BY <1>1 DEF Inv, Answering
<1>3. x \in ClientStates /\ Fits(x) /\ Owns(x) BY Members DEF Inv, Operating, Views
<1>4. x.op = "stage" => x.id \in Locals /\ x.id \in Blobs BY <1>3 DEF Fits, Locals
<1>5. known \subseteq known' /\ known' \in SUBSET Blobs BY <1>1, <1>4, Members
<1>6. Fits(x)'
  <2>1. begun \in Nat /\ begun' \in Nat /\ begun <= begun' /\ x.num \in Nat BY <1>1, <1>3, Members DEF ClientStates
  <2> QED BY <1>3, <1>5, <2>1, FitsOn
<1>7. Apart(c, x)
  <2>1. CASE x.op = "stage" /\ x.step = "returned"
    <3>1. ~Stages(x) BY <2>1 DEF Stages
    <3>2. Stages(client[c]) /\ x.id = client[c].id BY <1>2, <2>1 DEF Stages, CallSteps
    <3>3. ASSUME NEW d \in Contexts, d # c, Stages(client[d])
          PROVE  client[d].id \notin known' /\ x.id # client[d].id
      <4>1. client[d].id \notin known /\ client[c].id # client[d].id BY <3>2, <3>3 DEF Inv, Staging
      <4> QED BY <1>1, <2>1, <3>2, <4>1
    <3> QED BY <3>1, <3>3 DEF Apart
  <2>2. CASE ~(x.op = "stage" /\ x.step = "returned")
    <3>1. known' \cap Locals \subseteq known BY <1>1, <2>2
    <3>2. x.op = "none" => x.id = None BY <1>3 DEF Fits
    <3>3. Stages(x) => Stages(client[c]) BY <1>2 DEF Stages, CallSteps
    <3> QED BY <1>2, <3>1, <3>2, <3>3, GoesApart
  <2> QED BY <2>1, <2>2
<1>8. Moves(c, x) BY <1>1, <1>2, <1>3, <1>5, Members DEF Moves
<1> QED BY <1>3, <1>6, <1>7, <1>8, MovesKeep

\* A context whose call is given up or rejected goes on.
LEMMA RejectedKeeps ==
  ASSUME Inv, NEW c \in Contexts, client[c].step \in CallSteps,
         client' = [client EXCEPT ![c] = AfterError(client[c])], answer' = [answer EXCEPT ![c] = NoAnswer],
         UNCHANGED <<setting, record, bytes, hosting, known, begun>>, spent' \in [Kinds -> Nat]
  PROVE  Inv'
<1> SUFFICES ASSUME NEW x, x = AfterError(client[c])
             PROVE  Inv'
  OBVIOUS
<1>1. CASE client[c].step = "commit"
  <2>1. x = [client[c] EXCEPT !.step = "fail"] BY <1>1 DEF AfterError
  <2>2. x \in ClientStates /\ x.num = client[c].num /\ x.step = "fail" BY <1>1, <2>1, WritingOn DEF Writing
  <2>3. Moves(c, x) BY <2>2, Members DEF Moves
  <2> QED BY <1>1, <2>1, <2>3, WriteMovesOn DEF Writing
<1>2. CASE client[c].step # "commit"
  <2>1. x = Idle BY <1>2 DEF AfterError
  <2>2. Follows(x, client[c]) BY <2>1, IdleFollows, Members
  <2> QED BY <2>2, MovesAlone
<1> QED BY <1>1, <1>2

LEMMA TimeOutKeeps ==
  ASSUME Inv, NEW c \in Contexts, TimeOut(c), UNCHANGED setting
  PROVE  Inv'
<1>1. spent' \in [Kinds -> Nat] BY DisruptCounts DEF TimeOut, Kinds
<1> QED BY <1>1, RejectedKeeps DEF TimeOut, Become

LEMMA UnavailableKeeps ==
  ASSUME Inv, NEW c \in Contexts, Unavailable(c), UNCHANGED setting
  PROVE  Inv'
<1>1. answer' = [answer EXCEPT ![c] = NoAnswer] BY Members DEF Unavailable
<1> QED BY <1>1, RejectedKeeps, Members DEF Unavailable, Become

LEMMA ClientCrashKeeps ==
  ASSUME Inv, NEW c \in Contexts, ClientCrash(c), UNCHANGED setting
  PROVE  Inv'
<1>1. spent' \in [Kinds -> Nat] BY DisruptCounts DEF ClientCrash, Kinds
<1>2. Follows(Idle, client[c]) BY IdleFollows, Members
<1> QED BY <1>1, <1>2, MovesAlone DEF ClientCrash, Become

----------------------------------------------------------------------------
(* Steps that change a record *)

\* Record b becomes r, and does not take over another write that was begun.
Changes(b, r) ==
  /\ record' = [record EXCEPT ![b] = r] /\ r \in Records
  /\ r.op.kind = "none" <=> r.op.status = "none"
  /\ r.state = "absent" => r = Absent
  /\ r.op.kind \in WriteKinds =>
       \/ r.op.kind = record[b].op.kind /\ r.op.num = record[b].op.num
       \/ r.op.num > begun

LEMMA OwnsOn ==
  ASSUME Inv, NEW b \in Blobs, NEW r, Changes(b, r), NEW y, Owns(y), y.num \in Nat, y.num <= begun
  PROVE  Owns(y)'
<1> SUFFICES ASSUME y.step \in Writing, NEW a \in Blobs,
                    record'[a].op.kind \in WriteKinds, record'[a].op.num = y.num
             PROVE  a = y.at /\ (record'[a].op.kind = "stage" <=> y.op = "stage")
  BY DEF Owns
<1>1. r.op.num \in Nat /\ begun \in Nat BY Members DEF Changes, Records, Operations
<1>2. CASE a = b
  <2>1. record'[a] = r BY <1>2, Members DEF Changes
  <2>2. r.op.kind = record[a].op.kind /\ r.op.num = record[a].op.num BY <1>1, <1>2, <2>1 DEF Changes
  <2> QED BY <2>1, <2>2 DEF Owns
<1>3. CASE a # b
  <2>1. record'[a] = record[a] BY <1>3, Members DEF Changes
  <2> QED BY <2>1 DEF Owns
<1> QED BY <1>2, <1>3

\* The records stay consistent, where a write that is begun is new.
LEMMA RecordedOn ==
  ASSUME Inv, NEW b \in Blobs, NEW r, Changes(b, r), known' = known, begun' \in Nat, begun <= begun',
         IF r.op.kind \in WriteKinds THEN r.op.num \in 1..begun' ELSE r.op.num = 0,
         r.bound \/ Pulled(r.state) \/ r.op.kind = "cache" => Backed(b)
  PROVE  Recorded' /\ RecordsMatch' /\ record' \in [Blobs -> Records]
<1>1. begun \in Nat /\ record \in [Blobs -> Records] BY Members
<1>2. record'[b] = r /\ \A a \in Blobs : a # b => record'[a] = record[a] BY <1>1 DEF Changes
<1>3. \A a \in Blobs : record[a].op.num \in Nat BY <1>1 DEF Records, Operations
<1>4. ASSUME NEW a \in Blobs
      PROVE  IF record'[a].op.kind \in WriteKinds THEN record'[a].op.num \in 1..begun' ELSE record'[a].op.num = 0
  <2>1. CASE a = b BY <1>2, <2>1
  <2>2. CASE a # b
    <3>1. IF record[a].op.kind \in WriteKinds THEN record[a].op.num \in 1..begun ELSE record[a].op.num = 0
      BY DEF Inv, Recorded
    <3> QED BY <1>1, <1>2, <1>3, <2>2, <3>1
  <2> QED BY <2>1, <2>2
<1>5. ASSUME NEW a \in Blobs, a # b, record[a].op.kind \in WriteKinds, r.op.kind \in WriteKinds,
             record[a].op.num = r.op.num
      PROVE  FALSE
  <2>1. record[a].op.num \in 1..begun BY <1>5 DEF Inv, Recorded
  <2>2. ~(r.op.num > begun) BY <1>1, <1>5, <2>1
  <2>3. r.op.kind = record[b].op.kind /\ r.op.num = record[b].op.num BY <1>5, <2>2 DEF Changes
  <2> QED BY <1>5, <2>3 DEF Inv, Recorded
<1>6. ASSUME NEW a \in Blobs, NEW d \in Blobs, record'[a].op.kind \in WriteKinds,
             record'[d].op.kind \in WriteKinds, record'[a].op.num = record'[d].op.num
      PROVE  a = d
  BY <1>2, <1>5, <1>6 DEF Inv, Recorded
<1>7. \A a \in Blobs : Backed(a)' <=> Backed(a) BY DEF Backed
<1>8. ASSUME NEW a \in Blobs, record'[a].bound \/ Pulled(record'[a].state) \/ record'[a].op.kind = "cache"
      PROVE  Backed(a)'
  BY <1>2, <1>7, <1>8 DEF Inv, Recorded
<1>9. Recorded' BY <1>4, <1>6, <1>8 DEF Recorded
<1>10. RecordsMatch' BY <1>2 DEF Changes, Inv, BlobsTypeOK, RecordsMatch
<1>11. record' \in [Blobs -> Records] BY <1>1 DEF Changes
<1> QED BY <1>9, <1>10, <1>11

\* No write that is about to be committed loses its bytes.
LEMMA WrittenOn ==
  ASSUME Inv, NEW b \in Blobs, NEW r, Changes(b, r), term \in {"idle", "purging"}, client' = client, bytes' = bytes,
         r.op.kind \in WriteKinds /\ r.op.status = "pending" => r.op = record[b].op \/ r.op.num > begun
  PROVE  Written'
<1> SUFFICES ASSUME NEW d \in Contexts, NEW a \in Blobs, client[d].step = "commit", client[d].at = a,
                    record'[a].op.num = client[d].num, record'[a].op.kind \in WriteKinds, Pending(a)'
             PROVE  bytes[a] = "whole"
  BY DEF Written
<1>1. client[d].num \in Nat /\ client[d].num <= begun /\ begun \in Nat BY Members DEF Fits, ClientStates
<1>2. record'[a].op = record[a].op
  <2>1. CASE a = b
    <3>1. record'[a] = r BY <2>1, Members DEF Changes
    <3> QED BY <1>1, <2>1, <3>1 DEF Pending
  <2>2. CASE a # b BY <2>2, Members DEF Changes
  <2> QED BY <2>1, <2>2
<1> QED BY <1>2 DEF Inv, Written, Pending

\* Record b is not the only copy of a blob that was staged.
Spared(b) ==
  \/ Backed(b)
  \/ record[b].state # "staged" \/ record[b].op # NoOp
  \/ /\ b \notin known
     /\ \A d \in Contexts : ~(answer[d].op = "stage" /\ answer[d].step = "returned" /\ answer[d].id = b)

\* Context c is not told that blob b was staged, or its record r is kept.
KeepsCopy(c, x, b, r) ==
  x.op = "stage" /\ x.step = "returned" => x = answer[c] \/ (x.id = b /\ r.state = "staged" /\ r.op = NoOp)

\* The only copy of a blob is not the record that changes, or is kept by the change.
LEMMA KeptOn ==
  ASSUME Inv, NEW b \in Blobs, NEW r, Changes(b, r), known' = known,
         NEW c \in Contexts, NEW x, answer' = [answer EXCEPT ![c] = x],
         KeepsCopy(c, x, b, r), Spared(b)
  PROVE  Kept'
<1> SUFFICES ASSUME NEW a \in Locals, ~Backed(a),
                    \/ a \in known
                    \/ \E d \in Contexts :
                         answer'[d].op = "stage" /\ answer'[d].step = "returned" /\ answer'[d].id = a
             PROVE  record'[a].state = "staged" /\ record'[a].op = NoOp
  BY DEF Kept, Backed
<1>1. a \in Blobs BY DEF Locals
<1>2. \/ \/ a \in known
         \/ \E d \in Contexts :
              answer[d].op = "stage" /\ answer[d].step = "returned" /\ answer[d].id = a
      \/ a = b /\ r.state = "staged" /\ r.op = NoOp
  BY Members DEF KeepsCopy
<1>3. CASE a = b /\ r.state = "staged" /\ r.op = NoOp BY <1>3, Members DEF Changes
<1>4. CASE \/ a \in known
           \/ \E d \in Contexts :
                answer[d].op = "stage" /\ answer[d].step = "returned" /\ answer[d].id = a
  <2>1. record[a].state = "staged" /\ record[a].op = NoOp BY <1>4 DEF Inv, Kept
  <2>2. a # b BY <1>4, <2>1 DEF Spared
  <2> QED BY <1>1, <2>1, <2>2, Members DEF Changes
<1> QED BY <1>2, <1>3, <1>4

\* An answer is on its way, and the operations of all others stay.
LEMMA AnsweringOn ==
  ASSUME Inv, NEW b \in Blobs, NEW r, Changes(b, r), client' = client, known' = known,
         begun' \in Nat, begun <= begun', NEW c \in Contexts, client[c].step \in CallSteps,
         NEW x \in ClientStates, answer' = [answer EXCEPT ![c] = x],
         x.step \notin {"commit", "writing", "apply"}, x.op # "none" => x.id = client[c].id,
         x.op = "stage" => client[c].op = "stage",
         Fits(x)', Owns(x)', x.num \in {0, client[c].num} \/ x.num > begun
  PROVE  Operating' /\ Answering' /\ Staging' /\ answer' \in [Contexts -> ClientStates]
<1>1. /\ answer'[c] = x /\ \A d \in Contexts : d # c => answer'[d] = answer[d]
      /\ answer' \in [Contexts -> ClientStates]
  BY Members
<1>2. Staging' BY DEF Inv, Staging
<1>3. Answering'
  <2> SUFFICES ASSUME NEW d \in Contexts, answer'[d] # NoAnswer
               PROVE  /\ client[d].step \in CallSteps /\ answer'[d].step \notin {"commit", "writing", "apply"}
                      /\ answer'[d].op # "none" => answer'[d].id = client[d].id
                      /\ answer'[d].op = "stage" => client[d].op = "stage"
    BY DEF Answering
  <2>1. CASE d = c BY <1>1, <2>1
  <2>2. CASE d # c BY <1>1, <2>2 DEF Inv, Answering
  <2> QED BY <2>1, <2>2
<1>4. \A d \in Contexts : \A y \in Views(d) : y \in ClientStates /\ y.num \in Nat /\ y.num <= begun /\ Fits(y) /\ Owns(y)
  <2>1. \A d \in Contexts : \A y \in Views(d) : y \in ClientStates BY Members DEF Views
  <2>2. \A d \in Contexts : \A y \in Views(d) : Fits(y) /\ Owns(y) BY DEF Inv, Operating
  <2> QED BY <2>1, <2>2 DEF Fits, ClientStates
<1>5. \A d \in Contexts : \A y \in Views(d)' : y \in Views(d) \/ (d = c /\ y = x) BY <1>1 DEF Views
<1>6. ASSUME NEW d \in Contexts, NEW y \in Views(d)' PROVE Fits(y)' /\ Owns(y)'
  <2>1. CASE y = x BY <2>1
  <2>2. CASE y \in Views(d)
    <3>1. y \in ClientStates /\ y.num \in Nat /\ y.num <= begun /\ Fits(y) /\ Owns(y) BY <1>4, <2>2
    <3>2. Fits(y)' BY <3>1, FitsOn, Members
    <3>3. Owns(y)' BY <3>1, OwnsOn
    <3> QED BY <3>2, <3>3
  <2> QED BY <1>5, <2>1, <2>2
<1>7. ASSUME NEW d \in Contexts, NEW e \in Contexts, d # e, NEW y \in Views(d)', NEW z \in Views(e)', y.num = z.num
      PROVE  y.num = 0
  <2>1. begun \in Nat /\ x.num \in Nat BY Members DEF ClientStates
  <2>2. ASSUME NEW f \in Contexts, NEW w \in Views(f)'
        PROVE  w.num = 0 \/ (\E v \in Views(f) : v.num = w.num) \/ (f = c /\ w.num > begun)
    <3>1. CASE w = x /\ f = c BY <3>1 DEF Views
    <3>2. CASE w \in Views(f) BY <3>2
    <3> QED BY <1>5, <3>1, <3>2
  <2>3. y.num = 0 \/ (\E v \in Views(d) : v.num = y.num) \/ (d = c /\ y.num > begun) BY <2>2
  <2>4. z.num = 0 \/ (\E v \in Views(e) : v.num = z.num) \/ (e = c /\ z.num > begun) BY <2>2
  <2>5. \A f \in Contexts : \A v \in Views(f) : ~(v.num > begun) BY <1>4, <2>1
  <2> QED BY <1>7, <2>3, <2>4, <2>5 DEF Inv, Operating
<1>8. Operating' BY <1>6, <1>7 DEF Operating
<1> QED BY <1>1, <1>2, <1>3, <1>8

\* The operations of the contexts stay with a record that changes under none of them.
LEMMA RestingOn ==
  ASSUME Inv, NEW b \in Blobs, NEW r, Changes(b, r),
         client' = client, answer' = answer, known' = known, begun' = begun
  PROVE  Operating' /\ Answering' /\ Staging'
<1>1. \A d \in Contexts : Views(d)' = Views(d) BY DEF Views
<1>2. ASSUME NEW d \in Contexts, NEW y \in Views(d) PROVE Fits(y)' /\ Owns(y)'
  <2>1. y.num \in Nat /\ Fits(y) /\ Owns(y) BY Members DEF Views, ClientStates, Inv, Operating
  <2>2. y.num <= begun BY <2>1 DEF Fits
  <2>3. Owns(y)' BY <2>1, <2>2, OwnsOn
  <2>4. begun \in Nat /\ begun' \in Nat /\ begun <= begun' /\ known \subseteq known' BY Members
  <2>5. Fits(y)' BY <2>1, <2>4, FitsOn
  <2> QED BY <2>3, <2>5
<1>3. \A d, e \in Contexts : d # e =>
        \A y \in Views(d), z \in Views(e) : y.num = z.num => y.num = 0
  BY DEF Inv, Operating
<1>4. Operating'
  <2>1. \A d \in Contexts : \A y \in Views(d)' : Fits(y)' /\ Owns(y)' BY <1>1, <1>2
  <2>2. \A d, e \in Contexts : d # e =>
          \A y \in Views(d)', z \in Views(e)' : y.num = z.num => y.num = 0
    BY <1>1, <1>3
  <2> QED BY <2>1, <2>2 DEF Operating
<1> QED BY <1>4 DEF Inv, Answering, Staging

\* Nothing is left pending by a change that ends or begins an operation of this term.
LEMMA PendingOn ==
  ASSUME Inv, NEW b \in Blobs, NEW r, Changes(b, r), setting' = setting, term' = term,
         task.kind = "purge" => task.id = b, active \subseteq active',
         r.op.status = "pending" => \/ r.op = record[b].op /\ task.kind # "purge"
                                    \/ r.op.num \in active'
  PROVE  NothingLeftPending'
<1> SUFFICES ASSUME NEW a \in Blobs, term \in {"idle", "purging"}, Pending(a)', ~setting.boundFirst
             PROVE  record'[a].op.num \in active'
  BY DEF NothingLeftPending
<1>1. CASE a = b
  <2>1. record'[a] = r BY <1>1, Members DEF Changes
  <2>2. CASE r.op = record[b].op /\ task.kind # "purge"
    BY <1>1, <2>1, <2>2 DEF Inv, NothingLeftPending, Pending
  <2> QED BY <2>1, <2>2 DEF Pending
<1>2. CASE a # b
  <2>1. record'[a] = record[a] BY <1>2, Members DEF Changes
  <2> QED BY <1>2, <2>1 DEF Inv, NothingLeftPending, Pending
<1> QED BY <1>1, <1>2

\* Nothing is left pending when a write is committed or has failed.
LEMMA PendingLess ==
  ASSUME Inv, NEW b \in Blobs, NEW r, Changes(b, r), setting' = setting, term' = term,
         task.kind # "purge", record[b].op.kind \in WriteKinds, active' = active \ {record[b].op.num},
         r.op.status # "pending"
  PROVE  NothingLeftPending'
<1> SUFFICES ASSUME NEW a \in Blobs, term \in {"idle", "purging"}, Pending(a)', ~setting.boundFirst
             PROVE  record'[a].op.num \in active'
  BY DEF NothingLeftPending
<1>1. a # b BY Members DEF Pending, Changes
<1>2. record'[a] = record[a] BY <1>1, Members DEF Changes
<1>3. record[a].op.num \in active BY <1>2 DEF Inv, NothingLeftPending, Pending
<1>4. record[b].op.num \in 1..begun /\ begun \in Nat BY Members DEF Inv, Recorded
<1>5. record[a].op.num # record[b].op.num BY <1>1, <1>4 DEF Inv, Recorded
<1> QED BY <1>2, <1>3, <1>5

\* A handler of the lane that ends keeps the invariant.
LEMMA LaneKeeps ==
  ASSUME Inv, NEW b \in Blobs, NEW r, Changes(b, r), term \in {"idle", "purging"},
         UNCHANGED <<setting, client, known, bytes, host, term>>, task' = NoTask, page' \subseteq page,
         active' \in SUBSET Nat, begun' \in Nat, begun <= begun', spent' \in [Kinds -> Nat],
         answer' \in [Contexts -> ClientStates],
         IF r.op.kind \in WriteKinds THEN r.op.num \in 1..begun' ELSE r.op.num = 0,
         r.bound \/ Pulled(r.state) \/ r.op.kind = "cache" => Backed(b),
         r.op.kind \in WriteKinds /\ r.op.status = "pending" => r.op = record[b].op \/ r.op.num > begun,
         r.state \in {"staged", "cached"} /\ r.op = NoOp => r = record[b] \/ bytes[b] = "whole",
         Operating', Answering', Staging', Kept', NothingLeftPending'
  PROVE  Inv'
<1>1. Recorded' /\ RecordsMatch' /\ record' \in [Blobs -> Records] BY RecordedOn
<1>2. Written' BY WrittenOn
<1>3. NoTask.kind = "none" /\ NoTask.id = None /\ NoTask.deleted = FALSE /\ NoTask.by = None
  BY DEF NoTask
<1>4. BlobsTypeOK'
  <2>1. BlobsTypes' BY <1>1, <1>3, NoTaskTyped DEF BlobsTypes, Inv, BlobsTypeOK
  <2>2. HostMatches' /\ TaskMatches' BY DEF Inv, BlobsTypeOK, HostMatches, TaskMatches
  <2> QED BY <1>1, <2>1, <2>2, Members DEF BlobsTypeOK
<1>5. Hosting'
  <2>1. page \subseteq Blobs BY DEF Inv, BlobsTypeOK, BlobsTypes
  <2>2. \A i \in Blobs : Backed(i)' <=> Backed(i) BY DEF Backed
  <2>3. term = "purging" => \A i \in page' : Backed(i)' BY <2>1, <2>2 DEF Inv, Hosting
  <2>4. term = "idle" => page' = {} BY DEF Inv, Hosting
  <2> QED BY <1>3, <2>3, <2>4 DEF Hosting
<1>6. Recovering' BY DEF Recovering
<1>7. CommittedHasBytes'
  <2> SUFFICES ASSUME NEW a \in Blobs, record'[a].state \in {"staged", "cached"}, record'[a].op = NoOp
               PROVE  bytes[a] = "whole"
    BY DEF CommittedHasBytes
  <2>1. CASE a # b
    <3>1. record'[a] = record[a] BY <2>1, Members DEF Changes
    <3> QED BY <3>1 DEF Inv, CommittedHasBytes
  <2>2. CASE a = b
    <3>1. record'[a] = r BY <2>2, Members DEF Changes
    <3> QED BY <2>2, <3>1 DEF Inv, CommittedHasBytes
  <2> QED BY <2>1, <2>2
<1> QED BY <1>1, <1>2, <1>4, <1>5, <1>6, <1>7 DEF Inv

\* A handler that changes no record and answers x.
LEMMA AnswerKeeps ==
  ASSUME Inv, NEW c \in Contexts, client[c].step \in CallSteps, LaneFree,
         NEW x, answer' = [answer EXCEPT ![c] = x], Fits(x), Owns(x), x \in ClientStates,
         x.step \notin {"commit", "writing", "apply"}, x.op # "none" => x.id = client[c].id,
         x.op = "stage" => client[c].op = "stage" /\ x.step # "returned", x.num \in {0, client[c].num},
         UNCHANGED <<setting, record, bytes, hosting, client, known, begun, spent>>
  PROVE  Inv'
<1>1. PICK b \in Blobs : b = client[c].id BY Members DEF Fits, CallSteps
<1> SUFFICES ASSUME NEW r, r = record[b] PROVE Inv'
  OBVIOUS
<1>2. /\ r \in Records /\ (r.op.kind = "none" <=> r.op.status = "none") /\ (r.state = "absent" => r = Absent)
      /\ record' = [record EXCEPT ![b] = r]
  BY Members DEF BlobsTypeOK, RecordsMatch
<1>3. Changes(b, r) BY <1>2 DEF Changes
<1>4. /\ begun \in Nat /\ begun' = begun /\ begun' \in Nat /\ begun <= begun' /\ known \subseteq known'
      /\ spent' \in [Kinds -> Nat]
  BY Members
<1>5. x.num \in Nat /\ x.num <= begun BY DEF ClientStates, Fits
<1>6. Fits(x)' BY <1>4, <1>5, FitsOn
<1>7. Owns(x)' BY DEF Owns
<1>8. Operating' /\ Answering' /\ Staging' /\ answer' \in [Contexts -> ClientStates]
  BY <1>3, <1>4, <1>6, <1>7, AnsweringOn
<1>9. Kept' BY Members DEF Inv, Kept, Backed
<1>10. term \in {"idle", "purging"} /\ task = NoTask /\ task' = NoTask /\ term' = term /\ host' = host
       /\ page' \subseteq page /\ active' \in SUBSET Nat
  BY Members DEF LaneFree, hosting, Inv, BlobsTypeOK, BlobsTypes
<1>11. NothingLeftPending'
  <2>1. task.kind # "purge" BY <1>10 DEF NoTask
  <2>2. active \subseteq active' BY DEF hosting
  <2> QED BY <1>3, <1>10, <2>1, <2>2, PendingOn
<1>12. IF r.op.kind \in WriteKinds THEN r.op.num \in 1..begun' ELSE r.op.num = 0
  BY <1>4 DEF Inv, Recorded
<1>13. r.bound \/ Pulled(r.state) \/ r.op.kind = "cache" => Backed(b) BY DEF Inv, Recorded
<1> QED BY <1>3, <1>4, <1>8, <1>9, <1>10, <1>11, <1>12, <1>13, LaneKeeps

\* A handler that changes no record, and whose call goes on without writing.
LEMMA FollowKeeps ==
  ASSUME Inv, NEW c \in Contexts, client[c].step \in CallSteps, LaneFree,
         NEW x, answer' = [answer EXCEPT ![c] = x], Follows(x, client[c]), x.op # "stage",
         UNCHANGED <<setting, record, bytes, hosting, client, known, begun, spent>>
  PROVE  Inv'
BY AnswerKeeps DEF Follows, Owns, Writing

\* What a handler finds: the lane is free and its call fits.
LEMMA HandlingFinds ==
  ASSUME Inv, NEW c \in Contexts, NEW s \in CallSteps, Handling(c, s)
  PROVE  /\ client[c].step = s /\ client[c] \in ClientStates /\ Fits(client[c]) /\ Owns(client[c])
         /\ client[c].id \in Blobs /\ client[c].base \in Blobs /\ client[c].at \in Blobs
         /\ LaneFree /\ term \in {"idle", "purging"} /\ task = NoTask /\ task.kind = "none"
BY Members DEF Handling, LaneFree, Fits, CallSteps, NoTask

LEMMA FindKeeps ==
  ASSUME Inv, NEW c \in Contexts, Find(c), UNCHANGED setting
  PROVE  Inv'
<1> SUFFICES ASSUME NEW k, k = client[c], NEW b, b = Lookup(k.id),
                    NEW x, x = [k EXCEPT !.step = "load", !.base = IF b = None THEN k.id ELSE b,
                                         !.ref = IF b = None THEN "absent" ELSE record[b].state]
             PROVE  Inv'
  OBVIOUS
<1>1. /\ answer' = [answer EXCEPT ![c] = x] /\ Handling(c, "find")
      /\ UNCHANGED <<setting, record, bytes, hosting, client, known, begun, spent>>
  BY DEF Find, Answer, OnlyAnswers
<1>2. /\ k.step = "find" /\ k \in ClientStates /\ Fits(k) /\ LaneFree
      /\ k.id \in Blobs /\ k.base \in Blobs /\ k.at \in Blobs
  BY <1>1, HandlingFinds DEF CallSteps
<1>3. k.op \in {"read", "metadata", "final"} BY <1>2, Courses DEF Fits, ClientStates
<1>4. b \in Blobs \cup {None} /\ (b # None => (b = k.id \/ RemoteOf[b] = k.id)) BY <1>2, LookupCases, Members
<1>5. b # None => b \in Blobs /\ record[b].state \in States /\ record[b].state # "absent"
  BY <1>2, <1>4, LookupFindsRecords, Members DEF Present, Records
<1>6. "absent" \in States BY DEF States
<1>7. /\ x \in ClientStates /\ x.op = k.op /\ x.id = k.id /\ x.at = k.at /\ x.num = k.num /\ x.step = "load"
      /\ x.base = IF b = None THEN k.id ELSE b
      /\ x.ref = IF b = None THEN "absent" ELSE record[b].state
  BY <1>2, <1>4, <1>5, <1>6 DEF ClientStates, CallSteps
<1>8. x.step \in Course[x.op] BY <1>3, <1>7, Courses
<1>9. Fits(x) BY <1>2, <1>3, <1>4, <1>5, <1>7, <1>8 DEF Fits, Looked, Writing
<1>10. Follows(x, k) BY <1>3, <1>7, <1>9 DEF Follows, Writing
<1>11. k.step \in CallSteps BY <1>2 DEF CallSteps
<1> QED BY <1>1, <1>2, <1>3, <1>7, <1>10, <1>11, FollowKeeps

LEMMA LoadKeeps ==
  ASSUME Inv, NEW c \in Contexts, Load(c), UNCHANGED setting
  PROVE  Inv'
<1> SUFFICES ASSUME NEW k, k = client[c], NEW b, b = Lookup(k.id),
                    NEW x, x = IF b # None /\ record[b].op.kind \in {"stage", "cache"} THEN WithoutBytes(k)
                               ELSE [k EXCEPT !.step = "bytes", !.at = IF b = None THEN k.id ELSE b,
                                              !.found = (b # None)]
             PROVE  Inv'
  OBVIOUS
<1>1. /\ answer' = [answer EXCEPT ![c] = x] /\ Handling(c, "load")
      /\ UNCHANGED <<setting, record, bytes, hosting, client, known, begun, spent>>
  BY DEF Load, Answer, OnlyAnswers
<1>2. /\ k.step = "load" /\ k \in ClientStates /\ Fits(k) /\ LaneFree /\ k.step \in CallSteps
      /\ k.id \in Blobs /\ k.base \in Blobs /\ k.at \in Blobs
  BY <1>1, HandlingFinds DEF CallSteps
<1>3. k.op \in {"read", "metadata", "final"} BY <1>2, Courses DEF Fits, ClientStates
<1>4. b \in Blobs \cup {None} BY <1>2, LookupCases, Members
<1>5. CASE b # None /\ record[b].op.kind \in {"stage", "cache"}
  <2>1. Follows(x, k) BY <1>2, <1>5, WithoutBytesFollows, Members
  <2>2. x.op # "stage" BY <1>3, <2>1 DEF Follows
  <2> QED BY <1>1, <1>2, <2>1, <2>2, FollowKeeps
<1>6. CASE ~(b # None /\ record[b].op.kind \in {"stage", "cache"})
  <2> DEFINE a == IF b = None THEN k.id ELSE b
  <2>1. a \in Blobs BY <1>2, <1>4
  <2>2. x = [k EXCEPT !.step = "bytes", !.at = a, !.found = (b # None)] BY <1>6
  <2> HIDE DEF a
  <2>3. PICK f \in BOOLEAN : f = (b # None) OBVIOUS
  <2>4. x = [k EXCEPT !.step = "bytes", !.at = a, !.found = f] BY <2>2, <2>3
  <2>5. /\ x \in ClientStates /\ x.op = k.op /\ x.id = k.id /\ x.at = a /\ x.num = k.num /\ x.step = "bytes"
        /\ x.base = k.base /\ x.ref = k.ref
    BY <1>2, <2>1, <2>4 DEF ClientStates, CallSteps
  <2>6. x.step \in Course[x.op]
    <3>1. \A o \in {"read", "metadata", "final"} : "bytes" \in Course[o] BY Courses
    <3> QED BY <1>3, <2>5, <3>1
  <2>7. Fits(x) BY <1>2, <1>3, <2>1, <2>5, <2>6 DEF Fits, Looked, Writing
  <2>8. Follows(x, k) BY <1>3, <2>5, <2>7 DEF Follows, Writing
  <2> QED BY <1>1, <1>2, <1>3, <2>5, <2>8, FollowKeeps
<1> QED BY <1>5, <1>6

LEMMA TouchKeeps ==
  ASSUME Inv, NEW c \in Contexts, Touch(c), UNCHANGED setting
  PROVE  Inv'
<1> SUFFICES ASSUME NEW k, k = client[c], NEW x, x = IF Lookup(k.at) = None THEN Idle ELSE WithBytes(k)
             PROVE  Inv'
  OBVIOUS
<1>1. /\ answer' = [answer EXCEPT ![c] = x] /\ Handling(c, "touch")
      /\ UNCHANGED <<setting, record, bytes, hosting, client, known, begun, spent>>
  BY DEF Touch, Answer, OnlyAnswers
<1>2. k.step = "touch" /\ k \in ClientStates /\ Fits(k) /\ LaneFree /\ k.step \in CallSteps
  BY <1>1, HandlingFinds DEF CallSteps
<1>3. k.op \in {"read", "metadata", "final"} BY <1>2, Courses DEF Fits, ClientStates
<1>4. k.got \in {"none", "partial", "whole"} /\ k = [k EXCEPT !.got = k.got] BY <1>2 DEF ClientStates
<1>5. Follows(WithBytes(k), k)
  <2>1. Follows(WithBytes([k EXCEPT !.got = k.got]), k)
    BY <1>2, <1>3, <1>4, WithBytesFollows, Members DEF Looked
  <2> QED BY <1>4, <2>1
<1>6. Follows(x, k) BY <1>2, <1>5, IdleFollows, Members
<1>7. x.op # "stage" BY <1>3, <1>6 DEF Follows
<1> QED BY <1>1, <1>2, <1>6, <1>7, FollowKeeps

\* A handler that creates the record of an id that has none, and answers x.
LEMMA CreateKeeps ==
  ASSUME Inv, NEW c \in Contexts, client[c].step \in {"merge", "remote"}, LaneFree,
         NEW x, answer' = [answer EXCEPT ![c] = x], Follows(x, client[c]), x.op # "stage",
         Lookup(client[c].id) = None, NEW r \in Records, r.op = NoOp, r.state \in {"new", "persisted"},
         r.bound \/ Pulled(r.state) => Backed(client[c].id), Persist(client[c].id, r),
         UNCHANGED <<setting, bytes, hosting, client, known, begun, spent>>
  PROVE  Inv'
<1>1. PICK b \in Blobs : b = client[c].id BY Members DEF Fits
<1>2. ~Present(b) BY <1>1, LookupCases, Members
<1>3. NoOp.kind = "none" /\ NoOp.status = "none" /\ NoOp.num = 0 BY DEF NoOp
<1>4. Changes(b, r) BY <1>1, <1>3 DEF Changes, Persist, WriteKinds
<1>5. /\ begun \in Nat /\ begun' = begun /\ begun' \in Nat /\ begun <= begun' /\ known \subseteq known'
      /\ spent' \in [Kinds -> Nat]
  BY Members
<1>6. x \in ClientStates /\ x.num \in Nat /\ Fits(x) BY DEF ClientStates, Follows
<1>7. Fits(x)' BY <1>5, <1>6, FitsOn
<1>8. Owns(x)' BY DEF Owns, Follows
<1>9. x.step \notin {"commit", "writing", "apply"} BY DEF Follows, Writing
<1>10. Operating' /\ Answering' /\ Staging' /\ answer' \in [Contexts -> ClientStates]
  BY <1>4, <1>5, <1>6, <1>7, <1>8, <1>9, AnsweringOn DEF Follows, CallSteps
<1>11. Kept'
  <2>1. Spared(b) BY <1>2 DEF Spared, Present
  <2>2. KeepsCopy(c, x, b, r) BY DEF KeepsCopy
  <2> QED BY <1>4, <2>1, <2>2, KeptOn
<1>12. term \in {"idle", "purging"} /\ task = NoTask /\ task' = NoTask /\ term' = term /\ host' = host
       /\ page' \subseteq page /\ active' \in SUBSET Nat
  BY Members DEF LaneFree, hosting, Inv, BlobsTypeOK, BlobsTypes
<1>13. NothingLeftPending'
  <2>1. task.kind # "purge" BY <1>12 DEF NoTask
  <2>2. active \subseteq active' BY DEF hosting
  <2> QED BY <1>3, <1>4, <1>12, <2>1, <2>2, PendingOn
<1>14. r.bound \/ Pulled(r.state) \/ r.op.kind = "cache" => Backed(b) BY <1>1, <1>3
<1> QED BY <1>3, <1>4, <1>5, <1>10, <1>11, <1>12, <1>13, <1>14, LaneKeeps DEF WriteKinds

LEMMA MergeKeeps ==
  ASSUME Inv, NEW c \in Contexts, Merge(c), UNCHANGED setting
  PROVE  Inv'
<1>1. Handling(c, "merge") /\ UNCHANGED <<setting, bytes, hosting, client, known, begun, spent>>
  BY DEF Merge, OnlyAnswers
<1>2. PICK x \in Merged(client[c]) : Answer(c, x) BY DEF Merge
<1> DEFINE k == client[c]
<1>3. /\ k.step = "merge" /\ k \in ClientStates /\ Fits(k) /\ LaneFree /\ k.step \in CallSteps
      /\ k.id \in Blobs /\ k.base \in Blobs /\ k.at \in Blobs
  BY <1>1, HandlingFinds DEF CallSteps
<1>4. k.op \in {"metadata", "final"} BY <1>3, Courses DEF Fits, ClientStates
<1>5. Follows(x, k) /\ x.op # "stage"
  <2>1. CASE x = Returned(k) BY <1>3, <1>4, <2>1, ReturnedFollows, Members
  <2>2. CASE k.op = "metadata" /\ x = [k EXCEPT !.step = "resolve"]
    <3> HIDE DEF k
    <3>1. /\ x \in ClientStates /\ x.op = k.op /\ x.id = k.id /\ x.at = k.at /\ x.num = k.num
          /\ x.step = "resolve" /\ x.base = k.base /\ x.ref = k.ref
      BY <1>3, <2>2 DEF ClientStates, CallSteps
    <3>2. x.step \in Course[x.op] BY <2>2, <3>1, Courses
    <3>3. Fits(x) BY <1>3, <2>2, <3>1, <3>2 DEF Fits, Looked, Writing
    <3> QED BY <2>2, <3>1, <3>3 DEF Follows, Writing
  <2> QED BY <1>2, <2>1, <2>2 DEF Merged
<1>6. CASE Lookup(k.id) = None
  <2>1. PICK r : r = [Absent EXCEPT !.state = "new"] OBVIOUS
  <2>2. r = [state |-> "new", bound |-> FALSE, op |-> NoOp] BY <2>1 DEF Absent
  <2>3. NoOp \in Operations BY DEF NoOp, Operations
  <2>4. r \in Records /\ r.op = NoOp /\ r.state = "new" /\ r.bound = FALSE BY <2>2, <2>3 DEF Records, States
  <2>5. Persist(k.id, r) BY <1>6, <2>1 DEF Merge
  <2>6. ~Pulled(r.state) BY <2>4 DEF Pulled
  <2> QED BY <1>1, <1>2, <1>3, <1>5, <1>6, <2>4, <2>5, <2>6, CreateKeeps DEF Answer
<1>7. CASE Lookup(k.id) # None
  <2>1. record' = record BY <1>7 DEF Merge
  <2> QED BY <1>1, <1>2, <1>3, <1>5, <2>1, FollowKeeps DEF Answer
<1> QED BY <1>6, <1>7

LEMMA RemoteKeeps ==
  ASSUME Inv, NEW c \in Contexts, Remote(c), UNCHANGED setting
  PROVE  Inv'
<1>1. Handling(c, "remote") /\ UNCHANGED <<setting, bytes, hosting, client, known, begun, spent>>
  BY DEF Remote, OnlyAnswers
<1>2. PICK x \in {LastResort(client[c]), Returned(client[c])} : Answer(c, x) BY DEF Remote
<1> DEFINE k == client[c]
<1>3. /\ k.step = "remote" /\ k \in ClientStates /\ Fits(k) /\ LaneFree /\ k.step \in CallSteps
      /\ k.id \in Blobs
  BY <1>1, HandlingFinds DEF CallSteps
<1>4. k.op = "metadata" /\ Backed(k.id) BY <1>3, Courses DEF Fits, ClientStates
<1>5. Follows(x, k) BY <1>2, <1>3, <1>4, ReturnedFollows, LastResortFollows, Members
<1>6. x.op # "stage" BY <1>4, <1>5 DEF Follows
<1>7. CASE Lookup(k.id) = None
  <2>1. PICK r : r = [Absent EXCEPT !.state = "persisted", !.bound = TRUE] OBVIOUS
  <2>2. r = [state |-> "persisted", bound |-> TRUE, op |-> NoOp] BY <2>1 DEF Absent
  <2>3. NoOp \in Operations BY DEF NoOp, Operations
  <2>4. r \in Records /\ r.op = NoOp /\ r.state = "persisted" BY <2>2, <2>3 DEF Records, States
  <2>5. Persist(k.id, r) BY <1>7, <2>1 DEF Remote
  <2> QED BY <1>1, <1>2, <1>3, <1>4, <1>5, <1>6, <1>7, <2>4, <2>5, CreateKeeps DEF Answer
<1>8. CASE Lookup(k.id) # None
  <2>1. record' = record BY <1>8 DEF Remote
  <2> QED BY <1>1, <1>2, <1>3, <1>5, <1>6, <2>1, FollowKeeps DEF Answer
<1> QED BY <1>7, <1>8

\* An operation that looked or stages begins to write the record its query returns.
LEMMA BeginsAt ==
  ASSUME Inv, NEW c \in Contexts, client[c].step = "begin", NEW to, to = (IF Lookup(client[c].base) = None
         THEN client[c].base ELSE Lookup(client[c].base))
  PROVE  /\ to \in Blobs /\ client[c].op \in {"stage", "read", "final"}
         /\ client[c].op = "stage" => to = client[c].id /\ to \in Locals
         /\ client[c].op # "stage" => Backed(to)
<1> DEFINE k == client[c]
<1>1. k \in ClientStates /\ Fits(k) /\ k.base \in Blobs BY Members DEF Fits
<1>2. k.op \in {"stage", "read", "final"} BY <1>1, Courses DEF Fits, ClientStates
<1>3. to \in Blobs BY <1>1, LookupCases, Members
<1>4. CASE k.op = "stage"
  <2>1. k.base = k.id /\ k.base \in Locals BY <1>1, <1>4 DEF Fits
  <2>2. Lookup(k.base) = IF Present(k.base) THEN k.base ELSE None BY <2>1, LookupOfLocal, Members
  <2>3. k.base # None BY <1>1, Members, BlobsAssumption
  <2>4. to = k.base BY <2>2, <2>3
  <2> QED BY <1>2, <1>3, <1>4, <2>1, <2>4
<1>5. CASE k.op # "stage"
  <2>1. Backed(k.base) BY <1>1, <1>5 DEF Fits
  <2>2. Backed(to) BY <1>1, <2>1, LookupIsBacked, Members
  <2> QED BY <1>2, <1>3, <1>5, <2>2
<1> QED BY <1>4, <1>5

\* The record of a write that begins.
LEMMA BegunRecord ==
  ASSUME Inv, NEW to \in Blobs, NEW kind \in WriteKinds, NEW gone \in BOOLEAN,
         kind = "cache" => Backed(to), NEW n, n = begun + 1,
         NEW r, r = [state |-> IF kind = "cache" /\ record[to].state \in {"absent", "new"} THEN "persisted"
                               ELSE IF record[to].state = "absent" THEN "new" ELSE record[to].state,
                     bound |-> record[to].bound \/ (kind = "cache" /\ gone),
                     op |-> Op(kind, "pending", n)]
  PROVE  /\ r \in Records /\ r.state # "absent" /\ r.op # NoOp
         /\ r.op.kind = kind /\ r.op.status = "pending" /\ r.op.num = n /\ n \in Nat /\ n > begun
         /\ n \in 1..n /\ (r.bound \/ Pulled(r.state) \/ r.op.kind = "cache" => Backed(to))
<1> DEFINE old == record[to]
<1>1. n \in Nat /\ n > begun /\ n \in 1..n /\ begun \in Nat BY Members
<1>2. old \in Records /\ old.state \in States BY Members DEF Records
<1>3. PICK q \in BOOLEAN : q = (old.bound \/ (kind = "cache" /\ gone)) OBVIOUS
<1>4. PICK s \in States \ {"absent"} : s = IF kind = "cache" /\ old.state \in {"absent", "new"} THEN "persisted"
                               ELSE IF old.state = "absent" THEN "new" ELSE old.state
  BY <1>2 DEF States
<1>5. PICK o \in Operations : o = Op(kind, "pending", n)
  BY <1>1 DEF Operations, Op, WriteKinds
<1>6. r = [state |-> s, bound |-> q, op |-> o] BY <1>3, <1>4, <1>5
<1>7. r \in Records /\ r.state = s /\ r.bound = q /\ r.op = o BY <1>6 DEF Records
<1>8. o.kind = kind /\ o.status = "pending" /\ o.num = n BY <1>5 DEF Op
<1>9. r.op # NoOp BY <1>7, <1>8 DEF NoOp
<1>10. r.bound \/ Pulled(r.state) \/ r.op.kind = "cache" => Backed(to)
  <2>1. CASE kind = "cache" BY <2>1
  <2>2. CASE kind = "stage"
    <3>1. old.bound \/ Pulled(old.state) => Backed(to) BY DEF Inv, Recorded
    <3>2. ~Pulled("new") BY DEF Pulled
    <3>3. q = old.bound BY <1>2, <1>3, <2>2 DEF Records
    <3>4. s = old.state \/ s = "new" BY <1>4, <2>2
    <3> QED BY <1>7, <1>8, <2>2, <3>1, <3>2, <3>3, <3>4
  <2> QED BY <2>1, <2>2 DEF WriteKinds
<1> QED BY <1>1, <1>7, <1>8, <1>9, <1>10

LEMMA BeginKeeps ==
  ASSUME Inv, NEW c \in Contexts, Begin(c), UNCHANGED setting
  PROVE  Inv'
<1>0. SUFFICES ASSUME NEW k, k = client[c], NEW b, b = Lookup(k.base), NEW to, to = (IF b = None THEN k.base ELSE b),
                    NEW kind, kind = IF k.op = "stage" THEN "stage" ELSE "cache", NEW n, n = begun + 1,
                    NEW r, r = [state |-> IF kind = "cache" /\ record[to].state \in {"absent", "new"} THEN "persisted"
                                          ELSE IF record[to].state = "absent" THEN "new" ELSE record[to].state,
                                bound |-> record[to].bound \/ (kind = "cache" /\ b = None),
                                op |-> Op(kind, "pending", n)],
                    NEW x, x = [k EXCEPT !.step = "write", !.at = to, !.num = n, !.ref = "absent", !.found = FALSE]
             PROVE  Inv'
  OBVIOUS
<1>a. k = client[c] /\ b = Lookup(k.base) /\ to = (IF b = None THEN k.base ELSE b) BY <1>0
<1>b. kind = (IF k.op = "stage" THEN "stage" ELSE "cache") BY <1>0
<1>d. n = begun + 1 BY <1>0
<1>1. Handling(c, "begin") /\ UNCHANGED <<setting, bytes, host, term, page, task, client, known, spent>>
  BY DEF Begin
<1>2. /\ k.step = "begin" /\ k \in ClientStates /\ Fits(k) /\ LaneFree /\ k.step \in CallSteps
      /\ term \in {"idle", "purging"} /\ task = NoTask /\ task.kind = "none"
      /\ k.id \in Blobs /\ k.base \in Blobs /\ answer[c] = NoAnswer
  BY <1>1, <1>a, HandlingFinds DEF CallSteps, Handling
<1>3. /\ to \in Blobs /\ k.op \in {"stage", "read", "final"}
      /\ k.op = "stage" => to = k.id /\ to \in Locals
      /\ k.op # "stage" => Backed(to)
  BY <1>2, <1>a, BeginsAt
<1>4. CASE b # None /\ Pending(b)
  <2>1. Answer(c, Idle) /\ UNCHANGED <<record, begun, active>> BY <1>4, <1>a DEF Begin
  <2>2. Follows(Idle, k) BY <1>2, IdleFollows, Members
  <2> QED BY <1>1, <1>2, <1>a, <2>1, <2>2, FollowKeeps, IdleTyped DEF Answer, hosting
<1>5. CASE ~(b # None /\ Pending(b))
  <2>1. /\ begun' = n /\ active' = active \cup {n} /\ Persist(to, r) /\ Answer(c, x)
    BY <1>0, <1>5 DEF Begin
  <2>2. kind \in WriteKinds /\ (kind = "stage" <=> k.op = "stage") /\ (kind = "cache" => Backed(to))
    BY <1>3, <1>b DEF WriteKinds
  <2>3. PICK gone \in BOOLEAN : gone = (b = None) OBVIOUS
  <2>4. /\ r \in Records /\ r.state # "absent" /\ r.op # NoOp
        /\ r.op.kind = kind /\ r.op.status = "pending" /\ r.op.num = n /\ n \in Nat /\ n > begun
        /\ n \in 1..n /\ (r.bound \/ Pulled(r.state) \/ r.op.kind = "cache" => Backed(to))
    <3>1. r = [state |-> IF kind = "cache" /\ record[to].state \in {"absent", "new"} THEN "persisted"
                         ELSE IF record[to].state = "absent" THEN "new" ELSE record[to].state,
               bound |-> record[to].bound \/ (kind = "cache" /\ gone),
               op |-> Op(kind, "pending", n)]
      BY <1>0, <2>3
    <3> QED BY <1>3, <1>d, <2>2, <3>1, BegunRecord
  <2>5. Changes(to, r) BY <2>1, <2>2, <2>4 DEF Changes, Persist, WriteKinds
  <2>6. begun \in Nat /\ begun' \in Nat /\ begun <= begun' /\ spent' \in [Kinds -> Nat] BY <1>1, <2>1, <2>4, Members
  <2>7. /\ x \in ClientStates /\ x.op = k.op /\ x.id = k.id /\ x.base = k.base /\ x.at = to
        /\ x.step = "write" /\ x.num = n
    <3>1. x = [k EXCEPT !.step = "write", !.at = to, !.num = n, !.ref = "absent", !.found = FALSE] BY <1>0
    <3> QED BY <1>2, <1>3, <2>4, <3>1 DEF ClientStates, States
  <2>8. x.step \in Course[x.op] BY <1>3, <2>7, Courses
  <2>9. Fits(x)'
    <3>1. x.op = "stage" => x.id \in Locals /\ x.base = x.id BY <1>2, <1>3, <2>7 DEF Fits
    <3>2. n # 0 BY <2>4, <2>6
    <3>3. x.num <= begun' BY <2>1, <2>4, <2>7
    <3> QED BY <1>2, <1>3, <2>7, <2>8, <3>1, <3>2, <3>3 DEF Fits, Looked, Writing
  <2>10. Owns(x)'
    <3> SUFFICES ASSUME NEW a \in Blobs, record'[a].op.kind \in WriteKinds, record'[a].op.num = n
                 PROVE  a = to /\ (record'[a].op.kind = "stage" <=> k.op = "stage")
      BY <2>7 DEF Owns
    <3>1. CASE a = to
      <4>1. record'[a] = r BY <3>1, <2>5, Members DEF Changes
      <4> QED BY <2>2, <2>4, <3>1, <4>1
    <3>2. CASE a # to
      <4>1. record'[a] = record[a] BY <3>2, <2>5, Members DEF Changes
      <4>2. n \in 1..begun BY <4>1 DEF Inv, Recorded
      <4> QED BY <2>4, <2>6, <4>2
    <3> QED BY <3>1, <3>2
  <2>11. Operating' /\ Answering' /\ Staging' /\ answer' \in [Contexts -> ClientStates]
    <3>1. /\ x.step \notin {"commit", "writing", "apply"} /\ x.id = k.id /\ x.op = k.op /\ x.num > begun
          /\ client' = client /\ known' = known
      BY <1>1, <2>4, <2>7
    <3>2. answer' = [answer EXCEPT ![c] = x] BY <2>1 DEF Answer
    <3> QED BY <1>2, <1>3, <1>a, <2>5, <2>6, <2>7, <2>9, <2>10, <3>1, <3>2, AnsweringOn
  <2>12. Kept'
    <3>1. Spared(to)
      <4> SUFFICES ASSUME ~Backed(to)
                   PROVE  /\ to \notin known
                          /\ \A d \in Contexts : ~(answer[d].op = "stage" /\ answer[d].step = "returned" /\ answer[d].id = to)
        BY DEF Spared
      <4>1. to = k.id /\ Stages(k) BY <1>2, <1>3 DEF Stages
      <4>2. to \notin known /\ \A d \in Contexts : d # c => client[d].id # to BY <1>a, <4>1 DEF Inv, Staging
      <4>3. ASSUME NEW d \in Contexts, answer[d].op = "stage", answer[d].id = to PROVE FALSE
        <5>1. answer[d] # NoAnswer BY <4>3, IdleTyped
        <5>2. client[d].id = to BY <4>3, <5>1 DEF Inv, Answering
        <5> QED BY <1>2, <4>2, <5>1, <5>2
      <4> QED BY <4>2, <4>3 DEF Spared
    <3>2. answer' = [answer EXCEPT ![c] = x] /\ known' = known BY <1>1, <2>1 DEF Answer
    <3>3. KeepsCopy(c, x, to, r) BY <2>7 DEF KeepsCopy
    <3>4. to \in Blobs BY <1>3
    <3> QED BY <2>5, <3>1, <3>2, <3>3, <3>4, KeptOn
  <2>13. NothingLeftPending'
    <3>1. active \subseteq active' /\ r.op.num \in active' BY <2>1, <2>4
    <3> QED BY <1>1, <1>2, <1>3, <2>5, <3>1, PendingOn
  <2>14. active' \in SUBSET Nat BY <2>1, <2>4 DEF Inv, BlobsTypeOK, BlobsTypes
  <2>15. IF r.op.kind \in WriteKinds THEN r.op.num \in 1..begun' ELSE r.op.num = 0 BY <2>1, <2>2, <2>4
  <2>16. task' = NoTask /\ page' \subseteq page BY <1>1, <1>2
  <2> QED BY <1>1, <1>2, <1>3, <2>4, <2>5, <2>6, <2>11, <2>12, <2>13, <2>14, <2>15, <2>16, LaneKeeps
<1> QED BY <1>4, <1>5

\* The write of a call is that of the record it wrote, and no other.
LEMMA CurrentWriteIsOwn ==
  ASSUME Inv, NEW c \in Contexts, client[c].step \in Writing, client[c].at \in Blobs,
         NEW b, b = Lookup(client[c].at), IsCurrentWrite(b, client[c])
  PROVE  /\ b \in Blobs /\ b = client[c].at /\ record[b].op.kind \in WriteKinds
         /\ (record[b].op.kind = "stage" <=> client[c].op = "stage")
         /\ record[b].op.num = client[c].num
<1>1. b \in Blobs BY LookupCases, Members DEF IsCurrentWrite
<1>2. record[b].op.kind \in WriteKinds /\ record[b].op.num = client[c].num BY DEF IsCurrentWrite, WriteKinds
<1>3. Owns(client[c]) BY Members
<1> QED BY <1>1, <1>2, <1>3 DEF Owns

\* What a write that is committed leaves in its record.
Committed(b) ==
  [record[b] EXCEPT !.op = NoOp, !.state = IF record[b].op.kind = "stage" THEN "staged" ELSE "cached"]

LEMMA CommittedRecord ==
  ASSUME Inv, NEW b \in Blobs, record[b].op.kind \in WriteKinds, NEW r, r = Committed(b)
  PROVE  /\ r \in Records /\ r.op = NoOp /\ r.state = (IF record[b].op.kind = "stage" THEN "staged" ELSE "cached")
         /\ r.op.kind = "none" /\ r.op.status = "none" /\ r.op.num = 0
         /\ (r.bound \/ Pulled(r.state) \/ r.op.kind = "cache" => Backed(b))
<1>1. NoOp \in Operations /\ NoOp.kind = "none" /\ NoOp.status = "none" /\ NoOp.num = 0 BY DEF NoOp, Operations
<1>2. record[b] \in Records BY Members
<1>3. /\ r \in Records /\ r.op = NoOp /\ r.bound = record[b].bound
      /\ r.state = (IF record[b].op.kind = "stage" THEN "staged" ELSE "cached")
  BY <1>1, <1>2 DEF Records, States, Committed
<1>4. r.bound \/ Pulled(r.state) \/ r.op.kind = "cache" => Backed(b)
  BY <1>1, <1>3 DEF Inv, Recorded, Pulled, WriteKinds
<1> QED BY <1>1, <1>3, <1>4

LEMMA CommitKeeps ==
  ASSUME Inv, NEW c \in Contexts, Commit(c), UNCHANGED setting
  PROVE  Inv'
<1> SUFFICES ASSUME NEW k, k = client[c], NEW b, b = Lookup(k.at)
             PROVE  Inv'
  OBVIOUS
<1>1. Handling(c, "commit") /\ UNCHANGED <<setting, bytes, host, term, page, task, client, known, begun, spent>>
  BY DEF Commit
<1>2. /\ k.step = "commit" /\ k \in ClientStates /\ Fits(k) /\ Owns(k) /\ LaneFree /\ k.step \in CallSteps
      /\ term \in {"idle", "purging"} /\ task = NoTask /\ task.kind = "none"
      /\ k.at \in Blobs /\ k.id \in Blobs
  BY <1>1, HandlingFinds DEF CallSteps
<1>3. CASE IsCurrentWrite(b, k) /\ Pending(b)
  <2>0. SUFFICES ASSUME NEW r, r = Committed(b),
                        NEW x, x = IF k.op = "stage" THEN Returned(k) ELSE WithBytes([k EXCEPT !.got = "whole"])
                 PROVE  Inv'
    OBVIOUS
  <2>1. Persist(b, r) /\ active' = active \ {k.num} /\ Answer(c, x) BY <1>3, <2>0 DEF Commit, Committed
  <2>2. /\ b \in Blobs /\ b = k.at /\ record[b].op.kind \in WriteKinds
        /\ (record[b].op.kind = "stage" <=> k.op = "stage") /\ record[b].op.num = k.num
    BY <1>2, <1>3, CurrentWriteIsOwn DEF Writing
  <2>3. bytes[b] = "whole" BY <1>2, <1>3, <2>2 DEF Inv, Written
  <2>4. /\ r \in Records /\ r.op = NoOp /\ r.state = (IF record[b].op.kind = "stage" THEN "staged" ELSE "cached")
        /\ r.op.kind = "none" /\ r.op.status = "none" /\ r.op.num = 0
        /\ (r.bound \/ Pulled(r.state) \/ r.op.kind = "cache" => Backed(b))
    BY <2>0, <2>2, CommittedRecord
  <2>5. Changes(b, r) BY <2>1, <2>4 DEF Changes, Persist, WriteKinds
  <2>6. k.op \in {"stage", "read", "final"} BY <1>2, Courses DEF Fits, ClientStates
  <2>7. Follows(x, k)
    <3>1. CASE k.op = "stage" BY <1>2, <2>0, <3>1, ReturnedFollows, Members
    <3>2. CASE k.op # "stage"
      <4>1. Follows(WithBytes([k EXCEPT !.got = "whole"]), k) BY <1>2, <2>6, <3>2, WithBytesFollows, Members
      <4> QED BY <2>0, <3>2, <4>1
    <3> QED BY <3>1, <3>2
  <2>8. /\ begun \in Nat /\ begun' = begun /\ begun' \in Nat /\ begun <= begun' /\ known \subseteq known'
        /\ spent' \in [Kinds -> Nat] /\ client' = client /\ known' = known
    BY <1>1, Members
  <2>9. x \in ClientStates /\ x.num \in Nat /\ Fits(x) /\ x.step \notin {"commit", "writing", "apply"}
    BY <2>7 DEF ClientStates, Follows, Writing
  <2>10. Fits(x)' BY <2>8, <2>9, FitsOn
  <2>11. Owns(x)' BY <2>7 DEF Owns, Follows
  <2>12. answer' = [answer EXCEPT ![c] = x] BY <2>1 DEF Answer
  <2>13. Operating' /\ Answering' /\ Staging' /\ answer' \in [Contexts -> ClientStates]
    BY <1>2, <2>2, <2>5, <2>7, <2>8, <2>9, <2>10, <2>11, <2>12, AnsweringOn DEF Follows
  <2>14. Kept'
    <3>1. record[b].op # NoOp BY <2>2, <2>4 DEF WriteKinds
    <3>2. Spared(b) BY <3>1 DEF Spared
    <3>3. x.op = "stage" => k.op = "stage" /\ x.id = k.id BY <2>7 DEF Follows
    <3>4. k.op = "stage" => k.at = k.id BY <1>2 DEF Fits, Writing
    <3>5. KeepsCopy(c, x, b, r) BY <2>2, <2>4, <3>3, <3>4 DEF KeepsCopy
    <3> QED BY <2>2, <2>5, <2>8, <2>12, <3>2, <3>5, KeptOn
  <2>15. NothingLeftPending'
    <3>1. active' = active \ {record[b].op.num} /\ r.op.status # "pending" /\ term' = term
      BY <1>1, <2>1, <2>2, <2>4
    <3> QED BY <1>2, <2>2, <2>5, <3>1, PendingLess
  <2>16. active' \in SUBSET Nat BY <2>1 DEF Inv, BlobsTypeOK, BlobsTypes
  <2>17. r.op.kind \notin WriteKinds BY <2>4 DEF WriteKinds
  <2>18. task' = NoTask /\ page' \subseteq page BY <1>1, <1>2
  <2> QED BY <1>1, <1>2, <2>2, <2>3, <2>4, <2>5, <2>8, <2>13, <2>14, <2>15, <2>16, <2>17, <2>18, LaneKeeps
<1>4. CASE ~(IsCurrentWrite(b, k) /\ Pending(b))
  <2>0. SUFFICES ASSUME NEW x, x = [k EXCEPT !.step = "fail"]
                 PROVE  Inv'
    OBVIOUS
  <2>1. Answer(c, x) /\ UNCHANGED <<record, active>> BY <1>4, <2>0 DEF Commit
  <2>2. /\ x \in ClientStates /\ Fits(x) /\ Owns(x) /\ x.op = k.op /\ x.id = k.id
        /\ x.num = k.num /\ x.step = "fail"
    BY <1>2, <2>0, WritingOn DEF Writing
  <2> QED BY <1>1, <1>2, <2>1, <2>2, AnswerKeeps DEF Answer, hosting
<1> QED BY <1>3, <1>4

LEMMA BindKeeps ==
  ASSUME Inv, NEW c \in Contexts, Bind(c), UNCHANGED setting
  PROVE  Inv'
<1> SUFFICES ASSUME NEW k, k = client[c], NEW b, b = Lookup(k.id)
             PROVE  Inv'
  OBVIOUS
<1>1. Handling(c, "bind") /\ UNCHANGED <<setting, bytes, hosting, client, known, begun, spent>>
  BY DEF Bind, OnlyAnswers
<1>2. /\ k.step = "bind" /\ k \in ClientStates /\ Fits(k) /\ LaneFree /\ k.step \in CallSteps
      /\ term \in {"idle", "purging"} /\ task = NoTask /\ task.kind = "none" /\ k.id \in Blobs
  BY <1>1, HandlingFinds DEF CallSteps
<1>3. k.op = "bind" /\ Backed(k.id) BY <1>2, Courses DEF Fits, ClientStates
<1>4. CASE b = None \/ Pending(b)
  <2>1. Answer(c, Idle) /\ UNCHANGED record BY <1>4 DEF Bind
  <2>2. Follows(Idle, k) BY <1>2, IdleFollows, Members
  <2> QED BY <1>1, <1>2, <2>1, <2>2, FollowKeeps, IdleTyped DEF Answer
<1>5. CASE ~(b = None \/ Pending(b))
  <2>0. SUFFICES ASSUME NEW r, r = [state |-> "persisted", bound |-> TRUE, op |-> NoOp], NEW x, x = Returned(k)
                 PROVE  Inv'
    OBVIOUS
  <2>1. Persist(b, r) /\ Answer(c, x) BY <1>5, <2>0 DEF Bind
  <2>2. b \in Blobs /\ Backed(b) BY <1>2, <1>3, <1>5, LookupCases, LookupIsBacked, Members
  <2>3. NoOp \in Operations /\ NoOp.kind = "none" /\ NoOp.status = "none" /\ NoOp.num = 0 BY DEF NoOp, Operations
  <2>4. r \in Records /\ r.op = NoOp /\ r.state = "persisted" BY <2>0, <2>3 DEF Records, States
  <2>5. Changes(b, r) BY <2>1, <2>3, <2>4 DEF Changes, Persist, WriteKinds
  <2>6. Follows(x, k) /\ x.op = "bind" BY <1>2, <1>3, <2>0, ReturnedFollows, Members
  <2>7. /\ begun \in Nat /\ begun' = begun /\ begun' \in Nat /\ begun <= begun' /\ known \subseteq known'
        /\ spent' \in [Kinds -> Nat] /\ client' = client /\ known' = known
    BY <1>1, Members
  <2>8. x \in ClientStates /\ x.num \in Nat /\ Fits(x) /\ x.step \notin {"commit", "writing", "apply"}
    BY <2>6 DEF ClientStates, Follows, Writing
  <2>9. Fits(x)' BY <2>7, <2>8, FitsOn
  <2>10. Owns(x)' BY <2>6 DEF Owns, Follows
  <2>11. answer' = [answer EXCEPT ![c] = x] BY <2>1 DEF Answer
  <2>12. Operating' /\ Answering' /\ Staging' /\ answer' \in [Contexts -> ClientStates]
    BY <1>2, <2>2, <2>5, <2>6, <2>7, <2>8, <2>9, <2>10, <2>11, AnsweringOn DEF Follows
  <2>13. Kept'
    <3>1. Spared(b) BY <2>2 DEF Spared
    <3>2. KeepsCopy(c, x, b, r) BY <2>6 DEF KeepsCopy
    <3> QED BY <2>2, <2>5, <2>7, <2>11, <3>1, <3>2, KeptOn
  <2>14. /\ task' = NoTask /\ page' \subseteq page /\ term' = term /\ host' = host
         /\ active \subseteq active' /\ active' \in SUBSET Nat
    BY <1>1, <1>2 DEF hosting, Inv, BlobsTypeOK, BlobsTypes
  <2>15. NothingLeftPending' BY <1>2, <2>2, <2>3, <2>4, <2>5, <2>14, PendingOn
  <2>16. r.op.kind \notin WriteKinds /\ r.op.num = 0 BY <2>3, <2>4 DEF WriteKinds
  <2>17. bytes' = bytes BY <1>1
  <2> QED BY <1>2, <2>2, <2>4, <2>5, <2>7, <2>12, <2>13, <2>14, <2>15, <2>16, <2>17, LaneKeeps
<1> QED BY <1>4, <1>5

\* A record whose operation is marked failed.
Marked(b) == [record[b] EXCEPT !.op.status = "failed"]

LEMMA MarkedRecord ==
  ASSUME Inv, NEW b \in Blobs, record[b].op.kind # "none", NEW r, r = Marked(b)
  PROVE  /\ r \in Records /\ r.state = record[b].state /\ r.bound = record[b].bound
         /\ r.op.kind = record[b].op.kind /\ r.op.num = record[b].op.num /\ r.op.status = "failed"
         /\ r.op # NoOp /\ record[b].op # NoOp
         /\ (record' = [record EXCEPT ![b] = r] => Changes(b, r))
<1>1. record[b] \in Records /\ record[b].op \in Operations BY Members DEF Records
<1> DEFINE o == [record[b].op EXCEPT !.status = "failed"]
<1>2. o \in Operations /\ o.kind = record[b].op.kind /\ o.num = record[b].op.num /\ o.status = "failed"
  BY <1>1 DEF Operations
<1>3. r = [record[b] EXCEPT !.op = o] BY <1>1 DEF Marked, Records
<1> HIDE DEF o
<1>4. r \in Records /\ r.state = record[b].state /\ r.bound = record[b].bound /\ r.op = o
  BY <1>1, <1>2, <1>3 DEF Records
<1>5. r.op # NoOp /\ record[b].op # NoOp BY <1>2, <1>4 DEF NoOp
<1>6. r.state # "absent"
  <2>1. Absent.op = NoOp BY DEF Absent
  <2> QED BY <1>4, <1>5, <2>1, Members DEF BlobsTypeOK, RecordsMatch
<1>7. record' = [record EXCEPT ![b] = r] => Changes(b, r)
  BY <1>2, <1>4, <1>6 DEF Changes
<1> QED BY <1>2, <1>4, <1>5, <1>7

LEMMA FailEndsKeeps ==
  ASSUME Inv, FailEnds, UNCHANGED setting
  PROVE  Inv'
<1>1. /\ task.kind = "fail" /\ task' = NoTask /\ active' = active \ {record[task.id].op.num}
      /\ MarkFailed(task.id)
      /\ UNCHANGED <<setting, bytes, host, term, page, client, known, begun, spent>>
  BY DEF FailEnds
<1>2. PICK c \in Contexts : c = task.by BY <1>1 DEF Inv, Hosting
<1>3. PICK b \in Blobs : b = task.id
  <2>1. task # NoTask BY <1>1 DEF NoTask
  <2> QED BY <2>1 DEF Inv, BlobsTypeOK, TaskMatches
<1>4. term \in {"idle", "purging"} /\ record[b].op.kind \in WriteKinds BY <1>1, <1>3 DEF Inv, Hosting
<1>5. PICK r : r = Marked(b) OBVIOUS
<1>6. record' = [record EXCEPT ![b] = r]
  <2>1. r = [record[b] EXCEPT !.op.status = "failed"] BY <1>5 DEF Marked
  <2> QED BY <1>1, <1>3, <2>1 DEF MarkFailed, Persist
<1>7. record[b].op.kind # "none" BY <1>4 DEF WriteKinds
<1>8. /\ r \in Records /\ r.state = record[b].state /\ r.bound = record[b].bound
      /\ r.op.kind = record[b].op.kind /\ r.op.num = record[b].op.num /\ r.op.status = "failed"
      /\ r.op # NoOp /\ record[b].op # NoOp /\ Changes(b, r)
  BY <1>5, <1>6, <1>7, MarkedRecord
<1>9. /\ begun \in Nat /\ begun' = begun /\ begun' \in Nat /\ begun <= begun' /\ known \subseteq known'
      /\ spent' \in [Kinds -> Nat] /\ client' = client /\ known' = known
  BY <1>1, Members
<1>10. Spared(b) BY <1>8 DEF Spared
<1>11. Operating' /\ Answering' /\ Staging' /\ answer' \in [Contexts -> ClientStates] /\ Kept'
  <2>1. CASE client[c].step = "fail" /\ client[c].num = record[b].op.num
    <3>1. answer' = [answer EXCEPT ![c] = Idle] BY <1>2, <1>3, <2>1 DEF FailEnds, Answer
    <3>2. /\ Idle \in ClientStates /\ Idle.step \notin {"commit", "writing", "apply"} /\ Idle.op # "stage"
          /\ Idle.op = "none" /\ Idle.num = 0 /\ client[c].step \in CallSteps
      BY <2>1, IdleTyped DEF CallSteps
    <3>3. Fits(Idle) BY IdleFollows, Members, IdleTyped DEF Follows
    <3>4. Fits(Idle)' BY <1>9, <3>2, <3>3, FitsOn
    <3>5. Owns(Idle)' BY IdleTyped DEF Owns, Writing
    <3>6. PICK x \in ClientStates : x = Idle BY <3>2
    <3>7. /\ answer' = [answer EXCEPT ![c] = x] /\ x.step \notin {"commit", "writing", "apply"} /\ x.op # "stage"
          /\ x.op = "none" /\ x.num = 0
      BY <3>1, <3>2, <3>6
    <3>8. Fits(x)' /\ Owns(x)' BY <3>4, <3>5, <3>6, IdleTyped DEF Owns, Writing, Fits, Looked, Idle
    <3>9. Operating' /\ Answering' /\ Staging' /\ answer' \in [Contexts -> ClientStates]
      BY <1>8, <1>9, <3>2, <3>7, <3>8, AnsweringOn
    <3>10. KeepsCopy(c, x, b, r) BY <3>7 DEF KeepsCopy
    <3>11. Kept' BY <1>8, <1>9, <1>10, <3>7, <3>10, KeptOn
    <3> QED BY <3>9, <3>11
  <2>2. CASE ~(client[c].step = "fail" /\ client[c].num = record[b].op.num)
    <3>1. answer' = answer BY <1>2, <1>3, <2>2 DEF FailEnds
    <3>2. Operating' /\ Answering' /\ Staging' BY <1>8, <1>9, <3>1, RestingOn
    <3>3. PICK x : x = answer[c] OBVIOUS
    <3>4. answer' = [answer EXCEPT ![c] = x] BY <3>1, <3>3, Members
    <3>5. KeepsCopy(c, x, b, r) BY <3>3 DEF KeepsCopy
    <3>6. Kept' BY <1>8, <1>9, <1>10, <3>4, <3>5, KeptOn
    <3> QED BY <3>1, <3>2, <3>6, Members
  <2> QED BY <2>1, <2>2
<1>12. NothingLeftPending'
  <2>1. active' = active \ {record[b].op.num} /\ r.op.status # "pending" /\ task.kind # "purge"
    BY <1>1, <1>3, <1>8
  <2> QED BY <1>1, <1>4, <1>8, <2>1, PendingLess
<1>13. active' \in SUBSET Nat BY <1>1 DEF Inv, BlobsTypeOK, BlobsTypes
<1>14. IF r.op.kind \in WriteKinds THEN r.op.num \in 1..begun' ELSE r.op.num = 0
  BY <1>8, <1>9 DEF Inv, Recorded
<1>15. r.bound \/ Pulled(r.state) \/ r.op.kind = "cache" => Backed(b) BY <1>8 DEF Inv, Recorded
<1>16. page' \subseteq page BY <1>1
<1> QED BY <1>1, <1>4, <1>8, <1>9, <1>11, <1>12, <1>13, <1>14, <1>15, <1>16, LaneKeeps

----------------------------------------------------------------------------
(* Steps of the host that change no record *)

LEMMA HostStepKeeps ==
  ASSUME Inv, UNCHANGED <<setting, record, client, answer, known, begun>>,
         bytes' \in [Blobs -> {"none", "partial", "whole"}], host' \in Contexts \cup {None},
         term' \in {"off", "recovering", "idle", "purging", "stopped"}, page' \in SUBSET Blobs,
         active' \in SUBSET Nat, spent' \in [Kinds -> Nat],
         task' \in Tasks,
         HostMatches', TaskMatches', Hosting', Recovering', Written', CommittedHasBytes', NothingLeftPending'
  PROVE  Inv'
<1>1. BlobsTypeOK'
  <2>1. BlobsTypes' BY DEF BlobsTypes, Inv, BlobsTypeOK
  <2>2. RecordsMatch' BY DEF Inv, BlobsTypeOK, RecordsMatch
  <2> QED BY <2>1, <2>2, Members DEF BlobsTypeOK
<1>2. Operating' /\ Answering' /\ Staging'
  <2>1. \A d \in Contexts : Views(d)' = Views(d) BY DEF Views
  <2>2. \A d \in Contexts : \A y \in Views(d) : Fits(y)' /\ Owns(y)'
    BY DEF Inv, Operating, Fits, Owns, Backed
  <2>3. \A d, e \in Contexts : d # e =>
          \A y \in Views(d), z \in Views(e) : y.num = z.num => y.num = 0
    BY DEF Inv, Operating
  <2>4. \A d \in Contexts : \A y \in Views(d)' : Fits(y)' /\ Owns(y)' BY <2>1, <2>2
  <2>5. \A d, e \in Contexts : d # e =>
          \A y \in Views(d)', z \in Views(e)' : y.num = z.num => y.num = 0
    BY <2>1, <2>3
  <2>6. Operating' BY <2>4, <2>5 DEF Operating
  <2> QED BY <2>6 DEF Inv, Answering, Staging
<1>3. Recorded' BY DEF Inv, Recorded, Backed
<1>4. Kept' BY DEF Inv, Kept, Backed
<1> QED BY <1>1, <1>2, <1>3, <1>4 DEF Inv

\* Where no record changes, queries return what they returned.
LEMMA SameLookups ==
  ASSUME record' = record, setting' = setting
  PROVE  \A b \in Blobs : /\ Lookup(b)' = Lookup(b) /\ (Pending(b)' <=> Pending(b)) /\ (Present(b)' <=> Present(b))
                          /\ Aliases(b)' = Aliases(b)
BY DEF Lookup, Pending, Present, Aliases

LEMMA FailKeeps ==
  ASSUME Inv, NEW c \in Contexts, Fail(c), UNCHANGED setting
  PROVE  Inv'
<1> SUFFICES ASSUME NEW k, k = client[c], NEW b, b = Lookup(k.at)
             PROVE  Inv'
  OBVIOUS
<1>1. Handling(c, "fail") /\ UNCHANGED <<setting, record, host, term, page, active, client, known, begun>>
  BY DEF Fail
<1>2. /\ k.step = "fail" /\ k \in ClientStates /\ Fits(k) /\ LaneFree /\ k.step \in CallSteps
      /\ term \in {"idle", "purging"} /\ task = NoTask /\ task.kind = "none" /\ k.at \in Blobs
  BY <1>1, HandlingFinds DEF CallSteps
<1>3. CASE ~IsCurrentWrite(b, k)
  <2>1. Answer(c, Idle) /\ UNCHANGED <<bytes, task, spent>> BY <1>3 DEF Fail
  <2>2. Follows(Idle, k) BY <1>2, IdleFollows, Members
  <2> QED BY <1>1, <1>2, <2>1, <2>2, FollowKeeps, IdleTyped DEF Answer, hosting
<1>4. CASE IsCurrentWrite(b, k)
  <2>1. /\ Deleted(b) \/ DeleteFails
        /\ task' = [kind |-> "fail", id |-> b, deleted |-> TRUE, by |-> c] /\ answer' = answer
    BY <1>4 DEF Fail
  <2>2. /\ b \in Blobs /\ b = k.at /\ record[b].op.kind \in WriteKinds
        /\ record[b].op.num = k.num
    BY <1>2, <1>4, CurrentWriteIsOwn DEF Writing
  <2>3. /\ bytes' \in [Blobs -> {"none", "partial", "whole"}] /\ spent' \in [Kinds -> Nat]
        /\ \A a \in Blobs : a # b => bytes'[a] = bytes[a]
    <3>1. CASE Deleted(b) BY <3>1, Members DEF Deleted
    <3>2. CASE DeleteFails BY <3>2, DisruptCounts, Members DEF DeleteFails, Kinds
    <3> QED BY <2>1, <3>1, <3>2
  <2>4. /\ task'.kind = "fail" /\ task'.id = b /\ task'.by = c
        /\ task' \in Tasks
    BY <2>1, <2>2 DEF Tasks
  <2>5. HostMatches' /\ TaskMatches'
    <3>1. Present(b)
      <4>1. Absent.op.kind = "none" BY DEF Absent, NoOp
      <4> QED BY <2>2, <4>1, Members DEF BlobsTypeOK, RecordsMatch, Present, WriteKinds
    <3>2. Present(b)' BY <1>1, <2>2, <3>1 DEF Present
    <3> QED BY <1>1, <2>2, <2>4, <3>2 DEF HostMatches, TaskMatches, Inv, BlobsTypeOK, Present
  <2>6. Hosting'
    <3>1. page \subseteq Blobs BY DEF Inv, BlobsTypeOK, BlobsTypes
    <3>2. term = "purging" => \A i \in page : Backed(i)' BY <1>1 DEF Inv, Hosting, Backed
    <3>3. term = "idle" => page = {} BY DEF Inv, Hosting
    <3> QED BY <1>1, <1>2, <2>2, <2>4, <3>2, <3>3 DEF Hosting
  <2>7. Recovering' BY <1>1, <1>2 DEF Recovering
  <2>8. Written'
    <3> SUFFICES ASSUME NEW d \in Contexts, NEW a \in Blobs, client[d].step = "commit", client[d].at = a,
                        record[a].op.num = client[d].num, record[a].op.kind \in WriteKinds, Pending(a)
                 PROVE  bytes'[a] = "whole"
      BY <1>1 DEF Written, Pending
    <3>1. bytes[a] = "whole" BY <1>2 DEF Inv, Written
    <3>2. a # b
      <4>1. SUFFICES ASSUME a = b PROVE FALSE OBVIOUS
      <4>2. client[d].num = client[c].num BY <2>2, <4>1
      <4>3. d # c BY <1>2
      <4>4. client[d].num # 0 BY Members DEF Fits, Writing
      <4> QED BY <4>2, <4>3, <4>4 DEF Inv, Operating, Views
    <3> QED BY <2>3, <3>1, <3>2
  <2>9. CommittedHasBytes'
    <3>1. record[b].op # NoOp BY <2>2 DEF NoOp, WriteKinds
    <3> QED BY <1>1, <2>3, <3>1 DEF Inv, CommittedHasBytes
  <2>10. NothingLeftPending' BY <1>1, <1>2 DEF Inv, NothingLeftPending, Pending
  <2>11. /\ host' \in Contexts \cup {None} /\ term' \in {"off", "recovering", "idle", "purging", "stopped"}
         /\ page' \in SUBSET Blobs /\ active' \in SUBSET Nat
    BY <1>1 DEF Inv, BlobsTypeOK, BlobsTypes
  <2> QED BY <1>1, <2>1, <2>3, <2>4, <2>5, <2>6, <2>7, <2>8, <2>9, <2>10, <2>11, HostStepKeeps
<1> QED BY <1>3, <1>4

LEMMA BecomeHostKeeps ==
  ASSUME Inv, NEW c \in Contexts, BecomeHost(c), UNCHANGED setting
  PROVE  Inv'
<1>1. /\ host = None /\ host' = c /\ term' = "recovering"
      /\ page' = {b \in Blobs : Pending(b)} /\ active' = {} /\ task' = NoTask
      /\ UNCHANGED <<setting, record, bytes, client, answer, known, begun, spent>>
  BY DEF BecomeHost
<1>2. term = "off" BY <1>1 DEF Inv, BlobsTypeOK, HostMatches
<1>3. NoTask.kind = "none" /\ NoTask \in Tasks BY NoTaskTyped
<1>4. HostMatches' /\ TaskMatches'
  BY <1>1, Members, BlobsAssumption DEF HostMatches, TaskMatches
<1>5. Hosting' BY <1>1, <1>3 DEF Hosting
<1>6. \A b \in Blobs : Lookup(b)' = Lookup(b) /\ (Pending(b)' <=> Pending(b)) BY <1>1, SameLookups
<1>7. Recovering' BY <1>1, <1>6 DEF Recovering
<1>8. Written'
  <2> SUFFICES ASSUME NEW d \in Contexts, NEW b \in Blobs, client[d].step = "commit", client[d].at = b,
                      record[b].op.num = client[d].num, record[b].op.kind \in WriteKinds, Pending(b)
               PROVE  bytes[b] = "whole" \/ (Lookup(b) = b /\ b \in page')
    BY <1>1, <1>6 DEF Written
  <2>1. b \in page' BY <1>1
  <2> QED BY <2>1 DEF Inv, Written
<1>9. CommittedHasBytes' BY <1>1 DEF Inv, CommittedHasBytes
<1>10. NothingLeftPending' BY <1>1 DEF NothingLeftPending
<1>11. /\ host' \in Contexts \cup {None} /\ term' \in {"off", "recovering", "idle", "purging", "stopped"}
       /\ page' \in SUBSET Blobs /\ active' \in SUBSET Nat
  BY <1>1
<1> QED BY <1>1, <1>3, <1>4, <1>5, <1>7, <1>8, <1>9, <1>10, <1>11, Members, HostStepKeeps

LEMMA PageEndsKeeps ==
  ASSUME Inv, PageEnds, UNCHANGED setting
  PROVE  Inv'
<1>1. /\ term \in {"recovering", "purging"} /\ page = {} /\ task = NoTask /\ term' = "idle"
      /\ UNCHANGED <<setting, record, bytes, host, page, active, task, client, answer, known, begun, spent>>
  BY DEF PageEnds
<1>2. task.kind = "none" BY <1>1 DEF NoTask
<1>3. HostMatches' /\ TaskMatches'
  BY <1>1 DEF HostMatches, TaskMatches, Inv, BlobsTypeOK
<1>4. Hosting' BY <1>1, <1>2 DEF Hosting
<1>5. \A b \in Blobs : Lookup(b)' = Lookup(b) /\ (Pending(b)' <=> Pending(b)) BY <1>1, SameLookups
<1>6. Recovering' BY <1>1 DEF Recovering
<1>7. Written' BY <1>1, <1>5 DEF Written, Inv
<1>8. CommittedHasBytes' BY <1>1 DEF Inv, CommittedHasBytes
<1>9. NothingLeftPending'
  <2> SUFFICES ASSUME NEW b \in Blobs, Pending(b), ~setting.boundFirst
               PROVE  record[b].op.num \in active
    BY <1>1, <1>5 DEF NothingLeftPending
  <2>1. CASE term = "recovering" BY <1>1, <2>1 DEF Inv, Recovering
  <2>2. CASE term = "purging" BY <1>2, <2>2 DEF Inv, NothingLeftPending
  <2> QED BY <1>1, <2>1, <2>2
<1>10. /\ host' \in Contexts \cup {None} /\ term' \in {"off", "recovering", "idle", "purging", "stopped"}
       /\ page' \in SUBSET Blobs /\ active' \in SUBSET Nat /\ spent' \in [Kinds -> Nat]
       /\ bytes' \in [Blobs -> {"none", "partial", "whole"}]
       /\ task' \in Tasks
  BY <1>1 DEF Inv, BlobsTypeOK, BlobsTypes
<1> QED BY <1>1, <1>3, <1>4, <1>6, <1>7, <1>8, <1>9, <1>10, HostStepKeeps

LEMMA CollectKeeps ==
  ASSUME Inv, Collect, UNCHANGED setting
  PROVE  Inv'
<1>1. /\ term = "idle" /\ term' = "purging" /\ page' \subseteq Candidates
      /\ UNCHANGED <<setting, record, bytes, host, active, task, client, answer, known, begun, spent>>
  BY DEF Collect
<1>2. HostMatches' /\ TaskMatches'
  BY <1>1 DEF HostMatches, TaskMatches, Inv, BlobsTypeOK, Present
<1>3. Hosting'
  <2>1. \A i \in page' : i \in Blobs /\ Backed(i)' BY <1>1 DEF Candidates, Inv, Recorded, Backed
  <2>2. task.kind \in {"none", "fail"}
    <3>1. task.kind \in {"none", "fail", "recover", "purge"} BY DEF Inv, BlobsTypeOK, BlobsTypes, Tasks
    <3> QED BY <1>1, <3>1 DEF Inv, Hosting
  <2> QED BY <1>1, <2>1, <2>2 DEF Inv, Hosting
<1>4. \A b \in Blobs : Lookup(b)' = Lookup(b) /\ (Pending(b)' <=> Pending(b)) BY <1>1, SameLookups
<1>5. Recovering' BY <1>1 DEF Recovering
<1>6. Written' BY <1>1, <1>4 DEF Written, Inv
<1>7. CommittedHasBytes' BY <1>1 DEF Inv, CommittedHasBytes
<1>8. NothingLeftPending' BY <1>1, <1>4 DEF Inv, NothingLeftPending
<1>9. /\ host' \in Contexts \cup {None} /\ term' \in {"off", "recovering", "idle", "purging", "stopped"}
      /\ page' \in SUBSET Blobs /\ active' \in SUBSET Nat /\ spent' \in [Kinds -> Nat]
      /\ bytes' \in [Blobs -> {"none", "partial", "whole"}]
      /\ task' \in Tasks
  BY <1>1 DEF Inv, BlobsTypeOK, BlobsTypes, Candidates
<1> QED BY <1>1, <1>2, <1>3, <1>5, <1>6, <1>7, <1>8, <1>9, HostStepKeeps

\* Recovery visits the record that a query for its id returns: a bound local one, or its own.
LEMMA VisitedIsPaged ==
  ASSUME Inv, term = "recovering", NEW i \in Blobs, i \in page, NEW b, b = Lookup(i), Interrupted(b)
  PROVE  b \in Blobs /\ Present(b) /\ Pending(b) /\ Lookup(b) = b /\ b \in page
<1>1. b # None /\ Pending(b) BY DEF Interrupted
<1>2. b \in Blobs /\ Present(b) BY <1>1, LookupFindsRecords, Members
<1>3. CASE b = i BY <1>1, <1>2, <1>3
<1>4. CASE b \in Locals
  <2>1. Lookup(b) = b BY <1>2, <1>4, LookupOfLocal, Members
  <2>2. b \in page BY <1>1, <1>2, <1>4 DEF Inv, Recovering
  <2> QED BY <1>1, <1>2, <2>1, <2>2
<1> QED BY <1>1, <1>3, <1>4, LookupCases, Members

LEMMA RecoverVisitsKeeps ==
  ASSUME Inv, NEW i \in Blobs, RecoverVisits(i), UNCHANGED setting
  PROVE  Inv'
<1> SUFFICES ASSUME NEW b, b = Lookup(i)
             PROVE  Inv'
  OBVIOUS
<1>1. /\ term = "recovering" /\ task = NoTask /\ i \in page /\ task.kind = "none" /\ active = {}
      /\ UNCHANGED <<setting, record, host, term, active, client, answer, known, begun>>
  BY DEF RecoverVisits, NoTask, Inv, Hosting
<1>2. \A a \in Blobs : Lookup(a)' = Lookup(a) /\ (Pending(a)' <=> Pending(a)) /\ (Present(a)' <=> Present(a))
  BY <1>1, SameLookups
<1>3. NothingLeftPending' BY <1>1 DEF NothingLeftPending
<1>4. /\ host' \in Contexts \cup {None} /\ term' \in {"off", "recovering", "idle", "purging", "stopped"}
      /\ active' \in SUBSET Nat
  BY <1>1 DEF Inv, BlobsTypeOK, BlobsTypes
<1>5. HostMatches' BY <1>1 DEF HostMatches, Inv, BlobsTypeOK
<1>6. CASE Interrupted(b)
  <2>1. PICK deleted \in BOOLEAN :
           /\ IF deleted THEN Deleted(b) ELSE DeleteFails
           /\ task' = [kind |-> "recover", id |-> b, deleted |-> deleted, by |-> i]
    BY <1>6 DEF RecoverVisits
  <2>2. page' = page BY <1>6 DEF RecoverVisits
  <2>3. b \in Blobs /\ Present(b) /\ Pending(b) /\ Lookup(b) = b /\ b \in page BY <1>1, <1>6, VisitedIsPaged
  <2>4. /\ bytes' \in [Blobs -> {"none", "partial", "whole"}] /\ spent' \in [Kinds -> Nat]
        /\ \A a \in Blobs : a # b => bytes'[a] = bytes[a]
    <3>1. CASE Deleted(b) BY <3>1, Members DEF Deleted
    <3>2. CASE DeleteFails BY <3>2, DisruptCounts, Members DEF DeleteFails, Kinds
    <3> QED BY <2>1, <3>1, <3>2
  <2>5. /\ task'.kind = "recover" /\ task'.id = b /\ task'.by = i
        /\ task' \in Tasks
    BY <2>1, <2>3 DEF Tasks
  <2>6. TaskMatches' BY <1>1, <2>3, <2>5 DEF TaskMatches, Present
  <2>7. Hosting'
    <3>1. Pending(b)' /\ Lookup(i)' = b BY <1>2, <2>3
    <3>2. record'[task'.id].op.status = "pending" BY <2>5, <3>1 DEF Pending
    <3>3. \A a \in Blobs : task'.by = a => Lookup(a)' = task'.id BY <2>5, <3>1
    <3> QED BY <1>1, <2>2, <2>5, <3>2, <3>3 DEF Hosting
  <2>8. Recovering' BY <1>1, <1>2, <2>2 DEF Inv, Recovering
  <2>9. Written'
    <3> SUFFICES ASSUME NEW d \in Contexts, NEW a \in Blobs, client[d].step = "commit", client[d].at = a,
                        record[a].op.num = client[d].num, record[a].op.kind \in WriteKinds, Pending(a)
                 PROVE  bytes'[a] = "whole" \/ (Lookup(a) = a /\ a \in page)
      BY <1>1, <1>2, <2>2 DEF Written
    <3>1. CASE a = b BY <2>3, <3>1
    <3>2. CASE a # b
      <4>1. bytes[a] = "whole" \/ (Lookup(a) = a /\ a \in page) BY <1>1 DEF Inv, Written
      <4> QED BY <2>4, <3>2, <4>1
    <3> QED BY <3>1, <3>2
  <2>10. CommittedHasBytes'
    <3>1. record[b].op # NoOp BY <2>3 DEF Pending, NoOp
    <3> QED BY <1>1, <2>4, <3>1 DEF Inv, CommittedHasBytes
  <2>11. page' \in SUBSET Blobs BY <2>2 DEF Inv, BlobsTypeOK, BlobsTypes
  <2> QED BY <1>1, <1>3, <1>4, <1>5, <2>4, <2>5, <2>6, <2>7, <2>8, <2>9, <2>10, <2>11, HostStepKeeps
<1>7. CASE ~Interrupted(b)
  <2>1. page' = page \ {i} /\ UNCHANGED <<bytes, task, spent>> BY <1>7 DEF RecoverVisits
  <2>2. TaskMatches' BY <1>1, <2>1 DEF TaskMatches
  <2>3. Hosting' BY <1>1, <2>1 DEF Hosting
  <2>4. Pending(i) => Lookup(i) # i
    <3>1. i # None BY Members, BlobsAssumption
    <3> QED BY <1>1, <1>7, <3>1 DEF Interrupted
  <2>5. ASSUME Pending(i), i \in Locals \/ ~setting.boundFirst PROVE FALSE
    <3>1. Present(i)
      <4>1. Absent.op.status = "none" BY DEF Absent, NoOp
      <4> QED BY <2>5, <4>1, Members DEF BlobsTypeOK, RecordsMatch, Present, Pending
    <3>2. Lookup(i) = i BY <2>5, <3>1, LocalsStandAlone, LooksAtItself, Members
    <3> QED BY <2>4, <2>5, <3>2
  <2>6. Recovering'
    <3> SUFFICES ASSUME NEW a \in Blobs, Pending(a), a \in Locals \/ ~setting.boundFirst
                 PROVE  a \in page \ {i}
      BY <1>1, <1>2, <2>1 DEF Recovering
    <3>1. a # i BY <2>5
    <3>2. a \in page BY <1>1 DEF Inv, Recovering
    <3> QED BY <3>1, <3>2
  <2>7. Written'
    <3> SUFFICES ASSUME NEW d \in Contexts, NEW a \in Blobs, client[d].step = "commit", client[d].at = a,
                        record[a].op.num = client[d].num, record[a].op.kind \in WriteKinds, Pending(a)
                 PROVE  bytes[a] = "whole" \/ (Lookup(a) = a /\ a \in page \ {i})
      BY <1>1, <1>2, <2>1 DEF Written
    <3>1. bytes[a] = "whole" \/ (Lookup(a) = a /\ a \in page) BY <1>1 DEF Inv, Written
    <3> QED BY <2>4, <3>1
  <2>8. CommittedHasBytes' BY <1>1, <2>1 DEF Inv, CommittedHasBytes
  <2>9. /\ page' \in SUBSET Blobs /\ spent' \in [Kinds -> Nat]
        /\ bytes' \in [Blobs -> {"none", "partial", "whole"}]
        /\ task' \in Tasks
    BY <2>1 DEF Inv, BlobsTypeOK, BlobsTypes
  <2> QED BY <1>1, <1>3, <1>4, <1>5, <2>2, <2>3, <2>6, <2>7, <2>8, <2>9, HostStepKeeps
<1> QED BY <1>6, <1>7

----------------------------------------------------------------------------
(* Steps of the host that change a record *)

LEMMA HostChangeKeeps ==
  ASSUME Inv, NEW b \in Blobs, NEW r, Changes(b, r), Spared(b),
         UNCHANGED <<setting, bytes, host, client, answer, known, begun>>,
         r.op.kind \in WriteKinds => r.op.num = record[b].op.num /\ record[b].op.kind = r.op.kind,
         r.op.kind \notin WriteKinds => r.op.num = 0,
         r.bound \/ Pulled(r.state) \/ r.op.kind = "cache" => Backed(b),
         r.state = "absent" \/ r.op # NoOp,
         term' \in {"off", "recovering", "idle", "purging", "stopped"}, page' \in SUBSET Blobs,
         active' \in SUBSET Nat, spent' \in [Kinds -> Nat],
         task' \in Tasks,
         HostMatches', TaskMatches', Hosting', Recovering', Written', NothingLeftPending'
  PROVE  Inv'
<1>1. begun \in Nat /\ begun' \in Nat /\ begun <= begun' BY Members
<1>2. IF r.op.kind \in WriteKinds THEN r.op.num \in 1..begun' ELSE r.op.num = 0
  BY DEF Inv, Recorded
<1>3. Recorded' /\ RecordsMatch' /\ record' \in [Blobs -> Records] BY <1>1, <1>2, RecordedOn
<1>4. Operating' /\ Answering' /\ Staging' BY RestingOn
<1>5. BlobsTypeOK'
  <2>1. BlobsTypes' BY <1>3 DEF BlobsTypes, Inv, BlobsTypeOK
  <2> QED BY <1>3, <2>1, Members DEF BlobsTypeOK
<1>6. Kept'
  <2> SUFFICES ASSUME NEW a \in Locals, ~Backed(a),
                      \/ a \in known
                      \/ \E d \in Contexts :
                           answer[d].op = "stage" /\ answer[d].step = "returned" /\ answer[d].id = a
               PROVE  record'[a].state = "staged" /\ record'[a].op = NoOp
    BY DEF Kept, Backed
  <2>1. record[a].state = "staged" /\ record[a].op = NoOp BY DEF Inv, Kept
  <2>2. a # b BY <2>1 DEF Spared
  <2>3. a \in Blobs BY DEF Locals
  <2> QED BY <2>1, <2>2, <2>3, Members DEF Changes
<1>7. CommittedHasBytes'
  <2> SUFFICES ASSUME NEW a \in Blobs, record'[a].state \in {"staged", "cached"}, record'[a].op = NoOp
               PROVE  bytes[a] = "whole"
    BY DEF CommittedHasBytes
  <2>1. CASE a # b
    <3>1. record'[a] = record[a] BY <2>1, Members DEF Changes
    <3> QED BY <3>1 DEF Inv, CommittedHasBytes
  <2>2. CASE a = b
    <3>1. record'[a] = r BY <2>2, Members DEF Changes
    <3> QED BY <3>1
  <2> QED BY <2>1, <2>2
<1> QED BY <1>3, <1>4, <1>5, <1>6, <1>7 DEF Inv

LEMMA AbsentFacts ==
  /\ Absent \in Records /\ Absent.state = "absent" /\ Absent.bound = FALSE /\ Absent.op = NoOp
  /\ NoOp.kind = "none" /\ NoOp.status = "none" /\ NoOp.num = 0 /\ ~Pulled("absent")
BY DEF Absent, NoOp, Records, States, Operations, Pulled

LEMMA TaskRecord ==
  ASSUME Inv, task.kind # "none"
  PROVE  task.id \in Blobs /\ Present(task.id) /\ record[task.id].op # NoOp
<1>1. task # NoTask BY DEF NoTask
<1>2. task.id \in Blobs /\ Present(task.id) BY <1>1 DEF Inv, BlobsTypeOK, TaskMatches
<1>3. task.kind \in {"none", "fail", "recover", "purge"} BY DEF Inv, BlobsTypeOK, BlobsTypes, Tasks
<1>4. record[task.id].op # NoOp BY <1>3 DEF Inv, Hosting, NoOp, Op, WriteKinds
<1> QED BY <1>2, <1>4

LEMMA RecoverMarksKeeps ==
  ASSUME Inv, RecoverMarks, UNCHANGED setting
  PROVE  Inv'
<1>1. /\ task.kind = "recover" /\ page' = page \ {task.by} /\ task' = NoTask
      /\ UNCHANGED <<setting, bytes, host, term, active, client, answer, known, begun, spent>>
  BY DEF RecoverMarks
<1>2. PICK b \in Blobs : b = task.id /\ Present(b) /\ record[b].op # NoOp BY <1>1, TaskRecord
<1>3. term = "recovering" /\ task.by \in page /\ record[b].op.status = "pending" /\ active = {}
  BY <1>1, <1>2 DEF Inv, Hosting
<1>4. PICK i \in Blobs : i = task.by /\ Lookup(i) = b
  <2>1. page \subseteq Blobs BY DEF Inv, BlobsTypeOK, BlobsTypes
  <2> QED BY <1>1, <1>2, <1>3, <2>1 DEF Inv, Hosting
<1>5. record[b].op.kind # "none" BY <1>3, Members DEF BlobsTypeOK, RecordsMatch
<1>6. PICK r : r = IF record[b].op.kind = "purge" /\ task.deleted THEN Absent ELSE Marked(b) OBVIOUS
<1>7. record' = [record EXCEPT ![b] = r]
  BY <1>2, <1>6 DEF RecoverMarks, MarkFailed, Persist, Marked
<1>8. /\ Changes(b, r) /\ r.op.status # "pending" /\ (r.bound => record[b].bound)
      /\ r.op.kind \in WriteKinds => r.op.num = record[b].op.num /\ record[b].op.kind = r.op.kind
      /\ r.op.kind \notin WriteKinds => r.op.num = 0
      /\ r.bound \/ Pulled(r.state) \/ r.op.kind = "cache" => Backed(b)
      /\ r.state = "absent" \/ r.op # NoOp
  <2>1. CASE r = Absent BY <1>7, <2>1, AbsentFacts DEF Changes, WriteKinds
  <2>2. CASE r = Marked(b)
    <3>1. /\ r \in Records /\ r.state = record[b].state /\ r.bound = record[b].bound
          /\ r.op.kind = record[b].op.kind /\ r.op.num = record[b].op.num /\ r.op.status = "failed"
          /\ r.op # NoOp /\ Changes(b, r)
      BY <1>5, <1>7, <2>2, MarkedRecord
    <3> QED BY <3>1 DEF Inv, Recorded
  <2> QED BY <1>6, <2>1, <2>2
<1>9. record'[b] = r /\ \A a \in Blobs : a # b => record'[a] = record[a] BY <1>7, Members
<1>10. Spared(b) BY <1>2 DEF Spared
<1>11. HostMatches' /\ TaskMatches' BY <1>1 DEF HostMatches, TaskMatches, Inv, BlobsTypeOK
<1>12. NoTask.kind = "none" /\ NoTask \in Tasks BY NoTaskTyped
<1>13. Hosting' BY <1>1, <1>3, <1>12 DEF Hosting
<1>14. ASSUME NEW a \in Blobs, a # b, Lookup(a) = a PROVE Lookup(a)' = a /\ a # i
  <2>1. Present(a) /\ (Aliases(a) = {} \/ ~setting.boundFirst) BY <1>14, LooksAtItself, Members
  <2>2. Present(a)' BY <1>9, <1>14, <2>1 DEF Present
  <2>3. Aliases(a)' \subseteq Aliases(a)
    <3> SUFFICES ASSUME NEW d \in Locals, record'[d].bound, RemoteOf[d] = a PROVE record[d].bound
      BY DEF Aliases
    <3>1. d \in Blobs BY DEF Locals
    <3> QED BY <1>8, <1>9, <3>1
  <2>4. Lookup(a)' = a
    <3>1. Aliases(a)' = {} \/ ~setting'.boundFirst BY <1>1, <2>1, <2>3
    <3> QED BY <2>2, <3>1 DEF Lookup
  <2> QED BY <1>4, <1>14, <2>4
<1>15. Recovering'
  <2> SUFFICES ASSUME NEW a \in Blobs, Pending(a)', a \in Locals \/ ~setting.boundFirst
               PROVE  a \in page \ {i}
    BY <1>1, <1>4 DEF Recovering
  <2>1. a # b BY <1>8, <1>9 DEF Pending
  <2>2. Pending(a) /\ record'[a] = record[a] BY <1>9, <2>1 DEF Pending
  <2>3. a \in page BY <1>3, <2>2 DEF Inv, Recovering
  <2>4. Present(a) BY <2>2, Members, AbsentFacts DEF BlobsTypeOK, RecordsMatch, Present, Pending
  <2>5. Lookup(a) = a BY <2>4, LocalsStandAlone, LooksAtItself, Members
  <2> QED BY <1>14, <2>1, <2>3, <2>5
<1>16. Written'
  <2> SUFFICES ASSUME NEW d \in Contexts, NEW a \in Blobs, client[d].step = "commit", client[d].at = a,
                      record'[a].op.num = client[d].num, record'[a].op.kind \in WriteKinds, Pending(a)'
               PROVE  bytes[a] = "whole" \/ (Lookup(a)' = a /\ a \in page \ {i})
    BY <1>1, <1>3, <1>4 DEF Written
  <2>1. a # b BY <1>8, <1>9 DEF Pending
  <2>2. Pending(a) /\ record'[a] = record[a] BY <1>9, <2>1 DEF Pending
  <2>3. bytes[a] = "whole" \/ (Lookup(a) = a /\ a \in page) BY <1>3, <2>2 DEF Inv, Written
  <2> QED BY <1>14, <2>1, <2>3
<1>17. NothingLeftPending' BY <1>1, <1>3 DEF NothingLeftPending
<1>18. /\ term' \in {"off", "recovering", "idle", "purging", "stopped"} /\ page' \in SUBSET Blobs
       /\ active' \in SUBSET Nat /\ spent' \in [Kinds -> Nat]
  BY <1>1 DEF Inv, BlobsTypeOK, BlobsTypes
<1>19. UNCHANGED <<setting, bytes, host, client, answer, known, begun>> BY <1>1
<1> QED BY <1>1, <1>8, <1>10, <1>11, <1>12, <1>13, <1>15, <1>16, <1>17, <1>18, <1>19, HostChangeKeeps

\* The service of a host that has stopped holds nothing.
LEMMA StopFacts ==
  ASSUME Inv, host # None, host' = host, Stop
  PROVE  /\ HostMatches' /\ TaskMatches' /\ Hosting' /\ Recovering' /\ NothingLeftPending'
         /\ term' \in {"off", "recovering", "idle", "purging", "stopped"} /\ page' \in SUBSET Blobs
         /\ active' \in SUBSET Nat
         /\ task' \in Tasks
<1>1. term' = "stopped" /\ page' = {} /\ task' = NoTask /\ active' = {} BY DEF Stop
<1>2. NoTask.kind = "none" /\ NoTask \in Tasks BY NoTaskTyped
<1> QED BY <1>1, <1>2 DEF HostMatches, TaskMatches, Hosting, Recovering, NothingLeftPending

LEMMA PurgeKeeps ==
  ASSUME Inv, NEW i \in Blobs, Purge(i), UNCHANGED setting
  PROVE  Inv'
<1> SUFFICES ASSUME NEW b, b = Lookup(i)
             PROVE  Inv'
  OBVIOUS
<1>1. /\ LaneFree /\ i \in page /\ task = NoTask /\ task.kind = "none" /\ term = "purging" /\ host # None
      /\ Backed(i) /\ UNCHANGED <<setting, host, client, answer, known, begun>>
  BY DEF Purge, LaneFree, NoTask, Inv, Hosting, BlobsTypeOK, HostMatches
<1>2. /\ page \in SUBSET Blobs /\ active \in SUBSET Nat /\ host \in Contexts \cup {None}
      /\ task \in Tasks
  BY DEF Inv, BlobsTypeOK, BlobsTypes
<1>3. CASE b = None
  <2>1. Deleted(i) /\ page' = page \ {i} /\ UNCHANGED <<record, term, active, task>> BY <1>3 DEF Purge
  <2>2. ~Present(i) BY <1>3, LookupCases, Members
  <2>3. record[i].op = NoOp BY <2>2, Members, AbsentFacts DEF Present, BlobsTypeOK, RecordsMatch
  <2>4. /\ bytes' \in [Blobs -> {"none", "partial", "whole"}] /\ spent' \in [Kinds -> Nat]
        /\ \A a \in Blobs : a # i => bytes'[a] = bytes[a]
    BY <2>1, Members DEF Deleted
  <2>5. HostMatches' /\ TaskMatches' BY <1>1, <2>1 DEF HostMatches, TaskMatches, Inv, BlobsTypeOK
  <2>6. Hosting'
    <3>1. \A a \in page' : Backed(a)' BY <1>1, <2>1 DEF Inv, Hosting, Backed
    <3> QED BY <1>1, <2>1, <3>1 DEF Hosting
  <2>7. Recovering' BY <1>1, <2>1 DEF Recovering
  <2>8. Written'
    <3> SUFFICES ASSUME NEW d \in Contexts, NEW a \in Blobs, client[d].step = "commit", client[d].at = a,
                        record[a].op.num = client[d].num, record[a].op.kind \in WriteKinds, Pending(a)
                 PROVE  bytes'[a] = "whole"
      BY <1>1, <2>1 DEF Written, Pending
    <3>1. bytes[a] = "whole" BY <1>1 DEF Inv, Written
    <3>2. a # i BY <2>3, AbsentFacts DEF WriteKinds
    <3> QED BY <2>4, <3>1, <3>2
  <2>9. CommittedHasBytes'
    <3>1. record[i].state = "absent" BY <2>2 DEF Present
    <3> QED BY <2>1, <2>4, <3>1 DEF Inv, CommittedHasBytes
  <2>10. NothingLeftPending' BY <1>1, <2>1 DEF Inv, NothingLeftPending, Pending
  <2>11. /\ host' \in Contexts \cup {None} /\ term' \in {"off", "recovering", "idle", "purging", "stopped"}
         /\ page' \in SUBSET Blobs /\ active' \in SUBSET Nat
         /\ task' \in Tasks
    BY <1>1, <1>2, <2>1
  <2> QED BY <1>1, <2>1, <2>4, <2>5, <2>6, <2>7, <2>8, <2>9, <2>10, <2>11, HostStepKeeps
<1>4. CASE b # None /\ Pending(b)
  <2>1. Stop /\ UNCHANGED <<record, bytes, spent>> BY <1>4 DEF Purge
  <2>2. /\ HostMatches' /\ TaskMatches' /\ Hosting' /\ Recovering' /\ NothingLeftPending'
        /\ term' \in {"off", "recovering", "idle", "purging", "stopped"} /\ page' \in SUBSET Blobs
        /\ active' \in SUBSET Nat
        /\ task' \in Tasks
    BY <1>1, <2>1, StopFacts
  <2>3. Written'
    <3>1. \A a \in Blobs : Pending(a)' <=> Pending(a) BY <1>1, <2>1, SameLookups
    <3> QED BY <1>1, <2>1, <3>1 DEF Inv, Written
  <2>4. CommittedHasBytes' BY <2>1 DEF Inv, CommittedHasBytes
  <2>5. host' \in Contexts \cup {None} BY <1>1, <1>2
  <2> QED BY <1>1, <2>1, <2>2, <2>3, <2>4, <2>5, Members, HostStepKeeps
<1>5. CASE b # None /\ ~Pending(b)
  <2>1. b \in Blobs /\ Present(b) /\ Backed(b) BY <1>1, <1>5, LookupFindsRecords, LookupIsBacked, Members
  <2>0. SUFFICES ASSUME NEW o, o = Op("purge", "pending", 0), NEW r, r = [record[b] EXCEPT !.op = o]
                 PROVE  Inv'
    OBVIOUS
  <2>2. /\ Persist(b, r) /\ task' = [kind |-> "purge", id |-> b, deleted |-> FALSE, by |-> i]
        /\ UNCHANGED <<bytes, term, page, active, spent>>
    BY <1>5, <2>0 DEF Purge
  <2>3. o \in Operations /\ o.kind = "purge" /\ o.status = "pending" /\ o.num = 0 /\ o # NoOp
    BY <2>0 DEF Op, Operations, NoOp
  <2>4. r \in Records /\ r.op = o /\ r.state = record[b].state /\ r.bound = record[b].bound
    BY <2>0, <2>1, <2>3, Members DEF Records
  <2>5. Changes(b, r) BY <2>1, <2>2, <2>3, <2>4 DEF Changes, Persist, Present, WriteKinds
  <2>6. Spared(b) BY <2>1 DEF Spared
  <2>7. /\ task'.kind = "purge" /\ task'.id = b /\ ~task'.deleted
        /\ task' \in Tasks
    BY <2>1, <2>2 DEF Tasks
  <2>8. record'[b] = r /\ \A a \in Blobs : a # b => record'[a] = record[a] BY <2>1, <2>5, Members DEF Changes
  <2>9. HostMatches' /\ TaskMatches'
    <3>1. Present(b)' BY <2>1, <2>4, <2>8 DEF Present
    <3> QED BY <1>1, <2>1, <2>2, <2>7, <3>1 DEF HostMatches, TaskMatches, Inv, BlobsTypeOK, Present
  <2>10. Hosting'
    <3>1. \A a \in page' : Backed(a)' BY <1>1, <2>2 DEF Inv, Hosting, Backed
    <3>2. record'[task'.id].op = Op("purge", "pending", 0) BY <2>0, <2>4, <2>7, <2>8
    <3> QED BY <1>1, <2>2, <2>7, <3>1, <3>2 DEF Hosting
  <2>11. Recovering' BY <1>1, <2>2 DEF Recovering
  <2>12. r.op.kind \notin WriteKinds /\ r.op.kind # "cache" BY <2>3, <2>4 DEF WriteKinds
  <2>13. Written' BY <1>1, <2>1, <2>2, <2>5, <2>12, WrittenOn
  <2>14. NothingLeftPending'
    <3> SUFFICES ASSUME NEW a \in Blobs, a # b, Pending(a)', ~setting.boundFirst
                 PROVE  record'[a].op.num \in active'
      BY <1>1, <2>7 DEF NothingLeftPending
    <3> QED BY <1>1, <2>2, <2>8 DEF Inv, NothingLeftPending, Pending
  <2>15. r.bound \/ Pulled(r.state) \/ r.op.kind = "cache" => Backed(b) BY <2>1
  <2>16. /\ term' \in {"off", "recovering", "idle", "purging", "stopped"} /\ page' \in SUBSET Blobs
         /\ active' \in SUBSET Nat /\ spent' \in [Kinds -> Nat] /\ bytes' = bytes
    BY <1>1, <1>2, <2>2, Members
  <2>17. r.op.num = 0 /\ r.op # NoOp BY <2>3, <2>4
  <2> QED BY <1>1, <2>1, <2>5, <2>6, <2>7, <2>9, <2>10, <2>11, <2>12, <2>13, <2>14, <2>15, <2>16, <2>17,
             HostChangeKeeps
<1> QED BY <1>3, <1>4, <1>5

LEMMA PurgeDeletesKeeps ==
  ASSUME Inv, PurgeDeletes, UNCHANGED setting
  PROVE  Inv'
<1>1. task.kind = "purge" /\ ~task.deleted /\ UNCHANGED <<setting, host, client, answer, known, begun>>
  BY DEF PurgeDeletes
<1>2. PICK b \in Blobs : b = task.id /\ Present(b) /\ record[b].op # NoOp BY <1>1, TaskRecord
<1>3. term = "purging" /\ record[b].op = Op("purge", "pending", 0) BY <1>1, <1>2 DEF Inv, Hosting
<1>4. record[b].op.kind = "purge" /\ record[b].op.num = 0 BY <1>3 DEF Op
<1>5. /\ page \in SUBSET Blobs /\ active \in SUBSET Nat /\ host \in Contexts \cup {None} /\ host # None
      /\ task \in Tasks
  BY <1>3 DEF Inv, BlobsTypeOK, BlobsTypes, HostMatches
<1>6. CASE /\ Deleted(task.id) /\ task' = [task EXCEPT !.deleted = TRUE]
           /\ UNCHANGED <<record, term, page, active>>
  <2>1. /\ bytes' \in [Blobs -> {"none", "partial", "whole"}] /\ spent' \in [Kinds -> Nat]
        /\ \A a \in Blobs : a # b => bytes'[a] = bytes[a]
    BY <1>2, <1>6, Members DEF Deleted
  <2>2. /\ task'.kind = "purge" /\ task'.id = b
        /\ task' \in Tasks
    BY <1>1, <1>2, <1>5, <1>6 DEF Inv, BlobsTypeOK, BlobsTypes, Tasks
  <2>3. HostMatches' /\ TaskMatches'
    BY <1>1, <1>2, <1>6, <2>2 DEF HostMatches, TaskMatches, Inv, BlobsTypeOK, Present
  <2>4. Hosting'
    <3>1. \A a \in page' : Backed(a)' BY <1>1, <1>3, <1>6 DEF Inv, Hosting, Backed
    <3> QED BY <1>3, <1>6, <2>2, <3>1 DEF Hosting
  <2>5. Recovering' BY <1>3, <1>6 DEF Recovering
  <2>6. Written'
    <3> SUFFICES ASSUME NEW d \in Contexts, NEW a \in Blobs, client[d].step = "commit", client[d].at = a,
                        record[a].op.num = client[d].num, record[a].op.kind \in WriteKinds, Pending(a)
                 PROVE  bytes'[a] = "whole"
      BY <1>1, <1>6 DEF Written, Pending
    <3>1. bytes[a] = "whole" BY <1>3 DEF Inv, Written
    <3>2. a # b BY <1>4 DEF WriteKinds
    <3> QED BY <2>1, <3>1, <3>2
  <2>7. CommittedHasBytes' BY <1>2, <1>6, <2>1 DEF Inv, CommittedHasBytes
  <2>8. NothingLeftPending' BY <1>1, <1>2, <1>6, <2>2 DEF Inv, NothingLeftPending, Pending
  <2>9. /\ host' \in Contexts \cup {None} /\ term' \in {"off", "recovering", "idle", "purging", "stopped"}
        /\ page' \in SUBSET Blobs /\ active' \in SUBSET Nat
    BY <1>1, <1>3, <1>5, <1>6
  <2> QED BY <1>1, <1>6, <2>1, <2>2, <2>3, <2>4, <2>5, <2>6, <2>7, <2>8, <2>9, HostStepKeeps
<1>7. CASE DeleteFails /\ MarkFailed(task.id) /\ Stop
  <2>1. bytes' = bytes /\ spent' \in [Kinds -> Nat] BY <1>7, DisruptCounts DEF DeleteFails, Kinds
  <2>2. /\ HostMatches' /\ TaskMatches' /\ Hosting' /\ Recovering' /\ NothingLeftPending'
        /\ term' \in {"off", "recovering", "idle", "purging", "stopped"} /\ page' \in SUBSET Blobs
        /\ active' \in SUBSET Nat
        /\ task' \in Tasks
    BY <1>1, <1>5, <1>7, StopFacts
  <2>3. PICK r : r = Marked(b) OBVIOUS
  <2>4. record' = [record EXCEPT ![b] = r] BY <1>2, <1>7, <2>3 DEF MarkFailed, Persist, Marked
  <2>5. /\ r.state = record[b].state /\ r.bound = record[b].bound /\ r.op.kind = "purge" /\ r.op.num = 0
        /\ r.op # NoOp /\ Changes(b, r)
    BY <1>4, <2>3, <2>4, MarkedRecord
  <2>6. Spared(b) BY <1>2 DEF Spared
  <2>7. r.op.kind \notin WriteKinds /\ r.op.kind # "cache" BY <2>5 DEF WriteKinds
  <2>8. Written' BY <1>1, <1>3, <2>1, <2>5, <2>7, WrittenOn
  <2>9. r.bound \/ Pulled(r.state) \/ r.op.kind = "cache" => Backed(b) BY <2>5, <2>7 DEF Inv, Recorded
  <2> QED BY <1>1, <2>1, <2>2, <2>5, <2>6, <2>7, <2>8, <2>9, HostChangeKeeps
<1> QED BY <1>6, <1>7 DEF PurgeDeletes

LEMMA PurgeEndsKeeps ==
  ASSUME Inv, PurgeEnds, UNCHANGED setting
  PROVE  Inv'
<1>1. /\ task.kind = "purge" /\ Persist(task.id, Absent) /\ page' = page \ {task.by} /\ task' = NoTask
      /\ UNCHANGED <<setting, bytes, host, term, active, client, answer, known, begun, spent>>
  BY DEF PurgeEnds
<1>2. PICK b \in Blobs : b = task.id /\ Present(b) /\ record[b].op # NoOp BY <1>1, TaskRecord
<1>3. term = "purging" BY <1>1 DEF Inv, Hosting
<1>4. PICK r : r = Absent OBVIOUS
<1>5. Changes(b, r) BY <1>1, <1>2, <1>4, AbsentFacts DEF Changes, Persist, WriteKinds
<1>6. Spared(b) BY <1>2 DEF Spared
<1>7. NoTask.kind = "none" /\ NoTask \in Tasks BY NoTaskTyped
<1>8. HostMatches' /\ TaskMatches' BY <1>1 DEF HostMatches, TaskMatches, Inv, BlobsTypeOK
<1>9. Hosting'
  <2>1. \A a \in page' : Backed(a)' BY <1>1, <1>3 DEF Inv, Hosting, Backed
  <2> QED BY <1>1, <1>3, <1>7, <2>1 DEF Hosting
<1>10. Recovering' BY <1>1, <1>3 DEF Recovering
<1>11. r.op.kind = "none" /\ r.op.status = "none" /\ r.op.num = 0 /\ r.bound = FALSE /\ ~Pulled(r.state)
       /\ r.state = "absent"
  BY <1>4, AbsentFacts
<1>12. r.op.kind \notin WriteKinds BY <1>11 DEF WriteKinds
<1>13. Written' BY <1>1, <1>3, <1>5, <1>12, WrittenOn
<1>14. NothingLeftPending' BY <1>1, <1>2, <1>5, <1>11, PendingOn
<1>15. /\ term' \in {"off", "recovering", "idle", "purging", "stopped"} /\ page' \in SUBSET Blobs
       /\ active' \in SUBSET Nat /\ spent' \in [Kinds -> Nat]
  BY <1>1 DEF Inv, BlobsTypeOK, BlobsTypes
<1>16. UNCHANGED <<setting, bytes, host, client, answer, known, begun>> BY <1>1
<1> QED BY <1>1, <1>5, <1>6, <1>7, <1>8, <1>9, <1>10, <1>11, <1>12, <1>13, <1>14, <1>15, <1>16, HostChangeKeeps

LEMMA HostCrashKeeps ==
  ASSUME Inv, HostCrash, UNCHANGED setting
  PROVE  Inv'
<1>1. /\ host # None /\ host' = None /\ term' = "off" /\ page' = {} /\ active' = {} /\ task' = NoTask
      /\ client' = [client EXCEPT ![host] = Idle] /\ answer' = [c \in Contexts |-> NoAnswer]
      /\ spent' \in [Kinds -> Nat] /\ UNCHANGED <<setting, record, bytes, known, begun>>
  BY DisruptCounts DEF HostCrash, Become, Kinds
<1>2. PICK h \in Contexts : h = host BY <1>1 DEF Inv, BlobsTypeOK, BlobsTypes
<1>3. /\ client'[h] = Idle /\ \A d \in Contexts : d # h => client'[d] = client[d]
      /\ \A d \in Contexts : answer'[d] = NoAnswer
      /\ client' \in [Contexts -> ClientStates] /\ answer' \in [Contexts -> ClientStates]
  BY <1>1, <1>2, IdleTyped, Members
<1>4. NoTask.kind = "none" /\ NoTask \in Tasks BY NoTaskTyped
<1>5. BlobsTypeOK'
  <2>1. BlobsTypes' BY <1>1, <1>3, <1>4 DEF BlobsTypes, Inv, BlobsTypeOK
  <2>2. RecordsMatch' /\ HostMatches' /\ TaskMatches'
    BY <1>1 DEF RecordsMatch, HostMatches, TaskMatches, Inv, BlobsTypeOK
  <2> QED BY <2>1, <2>2, Members DEF BlobsTypeOK
<1>6. Operating'
  <2>1. ASSUME NEW d \in Contexts, NEW y \in Views(d)' PROVE y = Idle \/ y = NoAnswer \/ y = client[d]
    BY <1>3 DEF Views
  <2>2. ASSUME NEW d \in Contexts, NEW y \in Views(d)' PROVE Fits(y)' /\ Owns(y)'
    <3>1. Fits(Idle) /\ Fits(NoAnswer) /\ Owns(Idle) /\ Owns(NoAnswer)
      BY IdleFollows, IdleTyped, Members DEF Follows, Owns, Writing
    <3>2. Fits(y) /\ Owns(y) BY <2>1, <3>1, Members
    <3> QED BY <1>1, <3>2 DEF Fits, Owns, Backed
  <2>3. ASSUME NEW d \in Contexts, NEW e \in Contexts, d # e, NEW y \in Views(d)', NEW z \in Views(e)', y.num = z.num
        PROVE  y.num = 0
    BY <2>1, <2>3, IdleTyped DEF Inv, Operating, Views
  <2> QED BY <2>2, <2>3 DEF Operating
<1>7. Answering' BY <1>3 DEF Answering
<1>8. Staging'
  <2> SUFFICES ASSUME NEW d \in Contexts, Stages(client'[d])
               PROVE  client'[d].id \notin known /\ \A e \in Contexts : e # d => client'[e].id # client'[d].id
    BY <1>1 DEF Staging, Stages
  <2>1. d # h BY <1>3, IdleTyped DEF Stages
  <2>2. client'[d] = client[d] /\ Stages(client[d]) BY <1>3, <2>1
  <2>3. client[d].id \in Blobs BY <2>2, Members DEF Fits, Stages, Locals
  <2>4. client[d].id # None BY <2>3, Members, BlobsAssumption
  <2> QED BY <1>3, <2>2, <2>4, IdleTyped DEF Inv, Staging
<1>9. Recorded' BY <1>1 DEF Inv, Recorded, Backed
<1>10. Hosting' BY <1>1, <1>4 DEF Hosting
<1>11. Recovering' BY <1>1 DEF Recovering
<1>12. Written'
  <2> SUFFICES ASSUME NEW d \in Contexts, NEW b \in Blobs, client'[d].step = "commit", client'[d].at = b,
                      record[b].op.num = client'[d].num, record[b].op.kind \in WriteKinds, Pending(b)
               PROVE  bytes[b] = "whole" \/ Lookup(b)' = b
    BY <1>1 DEF Written, Pending
  <2>1. client'[d] = client[d] BY <1>3, IdleTyped
  <2>2. Lookup(b)' = Lookup(b) BY <1>1, SameLookups
  <2> QED BY <2>1, <2>2 DEF Inv, Written
<1>13. Kept' BY <1>1, <1>3, IdleTyped DEF Inv, Kept, Backed
<1>14. CommittedHasBytes' BY <1>1 DEF Inv, CommittedHasBytes
<1>15. NothingLeftPending' BY <1>1 DEF NothingLeftPending
<1> QED BY <1>5, <1>6, <1>7, <1>8, <1>9, <1>10, <1>11, <1>12, <1>13, <1>14, <1>15 DEF Inv

----------------------------------------------------------------------------
(* The theorems *)

LEMMA InitEstablishes ==
  ASSUME BlobsInit
  PROVE  Inv
<1>1. /\ record = [b \in Blobs |-> Absent] /\ bytes = [b \in Blobs |-> "none"]
      /\ host = None /\ term = "off" /\ page = {} /\ active = {} /\ task = NoTask /\ setting \in Settings
      /\ client = [c \in Contexts |-> Idle] /\ answer = [c \in Contexts |-> NoAnswer]
      /\ known = Remotes \ {RemoteOf[b] : b \in Locals} /\ begun = 0 /\ spent = [d \in Kinds |-> 0]
  BY DEF BlobsInit
<1>2. NoTask.kind = "none" /\ NoTask \in Tasks BY NoTaskTyped
<1>3. BlobsTypeOK
  <2>1. BlobsTypes BY <1>1, <1>2, IdleTyped, AbsentFacts DEF BlobsTypes, Remotes
  <2>2. RecordsMatch BY <1>1, AbsentFacts DEF RecordsMatch
  <2> QED BY <1>1, <2>1, <2>2 DEF BlobsTypeOK, HostMatches, TaskMatches
<1>4. Operating
  <2>1. \A d \in Contexts : \A y \in Views(d) : y = Idle \/ y = NoAnswer BY <1>1 DEF Views
  <2>2. Fits(Idle) /\ Fits(NoAnswer) BY <1>3, IdleFollows, IdleTyped DEF Follows
  <2>3. Owns(Idle) /\ Owns(NoAnswer) BY IdleTyped DEF Owns, Writing
  <2>4. \A d \in Contexts : \A y \in Views(d) : Fits(y) /\ Owns(y) BY <2>1, <2>2, <2>3
  <2>5. \A d \in Contexts : \A y \in Views(d) : y.num = 0 BY <2>1, IdleTyped
  <2> QED BY <2>4, <2>5 DEF Operating
<1>5. Answering BY <1>1 DEF Answering
<1>6. Staging BY <1>1, IdleTyped DEF Staging, Stages
<1>7. Recorded BY <1>1, AbsentFacts DEF Recorded, WriteKinds
<1>8. Hosting BY <1>1, <1>2 DEF Hosting
<1>9. Recovering BY <1>1 DEF Recovering
<1>10. Written BY <1>1, AbsentFacts DEF Written, WriteKinds
<1>11. Kept
  <2> SUFFICES ASSUME NEW b \in Locals,
                      \/ b \in known
                      \/ \E c \in Contexts :
                           answer[c].op = "stage" /\ answer[c].step = "returned" /\ answer[c].id = b
               PROVE  FALSE
    BY DEF Kept
  <2>1. b \notin known BY <1>1 DEF Remotes
  <2> QED BY <1>1, <2>1, IdleTyped
<1>12. CommittedHasBytes BY <1>1, AbsentFacts DEF CommittedHasBytes
<1>13. NothingLeftPending BY <1>1 DEF NothingLeftPending
<1> QED BY <1>3, <1>4, <1>5, <1>6, <1>7, <1>8, <1>9, <1>10, <1>11, <1>12, <1>13 DEF Inv

LEMMA HandleKeeps ==
  ASSUME Inv, NEW c \in Contexts, Handle(c), UNCHANGED setting
  PROVE  Inv'
BY FindKeeps, LoadKeeps, TouchKeeps, MergeKeeps, RemoteKeeps, BeginKeeps, CommitKeeps, FailKeeps, BindKeeps,
   UnavailableKeeps DEF Handle

LEMMA ProgressKeeps ==
  ASSUME Inv, NEW c \in Contexts, Progress(c), UNCHANGED setting
  PROVE  Inv'
BY ApplyKeeps, ReadBytesKeeps, FetchKeeps, ResolveKeeps, OpenFileKeeps, CloseFileKeeps, DeliverKeeps DEF Progress

LEMMA NextKeeps ==
  ASSUME Inv, [BlobsNext]_blobVars
  PROVE  Inv'
<1>1. CASE UNCHANGED blobVars
  <2>1. UNCHANGED <<setting, record, bytes, host, term, page, active, task, client, answer, known, begun, spent>>
    BY <1>1 DEF blobVars, moving, hosting
  <2>2. /\ bytes' \in [Blobs -> {"none", "partial", "whole"}] /\ host' \in Contexts \cup {None}
        /\ term' \in {"off", "recovering", "idle", "purging", "stopped"} /\ page' \in SUBSET Blobs
        /\ active' \in SUBSET Nat /\ spent' \in [Kinds -> Nat]
        /\ task' \in Tasks
    BY <2>1 DEF Inv, BlobsTypeOK, BlobsTypes
  <2>3. HostMatches' /\ TaskMatches' BY <2>1 DEF HostMatches, TaskMatches, Inv, BlobsTypeOK, Present
  <2>4. \A b \in Blobs : Lookup(b)' = Lookup(b) /\ (Pending(b)' <=> Pending(b)) BY <2>1, SameLookups
  <2>5. Hosting'
    <3>1. \A b \in Blobs : Backed(b)' <=> Backed(b) BY <2>1 DEF Backed
    <3>2. page \subseteq Blobs BY DEF Inv, BlobsTypeOK, BlobsTypes
    <3> QED BY <2>1, <2>4, <3>1, <3>2 DEF Inv, Hosting
  <2>6. Recovering' /\ Written' /\ NothingLeftPending'
    BY <2>1, <2>4 DEF Inv, Recovering, Written, NothingLeftPending
  <2>7. CommittedHasBytes' BY <2>1 DEF Inv, CommittedHasBytes
  <2> QED BY <2>1, <2>2, <2>3, <2>5, <2>6, <2>7, HostStepKeeps
<1>2. CASE BlobsNext
  <2>1. UNCHANGED setting BY <1>2 DEF BlobsNext
  <2>2. ASSUME NEW c \in Contexts, Handle(c) \/ Progress(c) \/ BecomeHost(c) PROVE Inv'
    BY <2>1, <2>2, HandleKeeps, ProgressKeeps, BecomeHostKeeps
  <2>3. ASSUME NEW c \in Contexts, WriteFails(c) \/ TimeOut(c) \/ ClientCrash(c) PROVE Inv'
    BY <2>1, <2>3, WriteFailsKeeps, TimeOutKeeps, ClientCrashKeeps
  <2>4. ASSUME NEW c \in Contexts, NEW op \in Uses, NEW b \in Blobs, Start(c, op, b) PROVE Inv'
    BY <2>1, <2>4, StartKeeps
  <2>5. CASE HostCrash BY <2>1, <2>5, HostCrashKeeps
  <2>6. CASE FailEnds BY <2>1, <2>6, FailEndsKeeps
  <2>7. CASE Recover BY <2>1, <2>7, RecoverMarksKeeps, RecoverVisitsKeeps DEF Recover
  <2>8. CASE PageEnds BY <2>1, <2>8, PageEndsKeeps
  <2>9. CASE Collect BY <2>1, <2>9, CollectKeeps
  <2>10. CASE Garbage BY <2>1, <2>10, PurgeDeletesKeeps, PurgeEndsKeeps, PurgeKeeps DEF Garbage
  <2> QED BY <1>2, <2>2, <2>3, <2>4, <2>5, <2>6, <2>7, <2>8, <2>9, <2>10 DEF BlobsNext, Step
<1> QED BY <1>1, <1>2

LEMMA InvImplies ==
  ASSUME Inv
  PROVE  BlobsTypeOK /\ RecordsKeepBytes
<1>1. OnlyCopyStays
  <2> SUFFICES ASSUME NEW b \in Locals, b \in known, RemoteOf[b] \notin known
               PROVE  record[b].state = "staged" /\ bytes[b] = "whole"
    BY DEF OnlyCopyStays
  <2>1. record[b].state = "staged" /\ record[b].op = NoOp BY DEF Inv, Kept, Backed
  <2>2. b \in Blobs BY DEF Locals
  <2> QED BY <2>1, <2>2 DEF Inv, CommittedHasBytes
<1> QED BY <1>1 DEF Inv, BlobsTypeOK, RecordsKeepBytes

\* The store's variables keep their types, records and operations are consistent, and the
\* handler in the lane works on a record that is there.
THEOREM TypeCorrect == BlobsSpec => []BlobsTypeOK
<1>1. BlobsInit => Inv BY InitEstablishes
<1>2. Inv /\ [BlobsNext]_blobVars => Inv' BY NextKeeps
<1>3. Inv => BlobsTypeOK BY InvImplies
<1> QED BY <1>1, <1>2, <1>3, PTL DEF BlobsSpec

\* Records and bytes agree through writes, crashes, recovery and collection: committed records
\* have their bytes, the only copy of a blob is kept until the backend has stored it, and
\* recovery leaves no operation of an earlier term pending.
THEOREM BytesKept == BlobsSpec => []RecordsKeepBytes
<1>1. BlobsInit => Inv BY InitEstablishes
<1>2. Inv /\ [BlobsNext]_blobVars => Inv' BY NextKeeps
<1>3. Inv => RecordsKeepBytes BY InvImplies
<1> QED BY <1>1, <1>2, <1>3, PTL DEF BlobsSpec
=============================================================================
