--------------------------- MODULE ActionExecution ---------------------------
(***************************************************************************)
(* One action with attachments, from its parameters to the backend: the    *)
(* attachments are collected (module Attachments), their bytes read, and   *)
(* each is stored at the backend before the action (materialized), with it *)
(* (as an upload), or by the caller beforehand (eagerly).  A call that     *)
(* fails is tried again from the start.  A backend renames what is stored, *)
(* or keeps the ids (Foundry's attachments), and may recognise an action   *)
(* that it has already applied.                                            *)
(***************************************************************************)
EXTENDS Integers, Sequences, FiniteSetsExt

\* The uses of attachments that are collected from the parameters and those that the backend comes across in
\* them, the kind of backend, whether it recognises an action, and which attachment is stored eagerly.
CONSTANT Setups

AttachmentUses(ids) == [id : ids, target : {"attachment", "media"}]
ASSUME ExecutionAssumption ==
  \A s \in Setups :
    /\ IsFiniteSet(s.ids) /\ s.first \in s.ids /\ s.faults \in Nat
    /\ s.uses \in Seq(AttachmentUses(s.ids)) /\ s.referred \subseteq AttachmentUses(s.ids)
    /\ s.backend \in {"uploads", "renaming", "stable"} /\ s.recognises \in BOOLEAN /\ s.eager \in BOOLEAN

VARIABLES
  setup,
  step,         \* of the attempt: "ready", "making", "applying", "binding", "done", "failed"
  making,       \* the attachments that are still being made, with how far each is
  abandoned,    \* attachments that failed attempts are still storing
  results,      \* what stands for each attachment: the promise of each id
  uploads,      \* attachments whose bytes go with the action
  mappings,     \* local ids with their remote ids, to be bound
  stored,       \* the backend's attachments
  applied,      \* what the actions the backend has applied refer to
  bound,        \* the remote id that the blobs know a local id by
  early,        \* eager creation
  attempts,
  faulty        \* faults so far

executionVars ==
  <<setup, step, making, abandoned, results, uploads, mappings, stored, applied, bound, early, attempts, faulty>>

Local(id) == [local |-> id, copy |-> 0]
\* A renaming backend gives every copy an id of its own.
Copy(id) == [local |-> id, copy |-> 1 + Cardinality({s \in stored : s.local = id /\ s.copy > 0})]

----------------------------------------------------------------------------
(* What is made of the attachments that have been collected. *)

Uses(id) == {i \in DOMAIN setup.uses : setup.uses[i].id = id}
UsedIds == {use.id : use \in Range(setup.uses)}

\* An attachment that is used several times is made once, for its first use: it is materialized, or its
\* bytes go with the action.
Materializes == setup.backend # "uploads"
CanMaterialize(id) ==
  Materializes /\ (setup.backend = "stable" => setup.uses[Min(Uses(id))].target # "media")

ExecutionStart ==
  /\ step = "ready" /\ making = <<>> /\ abandoned = {} /\ results = <<>> /\ uploads = {} /\ mappings = {}
  /\ stored = {} /\ applied = {} /\ bound = [id \in setup.ids |-> Local(id)] /\ attempts = 0 /\ faulty = 0
  /\ early = IF setup.eager THEN "reading" ELSE "none"

ExecutionInit == setup \in Setups /\ ExecutionStart

Unmoved == UNCHANGED <<setup, early, attempts, abandoned>>
Faulty == faulty < setup.faults /\ faulty' = faulty + 1

----------------------------------------------------------------------------
(* prepareActionParameters *)

\* Mutant: a new attempt goes on with the uploads and mappings of the last.
BeginWithRest ==
  /\ step \in {"ready", "failed"} /\ step' = "making" /\ attempts' = attempts + 1
  /\ making' = [id \in UsedIds |-> "reading"]
  /\ results' = [id \in setup.ids |-> Local(id)] /\ UNCHANGED <<uploads, mappings>>
  /\ UNCHANGED <<setup, abandoned, stored, applied, bound, early, faulty>>

Begin ==
  /\ step \in {"ready", "failed"} /\ step' = "making" /\ attempts' = attempts + 1
  /\ making' = [id \in UsedIds |-> "reading"]
  /\ results' = [id \in setup.ids |-> Local(id)] /\ uploads' = {} /\ mappings' = {}
  /\ UNCHANGED <<setup, abandoned, stored, applied, bound, early, faulty>>

Finished(id) == making' = [other \in DOMAIN making \ {id} |-> making[other]]
\* A remote id that differs from the local one is to be bound.
Became(id, remote) ==
  /\ Finished(id) /\ results' = [results EXCEPT ![id] = remote]
  /\ mappings' = IF remote = Local(id) THEN mappings ELSE mappings \cup {[local |-> id, remote |-> remote]}

\* Its bytes have been read: they go with the action, or are stored.  Foundry looks for them first.
Read(id) ==
  /\ step = "making" /\ id \in DOMAIN making /\ making[id] = "reading"
  /\ IF ~CanMaterialize(id)
     THEN uploads' = uploads \cup {id} /\ Finished(id) /\ UNCHANGED <<results, mappings>>
     ELSE IF setup.backend = "stable" /\ Local(id) \in stored
     THEN Became(id, Local(id)) /\ UNCHANGED uploads
     ELSE making' = [making EXCEPT ![id] = "storing"] /\ UNCHANGED <<results, mappings, uploads>>
  /\ UNCHANGED <<step, stored, applied, bound, faulty>> /\ Unmoved

\* The backend's id for an attachment that it stores, as the next copy or under its own.
Stored(id) == IF setup.backend = "stable" THEN Local(id) ELSE Copy(id)

Store(id) ==
  /\ step = "making" /\ id \in DOMAIN making /\ making[id] = "storing"
  /\ stored' = stored \cup {Stored(id)} /\ Became(id, Stored(id))
  /\ UNCHANGED <<step, uploads, applied, bound, faulty>> /\ Unmoved

Made == step = "making" /\ DOMAIN making = {} /\ step' = "applying"
        /\ UNCHANGED <<making, results, uploads, mappings, stored, applied, bound, faulty>> /\ Unmoved

\* An attachment cannot be read or stored: the attempt fails at once, while the others are still being made.
AttachmentFails(id) ==
  /\ step = "making" /\ id \in DOMAIN making /\ Faulty /\ step' = "failed"
  /\ abandoned' = abandoned \cup {[id |-> other, attempt |-> attempts] :
                                   other \in {used \in DOMAIN making \ {id} : CanMaterialize(used)}}
  /\ UNCHANGED <<setup, making, results, uploads, mappings, stored, applied, bound, early, attempts>>

\* Nobody looks at what becomes of them, unless they are stored.
StoreAbandoned(promise) ==
  /\ promise \in abandoned /\ abandoned' = abandoned \ {promise}
  /\ stored' = stored \cup {Stored(promise.id)}
  /\ UNCHANGED <<setup, step, making, results, uploads, mappings, applied, bound, early, attempts, faulty>>

\* The backend refuses the action, or a binding cannot be recorded.
AttemptFails ==
  /\ step \in {"applying", "binding"} /\ Faulty /\ step' = "failed"
  /\ UNCHANGED <<making, results, uploads, mappings, stored, applied, bound>> /\ Unmoved

----------------------------------------------------------------------------
(* applyAction, and the bindings after it *)

\* Mutant: only what the backend maps is bound.
BackendMappings(fresh) == fresh
AllMappings(fresh) == mappings \cup fresh

\* The backend stores the uploads, each under an id of its own, and applies the action.  The answer may
\* be lost; a backend that recognises the action answers again as it did, with the mappings it has made now.
ApplyAction ==
  /\ step = "applying"
  /\ LET Sent(use) == IF use.id \in uploads /\ (setup.backend = "stable" => use.target = "media")
                         THEN Copy(use.id) ELSE results[use.id]
         fresh == {[local |-> id, remote |-> Copy(id)] : id \in uploads}
         report == [attempt |-> attempts, refers |-> [use \in setup.referred |-> Sent(use)]]
     IN  /\ stored' = stored \cup {Copy(id) : id \in uploads}
         /\ applied' = IF setup.recognises /\ applied # {} THEN applied ELSE applied \cup {report}
         /\ mappings' = AllMappings(fresh)
  /\ \/ step' = "binding" /\ UNCHANGED faulty
     \/ Faulty /\ step' = "failed"
  /\ UNCHANGED <<making, results, uploads, bound>> /\ Unmoved

BindRemoteId(mapping) ==
  /\ step = "binding" /\ mapping \in mappings /\ mappings' = mappings \ {mapping}
  /\ bound' = [bound EXCEPT ![mapping.local] = mapping.remote]
  /\ UNCHANGED <<step, making, abandoned, results, uploads, stored, applied, faulty>> /\ Unmoved

Succeed ==
  /\ step = "binding" /\ mappings = {} /\ step' = "done"
  /\ UNCHANGED <<making, results, uploads, mappings, stored, applied, bound, faulty>> /\ Unmoved

----------------------------------------------------------------------------
(* create, with eager materialization *)

EagerReads ==
  /\ early = "reading"
  /\ early' = IF setup.backend = "stable" /\ Local(setup.first) \in stored THEN "done" ELSE "storing"
  /\ UNCHANGED <<setup, step, making, abandoned, results, uploads, mappings, stored, applied, bound, attempts, faulty>>
EagerStores ==
  /\ early = "storing"
  /\ stored' = stored \cup {Stored(setup.first)} /\ bound' = [bound EXCEPT ![setup.first] = Stored(setup.first)]
  /\ early' = "done"
  /\ UNCHANGED <<setup, step, making, abandoned, results, uploads, mappings, applied, attempts, faulty>>

ExecutionNext ==
  \/ Begin \/ Made \/ AttemptFails \/ ApplyAction \/ Succeed \/ EagerReads \/ EagerStores
  \/ \E id \in setup.ids : Read(id) \/ Store(id) \/ AttachmentFails(id)
  \/ \E promise \in abandoned : StoreAbandoned(promise)
  \/ \E mapping \in mappings : BindRemoteId(mapping)

ExecutionSpec == ExecutionInit /\ [][ExecutionNext]_executionVars

----------------------------------------------------------------------------
(* What must hold *)

\* The variables have their types, and an attachment is materialized or uploaded, never both.
ExecutionTypeOK ==
  /\ step \in {"ready", "making", "applying", "binding", "done", "failed"}
  /\ attempts \in 0..(1 + setup.faults)
  /\ uploads \subseteq setup.ids /\ DOMAIN making \subseteq setup.ids
  /\ abandoned \subseteq [id : setup.ids, attempt : 1..setup.faults]
  /\ step \in {"making", "applying"} => \A m \in mappings : m.local \notin uploads /\ m.remote \in stored

\* Where the backend tells kinds of attachments apart, each is used as one kind.
OneKind ==
  setup.backend = "stable" =>
    \A u, v \in Range(setup.uses) \cup setup.referred :
      u.id = v.id => (u.target = "media" <=> v.target = "media")

\* The backend never gets to see an attachment whose bytes it has not got, wherever in the parameters it
\* is, however often it is used and whichever attempt it is.
AppliedIsStored == OneKind => \A a \in applied : \A use \in setup.referred : a.refers[use] \in stored

\* A call that has succeeded leaves its attachments bound to what the backend's objects refer to, so
\* that their bytes are found here.  (Not where a backend recognises an action whose answer was lost, and
\* not where an attachment is eagerly stored under another id meanwhile.)
BoundIsReferred ==
  step = "done" /\ OneKind /\ ~(setup.recognises /\ faulty > 0) /\ early = "none" =>
    \A use \in setup.referred : \E a \in applied : a.attempt = attempts /\ a.refers[use] = bound[use.id]

\* Attachments arrive before, and are found after, the action that refers to them.
AttachmentsHold == AppliedIsStored /\ BoundIsReferred
=============================================================================
