-------------------------- MODULE OutboxRepository --------------------------
(***************************************************************************)
(* The durable table of pending ontology actions and the changes that the  *)
(* repository makes to it.  A table is a function from the identifiers     *)
(* that are present to their entries; every change is an operator from a   *)
(* table to a table, guarded by a predicate for the calls it refuses.      *)
(*                                                                         *)
(* Abstractions: the request of an entry is left out; nextAttemptAt is the *)
(* flag "due" (the time has come); lastError is its class.                 *)
(***************************************************************************)
EXTENDS Integers, Functions

CONSTANTS Ids,       \* identifiers of enqueued actions
          Settings   \* the settings an outbox may have, and bounds on what disrupts it

Strategies == {"pause", "discard-all"}

ASSUME SettingsAssumption ==
  \A s \in Settings : s.maxRetries \in Nat /\ s.failureStrategy \in Strategies

VARIABLE setting     \* the setting of this outbox

MaxRetries == setting.maxRetries            \* writes.outbox.maxRetries
FailureStrategy == setting.failureStrategy

Statuses == {"queued", "executing", "failed"}
NoRun == 0                  \* executionId: undefined

Entry == [sequence : Nat \ {0}, status : Statuses, attempts : Nat, retryable : BOOLEAN,
          due : BOOLEAN, run : Nat, error : {"none", "execution", "interrupted"}]

IsTable(t) == DOMAIN t \subseteq Ids /\ \A id \in DOMAIN t : t[id] \in Entry

----------------------------------------------------------------------------
IsHead(t, id) == id \in DOMAIN t /\ \A other \in DOMAIN t : t[id].sequence <= t[other].sequence

IsNextSequence(t, n) ==
  \/ DOMAIN t = {} /\ n = 1
  \/ \E last \in DOMAIN t : /\ n = t[last].sequence + 1
                            /\ \A other \in DOMAIN t : t[other].sequence < n

\* The claim that assertCurrentExecution checks before complete, fail and discardAll.
IsCurrent(t, id, run) == id \in DOMAIN t /\ t[id].status = "executing" /\ t[id].run = run

----------------------------------------------------------------------------
NewEntry(n) == [sequence |-> n, status |-> "queued", attempts |-> 0, retryable |-> TRUE,
                due |-> TRUE, run |-> NoRun, error |-> "none"]

Without(t, gone) == Restrict(t, DOMAIN t \ gone)

\* Mutant: the proposed entry is stored with the sequence it was proposed with.
EnqueuedAsProposed(t, id, n) ==
  [i \in DOMAIN t \cup {id} |-> IF i = id THEN [NewEntry(n) EXCEPT !.sequence = 0] ELSE t[i]]

Enqueued(t, id, n) == [i \in DOMAIN t \cup {id} |-> IF i = id THEN NewEntry(n) ELSE t[i]]

\* Mutant: an entry may be edited while it is executing.
EditableAlways(t, id) == id \in DOMAIN t

Editable(t, id) == id \in DOMAIN t /\ t[id].status \in {"queued", "failed"}

Edited(t, id) ==
  [t EXCEPT ![id] = [@ EXCEPT !.status = "queued", !.retryable = TRUE, !.attempts = 0,
                              !.run = NoRun, !.due = TRUE, !.error = "none"]]

Removable(t, id) == id \in DOMAIN t => t[id].status \in {"queued", "failed"}

Retriable(t, id) == id \in DOMAIN t /\ t[id].retryable /\ t[id].status # "executing"

Retried(t, id) ==
  [t EXCEPT ![id] = [@ EXCEPT !.status = "queued", !.run = NoRun, !.due = TRUE, !.error = "none"]]

----------------------------------------------------------------------------
(* recover: what a new leader does to the head before it drains the queue. *)

Interrupted(e) == e.status = "executing" \/ e.error = "interrupted"

Exhausted(e) == e.status = "failed" /\ (~e.retryable \/ e.attempts > MaxRetries)

RecoverDiscards(t, id) ==
  FailureStrategy = "discard-all" /\ IsHead(t, id) /\ (Interrupted(t[id]) \/ Exhausted(t[id]))

RecoverResumes(t, id) ==
  /\ IsHead(t, id) /\ ~RecoverDiscards(t, id)
  /\ t[id].status = "failed" /\ t[id].retryable /\ t[id].attempts <= MaxRetries

RecoverInterrupts(t, id) ==
  IsHead(t, id) /\ ~RecoverDiscards(t, id) /\ t[id].status = "executing"

Resumed(t, id) ==
  [t EXCEPT ![id] = [@ EXCEPT !.status = "queued", !.run = NoRun, !.due = TRUE]]

MarkedInterrupted(t, id) ==
  [t EXCEPT ![id] = [@ EXCEPT !.status = "failed", !.retryable = TRUE, !.run = NoRun,
                              !.error = "interrupted"]]

----------------------------------------------------------------------------
\* Mutant: any queued entry is claimed, not only the head.
ClaimableAnywhere(t, id) == id \in DOMAIN t /\ t[id].status = "queued" /\ t[id].due

Claimable(t, id) == IsHead(t, id) /\ t[id].status = "queued" /\ t[id].due

Claimed(t, id, run) == [t EXCEPT ![id] = [@ EXCEPT !.status = "executing", !.run = run]]

\* fail without retryAt leaves the entry failed, with retryAt it is queued again.
Failed(t, id, retryable) ==
  [t EXCEPT ![id] = [@ EXCEPT !.status = "failed", !.retryable = retryable,
                              !.attempts = t[id].attempts + 1, !.run = NoRun, !.due = TRUE,
                              !.error = "execution"]]

Rescheduled(t, id, due) ==
  [t EXCEPT ![id] = [@ EXCEPT !.status = "queued", !.retryable = TRUE,
                              !.attempts = t[id].attempts + 1, !.run = NoRun, !.due = due,
                              !.error = "execution"]]

\* Mutant: only the entry that failed is discarded.
DiscardedAlone(t, id) == {id}

DiscardedFrom(t, id) == {other \in DOMAIN t : t[other].sequence >= t[id].sequence}
=============================================================================
