------------------------ MODULE PersistedCollection ------------------------
(***************************************************************************)
(* A collection that is kept in IndexedDB and shared by the contexts of    *)
(* one origin.  Mutations reach the coordinator of the leading context as  *)
(* requests, which the coordination serves one at a time and delivers      *)
(* again when an answer is lost or the leader dies; the leader stores them *)
(* at the next position of the collection's stream and announces them to   *)
(* the subscribers.  Messages of other kinds are relayed by the leader.    *)
(***************************************************************************)
EXTENDS IndexEntries, FiniteSetsExt

CONSTANTS Contexts, Envelopes,  \* contexts, and the mutations that are requested
          RowKeys, Gone,        \* keys, and what a deletion writes
          Writes,               \* per envelope: what it writes to which keys
          Asker,                \* per envelope: the context that requests it
          Messages, Sender,     \* what contexts publish besides, and which context does
          Signatures,           \* per index signature: the path it indexes
          Capacity,             \* entries of the leader's memory of what it has done
          MaxPending,           \* relays that a context has under way
          Nobody, Unread, Broken,
          Budget                \* how often each kind of trouble may happen

Positions == [term : Nat, seq : Nat, version : Nat]

\* What contexts, kinds of trouble and what is known of a position are told apart by.
ASSUME CollectionAssumption ==
  /\ IsFiniteSet(Envelopes) /\ IsFiniteSet(Messages)
  /\ Asker \in [Envelopes -> Contexts] /\ Sender \in [Messages -> Contexts]
  /\ Nobody \notin Contexts /\ Unread # Broken /\ {Unread, Broken} \cap Positions = {}
  /\ Capacity \in Nat /\ MaxPending \in Nat /\ Budget \in [{"crash", "fault", "lost"} -> Nat]

VARIABLES
  leader,    \* the context that leads, or Nobody
  stored,    \* the database: rows, transactions, stream and indexes
  position,  \* per context: Unread, Broken, or where its last commit stands
  answered,  \* per context: the envelopes whose answer it remembers, oldest first
  serving,   \* what the leader's handler has done
  request,   \* per envelope: what became of its request
  commits,   \* the stored envelopes with their positions, in order
  announced, \* the announcements the subscribers received, in order
  relay,     \* per message: what became of it
  pending,   \* per context: its count of the relays it has under way
  relayed,   \* per context: the relays it remembers, oldest first
  sent,      \* per context and message: how often it sent the message out
  trouble    \* what is left of the budget

asking == <<request, answered>>
relays == <<relay, pending, relayed, sent>>
collectionVars == <<leader, stored, position, serving, commits, announced, asking, relays, trouble>>

Idle == [pc |-> "idle"]
NoStream == [term |-> 0, seq |-> 0, version |-> 0]

CollectionInit ==
  /\ leader = Nobody
  /\ stored = [rows |-> [k \in RowKeys |-> Gone], done |-> {}, stream |-> NoStream,
               indexes |-> [s \in {} |-> {}]]
  /\ position = [c \in Contexts |-> Unread] /\ answered = [c \in Contexts |-> <<>>]
  /\ serving = Idle /\ request = [e \in Envelopes |-> "new"]
  /\ commits = <<>> /\ announced = <<>>
  /\ relay = [m \in Messages |-> "new"] /\ pending = [c \in Contexts |-> 0]
  /\ relayed = [c \in Contexts |-> <<>>] /\ sent = [c \in Contexts |-> [m \in Messages |-> 0]]
  /\ trouble = Budget

----------------------------------------------------------------------------
(* The database *)

Trouble(kind) == trouble[kind] > 0 /\ trouble' = [trouble EXCEPT ![kind] = trouble[kind] - 1]
Reign == Budget["crash"] - trouble["crash"]   \* how many leaders have ended
Present(rows) == [k \in {j \in RowKeys : rows[j] # Gone} |-> rows[k]]
Written(rows, e) == [k \in RowKeys |-> IF k \in DOMAIN Writes[e] THEN Writes[e][k] ELSE rows[k]]
Larger(a, b) == IF a > b THEN a ELSE b
Indexed(names, rows) == [s \in names |-> BuildIndexRecords(Signatures[s], Present(rows))]

StreamAfter(stream, at) ==
  [term |-> Larger(stream.term, at.term),
   seq |-> CASE at.term > stream.term -> at.seq
             [] at.term = stream.term -> Larger(stream.seq, at.seq)
             [] OTHER -> stream.seq,
   version |-> Larger(stream.version, at.version)]

\* Mutant: a transaction that was applied before is applied again.
ApplyAgain(e, at) ==
  LET rows == Written(stored.rows, e)
  IN  [rows |-> rows, done |-> stored.done \cup {e}, stream |-> StreamAfter(stored.stream, at),
       indexes |-> Indexed(DOMAIN stored.indexes, rows)]

\* Mutant: the rows that are stored are not read first.
ApplyAlone(e, at) ==
  IF e \in stored.done
  THEN stored
  ELSE LET rows == Written([k \in RowKeys |-> Gone], e)
       IN  [rows |-> rows, done |-> stored.done \cup {e}, stream |-> StreamAfter(stored.stream, at),
            indexes |-> Indexed(DOMAIN stored.indexes, rows)]

\* One transaction; one that was applied before changes nothing, its position neither.
ApplyCommittedTx(e, at) ==
  IF e \in stored.done
  THEN stored
  ELSE LET rows == Written(stored.rows, e)
       IN  [rows |-> rows, done |-> stored.done \cup {e}, stream |-> StreamAfter(stored.stream, at),
            indexes |-> Indexed(DOMAIN stored.indexes, rows)]

\* An index is built from the rows that are there, and lives on with every transaction.
EnsureIndex(s) ==
  /\ leader # Nobody /\ serving = Idle
  /\ stored' = [stored EXCEPT !.indexes = Indexed(DOMAIN stored.indexes \cup {s}, stored.rows)]
  /\ UNCHANGED <<leader, position, serving, commits, announced, asking, relays, trouble>>

MarkIndexRemoved(s) ==
  /\ s \in DOMAIN stored.indexes
  /\ stored' = [stored EXCEPT !.indexes = Indexed(DOMAIN stored.indexes \ {s}, stored.rows)]
  /\ UNCHANGED <<leader, position, serving, commits, announced, asking, relays, trouble>>

----------------------------------------------------------------------------
(* Mutations *)

RequestApplyLocalMutations(e) ==
  /\ request[e] = "new" /\ request' = [request EXCEPT ![e] = "asked"]
  /\ UNCHANGED <<leader, stored, position, serving, commits, announced, answered, relays, trouble>>

\* Mutant: mutations that are stored count as answered.
ApplyUnstored(e) ==
  /\ leader # Nobody /\ serving = Idle /\ request[e] = "asked"
  /\ IF e \in stored.done
     THEN request' = [request EXCEPT ![e] = "answered"] /\ UNCHANGED serving
     ELSE serving' = [pc |-> "locate", env |-> e] /\ UNCHANGED request
  /\ UNCHANGED <<leader, stored, position, commits, announced, answered, relays, trouble>>

\* The leader takes a request up; one it remembers is answered as before.
ApplyMutations(e) ==
  /\ leader # Nobody /\ serving = Idle /\ request[e] = "asked"
  /\ IF \E i \in DOMAIN answered[leader] : answered[leader][i] = e
     THEN request' = [request EXCEPT ![e] = "answered"] /\ UNCHANGED serving
     ELSE serving' = [pc |-> "locate", env |-> e] /\ UNCHANGED request
  /\ UNCHANGED <<leader, stored, position, commits, announced, answered, relays, trouble>>

\* Mutant: a leader starts afresh in each of its terms.
StartAfresh(stream) == [term |-> 1, seq |-> 0, version |-> 0]

StartAfter(stream) == [term |-> stream.term + 1, seq |-> stream.seq, version |-> stream.version]

\* The position is read once per context, and a failure to read it is remembered like it.
Position(read) ==
  /\ serving.pc = "locate" /\ position[leader] = Unread
  /\ IF read
     THEN position' = [position EXCEPT ![leader] = StartAfter(stored.stream)] /\ UNCHANGED trouble
     ELSE position' = [position EXCEPT ![leader] = Broken] /\ Trouble("fault")
  /\ UNCHANGED <<leader, stored, serving, commits, announced, asking, relays>>

Reject ==
  /\ request' = [request EXCEPT ![serving.env] = "rejected"] /\ serving' = Idle

PositionUnknown ==
  /\ serving.pc = "locate" /\ position[leader] = Broken /\ Reject
  /\ UNCHANGED <<leader, stored, position, commits, announced, answered, relays, trouble>>

Advanced(at) == [term |-> at.term, seq |-> at.seq + 1, version |-> at.version + 1]

\* The position moves on before the transaction, and stays there when the transaction fails.
Commit ==
  /\ serving.pc = "locate" /\ position[leader] \notin {Unread, Broken}
  /\ position' = [position EXCEPT ![leader] = Advanced(position[leader])]
  /\ stored' = ApplyCommittedTx(serving.env, position'[leader])
  /\ commits' = IF serving.env \in stored.done
                THEN commits
                ELSE Append(commits, [env |-> serving.env, by |-> Reign, at |-> position'[leader]])
  /\ serving' = [serving EXCEPT !.pc = "publish"]
  /\ UNCHANGED <<leader, announced, asking, relays, trouble>>

\* Mutant: the mutations are announced before they are stored.
CommitAnnounced ==
  /\ serving.pc = "locate" /\ position[leader] \notin {Unread, Broken} /\ Trouble("fault")
  /\ position' = [position EXCEPT ![leader] = Advanced(position[leader])] /\ Reject
  /\ announced' = Append(announced, [env |-> serving.env, by |-> Reign, at |-> position'[leader]])
  /\ UNCHANGED <<leader, stored, commits, answered, relays>>

CommitFails ==
  /\ serving.pc = "locate" /\ position[leader] \notin {Unread, Broken} /\ Trouble("fault")
  /\ position' = [position EXCEPT ![leader] = Advanced(position[leader])] /\ Reject
  /\ UNCHANGED <<leader, stored, commits, announced, answered, relays>>

\* The oldest entry makes room.
Remembered(list, x) ==
  LET longer == Append(list, x) IN IF Len(longer) > Capacity THEN Tail(longer) ELSE longer

Announcement == [env |-> serving.env, by |-> Reign, at |-> position[leader]]

\* The announcement, the memory of the answer and the answer, which may be lost.
Publish(lost) ==
  /\ serving.pc = "publish" /\ announced' = Append(announced, Announcement)
  /\ answered' = [answered EXCEPT ![leader] = Remembered(answered[leader], serving.env)]
  /\ IF lost
     THEN Trouble("lost") /\ UNCHANGED request
     ELSE request' = [request EXCEPT ![serving.env] = "answered"] /\ UNCHANGED trouble
  /\ serving' = Idle
  /\ UNCHANGED <<leader, stored, position, commits, relays>>

----------------------------------------------------------------------------
(* Relays *)

\* Mutant: one relay too many is let in.
TooManyLate(c) == pending[c] > MaxPending
TooMany(c) == pending[c] >= MaxPending

\* A leader publishes itself; another context asks it to, and drops the message when too many
\* relays are under way.
PublishMessage(m) ==
  LET c == Sender[m]
      over == c = leader \/ TooMany(c)
  IN  /\ leader # Nobody /\ relay[m] = "new"
      /\ relay' = [relay EXCEPT ![m] = IF over THEN "over" ELSE "asked"]
      /\ pending' = IF over THEN pending ELSE [pending EXCEPT ![c] = pending[c] + 1]
      /\ sent' = IF c = leader THEN [sent EXCEPT ![c][m] = sent[c][m] + 1] ELSE sent
      /\ UNCHANGED <<leader, stored, position, serving, commits, announced, asking, relayed, trouble>>

Returned(m) ==
  /\ relay' = [relay EXCEPT ![m] = "over"]
  /\ pending' = [pending EXCEPT ![Sender[m]] = pending[Sender[m]] - 1]

\* Mutant: only the last relay is recognised.
KnownLast(m) == relayed[leader] # <<>> /\ relayed[leader][Len(relayed[leader])] = m

Known(m) == \E i \in DOMAIN relayed[leader] : relayed[leader][i] = m

\* The leader sends out what it has not sent out before; its answer may be lost.
RelayMessage(m, lost) ==
  /\ leader \notin {Nobody, Sender[m]} /\ serving = Idle /\ relay[m] = "asked"
  /\ IF Known(m)
     THEN UNCHANGED <<relayed, sent>>
     ELSE /\ relayed' = [relayed EXCEPT ![leader] = Remembered(relayed[leader], m)]
          /\ sent' = [sent EXCEPT ![leader][m] = sent[leader][m] + 1]
  /\ IF lost THEN Trouble("lost") /\ UNCHANGED <<relay, pending>>
             ELSE Returned(m) /\ UNCHANGED trouble
  /\ UNCHANGED <<leader, stored, position, serving, commits, announced, asking>>

\* Mutant: only a relay that succeeds is counted down.
RelayFailsUncounted(m) ==
  /\ relay[m] = "asked" /\ Trouble("fault") /\ relay' = [relay EXCEPT ![m] = "over"]
  /\ UNCHANGED <<leader, stored, position, serving, commits, announced, asking, pending, relayed, sent>>

RelayFails(m) ==
  /\ relay[m] = "asked" /\ Trouble("fault") /\ Returned(m)
  /\ UNCHANGED <<leader, stored, position, serving, commits, announced, asking, relayed, sent>>

----------------------------------------------------------------------------
(* Contexts *)

Lead(c) ==
  /\ leader = Nobody /\ leader' = c
  /\ UNCHANGED <<stored, position, serving, commits, announced, asking, relays, trouble>>

\* The leading context ends, with what it remembers and what it was waiting for.
Crash ==
  /\ leader # Nobody /\ Trouble("crash") /\ leader' = Nobody
  /\ position' = [position EXCEPT ![leader] = Unread] /\ serving' = Idle
  /\ answered' = [answered EXCEPT ![leader] = <<>>]
  /\ request' = [e \in Envelopes |->
       IF Asker[e] = leader /\ request[e] = "asked" THEN "abandoned" ELSE request[e]]
  /\ relay' = [m \in Messages |->
       IF Sender[m] = leader /\ relay[m] = "asked" THEN "over" ELSE relay[m]]
  /\ pending' = [pending EXCEPT ![leader] = 0]
  /\ relayed' = [relayed EXCEPT ![leader] = <<>>]
  /\ sent' = [sent EXCEPT ![leader] = [m \in Messages |-> 0]]
  /\ UNCHANGED <<stored, commits, announced>>

----------------------------------------------------------------------------
HandlerSteps ==
  \/ \E read \in BOOLEAN : Position(read)
  \/ PositionUnknown \/ Commit \/ CommitFails \/ (\E lost \in BOOLEAN : Publish(lost))

Relay(m) == PublishMessage(m) \/ (\E lost \in BOOLEAN : RelayMessage(m, lost)) \/ RelayFails(m)

CollectionNext ==
  \/ Crash \/ HandlerSteps
  \/ \E e \in Envelopes : RequestApplyLocalMutations(e) \/ ApplyMutations(e)
  \/ \E c \in Contexts : Lead(c)
  \/ \E m \in Messages : Relay(m)
  \/ \E s \in DOMAIN Signatures : EnsureIndex(s) \/ MarkIndexRemoved(s)

CollectionSpec == CollectionInit /\ [][CollectionNext]_collectionVars

\* Somebody leads, requests are delivered again until they are answered, and handlers go on.
Fairness ==
  /\ WF_collectionVars(Position(TRUE)) /\ WF_collectionVars(PositionUnknown) /\ WF_collectionVars(Commit)
  /\ WF_collectionVars(Publish(FALSE)) /\ WF_collectionVars(\E c \in Contexts : Lead(c))
  /\ \A e \in Envelopes : WF_collectionVars(ApplyMutations(e))

----------------------------------------------------------------------------
(* What must hold *)

Stamps == [env : Envelopes, by : Nat, at : Positions]

CollectionTypeOK ==
  /\ leader \in Contexts \cup {Nobody}
  /\ \A k \in RowKeys : stored.rows[k] = Gone \/ \E e \in Envelopes :
       k \in DOMAIN Writes[e] /\ stored.rows[k] = Writes[e][k]
  /\ stored.done \subseteq Envelopes /\ stored.stream \in Positions
  /\ DOMAIN stored.indexes \subseteq DOMAIN Signatures
  /\ \A c \in Contexts : position[c] \in {Unread, Broken} \/ position[c] \in Positions
  /\ \A c \in Contexts : Len(answered[c]) <= Capacity /\ Len(relayed[c]) <= Capacity
  /\ serving = Idle \/ serving \in [pc : {"locate", "publish"}, env : Envelopes]
  /\ request \in [Envelopes -> {"new", "asked", "answered", "rejected", "abandoned"}]
  /\ commits \in Seq(Stamps) /\ announced \in Seq(Stamps)
  /\ relay \in [Messages -> {"new", "asked", "over"}] /\ pending \in [Contexts -> 0..MaxPending]

\* The rows after a log of envelopes: each as the last one left it that wrote it.
Writing(log, k) == {i \in DOMAIN log : k \in DOMAIN Writes[log[i].env]}
Folded(log) ==
  [k \in RowKeys |-> IF Writing(log, k) = {} THEN Gone ELSE Writes[log[Max(Writing(log, k))].env][k]]

\* The rows are what the envelopes write in the order in which each was first stored: a request
\* that is delivered again, to this leader or a later one, never overwrites a later one.
RowsFollowCommits == stored.rows = Folded(commits)

\* Across leaders, failures and crashes, no two commits are stored at one position, and later
\* ones have later positions: rows are versioned in their order.
PositionsGrow ==
  \A i, j \in DOMAIN commits : i < j =>
    /\ commits[i].at.version < commits[j].at.version
    /\ \/ commits[i].at.term < commits[j].at.term
       \/ commits[i].at.term = commits[j].at.term /\ commits[i].at.seq < commits[j].at.seq

\* An announcement is of mutations that are stored; one by the leader that stored them, while it
\* can remember them, names the position they are stored at.
AnnouncedIsStored ==
  \A i \in DOMAIN announced :
    /\ announced[i].env \in stored.done
    /\ \A j \in DOMAIN commits :
         /\ commits[j].env = announced[i].env /\ commits[j].by = announced[i].by
         /\ Cardinality(Envelopes) <= Capacity
         => commits[j].at = announced[i].at

Unannounced == {i \in DOMAIN commits : \A j \in DOMAIN announced : announced[j].env # commits[i].env}
Reannounced == {j \in DOMAIN announced : \A i \in DOMAIN commits : commits[i] # announced[j]}

\* Subscribers that apply the announcements have the rows of the database when every commit was
\* announced, by the leader that stored it.
SubscribersAgree == Unannounced = {} /\ Reannounced = {} => Folded(announced) = stored.rows

\* What is stored is announced, unless the caller ended, or was refused by a leader that never
\* found its position.
AllAnnounced ==
  \A e \in stored.done :
    request[e] \in {"abandoned", "rejected"} \/ \E j \in DOMAIN announced : announced[j].env = e
CommittedIsAnnounced == []<>AllAnnounced

\* The count of the relays under way is exact, so that the limit drops no other.
RelaysAreCounted ==
  \A c \in Contexts : pending[c] = Cardinality({m \in Messages : Sender[m] = c /\ relay[m] = "asked"})

\* A leader sends a message out once, however often it is asked to, while it can remember it.
RelayedOnce ==
  Cardinality(Messages) <= Capacity => \A c \in Contexts, m \in Messages : sent[c][m] <= 1

\* The database, its stream and what the contexts hear of it agree, whichever leader dies where and
\* however often a request or a message reaches one.
CollectionAgrees ==
  /\ RowsFollowCommits /\ PositionsGrow /\ AnnouncedIsStored /\ SubscribersAgree
  /\ RelaysAreCounted /\ RelayedOnce
=============================================================================
