----------------------------- MODULE MCServices -----------------------------
(***************************************************************************)
(* Instances of the service lanes, of the shared worker that offers them   *)
(* to its clients, and of the persisted collection, which is a service,    *)
(* for TLC.  `focus' selects what a behaviour is about; the other          *)
(* components keep their initial state.                                    *)
(***************************************************************************)
EXTENDS ServiceLanes, SharedWorker, IndexedQueries, TLC

CONSTANTS A, B

\* Handlers of A call A and B; handlers of B call A back.
MCCyclic == {<<A, A>>, <<A, B>>, <<B, A>>}

----------------------------------------------------------------------------
CONSTANTS n1, n2, e1, e2, e3, m1, m2, m3, k1, k2

Number(n) == [type |-> "number", rank |-> n, text |-> <<>>]
String(text) == [type |-> "string", rank |-> 0, text |-> text]
Instant(halves) == [type |-> "instant", rank |-> halves, text |-> <<>>]
Null == [type |-> "null", rank |-> 0, text |-> <<>>]
Object == [type |-> "object", rank |-> 1, text |-> <<>>]
name == <<"name">>
meta == <<"meta", "text">>

MCLower == [letter \in {"a", "A", "b"} |-> IF letter = "A" THEN "a" ELSE letter]
MCWrites ==
  e1 :> (k1 :> (name :> Number(1) @@ meta :> String(<<"A", "b">>))
         @@ k2 :> (name :> Number(2) @@ meta :> Null))
  @@ e2 :> (k1 :> (name :> String(<<"a">>) @@ meta :> Instant(3)))
  @@ e3 :> (k1 :> Gone @@ k2 :> (name :> Object @@ meta :> String(<<"a">>)))
MCAsker == e1 :> n1 @@ e2 :> n2 @@ e3 :> n2
MCSender == [m \in Messages |-> n1]
MCSignatures == <<name, meta>>

Compare(by, path, value) == [op |-> "compare", by |-> by, path |-> path, value |-> value]
LikeText(text, wildcard, fold) ==
  [op |-> "like", path |-> meta, text |-> text, wildcard |-> wildcard, fold |-> fold]
Both(connective, a, b) == [op |-> connective, of |-> {a, b}]
Not(a) == [op |-> "not", of |-> a]
MCPredicates ==
  LET small == Compare("lte", name, Number(1))
      starts == LikeText(<<"a">>, TRUE, TRUE)
  IN  {Compare(by, path, value) : by \in {"eq", "gt", "lte"}, path \in {name, meta},
                                  value \in {Number(1), String(<<"a">>), Instant(0), Instant(2), Null}}
      \cup {LikeText(text, wildcard, fold) : text \in {<<>>, <<"a">>},
                                             wildcard \in BOOLEAN, fold \in BOOLEAN}
      \cup {[op |-> "in", path |-> meta, values |-> {String(<<"a">>), Null}],
            [op |-> "in", path |-> name, values |-> {}],
            [op |-> "is", path |-> meta, type |-> "null"],
            [op |-> "is", path |-> name, type |-> "undefined"],
            Compare("eq", <<"text">>, String(<<"a">>)),
            Both("and", small, starts), Both("or", small, starts), Not(small),
            Both("and", starts, Not(small)), Both("or", starts, Not(small))}
MCBudget == [crash |-> 1, fault |-> 1, lost |-> 1]

----------------------------------------------------------------------------
CONSTANTS w1, r1, r2

MCBy == r1 :> w1 @@ r2 :> w1
\* The client speaks the protocol of the host, or another one.
MCVersions == {{w1}, {}}

----------------------------------------------------------------------------
VARIABLE focus

\* Calls are alike, so that they may be taken in the order of their numbers.
TakenInTurn == \A i, j \in Calls : i < j /\ phase'[i] = "new" => phase'[j] = "new"

MCInit ==
  /\ focus \in {"lanes", "worker", "commits", "indexes", "relays"}
  /\ Init /\ WorkerInit /\ CollectionInit
  /\ focus = "worker" \/ fits = Clients

\* Commits, commits beside indexes where nothing goes wrong, and relays beside one commit.
MCNext ==
  /\ UNCHANGED focus
  /\ CASE focus = "lanes" -> Next /\ TakenInTurn /\ UNCHANGED <<workerVars, collectionVars>>
       [] focus = "worker" -> WorkerNext /\ UNCHANGED <<vars, collectionVars>>
       [] focus = "commits" -> /\ CollectionNext /\ relay' = relay /\ UNCHANGED <<vars, workerVars>>
                               /\ DOMAIN stored'.indexes = {}
       [] focus = "indexes" -> CollectionNext /\ relay' = relay /\ UNCHANGED <<trouble, vars, workerVars>>
       [] focus = "relays" -> /\ CollectionNext /\ UNCHANGED <<vars, workerVars>>
                              /\ DOMAIN stored'.indexes = {}
                              /\ \A e \in {e2, e3} : request'[e] = "new"

Lanes == focus = "lanes"
ByWorker == focus = "worker"
Stored == focus \in {"commits", "indexes", "relays"}

\* The fairness of each module, for the behaviours that are about it.
MCSpec ==
  /\ MCInit /\ [][MCNext]_<<vars, workerVars, collectionVars, focus>>
  /\ \A s \in Services : WF_vars(Lanes /\ (Skip(s) \/ Start(s))) /\ WF_vars(Lanes /\ Unregister(s))
  /\ \A i \in Calls : WF_vars(Lanes /\ Return(i))
  /\ \A w \in Clients :
       /\ WF_workerVars(ByWorker /\ HostReads(w)) /\ WF_workerVars(ByWorker /\ ClientReads(w))
       /\ WF_workerVars(ByWorker /\ HandshakeTimesOut(w))
  /\ \A r \in Requests :
       WF_workerVars(ByWorker /\ RequestWhenReady(r)) /\ WF_workerVars(ByWorker /\ CancelRequest(r))
  /\ WF_workerVars(ByWorker /\ HostEnds)
  /\ WF_collectionVars(Stored /\ Position(TRUE)) /\ WF_collectionVars(Stored /\ PositionUnknown)
  /\ WF_collectionVars(Stored /\ Commit) /\ WF_collectionVars(Stored /\ Publish(FALSE))
  /\ WF_collectionVars(Stored /\ \E c \in Contexts : Lead(c))
  /\ \A e \in Envelopes : WF_collectionVars(Stored /\ ApplyMutations(e))

\* The state of every part has its type.
StateTyped == TypeOK /\ WorkerTypeOK /\ CollectionTypeOK

\* Calls settle through the shared worker and in the lanes, unless chains of calls in opposite
\* directions have locked each other out, and what is stored is announced.
ServicesSettle ==
  []<>((Lanes => Settled \/ Deadlocked) /\ (ByWorker => AllSettled) /\ (Stored => AllAnnounced))
=============================================================================
