--------------------------- MODULE IndexedQueries ---------------------------
(***************************************************************************)
(* Queries on a persisted collection that run on the indexes it has.       *)
(***************************************************************************)
EXTENDS PersistedCollection, IndexPlans

CONSTANT Predicates   \* queries that are compared with what they hold of

Unambiguous(p) ==
  \A s \in DOMAIN stored.indexes :
    PathsMatch(stored.indexes[s].path, p.path) => stored.indexes[s].path = p.path

\* An instant is indexed by its millisecond: a strict bound tells a row from itself only if the two
\* are equal or of different milliseconds.
Separated(p) ==
  p.op = "compare" /\ p.by \in {"gt", "lt"} /\ p.value.type = "instant" =>
    \A k \in DOMAIN Present(stored.rows) :
      LET value == Field(stored.rows[k], p.path)
      IN  value.type = "instant" /\ EncodeIndexValue(value) = EncodeIndexValue(p.value) => value = p.value

RECURSIVE Leaves(_)
Leaves(p) ==
  CASE p.op \in {"and", "or"} -> UNION {Leaves(q) : q \in p.of}
    [] p.op = "not" -> Leaves(p.of)
    [] OTHER -> {p}

\* A query that runs on indexes misses no row that it holds of, whatever values the rows have, if no
\* indexed path is the end of another path that is queried and no instant lies strictly within the
\* millisecond of a strict bound.
IndexComplete ==
  [][\A p \in Predicates :
       (\A q \in Leaves(p) : Unambiguous(q)' /\ Separated(q)') =>
         {k \in RowKeys : stored'.rows[k] # Gone /\ Holds(p, stored'.rows[k]) = "yes"}
           \subseteq LoadSubset(stored'.indexes, Present(stored'.rows), p)]_stored
=============================================================================
