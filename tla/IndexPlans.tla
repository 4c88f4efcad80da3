----------------------------- MODULE IndexPlans -----------------------------
(***************************************************************************)
(* How the IndexedDB adapter answers a query on a stored collection: the   *)
(* plan it selects for a predicate, and the rows that the plan finds,      *)
(* beside the rows that hold the predicate.  A plan is the set of the keys *)
(* it finds, in a set of its own, and the empty set is "no plan".          *)
(***************************************************************************)
EXTENDS IndexEntries, SequencesExt

----------------------------------------------------------------------------
(* The plan for a predicate; `definitions' maps the signatures that exist to their index *)

PathsMatch(left, right) == IsSuffix(left, right) \/ IsSuffix(right, left)

\* The first, in the order of the signatures, that holds values of the type.
MatchingDefinition(definitions, path, type) ==
  LET fits == {s \in DOMAIN definitions :
                 type \in definitions[s].types /\ PathsMatch(definitions[s].path, path)}
  IN  {definitions[s] : s \in {t \in fits : \A u \in fits : t <= u}}

\* A range is safe only if every row that could be compared has a key of the queried type.
CompatibleRangeType(definition, type) ==
  /\ ~definition.unsupported /\ type \notin {"nan", "null", "string-ci", "undefined"}
  /\ definition.types \ {"null", "string-ci", "undefined"} \subseteq {type}

InRange(by, at, value) ==
  CASE by = "eq" -> at = value
    [] by = "gt" -> at.type = value.type /\ at.rank > value.rank
    [] by = "gte" -> at.type = value.type /\ at.rank >= value.rank
    [] by = "lt" -> at.type = value.type /\ at.rank < value.rank
    [] by = "lte" -> at.type = value.type /\ at.rank <= value.rank

Found(definition, by, value) == {e.key : e \in {f \in definition.entries : InRange(by, f.at, value)}}

LookupPlan(definitions, by, path, value) ==
  {Found(d, by, v) : <<v, d>> \in
     {<<v, d>> \in EncodeIndexValue(value) \X
                   UNION {MatchingDefinition(definitions, path, v.type) : v \in EncodeIndexValue(value)} :
        by = "eq" \/ CompatibleRangeType(d, v.type)}}

CombineAnd(plans) ==
  LET planned == UNION plans
  IN  IF planned = {} THEN {} ELSE {{k \in UNION planned : \A p \in planned : k \in p}}

\* Mutant: an alternative without a plan is left out.
CombineOrPlanned(plans) == IF UNION plans = {} THEN {} ELSE {UNION (UNION plans)}

CombineOr(plans) == IF {} \in plans THEN {} ELSE {UNION (UNION plans)}

InPlan(definitions, path, values) ==
  CombineOr({LookupPlan(definitions, "eq", path, v) : v \in values})

NullPlan(definitions, path, type) ==
  {Found(d, "eq", [Undefined EXCEPT !.type = type]) : d \in MatchingDefinition(definitions, path, type)}

\* The text before the first wildcard; without a wildcard, the whole text.
LikePlan(definitions, path, text, wildcard, fold) ==
  LET type == IF fold THEN "string-ci" ELSE "string"
      start == IF fold THEN ToLower(text) ELSE text
  IN  IF wildcard /\ text = <<>>
      THEN {}
      ELSE {{e.key : e \in {f \in d.entries :
                             /\ f.at.type = type
                             /\ IF wildcard THEN IsPrefix(start, f.at.text) ELSE f.at.text = start}} :
             d \in MatchingDefinition(definitions, path, type)}

\* A predicate is a record of its operator and operands; `of' are the operands of a connective.
RECURSIVE Plan(_, _)
Plan(definitions, p) ==
  CASE p.op = "compare" -> LookupPlan(definitions, p.by, p.path, p.value)
    [] p.op = "in" -> InPlan(definitions, p.path, p.values)
    [] p.op = "is" -> NullPlan(definitions, p.path, p.type)
    [] p.op = "like" -> LikePlan(definitions, p.path, p.text, p.wildcard, p.fold)
    [] p.op = "and" -> CombineAnd({Plan(definitions, q) : q \in p.of})
    [] p.op = "or" -> CombineOr({Plan(definitions, q) : q \in p.of})
    [] p.op = "not" -> {}

\* Without a plan, every row of the collection is loaded.
LoadSubset(definitions, present, p) ==
  LET plan == Plan(definitions, p)
  IN  IF plan = {} THEN DOMAIN present ELSE (UNION plan) \cap DOMAIN present

----------------------------------------------------------------------------
(* What a predicate says of a row, as the query engine evaluates it *)

Nullish(value) == value.type \in {"null", "undefined"}

Comparison(by, left, right) ==
  CASE Nullish(left) \/ Nullish(right) -> "unknown"
    [] left.type = "nan" \/ right.type = "nan" -> "no"
    [] by = "eq" -> IF left = right THEN "yes" ELSE "no"
    [] OTHER -> IF InRange(by, [left EXCEPT !.type = right.type], right) THEN "yes" ELSE "no"

Like(text, p) ==
  LET shape(t) == IF p.fold THEN ToLower(t) ELSE t
  IN  IF p.wildcard THEN IsPrefix(shape(p.text), shape(text)) ELSE shape(p.text) = shape(text)

RECURSIVE Holds(_, _)
Holds(p, row) ==
  CASE p.op = "compare" -> Comparison(p.by, Field(row, p.path), p.value)
    [] p.op = "in" ->
         IF \E v \in p.values : Comparison("eq", Field(row, p.path), v) = "yes" THEN "yes" ELSE "no"
    [] p.op = "is" -> IF Field(row, p.path).type = p.type THEN "yes" ELSE "no"
    [] p.op = "like" ->
         IF Field(row, p.path).type = "string" /\ Like(Field(row, p.path).text, p) THEN "yes" ELSE "no"
    [] p.op = "not" ->
         CASE Holds(p.of, row) = "yes" -> "no"
           [] Holds(p.of, row) = "no" -> "yes"
           [] OTHER -> "unknown"
    [] OTHER ->
         LET answers == {Holds(q, row) : q \in p.of}
             decisive == IF p.op = "and" THEN "no" ELSE "yes"
             other == IF p.op = "and" THEN "yes" ELSE "no"
         IN  CASE decisive \in answers -> decisive
               [] "unknown" \in answers -> "unknown"
               [] OTHER -> other
=============================================================================
