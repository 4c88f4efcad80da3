------------------------------ MODULE Expressions ------------------------------
(***************************************************************************)
(* What expressions evaluate to (live/expression.ts), and how an action's  *)
(* parameters are completed from their defaults.  Values are atoms,        *)
(* structs, lists, and, while an expression is evaluated, references and   *)
(* objects, which know their object type.  A thrown error is a value too.  *)
(* An environment holds what evaluateExpression gets: the ontology, the    *)
(* parameters' definitions and their values, the context, the objects that *)
(* can be queried, and who evaluates (the origin of fresh identifiers).    *)
(***************************************************************************)
EXTENDS OntologyIR, Functions

Undefined == [is |-> "undefined"]
Atom(a) == [is |-> "atom", atom |-> a]
(* A generated identifier, or the time, of whoever evaluates. *)
Fresh(what, who) == [is |-> "fresh", what |-> what, who |-> who]
Struct(fields) == [is |-> "struct", fields |-> fields]
List(items) == [is |-> "list", items |-> items]
Reference(objectType, key, optional) ==
    [is |-> "reference", to |-> objectType, key |-> key, optional |-> optional]
Object(objectType, value) == [is |-> "object", to |-> objectType, value |-> value]
Throws(why) == [is |-> "throws", why |-> why]
Fails(v) == v.is = "throws"

(* The first failure among values that are awaited together. *)
Together(values, result) ==
    LET failed == { i \in DOMAIN values : Fails(values[i]) }
    IN  IF failed = {} THEN result
        ELSE values[CHOOSE i \in failed : \A j \in failed : i <= j]

RECURSIVE Unwrap(_)
Unwrap(v) ==
    CASE v.is = "reference" -> v.key
      [] v.is = "object" -> v.value
      [] v.is = "list" -> List([i \in DOMAIN v.items |-> Unwrap(v.items[i])])
      [] v.is = "struct" -> Struct([f \in DOMAIN v.fields |-> Unwrap(v.fields[f])])
      [] OTHER -> v

RECURSIVE GetAt(_, _)
GetAt(v, path) ==
    IF path = <<>> THEN v
    ELSE IF v.is = "struct" /\ Head(path) \in DOMAIN v.fields
         THEN GetAt(v.fields[Head(path)], Tail(path))
    ELSE Undefined

(* A path through a value that is no struct cannot be assigned.  *)
RECURSIVE SetAt(_, _, _)
SetAt(v, path, replacement) ==
    IF path = <<>> THEN replacement
    ELSE IF v.is \notin {"undefined", "struct"} THEN Throws("not a struct")
    ELSE LET fields == IF v = Undefined THEN <<>> ELSE v.fields
             inner == SetAt(GetAt(v, <<Head(path)>>), Tail(path), replacement)
         IN  IF Fails(inner) THEN inner
             ELSE Struct([f \in DOMAIN fields \cup {Head(path)} |->
                           IF f = Head(path) THEN inner ELSE fields[f]])

(* resolveType and unwrapType of utils: one optional is unwrapped, after   *)
(* the aliases around it and before those inside it.                       *)
ReferencedType(ir, type) ==
    LET resolved == ResolveType(ir, type)
    IN  IF resolved.kind = "optional" THEN Inner(resolved) ELSE resolved
MayBeAbsent(ir, type) == ResolveType(ir, type).kind = "optional"

(* query(...).findOne(): some object with that value of the property. *)
FindOne(objects, property, key) ==
    LET found == { o \in objects : GetAt(o, <<property>>) = key }
    IN  IF found = {} THEN Undefined ELSE CHOOSE o \in found : TRUE

Within(env, name) == [env EXCEPT !.busy = @ \cup {name}]

RECURSIVE Evaluate(_, _, _), Parameter(_, _)
(* resolveParameter: a given value, or the default's.  "busy" are the      *)
(* parameters whose default is being evaluated; where defaults have been   *)
(* resolved before, "defaults" is FALSE.                                   *)
Parameter(env, name) ==
    LET p == Entry(env.params, name)
    IN  IF env.values[name] # Undefined THEN env.values[name]
        ELSE IF ~env.defaults \/ p.default = NoExpr THEN Undefined
        ELSE IF name \in env.busy THEN Throws("circular")
        ELSE Unwrap(Evaluate(Within(env, name), <<>>, p.default))

KeyOf(ir, objectType) == Entry(ir.objectTypes, objectType).primaryKey

EvaluateLookup(env, reference) ==
    IF reference.is # "reference" THEN Throws("not a reference")
    ELSE IF reference.key = Undefined THEN Undefined
    ELSE LET found == FindOne(env.db[reference.to], KeyOf(env.ir, reference.to), reference.key)
         IN  IF found # Undefined THEN Object(reference.to, found)
             ELSE IF reference.optional THEN Undefined ELSE Throws("missing")

(* Seen from its target, a link is followed by comparing the property that *)
(* is named like the whole foreign key: a nested one matches nothing.      *)
EvaluateHop(env, source, name) ==
    IF source.is # "object" THEN Throws("not an object")
    ELSE LET link == LinkHop(env.ir, source.to, name)
         IN  IF link.id = "none" THEN Throws("unknown link")
             ELSE IF ~ToOne(link, source.to, name) THEN Throws("to-many")
             ELSE LET forward == FromSource(link, source.to, name)
                      end == HopEnd(link, source.to, name)
                      key == GetAt(source.value, IF forward THEN link.foreignKey
                                                 ELSE <<KeyOf(env.ir, source.to)>>)
                      found == IF forward THEN FindOne(env.db[end], KeyOf(env.ir, end), key)
                               ELSE IF Len(link.foreignKey) > 1 THEN Undefined
                               ELSE FindOne(env.db[end], Head(link.foreignKey), key)
                  IN  IF Undefined \in {key, found} THEN Undefined ELSE Object(end, found)

(* Parts that are started together each ask for a first parameter, then    *)
(* for the first one of its default; when two ask for one that has still   *)
(* to be completed, the second finds its default busy.  (A part that asks  *)
(* for it later races, which is not decided here.)                         *)
Pending(env, name) ==
    /\ env.defaults /\ name \notin env.busy /\ env.values[name] = Undefined
    /\ Entry(env.params, name).default # NoExpr

RECURSIVE Heads(_, _)
Heads(env, e) ==
    CASE e.kind = "inputReference" ->
           IF ~Pending(env, e.name) THEN <<>>
           ELSE <<e.name>> \o Heads(Within(env, e.name), Entry(env.params, e.name).default)
      [] e.kind \in {"getAt", "objectLookup", "linkHop", "map"} -> Heads(env, Source(e))
      [] e.kind = "struct" -> FlattenSeq([i \in DOMAIN e.of |-> Heads(env, e.of[i].value)])
      [] OTHER -> <<>>
Collides(env, e) ==
    \E i, j \in DOMAIN Heads(env, e) : i # j /\ Heads(env, e)[i] = Heads(env, e)[j]

(* The parameters that are completed once an expression has its value.     *)
RECURSIVE Asked(_, _)
Asked(env, e) ==
    IF e.kind = "inputReference"
    THEN IF ~Pending(env, e.name) THEN {}
         ELSE {e.name} \cup Asked(Within(env, e.name), Entry(env.params, e.name).default)
    ELSE UNION { Asked(env, part.value) : part \in ToSet(e.of) }
After(env, e) ==
    [env EXCEPT !.values = [n \in DOMAIN @ |-> IF n \in Asked(env, e) THEN Parameter(env, n)
                                               ELSE env.values[n]]]

Evaluate(env, locals, e) ==
    LET V(operand) == Evaluate(env, locals, operand)
    IN CASE e.kind = "inputReference" ->
              LET value == Parameter(env, e.name)
                  type == Entry(env.params, e.name).type
                  reference == ReferencedType(env.ir, type)
              IN  IF Fails(value) THEN value
                  ELSE IF reference.kind = "objectReference"
                  THEN Reference(reference.to, value, MayBeAbsent(env.ir, type))
                  ELSE value
         [] e.kind = "localReference" ->
              IF e.name \in DOMAIN locals THEN locals[e.name] ELSE Throws("unknown binding")
         [] e.kind = "contextReference" -> GetAt(env.context, <<e.name>>)
         [] e.kind = "getAt" ->
              LET source == V(Source(e))
              IN  IF Fails(source) THEN source
                  ELSE IF source.is = "reference" THEN Throws("field of a reference")
                  ELSE GetAt(IF source.is = "object" THEN source.value ELSE source, e.path)
         [] e.kind = "objectLookup" ->
              LET reference == V(Source(e))
              IN  IF Fails(reference) THEN reference ELSE EvaluateLookup(env, reference)
         [] e.kind = "linkHop" ->
              LET source == V(Source(e))
              IN  IF Fails(source) THEN source ELSE EvaluateHop(env, source, e.name)
         [] e.kind = "struct" ->
              LET values == [i \in DOMAIN e.of |-> V(e.of[i].value)]
                  names == { e.of[i].name : i \in DOMAIN e.of }
              IN  IF Collides(env, e) THEN Throws("circular")
                  ELSE Together(values, Struct([n \in names |->
                         values[CHOOSE i \in DOMAIN e.of : e.of[i].name = n]]))
         [] e.kind = "map" ->
              LET source == V(Source(e))
                  after == After(env, Source(e))
                  bodies == [i \in DOMAIN source.items |->
                              Evaluate(after, Bind(locals, e.name, source.items[i]), Body(e))]
                  repeated == Len(source.items) > 1 /\ Heads(after, Body(e)) # <<>>
              IN  IF Fails(source) \/ source = Undefined THEN source
                  ELSE IF source.is # "list" THEN Throws("not a list")
                  ELSE IF repeated \/ (source.items # <<>> /\ Collides(after, Body(e)))
                  THEN Throws("circular")
                  ELSE Together(bodies, List(bodies))
         [] e.kind = "literal" -> Atom(e.name)
         [] OTHER -> Fresh(e.kind, env.who)

(* resolveActionParameters: one parameter after the other, in the order of *)
(* their definitions; the first failure is the outcome.                    *)
RECURSIVE ResolveFrom(_, _)
ResolveFrom(env, i) ==
    IF i > Len(env.params) THEN Struct(env.values)
    ELSE LET name == env.params[i].name
             value == Parameter(env, name)
         IN  IF Fails(value) THEN value
             ELSE ResolveFrom([env EXCEPT !.values[name] = value], i + 1)
===============================================================================
