------------------------------ MODULE OntologyIR ------------------------------
(***************************************************************************)
(* The ontology's schema language: types, object types, links, actions and *)
(* the expressions of their defaults and assignments, and validate(),      *)
(* which decides whether an ontology may be used.  A list of issues is     *)
(* abstracted to whether there is any.  Types are records of one shape:    *)
(* "to" is the name a reference refers to, "of" lists the named types a    *)
(* composite type is made of.  Expressions have one shape too: "name" is   *)
(* what a reference, a hop, a binding or a literal names, "of" lists the   *)
(* named subexpressions.                                                   *)
(***************************************************************************)
EXTENDS Integers, Sequences, SequencesExt

Type(kind, to, of) == [kind |-> kind, to |-> to, of |-> of, ranges |-> {}]
NoType == Type("undefined", "", <<>>)
Scalar(kind) == Type(kind, "", <<>>)
ReferenceTo(objectType) == Type("objectReference", objectType, <<>>)
Alias(name) == Type("ref", name, <<>>)
Field(name, type) == [name |-> name, type |-> type]
ListOf(type) == Type("list", "", <<Field("elementType", type)>>)
OptionalOf(type) == Type("optional", "", <<Field("type", type)>>)
StructOf(fields) == Type("struct", "", fields)
Attachment(ranges) == [Scalar("attachment") EXCEPT !.ranges = ranges]
(* What an expression evaluates to after an object lookup or a link hop. *)
ObjectOf(objectType) == Type("ontologyObject", objectType, <<>>)

Has(list, name) == \E i \in DOMAIN list : list[i].name = name
Entry(list, name) == list[CHOOSE i \in DOMAIN list : list[i].name = name]
Distinct(list) ==
    \A i, j \in DOMAIN list : list[i].name = list[j].name => i = j
(* The one type a list, an optional or an expression with one operand has. *)
Inner(type) == type.of[1].type

-------------------------------------------------------------------------------
(* Types.  The ranges of an attachment bound its size and an image's       *)
(* dimensions.  A lower bound that is not given is 0, an upper one is       *)
(* above every other number.                                               *)
ValidRange(range) == range.min >= 0 /\ range.min <= range.max

RECURSIVE ValidType(_, _)
ValidType(ir, type) ==
    /\ \A range \in type.ranges : ValidRange(range)
    /\ type.kind = "objectReference" => Has(ir.objectTypes, type.to)
    /\ type.kind = "ref" => Has(ir.types, type.to)
    /\ type.kind = "map" => Inner(type).kind = "string"
    /\ type.kind \in {"struct", "union"} => Distinct(type.of)
    /\ \A part \in ToSet(type.of) : ValidType(ir, part.type)

(* A cycle of aliases resolves to nothing. *)
RECURSIVE ResolveSeen(_, _, _)
ResolveSeen(ir, type, seen) ==
    IF type.kind # "ref" THEN type
    ELSE IF type.to \in seen \/ ~Has(ir.types, type.to) THEN NoType
    ELSE ResolveSeen(ir, Entry(ir.types, type.to).type, seen \cup {type.to})
ResolveType(ir, type) == ResolveSeen(ir, type, {})

RECURSIVE FieldType(_, _, _)
FieldType(ir, type, path) ==
    LET resolved == ResolveType(ir, type)
    IN  IF path = <<>> \/ resolved = NoType THEN resolved
        ELSE IF resolved.kind = "optional" THEN FieldType(ir, Inner(resolved), path)
        ELSE IF resolved.kind = "struct" /\ Has(resolved.of, Head(path))
             THEN FieldType(ir, Entry(resolved.of, Head(path)).type, Tail(path))
        ELSE NoType

RECURSIVE Unwrapped(_, _)
Unwrapped(ir, type) ==
    LET resolved == ResolveType(ir, type)
    IN  IF resolved.kind = "optional" THEN Unwrapped(ir, Inner(resolved)) ELSE resolved

-------------------------------------------------------------------------------
(* Links.  A link has its foreign key, a path, at its source; it is named  *)
(* target.name seen from there, and source.name seen from its target.      *)
FromSource(link, objectType, name) ==
    link.source.objectType = objectType /\ link.target.name = name
FromTarget(link, objectType, name) ==
    link.target.objectType = objectType /\ link.source.name = name

(* Every way to read the name; a link from a type to itself can be both. *)
Hops(ir, objectType, name) ==
    { <<i, forward>> \in (DOMAIN ir.linkTypes) \X BOOLEAN :
        LET link == ir.linkTypes[i]
        IN  IF forward THEN FromSource(link, objectType, name)
            ELSE FromTarget(link, objectType, name) }
LinkHop(ir, objectType, name) ==
    LET hops == Hops(ir, objectType, name)
    IN  IF \E hop \in hops : hops = {hop}
        THEN ir.linkTypes[(CHOOSE hop \in hops : TRUE)[1]]
        ELSE [id |-> "none"]
HopEnd(link, objectType, name) ==
    IF FromSource(link, objectType, name) THEN link.target.objectType
    ELSE link.source.objectType
ToOne(link, objectType, name) ==
    FromSource(link, objectType, name) \/ link.cardinality = "one"

-------------------------------------------------------------------------------
(* Expressions *)
Expr(kind, name, path, of) == [kind |-> kind, name |-> name, path |-> path, of |-> of]
NoExpr == Expr("undefined", "", <<>>, <<>>)
Operand(name, value) == [name |-> name, value |-> value]
Source(e) == e.of[1].value
Body(e) == e.of[2].value
InputRef(name) == Expr("inputReference", name, <<>>, <<>>)
ContextRef(name) == Expr("contextReference", name, <<>>, <<>>)
LocalRef(name) == Expr("localReference", name, <<>>, <<>>)
Literal(atom) == Expr("literal", atom, <<>>, <<>>)
Uuid == Expr("uuid", "", <<>>, <<>>)
GetAtExpr(e, path) == Expr("getAt", "", path, <<Operand("source", e)>>)
Lookup(e) == Expr("objectLookup", "", <<>>, <<Operand("reference", e)>>)
Hop(e, link) == Expr("linkHop", link, <<>>, <<Operand("source", e)>>)
StructExpr(operands) == Expr("struct", "", <<>>, operands)
MapExpr(e, binding, body) ==
    Expr("map", binding, <<>>, <<Operand("source", e), Operand("body", body)>>)

Bind(locals, name, type) ==
    [n \in DOMAIN locals \cup {name} |-> IF n = name THEN type ELSE locals[n]]

Property(ir, objectType, name) ==
    IF Has(ir.objectTypes, objectType)
       /\ Has(Entry(ir.objectTypes, objectType).properties, name)
    THEN Entry(Entry(ir.objectTypes, objectType).properties, name).type
    ELSE NoType

RECURSIVE ExprType(_, _, _, _)
(* Mutant: what is no list may be mapped as well. *)
ElementTypeOfAny(ir, params, locals, e) ==
    LET source == Unwrapped(ir, ExprType(ir, params, locals, Source(e)))
    IN  IF source.kind = "list" THEN Inner(source) ELSE Scalar("unknown")
ElementType(ir, params, locals, e) ==
    LET source == Unwrapped(ir, ExprType(ir, params, locals, Source(e)))
    IN  IF source.kind = "list" THEN Inner(source) ELSE NoType
(* The static type of an expression; NoType when it has none. *)
ExprType(ir, params, locals, e) ==
    LET T(operand) == ExprType(ir, params, locals, operand)
        Storable(type, otherwise) ==
            IF type.kind \in {"undefined", "ontologyObject"} THEN otherwise ELSE type
    IN CASE e.kind = "inputReference" ->
              IF Has(params, e.name) THEN Entry(params, e.name).type ELSE NoType
         [] e.kind = "contextReference" -> FieldType(ir, ir.contextType, <<e.name>>)
         [] e.kind = "localReference" ->
              IF e.name \in DOMAIN locals THEN locals[e.name] ELSE NoType
         [] e.kind = "getAt" ->
              LET source == T(Source(e))
              IN  IF e.path = <<>> THEN NoType
                  ELSE IF source.kind = "ontologyObject"
                  THEN FieldType(ir, Property(ir, source.to, Head(e.path)), Tail(e.path))
                  ELSE FieldType(ir, source, e.path)
         [] e.kind = "objectLookup" ->
              LET reference == Unwrapped(ir, T(Source(e)))
              IN  IF reference.kind = "objectReference" THEN ObjectOf(reference.to)
                  ELSE NoType
         [] e.kind = "linkHop" ->
              LET source == T(Source(e))
                  link == LinkHop(ir, source.to, e.name)
              IN  IF /\ source.kind = "ontologyObject"
                     /\ link.id # "none"
                     /\ ToOne(link, source.to, e.name)
                  THEN ObjectOf(HopEnd(link, source.to, e.name))
                  ELSE NoType
         [] e.kind = "struct" ->
              StructOf([i \in DOMAIN e.of |->
                Field(e.of[i].name, Storable(T(e.of[i].value), Scalar("unknown")))])
         [] e.kind = "map" ->
              LET element == ElementType(ir, params, locals, e)
                  body == IF element = NoType THEN NoType
                          ELSE Storable(
                            ExprType(ir, params, Bind(locals, e.name, element), Body(e)), NoType)
              IN  IF body = NoType THEN NoType ELSE ListOf(body)
         [] e.kind = "uuid" -> Scalar("string")
         [] OTHER -> Scalar("unknown")

(* A reference to the context is not checked where there is no context     *)
(* type, and the source of a map only where it has a type.                 *)
RECURSIVE ValidExpression(_, _, _, _)
ValidExpression(ir, params, locals, e) ==
    CASE e.kind = "inputReference" -> Has(params, e.name)
      [] e.kind = "contextReference" ->
           ir.contextType # NoType => ExprType(ir, params, locals, e) # NoType
      [] e.kind = "localReference" -> e.name \in DOMAIN locals
      [] e.kind \in {"getAt", "objectLookup", "linkHop"} ->
           /\ ValidExpression(ir, params, locals, Source(e))
           /\ ExprType(ir, params, locals, e) # NoType
      [] e.kind = "struct" ->
           /\ Distinct(e.of)
           /\ \A part \in ToSet(e.of) : ValidExpression(ir, params, locals, part.value)
      [] e.kind = "map" ->
           LET element == ElementType(ir, params, locals, e)
           IN  /\ ValidExpression(ir, params, locals, Source(e))
               /\ \/ element # NoType
                  \/ ExprType(ir, params, locals, Source(e)) = NoType
               /\ e.name # ""
               /\ ValidExpression(ir, params,
                    Bind(locals, e.name, IF element = NoType THEN Scalar("unknown") ELSE element),
                    Body(e))
      [] OTHER -> TRUE

RECURSIVE DefaultFits(_, _, _)
DefaultFits(ir, target, source) ==
    LET t == Unwrapped(ir, target)
        s == Unwrapped(ir, source)
    IN  /\ t # NoType /\ s # NoType
        /\ \/ "unknown" \in {t.kind, s.kind}
           \/ /\ t.kind = s.kind
              /\ t.kind = "objectReference" => t.to = s.to
              /\ t.kind = "list" => DefaultFits(ir, Inner(t), Inner(s))

-------------------------------------------------------------------------------
(* Actions.  A parameter is [name, type, default]; a step of an action's   *)
(* logic is [kind, objectType, object, values], the object type of a       *)
(* creation and the parameter that names the object of any other step.     *)
(* Mutant: the type of a default is not compared with the parameter's. *)
ValidParameterUntyped(ir, params, p) ==
    /\ ValidType(ir, p.type)
    /\ p.default # NoExpr => ValidExpression(ir, params, <<>>, p.default)

ValidParameter(ir, params, p) ==
    /\ ValidType(ir, p.type)
    /\ p.default # NoExpr =>
        /\ ValidExpression(ir, params, <<>>, p.default)
        /\ LET type == ExprType(ir, params, <<>>, p.default)
           IN  \/ type.kind \in {"undefined", "ontologyObject"}
               \/ DefaultFits(ir, p.type, type)

ValidAssignment(ir, params, objectType, a) ==
    /\ a.property # <<>>
    /\ ValidExpression(ir, params, <<>>, a.value)
    /\ FieldType(ir, Property(ir, objectType, Head(a.property)), Tail(a.property)) # NoType

(* The type of the object a step works on: a parameter that may be absent  *)
(* cannot name it.                                                         *)
TargetType(ir, params, step) ==
    IF step.kind = "createObject" THEN step.objectType
    ELSE IF /\ Has(params, step.object)
            /\ ResolveType(ir, Entry(params, step.object).type).kind = "objectReference"
         THEN ResolveType(ir, Entry(params, step.object).type).to
    ELSE "none"

ValidStep(ir, params, step) ==
    LET target == TargetType(ir, params, step)
    IN  /\ Has(ir.objectTypes, target)
        /\ \A a \in ToSet(step.values) : ValidAssignment(ir, params, target, a)

ValidAction(ir, action) ==
    /\ Distinct(action.parameters)
    /\ \A p \in ToSet(action.parameters) : ValidParameter(ir, action.parameters, p)
    /\ \A step \in ToSet(action.logic) : ValidStep(ir, action.parameters, step)

ValidObjectType(ir, objectType) ==
    /\ Distinct(objectType.properties)
    /\ \A p \in ToSet(objectType.properties) : ValidType(ir, p.type)
    /\ Has(objectType.properties, objectType.primaryKey)
    /\ objectType.title # "" => Has(objectType.properties, objectType.title)

(* Names seen from a source are unique; those seen from a target are not   *)
(* compared.                                                               *)
ValidLinks(ir) ==
    /\ \A i, j \in DOMAIN ir.linkTypes :
        LET a == ir.linkTypes[i]
            b == ir.linkTypes[j]
        IN  \/ a.id = b.id
            \/ a.source.objectType = b.source.objectType /\ a.target.name = b.target.name
            => i = j
    /\ \A link \in ToSet(ir.linkTypes) :
        /\ Has(ir.objectTypes, link.source.objectType)
        /\ Has(ir.objectTypes, link.target.objectType)
        /\ Property(ir, link.source.objectType, Head(link.foreignKey)) # NoType

(* The field "user" of the context, when it has one, refers to an object. *)
ValidContext(ir) ==
    /\ ValidType(ir, ir.contextType)
    /\ LET context == ResolveType(ir, ir.contextType)
       IN  context.kind = "struct" /\ Has(context.of, "user") =>
             LET user == Entry(context.of, "user").type
             IN  ResolveType(ir, IF user.kind = "optional" THEN Inner(user) ELSE user).kind
                   = "objectReference"

ValidQuery(ir, query) ==
    /\ Distinct(query.parameters)
    /\ \A p \in ToSet(query.parameters) : ValidType(ir, p.type)
    /\ ValidType(ir, query.returnType)

Valid(ir) ==
    /\ Distinct(ir.types) /\ Distinct(ir.objectTypes)
    /\ Distinct(ir.actionTypes) /\ Distinct(ir.queryFunctionTypes)
    /\ ValidContext(ir)
    /\ \A t \in ToSet(ir.types) : ValidType(ir, t.type)
    /\ \A t \in ToSet(ir.objectTypes) : ValidObjectType(ir, t)
    /\ ValidLinks(ir)
    /\ \A a \in ToSet(ir.actionTypes) : ValidAction(ir, a)
    /\ \A q \in ToSet(ir.queryFunctionTypes) : ValidQuery(ir, q)
===============================================================================
