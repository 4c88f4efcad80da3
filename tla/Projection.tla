------------------------------ MODULE Projection ------------------------------
(***************************************************************************)
(* What a remote server shows of its ontology (securedOntology.ts), and    *)
(* the values it fixes for a client's actions.  A policy is a record:      *)
(*   filter   whether object types are shown by authorization              *)
(*   allowed  for each object type, the properties a client may see        *)
(*   fixed    for each action, the expressions of its fixed parameters     *)
(*   forward  whether the client gets the server's context                 *)
(*   actions, queries  the names that are visible, or {"all"}              *)
(***************************************************************************)
EXTENDS Expressions

Allowed(policy, objectType) ==
    IF objectType \in DOMAIN policy.allowed THEN policy.allowed[objectType] ELSE {}
VisibleTypes(ir, policy) ==
    { o.name : o \in { t \in ToSet(ir.objectTypes) :
                        policy.filter => Allowed(policy, t.name) # {} } }
VisibleParameters(policy, action) ==
    { p.name : p \in ToSet(action.parameters) } \ DOMAIN policy.fixed[action.name]

(* Only lookups of parameters and hops from them have a known object type. *)
RECURSIVE ObjectTypeOf(_, _, _)
ObjectTypeOf(ir, action, e) ==
    CASE e.kind = "objectLookup" ->
           IF Source(e).kind = "inputReference" /\ Has(action.parameters, Source(e).name)
           THEN LET type == Unwrapped(ir, Entry(action.parameters, Source(e).name).type)
                IN  IF type.kind = "objectReference" THEN type.to ELSE ""
           ELSE ""
      [] e.kind = "linkHop" ->
           LET source == ObjectTypeOf(ir, action, Source(e))
               link == LinkHop(ir, source, e.name)
           IN  IF source = "" \/ link.id = "none" \/ ~ToOne(link, source, e.name) THEN ""
               ELSE HopEnd(link, source, e.name)
      [] OTHER -> ""

(* The part of an expression a client can evaluate, NoExpr when it cannot. *)
(* A fixed parameter is replaced by its expression where "fixing".         *)
RECURSIVE ProjectExpr(_, _, _, _, _)
ProjectExpr(ir, policy, action, fixing, e) ==
    LET P(operand) == ProjectExpr(ir, policy, action, fixing, operand)
        parts == [i \in DOMAIN e.of |-> Operand(e.of[i].name, P(e.of[i].value))]
        whole == IF \E i \in DOMAIN parts : parts[i].value = NoExpr THEN NoExpr
                 ELSE [e EXCEPT !.of = parts]
        objectType == ObjectTypeOf(ir, action, Source(e))
        fixed == policy.fixed[action.name]
    IN CASE e.kind = "contextReference" ->
              IF policy.forward /\ e.name \in policy.context THEN e ELSE NoExpr
         [] e.kind = "getAt" ->
              IF objectType # "" /\ Head(e.path) \notin Allowed(policy, objectType)
              THEN NoExpr ELSE whole
         [] e.kind = "linkHop" ->
              IF ObjectTypeOf(ir, action, e) = "" THEN NoExpr ELSE whole
         [] e.kind = "inputReference" ->
              IF e.name \in VisibleParameters(policy, action) THEN e
              ELSE IF ~fixing \/ e.name \notin DOMAIN fixed \/ fixed[e.name] = e THEN NoExpr
              ELSE P(fixed[e.name])
         [] OTHER -> whole

(* Assignments to properties that are shown, of values that can be.        *)
ProjectAssignments(ir, policy, action, objectType, values) ==
    LET shown == SelectSeq(values, LAMBDA a : Head(a.property) \in Allowed(policy, objectType))
        projected == [i \in DOMAIN shown |->
            [shown[i] EXCEPT !.value = ProjectExpr(ir, policy, action, TRUE, @)]]
    IN  SelectSeq(projected, LAMBDA a : a.value # NoExpr)

(* Mutant: assignments are shown with the parameters that are not. *)
ProjectLogicWhole(ir, policy, action) == action.logic

(* Creations of hidden objects are left out, other steps are kept. *)
ProjectLogic(ir, policy, action) ==
    LET kept == SelectSeq(action.logic, LAMBDA step :
            \/ ~policy.filter \/ step.kind # "createObject"
            \/ step.objectType \in VisibleTypes(ir, policy))
    IN  [i \in DOMAIN kept |->
          [kept[i] EXCEPT !.values = ProjectAssignments(ir, policy, action,
                                       TargetType(ir, action.parameters, kept[i]), @)]]

ProjectAction(ir, policy, fixing, action) ==
    LET shown == SelectSeq(action.parameters,
                   LAMBDA p : p.name \in VisibleParameters(policy, action))
        Default(p) == IF p.default = NoExpr THEN NoExpr
                      ELSE ProjectExpr(ir, policy, action, fixing, p.default)
    IN  [action EXCEPT
          !.parameters = [i \in DOMAIN shown |-> [shown[i] EXCEPT !.default = Default(shown[i])]],
          !.logic = ProjectLogic(ir, policy, action)]

(* The object types and the named types a type leads to. *)
RECURSIVE Leads(_, _, _, _)
Leads(ir, type, kind, seen) ==
    (IF type.kind = kind THEN {type.to} ELSE {})
    \cup UNION { Leads(ir, part.type, kind, seen) : part \in ToSet(type.of) }
    \cup IF type.kind = "ref" /\ type.to \notin seen /\ Has(ir.types, type.to)
         THEN Leads(ir, Entry(ir.types, type.to).type, kind, seen \cup {type.to})
         ELSE {}
LeadsToHidden(ir, policy, fields) ==
    \E f \in fields :
        ~(Leads(ir, f.type, "objectReference", {}) \subseteq VisibleTypes(ir, policy))

FieldsOfQuery(query) == ToSet(query.parameters) \cup {Field("return", query.returnType)}
IsShown(names, name) == "all" \in names \/ name \in names

ShowsLink(ir, policy, link) ==
    \/ ~policy.filter
    \/ /\ {link.source.objectType, link.target.objectType} \subseteq VisibleTypes(ir, policy)
       /\ LET allowed == Allowed(policy, link.source.objectType)
                          \cup Allowed(policy, link.target.objectType)
          IN  Len(link.foreignKey) = 1 /\ Head(link.foreignKey) \in allowed

ShowsQuery(ir, policy, query) ==
    IF "all" \notin policy.queries THEN query.name \in policy.queries
    ELSE policy.filter => ~LeadsToHidden(ir, policy, FieldsOfQuery(query))

ProjectObjectType(policy, o) ==
    [o EXCEPT !.title = IF @ \in Allowed(policy, o.name) THEN @ ELSE "",
              !.properties = SelectSeq(@, LAMBDA p : p.name \in Allowed(policy, o.name))]

(* projectRemoteOntologyIR.  Hidden links, actions, queries and types are  *)
(* decided by the whole ontology, and the context's type stays.            *)
Projected(ir, policy, fixing) ==
    LET visible == SelectSeq(ir.objectTypes, LAMBDA o : o.name \in VisibleTypes(ir, policy))
        objectTypes == IF ~policy.filter THEN ir.objectTypes
                       ELSE [i \in DOMAIN visible |-> ProjectObjectType(policy, visible[i])]
        listed == SelectSeq(ir.actionTypes, LAMBDA a :
            /\ IsShown(policy.actions, a.name)
            /\ policy.filter => ~LeadsToHidden(ir, policy, ToSet(a.parameters)))
        actionTypes == [i \in DOMAIN listed |-> ProjectAction(ir, policy, fixing, listed[i])]
        queries == SelectSeq(ir.queryFunctionTypes, LAMBDA q : ShowsQuery(ir, policy, q))
        fields == UNION ({ ToSet(o.properties) : o \in ToSet(objectTypes) }
                    \cup { ToSet(a.parameters) : a \in ToSet(actionTypes) }
                    \cup { FieldsOfQuery(q) : q \in ToSet(queries) })
        reached == UNION { Leads(ir, f.type, "ref", {}) : f \in fields }
    IN  [ir EXCEPT
          !.types = SelectSeq(@, LAMBDA t : policy.filter => t.name \in reached),
          !.objectTypes = objectTypes,
          !.linkTypes = SelectSeq(@, LAMBDA link : ShowsLink(ir, policy, link)),
          !.actionTypes = actionTypes,
          !.queryFunctionTypes = queries]

-------------------------------------------------------------------------------
(* Fixed values are evaluated over the context, the client's values and    *)
(* one another, without any object.                                        *)
RECURSIVE FixedValue(_, _, _)
Given(fixing, name) ==
    IF name \in DOMAIN fixing.values /\ fixing.values[name] # Undefined
    THEN fixing.values[name]
    ELSE IF name \notin DOMAIN fixing.fixed THEN Undefined
    ELSE IF name \in fixing.busy THEN Throws("circular")
    ELSE FixedValue([fixing EXCEPT !.busy = @ \cup {name}], <<>>, fixing.fixed[name])
FixedValue(fixing, locals, e) ==
    LET V(operand) == FixedValue(fixing, locals, operand)
    IN CASE e.kind = "contextReference" -> GetAt(fixing.context, <<e.name>>)
         [] e.kind = "literal" -> Atom(e.name)
         [] e.kind = "localReference" ->
              IF e.name \in DOMAIN locals THEN locals[e.name] ELSE Undefined
         [] e.kind = "inputReference" -> Given(fixing, e.name)
         [] e.kind = "getAt" ->
              LET source == V(Source(e))
              IN  IF Fails(source) THEN source ELSE GetAt(source, e.path)
         [] e.kind = "struct" ->
              LET values == [i \in DOMAIN e.of |-> V(e.of[i].value)]
              IN  Together(values, Struct([n \in { part.name : part \in ToSet(e.of) } |->
                    values[CHOOSE i \in DOMAIN e.of : e.of[i].name = n]]))
         [] e.kind = "map" ->
              LET source == V(Source(e))
                  bodies == [i \in DOMAIN source.items |->
                              FixedValue(fixing, Bind(locals, e.name, source.items[i]), Body(e))]
              IN  IF Fails(source) \/ source = Undefined THEN source
                  ELSE IF source.is # "list" THEN Throws("not a list")
                  ELSE Together(bodies, List(bodies))
         [] e.kind \in {"objectLookup", "linkHop"} -> Throws("needs objects")
         [] OTHER -> Fresh(e.kind, "server")

(* applyFixedActionParameterValues *)
ApplyFixed(policy, action, context, values) ==
    LET fixed == policy.fixed[action.name]
        fixing == [values |-> values, fixed |-> fixed, busy |-> {}, context |-> context]
        given == [n \in DOMAIN fixed |-> Given([fixing EXCEPT !.values[n] = Undefined], n)]
        failed == { n \in DOMAIN fixed : Fails(given[n]) }
    IN  IF failed # {} THEN given[CHOOSE n \in failed : TRUE]
        ELSE Struct([n \in DOMAIN values |-> IF n \in DOMAIN fixed THEN given[n] ELSE values[n]])
===============================================================================
