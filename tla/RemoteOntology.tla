---------------------------- MODULE RemoteOntology ----------------------------
(***************************************************************************)
(* A client and the server of a remote ontology.  The server describes the *)
(* part of its ontology that the policy shows, answers loads of objects    *)
(* with their allowed properties, and applies actions; the client resolves *)
(* an action's parameters and shows its effects over what it has loaded,   *)
(* sends it, and refetches what the server says has changed.  Other        *)
(* clients write to the same objects.                                      *)
(***************************************************************************)
EXTENDS Projection

CONSTANT Scenarios    \* records: ir, policy, context, values, db, other, faults

VARIABLES
    scenario,
    described,    \* the client's ontology, once described
    db,           \* the server's objects by type
    cache,        \* the client's loaded objects by type
    fetch,        \* answers on their way to the client, by type
    call,         \* the client's one call of its action
    spent         \* faults and foreign writes so far
vars == <<scenario, described, db, cache, fetch, call, spent>>
moving == <<described, db, cache, fetch, call, spent>>

ir == scenario.ir
policy == scenario.policy
Nothing == [is |-> "nothing", again |-> FALSE]
NotLoaded == {Nothing}
Types == { o.name : o \in ToSet(ir.objectTypes) }
Shown == VisibleTypes(ir, policy)
TheAction(ontology) == ontology.actionTypes[1]
Offered == described # Nothing /\ described.actionTypes # <<>>

-------------------------------------------------------------------------------
(* Running an action's logic over objects: each step sees the edits of     *)
(* those before it, and a failing step fails the action.                   *)
Done(objects, edits) == [is |-> "done", db |-> objects, edits |-> edits]
Edit(type, key, property, value) ==
    [type |-> type, key |-> key, property |-> property, value |-> value]

(* Assignments whose value is undefined change nothing. *)
RECURSIVE Changes(_, _, _)
Changes(env, values, i) ==
    IF i > Len(values) THEN <<>>
    ELSE LET value == Unwrap(Evaluate(env, <<>>, values[i].value))
             rest == Changes(env, values, i + 1)
         IN  IF value = Undefined THEN rest
             ELSE <<[path |-> values[i].property, value |-> value]>> \o rest
Assigned(object, changes) ==
    FoldLeft(LAMBDA o, c : IF Fails(c.value) THEN c.value
                           ELSE IF Fails(o) THEN o ELSE SetAt(o, c.path, c.value),
             object, changes)

(* What a step leaves, given the object it finds and the one it makes. *)
Created(env, type, new, newKey, edits) ==
    IF Fails(new) THEN new
    ELSE IF newKey = Undefined \/ FindOne(env.db[type], KeyOf(env.ir, type), newKey) # Undefined
    THEN Throws("no new key")
    ELSE Done([env.db EXCEPT ![type] = @ \cup {new}], edits)
Altered(env, type, step, old, new, edits) ==
    IF old = Undefined THEN Throws("no object")
    ELSE IF step.kind = "deleteObject"
    THEN Done([env.db EXCEPT ![type] = @ \ {old}],
              {Edit(type, env.values[step.object], <<>>, Undefined)})
    ELSE IF Fails(new) THEN new
    ELSE Done([env.db EXCEPT ![type] = (@ \ {old}) \cup {new}], edits)
EditsOf(type, key, changes) == { Edit(type, key, c.path, c.value) : c \in ToSet(changes) }
NewKey(env, type, new) == GetAt(new, <<KeyOf(env.ir, type)>>)

RunChanges(env, step, type, old, changes) ==
    LET new == Assigned(old, changes)
        edits == EditsOf(type, NewKey(env, type, new), changes)
    IN  IF step.kind = "createObject" THEN Created(env, type, new, NewKey(env, type, new), edits)
        ELSE Altered(env, type, step, old, new, edits)
Target(env, step, type) ==
    IF step.kind = "createObject" THEN Struct(<<>>)
    ELSE FindOne(env.db[type], KeyOf(env.ir, type), env.values[step.object])
RunStepOn(env, step, type) ==
    RunChanges(env, step, type, Target(env, step, type), Changes(env, step.values, 1))
RunStep(env, step) == RunStepOn(env, step, TargetType(env.ir, env.params, step))

RECURSIVE RunFrom(_, _, _, _)
RunOn(env, logic, i, edits, result) ==
    IF Fails(result) THEN result
    ELSE RunFrom([env EXCEPT !.db = result.db], logic, i + 1, edits \cup result.edits)
RunFrom(env, logic, i, edits) ==
    IF i > Len(logic) THEN Done(env.db, edits)
    ELSE RunOn(env, logic, i, edits, RunStep(env, logic[i]))
RunLogic(env, action) == RunFrom([env EXCEPT !.defaults = FALSE], action.logic, 1, {})

Environment(ontology, values, context, objects, who) ==
    [ir |-> ontology, params |-> TheAction(ontology).parameters, values |-> values,
     context |-> context, db |-> objects, who |-> who, busy |-> {}, defaults |-> TRUE]

(* The client has the context only when the server forwards it. *)
ClientContext == IF policy.forward THEN scenario.context ELSE Struct(<<>>)
ClientEnv(values) == Environment(described, values, ClientContext, cache, "client")
ServerEnv(values) == Environment(ir, values, scenario.context, db, "server")

-------------------------------------------------------------------------------
(* What the server answers to a load: the objects with allowed properties. *)
View(objects, type) ==
    { Struct([f \in DOMAIN o.fields \cap Allowed(policy, type) |-> o.fields[f]])
        : o \in objects[type] }

(* Mutant: created objects invalidate nothing. *)
InvalidatedExisting ==
    LET action == TheAction(ir)
    IN  { Entry(action.parameters, step.object).type.to :
            step \in { st \in ToSet(action.logic) : st.kind # "createObject" } }

(* The types the server says an action has changed: created ones, and      *)
(* those that a parameter of a step refers to without an alias; all, when  *)
(* it finds none.                                                          *)
Invalidated ==
    LET action == TheAction(ir)
        Direct(step) ==
            IF step.kind = "createObject" THEN {step.objectType}
            ELSE LET type == Entry(action.parameters, step.object).type
                 IN  IF type.kind = "objectReference" THEN {type.to} ELSE {}
        found == UNION { Direct(step) : step \in ToSet(action.logic) }
    IN  IF found = {} THEN Types ELSE found

NoCall == [phase |-> "idle", values |-> <<>>, overlay |-> {}, edits |-> {}, why |-> "",
           waiting |-> {}, fresh |-> FALSE]

Start ==
    /\ described = Nothing
    /\ db = scenario.db
    /\ cache = [t \in Types |-> NotLoaded]
    /\ fetch = [t \in Types |-> Nothing]
    /\ call = NoCall
    /\ spent = [faults |-> 0, writes |-> 0]
Init == scenario \in { s \in Scenarios : Valid(s.ir) } /\ Start

Describe ==
    /\ described = Nothing
    /\ described' = Projected(ir, policy, FALSE)
    /\ UNCHANGED <<db, cache, fetch, call, spent>>

(* A load, or a refetch, which replaces a load that is under way. *)
Answer(t) ==
    /\ described # Nothing /\ t \in Shown
    /\ \/ fetch[t] = Nothing /\ cache[t] = NotLoaded
       \/ t \in call.waiting /\ ~fetch[t].again
    /\ fetch' = [fetch EXCEPT ![t] = [is |-> "answer", objects |-> View(db, t),
                                      again |-> t \in call.waiting]]
    /\ UNCHANGED <<described, db, cache, call, spent>>

(* Mutant: a refetch that ends is not noticed. *)
AnsweredUnnoticed(t) == call
(* A refetch that fails is no failure of the action. *)
Answered(t) == [call EXCEPT !.waiting = IF fetch[t].again THEN @ \ {t} ELSE @]
Arrive(t) ==
    /\ fetch[t] # Nothing
    /\ cache' = [cache EXCEPT ![t] = fetch[t].objects]
    /\ fetch' = [fetch EXCEPT ![t] = Nothing]
    /\ call' = Answered(t)
    /\ UNCHANGED <<described, db, spent>>
Fault == /\ spent.faults < scenario.faults
         /\ spent' = [spent EXCEPT !.faults = @ + 1]
FetchFails(t) ==
    /\ fetch[t] # Nothing
    /\ Fault
    /\ fetch' = [fetch EXCEPT ![t] = Nothing]
    /\ call' = Answered(t)
    /\ UNCHANGED <<described, db, cache>>

(* Mutant: what was shown stays. *)
FailedShown(why) == [call EXCEPT !.phase = "failed", !.why = why, !.waiting = {}]
Failed(why) == [call EXCEPT !.phase = "failed", !.why = why, !.overlay = {}, !.waiting = {}]
Loaded == \A t \in Shown : cache[t] # NotLoaded

(* A client may have the server complete its parameters first: the server  *)
(* keeps the defaults it can show once fixed parameters are replaced by    *)
(* their expressions, evaluates them over the objects it would show, and   *)
(* answers with the parameters that are visible.                           *)
Supplied ==
    [p \in { q.name : q \in ToSet(TheAction(described).parameters) } |->
      IF call.phase = "asked" THEN call.values[p] ELSE scenario.values[p]]
Completed(values) == [p \in { q.name : q \in ToSet(TheAction(ir).parameters) } |->
    IF p \in DOMAIN values THEN values[p] ELSE Undefined]
KeepsDefault(shown, name) ==
    Has(shown, name) /\ Entry(shown, name).default # NoExpr
KeptDefaults(params, shown) ==
    [i \in DOMAIN params |->
      IF KeepsDefault(shown, params[i].name) THEN params[i]
      ELSE [params[i] EXCEPT !.default = NoExpr]]
ServerDefaults ==
    KeptDefaults(TheAction(ir).parameters, TheAction(Projected(ir, policy, TRUE)).parameters)
(* Mutant: the defaults are resolved without the context. *)
ServerResolutionBare(given) ==
    LET fixed == ApplyFixed(policy, TheAction(ir), scenario.context, Completed(given))
    IN  IF Fails(fixed) THEN fixed
        ELSE ResolveFrom([ServerEnv(fixed.fields) EXCEPT !.context = Struct(<<>>),
               !.params = ServerDefaults, !.db = [t \in Types |-> View(db, t)]], 1)
ServerResolution(given) ==
    LET fixed == ApplyFixed(policy, TheAction(ir), scenario.context, Completed(given))
    IN  IF Fails(fixed) THEN fixed
        ELSE ResolveFrom([ServerEnv(fixed.fields) EXCEPT
               !.params = ServerDefaults, !.db = [t \in Types |-> View(db, t)]], 1)
AskServer ==
    /\ Offered /\ call.phase = "idle"
    /\ \E resolved \in {ServerResolution(Supplied)} :
        call' = [call EXCEPT !.phase = "asked",
                             !.values = IF Fails(resolved) THEN Supplied
                                        ELSE [p \in DOMAIN Supplied |-> resolved.fields[p]]]
    /\ UNCHANGED <<described, db, cache, fetch, spent>>

(* The client completes the parameters it was given from what it has. *)
Resolve ==
    /\ Offered /\ Loaded /\ call.phase \in {"idle", "asked"}
    /\ \E resolved \in {ResolveFrom(ClientEnv(Supplied), 1)} :
        call' = IF Fails(resolved) THEN Failed(resolved.why)
                ELSE [call EXCEPT !.phase = "resolved", !.values = resolved.fields]
    /\ UNCHANGED <<described, db, cache, fetch, spent>>

(* It shows the effects it can compute; one that cannot is not submitted.  *)
Current == \A t \in Shown : cache[t] = View(db, t)
Show ==
    /\ call.phase = "resolved"
    /\ \E shown \in {RunLogic(ClientEnv(call.values), TheAction(described))} :
        call' = IF Fails(shown) THEN Failed(shown.why)
                ELSE [call EXCEPT !.phase = "shown", !.overlay = shown.edits, !.fresh = Current]
    /\ UNCHANGED <<described, db, cache, fetch, spent>>

(* The server's handler: fixed values, then defaults, then the logic, over *)
(* its own ontology.  The answer may be lost.                              *)
(* Mutant: the server completes the parameters anew. *)
ReceivedAnew == Completed(scenario.values)
Received == Completed(call.values)
Result ==
    LET fixed == ApplyFixed(policy, TheAction(ir), scenario.context, Received)
        resolved == IF Fails(fixed) THEN fixed ELSE ResolveFrom(ServerEnv(fixed.fields), 1)
    IN  IF Fails(resolved) THEN resolved ELSE RunLogic(ServerEnv(resolved.fields), TheAction(ir))
Apply ==
    /\ call.phase = "shown"
    /\ \E result \in {Result} :
        IF Fails(result) THEN call' = Failed(result.why) /\ UNCHANGED db
        ELSE /\ db' = result.db
             /\ call' = [call EXCEPT !.phase = "applied", !.edits = result.edits,
                                     !.waiting = Invalidated \cap Shown]
    /\ UNCHANGED <<described, cache, fetch, spent>>
Lost ==
    /\ call.phase = "shown"
    /\ Fault
    /\ \E result \in {Result} : ~Fails(result) /\ db' = result.db
    /\ call' = Failed("lost")
    /\ UNCHANGED <<described, cache, fetch>>
Forbidden ==
    /\ call.phase = "shown"
    /\ call' = Failed("forbidden")
    /\ UNCHANGED <<described, db, cache, fetch, spent>>

(* Once every refetch has ended the overlay is dropped. *)
Settle ==
    /\ call.phase = "applied" /\ call.waiting = {}
    /\ call' = [call EXCEPT !.phase = "done", !.overlay = {}]
    /\ UNCHANGED <<described, db, cache, fetch, spent>>

OtherWrites ==
    /\ spent.writes = 0 /\ scenario.other # db
    /\ db' = scenario.other
    /\ spent' = [spent EXCEPT !.writes = 1]
    /\ call' = [call EXCEPT !.fresh = FALSE]
    /\ UNCHANGED <<described, cache, fetch>>

Step ==
    \/ Describe \/ AskServer \/ Resolve \/ Show \/ Apply \/ Lost \/ Forbidden \/ Settle \/ OtherWrites
    \/ \E t \in Types : Answer(t) \/ Arrive(t) \/ FetchFails(t)
Next == Step /\ UNCHANGED scenario
Spec == Init /\ [][Next]_vars
LiveSpec ==
    /\ Spec
    /\ WF_moving(Settle /\ UNCHANGED scenario)
    /\ WF_moving((\E t \in call.waiting : Answer(t) \/ Arrive(t)) /\ UNCHANGED scenario)

-------------------------------------------------------------------------------
Phases == {"idle", "asked", "resolved", "shown", "applied", "done", "failed"}

(* Shape of the state: a call waits for answers only after it was applied, *)
(* and an overlay is shown only while it is under way.                     *)
TypeOK ==
    /\ call.phase \in Phases
    /\ call.waiting # {} => call.phase = "applied"
    /\ call.overlay # {} => call.phase \in {"shown", "applied"}
    /\ \A t \in Types : cache[t] # NotLoaded \/ fetch[t] # Nothing => t \in Shown
    /\ spent.faults <= scenario.faults /\ spent.writes <= 1

(* The action's expressions with all their parts. *)
RECURSIVE Parts(_)
Parts(e) == {e} \cup UNION { Parts(part.value) : part \in ToSet(e.of) }
ActionParts ==
    LET action == TheAction(ir)
    IN  UNION ({ Parts(p.default) : p \in ToSet(action.parameters) }
            \cup { Parts(a.value) : a \in UNION { ToSet(step.values) : step \in ToSet(action.logic) } })

(* No expression of the action follows a link that is not shown. *)
KeepsItsLinks ==
    LET followed == { e.name : e \in { part \in ActionParts : part.kind = "linkHop" } }
    IN  \A link \in ToSet(ir.linkTypes) :
            ShowsLink(ir, policy, link) \/ {link.source.name, link.target.name} \cap followed = {}

(* What is looked up is a parameter: only those evaluate to references,    *)
(* whatever else has a reference as its type.                              *)
LooksUpParameters ==
    \A e \in ActionParts : e.kind = "objectLookup" => Source(e).kind = "inputReference"

(* A hop starts from the object of a parameter that is not optional; that  *)
(* of an optional one, or of another hop, may be absent.                   *)
HopsFromPresent ==
    \A e \in { part \in ActionParts : part.kind = "linkHop" } :
        /\ Source(e).kind = "objectLookup" /\ Source(Source(e)).kind = "inputReference"
        /\ ~MayBeAbsent(ir, Entry(TheAction(ir).parameters, Source(Source(e)).name).type)

(* An action of an ontology that the validator accepts fails because an    *)
(* expression does not fit its value, at the server or at a client that    *)
(* runs the projected action, only in three cases, which validate() lets   *)
(* pass: what is looked up is no parameter, a hop starts from what may be  *)
(* absent, or the action follows a link that the client is not shown       *)
(* (expression.ts, the errors of getAt, objectLookup, linkHop, map,        *)
(* localReference).                                                        *)
NoStructuralFailure ==
    /\ call.why \notin {"field of a reference", "unknown binding", "to-many",
                        "not a list", "not a struct"}
    /\ call.why = "not a reference" => ~LooksUpParameters
    /\ call.why = "not an object" => ~HopsFromPresent
    /\ call.why = "unknown link" => ~KeepsItsLinks

(* The client completes parameters to values of their types: what an       *)
(* earlier default or a property of an object yields is what validate()    *)
(* compared with the declared type (areDefaultTypesCompatible).  A default *)
(* that is a whole object is not compared.                                 *)
IsObject(p) ==
    p.default # NoExpr
    /\ ExprType(ir, TheAction(ir).parameters, <<>>, p.default).kind = "ontologyObject"
RECURSIVE Conforms(_, _)
Conforms(type, value) ==
    LET t == Unwrapped(ir, type)
    IN CASE value = Undefined -> TRUE
         [] t.kind = "list" -> /\ value.is = "list"
                               /\ \A i \in DOMAIN value.items : Conforms(Inner(t), value.items[i])
         [] t.kind = "struct" -> value.is = "struct"
         [] t.kind = "unknown" -> TRUE
         [] OTHER -> value.is \in {"atom", "fresh"}
ResolvedConform ==
    call.phase # "idle" =>
        \A p \in ToSet(TheAction(ir).parameters) :
            p.name \in DOMAIN call.values /\ ~IsObject(p) => Conforms(p.type, call.values[p.name])

(* What validation accepts runs: but for these cases no expression fails   *)
(* for its form, and what it yields fits where it is used.                 *)
AcceptedRuns == NoStructuralFailure /\ ResolvedConform

(* README of remote-ontology: describe "prunes broken links, hides actions *)
(* and queries that reference hidden types, and drops unreachable named    *)
(* types".  What is described is an ontology the validator accepts, for a  *)
(* policy that shows each shown type with its primary key; the context's   *)
(* type stays as it is, and may lead to a hidden one.                      *)
DescribedIsValid ==
    [][ /\ described # described' /\ KeepsItsLinks
        /\ ~LeadsToHidden(ir, policy, {Field("context", ir.contextType)})
        => Valid(described') ]_described

(* What a client shows before the server has answered is what the server   *)
(* then does, when the client was up to date and nobody else wrote: the    *)
(* server's value, or a part of it where the client leaves something       *)
(* undefined that it cannot know.                                          *)
RECURSIVE PartOf(_, _)
PartOf(seen, done) ==
    \/ seen \in {Undefined, done}
    \/ seen.is = "fresh" /\ done.is = "fresh"
    \/ /\ seen.is = "struct" /\ done.is = "struct"
       /\ \A f \in DOMAIN seen.fields :
            f \in DOMAIN done.fields /\ PartOf(seen.fields[f], done.fields[f])
    \/ /\ seen.is = "list" /\ done.is = "list" /\ Len(seen.items) = Len(done.items)
       /\ \A i \in DOMAIN seen.items : PartOf(seen.items[i], done.items[i])
ClientAgrees ==
    call.phase = "applied" /\ call.fresh =>
        \A e \in call.overlay :
            \E d \in call.edits :
                /\ d.type = e.type /\ d.key = e.key /\ d.property = e.property
                /\ PartOf(e.value, d.value)

(* A parameter that a client could complete by itself the server completes *)
(* to the same value: what policies hide from a client never changes a     *)
(* value, it only leaves it open (handleResolveActionParameters).          *)
ResolutionsAgree ==
    call.phase = "asked" /\ Loaded /\ Current /\ spent.writes = 0 =>
        LET given == [p \in DOMAIN call.values |-> scenario.values[p]]
            local == ResolveFrom(ClientEnv(given), 1)
        IN  ~Fails(local) =>
                \A p \in DOMAIN given : PartOf(local.fields[p], call.values[p])

(* An action that refers to every object it changes without an alias.      *)
Unaliased ==
    \A step \in ToSet(TheAction(ir).logic) :
        step.kind # "createObject" =>
            Entry(TheAction(ir).parameters, step.object).type.kind # "ref"

(* When a call is done, and neither was an answer lost nor did another     *)
(* client write, the client has every object as the server has it: the     *)
(* types the server invalidates and the loads that were under way leave    *)
(* nothing stale (client.ts, refreshInvalidatedCollections).               *)
CacheIsCurrent ==
    call.phase = "done" /\ spent = [faults |-> 0, writes |-> 0] /\ Unaliased => Current

(* Client and server agree before, during and after a call.                *)
PartiesAgree == ClientAgrees /\ ResolutionsAgree /\ CacheIsCurrent

(* A call that the server has applied is done although refetches fail.     *)
CallEnds == []<>(call.phase # "applied")
===============================================================================
