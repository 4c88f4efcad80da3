--------------------------- MODULE MCRemoteOntology ---------------------------
(* A task tracker: tasks with an owner and a nested reviewer, users with a *)
(* mentor, and an action whose default or assignment is any of a set of    *)
(* small expressions.                                                      *)
EXTENDS RemoteOntology

Text == Scalar("string")
UserType == [name |-> "User", primaryKey |-> "id", title |-> "name", properties |->
    <<Field("id", Text), Field("name", Text), Field("mentor", OptionalOf(Text))>>]
MetaType == StructOf(<<Field("reviewer", Text), Field("note", Text)>>)
TaskType == [name |-> "Task", primaryKey |-> "id", title |-> "title", properties |->
    <<Field("id", Text), Field("title", Text), Field("owner", Text), Field("meta", Alias("Meta"))>>]
MCLink(id, source, sourceName, target, targetName, key, cardinality) ==
    [id |-> id, source |-> [objectType |-> source, name |-> sourceName],
     target |-> [objectType |-> target, name |-> targetName],
     foreignKey |-> key, cardinality |-> cardinality]
MCLinks == <<
    MCLink("l1", "Task", "tasks", "User", "owner", <<"owner">>, "many"),
    MCLink("l2", "Task", "reviewed", "User", "reviewer", <<"meta", "reviewer">>, "one"),
    MCLink("l3", "User", "mentee", "User", "mentor", <<"mentor">>, "one")>>

MCParam(name, type, default) == [name |-> name, type |-> type, default |-> default]
MCSet(property, value) == [property |-> property, value |-> value]
MCStep(kind, type, object, values) ==
    [kind |-> kind, objectType |-> type, object |-> object, values |-> values]

(* The default of "label" and the value given to a task's title. *)
MCIR(taskType, default, value) ==
    [types |-> <<Field("Meta", MetaType), Field("TaskRef", ReferenceTo("Task"))>>,
     objectTypes |-> <<TaskType, UserType>>,
     linkTypes |-> MCLinks,
     contextType |-> StructOf(<<Field("user", ReferenceTo("User")), Field("team", Text)>>),
     queryFunctionTypes |-> <<[name |-> "find", parameters |-> <<>>, returnType |-> Alias("TaskRef")]>>,
     actionTypes |-> <<[name |-> "edit",
        parameters |-> <<MCParam("task", taskType, NoExpr),
                         MCParam("who", OptionalOf(ReferenceTo("User")), NoExpr),
                         MCParam("tags", ListOf(Text), NoExpr),
                         MCParam("label", Text, default),
                         MCParam("extra", Scalar("unknown"), Uuid),
                         MCParam("by", Text, NoExpr)>>,
        logic |-> <<MCStep("updateObject", "", "task",
                           <<MCSet(<<"title">>, value), MCSet(<<"meta", "note">>, InputRef("by"))>>),
                    MCStep("createObject", "User", "",
                           <<MCSet(<<"id">>, InputRef("extra")), MCSet(<<"name">>, InputRef("label"))>>)>>]>>]

Leaves == { InputRef(p) : p \in {"task", "who", "tags", "extra"} }
            \cup {ContextRef("user"), ContextRef("team"), LocalRef("x"), Literal("a")}
Unary(S) == { GetAtExpr(e, <<"name">>) : e \in S } \cup { GetAtExpr(e, <<"meta", "note">>) : e \in S }
            \cup { Lookup(e) : e \in S }
            \cup { Hop(e, l) : e \in S, l \in {"owner", "reviewer", "mentee", "tasks"} }
First == {InputRef("task"), InputRef("extra"), ContextRef("user"), Literal("a")}
Binary(S) == { StructExpr(<<Operand("a", e), Operand("b", f)>>) : e \in First, f \in Leaves \cup S }
             \cup { MapExpr(e, "x", f) : e \in Leaves, f \in Leaves }
MCPlain == MCIR(ReferenceTo("Task"), NoExpr, Literal("a"))
Usable(plain, S) == { e \in S : ValidExpression(plain, TheAction(plain).parameters, <<>>, e) }
(* The usable expressions of so many levels. *)
Level[n \in 1..5] ==
    Usable(MCPlain, IF n = 1 THEN Leaves
                    ELSE IF n = 5 THEN Binary(Level[2])
                    ELSE Unary(IF n = 2 THEN Leaves ELSE Level[n - 1]))
MCExprs == UNION { Level[n] : n \in 1..5 }

MCAllowed(task, user) == [t \in {"Task", "User"} |-> IF t = "Task" THEN task ELSE user]
AllTask == {"id", "title", "owner", "meta"}
AllUser == {"id", "name", "mentor"}
MCPolicy(task, user, forward) ==
    [filter |-> TRUE, allowed |-> MCAllowed(task, user), fixed |-> [edit |-> [by |-> ContextRef("user")]],
     forward |-> forward, context |-> {"user", "team"}, actions |-> {"all"}, queries |-> {"all"}]
MCPolicies == { MCPolicy(AllTask, AllUser, TRUE), MCPolicy(AllTask, AllUser \ {"name"}, FALSE),
                MCPolicy(AllTask \ {"meta"}, AllUser, TRUE), MCPolicy(AllTask, {}, TRUE) }

MCUser(id, mentor) ==
    Struct([f \in AllUser |-> IF f = "mentor" THEN mentor ELSE Atom(id)])
MCTask(title) ==
    Struct([id |-> Atom("t"), title |-> Atom(title), owner |-> Atom("u"),
            meta |-> Struct([reviewer |-> Atom("v"), note |-> Atom("n")])])
MCDb(title) ==
    [t \in {"Task", "User"} |-> IF t = "Task" THEN {MCTask(title)}
                                ELSE {MCUser("u", Undefined), MCUser("v", Atom("u"))}]
MCValues(who) ==
    [p \in {"task", "who", "tags", "label", "extra", "by"} |->
      CASE p = "task" -> Atom("t") [] p = "who" -> who
        [] p = "tags" -> List(<<Atom("p"), Atom("q")>>) [] OTHER -> Undefined]

MCScenario(r, pol, who, faults) ==
    [ir |-> r, policy |-> pol, context |-> Struct([user |-> Atom("v"), team |-> Atom("t")]), values |-> MCValues(who),
     db |-> MCDb("a"), other |-> MCDb("b"), faults |-> faults]
MCDefaulting(e) ==
    { MCScenario(MCIR(ReferenceTo("Task"), e, InputRef("label")), pol, who, 0) :
        pol \in MCPolicies, who \in {Atom("v"), Undefined} }
MCAssigning(e) ==
    { MCScenario(MCIR(type, Literal("l"), e), pol, Atom("u"), 1) :
        type \in {ReferenceTo("Task"), Alias("TaskRef")}, pol \in MCPolicies }
MCScenarios == UNION { MCDefaulting(e) \cup MCAssigning(e) : e \in MCExprs }
MCQuietScenario ==
    [ir |-> [objectTypes |-> <<>>], db |-> <<>>, faults |-> 0]
===============================================================================
