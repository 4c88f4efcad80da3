------------------------------ MODULE MCBackends ------------------------------
(***************************************************************************)
(* Instances for TLC of what backends are to a client: a remote ontology,  *)
(* the installation of a backend, what keeps the collections of a Foundry  *)
(* backend up to date, and the execution of an action with attachments.    *)
(* `focus' selects what a behaviour is about; the other components keep    *)
(* their initial state.                                                    *)
(***************************************************************************)
EXTENDS MCRemoteOntology, Attachments, ActionExecution, Installation, MCFoundry, ObjectSetWatcher, TLC

----------------------------------------------------------------------------
CONSTANTS u1, k1, k2, q1, q2

MCOwner == k1 :> u1 @@ k2 :> u1
MCCourse(reloads, faults, callers, keys) ==
  [careful |-> TRUE, callers |-> callers, keys |-> keys,
   incidents |-> [kind \in {"reload", "fault"} |-> IF kind = "reload" THEN reloads ELSE faults]]

\* One call after another while everything goes wrong, or two at once for one ontology.
MCCourses == {MCCourse(1, 1, {q1}, {k1, k2}), MCCourse(0, 0, {q1, q2}, {k1})}

----------------------------------------------------------------------------
\* Reloads, also when the server's clock stands still, or the client's is behind it or ahead; then a
\* history that fails.  Commits are deferred, or applied at once.
MCWays ==
  {MCWay({{o1, o2}, {o1}}, 0, 0, {}, TRUE, TRUE, 1, {"reload"}),
   MCWay({{o1, o2}, {o1}}, 1, 0, {}, FALSE, TRUE, 0, {"reload"}),
   MCWay({{o1, o2}, {o1}}, 1, -1, {o1}, FALSE, TRUE, 0, {"reload"}),
   MCWay({{o1}}, 1, 1, {}, FALSE, TRUE, 0, {"reload"}),
   MCWay({{o1, o2}, {o1}}, 0, 0, {o1}, FALSE, TRUE, 1, {"history", "drop", "late"}),
   MCWay({{o1}}, 0, 0, {o1}, FALSE, FALSE, 1, {"history", "stop", "refresh"})}

----------------------------------------------------------------------------
CONSTANTS s1, s2, c1, c2, c3

MCSetOf == c1 :> s1 @@ c2 :> s1 @@ c3 :> s2
MCPlot(subscriptions, changes, once, invalid) ==
  [what \in {"subscribe", "change", "late", "drop", "qos", "closed", "stop", "invalid"} |->
     CASE what = "subscribe" -> subscriptions [] what = "change" -> changes [] what = "invalid" -> invalid
       [] OTHER -> IF what \in once THEN 1 ELSE 0]
MCPlots ==
  {MCPlot(3, 1, {"closed"}, {}), MCPlot(2, 1, {"late", "drop"}, {}),
   MCPlot(3, 0, {"qos", "drop"}, {s2}), MCPlot(2, 1, {"qos", "stop"}, {s1})}

----------------------------------------------------------------------------
\* A cover, a list of titled files, and files by name.
MCTitled == StructOf(<<Field("file", AttachmentTo("attachment")), Field("title", Text)>>)
MCPictures == [types |-> <<Field("Picture", AttachmentTo("media"))>>, objectTypes |-> <<>>, linkTypes |-> <<>>]
MCFiles ==
  <<[name |-> "cover", type |-> OptionalOf(Alias("Picture"))],
    [name |-> "files", type |-> ListOf(MCTitled)],
    [name |-> "named", type |-> OptionalOf(MapOf(AttachmentTo("attachment")))]>>
MCFile(id) == Struct([file |-> Atom(id), title |-> Atom("t")])
MCUse(cover, files, named) == [cover |-> cover, files |-> List(files), named |-> named]
MCNamed(id) == Struct([x |-> Atom(id)])
MCUses == {MCUse(Atom("a"), <<MCFile("b"), MCFile("b")>>, Undefined),
           MCUse(Undefined, <<MCFile("a")>>, MCNamed("b")),
           MCUse(Atom("a"), <<MCFile("a")>>, Struct([x |-> Atom("b"), y |-> Atom("a")]))}
MCSetup(values, backend, recognises, eager) ==
  [uses |-> AllCollected(MCPictures, MCFiles, values), referred |-> AllOccurrences(MCPictures, MCFiles, values),
   backend |-> backend, recognises |-> recognises, eager |-> eager,
   ids |-> {"a", "b"}, first |-> "b", faults |-> 2]
MCSetups ==
  {MCSetup(values, backend, recognises, eager) :
     values \in MCUses, backend \in {"uploads", "renaming", "stable"},
     recognises \in BOOLEAN, eager \in BOOLEAN}
MCQuietSetup == MCSetup(MCUse(Undefined, <<MCFile("a")>>, MCNamed("b")), "uploads", TRUE, FALSE)

----------------------------------------------------------------------------
VARIABLE focus

MCInit ==
  /\ focus \in {"remote", "installation", "collection", "watcher", "execution"}
  /\ IF focus = "remote" THEN Init ELSE scenario = MCQuietScenario /\ Start
  /\ InstallationInit /\ FoundryInit /\ WatcherInit
  /\ IF focus = "execution" THEN ExecutionInit ELSE setup = MCQuietSetup /\ ExecutionStart
  /\ focus = "installation" \/ (course = MCCourse(0, 0, {q1, q2}, {k1}) /\ recorded = {})
  /\ focus = "collection" \/ way = MCWay({{o1}}, 0, 0, {o1}, FALSE, FALSE, 1, {"history", "stop", "refresh"})
  /\ focus = "watcher" \/ plot = MCPlot(3, 1, {"closed"}, {})

MCNext ==
  /\ UNCHANGED focus
  /\ \/ focus = "remote" /\ Next /\ UNCHANGED <<installationVars, foundryVars, watcherVars, executionVars>>
     \/ focus = "installation" /\ InstallationNext /\ UNCHANGED <<vars, foundryVars, watcherVars, executionVars>>
     \/ focus = "collection" /\ FoundryNext /\ UNCHANGED <<vars, installationVars, watcherVars, executionVars>>
     \/ focus = "watcher" /\ WatcherNext /\ UNCHANGED <<vars, installationVars, foundryVars, executionVars>>
     \/ focus = "execution" /\ ExecutionNext /\ UNCHANGED <<vars, installationVars, foundryVars, watcherVars>>

Serves == focus = "remote"
Installs == focus = "installation"
Watches == focus = "watcher"
Follows == focus = "collection"
\* The fairness of each module, for the behaviours that are about it.
MCSpec ==
  /\ MCInit /\ [][MCNext]_<<vars, installationVars, foundryVars, watcherVars, executionVars, focus>>
  /\ WF_moving(Serves /\ Settle /\ UNCHANGED scenario)
  /\ WF_moving(Serves /\ (\E t \in call.waiting : Answer(t) \/ Arrive(t)) /\ UNCHANGED scenario)
  /\ \A k \in OntologyKeys : WF_installationVars(Installs /\ Opening(k))
  /\ \A q \in Callers : WF_installationVars(Installs /\ (Going(q) \/ \E k \in OntologyKeys : Progress(q, k)))
  /\ WF_watcherVars(Watches /\ OpenConnection) /\ WF_watcherVars(Watches /\ Heartbeat)
  /\ WF_watcherVars(Watches /\ SendChange) /\ WF_watcherVars(Watches /\ Accept)
  /\ WF_watcherVars(Watches /\ Receive)

\* The variables have their types, and the state of a part is consistent.
StateTyped == TypeOK /\ InstallationTypeOK /\ FoundryTypeOK /\ WatcherTypeOK /\ ExecutionTypeOK

\* Calls of actions end, calls to the installation return, and consumers learn what became of their
\* object sets.
BackendsSettle ==
  \A q \in Callers :
    []<>(/\ Serves => call.phase # "applied"
         /\ Installs => Returned(q)
         /\ Watches => AllSettled)
=============================================================================
