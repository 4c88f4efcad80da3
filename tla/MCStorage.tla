------------------------------ MODULE MCStorage ------------------------------
(***************************************************************************)
(* Instances for TLC of what one context at a time serves for the others,  *)
(* and of what is kept in two stores: the coordination by lock and         *)
(* broadcast, the blobs of a client, whose records are served by a host,   *)
(* and the attachments of a SQLite ontology.  `focus' selects what a       *)
(* behaviour is about; the other components keep their initial state.      *)
(***************************************************************************)
EXTENDS LockBroadcast, Blobs, SQLiteOntology, TLC

\* One call that is repeated to the next leader, and one that is published once.
CONSTANTS Repeated, Single

MCAttempts == (Repeated :> 2) @@ (Single :> 1)

----------------------------------------------------------------------------
\* A blob staged here, the id the backend stores it under, and a blob of the backend.
CONSTANTS Local, Stored, Foreign

MCBlobs == {Local, Stored, Foreign}
MCRemoteOf == [b \in MCBlobs |-> IF b = Local THEN Stored ELSE b]

\* A budget of so many operations, with one of each disruption in D.
Given(ops, D) ==
  [x \in {"ops", "hostCrash", "clientCrash", "timeout", "write", "delete"} |-> IF x = "ops" THEN ops ELSE IF x \in D THEN 1 ELSE 0]

MCSetting(blobs, ops, collects, bound, budget) ==
  [blobs |-> blobs, ops |-> ops, collects |-> collects, boundFirst |-> bound, budget |-> budget]

\* A local blob is staged, bound, read and collected; a foreign one is cached and written badly.
MCQuietSetting == MCSetting({Foreign}, {"read"}, FALSE, FALSE, Given(3, {"hostCrash", "write"}))
MCSettings ==
  {MCSetting({Local, Stored}, {"stage", "bind", "read"}, TRUE, FALSE, Given(3, {"hostCrash", "delete"})),
   MCSetting({Local, Stored}, {"stage", "bind"}, TRUE, FALSE,
             Given(2, {"hostCrash", "clientCrash", "timeout", "delete"})),
   MCSetting({Local, Stored}, {"stage", "bind", "read"}, TRUE, TRUE, Given(3, {})),
   MCSetting({Foreign}, {"read", "metadata"}, FALSE, FALSE, Given(2, {"hostCrash", "write"})),
   MCQuietSetting}

----------------------------------------------------------------------------
CONSTANTS w1, w2

MCApplications == {w1, w2}
\* Two applications upload one id; one uploads two, beside one that uploads nothing; and one uploads
\* one, whose upload and whose claim can both be recovered early.
MCOneByOne == [uploads |-> [w \in MCApplications |-> {"a"}], budget |-> [crash |-> 1, fault |-> 1, rush |-> 1]]
MCPlans ==
  {MCOneByOne,
   [uploads |-> [w \in MCApplications |-> IF w = w1 THEN {"a", "b"} ELSE {}],
    budget |-> [crash |-> 0, fault |-> 1, rush |-> 0]],
   [uploads |-> [w \in MCApplications |-> IF w = w1 THEN {"a"} ELSE {}],
    budget |-> [crash |-> 0, fault |-> 1, rush |-> 2]]}

----------------------------------------------------------------------------
VARIABLE focus

MCInit ==
  /\ focus \in {"lock", "blobs", "server"}
  /\ LockInit /\ BlobsInit /\ StoreInit
  /\ focus = "blobs" \/ setting = MCQuietSetting
  /\ focus = "server" \/ plan = MCOneByOne

MCNext ==
  /\ UNCHANGED focus
  /\ \/ focus = "lock" /\ LockNext /\ UNCHANGED <<blobVars, storeVars>>
     \/ focus = "blobs" /\ BlobsNext /\ UNCHANGED <<lockVars, storeVars>>
     \/ focus = "server" /\ StoreNext /\ UNCHANGED <<lockVars, blobVars>>

Locks == focus = "lock"
Keeps == focus = "blobs"
Serves == focus = "server"

\* The fairness of each module, for the behaviours that are about it.
MCSpec ==
  /\ MCInit /\ [][MCNext]_<<lockVars, blobVars, storeVars, focus>>
  /\ WF_lockVars(Locks /\ GoesOn) /\ WF_lockVars(Locks /\ \E n \in Nodes : WorkEnds(n))
  /\ WF_moving(Keeps /\ HostGoesOn)
  /\ SF_moving(Keeps /\ \E c \in Contexts : Handle(c))
  /\ WF_moving(Keeps /\ \E c \in Contexts : Progress(c))
  /\ WF_storeVars(Serves /\ \E w \in Applications : Proceeds(w))
  /\ WF_storeVars(Serves /\ \E k \in Keys : Answered(k))
  /\ \A c \in Collectors : WF_storeVars(Serves /\ Collects(c))

\* The variables have their types, and the state of a part is consistent.
StateTyped == LockTypeOK /\ BlobsTypeOK /\ StoreTypeOK

\* Calls settle and the lock is passed on, pending operations on blobs end, and bytes that nothing
\* links are deleted.
StorageSettles ==
  []<>((Locks => CallsSettled) /\ (Keeps => NothingPends) /\ (Serves => NoOrphans))
=============================================================================
