---------------------------- MODULE FoundryProofs ----------------------------
(***************************************************************************)
(* What holds of the watcher of object sets, for any number of sets,       *)
(* consumers, changes and mishaps.                                         *)
(***************************************************************************)
EXTENDS ObjectSetWatcher, FiniteSetTheorems, TLAPS

----------------------------------------------------------------------------
(* The watcher: its inductive invariant *)

Statuses == {"off", "new", "open", "closed", "qos", "error"}
Results == {"success", "error", "qos"}

\* The messages of the server.
AnswerMessages ==
  [type : {"answer"}, generation : 0..1, results : UNION {[S -> Results] : S \in SUBSET ObjectSets},
   versions : [ObjectSets -> Nat]]
ChangeMessages == [type : {"change"}, generation : 0..1, set : ObjectSets, version : Nat]
CloseMessages == [type : {"closed"}, generation : 0..1, set : ObjectSets]
ServerMessages == AnswerMessages \cup ChangeMessages \cup CloseMessages

WatcherTyped ==
  /\ plot \in Plots /\ session \in {"sleeping", "connected", "stopped"} /\ listening \in BOOLEAN
  /\ desired \subseteq ObjectSets /\ shared \in [ObjectSets -> Nat]
  /\ status \in [Consumers -> Statuses] /\ told \in [Consumers -> Nat]
  /\ asked \in [busy : BOOLEAN, sets : SUBSET ObjectSets] /\ queued \in Seq(SUBSET ObjectSets)
  /\ mapping \in [generation : 0..1, sets : SUBSET ObjectSets]
  /\ version \in [ObjectSets -> Nat] /\ registered \subseteq ObjectSets /\ generation \in 0..1
  /\ wire \in Seq(ServerMessages) /\ spentOn \in [Counted -> Nat]

\* The consumers of an object set are counted; nothing is desired that nobody consumes, and what is
\* consumed is desired or was refused.
Shares ==
  /\ \A s \in ObjectSets : shared[s] = Cardinality(Present(s))
  /\ \A s \in desired : Present(s) # {}
  /\ \A s \in ObjectSets \ desired : \A c \in Present(s) : status[c] = "error"

\* Only what is no good is refused, and nothing else has an id.
Errors ==
  /\ \A c \in Consumers : status[c] = "error" => SetOf[c] \in plot.invalid
  /\ \A s \in mapping.sets : s \notin plot.invalid

\* A session that sleeps or is stopped has nothing under way, and shows nothing as open.
Resting ==
  /\ session # "connected" =>
       wire = <<>> /\ asked = Unasked /\ ~listening /\ registered = {} /\ mapping = Unmapped
  /\ ~listening => queued = <<>> /\ \A c \in Consumers : status[c] # "open"

\* The last request that is waiting is what is desired, and so is the one under way if none waits.
Requests ==
  /\ listening /\ queued # <<>> => queued[Len(queued)] = desired
  /\ listening /\ asked.busy /\ queued = <<>> => asked.sets = desired

\* The changes of s on the wire after the i-th message that have its present id.
Words(s, i) ==
  {j \in (i + 1)..Len(wire) : wire[j].type = "change" /\ wire[j].generation = generation /\ wire[j].set = s}
EndsAfter(s, i) ==
  \E j \in (i + 1)..Len(wire) : wire[j].type = "closed" /\ wire[j].generation = generation /\ wire[j].set = s

\* Whoever knows version v of s after the i-th message hears of its last change, or of its end.
Fresh(s, i, v) ==
  \/ EndsAfter(s, i)
  \/ /\ s \in registered
     /\ Words(s, i) = {} => v = version[s]
     /\ \A j \in Words(s, i) : (\A k \in Words(s, i) : k <= j) => wire[j].version = version[s]

\* An answer is for the request that is under way.
AnswersAsked(i) ==
  /\ asked.busy /\ wire[i].generation = generation /\ mapping.generation = 1 - generation
  /\ DOMAIN wire[i].results = asked.sets
  /\ \A s \in asked.sets : /\ wire[i].results[s] = "success" => s \notin plot.invalid
                           /\ wire[i].results[s] = "error" => s \in plot.invalid
                           /\ wire[i].results[s] = "success" => Fresh(s, i, wire[i].versions[s])
  /\ \A j \in 1..Len(wire) : wire[j].type = "answer" => j = i

Answering ==
  /\ \A i \in 1..Len(wire) : wire[i].type = "answer" => AnswersAsked(i)
  /\ session = "connected" /\ (\A i \in 1..Len(wire) : wire[i].type # "answer") =>
       mapping.generation = generation

\* Between requests, what is shown as open is fresh, and has an id once the last request is answered.
Shown ==
  ~asked.busy => \A c \in Consumers : status[c] = "open" =>
    /\ SetOf[c] \in mapping.sets => Fresh(SetOf[c], 0, told[c])
    /\ queued = <<>> => SetOf[c] \in mapping.sets

Bounded ==
  /\ spentOn["change"] <= plot["change"]
  /\ \A s \in ObjectSets : version[s] <= spentOn["change"]
  /\ \A c \in Consumers : told[c] <= spentOn["change"]
  /\ \A i \in 1..Len(wire) :
       /\ wire[i].type = "change" => wire[i].version <= spentOn["change"]
       /\ wire[i].type = "answer" => \A s \in ObjectSets : wire[i].versions[s] <= spentOn["change"]

WatcherInv ==
  /\ WatcherTyped /\ Shares /\ Errors /\ Resting /\ Requests /\ Answering /\ Shown /\ Bounded

----------------------------------------------------------------------------
(* The watcher: messages and counts *)

LEMMA ServerMessageKinds ==
  ASSUME NEW m \in ServerMessages
  PROVE  /\ m.type \in {"answer", "change", "closed"} /\ m.generation \in 0..1
         /\ m.type = "change" => m.set \in ObjectSets /\ m.version \in Nat
         /\ m.type = "closed" => m.set \in ObjectSets
         /\ m.type = "answer" => /\ m.versions \in [ObjectSets -> Nat]
                                 /\ DOMAIN m.results \subseteq ObjectSets
                                 /\ \A s \in DOMAIN m.results : m.results[s] \in Results
<1>1. CASE m \in AnswerMessages
  <2>1. m.type = "answer" /\ m.generation \in 0..1 /\ m.versions \in [ObjectSets -> Nat]
        /\ m.results \in UNION {[S -> Results] : S \in SUBSET ObjectSets}
    BY <1>1 DEF AnswerMessages
  <2>2. PICK S \in SUBSET ObjectSets : m.results \in [S -> Results] BY <2>1
  <2> QED BY <2>1, <2>2
<1>2. CASE m \in ChangeMessages BY <1>2 DEF ChangeMessages
<1>3. CASE m \in CloseMessages BY <1>3 DEF CloseMessages
<1> QED BY <1>1, <1>2, <1>3 DEF ServerMessages

LEMMA WireMembers ==
  ASSUME wire \in Seq(ServerMessages)
  PROVE  /\ Len(wire) \in Nat /\ DOMAIN wire = 1..Len(wire)
         /\ \A i \in 1..Len(wire) : wire[i] \in ServerMessages
  OBVIOUS

LEMMA Sent ==
  ASSUME wire \in Seq(ServerMessages), NEW m \in ServerMessages, wire' = Append(wire, m)
  PROVE  /\ wire' \in Seq(ServerMessages) /\ Len(wire') = Len(wire) + 1 /\ Len(wire) \in Nat
         /\ wire'[Len(wire) + 1] = m
         /\ \A i \in 1..Len(wire) : wire'[i] = wire[i]
  OBVIOUS

LEMMA Received ==
  ASSUME wire \in Seq(ServerMessages), wire # <<>>, wire' = Tail(wire)
  PROVE  /\ wire' \in Seq(ServerMessages) /\ Len(wire') = Len(wire) - 1 /\ Len(wire) \in Nat /\ Len(wire) > 0
         /\ Head(wire) = wire[1] /\ wire[1] \in ServerMessages
         /\ \A i \in 1..Len(wire') : wire'[i] = wire[i + 1]
  OBVIOUS

LEMMA TailOf ==
  ASSUME NEW S, NEW q \in Seq(S), q # <<>>
  PROVE  /\ Head(q) \in S /\ Head(q) = q[1] /\ Tail(q) \in Seq(S)
         /\ Len(Tail(q)) = Len(q) - 1 /\ Len(q) \in Nat /\ Len(q) > 0
         /\ \A i \in 1..Len(Tail(q)) : Tail(q)[i] = q[i + 1]
         /\ (Tail(q) = <<>> <=> Len(Tail(q)) = 0)
<1>1. /\ Head(q) = q[1] /\ Tail(q) \in Seq(S) /\ Len(Tail(q)) = Len(q) - 1 /\ Len(q) \in Nat
      /\ \A i \in 1..Len(Tail(q)) : Tail(q)[i] = q[i + 1]
  OBVIOUS
<1>2. Len(q) > 0 OBVIOUS
<1>3. Head(q) \in S BY <1>1, <1>2
<1>4. Tail(q) = <<>> <=> Len(Tail(q)) = 0
  <2>1. PICK t \in Seq(S) : t = Tail(q) BY <1>1
  <2>2. t = <<>> <=> Len(t) = 0 OBVIOUS
  <2> QED BY <2>1, <2>2
<1> QED BY <1>1, <1>2, <1>3, <1>4

LEMMA AppendOf ==
  ASSUME NEW S, NEW q \in Seq(S), NEW e \in S
  PROVE  /\ Append(q, e) \in Seq(S) /\ Append(q, e) # <<>> /\ Append(q, e)[Len(Append(q, e))] = e
  OBVIOUS

LEMMA Spent ==
  ASSUME WatcherTyped, Bounded, NEW what \in Counted, Spend(what)
  PROVE  /\ spentOn' \in [Counted -> Nat] /\ spentOn["change"] \in Nat
         /\ spentOn'["change"] = (IF what = "change" THEN spentOn["change"] + 1 ELSE spentOn["change"])
         /\ spentOn'["change"] <= plot["change"]
<1>1. "change" \in Counted /\ plot["change"] \in Nat /\ plot[what] \in Nat
  BY WatcherAssumption DEF WatcherTyped, Counted
<1>2. /\ spentOn \in [Counted -> Nat] /\ spentOn[what] < plot[what]
      /\ spentOn' = [spentOn EXCEPT ![what] = spentOn[what] + 1]
  BY DEF WatcherTyped, Spend
<1> QED BY <1>1, <1>2 DEF Bounded

\* Consumers that stay are counted as before.
LEMMA SameConsumers ==
  ASSUME \A c \in Consumers : status'[c] = "off" <=> status[c] = "off"
  PROVE  \A s \in ObjectSets : Present(s)' = Present(s)
  BY DEF Present

----------------------------------------------------------------------------
(* The watcher: what is known of the changes of an object set *)

\* A message is received that says nothing of s under its present id.
LEMMA FreshBehind ==
  ASSUME wire \in Seq(ServerMessages), NEW s \in ObjectSets, NEW v, Fresh(s, 0, v),
         wire # <<>>,
         ~(wire[1].generation = generation /\ wire[1].type \in {"change", "closed"} /\ wire[1].set = s)
  PROVE  Fresh(s, 1, v)
<1>1. Len(wire) \in Nat OBVIOUS
<1>2. Words(s, 1) = Words(s, 0)
  <2>1. \A j \in Words(s, 0) : j \in Words(s, 1) BY <1>1 DEF Words
  <2>2. \A j \in Words(s, 1) : j \in Words(s, 0) BY <1>1 DEF Words
  <2> QED BY <2>1, <2>2
<1>3. EndsAfter(s, 0) => EndsAfter(s, 1) BY <1>1 DEF EndsAfter
<1> QED BY <1>2, <1>3 DEF Fresh

\* A change of s is received.
LEMMA FreshTold ==
  ASSUME wire \in Seq(ServerMessages), NEW s \in ObjectSets, NEW v, Fresh(s, 0, v),
         wire # <<>>, wire[1].generation = generation, wire[1].type = "change", wire[1].set = s
  PROVE  Fresh(s, 1, wire[1].version)
<1>1. Len(wire) \in Nat /\ Len(wire) > 0 OBVIOUS
<1>2. EndsAfter(s, 0) => EndsAfter(s, 1) BY <1>1 DEF EndsAfter
<1>3. 1 \in Words(s, 0) /\ \A j \in Words(s, 1) : j \in Words(s, 0) BY <1>1 DEF Words
<1>4. \A j \in Words(s, 0) : j = 1 \/ j \in Words(s, 1) BY <1>1 DEF Words
<1>5. \A j \in Words(s, 1) : 1 <= j BY <1>1 DEF Words
<1>6. ASSUME s \in registered, \A j \in Words(s, 0) : (\A k \in Words(s, 0) : k <= j) => wire[j].version = version[s]
      PROVE  Fresh(s, 1, wire[1].version)
  <2>1. Words(s, 1) = {} => wire[1].version = version[s]
    <3>1. Words(s, 1) = {} => \A k \in Words(s, 0) : k <= 1 BY <1>4
    <3> QED BY <1>3, <1>6, <3>1
  <2>2. ASSUME NEW j \in Words(s, 1), \A k \in Words(s, 1) : k <= j PROVE wire[j].version = version[s]
    <3>1. \A k \in Words(s, 0) : k <= j BY <1>4, <1>5, <2>2
    <3> QED BY <1>3, <1>6, <2>2, <3>1
  <2> QED BY <1>6, <2>1, <2>2 DEF Fresh
<1> QED BY <1>2, <1>6 DEF Fresh

\* The wire moves up.
LEMMA FreshMoves ==
  ASSUME wire \in Seq(ServerMessages), NEW s \in ObjectSets, NEW v, NEW i \in 0..(Len(wire) - 1),
         Fresh(s, i + 1, v), wire # <<>>, wire' = Tail(wire), UNCHANGED <<version, registered, generation>>
  PROVE  Fresh(s, i, v)'
<1>1. /\ Len(wire') = Len(wire) - 1 /\ Len(wire) \in Nat /\ Len(wire) > 0
      /\ \A j \in 1..Len(wire') : wire'[j] = wire[j + 1]
  BY Received
<1>2. \A j \in Words(s, i)' : j + 1 \in Words(s, i + 1) /\ wire'[j] = wire[j + 1] /\ j \in Nat BY <1>1 DEF Words
<1>3. \A j \in Words(s, i + 1) : j - 1 \in Words(s, i)' /\ wire'[j - 1] = wire[j] /\ j \in Nat BY <1>1 DEF Words
<1>4. CASE EndsAfter(s, i + 1)
  <2>1. PICK j \in ((i + 1) + 1)..Len(wire) :
          wire[j].type = "closed" /\ wire[j].generation = generation /\ wire[j].set = s
    BY <1>4 DEF EndsAfter
  <2>2. j - 1 \in (i + 1)..Len(wire') /\ wire'[j - 1] = wire[j] BY <1>1, <2>1
  <2> QED BY <2>1, <2>2 DEF Fresh, EndsAfter
<1>5. CASE ~EndsAfter(s, i + 1)
  <2>1. /\ s \in registered /\ (Words(s, i + 1) = {} => v = version[s])
        /\ \A j \in Words(s, i + 1) : (\A k \in Words(s, i + 1) : k <= j) => wire[j].version = version[s]
    BY <1>5 DEF Fresh
  <2>2. Words(s, i)' = {} => v = version'[s]
    <3>1. Words(s, i)' = {} => Words(s, i + 1) = {} BY <1>3
    <3> QED BY <2>1, <3>1
  <2>3. ASSUME NEW j \in Words(s, i)', \A k \in Words(s, i)' : k <= j PROVE wire'[j].version = version'[s]
    <3>1. j + 1 \in Words(s, i + 1) /\ wire'[j] = wire[j + 1] /\ j \in Nat BY <1>2
    <3>2. \A k \in Words(s, i + 1) : k <= j + 1 BY <1>3, <2>3, <3>1
    <3> QED BY <2>1, <3>1, <3>2
  <2> QED BY <2>1, <2>2, <2>3 DEF Fresh
<1> QED BY <1>4, <1>5

\* A message is sent that is no change of s under its present id, or that ends s.
LEMMA FreshStays ==
  ASSUME wire \in Seq(ServerMessages), NEW m \in ServerMessages, wire' = Append(wire, m),
         NEW s \in ObjectSets, NEW v, NEW i \in 0..Len(wire), Fresh(s, i, v),
         UNCHANGED generation, version'[s] = version[s],
         \/ m.type = "closed" /\ m.generation = generation /\ m.set = s
         \/ /\ ~(m.type = "change" /\ m.generation = generation /\ m.set = s)
            /\ s \in registered => s \in registered'
  PROVE  Fresh(s, i, v)'
<1>1. /\ Len(wire') = Len(wire) + 1 /\ Len(wire) \in Nat /\ wire'[Len(wire) + 1] = m
      /\ \A j \in 1..Len(wire) : wire'[j] = wire[j]
  BY Sent
<1>2. EndsAfter(s, i) => EndsAfter(s, i)'
  <2>1. ASSUME NEW j \in (i + 1)..Len(wire),
               wire[j].type = "closed" /\ wire[j].generation = generation /\ wire[j].set = s
        PROVE  EndsAfter(s, i)'
    <3>1. j \in (i + 1)..Len(wire') /\ wire'[j] = wire[j] BY <1>1
    <3> QED BY <2>1, <3>1 DEF EndsAfter
  <2> QED BY <2>1 DEF EndsAfter
<1>3. CASE m.type = "closed" /\ m.generation = generation /\ m.set = s
  <2>1. Len(wire) + 1 \in (i + 1)..Len(wire') BY <1>1
  <2> QED BY <1>1, <1>3, <2>1 DEF Fresh, EndsAfter
<1>4. CASE ~(m.type = "change" /\ m.generation = generation /\ m.set = s) /\ (s \in registered => s \in registered')
  <2>1. \A j \in Words(s, i)' : j \in Words(s, i) /\ wire'[j] = wire[j] BY <1>1, <1>4 DEF Words
  <2>2. \A j \in Words(s, i) : j \in Words(s, i)' BY <1>1 DEF Words
  <2> QED BY <1>2, <1>4, <2>1, <2>2 DEF Fresh
<1> QED BY <1>3, <1>4

\* A change of an object set that has an id is on the wire, and is the last.
LEMMA FreshChanged ==
  ASSUME wire \in Seq(ServerMessages), NEW m \in ServerMessages, wire' = Append(wire, m),
         NEW s \in ObjectSets, NEW v, NEW i \in 0..Len(wire), s \in registered,
         UNCHANGED <<generation, registered>>, m.type = "change", m.generation = generation, m.set = s,
         m.version = version'[s]
  PROVE  Fresh(s, i, v)'
<1>1. /\ Len(wire') = Len(wire) + 1 /\ Len(wire) \in Nat /\ wire'[Len(wire) + 1] = m
  BY Sent
<1>2. Len(wire) + 1 \in Words(s, i)' BY <1>1 DEF Words
<1>3. \A j \in Words(s, i)' : j \in Nat /\ j <= Len(wire) + 1 BY <1>1 DEF Words
<1>4. ASSUME NEW j \in Words(s, i)', \A k \in Words(s, i)' : k <= j PROVE wire'[j].version = version'[s]
  <2>1. j = Len(wire) + 1 BY <1>1, <1>2, <1>3, <1>4
  <2> QED BY <1>1, <2>1
<1> QED BY <1>2, <1>4 DEF Fresh

----------------------------------------------------------------------------
(* The watcher: what the parts of the invariant need of a step *)

\* The requests, their answers and the ids are left alone.
LEMMA AnsweringStays ==
  ASSUME Answering, UNCHANGED <<plot, session, asked, mapping, version, registered, generation, wire>>
  PROVE  Answering'
  BY DEF Answering, AnswersAsked, Fresh, Words, EndsAfter

\* A message that is no answer is received.
LEMMA AnsweringMoves ==
  ASSUME WatcherTyped, Answering, wire # <<>>, wire[1].type # "answer", wire' = Tail(wire),
         UNCHANGED <<plot, session, asked, mapping, version, registered, generation>>
  PROVE  Answering'
<1>1. /\ wire \in Seq(ServerMessages) /\ Len(wire') = Len(wire) - 1 /\ Len(wire) \in Nat /\ Len(wire) > 0
      /\ \A i \in 1..Len(wire') : wire'[i] = wire[i + 1]
  BY Received DEF WatcherTyped
<1>2. ASSUME NEW i \in 1..Len(wire'), wire'[i].type = "answer" PROVE AnswersAsked(i)'
  <2>1. i + 1 \in 1..Len(wire) /\ wire'[i] = wire[i + 1] /\ AnswersAsked(i + 1) BY <1>1, <1>2 DEF Answering
  <2>2. ASSUME NEW s \in asked.sets, wire[i + 1].results[s] = "success"
        PROVE  Fresh(s, i, wire[i].versions[s])'
    <3>1. PICK v : v = wire[i + 1].versions[s] OBVIOUS
    <3>2. Fresh(s, i + 1, v) /\ s \in ObjectSets /\ i \in 0..(Len(wire) - 1)
      BY <1>1, <2>1, <2>2, <3>1 DEF AnswersAsked, WatcherTyped
    <3>3. Fresh(s, i, v)' BY <1>1, <3>2, FreshMoves
    <3> QED BY <2>1, <3>1, <3>3 DEF Fresh
  <2>3. \A j \in 1..Len(wire') : wire'[j].type = "answer" => j = i
    <3>1. ASSUME NEW j \in 1..Len(wire'), wire'[j].type = "answer" PROVE j = i
      <4>1. j + 1 \in 1..Len(wire) /\ wire[j + 1].type = "answer" BY <1>1, <3>1
      <4>2. j + 1 = i + 1 BY <2>1, <4>1 DEF AnswersAsked
      <4> QED BY <4>2
    <3> QED BY <3>1
  <2> QED BY <2>1, <2>2, <2>3 DEF AnswersAsked
<1>3. (\A i \in 1..Len(wire') : wire'[i].type # "answer") => (\A i \in 1..Len(wire) : wire[i].type # "answer")
  <2>1. ASSUME NEW i \in 1..Len(wire), wire[i].type = "answer"
        PROVE  \E j \in 1..Len(wire') : wire'[j].type = "answer"
    <3>1. i # 1 BY <2>1
    <3>2. i - 1 \in 1..Len(wire') /\ wire'[i - 1] = wire[i] BY <1>1, <3>1
    <3> QED BY <2>1, <3>2
  <2> QED BY <2>1
<1> QED BY <1>2, <1>3 DEF Answering

\* Nothing that is bounded grows but with the number of changes.
LEMMA BoundedMoves ==
  ASSUME WatcherTyped, Bounded, wire # <<>>, wire' = Tail(wire), UNCHANGED <<plot, version, spentOn>>,
         \A c \in Consumers : told'[c] <= spentOn["change"]
  PROVE  Bounded'
<1>1. /\ Len(wire') = Len(wire) - 1 /\ Len(wire) \in Nat /\ Len(wire) > 0
      /\ \A i \in 1..Len(wire') : wire'[i] = wire[i + 1]
  BY Received DEF WatcherTyped
<1> QED BY <1>1 DEF Bounded

----------------------------------------------------------------------------
(* The watcher: consumers *)

LEMMA WatcherInitEstablishes ==
  ASSUME WatcherInit
  PROVE  WatcherInv
<1>1. wire = <<>> /\ Len(wire) = 0 /\ queued = <<>> BY DEF WatcherInit
<1>2. WatcherTyped
  <2>1. /\ asked \in [busy : BOOLEAN, sets : SUBSET ObjectSets] BY DEF WatcherInit, Unasked
  <2>2. mapping \in [generation : 0..1, sets : SUBSET ObjectSets] BY DEF WatcherInit, Unmapped
  <2>3. /\ wire \in Seq(ServerMessages) /\ queued \in Seq(SUBSET ObjectSets) BY <1>1
  <2>4. spentOn \in [Counted -> Nat] BY DEF WatcherInit, Uncounted
  <2>5. /\ shared \in [ObjectSets -> Nat] /\ version \in [ObjectSets -> Nat] /\ told \in [Consumers -> Nat]
        /\ status \in [Consumers -> Statuses]
    BY DEF WatcherInit, Statuses
  <2>6. /\ plot \in Plots /\ session = "sleeping" /\ listening = FALSE /\ desired = {} /\ registered = {}
        /\ generation = 0
    BY DEF WatcherInit
  <2>7. listening \in BOOLEAN BY <2>6
  <2>8. session \in {"sleeping", "connected", "stopped"} /\ generation \in 0..1 BY <2>6
  <2>9. plot \in Plots /\ desired \subseteq ObjectSets /\ registered \subseteq ObjectSets BY <2>6
  <2> QED BY <2>1, <2>2, <2>3, <2>4, <2>5, <2>7, <2>8, <2>9 DEF WatcherTyped
<1>3. Shares
  <2>1. \A s \in ObjectSets : Present(s) = {} BY DEF WatcherInit, Present
  <2> QED BY <2>1, FS_EmptySet DEF WatcherInit, Shares
<1>4. Bounded
  <2>1. "change" \in Counted /\ plot["change"] \in Nat BY WatcherAssumption DEF WatcherInit, Counted
  <2> QED BY <1>1, <2>1 DEF WatcherInit, Bounded, Uncounted
<1>5. Errors /\ Resting /\ Requests BY DEF WatcherInit, Errors, Resting, Requests, Unasked, Unmapped
<1>6. Answering /\ Shown BY <1>1 DEF WatcherInit, Answering, Shown
<1> QED BY <1>2, <1>3, <1>4, <1>5, <1>6 DEF WatcherInv

\* What is desired changes with the consumers, and the connection hears of it.
LEMMA DesireKeeps ==
  ASSUME WatcherInv, desired' \subseteq ObjectSets,
         queued' = (IF listening THEN Append(queued, desired') ELSE queued)
         \/ (desired' = desired /\ queued' = queued),
         UNCHANGED <<session, asked, listening>>
  PROVE  Requests' /\ queued' \in Seq(SUBSET ObjectSets) /\ (queued' = <<>> => queued = <<>>)
         /\ (~listening => queued' = <<>>)
<1>1. queued \in Seq(SUBSET ObjectSets) /\ (~listening => queued = <<>>) BY DEF WatcherInv, WatcherTyped, Resting
<1>2. CASE listening /\ queued' = Append(queued, desired')
  <2>1. Len(queued') = Len(queued) + 1 /\ queued'[Len(queued')] = desired' /\ queued' # <<>> BY <1>1, <1>2
  <2> QED BY <1>1, <1>2, <2>1 DEF Requests
<1>3. CASE queued' = queued /\ (~listening \/ desired' = desired)
  BY <1>1, <1>3 DEF Requests, WatcherInv
<1> QED BY <1>2, <1>3

\* Of the step of a consumer.
LEMMA ConsumerKeeps ==
  ASSUME WatcherInv, UNCHANGED <<plot, session, asked, listening, mapping, version, registered, generation, wire>>,
         status' \in [Consumers -> Statuses], shared' \in [ObjectSets -> Nat], Shares',
         \A c \in Consumers : /\ status'[c] \in {"open", "error"} => status[c] = status'[c]
                              /\ status'[c] # "new" => told'[c] = told[c]
                              /\ told'[c] \in {told[c], 0},
         told' \in [Consumers -> Nat], spentOn' \in [Counted -> Nat],
         spentOn'["change"] = spentOn["change"], desired' \subseteq ObjectSets,
         queued' = (IF listening THEN Append(queued, desired') ELSE queued)
         \/ (desired' = desired /\ queued' = queued)
  PROVE  WatcherInv'
<1>1. Requests' /\ queued' \in Seq(SUBSET ObjectSets) /\ (queued' = <<>> => queued = <<>>)
      /\ (~listening => queued' = <<>>)
  BY DesireKeeps
<1>2. WatcherTyped' BY <1>1 DEF WatcherInv, WatcherTyped
<1>3. Errors' BY DEF WatcherInv, Errors
<1>4. Resting' BY <1>1 DEF WatcherInv, Resting
<1>5. Answering' BY AnsweringStays DEF WatcherInv
<1>6. Shown'
  <2>1. ASSUME NEW c \in Consumers, ~asked.busy, status'[c] = "open"
        PROVE  /\ SetOf[c] \in mapping.sets => Fresh(SetOf[c], 0, told'[c])
               /\ queued' = <<>> => SetOf[c] \in mapping.sets
    <3>1. status[c] = "open" /\ told'[c] = told[c] BY <2>1
    <3> QED BY <1>1, <2>1, <3>1 DEF WatcherInv, Shown
  <2> QED BY <2>1 DEF Shown, Fresh, Words, EndsAfter
<1>7. Bounded'
  <2>1. "change" \in Counted /\ spentOn["change"] \in Nat BY DEF WatcherInv, WatcherTyped, Counted
  <2> QED BY <2>1 DEF WatcherInv, WatcherTyped, Bounded
<1> QED BY <1>1, <1>2, <1>3, <1>4, <1>5, <1>6, <1>7 DEF WatcherInv

LEMMA SubscribeKeeps ==
  ASSUME WatcherInv, NEW c \in Consumers, Subscribe(c)
  PROVE  WatcherInv'
<1> DEFINE s == SetOf[c]
<1>1. /\ status[c] = "off" /\ session # "stopped" /\ Spend("subscribe")
      /\ status' = [status EXCEPT ![c] = "new"] /\ told' = [told EXCEPT ![c] = 0]
      /\ shared' = [shared EXCEPT ![s] = shared[s] + 1]
      /\ IF s \in desired THEN UNCHANGED <<desired, queued>> ELSE Desire(desired \cup {s})
      /\ UNCHANGED <<plot, session, asked, listening, mapping, version, registered, generation, wire>>
  BY DEF Subscribe, server
<1>2. s \in ObjectSets BY WatcherAssumption
<1> HIDE DEF s
<1>3. /\ status \in [Consumers -> Statuses] /\ told \in [Consumers -> Nat] /\ shared \in [ObjectSets -> Nat]
      /\ desired \subseteq ObjectSets
  BY DEF WatcherInv, WatcherTyped
<1>4. /\ status' \in [Consumers -> Statuses] /\ told' \in [Consumers -> Nat] /\ shared' \in [ObjectSets -> Nat]
  BY <1>1, <1>2, <1>3 DEF Statuses
<1>5. /\ spentOn' \in [Counted -> Nat] /\ spentOn'["change"] = spentOn["change"]
  BY <1>1, Spent DEF Counted, WatcherInv
<1>6. /\ desired' = desired \cup {s}
      /\ queued' = (IF listening THEN Append(queued, desired') ELSE queued)
         \/ (desired' = desired /\ queued' = queued)
  BY <1>1 DEF Desire
<1>7. Shares'
  <2>1. Present(s)' = Present(s) \cup {c} /\ c \notin Present(s) BY <1>1, <1>3 DEF Present, s
  <2>2. \A t \in ObjectSets : t # s => Present(t)' = Present(t) BY <1>1, <1>3 DEF Present, s
  <2>3. IsFiniteSet(Present(s)) BY WatcherAssumption, FS_Subset DEF Present
  <2>4. Cardinality(Present(s)') = Cardinality(Present(s)) + 1 BY <2>1, <2>3, FS_AddElement
  <2>5. \A t \in ObjectSets : shared'[t] = Cardinality(Present(t)')
    BY <1>1, <1>2, <1>3, <2>2, <2>4 DEF WatcherInv, Shares
  <2>6. \A t \in desired' : Present(t)' # {} BY <1>3, <1>6, <2>1, <2>2 DEF WatcherInv, Shares
  <2>7. ASSUME NEW t \in ObjectSets \ desired', NEW d \in Present(t)' PROVE status'[d] = "error"
    <3>1. t # s /\ t \notin desired /\ d \in Present(t) BY <1>6, <2>2, <2>7
    <3>2. d # c BY <2>7, <3>1 DEF Present, s
    <3> QED BY <1>1, <1>3, <2>7, <3>1, <3>2 DEF WatcherInv, Shares, Present
  <2> QED BY <2>5, <2>6, <2>7 DEF Shares
<1>8. \A d \in Consumers : /\ status'[d] \in {"open", "error"} => status[d] = status'[d]
                           /\ status'[d] # "new" => told'[d] = told[d]
                           /\ told'[d] \in {told[d], 0}
  BY <1>1, <1>3
<1> QED BY <1>1, <1>2, <1>3, <1>4, <1>5, <1>6, <1>7, <1>8, ConsumerKeeps

LEMMA UnsubscribeKeeps ==
  ASSUME WatcherInv, NEW c \in Consumers, Unsubscribe(c)
  PROVE  WatcherInv'
<1> DEFINE s == SetOf[c]
<1>1. /\ status[c] # "off" /\ session # "stopped"
      /\ status' = [status EXCEPT ![c] = "off"] /\ shared' = [shared EXCEPT ![s] = shared[s] - 1]
      /\ IF shared[s] = 1 THEN Desire(desired \ {s}) ELSE UNCHANGED <<desired, queued>>
      /\ UNCHANGED <<plot, told, session, asked, listening, mapping, version, registered, generation, wire, spentOn>>
  BY DEF Unsubscribe, server
<1>2. s \in ObjectSets BY WatcherAssumption
<1> HIDE DEF s
<1>3. /\ status \in [Consumers -> Statuses] /\ told \in [Consumers -> Nat] /\ shared \in [ObjectSets -> Nat]
      /\ desired \subseteq ObjectSets /\ spentOn \in [Counted -> Nat]
  BY DEF WatcherInv, WatcherTyped
<1>4. /\ Present(s)' = Present(s) \ {c} /\ c \in Present(s) BY <1>1, <1>3 DEF Present, s
<1>5. \A t \in ObjectSets : t # s => Present(t)' = Present(t) BY <1>1, <1>3 DEF Present, s
<1>6. /\ IsFiniteSet(Present(s)) /\ IsFiniteSet(Present(s)') BY <1>4, WatcherAssumption, FS_Subset DEF Present
<1>7. /\ Cardinality(Present(s)') = Cardinality(Present(s)) - 1 /\ Cardinality(Present(s)') \in Nat
      /\ shared[s] = Cardinality(Present(s)) /\ (Cardinality(Present(s)') = 0 <=> Present(s)' = {})
  <2>1. Cardinality(Present(s)') = Cardinality(Present(s)) - 1 BY <1>4, <1>6, FS_RemoveElement
  <2>2. Cardinality(Present(s)') \in Nat BY <1>6, FS_CardinalityType
  <2>3. Cardinality(Present(s)') = 0 <=> Present(s)' = {} BY <1>6, FS_EmptySet
  <2> QED BY <1>2, <2>1, <2>2, <2>3 DEF WatcherInv, Shares
<1>8. status' \in [Consumers -> Statuses] /\ shared' \in [ObjectSets -> Nat]
  BY <1>1, <1>2, <1>3, <1>7 DEF Statuses
<1>9. /\ desired' = (IF shared[s] = 1 THEN desired \ {s} ELSE desired)
      /\ queued' = (IF listening THEN Append(queued, desired') ELSE queued)
         \/ (desired' = desired /\ queued' = queued)
  BY <1>1 DEF Desire
<1>10. Shares'
  <2>1. \A t \in ObjectSets : shared'[t] = Cardinality(Present(t)')
    BY <1>1, <1>2, <1>3, <1>5, <1>7 DEF WatcherInv, Shares
  <2>2. \A t \in desired' : Present(t)' # {}
    <3>1. ASSUME NEW t \in desired' PROVE Present(t)' # {}
      <4>1. t \in desired /\ t \in ObjectSets BY <1>3, <1>9, <3>1
      <4>2. CASE t = s
        <5>1. shared[s] # 1 BY <1>9, <3>1, <4>2
        <5> QED BY <1>3, <1>7, <1>2, <4>2, <5>1
      <4>3. CASE t # s BY <1>5, <4>1, <4>3 DEF WatcherInv, Shares
      <4> QED BY <4>2, <4>3
    <3> QED BY <3>1
  <2>3. ASSUME NEW t \in ObjectSets \ desired', NEW d \in Present(t)' PROVE status'[d] = "error"
    <3>1. d \in Present(t) /\ d # c /\ d \in Consumers BY <1>1, <1>3, <1>4, <1>5, <2>3 DEF Present
    <3>2. t \notin desired
      <4>1. t = s /\ shared[s] = 1 => Present(t)' = {} BY <1>7, <1>3
      <4> QED BY <1>9, <2>3, <4>1
    <3> QED BY <1>1, <1>3, <2>3, <3>1, <3>2 DEF WatcherInv, Shares
  <2> QED BY <2>1, <2>2, <2>3 DEF Shares
<1>11. \A d \in Consumers : /\ status'[d] \in {"open", "error"} => status[d] = status'[d]
                            /\ told'[d] = told[d]
  BY <1>1, <1>3
<1>12. desired' \subseteq ObjectSets BY <1>3, <1>9
<1> QED BY <1>1, <1>3, <1>8, <1>9, <1>10, <1>11, <1>12, ConsumerKeeps

----------------------------------------------------------------------------
(* The watcher: the connection *)

LEMMA StopKeeps ==
  ASSUME WatcherInv, Stop
  PROVE  WatcherInv'
<1>1. /\ Spend("stop") /\ session' = "stopped"
      /\ desired' = {} /\ shared' = [s \in ObjectSets |-> 0] /\ status' = [c \in Consumers |-> "off"]
      /\ asked' = Unasked /\ listening' = FALSE /\ queued' = <<>> /\ mapping' = Unmapped
      /\ registered' = {} /\ wire' = <<>> /\ UNCHANGED <<plot, told, version, generation>>
  BY DEF Stop
<1>2. /\ spentOn' \in [Counted -> Nat] /\ spentOn'["change"] = spentOn["change"]
  BY <1>1, Spent DEF Counted, WatcherInv
<1>3. WatcherTyped'
  <2>1. asked' \in [busy : BOOLEAN, sets : SUBSET ObjectSets] BY <1>1 DEF Unasked
  <2>2. mapping' \in [generation : 0..1, sets : SUBSET ObjectSets] BY <1>1 DEF Unmapped
  <2>3. shared' \in [ObjectSets -> Nat] /\ status' \in [Consumers -> Statuses] BY <1>1 DEF Statuses
  <2>4. wire' \in Seq(ServerMessages) /\ queued' \in Seq(SUBSET ObjectSets) BY <1>1
  <2>5. listening' \in BOOLEAN /\ session' \in {"sleeping", "connected", "stopped"} BY <1>1
  <2>6. UNCHANGED <<plot, told, version, generation>> /\ desired' = {} /\ registered' = {} BY <1>1
  <2> QED BY <1>2, <2>1, <2>2, <2>3, <2>4, <2>5, <2>6 DEF WatcherInv, WatcherTyped
<1>4. Shares'
  <2>1. \A s \in ObjectSets : Present(s)' = {} BY <1>1 DEF Present
  <2> QED BY <1>1, <2>1, FS_EmptySet DEF Shares
<1>5. Errors' /\ Resting' /\ Requests' BY <1>1 DEF Errors, Resting, Requests, Unmapped
<1>6. Answering' /\ Shown' BY <1>1 DEF Answering, Shown
<1>7. Bounded' BY <1>1, <1>2 DEF Bounded, WatcherInv
<1> QED BY <1>3, <1>4, <1>5, <1>6, <1>7 DEF WatcherInv

\* Nothing is open and nothing is under way when a session is lost.
LEMMA DisconnectedKeeps ==
  ASSUME WatcherInv, NEW why \in {"closed", "qos"}, Disconnected(why),
         UNCHANGED <<plot, desired, shared, told, version, generation>>,
         spentOn' \in [Counted -> Nat], spentOn'["change"] = spentOn["change"]
  PROVE  WatcherInv'
<1>1. /\ session' = "sleeping" /\ asked' = Unasked /\ listening' = FALSE /\ queued' = <<>>
      /\ mapping' = Unmapped /\ registered' = {} /\ wire' = <<>>
      /\ \A c \in Consumers : status'[c] = IF status[c] # "off" /\ SetOf[c] \in desired THEN why ELSE status[c]
      /\ DOMAIN status' = Consumers
      /\ status' = [c \in Consumers |-> status'[c]]
  BY DEF Disconnected, Tell
<1>2. status \in [Consumers -> Statuses] /\ SetOf \in [Consumers -> ObjectSets] BY WatcherAssumption DEF WatcherInv, WatcherTyped
<1>3. status' \in [Consumers -> Statuses]
  <2>1. \A c \in Consumers : status'[c] \in Statuses BY <1>1, <1>2 DEF Statuses
  <2> QED BY <1>1, <2>1
<1>4. WatcherTyped'
  <2>1. asked' \in [busy : BOOLEAN, sets : SUBSET ObjectSets] BY <1>1 DEF Unasked
  <2>2. mapping' \in [generation : 0..1, sets : SUBSET ObjectSets] BY <1>1 DEF Unmapped
  <2>3. wire' \in Seq(ServerMessages) /\ queued' \in Seq(SUBSET ObjectSets) BY <1>1
  <2>4. listening' \in BOOLEAN /\ session' \in {"sleeping", "connected", "stopped"} BY <1>1
  <2>5. registered' = {} BY <1>1
  <2> QED BY <1>3, <2>1, <2>2, <2>3, <2>4, <2>5 DEF WatcherInv, WatcherTyped
<1>5. Shares'
  <2>1. \A c \in Consumers : status'[c] = "off" <=> status[c] = "off" BY <1>1
  <2>2. \A s \in ObjectSets : Present(s)' = Present(s) BY <2>1, SameConsumers
  <2>3. desired \subseteq ObjectSets BY DEF WatcherInv, WatcherTyped
  <2>4. ASSUME NEW s \in ObjectSets \ desired, NEW c \in Present(s) PROVE status'[c] = "error"
    <3>1. c \in Consumers /\ SetOf[c] = s /\ status[c] = "error" BY <2>4 DEF Present, WatcherInv, Shares
    <3> QED BY <1>1, <2>4, <3>1
  <2> QED BY <2>2, <2>3, <2>4 DEF Shares, WatcherInv
<1>6. \A c \in Consumers : status'[c] # "open"
  <2>1. ASSUME NEW c \in Consumers, status[c] = "open" PROVE SetOf[c] \in desired
    <3>1. c \in Present(SetOf[c]) BY <2>1 DEF Present
    <3> QED BY <1>2, <2>1, <3>1 DEF WatcherInv, Shares
  <2> QED BY <1>1, <2>1
<1>7. Errors' BY <1>1 DEF Errors, Unmapped, WatcherInv
<1>8. Resting' /\ Requests' BY <1>1, <1>6 DEF Resting, Requests
<1>9. Answering' /\ Shown' BY <1>1, <1>6 DEF Answering, Shown
<1>10. Bounded' BY <1>1 DEF Bounded, WatcherInv
<1> QED BY <1>4, <1>5, <1>7, <1>8, <1>9, <1>10 DEF WatcherInv

LEMMA ConnectionLostKeeps ==
  ASSUME WatcherInv, ConnectionLost
  PROVE  WatcherInv'
<1>1. /\ spentOn' \in [Counted -> Nat] /\ spentOn'["change"] = spentOn["change"]
  BY Spent DEF Counted, WatcherInv, ConnectionLost
<1> QED BY <1>1, DisconnectedKeeps DEF ConnectionLost

LEMMA OpenConnectionKeeps ==
  ASSUME WatcherInv, OpenConnection
  PROVE  WatcherInv'
<1>1. /\ session = "sleeping" /\ session' = "connected" /\ asked' = [busy |-> TRUE, sets |-> desired]
      /\ generation' = 0
      /\ UNCHANGED <<plot, desired, shared, status, told, listening, queued, mapping, version, registered, wire, spentOn>>
  BY DEF OpenConnection, local
<1>2. /\ wire = <<>> /\ mapping.generation = 0 /\ ~listening BY <1>1 DEF WatcherInv, Resting, Unmapped
<1>3. WatcherTyped' BY <1>1 DEF WatcherInv, WatcherTyped
<1>4. Shares' BY <1>1 DEF WatcherInv, Shares, Present
<1>5. Errors' /\ Resting' /\ Requests' BY <1>1, <1>2 DEF WatcherInv, Errors, Resting, Requests
<1>6. Answering' /\ Shown' BY <1>1, <1>2 DEF Answering, Shown
<1>7. Bounded' BY <1>1 DEF Bounded, WatcherInv
<1> QED BY <1>3, <1>4, <1>5, <1>6, <1>7 DEF WatcherInv

\* A request is made while none is under way.
LEMMA AskedKeeps ==
  ASSUME WatcherInv, listening, ~asked.busy, asked'.busy, Requests',
         asked' \in [busy : BOOLEAN, sets : SUBSET ObjectSets], queued' \in Seq(SUBSET ObjectSets),
         UNCHANGED <<plot, desired, shared, status, told, session, listening, mapping, version, registered,
                     generation, wire, spentOn>>
  PROVE  WatcherInv'
<1>1. WatcherTyped' BY DEF WatcherInv, WatcherTyped
<1>2. Shares' BY DEF WatcherInv, Shares, Present
<1>3. Errors' /\ Resting' BY DEF WatcherInv, Errors, Resting
<1>4. \A i \in 1..Len(wire) : wire[i].type # "answer" BY DEF WatcherInv, Answering, AnswersAsked
<1>5. Answering' BY <1>4 DEF WatcherInv, Answering
<1>6. Shown' /\ Bounded' BY DEF WatcherInv, Shown, Bounded
<1> QED BY <1>1, <1>2, <1>3, <1>5, <1>6 DEF WatcherInv

LEMMA SendChangeKeeps ==
  ASSUME WatcherInv, SendChange
  PROVE  WatcherInv'
<1>1. /\ listening /\ ~asked.busy /\ queued # <<>>
      /\ asked' = [busy |-> TRUE, sets |-> Head(queued)] /\ queued' = Tail(queued)
      /\ UNCHANGED <<plot, desired, shared, status, told, session, listening, mapping, version, registered,
                     generation, wire, spentOn>>
  BY DEF SendChange, local, server
<1>2. queued \in Seq(SUBSET ObjectSets) /\ queued[Len(queued)] = desired
  BY <1>1 DEF WatcherInv, WatcherTyped, Requests
<1>3. /\ Head(queued) \in SUBSET ObjectSets /\ Head(queued) = queued[1] /\ queued' \in Seq(SUBSET ObjectSets)
      /\ Len(queued') = Len(queued) - 1 /\ Len(queued) \in Nat /\ Len(queued) > 0
      /\ \A i \in 1..Len(queued') : queued'[i] = queued[i + 1]
      /\ (queued' = <<>> <=> Len(queued') = 0)
  BY <1>1, <1>2, TailOf
<1>4. Requests'
  <2>1. CASE queued' = <<>> BY <1>1, <1>2, <1>3, <2>1 DEF Requests
  <2>2. CASE queued' # <<>>
    <3>1. Len(queued') \in 1..Len(queued') /\ Len(queued') + 1 = Len(queued) BY <1>3, <2>2
    <3>2. queued'[Len(queued')] = desired BY <1>2, <1>3, <3>1
    <3> QED BY <1>1, <2>2, <3>2 DEF Requests
  <2> QED BY <2>1, <2>2
<1>5. asked' \in [busy : BOOLEAN, sets : SUBSET ObjectSets] /\ asked'.busy BY <1>1, <1>3
<1> QED BY <1>1, <1>3, <1>4, <1>5, AskedKeeps

LEMMA HeartbeatKeeps ==
  ASSUME WatcherInv, Heartbeat
  PROVE  WatcherInv'
<1>1. /\ listening /\ ~asked.busy /\ queued = <<>> /\ asked' = [busy |-> TRUE, sets |-> desired]
      /\ UNCHANGED <<plot, desired, shared, status, told, session, listening, queued, mapping, version, registered,
                     generation, wire, spentOn>>
  BY DEF Heartbeat, local, server
<1>2. queued \in Seq(SUBSET ObjectSets) /\ desired \subseteq ObjectSets BY DEF WatcherInv, WatcherTyped
<1>3. asked' \in [busy : BOOLEAN, sets : SUBSET ObjectSets] /\ asked'.busy /\ asked'.sets = desired BY <1>1, <1>2
<1>4. Requests' BY <1>1, <1>3 DEF Requests
<1> QED BY <1>1, <1>2, <1>3, <1>4, AskedKeeps

\* After its answer, who is shown as open is what the last request asked for.
LEMMA ReceiveAnswerKeeps ==
  ASSUME WatcherInv, ReceiveAnswer
  PROVE  WatcherInv'
<1> DEFINE answer == Head(wire)
           refused == {s \in Refused(answer, "error") : shared[s] > 0}
<1>1. /\ wire # <<>> /\ answer.type = "answer" /\ Refused(answer, "qos") = {}
      /\ mapping' = [generation |-> answer.generation, sets |-> Opened(answer)]
      /\ status' = [c \in Consumers |-> IF SetOf[c] \in refused THEN Tell(refused, "error")[c]
                                        ELSE Tell(Opened(answer), "open")[c]]
      /\ told' = Look(Opened(answer), answer.versions) /\ desired' = desired \ refused
      /\ queued' \in {queued, IF refused = {} THEN queued ELSE Append(queued, desired')}
      /\ (listening /\ refused # {} => queued' # queued)
      /\ asked' = Unasked /\ listening' = TRUE /\ wire' = Tail(wire)
      /\ UNCHANGED <<plot, shared, session, version, registered, generation, spentOn>>
  BY DEF ReceiveAnswer, Mapped, server
<1>2. /\ wire \in Seq(ServerMessages) /\ answer = wire[1] /\ answer \in ServerMessages
      /\ Len(wire) \in Nat /\ Len(wire) > 0 /\ Len(wire') = Len(wire) - 1 /\ wire' \in Seq(ServerMessages)
      /\ \A i \in 1..Len(wire') : wire'[i] = wire[i + 1]
  BY <1>1, Received DEF WatcherInv, WatcherTyped
<1>3. /\ answer.versions \in [ObjectSets -> Nat] /\ answer.generation \in 0..1
      /\ DOMAIN answer.results \subseteq ObjectSets
      /\ \A s \in DOMAIN answer.results : answer.results[s] \in Results
  BY <1>1, <1>2, ServerMessageKinds
<1>4. AnswersAsked(1) BY <1>1, <1>2 DEF WatcherInv, Answering
<1>5. /\ asked.busy /\ answer.generation = generation /\ DOMAIN answer.results = asked.sets
      /\ \A s \in asked.sets : /\ answer.results[s] = "success" => s \notin plot.invalid
                               /\ answer.results[s] = "error" => s \in plot.invalid
                               /\ answer.results[s] = "success" => Fresh(s, 1, answer.versions[s])
      /\ \A j \in 1..Len(wire) : wire[j].type = "answer" => j = 1
  BY <1>2, <1>4 DEF AnswersAsked
<1> DEFINE opened == Opened(answer)
<1>6. /\ opened \subseteq ObjectSets /\ refused \subseteq ObjectSets
      /\ \A s \in asked.sets : s \in opened \/ (s \in plot.invalid /\ (shared[s] > 0 => s \in refused))
      /\ \A s \in opened : s \in asked.sets /\ s \notin plot.invalid /\ Fresh(s, 1, answer.versions[s])
      /\ \A s \in refused : s \in plot.invalid
  BY <1>1, <1>3, <1>5 DEF Opened, Refused, Results
<1>7. /\ status \in [Consumers -> Statuses] /\ told \in [Consumers -> Nat] /\ desired \subseteq ObjectSets
      /\ SetOf \in [Consumers -> ObjectSets] /\ shared \in [ObjectSets -> Nat] /\ queued \in Seq(SUBSET ObjectSets)
  BY WatcherAssumption DEF WatcherInv, WatcherTyped
<1>8. \A c \in Consumers :
        /\ status'[c] = (IF status[c] = "off" THEN "off" ELSE IF SetOf[c] \in refused THEN "error"
                         ELSE IF SetOf[c] \in opened THEN "open" ELSE status[c])
        /\ told'[c] = (IF status[c] # "off" /\ SetOf[c] \in opened THEN answer.versions[SetOf[c]] ELSE told[c])
  BY <1>1 DEF Tell, Look
<1>9. DOMAIN status' = Consumers /\ status' = [c \in Consumers |-> status'[c]]
      /\ DOMAIN told' = Consumers /\ told' = [c \in Consumers |-> told'[c]]
  BY <1>1 DEF Look
<1> DEFINE versions == answer.versions
<1>10. versions \in [ObjectSets -> Nat] BY <1>3
<1>11. /\ asked' = Unasked /\ listening' = TRUE /\ wire' = Tail(wire) /\ wire # <<>>
       /\ mapping'.generation = generation /\ mapping'.sets = opened
       /\ mapping' \in [generation : 0..1, sets : SUBSET ObjectSets]
       /\ desired' = desired \ refused
       /\ queued' \in {queued, IF refused = {} THEN queued ELSE Append(queued, desired')}
       /\ (listening /\ refused # {} => queued' # queued)
       /\ UNCHANGED <<plot, shared, session, version, registered, generation, spentOn>>
  BY <1>1, <1>3, <1>5, <1>6
<1> HIDE DEF answer, refused, opened, versions
<1>12. \A c \in Consumers : status[c] # "off" => shared[SetOf[c]] > 0
  <2>1. ASSUME NEW c \in Consumers, status[c] # "off" PROVE shared[SetOf[c]] > 0
    <3>1. c \in Present(SetOf[c]) BY <2>1 DEF Present
    <3>2. IsFiniteSet(Present(SetOf[c])) BY WatcherAssumption, FS_Subset DEF Present
    <3>3. Cardinality(Present(SetOf[c])) # 0 /\ Cardinality(Present(SetOf[c])) \in Nat
      BY <3>1, <3>2, FS_EmptySet, FS_CardinalityType
    <3> QED BY <1>7, <3>3 DEF WatcherInv, Shares
  <2> QED BY <2>1
<1>13. \A c \in Consumers : status[c] \notin {"off", "error"} => SetOf[c] \in desired
  BY <1>7 DEF Present, WatcherInv, Shares
<1>14. WatcherTyped'
  <2>1. status' \in [Consumers -> Statuses]
    <3>1. \A c \in Consumers : status'[c] \in Statuses BY <1>7, <1>8 DEF Statuses
    <3> QED BY <1>9, <3>1
  <2>2. told' \in [Consumers -> Nat]
    <3>1. \A c \in Consumers : told'[c] \in Nat BY <1>7, <1>8, <1>10 DEF versions
    <3> QED BY <1>9, <3>1
  <2>3. queued' \in Seq(SUBSET ObjectSets) /\ desired' \subseteq ObjectSets
    <3>1. desired' \in SUBSET ObjectSets BY <1>7, <1>11
    <3>2. Append(queued, desired') \in Seq(SUBSET ObjectSets) BY <1>7, <3>1, AppendOf
    <3> QED BY <1>7, <1>11, <3>1, <3>2
  <2>4. asked' \in [busy : BOOLEAN, sets : SUBSET ObjectSets] BY <1>11 DEF Unasked
  <2> QED BY <1>2, <1>11, <2>1, <2>2, <2>3, <2>4 DEF WatcherInv, WatcherTyped
<1>15. Shares'
  <2>1. \A c \in Consumers : status'[c] = "off" <=> status[c] = "off" BY <1>8
  <2>2. \A s \in ObjectSets : Present(s)' = Present(s) BY <2>1, SameConsumers
  <2>3. ASSUME NEW s \in ObjectSets \ desired', NEW c \in Present(s) PROVE status'[c] = "error"
    <3>1. c \in Consumers /\ SetOf[c] = s /\ status[c] # "off" BY <2>3 DEF Present
    <3>2. CASE s \in refused BY <1>8, <3>1, <3>2
    <3>3. CASE s \notin refused
      <4>1. status[c] = "error" BY <1>11, <2>3, <3>1, <3>3 DEF WatcherInv, Shares
      <4>2. s \in plot.invalid BY <3>1, <4>1 DEF WatcherInv, Errors
      <4> QED BY <1>6, <1>8, <3>1, <3>3, <4>1, <4>2
    <3> QED BY <3>2, <3>3
  <2> QED BY <1>7, <1>11, <2>2, <2>3 DEF Shares, WatcherInv
<1>16. Errors' BY <1>6, <1>8, <1>11 DEF Errors, WatcherInv
<1>17. Resting'
  <2>1. session = "connected" BY <1>5 DEF WatcherInv, Resting, Unasked
  <2> QED BY <1>11, <2>1 DEF Resting
<1>18. Requests'
  <2>1. asked'.busy = FALSE BY <1>11 DEF Unasked
  <2>2. CASE queued' = queued
    <3>1. queued # <<>> => listening BY DEF WatcherInv, Resting
    <3>2. queued # <<>> => desired' = desired BY <1>11, <2>2, <3>1
    <3> QED BY <2>1, <2>2, <3>1, <3>2 DEF Requests, WatcherInv
  <2>3. CASE queued' = Append(queued, desired')
    <3>1. queued'[Len(queued')] = desired' BY <1>7, <1>11, <2>3
    <3> QED BY <2>1, <3>1 DEF Requests
  <2> QED BY <1>11, <2>2, <2>3
<1>19. Answering'
  <2>1. \A i \in 1..Len(wire') : wire'[i].type # "answer" BY <1>2, <1>5
  <2> QED BY <1>11, <2>1 DEF Answering
<1>20. Shown'
  <2>1. ASSUME NEW c \in Consumers, status'[c] = "open" PROVE SetOf[c] \in mapping'.sets => Fresh(SetOf[c], 0, told[c])'
    <3>1. CASE SetOf[c] \in opened
      <4>1. status[c] # "off" BY <1>8, <2>1
      <4>2. PICK v : v = versions[SetOf[c]] OBVIOUS
      <4>3. told'[c] = v BY <1>8, <3>1, <4>1, <4>2 DEF versions
      <4>4. Fresh(SetOf[c], 1, v) BY <1>6, <3>1, <4>2 DEF versions
      <4>5. 0 \in 0..(Len(wire) - 1) /\ 0 + 1 = 1 BY <1>2
      <4>6. Fresh(SetOf[c], 0, v)' BY <1>2, <1>7, <1>11, <4>4, <4>5, FreshMoves
      <4> QED BY <4>3, <4>6 DEF Fresh
    <3>2. CASE SetOf[c] \notin opened BY <1>11, <3>2
    <3> QED BY <3>1, <3>2
  <2>2. ASSUME NEW c \in Consumers, status'[c] = "open", queued' = <<>> PROVE SetOf[c] \in mapping'.sets
    <3>1. CASE SetOf[c] \in opened BY <1>11, <3>1
    <3>2. CASE SetOf[c] \notin opened
      <4>1. status[c] = "open" /\ SetOf[c] \notin refused BY <1>8, <2>2, <3>2
      <4>2. listening BY <4>1 DEF WatcherInv, Resting
      <4>3. queued = <<>>
        <5>1. desired' \in SUBSET ObjectSets BY <1>7, <1>11
        <5>2. Append(queued, desired') # <<>> BY <1>7, <5>1, AppendOf
        <5> QED BY <1>11, <2>2, <5>2
      <4>4. asked.sets = desired BY <1>5, <4>2, <4>3 DEF WatcherInv, Requests
      <4>5. SetOf[c] \in asked.sets /\ shared[SetOf[c]] > 0 BY <1>12, <1>13, <4>1, <4>4
      <4> QED BY <1>6, <3>2, <4>1, <4>5
    <3> QED BY <3>1, <3>2
  <2> QED BY <2>1, <2>2 DEF Shown
<1>21. Bounded'
  <2>1. \A s \in ObjectSets : versions[s] <= spentOn["change"]
    <3>1. 1 \in 1..Len(wire) /\ wire[1].type = "answer" BY <1>1, <1>2 DEF answer
    <3> QED BY <1>2, <3>1 DEF WatcherInv, Bounded, versions
  <2>2. \A c \in Consumers : told'[c] <= spentOn["change"] BY <1>7, <1>8, <2>1 DEF versions, WatcherInv, Bounded
  <2> QED BY <1>11, <2>2, BoundedMoves DEF WatcherInv
<1> QED BY <1>14, <1>15, <1>16, <1>17, <1>18, <1>19, <1>20, <1>21 DEF WatcherInv

LEMMA ReceiveQosKeeps ==
  ASSUME WatcherInv, ReceiveQos
  PROVE  WatcherInv'
  BY DisconnectedKeeps DEF ReceiveQos, WatcherInv, WatcherTyped

LEMMA ReceiveChangeKeeps ==
  ASSUME WatcherInv, ReceiveChange
  PROVE  WatcherInv'
<1> DEFINE m == Head(wire)
<1>1. /\ wire # <<>> /\ m.type = "change" /\ wire' = Tail(wire)
      /\ told' = IF Known(m) THEN Look({m.set}, [s \in ObjectSets |-> m.version]) ELSE told
      /\ UNCHANGED <<plot, desired, shared, status, session, asked, listening, queued, mapping, version, registered,
                     generation, spentOn>>
  BY DEF ReceiveChange, local, connection, server
<1>2. /\ wire \in Seq(ServerMessages) /\ m = wire[1] /\ m \in ServerMessages /\ wire' \in Seq(ServerMessages)
      /\ Len(wire) \in Nat /\ Len(wire) > 0
  BY <1>1, Received DEF WatcherInv, WatcherTyped
<1>3. m.set \in ObjectSets /\ m.version \in Nat /\ m.version <= spentOn["change"]
  BY <1>1, <1>2, ServerMessageKinds DEF WatcherInv, Bounded
<1>4. /\ told \in [Consumers -> Nat] /\ told' \in [Consumers -> Nat]
      /\ \A c \in Consumers :
           told'[c] = (IF Known(m) /\ status[c] # "off" /\ SetOf[c] = m.set THEN m.version ELSE told[c])
  <2>1. told \in [Consumers -> Nat] BY DEF WatcherInv, WatcherTyped
  <2>2. CASE Known(m)
    <3>1. told' = [c \in Consumers |-> IF status[c] # "off" /\ SetOf[c] \in {m.set} THEN m.version ELSE told[c]]
      BY <1>1, <1>3, <2>2, WatcherAssumption DEF Look
    <3> QED BY <1>3, <2>1, <2>2, <3>1
  <2>3. CASE ~Known(m) BY <1>1, <2>1, <2>3
  <2> QED BY <2>2, <2>3
<1>5. Known(m) <=> m.generation = mapping.generation /\ m.set \in mapping.sets BY DEF Known
<1> HIDE DEF m
<1>6. WatcherTyped' BY <1>1, <1>2, <1>4 DEF WatcherInv, WatcherTyped
<1>7. Shares' BY <1>1 DEF WatcherInv, Shares, Present
<1>8. session = "connected" BY <1>1 DEF WatcherInv, Resting
<1>9. Errors' /\ Resting' /\ Requests' BY <1>1, <1>8 DEF WatcherInv, Errors, Resting, Requests
<1>10. Answering' BY <1>1, <1>2, AnsweringMoves DEF WatcherInv
<1>11. Shown'
  <2>1. ASSUME NEW c \in Consumers, ~asked.busy, status[c] = "open", SetOf[c] \in mapping.sets
        PROVE  Fresh(SetOf[c], 0, told[c])'
    <3>1. SetOf[c] \in ObjectSets /\ Fresh(SetOf[c], 0, told[c]) BY <2>1, WatcherAssumption DEF WatcherInv, Shown
    <3>2. mapping.generation = generation BY <1>8, <2>1 DEF WatcherInv, Answering, AnswersAsked
    <3>3. PICK v : v = told'[c] OBVIOUS
    <3>4. Fresh(SetOf[c], 1, v)
      <4>1. CASE Known(m) /\ SetOf[c] = m.set
        <5>1. v = wire[1].version BY <1>2, <1>4, <2>1, <3>3, <4>1
        <5> QED BY <1>1, <1>2, <1>5, <3>1, <3>2, <4>1, <5>1, FreshTold
      <4>2. CASE ~(Known(m) /\ SetOf[c] = m.set)
        <5>1. v = told[c] BY <1>4, <3>3, <4>2
        <5>2. ~(wire[1].generation = generation /\ wire[1].set = SetOf[c]) BY <1>2, <1>5, <2>1, <3>2, <4>2
        <5> QED BY <1>1, <1>2, <3>1, <5>1, <5>2, FreshBehind
      <4> QED BY <4>1, <4>2
    <3>5. 0 \in 0..(Len(wire) - 1) /\ 0 + 1 = 1 BY <1>2
    <3>6. Fresh(SetOf[c], 0, v)' BY <1>1, <1>2, <3>1, <3>4, <3>5, FreshMoves
    <3> QED BY <3>3, <3>6 DEF Fresh
  <2> QED BY <1>1, <2>1 DEF Shown, WatcherInv
<1>12. Bounded'
  <2>1. \A c \in Consumers : told'[c] <= spentOn["change"] BY <1>3, <1>4 DEF WatcherInv, Bounded
  <2> QED BY <1>1, <2>1, BoundedMoves DEF WatcherInv
<1> QED BY <1>6, <1>7, <1>9, <1>10, <1>11, <1>12 DEF WatcherInv

LEMMA ReceiveClosedKeeps ==
  ASSUME WatcherInv, ReceiveClosed
  PROVE  WatcherInv'
<1> DEFINE m == Head(wire)
<1>1. /\ wire # <<>> /\ m.type = "closed" /\ wire' = Tail(wire)
      /\ status' = IF Known(m) THEN Tell({m.set}, "closed") ELSE status
      /\ UNCHANGED <<plot, desired, shared, told, session, asked, listening, queued, mapping, version, registered,
                     generation, spentOn>>
  BY DEF ReceiveClosed, connection, server
<1>2. /\ wire \in Seq(ServerMessages) /\ m = wire[1] /\ m \in ServerMessages /\ wire' \in Seq(ServerMessages)
      /\ Len(wire) \in Nat /\ Len(wire) > 0
  BY <1>1, Received DEF WatcherInv, WatcherTyped
<1>3. /\ status \in [Consumers -> Statuses] /\ status' \in [Consumers -> Statuses]
      /\ \A c \in Consumers :
           status'[c] = (IF Known(m) /\ status[c] # "off" /\ SetOf[c] = m.set THEN "closed" ELSE status[c])
  <2>1. status \in [Consumers -> Statuses] BY DEF WatcherInv, WatcherTyped
  <2>2. CASE Known(m)
    <3>1. status' = [c \in Consumers |-> IF status[c] # "off" /\ SetOf[c] \in {m.set} THEN "closed" ELSE status[c]]
      BY <1>1, <2>2 DEF Tell
    <3> QED BY <2>1, <2>2, <3>1 DEF Statuses
  <2>3. CASE ~Known(m) BY <1>1, <2>1, <2>3
  <2> QED BY <2>2, <2>3
<1>4. Known(m) <=> m.generation = mapping.generation /\ m.set \in mapping.sets BY DEF Known
<1> HIDE DEF m
<1>5. WatcherTyped' BY <1>1, <1>2, <1>3 DEF WatcherInv, WatcherTyped
<1>6. Shares'
  <2>1. \A c \in Consumers : status'[c] = "off" <=> status[c] = "off" BY <1>3
  <2>2. \A s \in ObjectSets : Present(s)' = Present(s) BY <2>1, SameConsumers
  <2>3. ASSUME NEW s \in ObjectSets \ desired, NEW c \in Present(s) PROVE status'[c] = "error"
    <3>1. c \in Consumers /\ SetOf[c] = s /\ status[c] = "error" BY <2>3 DEF Present, WatcherInv, Shares
    <3>2. s \notin mapping.sets BY <3>1 DEF WatcherInv, Errors
    <3> QED BY <1>3, <1>4, <3>1, <3>2
  <2>4. desired \subseteq ObjectSets BY DEF WatcherInv, WatcherTyped
  <2> QED BY <1>1, <2>2, <2>3, <2>4 DEF Shares, WatcherInv
<1>7. session = "connected" BY <1>1 DEF WatcherInv, Resting
<1>8. Errors' /\ Resting' /\ Requests' BY <1>1, <1>3, <1>7 DEF WatcherInv, Errors, Resting, Requests
<1>9. Answering' BY <1>1, <1>2, AnsweringMoves DEF WatcherInv
<1>10. Shown'
  <2>1. ASSUME NEW c \in Consumers, ~asked.busy, status'[c] = "open"
        PROVE  /\ SetOf[c] \in mapping.sets => Fresh(SetOf[c], 0, told[c])'
               /\ queued = <<>> => SetOf[c] \in mapping.sets
    <3>1. status[c] = "open" /\ ~(Known(m) /\ SetOf[c] = m.set) BY <1>3, <2>1
    <3>2. mapping.generation = generation BY <1>7, <2>1 DEF WatcherInv, Answering, AnswersAsked
    <3>3. ASSUME SetOf[c] \in mapping.sets PROVE Fresh(SetOf[c], 0, told[c])'
      <4>1. SetOf[c] \in ObjectSets /\ Fresh(SetOf[c], 0, told[c])
        BY <2>1, <3>1, <3>3, WatcherAssumption DEF WatcherInv, Shown
      <4>2. ~(wire[1].generation = generation /\ wire[1].set = SetOf[c]) BY <1>2, <1>4, <3>1, <3>2, <3>3
      <4>3. PICK v : v = told[c] OBVIOUS
      <4>4. Fresh(SetOf[c], 1, v) BY <1>1, <1>2, <4>1, <4>2, <4>3, FreshBehind
      <4>5. 0 \in 0..(Len(wire) - 1) /\ 0 + 1 = 1 BY <1>2
      <4>6. Fresh(SetOf[c], 0, v)' BY <1>1, <1>2, <4>1, <4>4, <4>5, FreshMoves
      <4> QED BY <1>1, <4>3, <4>6 DEF Fresh
    <3> QED BY <2>1, <3>1, <3>3 DEF WatcherInv, Shown
  <2> QED BY <1>1, <2>1 DEF Shown
<1>11. Bounded' BY <1>1, BoundedMoves DEF WatcherInv, Bounded
<1> QED BY <1>5, <1>6, <1>8, <1>9, <1>10, <1>11 DEF WatcherInv

----------------------------------------------------------------------------
(* The watcher: foundry *)

\* What the server sends on its own leaves everybody's news where it was.
LEMMA ServerKeeps ==
  ASSUME WatcherInv,
         UNCHANGED <<plot, desired, shared, status, told, session, asked, listening, queued, mapping, generation>>,
         \/ wire' = wire /\ (session # "connected" => registered' = {})
         \/ session = "connected" /\ \E m \in ServerMessages : m.type # "answer" /\ wire' = Append(wire, m)
              /\ (m.type = "change" => m.version <= spentOn'["change"]),
         version' \in [ObjectSets -> Nat], registered' \subseteq ObjectSets,
         spentOn' \in [Counted -> Nat], spentOn["change"] <= spentOn'["change"], spentOn'["change"] <= plot["change"],
         \A s \in ObjectSets : version'[s] <= spentOn'["change"],
         \A s \in ObjectSets, v \in Nat : \A i \in 0..Len(wire) : Fresh(s, i, v) => Fresh(s, i, v)'
  PROVE  WatcherInv'
<1>1. /\ wire \in Seq(ServerMessages) /\ wire' \in Seq(ServerMessages) /\ Len(wire) \in Nat /\ Len(wire') \in Nat
      /\ Len(wire) <= Len(wire') /\ (session # "connected" => wire' = wire)
      /\ \A i \in 1..Len(wire) : wire'[i] = wire[i] /\ i \in 1..Len(wire')
      /\ \A i \in 1..Len(wire') :
           \/ i \in 1..Len(wire)
           \/ wire'[i].type # "answer" /\ (wire'[i].type = "change" => wire'[i].version <= spentOn'["change"])
  <2>1. wire \in Seq(ServerMessages) /\ Len(wire) \in Nat BY DEF WatcherInv, WatcherTyped
  <2>2. CASE wire' = wire BY <2>1, <2>2
  <2>3. ASSUME NEW m \in ServerMessages, m.type # "answer" /\ wire' = Append(wire, m)
                 /\ (m.type = "change" => m.version <= spentOn'["change"]), session = "connected"
        PROVE  /\ wire' \in Seq(ServerMessages) /\ Len(wire') \in Nat /\ Len(wire) <= Len(wire')
               /\ \A i \in 1..Len(wire) : wire'[i] = wire[i] /\ i \in 1..Len(wire')
               /\ \A i \in 1..Len(wire') :
                    \/ i \in 1..Len(wire)
                    \/ wire'[i].type # "answer" /\ (wire'[i].type = "change" => wire'[i].version <= spentOn'["change"])
    <3>1. /\ wire' \in Seq(ServerMessages) /\ Len(wire') = Len(wire) + 1
          /\ wire'[Len(wire) + 1] = m /\ \A i \in 1..Len(wire) : wire'[i] = wire[i]
      BY <2>1, <2>3, Sent
    <3> QED BY <2>1, <2>3, <3>1
  <2> QED BY <2>1, <2>2, <2>3
<1>2. /\ version \in [ObjectSets -> Nat] /\ told \in [Consumers -> Nat] /\ spentOn["change"] \in Nat
      /\ spentOn'["change"] \in Nat
  BY DEF WatcherInv, WatcherTyped, Counted
<1>3. WatcherTyped' BY <1>1 DEF WatcherInv, WatcherTyped
<1>4. Shares' BY DEF WatcherInv, Shares, Present
<1>5. Errors' /\ Requests' BY DEF WatcherInv, Errors, Requests
<1>6. Resting' BY <1>1 DEF WatcherInv, Resting
<1>7. Answering'
  <2>1. ASSUME NEW i \in 1..Len(wire'), wire'[i].type = "answer" PROVE AnswersAsked(i)'
    <3>1. i \in 1..Len(wire) /\ wire'[i] = wire[i] /\ wire[i].type = "answer" BY <1>1, <2>1
    <3>2. AnswersAsked(i) BY <3>1 DEF WatcherInv, Answering
    <3>3. ASSUME NEW s \in asked.sets, wire[i].results[s] = "success" PROVE Fresh(s, i, wire[i].versions[s])'
      <4>1. s \in ObjectSets BY DEF WatcherInv, WatcherTyped
      <4>2. wire[i].versions \in [ObjectSets -> Nat] BY <1>1, <3>1, ServerMessageKinds
      <4>3. PICK v \in Nat : v = wire[i].versions[s] BY <4>1, <4>2
      <4>4. Fresh(s, i, v) BY <3>2, <3>3, <4>3 DEF AnswersAsked
      <4>5. i \in 0..Len(wire) BY <1>1, <3>1
      <4>6. Fresh(s, i, v)' BY <4>1, <4>4, <4>5
      <4> QED BY <3>1, <4>3, <4>6 DEF Fresh
    <3>4. \A j \in 1..Len(wire') : wire'[j].type = "answer" => j = i BY <1>1, <3>2 DEF AnswersAsked
    <3> QED BY <3>1, <3>2, <3>3, <3>4 DEF AnswersAsked
  <2>2. (\A i \in 1..Len(wire') : wire'[i].type # "answer") => \A i \in 1..Len(wire) : wire[i].type # "answer"
    BY <1>1
  <2> QED BY <2>1, <2>2 DEF WatcherInv, Answering
<1>8. Shown'
  <2>1. ASSUME NEW c \in Consumers, ~asked.busy, status[c] = "open", SetOf[c] \in mapping.sets
        PROVE  Fresh(SetOf[c], 0, told[c])'
    <3>1. PICK v \in Nat : v = told[c] BY <1>2
    <3>2. Fresh(SetOf[c], 0, v) /\ SetOf[c] \in ObjectSets /\ 0 \in 0..Len(wire)
      BY <1>1, <2>1, <3>1, WatcherAssumption DEF WatcherInv, Shown
    <3> QED BY <3>1, <3>2 DEF Fresh
  <2> QED BY <2>1 DEF WatcherInv, Shown
<1>9. Bounded'
  <2>1. ASSUME NEW i \in 1..Len(wire')
        PROVE  /\ wire'[i].type = "change" => wire'[i].version <= spentOn'["change"]
               /\ wire'[i].type = "answer" => \A s \in ObjectSets : wire'[i].versions[s] <= spentOn'["change"]
    <3>1. CASE i \in 1..Len(wire)
      <4>1. wire'[i] = wire[i] /\ wire[i] \in ServerMessages BY <1>1, <3>1
      <4>2. /\ wire[i].type = "change" => wire[i].version \in Nat /\ wire[i].version <= spentOn["change"]
            /\ wire[i].type = "answer" => /\ wire[i].versions \in [ObjectSets -> Nat]
                                          /\ \A s \in ObjectSets : wire[i].versions[s] <= spentOn["change"]
        <5>1. /\ wire[i].type = "change" => wire[i].version \in Nat
              /\ wire[i].type = "answer" => wire[i].versions \in [ObjectSets -> Nat]
          BY <4>1, ServerMessageKinds
        <5>2. Bounded BY DEF WatcherInv
        <5> QED BY <3>1, <5>1, <5>2 DEF Bounded
      <4>3. \A n \in Nat : n <= spentOn["change"] => n <= spentOn'["change"] BY <1>2
      <4>4. wire[i].type = "answer" => \A s \in ObjectSets : wire[i].versions[s] <= spentOn'["change"] BY <4>2, <4>3
      <4> QED BY <4>1, <4>2, <4>3, <4>4
    <3>2. CASE i \notin 1..Len(wire) BY <1>1, <2>1, <3>2
    <3> QED BY <3>1, <3>2
  <2>2. \A c \in Consumers : told'[c] <= spentOn'["change"] BY <1>2 DEF WatcherInv, Bounded
  <2> QED BY <2>1, <2>2 DEF Bounded
<1> QED BY <1>3, <1>4, <1>5, <1>6, <1>7, <1>8, <1>9 DEF WatcherInv

LEMMA ChangeKeeps ==
  ASSUME WatcherInv, NEW s \in ObjectSets, Change(s)
  PROVE  WatcherInv'
<1> DEFINE m == [type |-> "change", generation |-> generation, set |-> s, version |-> version[s] + 1]
<1>1. /\ Spend("change") /\ version' = [version EXCEPT ![s] = version[s] + 1]
      /\ wire' = IF s \in registered THEN Append(wire, m) ELSE wire
      /\ UNCHANGED <<plot, desired, shared, status, told, session, asked, listening, queued, mapping, registered, generation>>
  BY DEF Change, local, connection
<1>2. /\ spentOn' \in [Counted -> Nat] /\ spentOn["change"] \in Nat /\ spentOn'["change"] = spentOn["change"] + 1
      /\ spentOn'["change"] <= plot["change"]
  BY <1>1, Spent DEF Counted, WatcherInv
<1>3. /\ version \in [ObjectSets -> Nat] /\ wire \in Seq(ServerMessages) /\ registered \subseteq ObjectSets
      /\ generation \in 0..1 /\ Len(wire) \in Nat
  BY DEF WatcherInv, WatcherTyped
<1>4. /\ version' \in [ObjectSets -> Nat] /\ version'[s] = version[s] + 1
      /\ \A t \in ObjectSets : t # s => version'[t] = version[t]
  BY <1>1, <1>3
<1>5. ASSUME NEW t \in ObjectSets PROVE version'[t] <= spentOn'["change"]
  <2>1. version[t] \in Nat /\ version[t] <= spentOn["change"] BY <1>3 DEF WatcherInv, Bounded
  <2>2. CASE t = s BY <1>2, <1>4, <2>1, <2>2
  <2>3. CASE t # s
    <3>1. version'[t] = version[t] BY <1>4, <2>3
    <3> QED BY <1>2, <2>1, <3>1
  <2> QED BY <2>2, <2>3
<1>6. /\ m \in ServerMessages /\ m.type = "change" /\ m.generation = generation /\ m.set = s
      /\ m.version = version'[s]
  BY <1>3, <1>4 DEF ServerMessages, ChangeMessages
<1> HIDE DEF m
<1>7. m.version <= spentOn'["change"] BY <1>5, <1>6
<1>8. s \in registered => session = "connected" BY DEF WatcherInv, Resting
<1>9. ASSUME NEW t \in ObjectSets, NEW v \in Nat, NEW i \in 0..Len(wire), Fresh(t, i, v) PROVE Fresh(t, i, v)'
  <2>1. CASE s \in registered
    <3>1. wire' = Append(wire, m) BY <1>1, <2>1
    <3>2. CASE t = s BY <1>1, <1>3, <1>6, <2>1, <3>1, <3>2, FreshChanged
    <3>3. CASE t # s
      <4>1. version'[t] = version[t] /\ ~(m.type = "change" /\ m.generation = generation /\ m.set = t)
        BY <1>4, <1>6, <3>3
      <4> QED BY <1>1, <1>3, <1>6, <1>9, <3>1, <4>1, FreshStays
    <3> QED BY <3>2, <3>3
  <2>2. CASE s \notin registered
    <3>1. wire' = wire BY <1>1, <2>2
    <3> QED BY <1>1, <1>4, <1>9, <2>2, <3>1 DEF Fresh, Words, EndsAfter
  <2> QED BY <2>1, <2>2
<1>10. session # "connected" => registered' = {} BY <1>1 DEF WatcherInv, Resting
<1>11. spentOn["change"] <= spentOn'["change"] BY <1>2
<1> QED BY <1>1, <1>2, <1>3, <1>4, <1>5, <1>6, <1>7, <1>8, <1>9, <1>10, <1>11, ServerKeeps

LEMMA LateChangeKeeps ==
  ASSUME WatcherInv, NEW s \in ObjectSets, LateChange(s)
  PROVE  WatcherInv'
<1> DEFINE m == [type |-> "change", generation |-> 1 - generation, set |-> s, version |-> version[s]]
<1>1. /\ session = "connected" /\ Spend("late") /\ wire' = Append(wire, m)
      /\ UNCHANGED <<plot, desired, shared, status, told, session, asked, listening, queued, mapping, version,
                     registered, generation>>
  BY DEF LateChange, local, connection, server
<1>2. /\ spentOn' \in [Counted -> Nat] /\ spentOn["change"] \in Nat /\ spentOn'["change"] = spentOn["change"]
      /\ spentOn'["change"] <= plot["change"]
  BY <1>1, Spent DEF Counted, WatcherInv
<1>3. /\ version \in [ObjectSets -> Nat] /\ wire \in Seq(ServerMessages) /\ registered \subseteq ObjectSets
      /\ generation \in 0..1
  BY DEF WatcherInv, WatcherTyped
<1>4. \A t \in ObjectSets : version'[t] <= spentOn'["change"] BY <1>1, <1>2 DEF WatcherInv, Bounded
<1>5. /\ m \in ServerMessages /\ m.type = "change" /\ m.generation # generation /\ m.version <= spentOn'["change"]
  BY <1>1, <1>3, <1>4 DEF ServerMessages, ChangeMessages
<1> HIDE DEF m
<1>6. ASSUME NEW t \in ObjectSets, NEW v \in Nat, NEW i \in 0..Len(wire), Fresh(t, i, v) PROVE Fresh(t, i, v)'
  <2>1. version'[t] = version[t] /\ (t \in registered => t \in registered') BY <1>1
  <2> QED BY <1>1, <1>3, <1>5, <1>6, <2>1, FreshStays
<1>7. spentOn["change"] <= spentOn'["change"] BY <1>2
<1> QED BY <1>1, <1>2, <1>3, <1>4, <1>5, <1>6, <1>7, ServerKeeps

LEMMA CloseSubscriptionKeeps ==
  ASSUME WatcherInv, NEW s \in ObjectSets, Close(s)
  PROVE  WatcherInv'
<1> DEFINE m == [type |-> "closed", generation |-> generation, set |-> s]
<1>1. /\ s \in registered /\ Spend("closed") /\ registered' = registered \ {s} /\ wire' = Append(wire, m)
      /\ UNCHANGED <<plot, desired, shared, status, told, session, asked, listening, queued, mapping, version, generation>>
  BY DEF Close, local, connection
<1>2. /\ spentOn' \in [Counted -> Nat] /\ spentOn["change"] \in Nat /\ spentOn'["change"] = spentOn["change"]
      /\ spentOn'["change"] <= plot["change"]
  BY <1>1, Spent DEF Counted, WatcherInv
<1>3. /\ version \in [ObjectSets -> Nat] /\ wire \in Seq(ServerMessages) /\ registered \subseteq ObjectSets
      /\ generation \in 0..1
  BY DEF WatcherInv, WatcherTyped
<1>4. \A t \in ObjectSets : version'[t] <= spentOn'["change"] BY <1>1, <1>2 DEF WatcherInv, Bounded
<1>5. /\ m \in ServerMessages /\ m.type = "closed" /\ m.generation = generation /\ m.set = s
  BY <1>3 DEF ServerMessages, CloseMessages
<1> HIDE DEF m
<1>6. session = "connected" BY <1>1 DEF WatcherInv, Resting
<1>7. ASSUME NEW t \in ObjectSets, NEW v \in Nat, NEW i \in 0..Len(wire), Fresh(t, i, v) PROVE Fresh(t, i, v)'
  <2>1. version'[t] = version[t] /\ (t = s \/ (t \in registered => t \in registered')) BY <1>1
  <2> QED BY <1>1, <1>3, <1>5, <1>7, <2>1, FreshStays
<1>8. spentOn["change"] <= spentOn'["change"] BY <1>2
<1>9. registered' \subseteq ObjectSets BY <1>1, <1>3
<1> QED BY <1>1, <1>2, <1>3, <1>4, <1>5, <1>6, <1>7, <1>8, <1>9, ServerKeeps

\* The answer is the only one on the wire, and nothing under its new ids is behind it yet.
LEMMA AnswerRequestKeeps ==
  ASSUME WatcherInv, NEW results \in [asked.sets -> Results], AnswerRequest(results),
         \A s \in asked.sets : /\ results[s] = "success" => s \notin plot.invalid
                               /\ results[s] = "error" => s \in plot.invalid,
         spentOn' \in [Counted -> Nat], spentOn'["change"] = spentOn["change"]
  PROVE  WatcherInv'
<1> DEFINE m == [type |-> "answer", generation |-> 1 - generation, results |-> results, versions |-> version]
<1>1. /\ asked.busy /\ \A i \in DOMAIN wire : wire[i].type # "answer"
      /\ registered' = {s \in asked.sets : results[s] = "success"} /\ generation' = 1 - generation
      /\ wire' = Append(wire, m)
      /\ UNCHANGED <<plot, desired, shared, status, told, session, asked, listening, queued, mapping, version>>
  BY DEF AnswerRequest, AwaitsAnswer, local, connection
<1>2. /\ wire \in Seq(ServerMessages) /\ generation \in 0..1 /\ version \in [ObjectSets -> Nat]
      /\ asked.sets \subseteq ObjectSets /\ spentOn["change"] \in Nat
  BY DEF WatcherInv, WatcherTyped, Counted
<1>3. /\ m \in ServerMessages /\ m.type = "answer" /\ m.generation = 1 - generation /\ m.results = results
      /\ m.versions = version
  <2>1. results \in UNION {[S -> Results] : S \in SUBSET ObjectSets} BY <1>2
  <2>2. 1 - generation \in 0..1 BY <1>2
  <2> QED BY <1>2, <2>1, <2>2 DEF ServerMessages, AnswerMessages
<1> HIDE DEF m
<1>4. /\ wire' \in Seq(ServerMessages) /\ Len(wire') = Len(wire) + 1 /\ Len(wire) \in Nat
      /\ wire'[Len(wire')] = m /\ Len(wire') \in 1..Len(wire')
      /\ \A i \in 1..Len(wire') : i = Len(wire') \/ i \in 1..Len(wire)
      /\ \A i \in 1..Len(wire) : wire'[i] = wire[i] /\ wire[i].type # "answer"
  <2>1. /\ wire' \in Seq(ServerMessages) /\ Len(wire') = Len(wire) + 1 /\ Len(wire) \in Nat
        /\ wire'[Len(wire) + 1] = m
        /\ \A i \in 1..Len(wire) : wire'[i] = wire[i]
    BY <1>1, <1>2, <1>3, Sent
  <2>2. DOMAIN wire = 1..Len(wire) BY <1>2, WireMembers
  <2> QED BY <1>1, <2>1, <2>2
<1>5. session = "connected" BY <1>1 DEF WatcherInv, Resting, Unasked
<1>6. mapping.generation = generation BY <1>4, <1>5 DEF WatcherInv, Answering
<1>7. WatcherTyped'
  <2>1. registered' \subseteq ObjectSets /\ generation' \in 0..1 BY <1>1, <1>2
  <2> QED BY <1>1, <1>4, <2>1 DEF WatcherInv, WatcherTyped
<1>8. Shares' BY <1>1 DEF WatcherInv, Shares, Present
<1>9. Errors' /\ Requests' BY <1>1 DEF WatcherInv, Errors, Requests
<1>10. Resting' BY <1>1, <1>5 DEF WatcherInv, Resting
<1>11. Answering'
  <2>1. ASSUME NEW i \in 1..Len(wire'), wire'[i].type = "answer" PROVE AnswersAsked(i)'
    <3>1. i = Len(wire') /\ wire'[i] = m BY <1>4, <2>1
    <3>2. ASSUME NEW s \in asked.sets, results[s] = "success" PROVE Fresh(s, i, version[s])'
      <4>1. Words(s, i)' = {} BY <1>4, <3>1 DEF Words
      <4>2. s \in registered' BY <1>1, <3>2
      <4> QED BY <1>1, <4>1, <4>2 DEF Fresh
    <3>3. \A j \in 1..Len(wire') : wire'[j].type = "answer" => j = i BY <1>4, <3>1
    <3>4. /\ wire'[i].generation = generation' /\ wire'[i].results = results /\ wire'[i].versions = version
          /\ asked' = asked /\ plot' = plot /\ mapping'.generation = 1 - generation'
      BY <1>1, <1>2, <1>3, <1>6, <3>1
    <3>5. \A s \in asked.sets : /\ wire'[i].results[s] = "success" => s \notin plot'.invalid
                                /\ wire'[i].results[s] = "error" => s \in plot'.invalid
      BY <3>4
    <3>6. ASSUME NEW s \in asked.sets, wire'[i].results[s] = "success"
          PROVE  Fresh(s, i, wire[i].versions[s])'
      <4>1. results[s] = "success" /\ wire'[i].versions[s] = version'[s] BY <1>1, <3>4, <3>6
      <4> QED BY <3>2, <4>1 DEF Fresh
    <3>7. asked.busy /\ DOMAIN wire'[i].results = asked.sets BY <1>1, <3>4
    <3> QED BY <3>3, <3>4, <3>5, <3>6, <3>7 DEF AnswersAsked
  <2> QED BY <1>3, <1>4, <2>1 DEF Answering
<1>12. Shown' BY <1>1 DEF Shown
<1>13. Bounded'
  <2>1. ASSUME NEW i \in 1..Len(wire')
        PROVE  /\ wire'[i].type = "change" => wire'[i].version <= spentOn'["change"]
               /\ wire'[i].type = "answer" => \A s \in ObjectSets : wire'[i].versions[s] <= spentOn'["change"]
    <3>1. CASE i = Len(wire') BY <1>3, <1>4, <3>1 DEF WatcherInv, Bounded
    <3>2. CASE i \in 1..Len(wire) BY <1>4, <3>2 DEF WatcherInv, Bounded
    <3> QED BY <1>4, <3>1, <3>2
  <2> QED BY <1>1, <2>1 DEF WatcherInv, Bounded
<1> QED BY <1>7, <1>8, <1>9, <1>10, <1>11, <1>12, <1>13 DEF WatcherInv

LEMMA AcceptKeeps ==
  ASSUME WatcherInv, Accept
  PROVE  WatcherInv'
<1> DEFINE results == [s \in asked.sets |-> ResultOf(s)]
<1>1. results \in [asked.sets -> Results] BY DEF ResultOf, Results
<1>2. \A s \in asked.sets : /\ results[s] = "success" => s \notin plot.invalid
                            /\ results[s] = "error" => s \in plot.invalid
  BY DEF ResultOf
<1>3. AnswerRequest(results) /\ spentOn' = spentOn BY DEF Accept
<1>4. spentOn \in [Counted -> Nat] BY DEF WatcherInv, WatcherTyped
<1> HIDE DEF results
<1> QED BY <1>1, <1>2, <1>3, <1>4, AnswerRequestKeeps

LEMMA ExceedKeeps ==
  ASSUME WatcherInv, NEW s, Exceed(s)
  PROVE  WatcherInv'
<1> DEFINE results == [t \in asked.sets |-> IF t = s THEN "qos" ELSE ResultOf(t)]
<1>1. results \in [asked.sets -> Results] BY DEF ResultOf, Results
<1>2. \A t \in asked.sets : /\ results[t] = "success" => t \notin plot.invalid
                            /\ results[t] = "error" => t \in plot.invalid
  BY DEF ResultOf
<1>3. AnswerRequest(results) /\ Spend("qos") BY DEF Exceed
<1>4. spentOn' \in [Counted -> Nat] /\ spentOn'["change"] = spentOn["change"]
  BY <1>3, Spent DEF Counted, WatcherInv
<1> HIDE DEF results
<1> QED BY <1>1, <1>2, <1>3, <1>4, AnswerRequestKeeps

----------------------------------------------------------------------------
(* The watcher: the theorems *)

LEMMA WatcherStutters ==
  ASSUME WatcherInv, UNCHANGED watcherVars
  PROVE  WatcherInv'
<1>1. UNCHANGED <<plot, desired, shared, status, told, session, asked, listening, queued, mapping, version, registered,
                  generation, wire, spentOn>>
  BY DEF watcherVars, local, connection, server
<1>2. WatcherTyped' BY <1>1 DEF WatcherInv, WatcherTyped
<1>3. Shares' /\ Errors' BY <1>1 DEF WatcherInv, Shares, Present, Errors
<1>4. Resting' /\ Requests' BY <1>1 DEF WatcherInv, Resting, Requests
<1>5. Answering' BY <1>1, AnsweringStays DEF WatcherInv
<1>6. Shown' BY <1>1 DEF WatcherInv, Shown, Fresh, Words, EndsAfter
<1>7. Bounded' BY <1>1 DEF WatcherInv, Bounded
<1> QED BY <1>2, <1>3, <1>4, <1>5, <1>6, <1>7 DEF WatcherInv

LEMMA WatcherNextKeeps ==
  ASSUME WatcherInv, [WatcherNext]_watcherVars
  PROVE  WatcherInv'
<1>1. ASSUME NEW c \in Consumers, Subscribe(c) PROVE WatcherInv' BY <1>1, SubscribeKeeps
<1>2. ASSUME NEW c \in Consumers, Unsubscribe(c) PROVE WatcherInv' BY <1>2, UnsubscribeKeeps
<1>3. CASE Stop BY <1>3, StopKeeps
<1>4. CASE OpenConnection BY <1>4, OpenConnectionKeeps
<1>5. CASE ConnectionLost BY <1>5, ConnectionLostKeeps
<1>6. CASE SendChange BY <1>6, SendChangeKeeps
<1>7. CASE Heartbeat BY <1>7, HeartbeatKeeps
<1>8. CASE Receive
  BY <1>8, ReceiveAnswerKeeps, ReceiveQosKeeps, ReceiveChangeKeeps, ReceiveClosedKeeps DEF Receive
<1>9. CASE Accept BY <1>9, AcceptKeeps
<1>10. ASSUME NEW s \in ObjectSets, Change(s) PROVE WatcherInv' BY <1>10, ChangeKeeps
<1>11. ASSUME NEW s \in ObjectSets, LateChange(s) PROVE WatcherInv' BY <1>11, LateChangeKeeps
<1>12. ASSUME NEW s \in ObjectSets, Close(s) PROVE WatcherInv' BY <1>12, CloseSubscriptionKeeps
<1>13. ASSUME NEW s \in ObjectSets, Exceed(s) PROVE WatcherInv' BY <1>13, ExceedKeeps
<1>14. CASE UNCHANGED watcherVars BY <1>14, WatcherStutters
<1> QED
  BY <1>1, <1>2, <1>3, <1>4, <1>5, <1>6, <1>7, <1>8, <1>9, <1>10, <1>11, <1>12, <1>13, <1>14 DEF WatcherNext

\* The watcher's variables have their types, no consumer is told of a change there was not, the consumers of
\* an object set are counted, and what is consumed is desired or was refused.
THEOREM WatcherTypeCorrect == WatcherSpec => []WatcherTypeOK
<1>1. WatcherInit => WatcherInv BY WatcherInitEstablishes
<1>2. WatcherInv /\ [WatcherNext]_watcherVars => WatcherInv' BY WatcherNextKeeps
<1>3. WatcherInv => WatcherTypeOK
  <2>1. SUFFICES ASSUME WatcherInv PROVE WatcherTypeOK OBVIOUS
  <2>2. /\ plot \in Plots /\ session \in {"sleeping", "connected", "stopped"} /\ listening \in BOOLEAN
        /\ status \in [Consumers -> {"off", "new", "open", "closed", "qos", "error"}]
        /\ generation \in 0..1 /\ registered \subseteq ObjectSets /\ mapping.sets \subseteq ObjectSets
        /\ asked.sets \subseteq ObjectSets
    BY <2>1 DEF WatcherInv, WatcherTyped, Statuses
  <2>3. told \in [Consumers -> 0..plot["change"]]
    <3>1. "change" \in Counted /\ plot["change"] \in Nat /\ spentOn["change"] \in Nat
      BY <2>1, WatcherAssumption DEF WatcherInv, WatcherTyped, Counted
    <3>2. told \in [Consumers -> Nat] BY <2>1 DEF WatcherInv, WatcherTyped
    <3>3. \A c \in Consumers : told[c] \in 0..plot["change"] BY <2>1, <3>1, <3>2 DEF WatcherInv, Bounded
    <3> QED BY <3>2, <3>3
  <2> QED BY <2>1, <2>2, <2>3 DEF WatcherInv, Shares, WatcherTypeOK
<1> QED BY <1>1, <1>2, <1>3, PTL DEF WatcherSpec

\* When nothing is under way between the watcher and Foundry, whoever was told that its object set is open
\* was told of its last change: whatever was lost, late, or ended, and whoever came and went in between.
THEOREM OpenIsUpToDate == WatcherSpec => []NoChangeIsMissed
<1>1. WatcherInit => WatcherInv BY WatcherInitEstablishes
<1>2. WatcherInv /\ [WatcherNext]_watcherVars => WatcherInv' BY WatcherNextKeeps
<1>3. WatcherInv => NoChangeIsMissed
  <2>1. SUFFICES ASSUME WatcherInv, wire = <<>>, ~asked.busy, queued = <<>>, NEW c \in Consumers, status[c] = "open"
                 PROVE  told[c] = version[SetOf[c]]
    BY DEF NoChangeIsMissed
  <2>2. Fresh(SetOf[c], 0, told[c]) BY <2>1 DEF WatcherInv, Shown
  <2>3. Len(wire) = 0 BY <2>1
  <2>4. Words(SetOf[c], 0) = {} /\ ~EndsAfter(SetOf[c], 0) BY <2>3 DEF Words, EndsAfter
  <2> QED BY <2>2, <2>4 DEF Fresh
<1> QED BY <1>1, <1>2, <1>3, PTL DEF WatcherSpec
=============================================================================
