------------------------- MODULE InstallationProofs -------------------------
(***************************************************************************)
(* What holds of Installation for any number of users, keys, callers and   *)
(* live ontologies, and of ActionExecution for any number of attachments,  *)
(* uses and faults.                                                        *)
(***************************************************************************)
EXTENDS Installation, ActionExecution, FiniteSetTheorems, WellFoundedInduction, TLAPS

----------------------------------------------------------------------------
(* The inductive invariant *)

Steps == {"idle", "openings", "parts", "settling", "all", "ended"}
Endings == [call : {"none", "close", "disconnect", "forget", "cleanup"}, user : Users \cup {"none"},
            step : Steps, off : BOOLEAN, failed : BOOLEAN]
OpeningSteps == {"none", "configuring", "recording", "creating", "withdrawing"}
PartSteps == {"none", "waiting", "closing", "erasing", "unrecording", "done"}

Types ==
  /\ connected \subseteq Users /\ disposed \in BOOLEAN
  /\ keyOf \in Seq(OntologyKeys) /\ live \in [OntologyKeys -> 0..Len(keyOf)]
  /\ opening \in [OntologyKeys -> OpeningSteps]
  /\ running \subseteq 1..Len(keyOf) /\ recorded \cup data \subseteq OntologyKeys
  /\ part \in [Callers -> [OntologyKeys -> PartSteps]]
  /\ holds \in [Callers -> [OntologyKeys -> 0..Len(keyOf)]]
  /\ ending \in [Callers -> Endings]

\* The openings that will create a live ontology find room for it.
Creating == {k \in OntologyKeys : opening[k] \in {"configuring", "recording", "creating"}}
Room == Len(keyOf) + Cardinality(Creating) <= Instances

IsLast(i, k) == keyOf[i] = k /\ \A j \in i + 1..Len(keyOf) : keyOf[j] # k

\* A key is not opened while it has a live ontology, and what is cached for it runs and is its own.
Slot(k) ==
  /\ opening[k] # "none" => live[k] = 0
  /\ live[k] # 0 => live[k] \in running /\ keyOf[live[k]] = k
  /\ opening[k] = "withdrawing" => \E i \in 1..Len(keyOf) : IsLast(i, k)

\* A call holds a live ontology of the key while it closes it, which nobody else gets any more.
Holding(q, k) ==
  holds[q][k] # 0 => part[q][k] = "closing" /\ keyOf[holds[q][k]] = k /\ live[k] # holds[q][k]

\* What runs is cached, withdrawn or held.
Accounted(i) ==
  \/ live[keyOf[i]] = i
  \/ opening[keyOf[i]] = "withdrawing" /\ LatestOf(keyOf[i]) = i
  \/ \E q \in Callers : holds[q][keyOf[i]] = i

\* The steps that each call takes, and the parts it has at each of them.
Calling(q) ==
  /\ ending[q].call = "none" <=> ending[q].step = "idle"
  /\ ending[q].step = "openings" => ending[q].call = "forget"
  /\ ending[q].step = "parts" => ending[q].call \in {"close", "disconnect", "forget"}
  /\ ending[q].step \in {"settling", "all"} => ending[q].call = "cleanup"
  /\ \A k \in OntologyKeys :
       /\ ending[q].step \notin {"parts", "ended"} \/ ending[q].call = "cleanup" => part[q][k] = "none"
       /\ ending[q].step = "ended" => part[q][k] \in {"none", "done"}
       /\ part[q][k] # "none" => Owner[k] = ending[q].user
       /\ part[q][k] \in {"erasing", "unrecording"} => ending[q].call = "forget"

\* The cleanup lets nothing be opened, and when it has waited nothing is.
CleaningUp(q) ==
  ending[q].call = "cleanup" =>
    /\ disposed
    /\ ending[q].step \in {"all", "ended"} => \A k \in OntologyKeys : opening[k] = "none"
    /\ ending[q].step = "ended" => \A k \in OntologyKeys : live[k] = 0

\* The record of a partition is there before its data, and as long as a live ontology is cached.
Listed(k) ==
  k \in data \/ live[k] # 0 \/ opening[k] \in {"creating", "withdrawing"} => k \in recorded

\* What a call has closed stays closed until it returns, what it had no part in is closed already,
\* and what it has forgotten is neither opened nor recorded again.
Final(q, k) ==
  /\ part[q][k] \notin {"none", "waiting"} => opening[k] = "none" /\ live[k] = 0
  /\ ending[q].step \in {"parts", "ended"} /\ Owner[k] = ending[q].user =>
       /\ ending[q].call = "disconnect" /\ part[q][k] = "none" => opening[k] = "none" /\ live[k] = 0
       /\ ending[q].call = "forget" =>
            /\ opening[k] = "none"
            /\ part[q][k] = "unrecording" => k \notin data
            /\ part[q][k] = "none" \/ (part[q][k] = "done" /\ ~ending[q].failed) => k \notin recorded

\* A call ends the connection of its user before it returns, and nobody connects meanwhile.
Off(q) ==
  /\ ending[q].off /\ ~ending[q].failed => ending[q].user \notin connected
  /\ ending[q].call \in {"disconnect", "forget"} /\ ending[q].step = "ended" /\ ~ending[q].failed =>
       ending[q].off

Careful ==
  course.careful =>
    /\ \A k \in OntologyKeys : Listed(k)
    /\ \A q \in Callers : Off(q) /\ \A k \in OntologyKeys : Final(q, k)

Inv ==
  /\ Types /\ Room
  /\ \A k \in OntologyKeys : Slot(k)
  /\ \A q \in Callers : Calling(q) /\ CleaningUp(q) /\ \A k \in OntologyKeys : Holding(q, k)
  /\ \A i \in running : Accounted(i)
  /\ Careful

----------------------------------------------------------------------------
(* Openings *)

\* No call works on key k, or has seen to it that k is closed.
Untouched(k) ==
  \A q \in Callers :
    /\ part[q][k] \in {"none", "waiting"}
    /\ ending[q].step \in {"parts", "ended"} /\ Owner[k] = ending[q].user =>
         /\ ending[q].call # "forget"
         /\ ending[q].call = "disconnect" => part[q][k] # "none"

LEMMA OpenedIsUntouched ==
  ASSUME Inv, course.careful, NEW k \in OntologyKeys, opening[k] # "none" \/ MayOpen(k)
  PROVE  Untouched(k)
<1> SUFFICES ASSUME NEW q \in Callers
             PROVE  /\ part[q][k] \in {"none", "waiting"}
                    /\ ending[q].step \in {"parts", "ended"} /\ Owner[k] = ending[q].user =>
                         /\ ending[q].call # "forget"
                         /\ ending[q].call = "disconnect" => part[q][k] # "none"
  BY DEF Untouched
<1>1. Final(q, k) /\ Calling(q)
  BY DEF Inv, Careful
<1>2. CASE opening[k] # "none"
  BY <1>1, <1>2 DEF Final
<1>3. CASE MayOpen(k)
  BY <1>1, <1>3 DEF MayOpen, Calling
<1> QED BY <1>2, <1>3

LEMMA UntouchedIsFinal ==
  ASSUME NEW k \in OntologyKeys, Untouched(k), UNCHANGED <<ending, part>>, NEW q \in Callers
  PROVE  Final(q, k)'
BY DEF Untouched, Final

\* Steps of an opening before there is a live ontology.
Prepares(k, stage) ==
  /\ opening' = [opening EXCEPT ![k] = stage] /\ "withdrawing" \notin {stage, opening[k]}
  /\ UNCHANGED <<course, connected, disposed, live, keyOf, running, ending, part, holds>>
  /\ recorded \subseteq recorded' /\ recorded' \subseteq recorded \cup {k}
  /\ data \subseteq data' /\ data' \subseteq data \cup {k}
  /\ opening[k] # "none" \/ (~disposed /\ live[k] = 0)

LEMMA PreparationKeeps ==
  ASSUME Inv, NEW k \in OntologyKeys, NEW stage \in OpeningSteps, Prepares(k, stage), Room',
         course.careful => /\ k \in data' \/ stage = "creating" => k \in recorded'
                           /\ opening[k] # "none" \/ MayOpen(k)
  PROVE  Inv'
<1>1. Types'
  BY DEF Inv, Types, Prepares
<1>2. ASSUME NEW j \in OntologyKeys PROVE Slot(j)'
  <2>1. Slot(j) /\ Slot(k) BY DEF Inv
  <2> QED BY <2>1 DEF Prepares, Slot, IsLast, Inv, Types
<1>3. ASSUME NEW q \in Callers PROVE Calling(q)' /\ CleaningUp(q)'
  <2>1. Calling(q) /\ CleaningUp(q) BY DEF Inv
  <2>2. Calling(q)' BY <2>1 DEF Prepares, Calling
  <2>3. CleaningUp(q)' BY <2>1 DEF Prepares, CleaningUp, Inv, Types
  <2> QED BY <2>2, <2>3
<1>4. ASSUME NEW q \in Callers, NEW j \in OntologyKeys PROVE Holding(q, j)'
  BY DEF Inv, Holding, Prepares
<1>5. ASSUME NEW i \in running' PROVE Accounted(i)'
  <2>1. i \in running /\ Accounted(i) /\ keyOf[i] \in OntologyKeys BY DEF Prepares, Inv, Types
  <2>2. opening[keyOf[i]] = "withdrawing" => opening'[keyOf[i]] = "withdrawing"
    BY <2>1 DEF Prepares, Inv, Types
  <2>3. LatestOf(keyOf[i])' = LatestOf(keyOf[i]) /\ keyOf' = keyOf BY DEF Prepares, LatestOf
  <2> QED BY <2>1, <2>2, <2>3 DEF Accounted, Prepares
<1>6. ASSUME course.careful PROVE \A j \in OntologyKeys : Listed(j)'
  <2> SUFFICES ASSUME NEW j \in OntologyKeys PROVE Listed(j)' OBVIOUS
  <2>1. Listed(j) /\ Slot(k) BY <1>6 DEF Inv, Careful
  <2> QED BY <1>6, <2>1 DEF Listed, Prepares, Inv, Types, Slot
<1>7. ASSUME course.careful, NEW q \in Callers PROVE Off(q)' /\ \A j \in OntologyKeys : Final(q, j)'
  <2>1. Off(q)' BY <1>7 DEF Inv, Careful, Off, Prepares
  <2>2. Final(q, k)' BY <1>7, OpenedIsUntouched, UntouchedIsFinal DEF Prepares
  <2>3. ASSUME NEW j \in OntologyKeys, j # k PROVE Final(q, j)'
    <3>1. Final(q, j) BY <1>7 DEF Inv, Careful
    <3>2. opening'[j] = opening[j] BY <2>3 DEF Prepares, Inv, Types
    <3> QED BY <2>3, <3>1, <3>2 DEF Final, Prepares
  <2> QED BY <2>1, <2>2, <2>3
<1>8. course' = course BY DEF Prepares
<1> QED BY <1>1, <1>2, <1>3, <1>4, <1>5, <1>6, <1>7, <1>8 DEF Inv, Careful, Prepares

LEMMA CreatingIsFinite == Inv => IsFiniteSet(Creating) /\ Cardinality(Creating) \in Nat
<1>1. Inv => IsFiniteSet(OntologyKeys) BY InstallationAssumption DEF Inv
<1> QED BY <1>1, FS_Subset, FS_CardinalityType DEF Creating

LEMMA OpenKeeps == ASSUME Inv, NEW k \in OntologyKeys, OpenOntology(k) PROVE Inv'
<1>1. /\ opening[k] = "none" /\ ~disposed /\ live[k] = 0 /\ MayOpen(k)
      /\ opening' = [opening EXCEPT ![k] = "configuring"]
      /\ UNCHANGED <<course, connected, disposed, live, keyOf, running, recorded, data, ending, part, holds>>
      /\ Len(keyOf) + Cardinality({j \in OntologyKeys : opening[j] # "none"}) < Instances
  BY DEF OpenOntology, Opens
<1>2. Room'
  <2>1. Creating' = Creating \cup {k} /\ k \notin Creating
    BY <1>1 DEF Creating, Inv, Types
  <2>2. Cardinality(Creating') = Cardinality(Creating) + 1
    BY <2>1, CreatingIsFinite, FS_AddElement
  <2>3. /\ IsFiniteSet({j \in OntologyKeys : opening[j] # "none"})
        /\ Creating \subseteq {j \in OntologyKeys : opening[j] # "none"}
    BY FS_Subset, InstallationAssumption DEF Inv, Creating
  <2>4. /\ Cardinality({j \in OntologyKeys : opening[j] # "none"}) \in Nat
        /\ Cardinality(Creating) <= Cardinality({j \in OntologyKeys : opening[j] # "none"})
    BY <2>3, FS_Subset, FS_CardinalityType
  <2>5. Len(keyOf) \in Nat /\ Instances \in Nat BY InstallationAssumption DEF Inv, Types
  <2>6. Len(keyOf) + Cardinality(Creating) + 1 <= Instances
    BY <1>1, <2>4, <2>5, CreatingIsFinite
  <2> QED BY <1>1, <2>2, <2>5, <2>6, CreatingIsFinite DEF Room
<1>3. course.careful => (k \in data' => k \in recorded')
  BY <1>1 DEF Inv, Careful, Listed
<1> QED BY <1>1, <1>2, <1>3, PreparationKeeps DEF Prepares, OpeningSteps

\* The opening fails, or goes on to the record and from there to the live ontology.
LEMMA RoomStays ==
  ASSUME Inv, Creating' \subseteq Creating, keyOf' = keyOf PROVE Room'
<1>1. Cardinality(Creating') \in Nat /\ Cardinality(Creating') <= Cardinality(Creating)
  BY CreatingIsFinite, FS_Subset, FS_CardinalityType
<1> QED BY <1>1, CreatingIsFinite, InstallationAssumption DEF Inv, Types, Room

LEMMA FailureKeeps == ASSUME Inv, NEW k \in OntologyKeys, OpeningFails(k) PROVE Inv'
<1>1. /\ opening[k] \in {"configuring", "recording", "creating"}
      /\ opening' = [opening EXCEPT ![k] = "none"]
      /\ data' = data \/ (opening[k] = "creating" /\ data' = data \cup {k})
      /\ UNCHANGED <<course, connected, disposed, live, keyOf, running, recorded, ending, part, holds>>
  BY DEF OpeningFails
<1>2. Room' BY <1>1, RoomStays DEF Creating, Inv, Types
<1>3. course.careful => (k \in data' => k \in recorded')
  BY <1>1 DEF Inv, Careful, Listed
<1> QED BY <1>1, <1>2, <1>3, PreparationKeeps DEF Prepares, OpeningSteps

LEMMA ConfigureKeeps == ASSUME Inv, NEW k \in OntologyKeys, Configure(k) \/ RecordPartition(k) PROVE Inv'
<1>1. PICK stage \in {"recording", "creating"} :
        /\ opening[k] \in {"configuring", "recording"} /\ opening' = [opening EXCEPT ![k] = stage]
        /\ recorded' \in {recorded, recorded \cup {k}} /\ (stage = "creating" => k \in recorded')
        /\ UNCHANGED <<course, connected, disposed, live, keyOf, running, data, ending, part, holds>>
  BY DEF Configure, RecordPartition
<1>2. Room' BY <1>1, RoomStays DEF Creating, Inv, Types
<1>3. course.careful => (k \in data' => k \in recorded')
  BY <1>1 DEF Inv, Careful, Listed
<1> QED BY <1>1, <1>2, <1>3, PreparationKeeps DEF Prepares, OpeningSteps

\* The last live ontology of a key, in any sequence of keys.
LastOf(s, k) == CHOOSE i \in 1..Len(s) : s[i] = k /\ \A j \in i + 1..Len(s) : s[j] # k

LEMMA LastOfIs ==
  ASSUME NEW s \in Seq(OntologyKeys), NEW k, NEW i \in 1..Len(s),
         s[i] = k, \A j \in i + 1..Len(s) : s[j] # k
  PROVE  LastOf(s, k) = i
<1>1. LastOf(s, k) \in 1..Len(s) /\ s[LastOf(s, k)] = k /\ \A j \in LastOf(s, k) + 1..Len(s) : s[j] # k
  BY DEF LastOf
<1>2. ~(LastOf(s, k) \in i + 1..Len(s)) /\ ~(i \in LastOf(s, k) + 1..Len(s))
  BY <1>1
<1> QED BY <1>1, <1>2

LEMMA LastStays ==
  ASSUME NEW s \in Seq(OntologyKeys), NEW j \in OntologyKeys, NEW k, k # j,
         NEW i \in 1..Len(s), s[i] = k, \A n \in i + 1..Len(s) : s[n] # k
  PROVE  LastOf(s, k) = i /\ LastOf(Append(s, j), k) = i
<1>1. /\ Append(s, j) \in Seq(OntologyKeys) /\ Len(Append(s, j)) = Len(s) + 1
      /\ Append(s, j)[Len(s) + 1] = j /\ \A n \in 1..Len(s) : Append(s, j)[n] = s[n]
  OBVIOUS
<1>2. Append(s, j)[i] = k /\ \A n \in i + 1..Len(Append(s, j)) : Append(s, j)[n] # k
  BY <1>1
<1>3. i \in 1..Len(Append(s, j)) BY <1>1
<1> QED BY <1>1, <1>2, <1>3, LastOfIs

LEMMA CreationKeeps == ASSUME Inv, NEW k \in OntologyKeys, CreateLiveOntology(k) PROVE Inv'
<1>0. PICK n \in Nat : n = Len(keyOf) + 1
  BY DEF Inv, Types
<1>1. /\ opening[k] = "creating" /\ keyOf' = Append(keyOf, k)
      /\ running' = running \cup {Len(keyOf')} /\ data' = data \cup {k}
      /\ \/ ~disposed /\ live' = [live EXCEPT ![k] = Len(keyOf')] /\ opening' = [opening EXCEPT ![k] = "none"]
         \/ UNCHANGED live /\ opening' = [opening EXCEPT ![k] = "withdrawing"]
      /\ UNCHANGED <<course, connected, disposed, recorded, ending, part, holds>>
  BY DEF CreateLiveOntology, OntologyCreated
<1>2. /\ Len(keyOf) \in Nat /\ keyOf' \in Seq(OntologyKeys) /\ Len(keyOf') = n /\ keyOf'[n] = k
      /\ \A i \in 1..Len(keyOf) : keyOf'[i] = keyOf[i] /\ keyOf[i] \in OntologyKeys
  BY <1>0, <1>1 DEF Inv, Types
<1>3. /\ running \subseteq 1..Len(keyOf) /\ running' = running \cup {n} /\ live[k] = 0
      /\ live \in [OntologyKeys -> 0..Len(keyOf)] /\ holds \in [Callers -> [OntologyKeys -> 0..Len(keyOf)]]
  BY <1>1, <1>2 DEF Inv, Types, Slot
<1>4. /\ live'[k] \in {0, n}
      /\ (opening'[k] = "none" /\ live'[k] = n) \/ (opening'[k] = "withdrawing" /\ live'[k] = 0)
      /\ \A j \in OntologyKeys : j # k => live'[j] = live[j] /\ opening'[j] = opening[j]
  BY <1>1, <1>2, <1>3 DEF Inv, Types
<1>5. Types'
  <2>0. 0..Len(keyOf) \subseteq 0..Len(keyOf') BY <1>0, <1>2
  <2>1. running' \subseteq 1..Len(keyOf')
    <3>1. Len(keyOf') = n /\ n = Len(keyOf) + 1 /\ Len(keyOf) \in Nat BY <1>0, <1>2
    <3>2. ASSUME NEW i \in running' PROVE i \in 1..n BY <1>3, <3>1
    <3> QED BY <3>1, <3>2
  <2>4. recorded' \cup data' \subseteq OntologyKeys BY <1>1 DEF Inv, Types
  <2>5. holds' \in [Callers -> [OntologyKeys -> 0..Len(keyOf')]] BY <1>1, <1>3, <2>0
  <2>2. live' \in [OntologyKeys -> 0..Len(keyOf')] BY <1>0, <1>1, <1>2, <1>3
  <2>3. opening' \in [OntologyKeys -> OpeningSteps] BY <1>1 DEF Inv, Types, OpeningSteps
  <2> QED BY <1>1, <1>2, <2>1, <2>2, <2>3, <2>4, <2>5, InstallationAssumption DEF Inv, Types
<1>6. Room'
  <2>1. Creating' = Creating \ {k} /\ k \in Creating
    BY <1>1 DEF Creating, Inv, Types
  <2>2. Cardinality(Creating') = Cardinality(Creating) - 1
    BY <2>1, CreatingIsFinite, FS_RemoveElement
  <2> QED BY <1>0, <1>2, <2>2, CreatingIsFinite, InstallationAssumption DEF Room, Inv
<1>7. ASSUME NEW j \in OntologyKeys PROVE Slot(j)'
  <2>1. Slot(j) BY DEF Inv
  <2>2. CASE j = k
    <3>1. IsLast(n, k)' /\ n \in 1..Len(keyOf') BY <1>0, <1>2 DEF IsLast
    <3> QED BY <1>0, <1>2, <1>3, <1>4, <2>2, <3>1 DEF Slot
  <2>3. CASE j # k
    <3>1. ASSUME NEW i \in 1..Len(keyOf), IsLast(i, j) PROVE i \in 1..Len(keyOf') /\ IsLast(i, j)'
      BY <1>0, <1>2, <2>3, <3>1 DEF IsLast
    <3>2. live'[j] # 0 => live'[j] \in running' /\ keyOf'[live'[j]] = j
      BY <1>2, <1>3, <1>4, <2>1, <2>3 DEF Slot
    <3> QED BY <1>4, <2>1, <2>3, <3>1, <3>2 DEF Slot
  <2> QED BY <2>2, <2>3
<1>8. ASSUME NEW q \in Callers PROVE Calling(q)' /\ CleaningUp(q)'
  <2>1. Calling(q) /\ CleaningUp(q) BY DEF Inv
  <2>2. Calling(q)' BY <1>1, <2>1 DEF Calling
  <2>3. ~(ending[q].call = "cleanup" /\ ending[q].step \in {"all", "ended"})
    BY <1>1, <2>1 DEF CleaningUp
  <2>4. CleaningUp(q)' BY <1>1, <2>1, <2>3 DEF CleaningUp
  <2> QED BY <2>2, <2>4
<1>9. ASSUME NEW q \in Callers, NEW j \in OntologyKeys PROVE Holding(q, j)'
  <2>1. Holding(q, j) /\ holds'[q][j] = holds[q][j] /\ holds[q][j] \in 0..Len(keyOf) /\ holds[q][j] # n
    BY <1>0, <1>1, <1>2, <1>3 DEF Inv
  <2> QED BY <1>1, <1>2, <1>4, <2>1 DEF Holding
<1>10. ASSUME NEW i \in running' PROVE Accounted(i)'
  <2>1. CASE i = n
    <3>1. LastOf(keyOf', k) = n BY <1>0, <1>2, LastOfIs
    <3> QED BY <1>2, <1>4, <2>1, <3>1 DEF Accounted, LatestOf, LastOf
  <2>2. CASE i \in running
    <3>1. Accounted(i) /\ i \in 1..Len(keyOf) /\ keyOf'[i] = keyOf[i] /\ keyOf[i] \in OntologyKeys /\ i # 0
      BY <1>2, <1>3, <2>2 DEF Inv
    <3>2. CASE keyOf[i] = k
      BY <1>1, <1>3, <3>1, <3>2 DEF Accounted
    <3>3. CASE keyOf[i] # k
      <4>1. CASE opening[keyOf[i]] = "withdrawing" /\ LatestOf(keyOf[i]) = i
        <5>1. PICK l \in 1..Len(keyOf) : IsLast(l, keyOf[i])
          BY <3>1, <4>1 DEF Inv, Slot
        <5>2. LastOf(keyOf, keyOf[i]) = l /\ LastOf(keyOf', keyOf[i]) = l
          BY <1>1, <3>3, <5>1, LastStays DEF IsLast, Inv, Types
        <5>3. \A j \in OntologyKeys : LatestOf(j) = LastOf(keyOf, j) /\ LatestOf(j)' = LastOf(keyOf', j)
          BY DEF LatestOf, LastOf
        <5>4. PICK j \in OntologyKeys : j = keyOf[i] BY <3>1
        <5>5. keyOf'[i] = j /\ opening'[j] = "withdrawing" /\ LatestOf(j)' = i
          BY <1>4, <3>1, <3>3, <4>1, <5>2, <5>3, <5>4
        <5> QED BY <5>5 DEF Accounted
      <4>2. CASE live[keyOf[i]] = i
        BY <1>4, <3>1, <3>3, <4>2 DEF Accounted
      <4>3. CASE \E q \in Callers : holds[q][keyOf[i]] = i
        BY <1>1, <3>1, <4>3 DEF Accounted
      <4> QED BY <3>1, <4>1, <4>2, <4>3 DEF Accounted
    <3> QED BY <3>2, <3>3
  <2> QED BY <1>3, <2>1, <2>2
<1>11. ASSUME course.careful, NEW j \in OntologyKeys PROVE Listed(j)'
  <2>1. Listed(j) /\ Listed(k) BY <1>11 DEF Inv, Careful
  <2> QED BY <1>1, <1>4, <2>1 DEF Listed
<1>12. ASSUME course.careful, NEW q \in Callers PROVE Off(q)' /\ \A j \in OntologyKeys : Final(q, j)'
  <2>1. Off(q)' BY <1>1, <1>12 DEF Inv, Careful, Off
  <2>2. Final(q, k)' BY <1>1, <1>12, OpenedIsUntouched, UntouchedIsFinal
  <2>3. ASSUME NEW j \in OntologyKeys, j # k PROVE Final(q, j)'
    <3>1. Final(q, j) BY <1>12 DEF Inv, Careful
    <3>2. j \in data' <=> j \in data BY <1>1, <2>3
    <3> QED BY <1>1, <1>4, <2>3, <3>1, <3>2 DEF Final
  <2> QED BY <2>1, <2>2, <2>3
<1>13. course' = course BY <1>1
<1> QED BY <1>5, <1>6, <1>7, <1>8, <1>9, <1>10, <1>11, <1>12, <1>13 DEF Inv, Careful

LEMMA WithdrawalKeeps == ASSUME Inv, NEW k \in OntologyKeys, Withdraw(k) PROVE Inv'
<1>1. /\ opening[k] = "withdrawing" /\ opening' = [opening EXCEPT ![k] = "none"]
      /\ running' = running \ {LatestOf(k)}
      /\ UNCHANGED <<course, connected, disposed, live, keyOf, recorded, data, ending, part, holds>>
  BY DEF Withdraw
<1>2. PICK l \in 1..Len(keyOf) : IsLast(l, k)
  BY <1>1 DEF Inv, Slot
<1>3. LatestOf(k) = l /\ keyOf[l] = k /\ live[k] = 0 /\ \A j \in OntologyKeys : LatestOf(j)' = LatestOf(j)
  BY <1>1, <1>2, LastOfIs DEF IsLast, LatestOf, LastOf, Inv, Types, Slot
<1>4. Types'
  BY <1>1, InstallationAssumption DEF Inv, Types, OpeningSteps
<1>5. Room' BY <1>1, RoomStays DEF Creating, Inv, Types
<1>6. ASSUME NEW j \in OntologyKeys PROVE Slot(j)'
  <2>1. Slot(j) BY DEF Inv
  <2>2. live[j] # l \/ live[j] = 0 BY <1>3, <2>1 DEF Slot
  <2>3. j # k => opening'[j] = opening[j] BY <1>1 DEF Inv, Types
  <2>4. opening'[k] = "none" BY <1>1 DEF Inv, Types
  <2> QED BY <1>1, <1>3, <2>1, <2>2, <2>3, <2>4 DEF Slot, IsLast
<1>7. ASSUME NEW q \in Callers PROVE Calling(q)' /\ CleaningUp(q)'
  <2>1. Calling(q) /\ CleaningUp(q) BY DEF Inv
  <2>2. Calling(q)' BY <1>1, <2>1 DEF Calling
  <2>3. CleaningUp(q)' BY <1>1, <2>1 DEF CleaningUp, Inv, Types
  <2> QED BY <2>2, <2>3
<1>8. ASSUME NEW q \in Callers, NEW j \in OntologyKeys PROVE Holding(q, j)'
  BY <1>1 DEF Inv, Holding
<1>9. ASSUME NEW i \in running' PROVE Accounted(i)'
  <2>1. i \in running /\ i # l /\ Accounted(i) /\ keyOf[i] \in OntologyKeys /\ i # 0
    BY <1>1, <1>3 DEF Inv, Types
  <2>2. keyOf[i] # k => opening'[keyOf[i]] = opening[keyOf[i]]
    BY <1>1, <2>1 DEF Inv, Types
  <2> QED BY <1>1, <1>3, <2>1, <2>2 DEF Accounted
<1>10. ASSUME course.careful, NEW j \in OntologyKeys PROVE Listed(j)'
  <2>1. Listed(j) BY <1>10 DEF Inv, Careful
  <2> QED BY <1>1, <2>1 DEF Listed, Inv, Types
<1>11. ASSUME course.careful, NEW q \in Callers PROVE Off(q)' /\ \A j \in OntologyKeys : Final(q, j)'
  <2>1. Off(q)' BY <1>1, <1>11 DEF Inv, Careful, Off
  <2>2. ASSUME NEW j \in OntologyKeys PROVE Final(q, j)'
    <3>1. Final(q, j) BY <1>11 DEF Inv, Careful
    <3>2. opening'[j] = opening[j] \/ opening'[j] = "none" BY <1>1 DEF Inv, Types
    <3> QED BY <1>1, <3>1, <3>2 DEF Final
  <2> QED BY <2>1, <2>2
<1>12. course' = course BY <1>1
<1> QED BY <1>4, <1>5, <1>6, <1>7, <1>8, <1>9, <1>10, <1>11, <1>12 DEF Inv, Careful

----------------------------------------------------------------------------
(* What a call does with one key *)

\* The part of call q for key k goes on to step `to'; it takes what is cached into what it holds,
\* or lets go what it holds.
PartMoves(q, k, to, cached, held) ==
  /\ part' = [part EXCEPT ![q][k] = to] /\ part[q][k] \in {"waiting", "closing", "erasing", "unrecording"}
  /\ live' = [live EXCEPT ![k] = cached] /\ cached \in {0, live[k]}
  /\ holds' = [holds EXCEPT ![q][k] = held] /\ running' = running \ {holds[q][k]}
  /\ held # 0 => to = "closing" /\ held = live[k] /\ cached = 0 /\ holds[q][k] = 0
  /\ live[k] # 0 /\ cached = 0 => held = live[k]
  /\ to \in {"closing", "erasing", "unrecording", "done"}
  /\ to \in {"erasing", "unrecording"} => Forgets(q)
  /\ \A p \in Callers :
       /\ ending'[p].call = ending[p].call /\ ending'[p].user = ending[p].user
       /\ ending'[p].step = ending[p].step /\ ending'[p].off = ending[p].off
       /\ ending[p].failed => ending'[p].failed
  /\ recorded' \in {recorded, recorded \ {k}} /\ data' \in {data, data \ {k}}
  /\ UNCHANGED <<course, connected, disposed, opening, keyOf>>

LEMMA PartKeeps ==
  ASSUME Inv, NEW q \in Callers, NEW k \in OntologyKeys, NEW to, NEW cached, NEW held,
         PartMoves(q, k, to, cached, held), ending' \in [Callers -> Endings],
         course.careful =>
           /\ opening[k] = "none" /\ cached = 0
           /\ k \in data' => k \in recorded'
           /\ to = "unrecording" => k \notin data'
           /\ to = "done" /\ Forgets(q) => ending'[q].failed \/ k \notin recorded'
  PROVE  Inv'
<1>1. /\ live[k] \in 0..Len(keyOf) /\ cached \in 0..Len(keyOf) /\ held \in 0..Len(keyOf)
      /\ Len(keyOf) \in Nat /\ to \in PartSteps
  BY DEF Inv, Types, PartMoves, PartSteps
<1>2. /\ live'[k] = cached /\ \A j \in OntologyKeys : j # k => live'[j] = live[j]
      /\ part'[q][k] = to /\ holds'[q][k] = held
      /\ \A p \in Callers, j \in OntologyKeys :
           <<p, j>> # <<q, k>> => part'[p][j] = part[p][j] /\ holds'[p][j] = holds[p][j]
  BY DEF Inv, Types, PartMoves
<1>3. /\ ending[q].step = "parts" /\ ending[q].call \in {"close", "disconnect", "forget"}
      /\ Owner[k] = ending[q].user
  BY DEF Inv, Calling, PartMoves, Types, Endings, Steps
<1>4. Types'
  BY <1>1, InstallationAssumption DEF Inv, Types, PartMoves
<1>5. Room' BY RoomStays DEF Creating, PartMoves
<1>6. ASSUME NEW j \in OntologyKeys PROVE Slot(j)'
  <2>1. Slot(j) /\ Holding(q, k) BY DEF Inv
  <2>2. live'[j] # 0 => live'[j] = live[j]
    BY <1>2 DEF PartMoves
  <2>3. live'[j] # 0 => live'[j] # holds[q][k]
    BY <1>2, <2>1 DEF PartMoves, Slot, Holding
  <2> QED BY <2>1, <2>2, <2>3 DEF Slot, IsLast, PartMoves
<1>7. ASSUME NEW p \in Callers PROVE Calling(p)' /\ CleaningUp(p)'
  <2>1. Calling(p) /\ CleaningUp(p) BY DEF Inv
  <2>2. Calling(p)' BY <1>2, <1>3, <2>1 DEF Calling, PartMoves, Forgets
  <2>3. CleaningUp(p)' BY <1>2, <2>1 DEF CleaningUp, PartMoves
  <2> QED BY <2>2, <2>3
<1>8. ASSUME NEW p \in Callers, NEW j \in OntologyKeys PROVE Holding(p, j)'
  <2>1. Holding(p, j) /\ Slot(k) BY DEF Inv
  <2>2. CASE <<p, j>> = <<q, k>>
    BY <1>2, <2>1, <2>2 DEF Holding, PartMoves, Slot
  <2>3. CASE <<p, j>> # <<q, k>>
    <3>1. live'[j] \in {0, live[j]} BY <1>2 DEF PartMoves
    <3> QED BY <1>2, <2>1, <2>3, <3>1 DEF Holding, PartMoves
  <2> QED BY <2>2, <2>3
<1>9. ASSUME NEW i \in running' PROVE Accounted(i)'
  <2>1. i \in running /\ i # holds[q][k] /\ i # 0 /\ keyOf[i] \in OntologyKeys /\ Accounted(i)
    BY DEF Inv, Types, PartMoves
  <2>2. LatestOf(keyOf[i])' = LatestOf(keyOf[i]) BY DEF LatestOf, PartMoves
  <2>3. CASE live[keyOf[i]] = i
    BY <1>2, <2>1, <2>3 DEF Accounted, PartMoves
  <2>4. CASE opening[keyOf[i]] = "withdrawing" /\ LatestOf(keyOf[i]) = i
    BY <2>1, <2>2, <2>4 DEF Accounted, PartMoves
  <2>5. ASSUME NEW p \in Callers, holds[p][keyOf[i]] = i PROVE Accounted(i)'
    <3>1. holds'[p][keyOf[i]] = i BY <1>2, <2>1, <2>5
    <3> QED BY <3>1 DEF Accounted, PartMoves
  <2> QED BY <2>1, <2>3, <2>4, <2>5 DEF Accounted
<1>10. ASSUME course.careful, NEW j \in OntologyKeys PROVE Listed(j)'
  <2>1. Listed(j) BY <1>10 DEF Inv, Careful
  <2> QED BY <1>2, <1>10, <2>1 DEF Listed, PartMoves
<1>11. ASSUME course.careful, NEW p \in Callers PROVE Off(p)' /\ \A j \in OntologyKeys : Final(p, j)'
  <2>1. Off(p)'
    <3>1. Off(p) BY <1>11 DEF Inv, Careful
    <3> QED BY <3>1 DEF Off, PartMoves
  <2>2. ASSUME NEW j \in OntologyKeys PROVE Final(p, j)'
    <3>1. Final(p, j) BY <1>11 DEF Inv, Careful
    <3>2. live'[j] \in {0, live[j]} /\ opening' = opening BY <1>2 DEF PartMoves
    <3>3. CASE <<p, j>> = <<q, k>>
      BY <1>2, <1>3, <1>11, <3>1, <3>2, <3>3 DEF Final, PartMoves, Forgets
    <3>4. CASE <<p, j>> # <<q, k>>
      BY <1>2, <3>1, <3>2, <3>4 DEF Final, PartMoves
    <3> QED BY <3>3, <3>4
  <2> QED BY <2>1, <2>2
<1>12. course' = course BY DEF PartMoves
<1> QED BY <1>4, <1>5, <1>6, <1>7, <1>8, <1>9, <1>10, <1>11, <1>12 DEF Inv, Careful

\* What careful applications find of the key that a call works on.
LEMMA ClosedIsFinal ==
  ASSUME Inv, course.careful, NEW q \in Callers, NEW k \in OntologyKeys,
         part[q][k] \in {"closing", "erasing", "unrecording"}
  PROVE  /\ opening[k] = "none" /\ live[k] = 0 /\ (k \in data => k \in recorded)
         /\ part[q][k] = "unrecording" => Forgets(q) /\ k \notin data
<1>1. Final(q, k) /\ Calling(q) /\ Listed(k) BY DEF Inv, Careful
<1>2. part[q][k] = "unrecording" =>
        /\ ending[q].step = "parts" /\ Owner[k] = ending[q].user /\ ending[q].call = "forget"
  BY <1>1 DEF Calling, Inv, Types, Endings, Steps
<1> QED BY <1>1, <1>2 DEF Final, Listed, Forgets

LEMMA ProgressKeeps == ASSUME Inv, NEW q \in Callers, NEW k \in OntologyKeys, Progress(q, k) PROVE Inv'
<1>1. /\ holds[q][k] \notin running \/ part[q][k] = "closing"
      /\ holds[q][k] # 0 => part[q][k] = "closing"
  BY DEF Inv, Holding, Types
<1>2. ending \in [Callers -> Endings] /\ live \in [OntologyKeys -> 0..Len(keyOf)]
      /\ live = [live EXCEPT ![k] = live[k]] /\ holds = [holds EXCEPT ![q][k] = holds[q][k]]
  BY DEF Inv, Types
<1>3. CASE Take(q, k)
  <2>1. PICK to \in {"closing", "erasing", "done"} :
          /\ part' = [part EXCEPT ![q][k] = to] /\ part[q][k] = "waiting"
          /\ (to = "closing") = (live[k] # 0)
          /\ (to = "erasing" => Forgets(q)) /\ (to = "done" => ~Forgets(q))
    BY <1>3 DEF Take, Part
  <2>2. /\ opening[k] = "none" /\ holds' = [holds EXCEPT ![q][k] = live[k]] /\ live' = [live EXCEPT ![k] = 0]
        /\ UNCHANGED <<course, connected, disposed, opening, keyOf, running, recorded, data, ending>>
    BY <1>3 DEF Take, OpeningSettled
  <2>3. PartMoves(q, k, to, 0, live[k]) BY <1>1, <2>1, <2>2 DEF PartMoves
  <2>4. course.careful => (k \in data => k \in recorded) BY DEF Inv, Careful, Listed
  <2> QED BY <1>2, <2>1, <2>2, <2>3, <2>4, PartKeeps
<1>4. CASE CleanedUp(q, k)
  <2>1. PICK to \in {"erasing", "done"} :
          /\ part' = [part EXCEPT ![q][k] = to] /\ part[q][k] = "closing"
          /\ (to = "erasing" => Forgets(q)) /\ (to = "done" => ~Forgets(q))
    BY <1>4 DEF CleanedUp, Part
  <2>2. /\ running' = running \ {holds[q][k]} /\ holds' = [holds EXCEPT ![q][k] = 0]
        /\ UNCHANGED <<course, connected, disposed, live, opening, keyOf, recorded, data, ending>>
    BY <1>4 DEF CleanedUp
  <2>3. PartMoves(q, k, to, live[k], 0) BY <1>2, <2>1, <2>2 DEF PartMoves
  <2> QED BY <1>2, <2>1, <2>2, <2>3, ClosedIsFinal, PartKeeps
<1>5. CASE Erase(q, k)
  <2>1. /\ part' = [part EXCEPT ![q][k] = "unrecording"] /\ part[q][k] = "erasing" /\ data' = data \ {k}
        /\ UNCHANGED <<course, connected, disposed, live, opening, keyOf, running, recorded, ending, holds>>
    BY <1>5 DEF Erase, Part
  <2>2. Forgets(q) /\ holds[q][k] = 0 /\ running' = running \ {holds[q][k]}
    BY <1>1, <2>1 DEF Inv, Calling, Forgets
  <2>3. PartMoves(q, k, "unrecording", live[k], 0) BY <1>2, <2>1, <2>2 DEF PartMoves
  <2> QED BY <1>2, <2>1, <2>3, ClosedIsFinal, PartKeeps
<1>6. CASE RemoveRecord(q, k)
  <2>1. /\ part' = [part EXCEPT ![q][k] = "done"] /\ part[q][k] = "unrecording" /\ recorded' = recorded \ {k}
        /\ UNCHANGED <<course, connected, disposed, live, opening, keyOf, running, data, ending, holds>>
    BY <1>6 DEF RemoveRecord, Part
  <2>2. holds[q][k] = 0 /\ running' = running \ {holds[q][k]}
    BY <1>1, <2>1
  <2>3. PartMoves(q, k, "done", live[k], 0) BY <1>2, <2>1, <2>2 DEF PartMoves
  <2> QED BY <1>2, <2>1, <2>3, ClosedIsFinal, PartKeeps
<1> QED BY <1>3, <1>4, <1>5, <1>6 DEF Progress

LEMMA PartFailureKeeps == ASSUME Inv, NEW q \in Callers, NEW k \in OntologyKeys, PartFails(q, k) PROVE Inv'
<1>1. /\ part[q][k] \in {"closing", "erasing", "unrecording"} /\ part' = [part EXCEPT ![q][k] = "done"]
      /\ running' = running \ {holds[q][k]} /\ holds' = [holds EXCEPT ![q][k] = 0]
      /\ ending' = [ending EXCEPT ![q].failed = TRUE]
      /\ UNCHANGED <<course, connected, disposed, live, opening, keyOf, recorded, data>>
  BY DEF PartFails, Part
<1>2. /\ live = [live EXCEPT ![k] = live[k]] BY DEF Inv, Types
<1>3. /\ ending' \in [Callers -> Endings] /\ ending'[q].failed
      /\ \A p \in Callers :
           /\ ending'[p].call = ending[p].call /\ ending'[p].user = ending[p].user
           /\ ending'[p].step = ending[p].step /\ ending'[p].off = ending[p].off
           /\ ending[p].failed => ending'[p].failed
  <2>1. ending \in [Callers -> Endings] BY DEF Inv, Types
  <2> DEFINE e == [ending[q] EXCEPT !.failed = TRUE]
  <2>2. /\ e \in Endings /\ e.failed /\ e.call = ending[q].call /\ e.user = ending[q].user
        /\ e.step = ending[q].step /\ e.off = ending[q].off
    BY <2>1 DEF Endings
  <2>3. ending' = [ending EXCEPT ![q] = e] BY <1>1
  <2> HIDE DEF e
  <2>4. ending' \in [Callers -> Endings] BY <2>1, <2>2, <2>3
  <2>5. ending'[q] = e /\ \A p \in Callers : p # q => ending'[p] = ending[p] BY <2>1, <2>3
  <2> QED BY <2>2, <2>4, <2>5
<1>4. PartMoves(q, k, "done", live[k], 0) BY <1>1, <1>2, <1>3 DEF PartMoves
<1> QED BY <1>1, <1>3, <1>4, ClosedIsFinal, PartKeeps

----------------------------------------------------------------------------
(* Calls *)

\* Call q goes on; its parts change only where none is being closed.
CallMoves(q) ==
  /\ ending' \in [Callers -> Endings] /\ part' \in [Callers -> [OntologyKeys -> PartSteps]]
  /\ \A p \in Callers : p # q => ending'[p] = ending[p] /\ part'[p] = part[p]
  /\ part'[q] = part[q] \/ \A k \in OntologyKeys : part[q][k] \in {"none", "done"}
  /\ connected' \subseteq connected /\ disposed' \in BOOLEAN /\ (disposed => disposed')
  /\ UNCHANGED <<course, live, opening, keyOf, running, recorded, data, holds>>

LEMMA CallKeeps ==
  ASSUME Inv, NEW q \in Callers, CallMoves(q), Calling(q)', CleaningUp(q)',
         course.careful => Off(q)' /\ \A k \in OntologyKeys : Final(q, k)'
  PROVE  Inv'
<1>1. Types'
  BY DEF Inv, Types, CallMoves
<1>2. Room' BY RoomStays DEF Creating, CallMoves
<1>3. ASSUME NEW k \in OntologyKeys PROVE Slot(k)'
  BY DEF Inv, CallMoves, Slot, IsLast
<1>4. ASSUME NEW p \in Callers, p # q PROVE Calling(p)' /\ CleaningUp(p)'
  <2>1. Calling(p) /\ CleaningUp(p) BY DEF Inv
  <2> QED BY <1>4, <2>1 DEF CallMoves, Calling, CleaningUp
<1>5. ASSUME NEW p \in Callers, NEW k \in OntologyKeys PROVE Holding(p, k)'
  <2>1. Holding(p, k) BY DEF Inv
  <2> QED BY <2>1 DEF CallMoves, Holding
<1>6. ASSUME NEW i \in running' PROVE Accounted(i)'
  <2>1. Accounted(i) BY DEF Inv, CallMoves
  <2> QED BY <2>1 DEF CallMoves, Accounted, LatestOf
<1>7. ASSUME course.careful, NEW k \in OntologyKeys PROVE Listed(k)'
  BY <1>7 DEF Inv, Careful, CallMoves, Listed
<1>8. ASSUME course.careful, NEW p \in Callers, p # q PROVE Off(p)' /\ \A k \in OntologyKeys : Final(p, k)'
  <2>1. Off(p) /\ \A k \in OntologyKeys : Final(p, k) BY <1>8 DEF Inv, Careful
  <2>2. Off(p)' BY <1>8, <2>1 DEF CallMoves, Off
  <2>3. ASSUME NEW k \in OntologyKeys PROVE Final(p, k)'
    <3>1. Final(p, k) BY <2>1
    <3> QED BY <1>8, <3>1 DEF CallMoves, Final
  <2> QED BY <2>2, <2>3
<1>9. course' = course BY DEF CallMoves
<1> QED BY <1>1, <1>2, <1>3, <1>4, <1>5, <1>6, <1>7, <1>8, <1>9 DEF Inv, Careful

\* A call that begins has no parts yet, and what it gets waits.
LEMMA CallBegins ==
  ASSUME Inv, NEW q \in Callers, Free(q),
         NEW name \in {"close", "disconnect", "forget", "cleanup"}, NEW u \in Users \cup {"none"}, NEW stage \in Steps,
         Call(q, name, u, stage)
  PROVE  /\ ending' \in [Callers -> Endings] /\ \A p \in Callers : p # q => ending'[p] = ending[p]
         /\ ending'[q].call = name /\ ending'[q].user = u /\ ending'[q].step = stage
         /\ ~ending'[q].off /\ ~ending'[q].failed
         /\ \A k \in OntologyKeys : part[q][k] = "none"
<1> DEFINE e == [Idle EXCEPT !.call = name, !.user = u, !.step = stage]
<1>1. e \in Endings /\ e.call = name /\ e.user = u /\ e.step = stage /\ e.off = FALSE /\ e.failed = FALSE
  BY DEF Endings, Idle
<1>2. ending' = [ending EXCEPT ![q] = e] BY DEF Call
<1>3. ending \in [Callers -> Endings] /\ Calling(q) /\ ending[q].step = "idle"
  BY DEF Inv, Types, Free
<1> HIDE DEF e
<1> QED BY <1>1, <1>2, <1>3 DEF Calling

LEMMA PartsBegin ==
  ASSUME Inv, NEW q \in Callers, NEW keys, Calls(q, keys)
  PROVE  /\ part' \in [Callers -> [OntologyKeys -> PartSteps]]
         /\ \A p \in Callers : p # q => part'[p] = part[p]
         /\ \A k \in OntologyKeys : part'[q][k] = IF k \in keys THEN "waiting" ELSE "none"
<1> DEFINE row == [k \in OntologyKeys |-> IF k \in keys THEN "waiting" ELSE "none"]
<1>1. row \in [OntologyKeys -> PartSteps] /\ \A k \in OntologyKeys : row[k] = IF k \in keys THEN "waiting" ELSE "none"
  BY DEF PartSteps
<1>2. part' = [part EXCEPT ![q] = row] BY DEF Calls
<1>3. part \in [Callers -> [OntologyKeys -> PartSteps]] BY DEF Inv, Types
<1> HIDE DEF row
<1> QED BY <1>1, <1>2, <1>3

LEMMA CloseKeeps == ASSUME Inv, NEW q \in Callers, NEW k \in OntologyKeys, CloseOntology(q, k) PROVE Inv'
<1>1. /\ Free(q) /\ Call(q, "close", Owner[k], "parts") /\ Calls(q, {k})
      /\ UNCHANGED <<course, connected, disposed, live, opening, keyOf, running, recorded, data, holds>>
      /\ Owner[k] \in Users
  BY InstallationAssumption DEF CloseOntology, Inv
<1>2. /\ ending' \in [Callers -> Endings] /\ \A p \in Callers : p # q => ending'[p] = ending[p]
      /\ ending'[q].call = "close" /\ ending'[q].user = Owner[k] /\ ending'[q].step = "parts"
      /\ ~ending'[q].off /\ ~ending'[q].failed
      /\ \A j \in OntologyKeys : part[q][j] = "none"
  BY <1>1, CallBegins DEF Steps
<1>3. /\ part' \in [Callers -> [OntologyKeys -> PartSteps]]
      /\ \A p \in Callers : p # q => part'[p] = part[p]
      /\ \A j \in OntologyKeys : part'[q][j] = IF j \in {k} THEN "waiting" ELSE "none"
  BY <1>1, PartsBegin
<1>4. CallMoves(q) BY <1>1, <1>2, <1>3 DEF CallMoves, Inv, Types
<1>5. Calling(q)' BY <1>1, <1>2, <1>3, InstallationAssumption DEF Calling, Inv
<1>6. CleaningUp(q)' /\ Off(q)' BY <1>2 DEF CleaningUp, Off
<1>7. \A j \in OntologyKeys : Final(q, j)' BY <1>2, <1>3 DEF Final
<1> QED BY <1>4, <1>5, <1>6, <1>7, CallKeeps

LEMMA DisconnectKeeps == ASSUME Inv, NEW q \in Callers, NEW u \in Users, Disconnect(q, u) PROVE Inv'
<1> DEFINE open == {k \in Of(u) : live[k] # 0 \/ opening[k] # "none"}
<1>1. /\ Free(q) /\ Call(q, "disconnect", u, "parts") /\ Calls(q, open)
      /\ UNCHANGED <<course, connected, disposed, live, opening, keyOf, running, recorded, data, holds>>
  BY DEF Disconnect
<1>2. /\ ending' \in [Callers -> Endings] /\ \A p \in Callers : p # q => ending'[p] = ending[p]
      /\ ending'[q].call = "disconnect" /\ ending'[q].user = u /\ ending'[q].step = "parts"
      /\ ~ending'[q].off /\ ~ending'[q].failed
      /\ \A j \in OntologyKeys : part[q][j] = "none"
  BY <1>1, CallBegins DEF Steps
<1>3. /\ part' \in [Callers -> [OntologyKeys -> PartSteps]]
      /\ \A p \in Callers : p # q => part'[p] = part[p]
      /\ \A j \in OntologyKeys : part'[q][j] = IF j \in open THEN "waiting" ELSE "none"
  BY <1>1, PartsBegin
<1>4. CallMoves(q) BY <1>1, <1>2, <1>3 DEF CallMoves, Inv, Types
<1>5. Calling(q)' BY <1>1, <1>2, <1>3 DEF Calling, Of
<1>6. CleaningUp(q)' /\ Off(q)' BY <1>2 DEF CleaningUp, Off
<1>7. \A j \in OntologyKeys : Final(q, j)' BY <1>1, <1>2, <1>3 DEF Final, Of
<1> QED BY <1>4, <1>5, <1>6, <1>7, CallKeeps

LEMMA ForgetKeeps == ASSUME Inv, NEW q \in Callers, NEW u \in Users, Forget(q, u) PROVE Inv'
<1>1. /\ Free(q) /\ Call(q, "forget", u, "openings")
      /\ UNCHANGED <<course, connected, disposed, live, opening, keyOf, running, recorded, data, part, holds>>
  BY DEF Forget
<1>2. /\ ending' \in [Callers -> Endings] /\ \A p \in Callers : p # q => ending'[p] = ending[p]
      /\ ending'[q].call = "forget" /\ ending'[q].user = u /\ ending'[q].step = "openings"
      /\ ~ending'[q].off /\ ~ending'[q].failed
      /\ \A j \in OntologyKeys : part[q][j] = "none"
  BY <1>1, CallBegins DEF Steps
<1>3. CallMoves(q) BY <1>1, <1>2 DEF CallMoves, Inv, Types
<1>4. Calling(q)' BY <1>1, <1>2 DEF Calling
<1>5. CleaningUp(q)' /\ Off(q)' BY <1>2 DEF CleaningUp, Off
<1>6. \A j \in OntologyKeys : Final(q, j)' BY <1>1, <1>2 DEF Final
<1> QED BY <1>3, <1>4, <1>5, <1>6, CallKeeps

LEMMA CleanupKeeps == ASSUME Inv, NEW q \in Callers, Cleanup(q) PROVE Inv'
<1>1. /\ Free(q) /\ Call(q, "cleanup", "none", "settling") /\ disposed' = TRUE
      /\ UNCHANGED <<course, connected, live, opening, keyOf, running, recorded, data, part, holds>>
  BY DEF Cleanup
<1>2. /\ ending' \in [Callers -> Endings] /\ \A p \in Callers : p # q => ending'[p] = ending[p]
      /\ ending'[q].call = "cleanup" /\ ending'[q].user = "none" /\ ending'[q].step = "settling"
      /\ ~ending'[q].off /\ ~ending'[q].failed
      /\ \A j \in OntologyKeys : part[q][j] = "none"
  BY <1>1, CallBegins DEF Steps
<1>3. CallMoves(q) BY <1>1, <1>2 DEF CallMoves, Inv, Types
<1>4. Calling(q)' BY <1>1, <1>2 DEF Calling
<1>5. CleaningUp(q)' /\ Off(q)' BY <1>1, <1>2 DEF CleaningUp, Off
<1>6. \A j \in OntologyKeys : Final(q, j)' BY <1>1, <1>2 DEF Final
<1> QED BY <1>3, <1>4, <1>5, <1>6, CallKeeps

\* A call that goes on to another step keeps what else it is.
LEMMA StepMoves ==
  ASSUME Inv, NEW q \in Callers, NEW stage \in Steps, Proceed(q, stage)
  PROVE  /\ ending' \in [Callers -> Endings] /\ \A p \in Callers : p # q => ending'[p] = ending[p]
         /\ ending'[q].call = ending[q].call /\ ending'[q].user = ending[q].user /\ ending'[q].step = stage
         /\ (ending'[q].off <=> ending[q].off) /\ (ending'[q].failed <=> ending[q].failed)
BY DEF Inv, Types, Endings, Proceed

LEMMA DestroyKeeps == ASSUME Inv, NEW q \in Callers, DestroyUserPartitions(q) PROVE Inv'
<1> DEFINE keys == recorded \cap Of(ending[q].user)
<1>1. /\ ending[q].step = "openings" /\ Proceed(q, "parts") /\ Calls(q, keys)
      /\ \A k \in Of(ending[q].user) : opening[k] = "none"
      /\ UNCHANGED <<course, connected, disposed, live, opening, keyOf, running, recorded, data, holds>>
  BY DEF DestroyUserPartitions, OpeningSettled
<1>2. /\ ending[q].call = "forget" /\ \A j \in OntologyKeys : part[q][j] = "none"
  BY <1>1 DEF Inv, Calling
<1>3. /\ ending' \in [Callers -> Endings] /\ \A p \in Callers : p # q => ending'[p] = ending[p]
      /\ ending'[q].call = "forget" /\ ending'[q].user = ending[q].user /\ ending'[q].step = "parts"
      /\ (ending'[q].off <=> ending[q].off) /\ (ending'[q].failed <=> ending[q].failed)
  BY <1>1, <1>2, StepMoves DEF Steps
<1>4. /\ part' \in [Callers -> [OntologyKeys -> PartSteps]]
      /\ \A p \in Callers : p # q => part'[p] = part[p]
      /\ \A j \in OntologyKeys : part'[q][j] = IF j \in keys THEN "waiting" ELSE "none"
  BY <1>1, PartsBegin
<1>5. CallMoves(q) BY <1>1, <1>2, <1>3, <1>4 DEF CallMoves, Inv, Types
<1>6. Calling(q)' BY <1>1, <1>3, <1>4 DEF Calling, Of
<1>7. CleaningUp(q)' BY <1>3 DEF CleaningUp
<1>8. course.careful => Off(q)' BY <1>1, <1>3 DEF Off, Inv, Careful
<1>9. \A j \in OntologyKeys : Final(q, j)' BY <1>1, <1>3, <1>4 DEF Final, Of
<1> QED BY <1>5, <1>6, <1>7, <1>8, <1>9, CallKeeps

LEMMA CleanupGoesOn == ASSUME Inv, NEW q \in Callers, CleanupContinues(q) PROVE Inv'
<1>1. /\ ending[q].step = "settling" /\ (\A k \in OntologyKeys : opening[k] = "none") /\ Proceed(q, "all")
      /\ UNCHANGED <<course, connected, disposed, live, opening, keyOf, running, recorded, data, part, holds>>
  BY DEF CleanupContinues, OpeningSettled
<1>2. /\ ending[q].call = "cleanup" /\ disposed /\ \A j \in OntologyKeys : part[q][j] = "none"
  BY <1>1 DEF Inv, Calling, CleaningUp
<1>3. /\ ending' \in [Callers -> Endings] /\ \A p \in Callers : p # q => ending'[p] = ending[p]
      /\ ending'[q].call = "cleanup" /\ ending'[q].user = ending[q].user /\ ending'[q].step = "all"
      /\ (ending'[q].off <=> ending[q].off) /\ (ending'[q].failed <=> ending[q].failed)
  BY <1>1, <1>2, StepMoves DEF Steps
<1>4. CallMoves(q) BY <1>1, <1>3 DEF CallMoves, Inv, Types
<1>5. Calling(q)' BY <1>1, <1>2, <1>3 DEF Calling
<1>6. CleaningUp(q)' BY <1>1, <1>2, <1>3 DEF CleaningUp
<1>7. course.careful => Off(q)' BY <1>1, <1>3 DEF Off, Inv, Careful
<1>8. \A j \in OntologyKeys : Final(q, j)' BY <1>1, <1>2, <1>3 DEF Final
<1> QED BY <1>4, <1>5, <1>6, <1>7, <1>8, CallKeeps

LEMMA ConnectionEndKeeps == ASSUME Inv, NEW q \in Callers, NEW ok \in BOOLEAN, ConnectionEnds(q, ok) PROVE Inv'
<1> DEFINE e == [ending[q] EXCEPT !.off = TRUE, !.failed = ending[q].failed \/ ~ok]
<1>1. /\ ending[q].call \in {"forget", "disconnect"} /\ ending[q].step \in {"openings", "parts"}
      /\ ending' = [ending EXCEPT ![q] = e]
      /\ connected' = IF ok THEN connected \ {ending[q].user} ELSE connected
      /\ UNCHANGED <<course, disposed, live, opening, keyOf, running, recorded, data, part, holds>>
  BY DEF ConnectionEnds, Forgets, Inv, Types, Endings
<1>2. /\ e \in Endings /\ e.call = ending[q].call /\ e.user = ending[q].user /\ e.step = ending[q].step
      /\ e.off = TRUE /\ (e.failed <=> ending[q].failed \/ ~ok)
  <2>1. ending[q] \in Endings BY DEF Inv, Types
  <2> QED BY <2>1 DEF Endings
<1> HIDE DEF e
<1>3. /\ ending' \in [Callers -> Endings] /\ ending'[q] = e /\ \A p \in Callers : p # q => ending'[p] = ending[p]
  BY <1>1, <1>2 DEF Inv, Types
<1>4. CallMoves(q) BY <1>1, <1>3 DEF CallMoves, Inv, Types
<1>5. Calling(q)' BY <1>1, <1>2, <1>3 DEF Calling, Inv
<1>6. CleaningUp(q)' BY <1>1, <1>2, <1>3 DEF CleaningUp
<1>7. Off(q)' BY <1>1, <1>2, <1>3 DEF Off
<1>8. ASSUME course.careful, NEW j \in OntologyKeys PROVE Final(q, j)'
  <2>1. Final(q, j) BY <1>8 DEF Inv, Careful
  <2> QED BY <1>1, <1>2, <1>3, <2>1 DEF Final
<1> QED BY <1>4, <1>5, <1>6, <1>7, <1>8, CallKeeps

LEMMA PartsEndKeeps == ASSUME Inv, NEW q \in Callers, PartsEnd(q) PROVE Inv'
<1>1. /\ ending[q].step = "parts" /\ Proceed(q, "ended")
      /\ \A k \in OntologyKeys : part[q][k] \in {"none", "done"}
      /\ ending[q].call \in {"close", "disconnect", "forget"}
      /\ ending[q].call \in {"disconnect", "forget"} => ending[q].off \/ ending[q].failed
      /\ UNCHANGED <<course, connected, disposed, live, opening, keyOf, running, recorded, data, part, holds>>
  BY DEF PartsEnd, AllDone, Forgets
<1>2. /\ ending' \in [Callers -> Endings] /\ \A p \in Callers : p # q => ending'[p] = ending[p]
      /\ ending'[q].call = ending[q].call /\ ending'[q].user = ending[q].user /\ ending'[q].step = "ended"
      /\ (ending'[q].off <=> ending[q].off) /\ (ending'[q].failed <=> ending[q].failed)
  BY <1>1, StepMoves DEF Steps
<1>3. CallMoves(q) BY <1>1, <1>2 DEF CallMoves, Inv, Types
<1>4. Calling(q)' BY <1>1, <1>2 DEF Calling, Inv
<1>5. CleaningUp(q)' BY <1>1, <1>2 DEF CleaningUp
<1>6. course.careful => Off(q)' BY <1>1, <1>2 DEF Off, Inv, Careful
<1>7. ASSUME course.careful, NEW j \in OntologyKeys PROVE Final(q, j)'
  <2>1. Final(q, j) BY <1>7 DEF Inv, Careful
  <2> QED BY <1>1, <1>2, <2>1 DEF Final
<1> QED BY <1>3, <1>4, <1>5, <1>6, <1>7, CallKeeps

LEMMA ReturnKeeps == ASSUME Inv, NEW q \in Callers, Return(q) PROVE Inv'
<1>1. /\ ending[q].step = "ended" /\ ending' = [ending EXCEPT ![q] = Idle] /\ part' = [part EXCEPT ![q] = NoParts]
      /\ UNCHANGED <<course, connected, disposed, live, opening, keyOf, running, recorded, data, holds>>
  BY DEF Return
<1>2. /\ Idle \in Endings /\ Idle.call = "none" /\ Idle.step = "idle" /\ Idle.off = FALSE
      /\ NoParts \in [OntologyKeys -> PartSteps] /\ \A k \in OntologyKeys : NoParts[k] = "none"
  BY DEF Idle, Endings, Steps, NoParts, PartSteps
<1>3. /\ ending' \in [Callers -> Endings] /\ ending'[q] = Idle /\ \A p \in Callers : p # q => ending'[p] = ending[p]
      /\ part' \in [Callers -> [OntologyKeys -> PartSteps]] /\ part'[q] = NoParts
      /\ \A p \in Callers : p # q => part'[p] = part[p]
  BY <1>1, <1>2 DEF Inv, Types
<1>4. CallMoves(q)
  <2>1. \A k \in OntologyKeys : part[q][k] \in {"none", "done"} BY <1>1 DEF Inv, Calling
  <2> QED BY <1>1, <1>3, <2>1 DEF CallMoves, Inv, Types
<1>5. Calling(q)' BY <1>2, <1>3 DEF Calling
<1>6. CleaningUp(q)' /\ Off(q)' BY <1>2, <1>3 DEF CleaningUp, Off
<1>7. \A j \in OntologyKeys : Final(q, j)' BY <1>2, <1>3 DEF Final
<1> QED BY <1>4, <1>5, <1>6, <1>7, CallKeeps

\* The cleanup finds no opening, and leaves running only what other calls end.
LEMMA CleanupEndKeeps == ASSUME Inv, NEW q \in Callers, CleanupEnds(q) PROVE Inv'
<1>1. /\ ending[q].step = "all" /\ Proceed(q, "ended") /\ running' = running \ {live[k] : k \in OntologyKeys}
      /\ live' = [k \in OntologyKeys |-> 0] /\ connected' = {}
      /\ UNCHANGED <<course, disposed, opening, keyOf, recorded, data, part, holds>>
  BY DEF CleanupEnds
<1>2. /\ ending[q].call = "cleanup" /\ disposed /\ \A k \in OntologyKeys : part[q][k] = "none" /\ opening[k] = "none"
  BY <1>1 DEF Inv, Calling, CleaningUp
<1>3. /\ ending' \in [Callers -> Endings] /\ \A p \in Callers : p # q => ending'[p] = ending[p]
      /\ ending'[q].call = "cleanup" /\ ending'[q].user = ending[q].user /\ ending'[q].step = "ended"
      /\ (ending'[q].off <=> ending[q].off) /\ (ending'[q].failed <=> ending[q].failed)
  BY <1>1, <1>2, StepMoves DEF Steps
<1>4. \A k \in OntologyKeys : live'[k] = 0 BY <1>1
<1>5. Types'
  <2>1. Len(keyOf) \in Nat BY DEF Inv, Types
  <2>2. live' \in [OntologyKeys -> 0..Len(keyOf')] BY <1>1, <2>1
  <2> QED BY <1>1, <1>3, <2>2, InstallationAssumption DEF Inv, Types
<1>6. Room' BY <1>1, RoomStays DEF Creating
<1>7. ASSUME NEW k \in OntologyKeys PROVE Slot(k)'
  BY <1>1, <1>2, <1>4 DEF Slot
<1>8. ASSUME NEW p \in Callers PROVE Calling(p)' /\ CleaningUp(p)'
  <2>1. Calling(p) /\ CleaningUp(p) BY DEF Inv
  <2>2. CASE p = q BY <1>1, <1>2, <1>3, <1>4, <2>2 DEF Calling, CleaningUp
  <2>3. CASE p # q BY <1>1, <1>3, <1>4, <2>1, <2>3 DEF Calling, CleaningUp
  <2> QED BY <2>2, <2>3
<1>9. ASSUME NEW p \in Callers, NEW k \in OntologyKeys PROVE Holding(p, k)'
  <2>1. Holding(p, k) BY DEF Inv
  <2> QED BY <1>1, <1>4, <2>1 DEF Holding
<1>10. ASSUME NEW i \in running' PROVE Accounted(i)'
  <2>0. i \in running /\ running \subseteq 1..Len(keyOf) /\ keyOf \in Seq(OntologyKeys)
    BY <1>1 DEF Inv, Types
  <2>1. i \in running /\ Accounted(i) /\ keyOf[i] \in OntologyKeys BY <2>0 DEF Inv
  <2>2. live[keyOf[i]] # i BY <1>1, <2>1
  <2>3. PICK p \in Callers : holds[p][keyOf[i]] = i BY <1>2, <2>1, <2>2 DEF Accounted
  <2> QED BY <1>1, <2>3 DEF Accounted
<1>11. ASSUME course.careful, NEW k \in OntologyKeys PROVE Listed(k)'
  BY <1>1, <1>4, <1>11 DEF Inv, Careful, Listed
<1>12. ASSUME course.careful, NEW p \in Callers PROVE Off(p)' /\ \A k \in OntologyKeys : Final(p, k)'
  <2>1. Off(p)'
    <3>1. Off(p) BY <1>12 DEF Inv, Careful
    <3>2. CASE p = q BY <1>1, <1>3, <3>2 DEF Off
    <3>3. CASE p # q BY <1>1, <1>3, <3>1, <3>3 DEF Off
    <3> QED BY <3>2, <3>3
  <2>2. ASSUME NEW k \in OntologyKeys PROVE Final(p, k)'
    <3>1. Final(p, k) BY <1>12 DEF Inv, Careful
    <3>2. CASE p = q BY <1>1, <1>2, <1>3, <3>2 DEF Final
    <3>3. CASE p # q BY <1>1, <1>2, <1>3, <1>4, <3>1, <3>3 DEF Final
    <3> QED BY <3>2, <3>3
  <2> QED BY <2>1, <2>2
<1>13. course' = course BY <1>1
<1> QED BY <1>5, <1>6, <1>7, <1>8, <1>9, <1>10, <1>11, <1>12, <1>13 DEF Inv, Careful

LEMMA ConnectKeeps == ASSUME Inv, NEW u \in Users, SignIn(u) PROVE Inv'
<1>1. /\ connected' = connected \cup {u} /\ (course.careful => \A q \in Callers : ending[q].user # u)
      /\ UNCHANGED <<course, disposed, live, opening, keyOf, running, recorded, data, ending, part, holds>>
  BY DEF SignIn
<1>2. Types' BY <1>1, InstallationAssumption DEF Inv, Types
<1>3. Room' BY <1>1, RoomStays DEF Creating
<1>4. ASSUME NEW k \in OntologyKeys PROVE Slot(k)'
  BY <1>1 DEF Inv, Slot, IsLast
<1>5. ASSUME NEW q \in Callers PROVE Calling(q)' /\ CleaningUp(q)' /\ \A k \in OntologyKeys : Holding(q, k)'
  <2>1. Calling(q) /\ CleaningUp(q) /\ \A k \in OntologyKeys : Holding(q, k) BY DEF Inv
  <2> QED BY <1>1, <2>1 DEF Calling, CleaningUp, Holding
<1>6. ASSUME NEW i \in running' PROVE Accounted(i)'
  <2>1. Accounted(i) BY <1>1 DEF Inv
  <2> QED BY <1>1, <2>1 DEF Accounted, LatestOf
<1>7. ASSUME course.careful, NEW k \in OntologyKeys PROVE Listed(k)'
  BY <1>1, <1>7 DEF Inv, Careful, Listed
<1>8. ASSUME course.careful, NEW q \in Callers PROVE Off(q)' /\ \A k \in OntologyKeys : Final(q, k)'
  <2>1. Off(q) /\ \A k \in OntologyKeys : Final(q, k) BY <1>8 DEF Inv, Careful
  <2> QED BY <1>1, <1>8, <2>1 DEF Off, Final
<1> QED BY <1>1, <1>2, <1>3, <1>4, <1>5, <1>6, <1>7, <1>8 DEF Inv, Careful

\* With nothing in memory, all that remains to be shown is that data has its record.
Afresh ==
  /\ disposed = FALSE /\ running = {} /\ connected = Users
  /\ live = [k \in OntologyKeys |-> 0] /\ opening = NoParts
  /\ ending = [q \in Callers |-> Idle] /\ part = [q \in Callers |-> NoParts]
  /\ holds = [q \in Callers |-> [k \in OntologyKeys |-> 0]]
  /\ keyOf \in Seq(OntologyKeys) /\ Len(keyOf) <= Instances
  /\ recorded \cup data \subseteq OntologyKeys /\ (course.careful => data \subseteq recorded)

LEMMA AfreshHolds == Afresh => Inv
<1> SUFFICES ASSUME Afresh PROVE Inv
  OBVIOUS
<1>1. /\ Idle \in Endings /\ Idle.call = "none" /\ Idle.step = "idle" /\ Idle.off = FALSE
      /\ NoParts \in [OntologyKeys -> PartSteps] /\ NoParts \in [OntologyKeys -> OpeningSteps]
      /\ \A k \in OntologyKeys : NoParts[k] = "none"
  BY DEF Idle, Endings, Steps, NoParts, PartSteps, OpeningSteps
<1>2. /\ \A k \in OntologyKeys : live[k] = 0 /\ opening[k] = "none"
      /\ \A q \in Callers : ending[q] = Idle /\ part[q] = NoParts /\ \A k \in OntologyKeys : holds[q][k] = 0
  BY <1>1 DEF Afresh
<1>3. Types
  <2>1. Len(keyOf) \in Nat /\ 0 \in 0..Len(keyOf) BY DEF Afresh
  <2>2. live \in [OntologyKeys -> 0..Len(keyOf)] BY <2>1 DEF Afresh
  <2>3. holds \in [Callers -> [OntologyKeys -> 0..Len(keyOf)]] BY <2>1 DEF Afresh
  <2> QED BY <1>1, <2>2, <2>3 DEF Types, Afresh
<1>4. Room
  <2>1. Creating = {} BY <1>2 DEF Creating
  <2>2. Cardinality(Creating) = 0 BY <2>1, FS_EmptySet
  <2> QED BY <2>2, InstallationAssumption DEF Room, Afresh
<1>5. ASSUME NEW k \in OntologyKeys PROVE Slot(k)
  BY <1>2 DEF Slot
<1>6. ASSUME NEW q \in Callers PROVE Calling(q) /\ CleaningUp(q) /\ \A k \in OntologyKeys : Holding(q, k)
  BY <1>1, <1>2 DEF Calling, CleaningUp, Holding
<1>7. \A i \in running : Accounted(i) BY DEF Afresh
<1>8. Careful
  <2>1. ASSUME course.careful, NEW k \in OntologyKeys PROVE Listed(k) BY <1>2, <2>1 DEF Listed, Afresh
  <2>2. ASSUME NEW q \in Callers PROVE Off(q) /\ \A k \in OntologyKeys : Final(q, k)
    BY <1>1, <1>2 DEF Off, Final
  <2> QED BY <2>1, <2>2 DEF Careful
<1> QED BY <1>3, <1>4, <1>5, <1>6, <1>7, <1>8 DEF Inv

LEMMA AfreshHoldsNext == Afresh' => Inv'
BY AfreshHolds, PTL

LEMMA ReloadKeeps == ASSUME Inv, Reload PROVE Inv'
<1>1. Len(keyOf) <= Instances
  BY CreatingIsFinite, InstallationAssumption DEF Inv, Types, Room
<1>2. course.careful => data \subseteq recorded
  BY DEF Inv, Types, Careful, Listed
<1>3. Afresh' BY <1>1, <1>2 DEF Reload, Afresh, Inv, Types
<1> QED BY <1>3, AfreshHoldsNext

LEMMA StutteringKeeps == ASSUME Inv, UNCHANGED installationVars PROVE Inv'
<1>1. UNCHANGED <<course, connected, disposed, live, opening, keyOf, running, recorded, data, ending, part, holds>>
  BY DEF installationVars, memory
<1>2. Types <=> Types' BY <1>1 DEF Types
<1>3. Room' BY <1>1, RoomStays DEF Creating
<1>4. ASSUME NEW k \in OntologyKeys PROVE Slot(k)'
  BY <1>1 DEF Inv, Slot, IsLast
<1>5. ASSUME NEW q \in Callers PROVE Calling(q)' /\ CleaningUp(q)' /\ \A k \in OntologyKeys : Holding(q, k)'
  <2>1. Calling(q) /\ CleaningUp(q) /\ \A k \in OntologyKeys : Holding(q, k) BY DEF Inv
  <2> QED BY <1>1, <2>1 DEF Calling, CleaningUp, Holding
<1>6. ASSUME NEW i \in running' PROVE Accounted(i)'
  <2>1. Accounted(i) BY <1>1 DEF Inv
  <2> QED BY <1>1, <2>1 DEF Accounted, LatestOf
<1>7. Careful'
  <2>1. ASSUME course.careful, NEW k \in OntologyKeys PROVE Listed(k)'
    BY <1>1, <2>1 DEF Inv, Careful, Listed
  <2>2. ASSUME course.careful, NEW q \in Callers PROVE Off(q)' /\ \A k \in OntologyKeys : Final(q, k)'
    <3>1. Off(q) /\ \A k \in OntologyKeys : Final(q, k) BY <2>2 DEF Inv, Careful
    <3> QED BY <1>1, <3>1 DEF Off, Final
  <2> QED BY <1>1, <2>1, <2>2 DEF Careful
<1> QED BY <1>2, <1>3, <1>4, <1>5, <1>6, <1>7 DEF Inv

----------------------------------------------------------------------------
(* The theorems *)

LEMMA InitEstablishes == ASSUME InstallationInit PROVE Inv
<1>1. course.keys \subseteq OntologyKeys BY InstallationAssumption DEF InstallationInit
<1>2. keyOf = <<>> /\ keyOf \in Seq(OntologyKeys) /\ Len(keyOf) = 0 BY DEF InstallationInit
<1>3. opening = NoParts BY DEF InstallationInit, NoParts
<1>4. Afresh BY <1>1, <1>2, <1>3, InstallationAssumption DEF InstallationInit, Afresh
<1> QED BY <1>4, AfreshHolds

LEMMA NextKeeps == Inv /\ [InstallationNext]_installationVars => Inv'
<1> SUFFICES ASSUME Inv, [InstallationNext]_installationVars PROVE Inv'
  OBVIOUS
<1>1. ASSUME NEW k \in OntologyKeys, OpenOntology(k) \/ OpeningFails(k) \/ Opening(k) PROVE Inv'
  BY <1>1, OpenKeeps, FailureKeeps, ConfigureKeeps, CreationKeeps, WithdrawalKeeps DEF Opening
<1>2. ASSUME NEW q \in Callers, NEW k \in OntologyKeys,
             CloseOntology(q, k) \/ Progress(q, k) \/ PartFails(q, k)
      PROVE  Inv'
  BY <1>2, CloseKeeps, ProgressKeeps, PartFailureKeeps
<1>3. ASSUME NEW q \in Callers, NEW u \in Users, Disconnect(q, u) \/ Forget(q, u) PROVE Inv'
  BY <1>3, DisconnectKeeps, ForgetKeeps
<1>4. ASSUME NEW q \in Callers, Cleanup(q) \/ Going(q) \/ ConnectionEnds(q, FALSE) PROVE Inv'
  <2>1. CASE \E ok \in BOOLEAN : ConnectionEnds(q, ok) BY <2>1, ConnectionEndKeeps
  <2>2. CASE DestroyUserPartitions(q) \/ CleanupContinues(q) \/ CleanupEnds(q)
    BY <2>2, DestroyKeeps, CleanupGoesOn, CleanupEndKeeps
  <2>3. CASE Cleanup(q) \/ PartsEnd(q) \/ Return(q) BY <2>3, CleanupKeeps, PartsEndKeeps, ReturnKeeps
  <2> QED BY <1>4, <2>1, <2>2, <2>3 DEF Going
<1>5. CASE (\E u \in Users : SignIn(u)) \/ Reload BY <1>5, ConnectKeeps, ReloadKeeps
<1>6. CASE UNCHANGED installationVars BY <1>6, StutteringKeeps
<1> QED BY <1>1, <1>2, <1>3, <1>4, <1>5, <1>6 DEF InstallationNext

\* The installation's variables have their types, no more live ontologies are created than the bound
\* allows, and when a cleanup goes on to what is cached nothing is being opened.
THEOREM InstallationTypeCorrect == InstallationSpec => []InstallationTypeOK
<1>1. InstallationInit => Inv BY InitEstablishes
<1>2. Inv /\ [InstallationNext]_installationVars => Inv' BY NextKeeps
<1>3. Inv => InstallationTypeOK
  <2> SUFFICES ASSUME Inv PROVE InstallationTypeOK
    OBVIOUS
  <2>1. Len(keyOf) <= Instances BY CreatingIsFinite, InstallationAssumption DEF Inv, Types, Room
  <2>2. \A q \in Callers : ending[q].step \in Steps BY DEF Inv, Types, Endings
  <2>3. ASSUME NEW q \in Callers, ending[q].call = "cleanup", ending[q].step \in {"all", "ended"}
        PROVE  opening = NoParts
    <3>1. \A k \in OntologyKeys : opening[k] = "none" BY <2>3 DEF Inv, CleaningUp
    <3> QED BY <3>1 DEF Inv, Types, NoParts
  <2> QED BY <2>1, <2>2, <2>3 DEF InstallationTypeOK, Inv, Types, Steps, OpeningSteps, PartSteps
<1> QED BY <1>1, <1>2, <1>3, PTL DEF InstallationSpec

LEMMA CacheFollows == ASSUME Inv PROVE CacheIsExact
<1>1. ASSUME NEW k \in OntologyKeys, live[k] # 0
      PROVE  live[k] \in running /\ \A q \in Callers : holds[q][k] # live[k]
  BY <1>1 DEF Inv, Slot, Holding
<1>2. ASSUME NEW i \in running
      PROVE  \/ live[keyOf[i]] = i \/ (opening[keyOf[i]] = "withdrawing" /\ LatestOf(keyOf[i]) = i)
             \/ \E q \in Callers : holds[q][keyOf[i]] = i
  BY DEF Inv, Accounted
<1> QED BY <1>1, <1>2 DEF CacheIsExact

LEMMA CallsFollow == ASSUME Inv, course.careful, NEW q \in Callers, ending[q].step = "ended"
  PROVE  /\ \A k \in OntologyKeys : part[q][k] = "done" => live[k] = 0
         /\ ending[q].call \in {"disconnect", "forget"} /\ ~ending[q].failed =>
              ending[q].user \notin connected /\ \A k \in Of(ending[q].user) : live[k] = 0
         /\ ending[q].call = "forget" /\ ~ending[q].failed => Of(ending[q].user) \cap (data \cup recorded) = {}
         /\ ending[q].call = "cleanup" => running \subseteq {holds[p][k] : p \in Callers, k \in OntologyKeys}
<1>1. Off(q) /\ Calling(q) /\ CleaningUp(q) /\ \A k \in OntologyKeys : Final(q, k) /\ Listed(k)
  BY DEF Inv, Careful
<1>2. \A k \in OntologyKeys : part[q][k] = "done" => live[k] = 0
  BY <1>1 DEF Final
<1>3. ASSUME NEW k \in Of(ending[q].user), ending[q].call = "forget", ~ending[q].failed
      PROVE  k \notin recorded /\ k \notin data /\ live[k] = 0
  <2>1. k \in OntologyKeys /\ Owner[k] = ending[q].user /\ Final(q, k) /\ Calling(q) /\ Listed(k)
    BY <1>1 DEF Of
  <2>2. part[q][k] \in {"none", "done"} BY <2>1 DEF Calling
  <2>3. k \notin recorded BY <1>3, <2>1, <2>2 DEF Final
  <2> QED BY <2>1, <2>3 DEF Listed
<1>4. ASSUME NEW k \in Of(ending[q].user), ending[q].call = "disconnect" PROVE live[k] = 0
  <2>1. k \in OntologyKeys /\ Owner[k] = ending[q].user /\ Final(q, k) /\ Calling(q)
    BY <1>1 DEF Of
  <2>2. part[q][k] \in {"none", "done"} BY <2>1 DEF Calling
  <2> QED BY <1>4, <2>1, <2>2 DEF Final
<1>5. ASSUME ending[q].call = "cleanup", NEW i \in running
      PROVE  \E p \in Callers, k \in OntologyKeys : i = holds[p][k]
  <2>1. Accounted(i) /\ running \subseteq 1..Len(keyOf) /\ keyOf \in Seq(OntologyKeys) BY DEF Inv, Types
  <2>2. keyOf[i] \in OntologyKeys /\ i # 0 BY <2>1
  <2>3. opening[keyOf[i]] = "none" /\ live[keyOf[i]] = 0 BY <1>1, <1>5, <2>2 DEF CleaningUp
  <2> QED BY <2>1, <2>2, <2>3 DEF Accounted
<1>6. ending[q].call \in {"disconnect", "forget"} /\ ~ending[q].failed => ending[q].user \notin connected
  BY <1>1 DEF Off
<1> QED BY <1>2, <1>3, <1>4, <1>5, <1>6

\* However openings, closings and failures meet, no live ontology and no local data is lost sight of,
\* and calls that end something have ended it.
THEOREM NothingLost == InstallationSpec => []NothingIsLost
<1>1. InstallationInit => Inv BY InitEstablishes
<1>2. Inv /\ [InstallationNext]_installationVars => Inv' BY NextKeeps
<1>3. Inv => NothingIsLost
  <2> SUFFICES ASSUME Inv PROVE NothingIsLost
    OBVIOUS
  <2>1. StoredIsRecorded BY DEF Inv, Types, Careful, Listed, StoredIsRecorded
  <2>2. CallsAreComplete
    <3> SUFFICES ASSUME course.careful, NEW q \in Callers, ending[q].step = "ended"
                 PROVE  /\ \A k \in OntologyKeys : part[q][k] = "done" => live[k] = 0
                        /\ Succeeded(q, "disconnect") \/ Succeeded(q, "forget") =>
                             ending[q].user \notin connected /\ \A k \in Of(ending[q].user) : live[k] = 0
                        /\ Succeeded(q, "forget") => Of(ending[q].user) \cap (data \cup recorded) = {}
                        /\ Succeeded(q, "cleanup") =>
                             running \subseteq {holds[p][k] : p \in Callers, k \in OntologyKeys}
      BY DEF CallsAreComplete, Succeeded
    <3> QED BY CallsFollow DEF Succeeded
  <2> QED BY <2>1, <2>2, CacheFollows DEF NothingIsLost
<1> QED BY <1>1, <1>2, <1>3, PTL DEF InstallationSpec

----------------------------------------------------------------------------
(* Executions of actions: the inductive invariant *)

Remotes == [local : setup.ids, copy : Nat]
Mappings == [local : setup.ids, remote : Remotes]
Reports == [attempt : Nat, refers : [setup.referred -> Remotes]]
Trying == {"making", "applying", "binding", "done"}

\* Each attempt but the one under way has had its fault.
ExecutionTyped ==
  /\ setup \in Setups /\ step \in Trying \cup {"ready", "failed"}
  /\ early \in {"none", "reading", "storing", "done"}
  /\ DOMAIN making \subseteq UsedIds /\ \A id \in DOMAIN making : making[id] \in {"reading", "storing"}
  /\ results \in [setup.ids -> Remotes] \/ step = "ready"
  /\ uploads \subseteq setup.ids /\ mappings \subseteq Mappings
  /\ stored \subseteq Remotes /\ IsFiniteSet(stored)
  /\ applied \subseteq Reports /\ bound \in [setup.ids -> Remotes]
  /\ abandoned \subseteq [id : setup.ids, attempt : 1..setup.faults]
  /\ faulty \in 0..setup.faults /\ attempts = IF step \in Trying THEN faulty + 1 ELSE faulty

MadeIds == UsedIds \ DOMAIN making

\* Of the attachments that have been made, those that go as uploads have no mapping and keep their
\* ids; the others are stored under the ids that stand for them, of which the new ones are mapped.
Prepared ==
  step \in {"making", "applying"} =>
    /\ uploads \subseteq MadeIds
    /\ \A id \in MadeIds :
         /\ id \in uploads <=> ~CanMaterialize(id)
         /\ id \notin uploads => results[id] \in stored
         /\ id \notin uploads /\ results[id] # Local(id) =>
              [local |-> id, remote |-> results[id]] \in mappings
    /\ \A m \in mappings : m.local \in MadeIds \ uploads /\ results[m.local] = m.remote
    /\ \A id \in DOMAIN making : making[id] = "storing" => CanMaterialize(id)
    /\ step = "applying" => DOMAIN making = {}

\* Ids that are kept are not mapped, and what is known by its own id is stored under it.
Kept ==
  setup.backend = "stable" =>
    /\ step \in {"making", "applying"} => \A id \in UsedIds : CanMaterialize(id) => results[id] = Local(id)
    /\ \A m \in mappings : ~CanMaterialize(m.local)
    /\ early = "none" => \A id \in UsedIds : CanMaterialize(id) => bound[id] = Local(id)
\* Ids that are not kept are all mapped: no copy has the local id.
Renamed ==
  setup.backend = "renaming" /\ step \in {"making", "applying"} =>
    \A id \in MadeIds : results[id].copy > 0

\* Wherever the backend comes across an attachment, it has been collected.
EveryUseIsCollected(s) == s.referred \subseteq Range(s.uses)

Arrived == EveryUseIsCollected(setup) => AppliedIsStored
\* Of what the last attempt's action refers to, what is not bound yet is going to be.
Binds ==
  step \in {"binding", "done"} /\ OneKind /\ ~(setup.recognises /\ faulty > 0) /\ early = "none"
    /\ EveryUseIsCollected(setup) =>
    \E a \in applied :
      /\ a.attempt = attempts
      /\ \A use \in setup.referred :
           /\ \A m \in mappings : m.local = use.id => m.remote = a.refers[use]
           /\ a.refers[use] = bound[use.id] \/ \E m \in mappings : m.local = use.id
\* Nothing is applied before the first attempt applies it.
NotYet == faulty = 0 /\ step \notin {"binding", "done"} => applied = {}
DoneIsBound == step = "done" => mappings = {}

ExecutionInv ==
  ExecutionTyped /\ Prepared /\ Kept /\ Renamed /\ Arrived /\ Binds /\ NotYet /\ DoneIsBound
----------------------------------------------------------------------------
(* Ids and kinds *)

LEMMA SetupIs ==
  ASSUME setup \in Setups
  PROVE  /\ IsFiniteSet(setup.ids) /\ setup.first \in setup.ids /\ setup.faults \in Nat
         /\ setup.uses \in Seq(AttachmentUses(setup.ids)) /\ setup.referred \subseteq AttachmentUses(setup.ids)
         /\ setup.backend \in {"uploads", "renaming", "stable"}
         /\ UsedIds \subseteq setup.ids
         /\ \A use \in setup.referred : use.id \in setup.ids
         /\ \A id \in UsedIds : Uses(id) \subseteq Nat /\ Uses(id) # {}
<1>1. /\ IsFiniteSet(setup.ids) /\ setup.first \in setup.ids /\ setup.faults \in Nat
      /\ setup.uses \in Seq(AttachmentUses(setup.ids)) /\ setup.referred \subseteq AttachmentUses(setup.ids)
      /\ setup.backend \in {"uploads", "renaming", "stable"}
  BY ExecutionAssumption
<1>2. \A i \in DOMAIN setup.uses : i \in Nat /\ setup.uses[i] \in AttachmentUses(setup.ids) BY <1>1
<1>3. \A u \in AttachmentUses(setup.ids) : u.id \in setup.ids BY DEF AttachmentUses
<1>4. UsedIds \subseteq setup.ids BY <1>2, <1>3 DEF UsedIds, Range
<1>5. \A id \in UsedIds : Uses(id) \subseteq Nat /\ Uses(id) # {}
  BY <1>2 DEF UsedIds, Uses, Range
<1> QED BY <1>1, <1>3, <1>4, <1>5

LEMMA LeastIs ==
  ASSUME NEW S, S \subseteq Nat, S # {}
  PROVE  Min(S) \in S
<1>1. PICK m \in S : \A n \in S : ~(<<n, m>> \in OpToRel(<, Nat)) BY WFMin, NatLessThanWellFounded
<1>2. \A n \in S : m <= n
  <2>1. ASSUME NEW n \in S PROVE m <= n
    <3>1. m \in Nat /\ n \in Nat OBVIOUS
    <3>2. ~(n < m) BY <1>1, <3>1 DEF OpToRel
    <3> QED BY <3>1, <3>2
  <2> QED BY <2>1
<1> QED BY <1>2 DEF Min

\* Where each attachment is used as one kind, whether it is materialized is told by any use.
LEMMA KindsAgree ==
  ASSUME setup \in Setups, OneKind, setup.backend = "stable", NEW id \in UsedIds,
         NEW use \in Range(setup.uses) \cup setup.referred, use.id = id
  PROVE  use.target = "media" <=> ~CanMaterialize(id)
<1> DEFINE i == Min(Uses(id))
<1>1. i \in Uses(id) BY SetupIs, LeastIs
<1>2. i \in DOMAIN setup.uses /\ setup.uses[i].id = id BY <1>1 DEF Uses
<1>3. setup.uses[i] \in Range(setup.uses) BY <1>2 DEF Range
<1>4. setup.uses[i].target = "media" <=> use.target = "media" BY <1>2, <1>3 DEF OneKind
<1> QED BY <1>4 DEF CanMaterialize, Materializes

LEMMA CopyIs ==
  ASSUME ExecutionTyped, NEW id \in setup.ids
  PROVE  /\ Copy(id) \in Remotes /\ Copy(id).copy > 0 /\ Copy(id) # Local(id)
         /\ Local(id) \in Remotes
<1> DEFINE copies == {s \in stored : s.local = id /\ s.copy > 0}
<1>1. IsFiniteSet(copies) BY FS_Subset DEF ExecutionTyped
<1>2. Cardinality(copies) \in Nat BY <1>1, FS_CardinalityType
<1> HIDE DEF copies
<1>3. Copy(id) = [local |-> id, copy |-> 1 + Cardinality(copies)] BY DEF Copy, copies
<1> QED BY <1>2, <1>3 DEF Remotes, Local

\* What depends on the setup only.
LEMMA SetupStays ==
  ASSUME UNCHANGED setup
  PROVE  /\ UsedIds' = UsedIds /\ Remotes' = Remotes /\ Mappings' = Mappings /\ Reports' = Reports
         /\ OneKind' = OneKind /\ EveryUseIsCollected(setup)' = EveryUseIsCollected(setup)
         /\ \A id : CanMaterialize(id)' = CanMaterialize(id)
BY DEF EveryUseIsCollected, UsedIds, Remotes, Mappings, Reports, OneKind, CanMaterialize, Materializes, Uses

----------------------------------------------------------------------------
(* The invariant holds initially, and each step keeps it. *)

LEMMA ExecutionStarts == ExecutionInit => ExecutionInv
<1> SUFFICES ASSUME ExecutionInit PROVE ExecutionInv OBVIOUS
<1> USE DEF ExecutionInit, ExecutionStart
<1>1. ExecutionTyped
  <2>1. \A id \in setup.ids : Local(id) \in Remotes BY DEF Local, Remotes
  <2>2. DOMAIN making = {} OBVIOUS
  <2>3. IsFiniteSet(stored) BY FS_EmptySet
  <2> QED BY <2>1, <2>2, <2>3, SetupIs DEF ExecutionTyped, Trying
<1>2. Prepared BY DEF Prepared
<1>3. Kept /\ Renamed
  <2>1. \A id \in UsedIds : id \in setup.ids BY SetupIs
  <2> QED BY <2>1 DEF Kept, Renamed
<1>4. Arrived /\ Binds /\ NotYet /\ DoneIsBound
  BY DEF Arrived, AppliedIsStored, Binds, NotYet, DoneIsBound
<1> QED BY <1>1, <1>2, <1>3, <1>4 DEF ExecutionInv

LEMMA BeginKeeps == ASSUME ExecutionInv, Begin PROVE ExecutionInv'
<1> USE DEF Begin
<1>0. ExecutionTyped BY DEF ExecutionInv
<1>s. setup' = setup OBVIOUS
<1>u. /\ UsedIds' = UsedIds /\ Remotes' = Remotes /\ Mappings' = Mappings /\ Reports' = Reports
      /\ EveryUseIsCollected(setup)' = EveryUseIsCollected(setup)
      /\ OneKind' = OneKind /\ \A id : CanMaterialize(id)' = CanMaterialize(id)
  BY <1>s, SetupStays
<1>1. ExecutionTyped'
  <2>1. \A id \in setup.ids : Local(id) \in Remotes BY DEF Local, Remotes
  <2>2. DOMAIN making' = UsedIds /\ \A id \in DOMAIN making' : making'[id] \in {"reading", "storing"}
    OBVIOUS
  <2>3. results' \in [setup.ids -> Remotes] BY <2>1
  <2>4. faulty \in Nat BY <1>0, SetupIs DEF ExecutionTyped
  <2>5. attempts' = faulty' + 1 /\ step' \in Trying BY <1>0, <2>4 DEF ExecutionTyped, Trying
  <2> QED BY <1>0, <1>u, <2>2, <2>3, <2>5 DEF ExecutionTyped
<1>2. Prepared'
  <2>1. MadeIds' = {} BY <1>u DEF MadeIds
  <2>2. /\ uploads' = {} /\ mappings' = {} /\ step' # "applying"
        /\ \A id \in DOMAIN making' : making'[id] = "reading"
    OBVIOUS
  <2> QED BY <2>1, <2>2 DEF Prepared
<1>3. Kept'
  <2>1. \A id \in UsedIds : results'[id] = Local(id) BY <1>0, SetupIs DEF ExecutionTyped
  <2> QED BY <1>u, <2>1 DEF ExecutionInv, Kept
<1>4. Renamed'
  <2>1. MadeIds' = {} BY <1>u DEF MadeIds
  <2> QED BY <2>1 DEF Renamed
<1>5. Arrived' BY <1>u DEF ExecutionInv, Arrived, AppliedIsStored
<1>6. Binds' /\ NotYet' /\ DoneIsBound' BY DEF ExecutionInv, Binds, NotYet, DoneIsBound
<1> QED BY <1>1, <1>2, <1>3, <1>4, <1>5, <1>6 DEF ExecutionInv

\* An attachment has been made, and `remote' stands for it.
LEMMA BecameKeeps ==
  ASSUME ExecutionInv, step = "making", NEW id \in DOMAIN making, CanMaterialize(id),
         NEW remote \in Remotes, Became(id, remote), remote \in stored',
         setup.backend = "stable" => remote = Local(id),
         setup.backend = "renaming" => remote.copy > 0,
         UNCHANGED <<setup, step, uploads>>
  PROVE  /\ DOMAIN making' = DOMAIN making \ {id}
         /\ \A other \in DOMAIN making' : making'[other] = making[other]
         /\ results' \in [setup.ids -> Remotes] /\ mappings' \subseteq Mappings
         /\ stored \subseteq stored' => Prepared'
         /\ UNCHANGED <<bound, early>> => Kept'
         /\ Renamed'
<1>0. ExecutionTyped /\ Prepared /\ Kept /\ Renamed BY DEF ExecutionInv
<1>u. /\ UsedIds' = UsedIds /\ Remotes' = Remotes /\ Mappings' = Mappings /\ Reports' = Reports
      /\ EveryUseIsCollected(setup)' = EveryUseIsCollected(setup)
      /\ OneKind' = OneKind /\ \A other : CanMaterialize(other)' = CanMaterialize(other)
  BY SetupStays
<1>1. DOMAIN making' = DOMAIN making \ {id} /\ \A other \in DOMAIN making' : making'[other] = making[other]
  BY DEF Became, Finished
<1>2. id \in UsedIds /\ id \in setup.ids /\ id \notin MadeIds
  BY <1>0, SetupIs DEF ExecutionTyped, MadeIds
<1>3. /\ results \in [setup.ids -> Remotes] /\ results' \in [setup.ids -> Remotes] /\ results'[id] = remote
      /\ \A other \in setup.ids : other # id => results'[other] = results[other]
  BY <1>0, <1>2 DEF ExecutionTyped, Became
<1>4. MadeIds' = MadeIds \cup {id} BY <1>1, <1>2, <1>u DEF MadeIds
<1>5. /\ mappings' = mappings \/ mappings' = mappings \cup {[local |-> id, remote |-> remote]}
      /\ mappings \subseteq mappings'
      /\ remote # Local(id) => [local |-> id, remote |-> remote] \in mappings'
      /\ remote = Local(id) => mappings' = mappings
  BY DEF Became
<1>6. mappings' \subseteq Mappings BY <1>0, <1>2, <1>5 DEF ExecutionTyped, Mappings
<1>7. \A other \in MadeIds : other # id /\ other \in setup.ids
  BY <1>0, <1>2, SetupIs DEF MadeIds, ExecutionTyped
<1>8. ASSUME stored \subseteq stored' PROVE Prepared'
  <2>1. uploads' \subseteq MadeIds' /\ id \notin uploads' BY <1>0, <1>2, <1>4 DEF Prepared
  <2>2. ASSUME NEW other \in MadeIds'
        PROVE  /\ other \in uploads' <=> ~CanMaterialize(other)'
               /\ other \notin uploads' => results'[other] \in stored'
               /\ other \notin uploads' /\ results'[other] # Local(other)
                    => [local |-> other, remote |-> results'[other]] \in mappings'
    <3>1. CASE other = id BY <1>3, <1>5, <1>u, <2>1, <3>1
    <3>2. CASE other # id
      <4>1. other \in MadeIds /\ results'[other] = results[other] BY <1>3, <1>4, <1>7, <2>2, <3>2
      <4> QED BY <1>0, <1>5, <1>8, <1>u, <4>1 DEF Prepared
    <3> QED BY <3>1, <3>2
  <2>3. ASSUME NEW m \in mappings' PROVE m.local \in MadeIds' \ uploads' /\ results'[m.local] = m.remote
    <3>1. CASE m = [local |-> id, remote |-> remote] BY <1>3, <1>4, <2>1, <3>1
    <3>2. CASE m \in mappings
      <4>1. m.local \in MadeIds \ uploads /\ results[m.local] = m.remote BY <1>0, <3>2 DEF Prepared
      <4> QED BY <1>3, <1>4, <1>7, <4>1
    <3> QED BY <1>5, <2>3, <3>1, <3>2
  <2>4. \A other \in DOMAIN making' : making'[other] = "storing" => CanMaterialize(other)'
    BY <1>0, <1>1, <1>u DEF Prepared
  <2> QED BY <2>1, <2>2, <2>3, <2>4 DEF Prepared
<1>9. ASSUME UNCHANGED <<bound, early>> PROVE Kept'
  <2> SUFFICES ASSUME setup.backend = "stable" PROVE Kept' BY DEF Kept
  <2>1. remote = Local(id) /\ mappings' = mappings BY <1>5
  <2>2. \A other \in UsedIds : CanMaterialize(other) => results'[other] = Local(other)
    BY <1>0, <1>3, <2>1, SetupIs DEF Kept, ExecutionTyped
  <2> QED BY <1>0, <1>9, <1>u, <2>1, <2>2 DEF Kept
<1>10. Renamed' BY <1>0, <1>3, <1>4, <1>7 DEF Renamed
<1> QED BY <1>1, <1>3, <1>6, <1>8, <1>9, <1>10

LEMMA ReadKeeps == ASSUME ExecutionInv, NEW id \in setup.ids, Read(id) PROVE ExecutionInv'
<1> USE DEF Read, Unmoved
<1>0. ExecutionTyped /\ Prepared /\ Kept /\ Renamed BY DEF ExecutionInv
<1>s. setup' = setup OBVIOUS
<1>u. /\ UsedIds' = UsedIds /\ Remotes' = Remotes /\ Mappings' = Mappings /\ Reports' = Reports
      /\ EveryUseIsCollected(setup)' = EveryUseIsCollected(setup)
      /\ OneKind' = OneKind /\ \A other : CanMaterialize(other)' = CanMaterialize(other)
  BY <1>s, SetupStays
<1>1. step = "making" /\ step' = "making" /\ id \in DOMAIN making /\ making[id] = "reading" OBVIOUS
<1>2. id \in UsedIds /\ id \notin MadeIds BY <1>0, <1>1 DEF ExecutionTyped, MadeIds
<1>3. Arrived' /\ Binds' /\ NotYet' /\ DoneIsBound'
  BY <1>u DEF ExecutionInv, Arrived, AppliedIsStored, Binds, NotYet, DoneIsBound
<1>4. results \in [setup.ids -> Remotes] BY <1>0, <1>1 DEF ExecutionTyped
<1>5. ASSUME DOMAIN making' \subseteq UsedIds, \A i \in DOMAIN making' : making'[i] \in {"reading", "storing"},
             results' \in [setup.ids -> Remotes], uploads' \subseteq setup.ids, mappings' \subseteq Mappings
      PROVE  ExecutionTyped'
  BY <1>0, <1>1, <1>5, <1>u DEF ExecutionTyped, Trying
<1>6. CASE ~CanMaterialize(id)
  <2>1. uploads' = uploads \cup {id} /\ Finished(id) /\ UNCHANGED <<results, mappings>> BY <1>6
  <2>2. DOMAIN making' = DOMAIN making \ {id} /\ \A i \in DOMAIN making' : making'[i] = making[i]
    BY <2>1 DEF Finished
  <2>3. MadeIds' = MadeIds \cup {id} BY <1>1, <1>2, <1>u, <2>2 DEF MadeIds
  <2>4. ExecutionTyped' BY <1>0, <1>4, <1>5, <2>1, <2>2 DEF ExecutionTyped
  <2>5. Prepared' BY <1>0, <1>1, <1>2, <1>6, <1>u, <2>1, <2>2, <2>3 DEF Prepared
  <2>6. Kept' BY <1>0, <1>1, <1>u, <2>1 DEF Kept
  <2>7. Renamed'
    <3> SUFFICES ASSUME setup.backend = "renaming" PROVE Renamed' BY DEF Renamed
    <3>1. FALSE BY <1>6 DEF CanMaterialize, Materializes
    <3> QED BY <3>1
  <2> QED BY <1>3, <2>4, <2>5, <2>6, <2>7 DEF ExecutionInv
<1>7. CASE CanMaterialize(id) /\ setup.backend = "stable" /\ Local(id) \in stored
  <2>1. Became(id, Local(id)) /\ UNCHANGED uploads BY <1>7
  <2>2. Local(id) \in Remotes BY <1>0, CopyIs
  <2>3. Local(id) \in stored' /\ UNCHANGED <<setup, step, uploads>> /\ stored \subseteq stored'
        /\ UNCHANGED <<bound, early>>
    BY <1>7, <2>1
  <2>4. setup.backend = "renaming" => Local(id).copy > 0 BY <1>7
  <2>5. /\ DOMAIN making' = DOMAIN making \ {id}
        /\ \A other \in DOMAIN making' : making'[other] = making[other]
        /\ results' \in [setup.ids -> Remotes] /\ mappings' \subseteq Mappings
        /\ Prepared' /\ Kept' /\ Renamed'
    BY <1>1, <1>7, <2>1, <2>2, <2>3, <2>4, BecameKeeps
  <2>6. ExecutionTyped' BY <1>0, <1>5, <2>3, <2>5 DEF ExecutionTyped
  <2> QED BY <1>3, <2>5, <2>6 DEF ExecutionInv
<1>8. CASE CanMaterialize(id) /\ ~(setup.backend = "stable" /\ Local(id) \in stored)
  <2>1. making' = [making EXCEPT ![id] = "storing"] /\ UNCHANGED <<results, mappings, uploads>> BY <1>8
  <2>2. DOMAIN making' = DOMAIN making BY <2>1
  <2>3. \A i \in DOMAIN making' : making'[i] \in {"reading", "storing"} BY <1>0, <2>1 DEF ExecutionTyped
  <2>4. ExecutionTyped' BY <1>0, <1>4, <1>5, <2>1, <2>2, <2>3 DEF ExecutionTyped
  <2>5. MadeIds' = MadeIds BY <1>u, <2>2 DEF MadeIds
  <2>6. \A i \in DOMAIN making' : making'[i] = "storing" => CanMaterialize(i)
    BY <1>0, <1>1, <1>8, <2>1 DEF Prepared, ExecutionTyped
  <2>7. Prepared' BY <1>0, <1>1, <1>u, <2>1, <2>2, <2>5, <2>6 DEF Prepared
  <2>8. Kept' /\ Renamed' BY <1>0, <1>1, <1>u, <2>1, <2>5 DEF Kept, Renamed
  <2> QED BY <1>3, <2>4, <2>7, <2>8 DEF ExecutionInv
<1> QED BY <1>6, <1>7, <1>8

LEMMA StoreKeeps == ASSUME ExecutionInv, NEW id \in setup.ids, Store(id) PROVE ExecutionInv'
<1> USE DEF Store, Unmoved
<1>0. ExecutionTyped BY DEF ExecutionInv
<1> DEFINE remote == Stored(id)
<1>s. setup' = setup OBVIOUS
<1>u. /\ UsedIds' = UsedIds /\ Remotes' = Remotes /\ Mappings' = Mappings /\ Reports' = Reports
      /\ EveryUseIsCollected(setup)' = EveryUseIsCollected(setup)
      /\ OneKind' = OneKind /\ \A other : CanMaterialize(other)' = CanMaterialize(other)
  BY <1>s, SetupStays
<1>1. /\ step = "making" /\ id \in DOMAIN making /\ making[id] = "storing"
      /\ stored' = stored \cup {remote} /\ Became(id, remote)
  OBVIOUS
<1>2. remote \in Remotes /\ (setup.backend = "renaming" => remote.copy > 0) BY <1>0, CopyIs DEF Stored
<1>3. CanMaterialize(id)
 BY <1>0, <1>1 DEF ExecutionInv, Prepared
<1>4. remote \in stored' /\ stored \subseteq stored' BY <1>1
<1>5. UNCHANGED <<setup, step, uploads, bound, early, applied, attempts, faulty>> OBVIOUS
<1>6. /\ DOMAIN making' = DOMAIN making \ {id}
      /\ \A other \in DOMAIN making' : making'[other] = making[other]
      /\ results' \in [setup.ids -> Remotes] /\ mappings' \subseteq Mappings
      /\ Prepared' /\ Kept' /\ Renamed'
  <2>1. setup.backend = "stable" => remote = Local(id) BY DEF Stored
  <2> HIDE DEF remote
  <2> QED BY <1>1, <1>2, <1>3, <1>4, <1>5, <2>1, BecameKeeps
<1>7. stored' \subseteq Remotes /\ IsFiniteSet(stored')
  BY <1>0, <1>1, <1>2, FS_AddElement DEF ExecutionTyped
<1>8. ExecutionTyped' BY <1>0, <1>1, <1>5, <1>6, <1>7, <1>u DEF ExecutionTyped, Trying
<1>9. Arrived' BY <1>4, <1>5, <1>u DEF ExecutionInv, Arrived, AppliedIsStored
<1>10. Binds' /\ NotYet' /\ DoneIsBound' BY <1>1, <1>5 DEF ExecutionInv, Binds, NotYet, DoneIsBound
<1> QED BY <1>6, <1>8, <1>9, <1>10 DEF ExecutionInv

LEMMA MadeKeeps == ASSUME ExecutionInv, Made PROVE ExecutionInv'
<1> USE DEF Made, Unmoved
<1>0. ExecutionTyped /\ Prepared /\ Kept /\ Renamed BY DEF ExecutionInv
<1>s. setup' = setup OBVIOUS
<1>u. /\ UsedIds' = UsedIds /\ Remotes' = Remotes /\ Mappings' = Mappings /\ Reports' = Reports
      /\ EveryUseIsCollected(setup)' = EveryUseIsCollected(setup)
      /\ OneKind' = OneKind /\ \A other : CanMaterialize(other)' = CanMaterialize(other)
  BY <1>s, SetupStays
<1>1. step = "making" /\ step' = "applying" /\ DOMAIN making = {} OBVIOUS
<1>2. UNCHANGED <<making, results, uploads, mappings, stored, applied, bound, faulty, early, attempts>>
  OBVIOUS
<1>3. MadeIds' = MadeIds BY <1>2, <1>u DEF MadeIds
<1>4. ExecutionTyped' BY <1>0, <1>1, <1>2, <1>u DEF ExecutionTyped, Trying
<1>5. Prepared' BY <1>0, <1>1, <1>2, <1>3, <1>u DEF Prepared
<1>6. Kept' /\ Renamed' BY <1>0, <1>1, <1>2, <1>3, <1>u DEF Kept, Renamed
<1>7. Arrived' /\ Binds' /\ NotYet' /\ DoneIsBound'
  BY <1>1, <1>2, <1>u DEF ExecutionInv, Arrived, AppliedIsStored, Binds, NotYet, DoneIsBound
<1> QED BY <1>4, <1>5, <1>6, <1>7 DEF ExecutionInv

\* An attempt fails, and maybe leaves some of its attachments to be stored.
LEMMA FailedKeeps ==
  ASSUME ExecutionInv, step \in Trying, step' = "failed", Faulty,
         abandoned' \subseteq [id : setup.ids, attempt : 1..setup.faults],
         UNCHANGED <<setup, making, results, uploads, mappings, stored, applied, bound, early, attempts>>
  PROVE  ExecutionInv'
<1> USE DEF Faulty
<1>0. ExecutionTyped /\ Kept BY DEF ExecutionInv
<1>s. setup' = setup OBVIOUS
<1>u. /\ UsedIds' = UsedIds /\ Remotes' = Remotes /\ Mappings' = Mappings /\ Reports' = Reports
      /\ EveryUseIsCollected(setup)' = EveryUseIsCollected(setup)
      /\ OneKind' = OneKind /\ \A other : CanMaterialize(other)' = CanMaterialize(other)
  BY <1>s, SetupStays
<1>1. /\ step \in Trying /\ step' = "failed" /\ step' \notin Trying
      /\ faulty < setup.faults /\ faulty' = faulty + 1
  BY DEF Trying
<1>2. UNCHANGED <<making, results, uploads, mappings, stored, applied, bound, early, attempts>> OBVIOUS
<1>3. faulty \in Nat /\ setup.faults \in Nat BY <1>0, SetupIs DEF ExecutionTyped
<1>4. faulty' \in 0..setup.faults /\ attempts' = faulty' BY <1>0, <1>1, <1>2, <1>3 DEF ExecutionTyped
<1>5. results' \in [setup.ids -> Remotes] BY <1>0, <1>1, <1>2 DEF ExecutionTyped, Trying
<1>6. ExecutionTyped' BY <1>0, <1>1, <1>2, <1>4, <1>5, <1>u DEF ExecutionTyped
<1>7. Prepared' /\ Kept' /\ Renamed' BY <1>0, <1>1, <1>2, <1>u DEF Prepared, Kept, Renamed
<1>8. Arrived' BY <1>2, <1>u DEF ExecutionInv, Arrived, AppliedIsStored
<1>9. Binds' /\ DoneIsBound' BY <1>1 DEF Binds, DoneIsBound
<1>10. NotYet' BY <1>1, <1>3 DEF NotYet
<1> QED BY <1>6, <1>7, <1>8, <1>9, <1>10 DEF ExecutionInv

LEMMA AttemptFailsKeeps == ASSUME ExecutionInv, AttemptFails PROVE ExecutionInv'
<1>1. /\ step \in Trying /\ step' = "failed" /\ Faulty /\ UNCHANGED abandoned
      /\ UNCHANGED <<setup, making, results, uploads, mappings, stored, applied, bound, early, attempts>>
  BY DEF AttemptFails, Unmoved, Trying
<1>2. abandoned' \subseteq [id : setup.ids, attempt : 1..setup.faults]
  BY <1>1 DEF ExecutionInv, ExecutionTyped
<1> QED BY <1>1, <1>2, FailedKeeps

LEMMA AttachmentFailsKeeps == ASSUME ExecutionInv, NEW id \in setup.ids, AttachmentFails(id) PROVE ExecutionInv'
<1>1. /\ step = "making" /\ step' = "failed" /\ Faulty
      /\ abandoned' = abandoned \cup {[id |-> other, attempt |-> attempts] :
                                       other \in {used \in DOMAIN making \ {id} : CanMaterialize(used)}}
      /\ UNCHANGED <<setup, making, results, uploads, mappings, stored, applied, bound, early, attempts>>
  BY DEF AttachmentFails
<1>2. ExecutionTyped BY DEF ExecutionInv
<1>3. DOMAIN making \subseteq setup.ids BY <1>2, SetupIs DEF ExecutionTyped
<1>4. attempts \in 1..setup.faults
  <2>1. faulty \in Nat /\ setup.faults \in Nat /\ faulty < setup.faults
    BY <1>1, <1>2, SetupIs DEF ExecutionTyped, Faulty
  <2>2. attempts = faulty + 1 BY <1>1, <1>2 DEF ExecutionTyped, Trying
  <2> QED BY <2>1, <2>2
<1>5. abandoned' \subseteq [id : setup.ids, attempt : 1..setup.faults]
  BY <1>1, <1>2, <1>3, <1>4 DEF ExecutionTyped
<1> QED BY <1>1, <1>5, FailedKeeps DEF Trying

LEMMA StoreAbandonedKeeps ==
  ASSUME ExecutionInv, NEW promise \in abandoned, StoreAbandoned(promise)
  PROVE  ExecutionInv'
<1>0. ExecutionTyped BY DEF ExecutionInv
<1>1. /\ abandoned' = abandoned \ {promise} /\ stored' = stored \cup {Stored(promise.id)}
      /\ UNCHANGED <<setup, step, making, results, uploads, mappings, applied, bound, early, attempts, faulty>>
  BY DEF StoreAbandoned
<1>u. /\ UsedIds' = UsedIds /\ Remotes' = Remotes /\ Mappings' = Mappings /\ Reports' = Reports
      /\ EveryUseIsCollected(setup)' = EveryUseIsCollected(setup)
      /\ OneKind' = OneKind /\ \A other : CanMaterialize(other)' = CanMaterialize(other)
  BY <1>1, SetupStays
<1>2. promise.id \in setup.ids BY <1>0 DEF ExecutionTyped
<1>3. Stored(promise.id) \in Remotes BY <1>0, <1>2, CopyIs DEF Stored
<1>4. stored \subseteq stored' /\ stored' \subseteq Remotes /\ IsFiniteSet(stored')
  BY <1>0, <1>1, <1>3, FS_AddElement DEF ExecutionTyped
<1>5. MadeIds' = MadeIds BY <1>1, <1>u DEF MadeIds
<1>6. ExecutionTyped' BY <1>0, <1>1, <1>4, <1>u DEF ExecutionTyped
<1>7. Prepared' /\ Renamed' BY <1>1, <1>4, <1>5, <1>u DEF ExecutionInv, Prepared, Renamed
<1>8. Kept' BY <1>1, <1>u DEF ExecutionInv, Kept
<1>9. Arrived' /\ NotYet' /\ DoneIsBound'
  BY <1>1, <1>4, <1>u DEF ExecutionInv, Arrived, AppliedIsStored, NotYet, DoneIsBound
<1>10. Binds' BY <1>1, <1>u DEF ExecutionInv, Binds
<1> QED BY <1>6, <1>7, <1>8, <1>9, <1>10 DEF ExecutionInv

LEMMA ApplyActionKeeps ==
  ASSUME ExecutionInv, ApplyAction
  PROVE  ExecutionInv'
<1> USE DEF Unmoved
<1>0. ExecutionTyped /\ Prepared /\ Kept /\ Renamed BY DEF ExecutionInv
<1> DEFINE Sent(use) == IF use.id \in uploads /\ (setup.backend = "stable" => use.target = "media")
                        THEN Copy(use.id) ELSE results[use.id]
           refers == [use \in setup.referred |-> Sent(use)]
           report == [attempt |-> attempts, refers |-> refers]
           fresh == {[local |-> id, remote |-> Copy(id)] : id \in uploads}
<1>1. /\ step = "applying" /\ stored' = stored \cup {Copy(id) : id \in uploads}
      /\ applied' = IF setup.recognises /\ applied # {} THEN applied ELSE applied \cup {report}
      /\ mappings' = mappings \cup fresh
      /\ UNCHANGED <<setup, early, attempts, abandoned, making, results, uploads, bound>>
      /\ \/ step' = "binding" /\ UNCHANGED faulty
         \/ faulty < setup.faults /\ faulty' = faulty + 1 /\ step' = "failed"
  BY DEF ApplyAction, AllMappings, Faulty
<1>u. /\ UsedIds' = UsedIds /\ Remotes' = Remotes /\ Mappings' = Mappings /\ Reports' = Reports
      /\ EveryUseIsCollected(setup)' = EveryUseIsCollected(setup)
      /\ OneKind' = OneKind /\ \A other : CanMaterialize(other)' = CanMaterialize(other)
  BY <1>1, SetupStays
<1>2. /\ DOMAIN making = {} /\ MadeIds = UsedIds /\ results \in [setup.ids -> Remotes]
      /\ uploads \subseteq UsedIds /\ UsedIds \subseteq setup.ids
      /\ \A id \in UsedIds : id \in uploads <=> ~CanMaterialize(id)
  BY <1>0, <1>1, SetupIs DEF Prepared, ExecutionTyped, MadeIds
<1>3. \A id \in setup.ids : Copy(id) \in Remotes /\ Copy(id) # Local(id) BY <1>0, CopyIs
<1>4. /\ \A use \in setup.referred : use.id \in setup.ids
      /\ EveryUseIsCollected(setup) => \A use \in setup.referred : use.id \in UsedIds
  BY <1>0, SetupIs DEF EveryUseIsCollected, UsedIds, ExecutionTyped
<1> HIDE DEF refers, report, fresh
<1>5. /\ \A use \in setup.referred : refers[use] = Sent(use)
      /\ refers \in [setup.referred -> Remotes]
  BY <1>2, <1>3, <1>4 DEF refers
<1>6. report \in Reports /\ report.attempt = attempts /\ report.refers = refers
  <2>1. attempts \in Nat BY <1>0, SetupIs DEF ExecutionTyped
  <2> QED BY <1>5, <2>1 DEF report, Reports
<1>7. fresh \subseteq Mappings /\ \A m \in fresh : m.local \in uploads /\ m.remote = Copy(m.local)
  BY <1>2, <1>3 DEF fresh, Mappings
<1>8. \A id \in uploads : [local |-> id, remote |-> Copy(id)] \in fresh BY DEF fresh
<1>9. stored \subseteq stored' /\ stored' \subseteq Remotes /\ IsFiniteSet(stored')
      /\ \A id \in uploads : Copy(id) \in stored'
  <2>1. IsFiniteSet(uploads) BY <1>0, SetupIs, FS_Subset DEF ExecutionTyped
  <2>2. IsFiniteSet({Copy(id) : id \in uploads})
    <3> DEFINE copies == {Copy(id) : id \in uploads}
               copy == [id \in uploads |-> Copy(id)]
    <3>1. copy \in Surjection(uploads, copies) BY DEF Surjection
    <3> QED BY <2>1, <3>1, FS_Surjection
  <2>3. IsFiniteSet(stored) BY <1>0 DEF ExecutionTyped
  <2>4. IsFiniteSet(stored') BY <1>1, <2>2, <2>3, FS_Union
  <2> QED BY <1>0, <1>1, <1>2, <1>3, <2>4 DEF ExecutionTyped
\* Whatever is referred to is uploaded now or has been stored before.
<1>10. ASSUME OneKind, EveryUseIsCollected(setup), NEW use \in setup.referred
       PROVE  /\ use.id \in uploads => refers[use] = Copy(use.id)
              /\ use.id \notin uploads => refers[use] = results[use.id] /\ results[use.id] \in stored
  <2>1. use.id \in UsedIds BY <1>4, <1>10
  <2>2. use.id \in uploads /\ setup.backend = "stable" => use.target = "media"
    BY <1>0, <1>2, <1>10, <2>1, KindsAgree DEF ExecutionTyped
  <2>3. use.id \notin uploads => results[use.id] \in stored BY <1>0, <1>1, <1>2, <2>1 DEF Prepared
  <2> QED BY <1>5, <2>2, <2>3
<1>11. ExecutionTyped'
  <2>1. faulty \in Nat /\ setup.faults \in Nat /\ attempts = faulty + 1
    BY <1>0, <1>1, SetupIs DEF ExecutionTyped, Trying
  <2>2. /\ step' \in Trying \cup {"ready", "failed"} /\ faulty' \in 0..setup.faults
        /\ attempts' = IF step' \in Trying THEN faulty' + 1 ELSE faulty'
    BY <1>0, <1>1, <2>1 DEF ExecutionTyped, Trying
  <2>3. mappings' \subseteq Mappings /\ applied' \subseteq Reports
    BY <1>0, <1>1, <1>6, <1>7 DEF ExecutionTyped
  <2> QED BY <1>0, <1>1, <1>2, <1>9, <1>u, <2>2, <2>3 DEF ExecutionTyped
<1>12. Prepared' /\ Renamed' /\ DoneIsBound' BY <1>1 DEF Prepared, Renamed, DoneIsBound
<1>13. Kept'
  <2>1. \A m \in fresh : ~CanMaterialize(m.local) BY <1>2, <1>7
  <2> QED BY <1>0, <1>1, <1>u, <2>1 DEF Kept
<1>14. Arrived'
  <2> SUFFICES ASSUME OneKind, EveryUseIsCollected(setup), NEW a \in applied', NEW use \in setup.referred
               PROVE  a.refers[use] \in stored'
    BY <1>1, <1>u DEF Arrived, AppliedIsStored
  <2>1. CASE a \in applied
    BY <1>9, <2>1 DEF ExecutionInv, Arrived, AppliedIsStored
  <2>2. CASE a = report BY <1>6, <1>9, <1>10, <2>2
  <2> QED BY <1>1, <2>1, <2>2
<1>15. Binds'
  <2> SUFFICES ASSUME step' = "binding", OneKind, ~(setup.recognises /\ faulty' > 0), early = "none",
                      EveryUseIsCollected(setup)
               PROVE  Binds'
    BY <1>1, <1>u DEF Binds
  <2>1. report \in applied'
    <3>1. faulty' = faulty /\ faulty \in Nat BY <1>0, <1>1, SetupIs DEF ExecutionTyped
    <3>2. setup.recognises => applied = {} BY <1>1, <3>1 DEF ExecutionInv, NotYet
    <3> QED BY <1>1, <3>2
  <2>2. ASSUME NEW use \in setup.referred
        PROVE  /\ \A m \in mappings' : m.local = use.id => m.remote = refers[use]
               /\ refers[use] = bound[use.id] \/ \E m \in mappings' : m.local = use.id
    <3>0. use.id \in UsedIds BY <1>4
    <3>1. \A m \in mappings : m.local \notin uploads /\ results[m.local] = m.remote
      BY <1>0, <1>1 DEF Prepared
    <3>2. CASE use.id \in uploads
      <4>1. refers[use] = Copy(use.id) BY <1>10, <3>2
      <4>2. [local |-> use.id, remote |-> Copy(use.id)] \in mappings' BY <1>1, <1>8, <3>2
      <4> QED BY <1>1, <1>7, <3>1, <3>2, <4>1, <4>2
    <3>3. CASE use.id \notin uploads
      <4>1. refers[use] = results[use.id] /\ CanMaterialize(use.id) BY <1>2, <1>10, <3>0, <3>3
      <4>2. \A m \in mappings' : m.local = use.id => m.remote = refers[use]
        BY <1>1, <1>7, <3>1, <3>3, <4>1
      <4>3. CASE results[use.id] = Local(use.id)
        <5>1. setup.backend # "renaming"
          BY <1>0, <1>1, <1>2, <3>0, <4>3 DEF Renamed, Local
        <5>2. setup.backend = "stable"
          BY <1>0, <4>1, <5>1, SetupIs DEF CanMaterialize, Materializes, ExecutionTyped
        <5>3. bound[use.id] = Local(use.id) BY <1>0, <3>0, <4>1, <5>2 DEF Kept
        <5> QED BY <4>1, <4>2, <4>3, <5>3
      <4>4. CASE results[use.id] # Local(use.id)
        <5>1. [local |-> use.id, remote |-> results[use.id]] \in mappings
          BY <1>0, <1>1, <1>2, <3>0, <3>3, <4>4 DEF Prepared
        <5> QED BY <1>1, <4>2, <5>1
      <4> QED BY <4>3, <4>4
    <3> QED BY <3>2, <3>3
  <2> QED BY <1>1, <1>6, <2>1, <2>2 DEF Binds
<1>16. NotYet'
  <2>1. faulty \in Nat BY <1>0, SetupIs DEF ExecutionTyped
  <2> QED BY <1>1, <2>1 DEF NotYet
<1> QED BY <1>11, <1>12, <1>13, <1>14, <1>15, <1>16 DEF ExecutionInv

LEMMA BindKeeps == ASSUME ExecutionInv, NEW mapping \in mappings, BindRemoteId(mapping) PROVE ExecutionInv'
<1> USE DEF BindRemoteId, Unmoved
<1>0. ExecutionTyped /\ Kept BY DEF ExecutionInv
<1>s. setup' = setup OBVIOUS
<1>u. /\ UsedIds' = UsedIds /\ Remotes' = Remotes /\ Mappings' = Mappings /\ Reports' = Reports
      /\ EveryUseIsCollected(setup)' = EveryUseIsCollected(setup)
      /\ OneKind' = OneKind /\ \A other : CanMaterialize(other)' = CanMaterialize(other)
  BY <1>s, SetupStays
<1>1. /\ step = "binding" /\ step' = "binding" /\ mappings' = mappings \ {mapping}
      /\ UNCHANGED <<making, results, uploads, stored, applied, faulty, early, attempts>>
  OBVIOUS
<1>2. mapping.local \in setup.ids /\ mapping.remote \in Remotes BY <1>0 DEF ExecutionTyped, Mappings
<1>3. /\ bound' \in [setup.ids -> Remotes] /\ bound'[mapping.local] = mapping.remote
      /\ \A id \in setup.ids : id # mapping.local => bound'[id] = bound[id]
  BY <1>0, <1>2 DEF ExecutionTyped
<1>4. ExecutionTyped' BY <1>0, <1>1, <1>3, <1>u DEF ExecutionTyped, Trying
<1>5. Prepared' /\ Renamed' /\ DoneIsBound' BY <1>1 DEF Prepared, Renamed, DoneIsBound
<1>6. Kept'
  <2> SUFFICES ASSUME setup.backend = "stable" PROVE Kept' BY DEF Kept
  <2>1. ~CanMaterialize(mapping.local) BY <1>0 DEF Kept
  <2>2. \A id \in UsedIds : id \in setup.ids BY <1>0, SetupIs DEF ExecutionTyped
  <2>3. early = "none" => \A id \in UsedIds : CanMaterialize(id) => bound'[id] = Local(id)
    BY <1>0, <1>3, <2>1, <2>2 DEF Kept
  <2> QED BY <1>0, <1>1, <1>u, <2>3 DEF Kept
<1>7. Arrived' /\ NotYet' BY <1>1, <1>u DEF ExecutionInv, Arrived, AppliedIsStored, NotYet
<1>8. Binds'
  <2> SUFFICES ASSUME OneKind, ~(setup.recognises /\ faulty > 0), early = "none",
                      EveryUseIsCollected(setup)
               PROVE  Binds'
    BY <1>1, <1>u DEF Binds
  <2>1. PICK a \in applied :
          /\ a.attempt = attempts
          /\ \A use \in setup.referred :
               /\ \A m \in mappings : m.local = use.id => m.remote = a.refers[use]
               /\ a.refers[use] = bound[use.id] \/ \E m \in mappings : m.local = use.id
    BY <1>1 DEF ExecutionInv, Binds
  <2>2. ASSUME NEW use \in setup.referred
        PROVE  /\ \A m \in mappings' : m.local = use.id => m.remote = a.refers[use]
               /\ a.refers[use] = bound'[use.id] \/ \E m \in mappings' : m.local = use.id
    <3>1. use.id \in setup.ids BY <1>0, SetupIs DEF ExecutionTyped
    <3>2. CASE use.id = mapping.local BY <1>1, <1>3, <2>1, <3>2
    <3>3. CASE use.id # mapping.local BY <1>1, <1>3, <2>1, <3>1, <3>3
    <3> QED BY <3>2, <3>3
  <2> QED BY <1>1, <2>1, <2>2 DEF Binds
<1> QED BY <1>4, <1>5, <1>6, <1>7, <1>8 DEF ExecutionInv

LEMMA SucceedKeeps == ASSUME ExecutionInv, Succeed PROVE ExecutionInv'
<1> USE DEF Succeed, Unmoved
<1>0. ExecutionTyped /\ Kept BY DEF ExecutionInv
<1>s. setup' = setup OBVIOUS
<1>u. /\ UsedIds' = UsedIds /\ Remotes' = Remotes /\ Mappings' = Mappings /\ Reports' = Reports
      /\ EveryUseIsCollected(setup)' = EveryUseIsCollected(setup)
      /\ OneKind' = OneKind /\ \A other : CanMaterialize(other)' = CanMaterialize(other)
  BY <1>s, SetupStays
<1>1. /\ step = "binding" /\ mappings = {} /\ step' = "done"
      /\ UNCHANGED <<making, results, uploads, mappings, stored, applied, bound, faulty, early, attempts>>
  OBVIOUS
<1>2. ExecutionTyped' BY <1>0, <1>1, <1>u DEF ExecutionTyped, Trying
<1>3. Prepared' /\ Renamed' /\ DoneIsBound' BY <1>1 DEF Prepared, Renamed, DoneIsBound
<1>4. Kept' BY <1>0, <1>1, <1>u DEF Kept
<1>5. Arrived' /\ NotYet' BY <1>1, <1>u DEF ExecutionInv, Arrived, AppliedIsStored, NotYet
<1>6. Binds' BY <1>1, <1>u DEF ExecutionInv, Binds
<1> QED BY <1>2, <1>3, <1>4, <1>5, <1>6 DEF ExecutionInv

LEMMA EagerReadsKeeps == ASSUME ExecutionInv, EagerReads PROVE ExecutionInv'
<1> USE DEF EagerReads
<1>0. ExecutionTyped /\ Kept BY DEF ExecutionInv
<1>s. setup' = setup OBVIOUS
<1>u. /\ UsedIds' = UsedIds /\ Remotes' = Remotes /\ Mappings' = Mappings /\ Reports' = Reports
      /\ EveryUseIsCollected(setup)' = EveryUseIsCollected(setup)
      /\ OneKind' = OneKind /\ \A other : CanMaterialize(other)' = CanMaterialize(other)
  BY <1>s, SetupStays
<1>1. /\ early' \in {"done", "storing"}
      /\ UNCHANGED <<step, making, results, uploads, mappings, stored, applied, bound, attempts, faulty>>
  OBVIOUS
<1>2. MadeIds' = MadeIds BY <1>1, <1>u DEF MadeIds
<1>3. ExecutionTyped' BY <1>0, <1>1, <1>u DEF ExecutionTyped
<1>4. Prepared' /\ Renamed' BY <1>1, <1>2, <1>u DEF ExecutionInv, Prepared, Renamed
<1>5. Kept' BY <1>0, <1>1, <1>u DEF Kept
<1>6. Arrived' /\ NotYet' /\ DoneIsBound'
  BY <1>1, <1>u DEF ExecutionInv, Arrived, AppliedIsStored, NotYet, DoneIsBound
<1>7. Binds' BY <1>1 DEF Binds
<1> QED BY <1>3, <1>4, <1>5, <1>6, <1>7 DEF ExecutionInv

LEMMA EagerStoresKeeps == ASSUME ExecutionInv, EagerStores PROVE ExecutionInv'
<1>0. ExecutionTyped /\ Kept BY DEF ExecutionInv
<1> DEFINE remote == Stored(setup.first)
<1>1. /\ early' = "done" /\ stored' = stored \cup {remote} /\ bound' = [bound EXCEPT ![setup.first] = remote]
      /\ UNCHANGED <<setup, step, making, abandoned, results, uploads, mappings, applied, attempts, faulty>>
  BY DEF EagerStores
<1>u. /\ UsedIds' = UsedIds /\ Remotes' = Remotes /\ Mappings' = Mappings /\ Reports' = Reports
      /\ EveryUseIsCollected(setup)' = EveryUseIsCollected(setup)
      /\ OneKind' = OneKind /\ \A other : CanMaterialize(other)' = CanMaterialize(other)
  BY <1>1, SetupStays
<1>2. remote \in Remotes BY <1>0, CopyIs, SetupIs DEF ExecutionTyped, Stored
<1> HIDE DEF remote
<1>3. stored \subseteq stored' /\ stored' \subseteq Remotes /\ IsFiniteSet(stored')
  BY <1>0, <1>1, <1>2, FS_AddElement DEF ExecutionTyped
<1>4. bound' \in [setup.ids -> Remotes] BY <1>0, <1>1, <1>2 DEF ExecutionTyped
<1>5. MadeIds' = MadeIds BY <1>1, <1>u DEF MadeIds
<1>6. ExecutionTyped' BY <1>0, <1>1, <1>3, <1>4, <1>u DEF ExecutionTyped
<1>7. Prepared' /\ Renamed' BY <1>1, <1>3, <1>5, <1>u DEF ExecutionInv, Prepared, Renamed
<1>8. Kept' BY <1>0, <1>1, <1>u DEF Kept
<1>9. Arrived' /\ NotYet' /\ DoneIsBound'
  BY <1>1, <1>3, <1>u DEF ExecutionInv, Arrived, AppliedIsStored, NotYet, DoneIsBound
<1>10. Binds' BY <1>1 DEF Binds
<1> QED BY <1>6, <1>7, <1>8, <1>9, <1>10 DEF ExecutionInv

----------------------------------------------------------------------------
(* What holds of every execution *)

LEMMA ExecutionKeeps ==
  ASSUME ExecutionInv, [ExecutionNext]_executionVars
  PROVE  ExecutionInv'
<1>1. CASE UNCHANGED executionVars
  <2>1. UNCHANGED <<setup, step, making, abandoned, results, uploads, mappings, stored, applied, bound,
                    early, attempts, faulty>>
    BY <1>1 DEF executionVars
  <2>2. /\ UsedIds' = UsedIds /\ Remotes' = Remotes /\ Mappings' = Mappings /\ Reports' = Reports
        /\ EveryUseIsCollected(setup)' = EveryUseIsCollected(setup)
      /\ OneKind' = OneKind /\ \A other : CanMaterialize(other)' = CanMaterialize(other)
    BY <2>1, SetupStays
  <2>3. MadeIds' = MadeIds BY <2>1, <2>2 DEF MadeIds
  <2>4. ExecutionTyped' /\ Prepared' /\ Kept' /\ Renamed'
    BY <2>1, <2>2, <2>3 DEF ExecutionInv, ExecutionTyped, Prepared, Kept, Renamed
  <2>5. Arrived' /\ Binds' /\ NotYet' /\ DoneIsBound'
    BY <2>1, <2>2 DEF ExecutionInv, Arrived, AppliedIsStored, Binds, NotYet, DoneIsBound
  <2> QED BY <2>4, <2>5 DEF ExecutionInv
<1> QED
  BY <1>1, BeginKeeps, MadeKeeps, AttemptFailsKeeps, ApplyActionKeeps, SucceedKeeps, EagerReadsKeeps,
     EagerStoresKeeps, AttachmentFailsKeeps, StoreAbandonedKeeps, ReadKeeps, StoreKeeps, BindKeeps DEF ExecutionNext

\* The state of an execution stays in its types, with any number of attachments and faults: at most one
\* attempt more than there were faults is made, and nothing is both materialized and uploaded.
THEOREM ExecutionTypeCorrect == ExecutionSpec => []ExecutionTypeOK
<1>1. ASSUME ExecutionInv PROVE ExecutionTypeOK
  <2>1. ExecutionTyped /\ Prepared BY <1>1 DEF ExecutionInv
  <2>2. setup.faults \in Nat /\ UsedIds \subseteq setup.ids BY <2>1, SetupIs DEF ExecutionTyped
  <2>3. attempts \in 0..(1 + setup.faults) BY <2>1, <2>2 DEF ExecutionTyped
  <2>4. step \in {"making", "applying"} => \A m \in mappings : m.local \notin uploads /\ m.remote \in stored
    BY <2>1 DEF Prepared
  <2> QED BY <2>1, <2>2, <2>3, <2>4 DEF ExecutionTyped, ExecutionTypeOK, Trying
<1> QED BY <1>1, ExecutionStarts, ExecutionKeeps, PTL DEF ExecutionSpec

\* If no use is missed when attachments are collected, the backend has the bytes of whatever it applies an
\* action with, whichever attempt it is, and after a success what is referred to is found under the ids it has
\* there: for any number of attachments, uses and faults.
THEOREM AttachmentsArrive ==
  ASSUME \A s \in Setups : EveryUseIsCollected(s)
  PROVE  ExecutionSpec => []AttachmentsHold
<1>1. ASSUME ExecutionInv PROVE AttachmentsHold
  <2>1. EveryUseIsCollected(setup) BY <1>1 DEF ExecutionInv, ExecutionTyped
  <2>2. AppliedIsStored BY <1>1, <2>1 DEF ExecutionInv, Arrived
  <2>3. BoundIsReferred
    <3> SUFFICES ASSUME step = "done", OneKind, ~(setup.recognises /\ faulty > 0), early = "none"
                 PROVE  \A use \in setup.referred :
                          \E a \in applied : a.attempt = attempts /\ a.refers[use] = bound[use.id]
      BY DEF BoundIsReferred
    <3>1. mappings = {} BY <1>1 DEF ExecutionInv, DoneIsBound
    <3> QED BY <1>1, <2>1, <3>1 DEF ExecutionInv, Binds
  <2> QED BY <2>2, <2>3 DEF AttachmentsHold
<1> QED BY <1>1, ExecutionStarts, ExecutionKeeps, PTL DEF ExecutionSpec
=============================================================================
