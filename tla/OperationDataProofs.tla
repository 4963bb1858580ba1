------------------------ MODULE OperationDataProofs ------------------------
(***************************************************************************)
(* Proofs about the data around an operation, for any values of the        *)
(* constants and any number of changes by others:                          *)
(*   records   what is stored is what the worker answered,                 *)
(*   plans     what is authorized is what was approved, a caller is asked  *)
(*             once,                                                       *)
(*   reads     bytes come from beneath the pinned roots, descriptors are   *)
(*             not leaked,                                                 *)
(*   guidance  defaults are settled as the contract says,                  *)
(*   ports     compatible ports fit,                                       *)
(*   datasets  a registered dataset is what its source says.               *)
(***************************************************************************)
EXTENDS OperationRuntimeProofs, OperationRecords, SemanticPorts, PlanAuthorization, SecureReads,
        Datasets, FiniteSetTheorems

-----------------------------------------------------------------------------
(* Operation records *)

\* The members read so far are the ones the manifest in hand declares.
ReadAsDeclared ==
    /\ members \in Seq(Contents) /\ Len(members) <= Len(MemberOrder)
    /\ \A i \in 1..Len(members) : members[i] = inHand[MemberOrder[i]]

TheRecord == [built |-> TRUE, manifest |-> answered, digests |-> answered]

RecordsType ==
    /\ answered \in Manifests /\ inHand \in Manifests /\ declared \in Manifests \cup {Garbage}
    /\ phase \in {"build", "reconcile"} /\ edits \in Nat

\* What the host has established at each of its control points.
StepInv ==
    /\ phase = "build" => inHand = answered
    /\ step = "manifest" => members = <<>>
    /\ step \in {"members", "result"} => ReadAsDeclared
    /\ step = "result" => Len(members) = Len(MemberOrder) /\ Bytes(members) <= MaxBundle
    /\ record = NoRecord \/ (record = TheRecord /\ Total(answered) <= MaxBundle)
    /\ step \in {"copying", "parsing"} => phase = "reconcile"
    /\ phase = "reconcile" => record = TheRecord
    /\ step = "copying" =>
          /\ members \in Seq(Contents) /\ Len(members) <= Len(MemberOrder)
          /\ \A i \in 1..Len(members) : members[i] = answered[MemberOrder[i]]
    /\ step \in Running => BindingError(binding) = "none"

\* A directory nobody has changed is what the worker answered.
Untouched ==
    edits = 0 =>
        /\ bundle = answered /\ declared = answered /\ inHand = answered
        /\ copied # NoBundle => copied.manifest = answered

RecordsInv == RecordsType /\ StepInv /\ Untouched /\ PublishedIsAnswer /\ NoFalseCorruption

\* Members read as the manifest declares them give its digests and its size.
LEMMA DerivedDigests ==
    ASSUME NEW manifest \in Manifests, Len(members) = Len(MemberOrder), members \in Seq(Contents),
           \A i \in 1..Len(members) : members[i] = manifest[MemberOrder[i]]
    PROVE  Derived.digests = manifest /\ Total(manifest) = Bytes(members)
<1>1. MemberOrder \in Seq(STRING) /\ Len(MemberOrder) \in Nat
  BY RecordsAssumption
<1>2. ASSUME NEW m \in MemberNames
      PROVE  members[CHOOSE i \in 1..Len(MemberOrder) : MemberOrder[i] = m] = manifest[m]
  <2>1. \E i \in 1..Len(MemberOrder) : MemberOrder[i] = m
    BY <1>1 DEF MemberNames, ToSet
  <2>2. QED BY <2>1
<1>3. manifest = [m \in MemberNames |-> manifest[m]]
  BY DEF Manifests
<1>4. Derived.digests = manifest
  BY <1>2, <1>3 DEF Derived
<1>5. members = [i \in 1..Len(MemberOrder) |-> manifest[MemberOrder[i]]]
  BY <1>1
<1>6. QED BY <1>4, <1>5 DEF Total

\* The sums of the first k sizes.
Summed(g, k, list) ==
    g = [n \in 0..k |-> IF n = 0 THEN 0 ELSE g[n - 1] + Size[list[n]]]

\* The function that Bytes sums a list with exists, whatever the list holds.
LEMMA SummedExists ==
    ASSUME NEW list, NEW k \in Nat
    PROVE  \E g : Summed(g, k, list)
<1> DEFINE T == {j \in Nat : \E g : Summed(g, j, list)}
<1>1. 0 \in T
  <2>1. Summed([n \in 0..0 |-> 0], 0, list) BY DEF Summed
  <2>2. QED BY <2>1
<1>2. ASSUME NEW j \in Nat, j \in T PROVE j + 1 \in T
  <2>1. PICK g : Summed(g, j, list) BY <1>2
  <2> DEFINE h == [n \in 0..(j + 1) |-> IF n <= j THEN g[n] ELSE g[j] + Size[list[j + 1]]]
  <2>2. \A n \in 0..j : g[n] = IF n = 0 THEN 0 ELSE g[n - 1] + Size[list[n]]
    BY <2>1 DEF Summed
  <2>3. \A n \in 0..(j + 1) : h[n] = IF n = 0 THEN 0 ELSE h[n - 1] + Size[list[n]]
    BY <2>2
  <2>4. h = [n \in 0..(j + 1) |-> h[n]] OBVIOUS
  <2> HIDE DEF h
  <2>5. Summed(h, j + 1, list) BY <2>3, <2>4 DEF Summed
  <2>6. QED BY <2>5
<1>3. Nat \subseteq T
  <2> HIDE DEF T
  <2>1. QED BY <1>1, <1>2, SetInduction
<1>4. QED BY <1>3

\* A list of contents has a size.
LEMMA BytesNat ==
    ASSUME NEW list \in Seq(Contents)
    PROVE  Bytes(list) \in Nat
<1>0. Size \in [Contents -> Nat] /\ Len(list) \in Nat BY RecordsAssumption
<1> DEFINE f == CHOOSE g : Summed(g, Len(list), list)
<1>1. Summed(f, Len(list), list) BY <1>0, SummedExists
<1>2. Bytes(list) = f[Len(list)] BY DEF Bytes, Summed
<1> HIDE DEF f
<1>3. \A n \in 0..Len(list) : f[n] = IF n = 0 THEN 0 ELSE f[n - 1] + Size[list[n]]
  BY <1>1 DEF Summed
<1> DEFINE T == {n \in Nat : n <= Len(list) => f[n] \in Nat}
<1>4. 0 \in T BY <1>3
<1>5. ASSUME NEW n \in Nat, n \in T PROVE n + 1 \in T
  <2>1. SUFFICES ASSUME n + 1 <= Len(list) PROVE f[n + 1] \in Nat
    OBVIOUS
  <2>2. f[n] \in Nat /\ list[n + 1] \in Contents BY <1>0, <1>5, <2>1
  <2>3. QED BY <1>0, <1>3, <2>1, <2>2
<1>6. Nat \subseteq T
  <2> HIDE DEF T
  <2>1. QED BY <1>4, <1>5, SetInduction
<1>7. QED BY <1>0, <1>2, <1>6

\* A bundle's size is a natural number (derive_operation_record's running total).
LEMMA TotalNat == \A files \in Manifests : Total(files) \in Nat
<1> SUFFICES ASSUME NEW files \in Manifests PROVE Total(files) \in Nat
  OBVIOUS
<1>1. MemberOrder \in Seq(STRING) /\ \A i \in 1..Len(MemberOrder) : MemberOrder[i] \in MemberNames
  BY RecordsAssumption DEF MemberNames, ToSet
<1>2. [i \in 1..Len(MemberOrder) |-> files[MemberOrder[i]]] \in Seq(Contents)
  BY <1>1 DEF Manifests
<1>3. QED BY <1>2, BytesNat DEF Total

\* Once every member was read as the manifest in hand declares it, the record derived
\* from them is that manifest's, and the bytes counted are the bundle's.
LEMMA DerivedRecord ==
    ASSUME RecordsType, ReadAsDeclared, Len(members) = Len(MemberOrder)
    PROVE  Derived = [built |-> TRUE, manifest |-> inHand, digests |-> inHand]
           /\ Total(inHand) = Bytes(members)
<1>1. Derived.digests = inHand /\ Total(inHand) = Bytes(members)
  BY DerivedDigests DEF RecordsType, ReadAsDeclared
<1>2. QED BY <1>1 DEF Derived

\* The invariant holds initially.
LEMMA InitRecordsInv == RecordsInit => RecordsInv
<1> SUFFICES ASSUME RecordsInit PROVE RecordsInv
  OBVIOUS
<1>1. RecordsType BY DEF RecordsInit, RecordsType
<1>2. StepInv /\ Untouched BY DEF RecordsInit, StepInv, Untouched, Running
<1>3. PublishedIsAnswer /\ NoFalseCorruption
  BY DEF RecordsInit, PublishedIsAnswer, NoFalseCorruption, NoBundle
<1>4. QED BY <1>1, <1>2, <1>3 DEF RecordsInv

\* No objection to a binding is a control point.
LEMMA BindingCodes ==
    \A b : BindingError(b) \in {"none", "unsupported_binding", "invalid_field_mapping",
                                "internal_failure", "record_corrupt"}
  BY DEF BindingError

\* Checking the binding, the names and the manifest keeps the invariant.
LEMMA OpeningSteps ==
    ASSUME RecordsInv, CheckBinding \/ ListMembers \/ ReadManifest \/ ParseManifest \/ CopyManifest
    PROVE  RecordsInv'
<1> USE DEF Same
<1>a. RecordsType /\ StepInv /\ Untouched /\ PublishedIsAnswer /\ NoFalseCorruption
  BY DEF RecordsInv
<1>b. Garbage \notin Manifests /\ \A m \in Manifests : DOMAIN m = MemberNames
  BY RecordsAssumption DEF Manifests
<1>c. Len(MemberOrder) \in Nat
  BY RecordsAssumption
<1>d. UNCHANGED <<answered, binding, bundle, declared, edits, stored, record>>
  BY DEF CheckBinding, ListMembers, ReadManifest, ParseManifest, CopyManifest
<1>1. RecordsType'
  BY <1>a DEF RecordsType, CheckBinding, ListMembers, ReadManifest, ParseManifest, CopyManifest
<1>2. PublishedIsAnswer'
  BY <1>a, <1>d DEF PublishedIsAnswer
<1>3. Untouched'
  BY <1>a, <1>d DEF Untouched, CheckBinding, ListMembers, ReadManifest, ParseManifest, CopyManifest
<1>4. StepInv'
  <2>1. CASE CheckBinding
    BY <1>a, <2>1, BindingCodes DEF CheckBinding, StepInv, Running, TheRecord
  <2>2. CASE ListMembers
    BY <1>a, <2>2 DEF ListMembers, StepInv, Running, TheRecord
  <2>3. CASE ReadManifest
    <3>1. UNCHANGED <<phase, inHand, members, record>> /\ step' \in {"members", "record_corrupt"}
      BY <2>3 DEF ReadManifest
    <3>2. step' = "members" => ReadAsDeclared'
      BY <1>a, <1>c, <2>3 DEF ReadManifest, StepInv, ReadAsDeclared
    <3>3. QED BY <1>a, <1>d, <2>3, <3>1, <3>2 DEF ReadManifest, StepInv, Running, TheRecord
  <2>4. CASE ParseManifest
    <3>1. phase = "reconcile" /\ UNCHANGED <<phase, members, record>>
          /\ step' \in {"record_corrupt", "binding"}
      BY <1>a, <2>4 DEF ParseManifest, Fails, StepInv
    <3>2. QED BY <1>a, <1>d, <3>1 DEF StepInv, Running, TheRecord
  <2>5. CASE CopyManifest
    BY <1>a, <2>5 DEF CopyManifest, StepInv, Running, TheRecord, ReadAsDeclared
  <2>6. QED BY <2>1, <2>2, <2>3, <2>4, <2>5
<1>5. NoFalseCorruption'
  BY <1>a, <1>b, <1>d DEF NoFalseCorruption, Untouched, RecordsType,
     CheckBinding, ListMembers, ReadManifest, ParseManifest, CopyManifest
<1>6. QED BY <1>1, <1>2, <1>3, <1>4, <1>5 DEF RecordsInv

\* Reading the members keeps it.
LEMMA MemberSteps ==
    ASSUME RecordsInv, ReadMember \/ CheckTotal
    PROVE  RecordsInv'
<1> USE DEF Same
<1>a. RecordsType /\ StepInv /\ Untouched /\ PublishedIsAnswer /\ NoFalseCorruption
  BY DEF RecordsInv
<1>b. /\ MemberOrder \in Seq(STRING) /\ Len(MemberOrder) \in Nat
      /\ \A i \in 1..Len(MemberOrder) : MemberOrder[i] \in MemberNames
      /\ \A m \in Manifests : m \in [MemberNames -> Contents]
  BY RecordsAssumption DEF MemberNames, ToSet, Manifests
<1>c. MaxMember \in Nat /\ MaxBundle \in Nat /\ Size \in [Contents -> Nat]
  BY RecordsAssumption
<1>d. UNCHANGED <<answered, binding, bundle, declared, edits, stored, record, phase, inHand, copied>>
  BY DEF ReadMember, CheckTotal
<1>e. ReadAsDeclared /\ step = "members" /\ BindingError(binding) = "none"
  BY <1>a DEF ReadMember, CheckTotal, StepInv, Running
<1>1. RecordsType' /\ PublishedIsAnswer' /\ Untouched'
  BY <1>a, <1>d DEF RecordsType, PublishedIsAnswer, Untouched
<1>2. CASE ReadMember
  <2> DEFINE m == MemberOrder[Len(members) + 1]
  <2>1. m \in MemberNames /\ Len(members) \in Nat /\ Len(members) < Len(MemberOrder)
    BY <1>b, <1>e, <1>2 DEF ReadMember, ReadAsDeclared
  <2>2. CASE Readable(m) /\ bundle[m] = inHand[m] /\ members' = Append(members, bundle[m])
             /\ UNCHANGED step
    <3>1. ReadAsDeclared'
      <4>1. inHand[m] \in Contents BY <1>a, <1>b, <2>1 DEF RecordsType
      <4>2. members' = Append(members, inHand[m]) /\ members \in Seq(Contents)
        BY <1>e, <2>2 DEF ReadAsDeclared
      <4>3. members' \in Seq(Contents) /\ Len(members') = Len(members) + 1
        BY <4>1, <4>2
      <4>4. \A i \in 1..Len(members') : members'[i] = inHand[MemberOrder[i]]
        BY <4>2, <4>3, <1>e, <2>1 DEF ReadAsDeclared
      <4>5. QED BY <1>b, <1>d, <2>1, <4>3, <4>4 DEF ReadAsDeclared
    <3>2. StepInv'
      BY <1>a, <1>d, <1>e, <2>2, <3>1 DEF StepInv, Running, TheRecord
    <3>3. NoFalseCorruption'
      BY <1>a, <1>d, <1>e, <2>2 DEF NoFalseCorruption
    <3>4. QED BY <1>1, <3>2, <3>3 DEF RecordsInv
  <2>3. CASE UNCHANGED members /\ (\/ Readable(m) /\ bundle[m] # inHand[m] /\ Fails("record_corrupt")
                                   \/ ~Readable(m) /\ Fails(ReadFailure(m)))
    <3>1. step' \in {"record_corrupt", "result_limit_exceeded"}
      BY <2>3 DEF Fails, ReadFailure
    <3>2. StepInv'
      BY <1>a, <1>d, <1>e, <2>3, <3>1 DEF StepInv, Running, TheRecord
    <3>3. NoFalseCorruption'
      <4>1. SUFFICES ASSUME edits = 0
                     PROVE  step' = "result_limit_exceeded" /\ Size[answered[m]] > MaxMember
        BY <1>d, <2>1 DEF NoFalseCorruption
      <4>2. bundle = answered /\ inHand = answered /\ answered[m] \in Contents
            /\ DOMAIN answered = MemberNames
        BY <1>a, <1>b, <2>1, <4>1 DEF Untouched, RecordsType
      <4>3. Size[answered[m]] \in Nat BY <1>c, <4>2
      <4>4. QED BY <1>c, <2>1, <2>3, <4>2, <4>3 DEF Readable, ReadFailure, Fails
    <3>4. QED BY <1>1, <3>2, <3>3 DEF RecordsInv
  <2>4. QED BY <1>2, <2>2, <2>3 DEF ReadMember
<1>3. CASE CheckTotal
  <2>1. step' = (IF Bytes(members) <= MaxBundle THEN "result" ELSE "result_limit_exceeded")
        /\ Len(members) = Len(MemberOrder) /\ UNCHANGED members
    BY <1>3 DEF CheckTotal
  <2>2. StepInv'
    BY <1>a, <1>d, <1>e, <2>1 DEF StepInv, Running, TheRecord, ReadAsDeclared
  <2>3. NoFalseCorruption'
    <3>1. Total(inHand) = Bytes(members)
      BY <1>a, <1>e, <2>1, DerivedRecord
    <3>2. edits = 0 => inHand = answered
      BY <1>a DEF Untouched
    <3>3. edits = 0 /\ step' = "result_limit_exceeded" => ~(Total(answered) <= MaxBundle)
      BY <2>1, <3>1, <3>2
    <3>4. Total(answered) \in Nat
      BY <1>a, TotalNat DEF RecordsType
    <3>5. QED BY <1>c, <1>d, <2>1, <3>3, <3>4 DEF NoFalseCorruption
  <2>4. QED BY <1>1, <2>2, <2>3 DEF RecordsInv
<1>4. QED BY <1>2, <1>3

\* Reading the result again, for its shape, keeps it.
LEMMA ResultStep ==
    ASSUME RecordsInv, ReadResult
    PROVE  RecordsInv'
<1> USE DEF Same
<1>a. RecordsType /\ StepInv /\ Untouched /\ PublishedIsAnswer /\ NoFalseCorruption
  BY DEF RecordsInv
<1>b. /\ "result" \in MemberNames /\ MaxMember \in Nat /\ Size \in [Contents -> Nat]
      /\ Len(MemberOrder) \in Nat /\ \A m \in Manifests : m \in [MemberNames -> Contents]
  BY RecordsAssumption DEF Manifests
<1>c. UNCHANGED <<answered, binding, bundle, declared, edits, inHand, copied, stored>>
      /\ members' = <<>>
  BY DEF ReadResult
<1>d. /\ ReadAsDeclared /\ Len(members) = Len(MemberOrder) /\ Bytes(members) <= MaxBundle
      /\ BindingError(binding) = "none" /\ step = "result"
  BY <1>a DEF ReadResult, StepInv, Running
<1>e. Derived = [built |-> TRUE, manifest |-> inHand, digests |-> inHand]
      /\ Total(inHand) = Bytes(members)
  BY <1>a, <1>d, DerivedRecord
<1>1. PublishedIsAnswer' /\ Untouched'
  BY <1>a, <1>c DEF PublishedIsAnswer, Untouched
<1>2. CASE UNCHANGED <<phase, record>>
           /\ \/ ~Readable("result") /\ Fails(ReadFailure("result"))
              \/ bundle["result"] \in Malformed
                 /\ step' \in {"record_corrupt", "result_limit_exceeded"}
  <2>1. step' \in {"record_corrupt", "result_limit_exceeded"}
    BY <1>2 DEF Fails, ReadFailure
  <2>2. RecordsType' /\ StepInv'
    BY <1>a, <1>c, <1>2, <2>1 DEF RecordsType, StepInv, Running, TheRecord
  <2>3. NoFalseCorruption'
    <3>1. SUFFICES ASSUME edits = 0
                   PROVE  \/ answered["result"] \in Malformed
                          \/ step' = "result_limit_exceeded" /\ Size[answered["result"]] > MaxMember
      BY <1>b, <1>c, <2>1 DEF NoFalseCorruption
    <3>2. bundle = answered /\ answered["result"] \in Contents /\ DOMAIN answered = MemberNames
      BY <1>a, <1>b, <3>1 DEF Untouched, RecordsType
    <3>3. Size[answered["result"]] \in Nat BY <1>b, <3>2
    <3>4. QED BY <1>b, <1>2, <3>2, <3>3 DEF Readable, ReadFailure, Fails
  <2>4. QED BY <1>1, <2>2, <2>3 DEF RecordsInv
<1>3. CASE phase = "build" /\ record' = Derived /\ phase' = "reconcile" /\ step' = "parsing"
  <2>1. inHand = answered BY <1>a, <1>3 DEF StepInv
  <2>2. RecordsType' BY <1>a, <1>c, <1>3 DEF RecordsType
  <2>3. record' = TheRecord' /\ Total(answered') <= MaxBundle
    BY <1>c, <1>d, <1>e, <1>3, <2>1 DEF TheRecord
  <2>4. StepInv'
    BY <1>c, <1>d, <1>3, <2>1, <2>3 DEF StepInv, Running
  <2>5. NoFalseCorruption' BY <1>3 DEF NoFalseCorruption
  <2>6. QED BY <1>1, <2>2, <2>4, <2>5 DEF RecordsInv
<1>4. CASE phase = "reconcile" /\ UNCHANGED <<phase, record>>
           /\ step' = (IF Derived = record THEN "copying" ELSE "record_corrupt")
  <2>1. record = TheRecord BY <1>a, <1>4 DEF StepInv
  <2>2. RecordsType' BY <1>a, <1>c, <1>4 DEF RecordsType
  <2>3. StepInv'
    <3>1. members' \in Seq(Contents) /\ Len(members') = 0 BY <1>c
    <3>2. step' \in {"copying", "record_corrupt"} BY <1>4
    <3>3. QED BY <1>a, <1>b, <1>c, <1>d, <1>4, <3>1, <3>2 DEF StepInv, Running, TheRecord
  <2>4. NoFalseCorruption'
    <3>1. edits = 0 => Derived = record BY <1>a, <1>e, <2>1 DEF Untouched, TheRecord
    <3>2. QED BY <1>c, <1>4, <3>1 DEF NoFalseCorruption
  <2>5. QED BY <1>1, <2>2, <2>3, <2>4 DEF RecordsInv
<1>5. QED BY <1>2, <1>3, <1>4 DEF ReadResult

\* The copy for the store keeps it, and what the store accepts is the answer.
LEMMA CopySteps ==
    ASSUME RecordsInv, CopyMember \/ PublishRecord
    PROVE  RecordsInv'
<1> USE DEF Same
<1>a. RecordsType /\ StepInv /\ Untouched /\ PublishedIsAnswer /\ NoFalseCorruption
  BY DEF RecordsInv
<1>b. /\ MemberOrder \in Seq(STRING) /\ Len(MemberOrder) \in Nat
      /\ \A i \in 1..Len(MemberOrder) : MemberOrder[i] \in MemberNames
      /\ \A m \in Manifests : m \in [MemberNames -> Contents]
      /\ MaxMember \in Nat /\ Size \in [Contents -> Nat]
  BY RecordsAssumption DEF MemberNames, ToSet, Manifests
<1>c. UNCHANGED <<answered, binding, bundle, declared, edits, record, phase, inHand, copied>>
  BY DEF CopyMember, PublishRecord
<1>d. /\ step = "copying" /\ record = TheRecord /\ Total(answered) <= MaxBundle
      /\ BindingError(binding) = "none" /\ copied # NoBundle
      /\ members \in Seq(Contents) /\ Len(members) <= Len(MemberOrder)
      /\ \A i \in 1..Len(members) : members[i] = answered[MemberOrder[i]]
  BY <1>a DEF CopyMember, PublishRecord, StepInv, Running, NoRecord, TheRecord
<1>1. RecordsType' /\ Untouched'
  BY <1>a, <1>c DEF RecordsType, Untouched
<1>2. CASE CopyMember
  <2> DEFINE m == MemberOrder[Len(members) + 1]
  <2>0. PublishedIsAnswer' BY <1>a, <1>2, <1>c DEF CopyMember, PublishedIsAnswer
  <2>1. m \in MemberNames /\ Len(members) \in Nat /\ Len(members) < Len(MemberOrder)
        /\ record.digests = answered
    BY <1>b, <1>d, <1>2 DEF CopyMember, TheRecord
  <2>2. CASE Readable(m) /\ bundle[m] = record.digests[m] /\ members' = Append(members, bundle[m])
             /\ UNCHANGED step
    <3>1. answered[m] \in Contents BY <1>a, <1>b, <2>1 DEF RecordsType
    <3>2. members' = Append(members, answered[m]) BY <2>1, <2>2
    <3>3. members' \in Seq(Contents) /\ Len(members') = Len(members) + 1
          /\ \A i \in 1..Len(members') : members'[i] = answered[MemberOrder[i]]
      BY <1>d, <2>1, <3>1, <3>2
    <3>4. StepInv'
      BY <1>a, <1>b, <1>c, <1>d, <2>1, <2>2, <3>3 DEF StepInv, Running, TheRecord
    <3>5. NoFalseCorruption' BY <1>d, <2>2 DEF NoFalseCorruption
    <3>6. QED BY <1>1, <2>0, <3>4, <3>5 DEF RecordsInv
  <2>3. CASE UNCHANGED members
             /\ \/ Readable(m) /\ bundle[m] # record.digests[m] /\ Fails("record_corrupt")
                \/ ~Readable(m) /\ Fails(ReadFailure(m))
    <3>1. step' \in {"record_corrupt", "result_limit_exceeded"}
      BY <2>3 DEF Fails, ReadFailure
    <3>2. StepInv'
      BY <1>a, <1>c, <1>d, <2>3, <3>1 DEF StepInv, Running, TheRecord
    <3>3. NoFalseCorruption'
      <4>1. SUFFICES ASSUME edits = 0
                     PROVE  step' = "result_limit_exceeded" /\ Size[answered[m]] > MaxMember
        BY <1>c, <2>1 DEF NoFalseCorruption
      <4>2. bundle = answered /\ answered[m] \in Contents /\ DOMAIN answered = MemberNames
        BY <1>a, <1>b, <2>1, <4>1 DEF Untouched, RecordsType
      <4>3. Size[answered[m]] \in Nat BY <1>b, <4>2
      <4>4. QED BY <1>b, <2>1, <2>3, <4>2, <4>3 DEF Readable, ReadFailure, Fails
    <3>4. QED BY <1>1, <2>0, <3>2, <3>3 DEF RecordsInv
  <2>4. QED BY <1>2, <2>2, <2>3 DEF CopyMember
<1>3. CASE PublishRecord
  <2>1. Len(members) = Len(MemberOrder) /\ Derived.digests = answered /\ UNCHANGED members
    BY <1>a, <1>d, <1>3, DerivedDigests DEF PublishRecord, RecordsType
  <2>2. record.manifest = answered /\ record.digests = answered
    BY <1>d DEF TheRecord
  <2>3. step' \in {"published", "record_corrupt", "record_publication_failed"}
    BY <1>3 DEF PublishRecord, Fails
  <2>4. StepInv'
    BY <1>a, <1>c, <1>d, <2>1, <2>3 DEF StepInv, Running, TheRecord
  <2>5. PublishedIsAnswer'
    <3>1. CASE UNCHANGED stored BY <1>a, <1>c, <3>1 DEF PublishedIsAnswer
    <3>2. CASE /\ StoreAccepts(record, copied.manifest, Derived.digests)
               /\ stored' = [present |-> TRUE, manifest |-> copied.manifest,
                             files |-> Derived.digests]
      BY <1>c, <1>d, <2>1, <2>2, <3>2 DEF PublishedIsAnswer, StoreAccepts
    <3>3. QED BY <1>3, <3>1, <3>2 DEF PublishRecord
  <2>6. NoFalseCorruption'
    <3>1. SUFFICES ASSUME edits = 0, step' = "record_corrupt"
                   PROVE  answered["result"] \in Malformed
      BY <1>c, <2>3 DEF NoFalseCorruption
    <3>2. copied.manifest = answered BY <1>a, <1>d, <3>1 DEF Untouched
    <3>3. ~StoreAccepts(record, copied.manifest, Derived.digests)
      BY <1>3, <3>1 DEF PublishRecord, Fails
    <3>4. QED BY <1>d, <2>1, <2>2, <3>2, <3>3 DEF StoreAccepts
  <2>7. QED BY <1>1, <2>4, <2>5, <2>6 DEF RecordsInv
<1>4. QED BY <1>2, <1>3

\* Every step keeps it, also one that changes the directory.
LEMMA NextRecordsInv == RecordsInv /\ [RecordsNext]_recordVars => RecordsInv'
<1> SUFFICES ASSUME RecordsInv, [RecordsNext]_recordVars PROVE RecordsInv'
  OBVIOUS
<1>a. RecordsType /\ StepInv /\ Untouched /\ PublishedIsAnswer /\ NoFalseCorruption
  BY DEF RecordsInv
<1>1. CASE ChangeBundle
  <2>1. UNCHANGED <<step, phase, answered, binding, inHand, members, record, copied, stored>>
        /\ edits' = edits + 1 /\ declared' \in {declared} \cup Manifests \cup {Garbage}
    BY <1>1 DEF ChangeBundle
  <2>2. RecordsType' BY <1>a, <2>1 DEF RecordsType
  <2>3. StepInv' BY <1>a, <2>1 DEF StepInv, ReadAsDeclared, TheRecord
  <2>4. Untouched' /\ NoFalseCorruption'
    BY <1>a, <2>1 DEF Untouched, NoFalseCorruption, RecordsType
  <2>5. PublishedIsAnswer' BY <1>a, <2>1 DEF PublishedIsAnswer
  <2>6. QED BY <2>2, <2>3, <2>4, <2>5 DEF RecordsInv
<1>2. CASE UNCHANGED recordVars
  BY <1>a, <1>2 DEF recordVars, RecordsInv, RecordsType, StepInv, ReadAsDeclared, TheRecord, Untouched,
     PublishedIsAnswer, NoFalseCorruption
<1>3. QED BY <1>1, <1>2, OpeningSteps, MemberSteps, ResultStep, CopySteps DEF RecordsNext

\* The host keeps its inductive invariant while it makes and publishes a record.
THEOREM RecordsInvariant == RecordsSpec => []RecordsInv
  BY InitRecordsInv, NextRecordsInv, PTL DEF RecordsSpec

\* Whatever happens to the directory meanwhile, a published bundle is the worker's answer
\* (build_operation_record, reconciled_bundle_bytes, publish_operation).
THEOREM PublishedRecordIsAnswer == RecordsSpec => []PublishedIsAnswer
<1>1. RecordsInv => PublishedIsAnswer BY DEF RecordsInv
<1>2. QED BY <1>1, RecordsInvariant, PTL

\* A bundle nobody touched is never called corrupt or too large without reason
\* (_derive_record, _load_result, reconcile_operation_record).
THEOREM CorruptionIsReal == RecordsSpec => []NoFalseCorruption
<1>1. RecordsInv => NoFalseCorruption BY DEF RecordsInv
<1>2. QED BY <1>1, RecordsInvariant, PTL

-----------------------------------------------------------------------------
(* Lists of questions *)

Picks(g, k, list, chosen) ==
    g = [n \in 0..k |-> IF n = 0 THEN <<>>
                        ELSE IF list[n] \in chosen THEN Append(g[n - 1], list[n]) ELSE g[n - 1]]

\* The function that Picked collects with exists.
LEMMA PicksExists ==
    ASSUME NEW list, NEW chosen, NEW k \in Nat
    PROVE  \E g : Picks(g, k, list, chosen)
<1> DEFINE Next1(s, n) == IF list[n] \in chosen THEN Append(s, list[n]) ELSE s
<1> DEFINE T == {j \in Nat : \E g : Picks(g, j, list, chosen)}
<1>1. 0 \in T
  <2>1. Picks([n \in 0..0 |-> <<>>], 0, list, chosen) BY DEF Picks
  <2>2. QED BY <2>1
<1>2. ASSUME NEW j \in Nat, j \in T PROVE j + 1 \in T
  <2>1. PICK g : Picks(g, j, list, chosen) BY <1>2
  <2> DEFINE h == [n \in 0..(j + 1) |-> IF n <= j THEN g[n] ELSE Next1(g[j], j + 1)]
  <2>2. \A n \in 0..j : g[n] = IF n = 0 THEN <<>> ELSE Next1(g[n - 1], n)
    BY <2>1 DEF Picks
  <2> HIDE DEF Next1
  <2>3. \A n \in 0..(j + 1) : h[n] = IF n = 0 THEN <<>> ELSE Next1(h[n - 1], n)
    BY <2>2
  <2>4. h = [n \in 0..(j + 1) |-> h[n]] OBVIOUS
  <2> HIDE DEF h
  <2>5. Picks(h, j + 1, list, chosen) BY <2>3, <2>4 DEF Picks, Next1
  <2>6. QED BY <2>5
<1>3. Nat \subseteq T
  <2> HIDE DEF T
  <2>1. QED BY <1>1, <1>2, SetInduction
<1>4. QED BY <1>3

\* Appending an element adds it to the set of a list's elements.
LEMMA AppendedSet ==
    ASSUME NEW S, NEW s \in Seq(S), NEW x \in S
    PROVE  Append(s, x) \in Seq(S) /\ ToSet(Append(s, x)) = ToSet(s) \cup {x}
<1>1. /\ Append(s, x) \in Seq(S) /\ DOMAIN Append(s, x) = 1..(Len(s) + 1) /\ DOMAIN s = 1..Len(s)
      /\ \A i \in 1..Len(s) : Append(s, x)[i] = s[i]
      /\ Append(s, x)[Len(s) + 1] = x /\ Len(s) \in Nat
  OBVIOUS
<1>2. ToSet(s) \cup {x} \subseteq ToSet(Append(s, x)) BY <1>1 DEF ToSet
<1>3. ToSet(Append(s, x)) \subseteq ToSet(s) \cup {x}
  <2>1. ASSUME NEW i \in 1..(Len(s) + 1) PROVE Append(s, x)[i] \in ToSet(s) \cup {x}
    <3>1. i \in 1..Len(s) \/ i = Len(s) + 1 BY <1>1
    <3>2. QED BY <1>1, <3>1 DEF ToSet
  <2>2. QED BY <1>1, <2>1 DEF ToSet
<1>4. QED BY <1>1, <1>2, <1>3

\* Picking gives a list of exactly the chosen members.
LEMMA PickedMembers ==
    ASSUME NEW S, NEW list \in Seq(S), NEW chosen
    PROVE  Picked(list, chosen) \in Seq(S) /\ ToSet(Picked(list, chosen)) = ToSet(list) \cap chosen
<1>0. Len(list) \in Nat OBVIOUS
<1> DEFINE f == CHOOSE g : Picks(g, Len(list), list, chosen)
<1>1. Picks(f, Len(list), list, chosen) BY <1>0, PicksExists
<1>2. Picked(list, chosen) = f[Len(list)] BY DEF Picked, Picks
<1> HIDE DEF f
<1>3. \A n \in 0..Len(list) :
          f[n] = IF n = 0 THEN <<>>
                 ELSE IF list[n] \in chosen THEN Append(f[n - 1], list[n]) ELSE f[n - 1]
  BY <1>1 DEF Picks
<1> DEFINE Part(n) == {list[i] : i \in 1..n} \cap chosen
<1> DEFINE T == {n \in Nat : n <= Len(list) => f[n] \in Seq(S) /\ ToSet(f[n]) = Part(n)}
<1>4. 0 \in T
  <2>1. f[0] = <<>> BY <1>0, <1>3
  <2>2. ToSet(<<>>) = {} /\ <<>> \in Seq(S) BY DEF ToSet
  <2>3. Part(0) = {} OBVIOUS
  <2>4. QED BY <2>1, <2>2, <2>3
<1>5. ASSUME NEW n \in Nat, n \in T PROVE n + 1 \in T
  <2>1. SUFFICES ASSUME n + 1 <= Len(list)
                 PROVE  f[n + 1] \in Seq(S) /\ ToSet(f[n + 1]) = Part(n + 1)
    OBVIOUS
  <2>2. f[n] \in Seq(S) /\ ToSet(f[n]) = Part(n) /\ list[n + 1] \in S
    BY <1>0, <1>5, <2>1
  <2>3. f[n + 1] = IF list[n + 1] \in chosen THEN Append(f[n], list[n + 1]) ELSE f[n]
    BY <1>3, <2>1
  <2>4. Part(n + 1) = Part(n) \cup ({list[n + 1]} \cap chosen)
    OBVIOUS
  <2> HIDE DEF Part
  <2>5. CASE list[n + 1] \in chosen
    <3>1. f[n + 1] = Append(f[n], list[n + 1]) BY <2>3, <2>5
    <3>2. f[n + 1] \in Seq(S) /\ ToSet(f[n + 1]) = ToSet(f[n]) \cup {list[n + 1]}
      BY <2>2, <3>1, AppendedSet
    <3>3. Part(n + 1) = Part(n) \cup {list[n + 1]} BY <2>4, <2>5
    <3>4. QED BY <2>2, <3>2, <3>3
  <2>6. CASE list[n + 1] \notin chosen
    <3>1. Part(n + 1) = Part(n) BY <2>4, <2>6
    <3>2. QED BY <2>2, <2>3, <2>6, <3>1
  <2>7. QED BY <2>5, <2>6
<1>6. Nat \subseteq T
  <2> HIDE DEF T
  <2>1. QED BY <1>4, <1>5, SetInduction
<1>7. Part(Len(list)) = ToSet(list) \cap chosen BY DEF ToSet
<1> HIDE DEF Part
<1>8. QED BY <1>0, <1>2, <1>6, <1>7

\* A list without any of the chosen elements yields nothing.
LEMMA PickedNothing ==
    ASSUME NEW S, NEW list \in Seq(S), NEW chosen, ToSet(list) \cap chosen = {}
    PROVE  Picked(list, chosen) = <<>>
<1>1. Picked(list, chosen) \in Seq(S) /\ ToSet(Picked(list, chosen)) = {} BY PickedMembers
<1>2. ASSUME NEW s \in Seq(S), s # <<>> PROVE s[1] \in ToSet(s)
  BY <1>2 DEF ToSet
<1>3. QED BY <1>1, <1>2

\* The second pass of _effective_values after its first k questions.
Asked(h, k, g, start) ==
    h = [n \in 0..k |-> IF n = 0 THEN start ELSE SettleQuestion(g, h[n - 1], g.questions[n])]

\* The function that AskQuestions goes through the questions with exists.
LEMMA AskedExists ==
    ASSUME NEW g, NEW start, NEW k \in Nat
    PROVE  \E h : Asked(h, k, g, start)
<1> DEFINE T == {j \in Nat : \E h : Asked(h, j, g, start)}
<1>1. 0 \in T
  <2>1. Asked([n \in 0..0 |-> start], 0, g, start) BY DEF Asked
  <2>2. QED BY <2>1
<1>2. ASSUME NEW j \in Nat, j \in T PROVE j + 1 \in T
  <2>1. PICK h : Asked(h, j, g, start) BY <1>2
  <2> DEFINE e == [n \in 0..(j + 1) |->
                      IF n <= j THEN h[n] ELSE SettleQuestion(g, h[j], g.questions[j + 1])]
  <2>2. \A n \in 0..j : h[n] = IF n = 0 THEN start ELSE SettleQuestion(g, h[n - 1], g.questions[n])
    BY <2>1 DEF Asked
  <2>3. \A n \in 0..(j + 1) :
            e[n] = IF n = 0 THEN start ELSE SettleQuestion(g, e[n - 1], g.questions[n])
    BY <2>2
  <2>4. e = [n \in 0..(j + 1) |-> e[n]] OBVIOUS
  <2> HIDE DEF e
  <2>5. Asked(e, j + 1, g, start) BY <2>3, <2>4 DEF Asked
  <2>6. QED BY <2>5
<1>3. Nat \subseteq T
  <2> HIDE DEF T
  <2>1. QED BY <1>1, <1>2, SetInduction
<1>4. QED BY <1>3

\* The passes of AskQuestions, by number.
LEMMA AskQuestionsSteps ==
    ASSUME NEW g, NEW start, Len(g.questions) \in Nat
    PROVE  \E h : /\ AskQuestions(g, start) = h[Len(g.questions)]
                  /\ h[0] = start
                  /\ \A n \in 1..Len(g.questions) :
                        h[n] = SettleQuestion(g, h[n - 1], g.questions[n])
<1> DEFINE f == CHOOSE h : Asked(h, Len(g.questions), g, start)
<1>1. Asked(f, Len(g.questions), g, start) BY AskedExists
<1>2. AskQuestions(g, start) = f[Len(g.questions)] BY DEF AskQuestions, Asked
<1> HIDE DEF f
<1>3. \A n \in 0..Len(g.questions) :
          f[n] = IF n = 0 THEN start ELSE SettleQuestion(g, f[n - 1], g.questions[n])
  BY <1>1 DEF Asked
<1>4. f[0] = start /\ \A n \in 1..Len(g.questions) :
                         f[n] = SettleQuestion(g, f[n - 1], g.questions[n])
  BY <1>3
<1>5. QED BY <1>2, <1>4

\* A question whose field the caller supplies changes nothing.
LEMMA NothingToAsk ==
    ASSUME NEW g, NEW start, Len(g.questions) \in Nat,
           \A n \in 1..Len(g.questions) : g.questions[n].field \in DOMAIN start.values
    PROVE  AskQuestions(g, start) = start
<1>1. PICK h : /\ AskQuestions(g, start) = h[Len(g.questions)]
               /\ h[0] = start
               /\ \A n \in 1..Len(g.questions) :
                     h[n] = SettleQuestion(g, h[n - 1], g.questions[n])
  BY AskQuestionsSteps
<1> DEFINE T == {n \in Nat : n <= Len(g.questions) => h[n] = start}
<1>2. 0 \in T BY <1>1
<1>3. ASSUME NEW n \in Nat, n \in T PROVE n + 1 \in T
  <2>1. SUFFICES ASSUME n + 1 <= Len(g.questions) PROVE h[n + 1] = start
    OBVIOUS
  <2>2. h[n] = start /\ n + 1 \in 1..Len(g.questions) /\ (n + 1) - 1 = n BY <1>3, <2>1
  <2>3. h[n + 1] = SettleQuestion(g, start, g.questions[n + 1]) BY <1>1, <2>2
  <2>4. g.questions[n + 1].field \in DOMAIN start.values BY <2>2
  <2>5. QED BY <2>3, <2>4 DEF SettleQuestion
<1>4. Nat \subseteq T
  <2> HIDE DEF T
  <2>1. QED BY <1>2, <1>3, SetInduction
<1>5. QED BY <1>1, <1>4

\* Preflight does not ask for what it is given.
LEMMA PreflightAsksNothing ==
    ASSUME NEW g, NEW S, g.questions \in Seq(S), NEW values,
           \A q \in ToSet(g.questions) : q.field \in DOMAIN values
    PROVE  Preflight(g, values).kind # "ambiguous"
<1> DEFINE start == [values |-> values, missing |-> <<>>, failed |-> FALSE]
<1>1. \A n \in 1..Len(g.questions) : g.questions[n].field \in DOMAIN values
  BY DEF ToSet
<1>2. AskQuestions(g, start) = start BY <1>1, NothingToAsk
<1>3. Unanswerable(g, values) = <<>>
  <2> DEFINE C == {q \in ToSet(g.questions) : /\ q.field \notin DOMAIN values
                                              /\ ~HasRule(g, q.field) /\ q.default = NoDefault}
  <2>1. ToSet(g.questions) \cap C = {} OBVIOUS
  <2> HIDE DEF C
  <2>2. Picked(g.questions, C) = <<>> BY <2>1, PickedNothing
  <2>3. QED BY <2>2 DEF Unanswerable, C
<1>4. EffectiveValues(g, values) = Concluded(SettleDefaults(g, start))
  BY <1>2, <1>3 DEF EffectiveValues, AssumeDefaults
<1>5. EffectiveValues(g, values).kind # "ambiguous"
  BY <1>4 DEF Concluded, Contract, Settled
<1>6. QED BY <1>5 DEF Preflight, Judged, Contract

-----------------------------------------------------------------------------
(* validate_plan *)

QuestionsWellFormed(inst) ==
    /\ inst.guidance.questions \in Seq(ToSet(inst.guidance.questions))
    /\ \A p, q \in ToSet(inst.guidance.questions) : p.id = q.id => p = q

AllConfirmed(p, inst) == \A q \in ToSet(inst.guidance.questions) : Confirmed(p, q)

\* What a stage that does not pass answers.
LEMMA StageStatus ==
    /\ Passes.status = "passed" /\ RaisesError.status = "raised"
    /\ \A c : Blocked(c).status = "blocked" /\ Blocked(c) # Passes
    /\ \A s : NeedsInformation(s) = RaisesError \/
              NeedsInformation(s) = [status |-> "needs_information", questions |-> s]
    /\ \A s : NeedsInformation(s) # Passes /\ NeedsInformation(s).status \in {"raised", "needs_information"}
    /\ \A p, pol : Receipt(p, pol).status = "validated" /\ Receipt(p, pol).plan_hash = PlanHash(p)
  BY DEF Passes, RaisesError, Blocked, NeedsInformation, Receipt

\* The stage of validate_plan that looks at the subject passes or blocks.
LEMMA SubjectStatus ==
    \A p, pol, inst : ValidateSubject(p, pol, inst) = Passes
                      \/ ValidateSubject(p, pol, inst).status = "blocked"
  BY StageStatus DEF ValidateSubject

\* The stage of validate_plan that looks at the requirements passes or blocks.
LEMMA RequirementsStatus ==
    \A p, rule : ValidateRequirements(p, rule) = Passes
                 \/ ValidateRequirements(p, rule).status = "blocked"
  BY StageStatus DEF ValidateRequirements

\* No stage answers with a receipt or an authorization.
LEMMA LaterStatus ==
    /\ \A p, qs : ValidateQuestions(p, qs) = Passes
                  \/ ValidateQuestions(p, qs).status \in {"blocked", "raised", "needs_information"}
    /\ \A p, inst : ValidateInputOf(p, inst) = Passes
                    \/ ValidateInputOf(p, inst).status \in {"blocked", "raised", "needs_information"}
<1>1. \A p, qs : ValidateQuestions(p, qs) = Passes
                 \/ ValidateQuestions(p, qs).status \in {"blocked", "raised", "needs_information"}
  BY StageStatus DEF ValidateQuestions
<1>2. \A inst, result : PreflightIssue(inst, result) = Passes
                        \/ PreflightIssue(inst, result).status \in {"blocked", "raised", "needs_information"}
  BY StageStatus DEF PreflightIssue
<1>3. QED BY <1>1, <1>2, StageStatus DEF ValidateInputOf

\* A receipt means that every stage passed.
LEMMA ReceiptMeans ==
    ASSUME NEW p, NEW pol, NEW pkg, NEW inst,
           ValidatePlan(p, pol, pkg, inst).status = "validated"
    PROVE  /\ ValidatePlan(p, pol, pkg, inst) = Receipt(p, pol)
           /\ p.policy_hash = pol /\ pkg = pol
           /\ ValidateSubject(p, pol, inst) = Passes
           /\ ValidateQuestions(p, inst.guidance.questions) = Passes
  BY StageStatus, SubjectStatus, RequirementsStatus, LaterStatus DEF ValidatePlan, Then

\* validate_plan raises or ends in one of its three states.
LEMMA ValidateStatus ==
    \A p, pol, pkg, inst :
        ValidatePlan(p, pol, pkg, inst).status
            \in {"raised", "blocked", "needs_information", "validated"}
  BY StageStatus, SubjectStatus, RequirementsStatus, LaterStatus DEF ValidatePlan, Then

\* A subject that passes is the installed component the rule of the policy names.
LEMMA SubjectMeans ==
    ASSUME NEW p, NEW pol, NEW inst, ValidateSubject(p, pol, inst) = Passes
    PROVE  /\ inst # Nothing /\ inst.component = p.component
           /\ pol.rules[p.profile].component = p.component
           /\ p.lifecycle = inst.lifecycle
  BY StageStatus DEF ValidateSubject

\* Questions that pass are all confirmed, with the values of the input.
LEMMA QuestionsMean ==
    ASSUME NEW p, NEW inst, QuestionsWellFormed(inst),
           ValidateQuestions(p, inst.guidance.questions) = Passes
    PROVE  /\ AllConfirmed(p, inst)
           /\ \A q \in ToSet(inst.guidance.questions) :
                 q.field \in DOMAIN p.input /\ p.input[q.field] = p.resolved[q.id].answer
<1> DEFINE questions == inst.guidance.questions
<1> DEFINE C == {q \in ToSet(questions) : ~Confirmed(p, q)}
<1>1. OpenQuestions(p, questions) = <<>> BY StageStatus DEF ValidateQuestions
<1>2. ToSet(OpenQuestions(p, questions)) = ToSet(questions) \cap C
  <2> HIDE DEF C
  <2>1. ToSet(Picked(questions, C)) = ToSet(questions) \cap C
    BY PickedMembers DEF QuestionsWellFormed
  <2>2. QED BY <2>1 DEF OpenQuestions, C
<1>3. AllConfirmed(p, inst)
  BY <1>1, <1>2 DEF AllConfirmed, ToSet
<1>4. ~\E q \in ToSet(questions) :
           /\ Confirmed(p, q)
           /\ q.field \notin DOMAIN p.input \/ p.input[q.field] # p.resolved[q.id].answer
  BY StageStatus DEF ValidateQuestions
<1>5. QED BY <1>3, <1>4 DEF AllConfirmed

\* Who has confirmed everything is asked nothing.
LEMMA ConfirmedNotAsked ==
    ASSUME NEW p, NEW pol, NEW pkg, NEW inst, inst # Nothing => QuestionsWellFormed(inst),
           inst # Nothing => AllConfirmed(p, inst)
    PROVE  ValidatePlan(p, pol, pkg, inst).status # "needs_information"
<1> SUFFICES ASSUME ValidatePlan(p, pol, pkg, inst).status = "needs_information" PROVE FALSE
  OBVIOUS
<1> DEFINE questions == inst.guidance.questions
<1>1. ValidateSubject(p, pol, inst) = Passes
  BY StageStatus, SubjectStatus DEF ValidatePlan, Then
<1>2. inst # Nothing BY <1>1, SubjectMeans
<1>3. OpenQuestions(p, questions) = <<>>
  <2> DEFINE C == {q \in ToSet(questions) : ~Confirmed(p, q)}
  <2>1. ToSet(questions) \cap C = {} BY <1>2 DEF AllConfirmed
  <2> HIDE DEF C
  <2>2. Picked(questions, C) = <<>> BY <1>2, <2>1, PickedNothing DEF QuestionsWellFormed
  <2>3. QED BY <2>2 DEF OpenQuestions, C
<1>4. ValidateQuestions(p, questions).status \in {"blocked", "passed"}
  BY <1>3, StageStatus DEF ValidateQuestions
<1>5. ValidateQuestions(p, questions) = Passes
  BY <1>1, <1>4, StageStatus, LaterStatus DEF ValidatePlan, Then
<1>6. ValidateInputOf(p, inst).status = "needs_information"
  BY <1>1, <1>5, StageStatus, RequirementsStatus DEF ValidatePlan, Then
<1>7. /\ ModelAccepts(inst.model, p.input)
      /\ PreflightIssue(inst, Preflight(inst.guidance, ModelDump(inst.model, p.input))).status
            = "needs_information"
  BY <1>6, StageStatus DEF ValidateInputOf
<1>8. \A q \in ToSet(questions) : q.field \in DOMAIN p.input
  BY <1>2, <1>5, QuestionsMean
<1>9. \A q \in ToSet(questions) : q.field \in DOMAIN ModelDump(inst.model, p.input)
  BY <1>7, <1>8 DEF ModelAccepts, ModelDump
<1>10. Preflight(inst.guidance, ModelDump(inst.model, p.input)).kind # "ambiguous"
  BY <1>2, <1>9, PreflightAsksNothing DEF QuestionsWellFormed
<1>11. QED BY <1>7, <1>10, StageStatus DEF PreflightIssue

\* What is asked is every question that is open.
LEMMA AskedAreOpen ==
    ASSUME NEW p, NEW pol, NEW pkg, NEW inst, inst # Nothing => QuestionsWellFormed(inst),
           ValidatePlan(p, pol, pkg, inst).status = "needs_information"
    PROVE  /\ inst # Nothing
           /\ ToSet(ValidatePlan(p, pol, pkg, inst).questions)
                 = {q \in ToSet(inst.guidance.questions) : ~Confirmed(p, q)}
<1> DEFINE questions == inst.guidance.questions
<1> DEFINE C == {q \in ToSet(questions) : ~Confirmed(p, q)}
<1>1. ValidateSubject(p, pol, inst) = Passes
  BY StageStatus, SubjectStatus DEF ValidatePlan, Then
<1>2. inst # Nothing BY <1>1, SubjectMeans
<1>3. ValidateQuestions(p, questions) # Passes
  BY <1>2, ConfirmedNotAsked, QuestionsMean
<1>4. ValidatePlan(p, pol, pkg, inst) = ValidateQuestions(p, questions)
  BY <1>1, <1>3, StageStatus DEF ValidatePlan, Then
<1>5. ValidateQuestions(p, questions)
        = [status |-> "needs_information", questions |-> OpenQuestions(p, questions)]
  BY <1>4, StageStatus DEF ValidateQuestions
<1>6. ToSet(OpenQuestions(p, questions)) = ToSet(questions) \cap C
  <2> HIDE DEF C
  <2>1. ToSet(Picked(questions, C)) = ToSet(questions) \cap C
    BY <1>2, PickedMembers DEF QuestionsWellFormed
  <2>2. QED BY <2>1 DEF OpenQuestions, C
<1>7. QED BY <1>2, <1>4, <1>5, <1>6

\* An authorization means that everything was verified.
LEMMA AuthorizedMeans ==
    ASSUME NEW p, NEW r, NEW a, NEW b, NEW pol, NEW pkg, NEW inst,
           VerifyAuthorization(p, r, a, b, pol, pkg, inst).status = "authorized"
    PROVE  /\ r.plan_hash = PlanHash(p) /\ p.policy_hash = pol
           /\ ValidatePlan(p, pol, pkg, inst) = r
           /\ b.approval_hash = a
<1>1. \A c : Refused(c).status # "authorized" BY DEF Refused
<1>2. QED BY <1>1 DEF VerifyAuthorization

-----------------------------------------------------------------------------
(* The chain from plan to authorization *)

ChainInv ==
    /\ {"input", "resolved"} \subseteq DOMAIN plan
    /\ installed \in InstalledComponents
    /\ receipt # Nothing =>
          receipt.status = "validated" /\ receipt.plan_hash = PlanHash(approved)
    /\ approval # Nothing => receipt # Nothing
    /\ authorization # Nothing => receipt # Nothing
    /\ outcome.status = "authorized" => authorization # Nothing

\* What is asked is what validation of this plan asks, and who has answered has confirmed all.
AskInv ==
    /\ outcome.status = "needs_information" =>
          receipt = Nothing /\ outcome = ValidatePlan(plan, policy, packaged, installed)
    /\ rounds = 1 /\ receipt = Nothing /\ installed # Nothing => AllConfirmed(plan, installed)

PlanInv == ChainInv /\ AskInv /\ AuthorizedIsApproved

\* An installed component's questions are a list in which an identifier names one question.
LEMMA InstalledWellFormed ==
    \A inst \in InstalledComponents : inst # Nothing => QuestionsWellFormed(inst)
  BY PlanAssumption DEF QuestionsWellFormed

\* The invariant holds initially.
LEMMA InitPlanInv == PlanInit => PlanInv
<1> SUFFICES ASSUME PlanInit PROVE PlanInv
  OBVIOUS
<1>1. ChainInv BY PlanAssumption DEF PlanInit, ChainInv, NoOutcome
<1>2. AskInv /\ AuthorizedIsApproved BY DEF PlanInit, AskInv, AuthorizedIsApproved, NoOutcome
<1>3. QED BY <1>1, <1>2 DEF PlanInv

\* Answers to what was asked confirm everything.
LEMMA AnswersConfirmAll ==
    ASSUME PlanInv, ConfirmAnswers, installed # Nothing
    PROVE  AllConfirmed(plan', installed)
<1> DEFINE qs == ToSet(outcome.questions)
<1> DEFINE ids == {q.id : q \in qs}
<1>a. /\ {"input", "resolved"} \subseteq DOMAIN plan /\ installed \in InstalledComponents
      /\ outcome.status = "needs_information"
      /\ outcome = ValidatePlan(plan, policy, packaged, installed)
  BY DEF PlanInv, ChainInv, AskInv, ConfirmAnswers
<1>b. QuestionsWellFormed(installed) BY <1>a, InstalledWellFormed
<1>1. qs = {q \in ToSet(installed.guidance.questions) : ~Confirmed(plan, q)}
  BY <1>a, <1>b, AskedAreOpen
<1>2. PICK v \in AnswerValues :
         plan'.resolved = [i \in DOMAIN plan.resolved \cup ids |->
                              IF i \in ids
                              THEN [field |-> (CHOOSE q \in qs : q.id = i).field, answer |-> v,
                                    confirmed |-> TRUE, at |-> 2]
                              ELSE plan.resolved[i]]
  BY <1>a DEF ConfirmAnswers
<1>3. ASSUME NEW q \in ToSet(installed.guidance.questions) PROVE Confirmed(plan', q)
  <2>1. CASE q \in qs
    <3>1. \A p \in qs : p.id = q.id => p = q BY <1>b, <1>1 DEF QuestionsWellFormed
    <3>2. (CHOOSE p \in qs : p.id = q.id) = q BY <2>1, <3>1
    <3>3. q.id \in ids BY <2>1
    <3> HIDE DEF ids, qs
    <3>4. q.id \in DOMAIN plan'.resolved /\ plan'.resolved[q.id].field = q.field
          /\ plan'.resolved[q.id].confirmed
      BY <1>2, <3>2, <3>3
    <3>5. QED BY <3>4 DEF Confirmed
  <2>2. CASE q \notin qs
    <3>1. Confirmed(plan, q) BY <1>1, <1>3, <2>2
    <3>2. q.id \notin ids BY <1>b, <1>1, <2>2 DEF QuestionsWellFormed
    <3> HIDE DEF ids, qs
    <3>3. QED BY <1>2, <3>1, <3>2 DEF Confirmed
  <2>3. QED BY <2>1, <2>2
<1>4. QED BY <1>3 DEF AllConfirmed

\* Validation and verification keep the invariant.
LEMMA CallsKeep ==
    ASSUME PlanInv, CallValidate \/ CallVerify
    PROVE  PlanInv'
<1>a. ChainInv /\ AskInv /\ AuthorizedIsApproved BY DEF PlanInv
<1>1. CASE CallValidate
  <2>0. /\ receipt = Nothing /\ outcome' = ValidatePlan(plan, policy, packaged, installed)
        /\ UNCHANGED <<plan, policy, packaged, installed, approval, authorization, rounds, drift>>
        /\ receipt' = IF outcome'.status = "validated" THEN outcome' ELSE Nothing
        /\ approved' = IF outcome'.status = "validated" THEN plan ELSE Nothing
    BY <1>1 DEF CallValidate
  <2>1. outcome'.status \in {"raised", "blocked", "needs_information", "validated"}
    BY <2>0, ValidateStatus
  <2>2. outcome'.status = "validated" => outcome'.plan_hash = PlanHash(plan)
    BY <2>0, ReceiptMeans, StageStatus
  <2>3. ChainInv'
    BY <1>a, <2>0, <2>1, <2>2 DEF ChainInv
  <2>4. AskInv'
    BY <1>a, <2>0, <2>1 DEF AskInv, AllConfirmed, Confirmed
  <2>5. AuthorizedIsApproved' BY <2>1 DEF AuthorizedIsApproved
  <2>6. QED BY <2>3, <2>4, <2>5 DEF PlanInv
<1>2. CASE CallVerify
  <2>0. /\ authorization # Nothing
        /\ outcome' = VerifyAuthorization(plan, receipt, approval, authorization, policy, packaged,
                                          installed)
        /\ UNCHANGED <<plan, policy, packaged, installed, receipt, approval, authorization, rounds,
                       drift, approved>>
    BY <1>2 DEF CallVerify
  <2>1. outcome'.status \in {"failed", "authorized"}
    BY <2>0 DEF VerifyAuthorization, Refused
  <2>2. ChainInv' BY <1>a, <2>0, <2>1 DEF ChainInv
  <2>3. AskInv' BY <1>a, <2>0, <2>1 DEF AskInv, AllConfirmed, Confirmed
  <2>4. AuthorizedIsApproved'
    <3>1. SUFFICES ASSUME outcome'.status = "authorized" PROVE AuthorizedIsApproved'
      BY DEF AuthorizedIsApproved
    <3>2. /\ receipt.plan_hash = PlanHash(plan) /\ plan.policy_hash = policy
          /\ ValidatePlan(plan, policy, packaged, installed) = receipt
          /\ authorization.approval_hash = approval
      BY <2>0, <3>1, AuthorizedMeans
    <3>3. receipt.status = "validated" /\ receipt.plan_hash = PlanHash(approved)
          /\ installed \in InstalledComponents
      BY <1>a, <2>0 DEF ChainInv
    <3>4. /\ packaged = policy /\ ValidateSubject(plan, policy, installed) = Passes
          /\ ValidateQuestions(plan, installed.guidance.questions) = Passes
      BY <3>2, <3>3, ReceiptMeans
    <3>5. /\ installed # Nothing /\ installed.component = plan.component
          /\ policy.rules[plan.profile].component = plan.component
          /\ plan.lifecycle = installed.lifecycle
      BY <3>4, SubjectMeans
    <3>6. \A q \in ToSet(installed.guidance.questions) :
             \E j \in DOMAIN plan.resolved :
                 /\ plan.resolved[j].confirmed /\ plan.resolved[j].field = q.field
                 /\ plan.input[q.field] = plan.resolved[j].answer
      BY <3>3, <3>4, <3>5, QuestionsMean, InstalledWellFormed DEF AllConfirmed, Confirmed
    <3>7. QED BY <2>0, <3>2, <3>3, <3>4, <3>5, <3>6 DEF AuthorizedIsApproved, PlanHash
  <2>5. QED BY <2>2, <2>3, <2>4 DEF PlanInv
<1>3. QED BY <1>1, <1>2

\* Every step keeps it.
LEMMA NextPlanInv == PlanInv /\ [PlanNext]_planVars => PlanInv'
<1> SUFFICES ASSUME PlanInv, [PlanNext]_planVars PROVE PlanInv'
  OBVIOUS
<1>a. ChainInv /\ AskInv /\ AuthorizedIsApproved BY DEF PlanInv
<1>1. CASE CallValidate \/ CallVerify BY <1>1, CallsKeep
<1>2. CASE ConfirmAnswers
  <2>0. /\ outcome.status = "needs_information" /\ outcome' = NoOutcome
        /\ UNCHANGED <<policy, packaged, installed, receipt, approval, authorization, drift, approved>>
    BY <1>2 DEF ConfirmAnswers
  <2>1. outcome'.status = "none" BY <2>0 DEF NoOutcome
  <2>2. DOMAIN plan' = DOMAIN plan BY <1>2 DEF ConfirmAnswers
  <2>3. ChainInv' BY <1>a, <2>0, <2>1, <2>2 DEF ChainInv
  <2>4. installed # Nothing => AllConfirmed(plan', installed) BY <1>2, AnswersConfirmAll
  <2>5. AskInv' BY <2>0, <2>1, <2>4 DEF AskInv
  <2>6. AuthorizedIsApproved' BY <2>1 DEF AuthorizedIsApproved
  <2>7. QED BY <2>3, <2>5, <2>6 DEF PlanInv
<1>3. CASE \E who \in Approvers : CallApprove(who)
  <2>0. /\ receipt # Nothing /\ authorization = Nothing
        /\ UNCHANGED <<plan, policy, packaged, installed, receipt, authorization, outcome, rounds,
                       drift, approved>>
    BY <1>3 DEF CallApprove
  <2>1. outcome.status # "authorized" /\ outcome.status # "needs_information"
    BY <1>a, <2>0 DEF ChainInv, AskInv
  <2>2. QED BY <1>a, <2>0, <2>1 DEF PlanInv, ChainInv, AskInv, AuthorizedIsApproved
<1>4. CASE CallBind
  <2>0. /\ approval # Nothing /\ authorization = Nothing
        /\ UNCHANGED <<plan, policy, packaged, installed, receipt, approval, outcome, rounds, drift,
                       approved>>
    BY <1>4 DEF CallBind
  <2>1. receipt # Nothing /\ outcome.status # "authorized" /\ outcome.status # "needs_information"
    BY <1>a, <2>0 DEF ChainInv, AskInv
  <2>2. QED BY <1>a, <2>0, <2>1 DEF PlanInv, ChainInv, AskInv, AuthorizedIsApproved
<1>5. CASE Drift
  <2>0. /\ receipt # Nothing /\ outcome' = NoOutcome
        /\ UNCHANGED <<receipt, authorization, rounds, approved>>
        /\ installed' \in InstalledComponents /\ (plan' = plan \/ plan' \in Plans)
    BY <1>5, <1>a DEF Drift, ChainInv
  <2>1. outcome'.status = "none" BY <2>0 DEF NoOutcome
  <2>2. ChainInv' BY <1>a, <2>0, <2>1, PlanAssumption DEF ChainInv
  <2>3. AskInv' /\ AuthorizedIsApproved' BY <2>0, <2>1 DEF AskInv, AuthorizedIsApproved
  <2>4. QED BY <2>2, <2>3 DEF PlanInv
<1>6. CASE UNCHANGED planVars
  <2>1. UNCHANGED <<plan, policy, packaged, installed, receipt, approval, authorization, outcome,
                    rounds, drift, approved>>
    BY <1>6 DEF planVars
  <2>2. ChainInv' /\ AskInv' BY <1>a, <2>1 DEF ChainInv, AskInv
  <2>3. AuthorizedIsApproved' BY <1>a, <2>1 DEF AuthorizedIsApproved
  <2>4. QED BY <2>2, <2>3 DEF PlanInv
<1>7. QED BY <1>1, <1>2, <1>3, <1>4, <1>5, <1>6 DEF PlanNext

\* The chain keeps its inductive invariant.
THEOREM PlanInvariant == PlanSpec => []PlanInv
  BY InitPlanInv, NextPlanInv, PTL DEF PlanSpec

\* What is authorized is what the approver was shown, still in force, for the component
\* installed now, with every question of its contract confirmed (verify_authorization).
THEOREM OnlyTheApprovedIsAuthorized == PlanSpec => []AuthorizedIsApproved
<1>1. PlanInv => AuthorizedIsApproved BY DEF PlanInv
<1>2. QED BY <1>1, PlanInvariant, PTL

\* A caller that answers what it was asked is not asked again
\* (_validate_required_questions, _ambiguity_failure).
THEOREM QuestionsAskedOnce == PlanSpec => []AskedOnce
<1>1. PlanInv => AskedOnce
  <2> SUFFICES ASSUME PlanInv, rounds = 1, outcome.status = "needs_information" PROVE FALSE
    BY DEF AskedOnce
  <2>1. /\ receipt = Nothing /\ outcome = ValidatePlan(plan, policy, packaged, installed)
        /\ installed \in InstalledComponents
        /\ installed # Nothing => AllConfirmed(plan, installed)
    BY DEF PlanInv, ChainInv, AskInv
  <2>2. QED BY <2>1, ConfirmedNotAsked, InstalledWellFormed
<1>2. QED BY <1>1, PlanInvariant, PTL

-----------------------------------------------------------------------------
(* Local files: the invariant *)

Handles == [at : Descriptors, object : ToSet(Roots), closed : BOOLEAN]
Points ==
    {"start", "dup", "identify", "folder", "file", "stat", "open", "compare", "read", "restat",
     "finally", "done"}
Results ==
    {"none", "bytes", "unsafe_input_path", "unsupported_data_format", "input_root_denied",
     "input_limit_exceeded", "file_changed"}
Progress ==
    [pc : Points, mine : Seq(Descriptors), meta : (Objects \cup {Closed}) \X Nat, total : Nat,
     result : Results, from : Objects \cup {Closed}]

ReadsType ==
    /\ opened \in [Descriptors -> Objects \cup {Closed}]
    /\ rootAt \in [ToSet(Roots) -> ToSet(Roots) \cup {Link}]
    /\ \A root \in ToSet(Roots) : rootAt[root] \in {root, Link}
    /\ entry \in [Folders -> Entries] /\ chunks \in [Files -> Nat]
    /\ reading \in [DOMAIN Readers -> Progress]
    /\ other \in Descriptors \cup {Closed}

\* The handles are those of the first roots, and open until the roots are closed.
RootsInv ==
    /\ pinned \in Seq(Handles) /\ Len(pinned) <= Len(Roots)
    /\ \A k \in 1..Len(pinned) : pinned[k].object = Roots[k]
    /\ roots \in {"pinning", "checking", "ready"} => \A k \in 1..Len(pinned) : ~pinned[k].closed
    /\ roots = "pinning" => Len(pinned) < Len(Roots)
    /\ roots = "checking" => Len(pinned) > 0
    /\ roots \in {"ready", "closing", "closed"} => Len(pinned) = Len(Roots)
    /\ roots \in {"pinning", "checking", "ready", "closing", "closed", "denied"}

Pins == {k \in DOMAIN pinned : ~pinned[k].closed}
ActiveReaders == {r \in DOMAIN Readers : reading[r].pc # "done"}
Mine(r) == ToSet(reading[r].mine)

\* Every open descriptor belongs to one handle, one reader or the other thread.
TableInv ==
    /\ \A d \in Descriptors : opened[d] # Closed <=>
          \/ \E k \in Pins : pinned[k].at = d
          \/ \E r \in ActiveReaders : d \in Mine(r)
          \/ other = d
    /\ \A j, k \in Pins : pinned[j].at = pinned[k].at => j = k
    /\ \A k \in Pins, r \in ActiveReaders : pinned[k].at \notin Mine(r)
    /\ \A q, r \in ActiveReaders : q # r => Mine(q) \cap Mine(r) = {}
    /\ \A k \in Pins : pinned[k].at # other
    /\ \A r \in ActiveReaders : other \notin Mine(r)
    /\ \A k \in Pins : opened[pinned[k].at] = pinned[k].object
    /\ other # Closed => opened[other] = Elsewhere

\* The directory a reader's path names.
Target(r) == FolderOf[Roots[IF Readers[r] = "path" THEN 1 ELSE Len(Roots)]]

\* A reader x that has walked to its control point, with the descriptors open as o says.
Walked(r, x, o) ==
    /\ x.pc \in {"start", "dup", "open"} => x.mine = <<>>
    /\ x.pc \in {"identify", "folder", "file", "stat", "compare", "read", "restat"} => x.mine # <<>>
    /\ x.pc \in {"dup", "identify", "folder", "file", "stat"} => Readers[r] # "path"
    /\ x.pc \in {"identify", "folder"} => o[Last(x.mine)] = Roots[Len(Roots)]
    /\ x.pc = "file" => o[Last(x.mine)] = Target(r)
    /\ x.pc = "stat" => o[Last(x.mine)] \in {Target(r)} \X Entries
    /\ x.pc \in {"open", "compare"} => Readers[r] = "path"
    /\ x.pc \in {"open", "compare", "read", "restat"} => x.meta[1] \in FilesIn(Target(r))
    /\ x.pc \in {"read", "restat"} =>
          /\ x.meta[1] = o[Last(x.mine)] /\ x.meta[2] <= MaxChunks
          /\ x.total > 0 => x.from = x.meta[1]
    /\ x.pc \notin {"read", "restat", "finally", "done"} => x.total = 0
    /\ x.pc \notin {"finally", "done"} => x.result = "none"
    /\ x.pc # "start" /\ x.pc # "done" /\ Readers[r] # "path" =>
          Len(pinned) = Len(Roots) /\ roots \in {"ready", "closing", "closed"}
    /\ x.result = "bytes" =>
          /\ x.meta[1] \in FilesIn(Target(r))
          /\ x.total = x.meta[2] /\ x.total <= MaxChunks
          /\ x.total > 0 => x.from = x.meta[1]

WalkInv == \A r \in DOMAIN Readers : Walked(r, reading[r], opened)

ReadsInv == ReadsType /\ RootsInv /\ TableInv /\ WalkInv

\* Facts about the constants.
LEMMA RootFacts ==
    /\ Roots \in Seq(ToSet(Roots)) /\ Len(Roots) \in Nat /\ Len(Roots) > 0
    /\ \A k \in 1..Len(Roots) : Roots[k] \in ToSet(Roots)
    /\ \A root \in ToSet(Roots) : FolderOf[root] \in Folders /\ root \in Objects
    /\ \A folder \in Folders : folder \in Objects /\ \A e \in Entries : <<folder, e>> \in Objects
    /\ Elsewhere \in Objects /\ Closed \notin Objects /\ Closed \notin Descriptors
    /\ Descriptors \subseteq Nat /\ MaxChunks \in Nat
<1>1. Roots \in Seq(ToSet(Roots)) /\ Len(Roots) \in Nat /\ Len(Roots) > 0
  BY SecureReadsAssumption
<1>2. \A k \in 1..Len(Roots) : Roots[k] \in ToSet(Roots)
  BY <1>1
<1>3. QED BY <1>1, <1>2, SecureReadsAssumption DEF Folders, Objects

\* The least of some numbers is one of them.
LEMMA MinMember ==
    ASSUME NEW T \in SUBSET Nat, T # {}
    PROVE  Min(T) \in T
<1>1. \E n \in T : \A m \in T : n <= m BY LeastNumber
<1>2. QED BY <1>1 DEF Min

\* A new descriptor was closed.
LEMMA NewDescriptor ==
    ASSUME Unused # {}
    PROVE  Min(Unused) \in Descriptors /\ opened[Min(Unused)] = Closed
<1>1. Unused \in SUBSET Nat BY RootFacts DEF Unused
<1>2. Min(Unused) \in Unused BY <1>1, MinMember
<1>3. QED BY <1>2 DEF Unused

\* The last descriptor of a list is one of it.
LEMMA LastIn ==
    ASSUME NEW S, NEW s \in Seq(S), s # <<>>
    PROVE  Last(s) \in ToSet(s) /\ Last(s) \in S /\ ToSet(s) \subseteq S
  BY DEF Last, ToSet

\* The handles of the roots.
LEMMA PinFacts ==
    ASSUME RootsInv
    PROVE  /\ DOMAIN pinned = 1..Len(pinned) /\ Len(pinned) \in Nat /\ Pins \subseteq 1..Len(pinned)
           /\ \A k \in 1..Len(pinned) :
                 /\ pinned[k] \in Handles /\ pinned[k].at \in Descriptors
                 /\ pinned[k].object \in ToSet(Roots) /\ pinned[k].closed \in BOOLEAN
           /\ \A k \in Pins : pinned[k].at \in Descriptors
<1>1. pinned \in Seq(Handles) BY DEF RootsInv
<1>2. DOMAIN pinned = 1..Len(pinned) /\ Len(pinned) \in Nat BY <1>1
<1>3. \A k \in 1..Len(pinned) : pinned[k] \in Handles BY <1>1
<1>4. \A h \in Handles : h.at \in Descriptors /\ h.object \in ToSet(Roots) /\ h.closed \in BOOLEAN
  BY DEF Handles
<1>5. QED BY <1>2, <1>3, <1>4 DEF Pins

\* A reader stays where it is while its descriptors stay open.
LEMMA WalkedKept ==
    ASSUME NEW r \in DOMAIN Readers, NEW x \in Progress, NEW o, NEW p, Walked(r, x, o),
           x.pc = "done" \/ \A d \in ToSet(x.mine) : p[d] = o[d]
    PROVE  Walked(r, x, p)
<1>1. x.mine # <<>> => Last(x.mine) \in ToSet(x.mine)
  BY LastIn DEF Progress
<1>2. x.mine # <<>> /\ x.pc # "done" => p[Last(x.mine)] = o[Last(x.mine)]
  BY <1>1
<1>3. QED BY <1>2 DEF Walked

\* What one reader does that opens and closes nothing.
LEMMA QuietReader ==
    ASSUME ReadsInv, NEW r \in DOMAIN Readers, NEW x \in Progress,
           reading' = [reading EXCEPT ![r] = x], x.mine = reading[r].mine,
           x.pc # "done", reading[r].pc # "done",
           UNCHANGED opened, ReaderKeeps, Walked(r, x, opened)
    PROVE  ReadsInv'
<1>a. ReadsType /\ RootsInv /\ TableInv /\ WalkInv BY DEF ReadsInv
<1>b. UNCHANGED <<opened, pinned, roots, rootAt, entry, chunks, other>> BY DEF ReaderKeeps
<1>1. ReadsType' BY <1>a, <1>b DEF ReadsType
<1>2. RootsInv' BY <1>a, <1>b DEF RootsInv
<1>3. ActiveReaders' = ActiveReaders /\ Pins' = Pins
      /\ \A q \in DOMAIN Readers : reading'[q].mine = reading[q].mine
  BY <1>a, <1>b DEF ActiveReaders, Pins, ReadsType
<1>4. \A q \in DOMAIN Readers : Mine(q)' = Mine(q) BY <1>3 DEF Mine
<1>5. TableInv'
  BY <1>a, <1>b, <1>3, <1>4 DEF TableInv, ActiveReaders
<1>6. WalkInv'
  <2>1. \A q \in DOMAIN Readers : Walked(q, reading'[q], opened)
    BY <1>a DEF WalkInv, ReadsType
  <2>2. QED BY <1>b, <2>1 DEF WalkInv, Walked, Target
<1>7. QED BY <1>1, <1>2, <1>5, <1>6 DEF ReadsInv

\* What one reader does when it opens one more.
LEMMA TakingReader ==
    ASSUME ReadsInv, NEW r \in DOMAIN Readers, NEW x \in Progress, NEW object \in Objects,
           OpenOn(object), reading' = [reading EXCEPT ![r] = x],
           x.mine = Append(reading[r].mine, Min(Unused)),
           x.pc # "done", reading[r].pc # "done", ReaderKeeps, Walked(r, x, opened')
    PROVE  ReadsInv'
<1> DEFINE d == Min(Unused)
<1>a. ReadsType /\ RootsInv /\ TableInv /\ WalkInv BY DEF ReadsInv
<1>b. UNCHANGED <<pinned, roots, rootAt, entry, chunks, other>> BY DEF ReaderKeeps
<1>c. d \in Descriptors /\ opened[d] = Closed /\ opened' = [opened EXCEPT ![d] = object]
      /\ object # Closed
  BY NewDescriptor, RootFacts DEF OpenOn
<1>d. reading[r].mine \in Seq(Descriptors) /\ x.mine = Append(reading[r].mine, d)
  BY <1>a DEF ReadsType, Progress
<1> HIDE DEF d
<1>e. ToSet(x.mine) = ToSet(reading[r].mine) \cup {d}
  BY <1>c, <1>d, AppendedSet
<1>1. ReadsType' BY <1>a, <1>b, <1>c DEF ReadsType
<1>2. RootsInv' BY <1>a, <1>b DEF RootsInv
<1>3. ActiveReaders' = ActiveReaders /\ Pins' = Pins /\ r \in ActiveReaders
  BY <1>a, <1>b DEF ActiveReaders, Pins, ReadsType
<1>4. \A q \in DOMAIN Readers : Mine(q)' = IF q = r THEN Mine(q) \cup {d} ELSE Mine(q)
  BY <1>a, <1>e DEF Mine, ReadsType
<1>5. /\ \A k \in Pins : pinned[k].at # d
      /\ \A q \in ActiveReaders : d \notin Mine(q)
      /\ other # d
  BY <1>a, <1>c DEF TableInv
<1>6. TableInv'
  <2>1. \A e \in Descriptors : opened'[e] # Closed <=>
            \/ \E k \in Pins : pinned[k].at = e
            \/ \E q \in ActiveReaders : e \in Mine(q)'
            \/ other = e
    <3> TAKE e \in Descriptors
    <3>1. CASE e = d
      BY <1>a, <1>c, <1>3, <1>4, <3>1 DEF ReadsType, ActiveReaders
    <3>2. CASE e # d
      <4>1. opened'[e] = opened[e] BY <1>a, <1>c, <3>2 DEF ReadsType
      <4>2. \A q \in ActiveReaders : e \in Mine(q)' <=> e \in Mine(q)
        BY <1>4, <3>2 DEF ActiveReaders
      <4>3. QED BY <1>a, <4>1, <4>2 DEF TableInv
    <3>3. QED BY <3>1, <3>2
  <2>2. \A k \in Pins, q \in ActiveReaders : pinned[k].at \notin Mine(q)'
    BY <1>a, <1>4, <1>5 DEF TableInv, ActiveReaders
  <2>3. \A p, q \in ActiveReaders : p # q => Mine(p)' \cap Mine(q)' = {}
    BY <1>a, <1>4, <1>5 DEF TableInv, ActiveReaders
  <2>4. \A q \in ActiveReaders : other \notin Mine(q)'
    BY <1>a, <1>4, <1>5 DEF TableInv, ActiveReaders
  <2>5. \A k \in Pins : opened'[pinned[k].at] = pinned[k].object
    <3>1. \A k \in Pins : pinned[k].at \in Descriptors BY <1>a, PinFacts
    <3>2. QED BY <1>a, <1>c, <1>5, <3>1 DEF TableInv, ReadsType
  <2>6. other # Closed => opened'[other] = Elsewhere
    BY <1>a, <1>c, <1>5 DEF TableInv, ReadsType
  <2>7. QED BY <1>a, <1>b, <1>3, <2>1, <2>2, <2>3, <2>4, <2>5, <2>6 DEF TableInv
<1>7. WalkInv'
  <2>1. ASSUME NEW q \in DOMAIN Readers PROVE Walked(q, reading'[q], opened')
    <3>1. CASE q = r BY <1>a, <3>1 DEF ReadsType
    <3>2. CASE q # r
      <4>1. reading'[q] = reading[q] /\ reading[q] \in Progress BY <1>a, <3>2 DEF ReadsType
      <4>2. reading[q].pc = "done" \/ \A e \in ToSet(reading[q].mine) : e # d
        BY <1>5 DEF ActiveReaders, Mine
      <4>3. \A e \in ToSet(reading[q].mine) : e \in Descriptors
        BY <4>1 DEF Progress, ToSet
      <4>4. reading[q].pc = "done" \/ \A e \in ToSet(reading[q].mine) : opened'[e] = opened[e]
        BY <1>a, <1>c, <4>2, <4>3 DEF ReadsType
      <4>5. Walked(q, reading[q], opened) BY <1>a DEF WalkInv
      <4>6. QED BY <4>1, <4>4, <4>5, WalkedKept
    <3>3. QED BY <3>1, <3>2
  <2>2. QED BY <1>b, <2>1 DEF WalkInv, Walked, Target
<1>8. QED BY <1>1, <1>2, <1>6, <1>7 DEF ReadsInv

\* The records a reader's steps leave.
LEMMA ProgressFields ==
    ASSUME NEW x \in Progress
    PROVE  /\ x.pc \in Points /\ x.mine \in Seq(Descriptors) /\ x.total \in Nat /\ x.result \in Results
           /\ x.meta \in (Objects \cup {Closed}) \X Nat /\ x.from \in Objects \cup {Closed}
  BY DEF Progress

Moved(x, to) == [x EXCEPT !.pc = to]
Ended(x, result) == [x EXCEPT !.pc = "finally", !.result = result]
Opening(x, to, d) == [x EXCEPT !.pc = to, !.mine = Append(@, d)]
Metered(x, to, o, n) == [x EXCEPT !.pc = to, !.meta = <<o, n>>]
ReadOn(x, to, o, n, result) == [x EXCEPT !.total = n, !.from = o, !.pc = to, !.result = result]

\* What moving a reader on leaves as it is (here and below, one lemma for each way in
\* which an action updates a reader's record).
LEMMA ProgressMoved ==
    ASSUME NEW x \in Progress, NEW y, NEW to \in Points,
           y = Moved(x, to)
    PROVE  /\ y \in Progress
           /\ y.pc = to /\ y.mine = x.mine /\ y.meta = x.meta
           /\ y.total = x.total /\ y.result = x.result /\ y.from = x.from
<1>1. x = [pc |-> x.pc, mine |-> x.mine, meta |-> x.meta, total |-> x.total,
           result |-> x.result, from |-> x.from]
  BY DEF Progress
<1>2. y = [pc |-> to, mine |-> x.mine, meta |-> x.meta, total |-> x.total,
           result |-> x.result, from |-> x.from]
  BY <1>1 DEF Moved
<1>4. y \in Progress BY <1>2, ProgressFields DEF Progress
<1>5. QED BY <1>2, <1>4

\* What ending a read with a result leaves as it is.
LEMMA ProgressEnded ==
    ASSUME NEW x \in Progress, NEW y, NEW result \in Results,
           y = Ended(x, result)
    PROVE  /\ y \in Progress
           /\ y.pc = "finally" /\ y.mine = x.mine /\ y.meta = x.meta
           /\ y.total = x.total /\ y.result = result /\ y.from = x.from
<1>1. x = [pc |-> x.pc, mine |-> x.mine, meta |-> x.meta, total |-> x.total,
           result |-> x.result, from |-> x.from]
  BY DEF Progress
<1>2. y = [pc |-> "finally", mine |-> x.mine, meta |-> x.meta, total |-> x.total,
           result |-> result, from |-> x.from]
  BY <1>1 DEF Ended
<1>3. "finally" \in Points BY DEF Points
<1>4. y \in Progress BY <1>2, <1>3, ProgressFields DEF Progress
<1>5. QED BY <1>2, <1>4

\* What taking a descriptor changes: the reader's list grows by it.
LEMMA ProgressTaken ==
    ASSUME NEW x \in Progress, NEW y, NEW to \in Points, NEW d \in Descriptors,
           y = Opening(x, to, d)
    PROVE  /\ y \in Progress
           /\ y.pc = to /\ y.mine = Append(x.mine, d) /\ y.meta = x.meta
           /\ y.total = x.total /\ y.result = x.result /\ y.from = x.from
<1>1. x = [pc |-> x.pc, mine |-> x.mine, meta |-> x.meta, total |-> x.total,
           result |-> x.result, from |-> x.from]
  BY DEF Progress
<1>2. y = [pc |-> to, mine |-> Append(x.mine, d), meta |-> x.meta, total |-> x.total,
           result |-> x.result, from |-> x.from]
  BY <1>1 DEF Opening
<1>3. Append(x.mine, d) \in Seq(Descriptors) BY ProgressFields
<1>4. y \in Progress BY <1>2, <1>3, ProgressFields DEF Progress
<1>5. QED BY <1>2, <1>4

\* What remembering a file's identity and size changes.
LEMMA ProgressMeta ==
    ASSUME NEW x \in Progress, NEW y, NEW to \in Points, NEW o \in Objects, NEW n \in Nat,
           y = Metered(x, to, o, n)
    PROVE  /\ y \in Progress
           /\ y.pc = to /\ y.mine = x.mine /\ y.meta = <<o, n>>
           /\ y.total = x.total /\ y.result = x.result /\ y.from = x.from
<1>1. x = [pc |-> x.pc, mine |-> x.mine, meta |-> x.meta, total |-> x.total,
           result |-> x.result, from |-> x.from]
  BY DEF Progress
<1>2. y = [pc |-> to, mine |-> x.mine, meta |-> <<o, n>>, total |-> x.total,
           result |-> x.result, from |-> x.from]
  BY <1>1 DEF Metered
<1>4. y \in Progress BY <1>2, ProgressFields DEF Progress
<1>5. QED BY <1>2, <1>4

\* What a chunk changes: where the bytes come from, how many, and the result.
LEMMA ProgressRead ==
    ASSUME NEW x \in Progress, NEW y, NEW to \in Points, NEW o \in Objects, NEW n \in Nat, NEW result \in Results,
           y = ReadOn(x, to, o, n, result)
    PROVE  /\ y \in Progress
           /\ y.pc = to /\ y.mine = x.mine /\ y.meta = x.meta
           /\ y.total = n /\ y.result = result /\ y.from = o
<1>1. x = [pc |-> x.pc, mine |-> x.mine, meta |-> x.meta, total |-> x.total,
           result |-> x.result, from |-> x.from]
  BY DEF Progress
<1>2. y = [pc |-> to, mine |-> x.mine, meta |-> x.meta, total |-> n,
           result |-> result, from |-> o]
  BY <1>1 DEF ReadOn
<1>4. y \in Progress BY <1>2, ProgressFields DEF Progress
<1>5. QED BY <1>2, <1>4

\* The finally block of a reader.
LEMMA LeavingReader ==
    ASSUME ReadsInv, NEW r \in DOMAIN Readers, CloseReader(r)
    PROVE  ReadsInv'
<1> DEFINE ds == ToSet(reading[r].mine)
<1>a. ReadsType /\ RootsInv /\ TableInv /\ WalkInv BY DEF ReadsInv
<1>b. UNCHANGED <<pinned, roots, rootAt, entry, chunks, other>> BY DEF CloseReader, ReaderKeeps
<1>c. /\ opened' = [d \in Descriptors |-> IF d \in ds THEN Closed ELSE opened[d]]
      /\ reading[r].pc = "finally"
      /\ reading' = [reading EXCEPT ![r] = [reading[r] EXCEPT !.pc = "done"]]
  BY DEF CloseReader, Close, Go
<1>d. /\ reading[r] \in Progress /\ [reading[r] EXCEPT !.pc = "done"] \in Progress
      /\ [reading[r] EXCEPT !.pc = "done"].pc = "done"
  <2>1. reading[r] \in Progress BY <1>a DEF ReadsType
  <2> DEFINE y == [reading[r] EXCEPT !.pc = "done"]
  <2>2. y = Moved(reading[r], "done") BY DEF Moved
  <2> HIDE DEF y
  <2>3. "done" \in Points BY DEF Points
  <2>4. y \in Progress /\ y.pc = "done" BY <2>1, <2>2, <2>3, ProgressMoved
  <2>5. QED BY <2>1, <2>4 DEF y
<1>e. ds = Mine(r) BY DEF Mine
<1> HIDE DEF ds
<1>1. ReadsType' BY <1>a, <1>b, <1>c, <1>d DEF ReadsType
<1>2. RootsInv' BY <1>a, <1>b DEF RootsInv
<1>3. ActiveReaders' = ActiveReaders \ {r} /\ Pins' = Pins /\ r \in ActiveReaders
  BY <1>a, <1>b, <1>c, <1>d DEF ActiveReaders, Pins, ReadsType
<1>4. \A q \in ActiveReaders \ {r} : Mine(q)' = Mine(q)
  BY <1>a, <1>c DEF Mine, ReadsType, ActiveReaders
<1>5. /\ \A k \in Pins : pinned[k].at \notin ds
      /\ \A q \in ActiveReaders \ {r} : Mine(q) \cap ds = {}
      /\ other \notin ds
  BY <1>a, <1>3, <1>e DEF TableInv
<1>6. TableInv'
  <2>1. \A d \in Descriptors : opened'[d] # Closed <=>
            \/ \E k \in Pins : pinned[k].at = d
            \/ \E q \in ActiveReaders \ {r} : d \in Mine(q)
            \/ other = d
    <3> TAKE d \in Descriptors
    <3>1. CASE d \in ds BY <1>c, <1>5, <3>1
    <3>2. CASE d \notin ds
      BY <1>a, <1>c, <1>3, <1>e, <3>2 DEF TableInv
    <3>3. QED BY <3>1, <3>2
  <2>2. \A k \in Pins : opened'[pinned[k].at] = pinned[k].object
    BY <1>a, <1>c, <1>5, PinFacts DEF TableInv
  <2>3. other # Closed => opened'[other] = Elsewhere
    BY <1>a, <1>c, <1>5 DEF TableInv, ReadsType
  <2>4. QED BY <1>a, <1>b, <1>3, <1>4, <2>1, <2>2, <2>3 DEF TableInv
<1>7. WalkInv'
  <2>1. ASSUME NEW q \in DOMAIN Readers PROVE Walked(q, reading'[q], opened')
    <3>1. CASE q = r
      <4>1. /\ reading'[q].pc = "done" /\ reading'[q].result = reading[q].result
            /\ reading'[q].meta = reading[q].meta /\ reading'[q].total = reading[q].total
            /\ reading'[q].from = reading[q].from
        BY <1>a, <1>c, <3>1 DEF ReadsType, Progress
      <4>2. Walked(q, reading[q], opened) BY <1>a DEF WalkInv
      <4>3. QED BY <4>1, <4>2 DEF Walked
    <3>2. CASE q # r
      <4>1. reading'[q] = reading[q] /\ reading[q] \in Progress BY <1>a, <1>c, <3>2 DEF ReadsType
      <4>2. reading[q].pc = "done" \/ \A e \in ToSet(reading[q].mine) : e \notin ds
        BY <1>5, <3>2 DEF ActiveReaders, Mine
      <4>3. \A e \in ToSet(reading[q].mine) : e \in Descriptors
        BY <4>1 DEF Progress, ToSet
      <4>4. reading[q].pc = "done" \/ \A e \in ToSet(reading[q].mine) : opened'[e] = opened[e]
        BY <1>c, <4>2, <4>3
      <4>5. Walked(q, reading[q], opened) BY <1>a DEF WalkInv
      <4>6. QED BY <4>1, <4>4, <4>5, WalkedKept
    <3>3. QED BY <3>1, <3>2
  <2>2. QED BY <1>b, <2>1 DEF WalkInv, Walked, Target
<1>8. QED BY <1>1, <1>2, <1>6, <1>7 DEF ReadsInv

-----------------------------------------------------------------------------
(* The steps of a reader *)

\* Where a reader stands before a step.
LEMMA Standing ==
    ASSUME ReadsInv, NEW r \in DOMAIN Readers
    PROVE  /\ reading[r] \in Progress /\ Walked(r, reading[r], opened)
           /\ reading[r].mine # <<>> /\ reading[r].pc # "done" =>
                 Held(r) \in Descriptors /\ opened[Held(r)] \in Objects
<1>a. ReadsType /\ TableInv /\ WalkInv BY DEF ReadsInv
<1>1. reading[r] \in Progress BY <1>a DEF ReadsType
<1>2. Walked(r, reading[r], opened) BY <1>a DEF WalkInv
<1>3. ASSUME reading[r].mine # <<>>, reading[r].pc # "done"
      PROVE  Held(r) \in Descriptors /\ opened[Held(r)] \in Objects
  <2>1. Held(r) \in Mine(r) /\ Held(r) \in Descriptors
    BY <1>1, <1>3, LastIn, ProgressFields DEF Held, Mine
  <2>2. opened[Held(r)] # Closed BY <1>a, <1>3, <2>1 DEF TableInv, ActiveReaders
  <2>3. QED BY <1>a, <2>1, <2>2 DEF ReadsType
<1>4. QED BY <1>1, <1>2, <1>3

\* A reader that moves on without touching a descriptor.
LEMMA GoMoves ==
    ASSUME ReadsInv, NEW r \in DOMAIN Readers, NEW to \in Points, Go(r, to), to # "done",
           reading[r].pc # "done", UNCHANGED opened, ReaderKeeps,
           \A y \in Progress :
              /\ y.pc = to /\ y.mine = reading[r].mine /\ y.meta = reading[r].meta
              /\ y.total = reading[r].total /\ y.result = reading[r].result
              /\ y.from = reading[r].from
              => Walked(r, y, opened)
    PROVE  ReadsInv'
<1> DEFINE x == Moved(reading[r], to)
<1>1. reading[r] \in Progress BY Standing
<1>2. x = Moved(reading[r], to) /\ reading' = [reading EXCEPT ![r] = x] BY DEF Go, Moved
<1> HIDE DEF x
<1>3. /\ x \in Progress /\ x.pc = to /\ x.mine = reading[r].mine /\ x.meta = reading[r].meta
      /\ x.total = reading[r].total /\ x.result = reading[r].result /\ x.from = reading[r].from
  BY <1>1, <1>2, ProgressMoved
<1>4. Walked(r, x, opened) BY <1>3
<1>5. QED BY <1>2, <1>3, <1>4, QuietReader

\* A reader that gives up has answered nothing; one that answers has checked the file.
LEMMA EndKeeps ==
    ASSUME ReadsInv, NEW r \in DOMAIN Readers, NEW result \in Results, End(r, result),
           reading[r].pc # "done", UNCHANGED opened, ReaderKeeps,
           reading[r].pc # "start" \/ Readers[r] = "path" \/ roots \in {"ready", "closing", "closed"},
           result = "bytes" =>
              /\ reading[r].meta[1] \in FilesIn(Target(r))
              /\ reading[r].total = reading[r].meta[2] /\ reading[r].total <= MaxChunks
              /\ reading[r].total > 0 => reading[r].from = reading[r].meta[1]
    PROVE  ReadsInv'
<1> DEFINE x == Ended(reading[r], result)
<1>0. Walked(r, reading[r], opened) /\ RootsInv BY DEF ReadsInv, WalkInv
<1>1. reading[r] \in Progress BY Standing
<1>2. x = Ended(reading[r], result) /\ reading' = [reading EXCEPT ![r] = x] BY DEF End, Ended
<1> HIDE DEF x
<1>3. /\ x \in Progress /\ x.pc = "finally" /\ x.mine = reading[r].mine /\ x.meta = reading[r].meta
      /\ x.total = reading[r].total /\ x.result = result /\ x.from = reading[r].from
  BY <1>1, <1>2, ProgressEnded
<1>4. Walked(r, x, opened) BY <1>0, <1>3 DEF Walked, RootsInv
<1>5. QED BY <1>2, <1>3, <1>4, QuietReader

\* A reader that opens the next part of its path.
LEMMA TakeWalks ==
    ASSUME ReadsInv, NEW r \in DOMAIN Readers, NEW to \in {"identify", "file", "stat", "compare"},
           NEW object \in Objects, OpenOn(object), Take(r, to), ReaderKeeps,
           reading[r].pc \in {"dup", "folder", "file", "open"},
           to # "compare" => Readers[r] # "path",
           to = "identify" => object = Roots[Len(Roots)],
           to = "file" => object = Target(r),
           to = "stat" => object \in {Target(r)} \X Entries,
           to = "compare" => Readers[r] = "path" /\ reading[r].meta[1] \in FilesIn(Target(r))
    PROVE  ReadsInv'
<1> DEFINE d == Min(Unused)
           x == Opening(reading[r], to, d)
<1>1. reading[r] \in Progress /\ Walked(r, reading[r], opened) BY Standing
<1>2. d \in Descriptors /\ opened' = [opened EXCEPT ![d] = object]
  BY NewDescriptor DEF OpenOn
<1>3. x = Opening(reading[r], to, d) /\ reading' = [reading EXCEPT ![r] = x] /\ d = Min(Unused)
  BY DEF Take, Opening
<1> HIDE DEF x, d
<1>4. to \in Points BY DEF Points
<1>5. /\ x \in Progress /\ x.pc = to /\ x.mine = Append(reading[r].mine, d)
      /\ x.meta = reading[r].meta /\ x.total = reading[r].total /\ x.result = reading[r].result
      /\ x.from = reading[r].from
  <2>1. reading[r] \in Progress /\ d \in Descriptors /\ x = Opening(reading[r], to, d)
    BY <1>1, <1>2, <1>3
  <2>2. QED BY <1>4, <2>1, ProgressTaken
<1>6. opened \in [Descriptors -> Objects \cup {Closed}] BY DEF ReadsInv, ReadsType
<1>7. x.mine # <<>> /\ Last(x.mine) = d
  <2>1. reading[r].mine \in Seq(Descriptors) BY <1>1, ProgressFields
  <2>2. QED BY <1>2, <1>5, <2>1 DEF Last
<1>8. opened'[Last(x.mine)] = object BY <1>2, <1>6, <1>7
<1>9. Walked(r, x, opened') BY <1>1, <1>5, <1>7, <1>8 DEF Walked
<1>10. QED BY <1>3, <1>5, <1>9, TakingReader

\* The last handle while a reader walks from it.
LEMMA HandleFacts ==
    ASSUME ReadsInv, NEW r \in DOMAIN Readers, Len(pinned) = Len(Roots)
    PROVE  /\ Handle(r).object = Roots[Len(Roots)] /\ Handle(r).closed \in BOOLEAN
           /\ ~Handle(r).closed => opened[Handle(r).at] = Roots[Len(Roots)]
<1>a. RootsInv /\ TableInv BY DEF ReadsInv
<1>1. Len(Roots) \in Nat /\ Len(Roots) > 0 BY RootFacts
<1>2. Len(Roots) \in 1..Len(pinned) /\ Handle(r) = pinned[Len(Roots)]
  BY <1>1 DEF Handle, Last
<1>3. Handle(r).object = Roots[Len(Roots)] /\ Handle(r).closed \in BOOLEAN
  BY <1>a, <1>2, PinFacts DEF RootsInv
<1>4. ~Handle(r).closed => Len(Roots) \in Pins BY <1>a, <1>2, PinFacts DEF Pins
<1>5. QED BY <1>a, <1>2, <1>3, <1>4 DEF TableInv

\* A file of a folder that is a regular file.
LEMMA RegularFile ==
    ASSUME NEW folder, NEW e, <<folder, e>> \in Files
    PROVE  <<folder, e>> \in FilesIn(folder)
<1>1. PICK f \in Folders : <<folder, e>> \in FilesIn(f) BY DEF Files
<1>2. f = folder BY <1>1 DEF FilesIn
<1>3. QED BY <1>1, <1>2

\* A reader walks to a folder of the tree; the file of a single-file reader is under the
\* first root, that of any other under the last.
LEMMA TargetFacts ==
    ASSUME NEW r \in DOMAIN Readers
    PROVE  /\ Target(r) \in Folders /\ Target(r) \in Objects /\ FilesIn(Target(r)) \subseteq Objects
           /\ FilesIn(Target(r)) \subseteq Files
           /\ Readers[r] = "path" => Target(r) = FolderOf[Roots[1]]
           /\ Readers[r] # "path" => Target(r) = FolderOf[Roots[Len(Roots)]]
<1>1. Roots[1] \in ToSet(Roots) /\ Roots[Len(Roots)] \in ToSet(Roots) BY RootFacts
<1>2. Target(r) \in Folders BY <1>1, RootFacts DEF Target
<1>3. {"a", "b"} \subseteq Entries BY DEF Entries
<1>4. FilesIn(Target(r)) \subseteq Objects BY <1>2, <1>3, RootFacts DEF FilesIn
<1>5. FilesIn(Target(r)) \subseteq Files BY <1>2 DEF Files
<1>6. QED BY <1>2, <1>4, <1>5, RootFacts DEF Target

\* _lexical_path_parts, and ConfiguredFileRoots.read.
LEMMA StartKeeps ==
    ASSUME ReadsInv, NEW r \in DOMAIN Readers, RefusePath(r) \/ StartRead(r)
    PROVE  ReadsInv'
<1>1. /\ reading[r].pc = "start" /\ Readers[r] = "beneath" /\ UNCHANGED opened /\ ReaderKeeps
      /\ roots \in {"ready", "closing", "closed"}
      /\ \/ \E result \in {"unsafe_input_path", "unsupported_data_format", "input_root_denied"} :
               End(r, result)
         \/ Go(r, "dup")
  BY DEF RefusePath, StartRead
<1>2. Walked(r, reading[r], opened) /\ RootsInv BY Standing DEF ReadsInv
<1>3. ASSUME NEW result \in {"unsafe_input_path", "unsupported_data_format", "input_root_denied"},
             End(r, result)
      PROVE  ReadsInv'
  <2>1. result \in Results /\ result # "bytes" BY DEF Results
  <2>2. QED BY <1>1, <1>3, <2>1, EndKeeps
<1>4. ASSUME Go(r, "dup") PROVE ReadsInv'
  <2>1. \A y \in Progress :
            /\ y.pc = "dup" /\ y.mine = reading[r].mine /\ y.meta = reading[r].meta
            /\ y.total = reading[r].total /\ y.result = reading[r].result
            /\ y.from = reading[r].from
            => Walked(r, y, opened)
    BY <1>1, <1>2 DEF Walked, RootsInv
  <2>2. "dup" \in Points BY DEF Points
  <2>3. QED BY <1>1, <1>4, <2>1, <2>2, GoMoves
<1>5. QED BY <1>1, <1>3, <1>4

\* read_file_beneath duplicates the handle and identifies the duplicate.
LEMMA DuplicateKeeps ==
    ASSUME ReadsInv, NEW r \in DOMAIN Readers, Duplicate(r)
    PROVE  ReadsInv'
<1>1. reading[r].pc = "dup" /\ ReaderKeeps BY DEF Duplicate
<1>2. Readers[r] # "path" /\ Len(pinned) = Len(Roots) BY <1>1, Standing DEF Walked
<1>3. CASE Handle(r).closed \/ Unused = {}
  <2>1. End(r, "unsafe_input_path") /\ UNCHANGED opened BY <1>3 DEF Duplicate
  <2>2. "unsafe_input_path" \in Results BY DEF Results
  <2>3. QED BY <1>1, <2>1, <2>2, EndKeeps
<1>4. CASE ~(Handle(r).closed \/ Unused = {})
  <2>1. OpenOn(opened[Handle(r).at]) /\ Take(r, "identify") BY <1>4 DEF Duplicate
  <2>2. opened[Handle(r).at] = Roots[Len(Roots)] /\ Roots[Len(Roots)] \in Objects
    BY <1>2, <1>4, HandleFacts, RootFacts
  <2>3. QED BY <1>1, <1>2, <2>1, <2>2, TakeWalks
<1>5. QED BY <1>3, <1>4

\* fstat of the opened file keeps the invariant.
LEMMA IdentifyKeeps ==
    ASSUME ReadsInv, NEW r \in DOMAIN Readers, Identify(r)
    PROVE  ReadsInv'
<1>1. reading[r].pc = "identify" /\ ReaderKeeps /\ UNCHANGED opened BY DEF Identify
<1>2. Walked(r, reading[r], opened) BY Standing
<1>3. CASE Go(r, "folder")
  <2>1. \A y \in Progress :
            /\ y.pc = "folder" /\ y.mine = reading[r].mine /\ y.meta = reading[r].meta
            /\ y.total = reading[r].total /\ y.result = reading[r].result
            /\ y.from = reading[r].from
            => Walked(r, y, opened)
    BY <1>1, <1>2 DEF Walked
  <2>2. "folder" \in Points BY DEF Points
  <2>3. QED BY <1>1, <1>3, <2>1, <2>2, GoMoves
<1>4. CASE End(r, "unsafe_input_path")
  <2>1. "unsafe_input_path" \in Results BY DEF Results
  <2>2. QED BY <1>1, <1>4, <2>1, EndKeeps
<1>5. QED BY <1>3, <1>4 DEF Identify

\* Each part is opened from the one before.
LEMMA OpenFolderKeeps ==
    ASSUME ReadsInv, NEW r \in DOMAIN Readers, OpenFolder(r)
    PROVE  ReadsInv'
<1>1. reading[r].pc = "folder" /\ ReaderKeeps BY DEF OpenFolder
<1>2. /\ Readers[r] # "path" /\ opened[Held(r)] = Roots[Len(Roots)]
      /\ Roots[Len(Roots)] \in DOMAIN FolderOf
  BY <1>1, Standing, RootFacts, SecureReadsAssumption DEF Walked, Held
<1>3. CASE End(r, "unsafe_input_path") /\ UNCHANGED opened
  <2>1. "unsafe_input_path" \in Results BY DEF Results
  <2>2. QED BY <1>1, <1>3, <2>1, EndKeeps
<1>4. CASE OpenOn(Target(r)) /\ Take(r, "file")
  BY <1>1, <1>2, <1>4, TargetFacts, TakeWalks
<1>5. QED BY <1>2, <1>3, <1>4, TargetFacts DEF OpenFolder

\* Opening the file beneath its folder keeps the invariant.
LEMMA OpenFileKeeps ==
    ASSUME ReadsInv, NEW r \in DOMAIN Readers, OpenFile(r)
    PROVE  ReadsInv'
<1>1. reading[r].pc = "file" /\ ReaderKeeps BY DEF OpenFile
<1>2. Readers[r] # "path" /\ opened[Held(r)] = Target(r)
  BY <1>1, Standing DEF Walked, Held
<1>3. CASE End(r, "unsafe_input_path") /\ UNCHANGED opened
  <2>1. "unsafe_input_path" \in Results BY DEF Results
  <2>2. QED BY <1>1, <1>3, <2>1, EndKeeps
<1>4. CASE OpenOn(Object(Target(r))) /\ Take(r, "stat")
  <2>1. entry[Target(r)] \in Entries BY TargetFacts DEF ReadsInv, ReadsType
  <2>2. Object(Target(r)) \in {Target(r)} \X Entries /\ Object(Target(r)) \in Objects
    BY <2>1, TargetFacts, RootFacts DEF Object
  <2>3. QED BY <1>1, <1>2, <1>4, <2>2, TakeWalks
<1>5. QED BY <1>2, <1>3, <1>4 DEF OpenFile

\* A reader that remembers the file it found.
LEMMA MetaKeeps ==
    ASSUME ReadsInv, NEW r \in DOMAIN Readers, NEW to \in {"read", "open"},
           NEW object \in FilesIn(Target(r)), UNCHANGED opened, ReaderKeeps,
           reading' = [reading EXCEPT ![r].pc = to, ![r].meta = <<object, chunks[object]>>],
           \/ /\ to = "read" /\ reading[r].pc = "stat" /\ opened[Held(r)] = object
              /\ chunks[object] <= MaxChunks
           \/ to = "open" /\ reading[r].pc = "start" /\ Readers[r] = "path"
    PROVE  ReadsInv'
<1> DEFINE n == chunks[object]
           x == Metered(reading[r], to, object, n)
<1>1. reading[r] \in Progress /\ Walked(r, reading[r], opened) BY Standing
<1>2. n \in Nat /\ object \in Objects BY TargetFacts DEF ReadsInv, ReadsType
<1>3. x = Metered(reading[r], to, object, n) /\ reading' = [reading EXCEPT ![r] = x]
  BY DEF Metered
<1>4. to \in Points BY DEF Points
<1>5. n = chunks[object] OBVIOUS
<1> HIDE DEF x, n
<1>6. /\ x \in Progress /\ x.pc = to /\ x.mine = reading[r].mine /\ x.meta = <<object, n>>
      /\ x.total = reading[r].total /\ x.result = reading[r].result /\ x.from = reading[r].from
  BY <1>1, <1>2, <1>3, <1>4, ProgressMeta
<1>7. x.meta[1] = object /\ x.meta[2] = n BY <1>6
<1>8. Walked(r, x, opened) BY <1>1, <1>5, <1>6, <1>7 DEF Walked, Held
<1>9. QED BY <1>3, <1>6, <1>8, QuietReader

\* The first look at the opened file keeps the invariant.
LEMMA StatFileKeeps ==
    ASSUME ReadsInv, NEW r \in DOMAIN Readers, StatFile(r)
    PROVE  ReadsInv'
<1> DEFINE object == opened[Held(r)]
<1>1. reading[r].pc = "stat" /\ UNCHANGED opened /\ ReaderKeeps /\ Stat(r, object)
  BY DEF StatFile
<1>2. object \in {Target(r)} \X Entries
  BY <1>1, Standing DEF Walked, Held
<1>3. ASSUME NEW result \in {"unsupported_data_format", "input_limit_exceeded"}, End(r, result)
      PROVE  ReadsInv'
  <2>1. result \in Results /\ result # "bytes" BY DEF Results
  <2>2. QED BY <1>1, <1>3, <2>1, EndKeeps
<1>4. CASE /\ object \in Files /\ ~(chunks[object] > MaxChunks)
           /\ reading' = [reading EXCEPT ![r].pc = "read", ![r].meta = <<object, chunks[object]>>]
  <2>1. object \in FilesIn(Target(r)) BY <1>2, <1>4, RegularFile
  <2>2. chunks[object] <= MaxChunks
    BY <1>4, RootFacts DEF ReadsInv, ReadsType
  <2>3. QED BY <1>1, <1>4, <2>1, <2>2, MetaKeeps
<1>5. QED BY <1>1, <1>3, <1>4 DEF Stat

\* read_regular_file
LEMMA LstatPathKeeps ==
    ASSUME ReadsInv, NEW r \in DOMAIN Readers, LstatPath(r)
    PROVE  ReadsInv'
<1> DEFINE object == Object(Target(r))
<1>1. reading[r].pc = "start" /\ Readers[r] = "path" /\ UNCHANGED opened /\ ReaderKeeps
  BY DEF LstatPath
<1>2. Target(r) = FolderOf[Roots[1]] BY <1>1, TargetFacts
<1>3. CASE End(r, "unsupported_data_format")
  <2>1. "unsupported_data_format" \in Results BY DEF Results
  <2>2. QED BY <1>1, <1>3, <2>1, EndKeeps
<1>4. CASE /\ object \in Files
           /\ reading' = [reading EXCEPT ![r].pc = "open", ![r].meta = <<object, chunks[object]>>]
  <2>1. object \in FilesIn(Target(r)) BY <1>4, RegularFile DEF Object
  <2>2. QED BY <1>1, <1>4, <2>1, MetaKeeps
<1>5. QED BY <1>2, <1>3, <1>4 DEF LstatPath

\* Opening a member of a directory keeps the invariant.
LEMMA OpenPathKeeps ==
    ASSUME ReadsInv, NEW r \in DOMAIN Readers, OpenPath(r)
    PROVE  ReadsInv'
<1>1. reading[r].pc = "open" /\ ReaderKeeps BY DEF OpenPath
<1>2. /\ Readers[r] = "path" /\ Target(r) = FolderOf[Roots[1]]
      /\ reading[r].meta[1] \in FilesIn(Target(r))
  BY <1>1, Standing, TargetFacts DEF Walked
<1>3. CASE End(r, "unsafe_input_path") /\ UNCHANGED opened
  <2>1. "unsafe_input_path" \in Results BY DEF Results
  <2>2. QED BY <1>1, <1>3, <2>1, EndKeeps
<1>4. CASE OpenOn(Object(Target(r))) /\ Take(r, "compare")
  <2>1. entry[Target(r)] \in Entries BY TargetFacts DEF ReadsInv, ReadsType
  <2>2. Object(Target(r)) \in Objects BY <2>1, TargetFacts, RootFacts DEF Object
  <2>3. QED BY <1>1, <1>2, <1>4, <2>2, TakeWalks
<1>5. QED BY <1>2, <1>3, <1>4 DEF OpenPath

\* Comparing the member with the opened file keeps the invariant.
LEMMA ComparePathKeeps ==
    ASSUME ReadsInv, NEW r \in DOMAIN Readers, ComparePath(r)
    PROVE  ReadsInv'
<1>1. reading[r].pc = "compare" /\ ReaderKeeps /\ UNCHANGED opened BY DEF ComparePath
<1>2. Walked(r, reading[r], opened) /\ reading[r] \in Progress BY Standing
<1>3. ASSUME NEW result \in {"file_changed", "input_limit_exceeded"}, End(r, result)
      PROVE  ReadsInv'
  <2>1. result \in Results /\ result # "bytes" BY DEF Results
  <2>2. QED BY <1>1, <1>3, <2>1, EndKeeps
<1>4. CASE /\ opened[Held(r)] = reading[r].meta[1] /\ ~(reading[r].meta[2] > MaxChunks)
           /\ Go(r, "read")
  <2>1. reading[r].meta[2] <= MaxChunks BY <1>2, <1>4, ProgressFields, RootFacts
  <2>2. \A y \in Progress :
            /\ y.pc = "read" /\ y.mine = reading[r].mine /\ y.meta = reading[r].meta
            /\ y.total = reading[r].total /\ y.result = reading[r].result
            /\ y.from = reading[r].from
            => Walked(r, y, opened)
    BY <1>1, <1>2, <1>4, <2>1 DEF Walked, Held
  <2>3. "read" \in Points BY DEF Points
  <2>4. QED BY <1>1, <1>4, <2>2, <2>3, GoMoves
<1>5. QED BY <1>3, <1>4 DEF ComparePath

\* _read_descriptor
LEMMA ReadChunkKeeps ==
    ASSUME ReadsInv, NEW r \in DOMAIN Readers, ReadChunk(r)
    PROVE  ReadsInv'
<1> DEFINE object == opened[Held(r)]
           n == reading[r].total + 1
           to == IF n > MaxChunks THEN "finally" ELSE "read"
           result == IF n > MaxChunks THEN "input_limit_exceeded" ELSE "none"
<1>1. reading[r].pc = "read" /\ ReaderKeeps /\ UNCHANGED opened BY DEF ReadChunk
<1>2. Walked(r, reading[r], opened) /\ reading[r] \in Progress BY Standing
<1>3. CASE Go(r, "restat")
  <2>1. \A y \in Progress :
            /\ y.pc = "restat" /\ y.mine = reading[r].mine /\ y.meta = reading[r].meta
            /\ y.total = reading[r].total /\ y.result = reading[r].result
            /\ y.from = reading[r].from
            => Walked(r, y, opened)
    BY <1>1, <1>2 DEF Walked
  <2>2. "restat" \in Points BY DEF Points
  <2>3. QED BY <1>1, <1>3, <2>1, <2>2, GoMoves
<1>4. CASE reading' = [reading EXCEPT ![r].total = n, ![r].from = object, ![r].pc = to,
                                      ![r].result = result]
  <2> DEFINE x == ReadOn(reading[r], to, object, n, result)
  <2>1. object \in Objects /\ object = reading[r].meta[1]
    BY <1>1, <1>2, TargetFacts DEF Walked, Held
  <2>2. n \in Nat /\ reading[r].total \in Nat BY <1>2, ProgressFields
  <2>3. to \in Points /\ result \in Results BY DEF Points, Results
  <2>4. \/ to = "finally" /\ result = "input_limit_exceeded"
        \/ to = "read" /\ result = "none"
    <3>1. CASE n > MaxChunks BY <3>1
    <3>2. CASE ~(n > MaxChunks) BY <3>2
    <3>3. QED BY <3>1, <3>2
  <2>5. x = ReadOn(reading[r], to, object, n, result) /\ reading' = [reading EXCEPT ![r] = x]
    BY <1>4 DEF ReadOn
  <2> HIDE DEF x, to, result, n, object
  <2>6. /\ x \in Progress /\ x.pc = to /\ x.mine = reading[r].mine /\ x.meta = reading[r].meta
        /\ x.total = n /\ x.result = result /\ x.from = object
    BY <1>2, <2>1, <2>2, <2>3, <2>5, ProgressRead
  <2>7. Walked(r, x, opened) BY <1>1, <1>2, <2>1, <2>4, <2>6 DEF Walked
  <2>8. QED BY <1>1, <2>4, <2>5, <2>6, <2>7, QuietReader
<1>5. QED BY <1>3, <1>4 DEF ReadChunk

\* The second look at the file, after its bytes were read, keeps the invariant.
LEMMA RestatFileKeeps ==
    ASSUME ReadsInv, NEW r \in DOMAIN Readers, RestatFile(r)
    PROVE  ReadsInv'
<1>1. reading[r].pc = "restat" /\ ReaderKeeps /\ UNCHANGED opened BY DEF RestatFile
<1>2. Walked(r, reading[r], opened) /\ reading[r] \in Progress BY Standing
<1>3. {"bytes", "file_changed"} \subseteq Results BY DEF Results
<1>4. CASE End(r, "file_changed") BY <1>1, <1>3, <1>4, EndKeeps
<1>5. CASE End(r, "bytes") /\ reading[r].total = reading[r].meta[2]
  <2>1. /\ reading[r].meta[1] \in FilesIn(Target(r)) /\ reading[r].meta[2] <= MaxChunks
        /\ reading[r].total > 0 => reading[r].from = reading[r].meta[1]
    BY <1>1, <1>2 DEF Walked
  <2>2. QED BY <1>1, <1>3, <1>5, <2>1, EndKeeps
<1>6. QED BY <1>4, <1>5 DEF RestatFile

\* What any reader does.
LEMMA ReaderStepKeeps ==
    ASSUME ReadsInv, NEW r \in DOMAIN Readers, ReaderStep(r)
    PROVE  ReadsInv'
  BY StartKeeps, DuplicateKeeps, IdentifyKeeps, OpenFolderKeeps, OpenFileKeeps, StatFileKeeps,
     LstatPathKeeps, OpenPathKeeps, ComparePathKeeps, ReadChunkKeeps, RestatFileKeeps, LeavingReader
  DEF ReaderStep

-----------------------------------------------------------------------------
(* The steps of the roots and of the other threads *)

\* Nobody else's steps move a reader: its descriptors stay open on what they were.
LEMMA OthersKeepWalk ==
    ASSUME ReadsInv, UNCHANGED reading,
           \A r \in ActiveReaders : \A d \in Mine(r) : opened'[d] = opened[d],
           Len(pinned) = Len(Roots) /\ roots \in {"ready", "closing", "closed"} =>
               Len(pinned') = Len(Roots) /\ roots' \in {"ready", "closing", "closed"}
    PROVE  WalkInv'
<1>1. ASSUME NEW q \in DOMAIN Readers PROVE Walked(q, reading[q], opened')
  <2>1. reading[q] \in Progress /\ Walked(q, reading[q], opened) BY Standing
  <2>2. reading[q].pc = "done" \/ \A d \in ToSet(reading[q].mine) : opened'[d] = opened[d]
    BY DEF ActiveReaders, Mine
  <2>3. QED BY <2>1, <2>2, WalkedKept
<1>2. QED BY <1>1 DEF WalkInv, Walked, Target

\* Handles are closed without touching the descriptors of others.
LEMMA PinsClosed ==
    ASSUME ReadsInv, NEW K \in SUBSET Pins, opened' = Close({pinned[k].at : k \in K}),
           Pins' = Pins \ K,
           \A k \in Pins \ K : pinned'[k].at = pinned[k].at /\ pinned'[k].object = pinned[k].object,
           UNCHANGED <<reading, other>>
    PROVE  /\ TableInv' /\ opened' \in [Descriptors -> Objects \cup {Closed}]
           /\ \A r \in ActiveReaders : \A d \in Mine(r) : opened'[d] = opened[d]
<1> DEFINE S == {pinned[k].at : k \in K}
<1>a. ReadsType /\ RootsInv /\ TableInv BY DEF ReadsInv
<1>b. opened' = [d \in Descriptors |-> IF d \in S THEN Closed ELSE opened[d]] BY DEF Close
<1>c. ActiveReaders' = ActiveReaders /\ \A r \in DOMAIN Readers : Mine(r)' = Mine(r)
  BY DEF ActiveReaders, Mine
<1>d. \A k \in Pins : pinned[k].at \in Descriptors BY <1>a, PinFacts
<1>1. \A k \in Pins \ K : pinned[k].at \notin S BY <1>a DEF TableInv
<1>2. other \notin S BY <1>a DEF TableInv
<1>3. \A r \in ActiveReaders : \A d \in Mine(r) : d \notin S BY <1>a DEF TableInv
<1>4. \A d \in S : d \in Descriptors /\ \E k \in K : pinned[k].at = d BY <1>d
<1> HIDE DEF S
<1>5. opened' \in [Descriptors -> Objects \cup {Closed}] BY <1>a, <1>b DEF ReadsType
<1>6. \A r \in ActiveReaders : \A d \in Mine(r) : d \in Descriptors
  BY <1>a, LastIn, ProgressFields DEF ReadsType, ActiveReaders, Mine, ToSet
<1>7. \A r \in ActiveReaders : \A d \in Mine(r) : opened'[d] = opened[d]
  BY <1>b, <1>3, <1>6
<1>8. \A d \in Descriptors : opened'[d] # Closed <=>
          \/ \E k \in Pins \ K : pinned[k].at = d
          \/ \E r \in ActiveReaders : d \in Mine(r)
          \/ other = d
  <2> TAKE d \in Descriptors
  <2>1. CASE d \in S BY <1>b, <1>1, <1>2, <1>3, <2>1
  <2>2. CASE d \notin S
    <3>1. \A k \in K : pinned[k].at # d BY <2>2 DEF S
    <3>2. QED BY <1>a, <1>b, <2>2, <3>1 DEF TableInv
  <2>3. QED BY <2>1, <2>2
<1>9. \A k \in Pins \ K : opened'[pinned[k].at] = pinned[k].object
  BY <1>a, <1>b, <1>d, <1>1 DEF TableInv
<1>10. other # Closed => opened'[other] = Elsewhere
  BY <1>a, <1>b, <1>2 DEF TableInv, ReadsType
<1>11. TableInv'
  <2>1. \A d \in Descriptors : opened'[d] # Closed <=>
            \/ \E k \in Pins' : pinned'[k].at = d
            \/ \E r \in ActiveReaders' : d \in Mine(r)'
            \/ other' = d
    BY <1>8, <1>c DEF ActiveReaders
  <2>2. \A j, k \in Pins' : pinned'[j].at = pinned'[k].at => j = k
    BY <1>a DEF TableInv
  <2>3. \A k \in Pins', r \in ActiveReaders' : pinned'[k].at \notin Mine(r)'
    BY <1>a, <1>c DEF TableInv, ActiveReaders
  <2>4. \A q, r \in ActiveReaders' : q # r => Mine(q)' \cap Mine(r)' = {}
    BY <1>a, <1>c DEF TableInv, ActiveReaders
  <2>5. (\A k \in Pins' : pinned'[k].at # other') /\ \A r \in ActiveReaders' : other' \notin Mine(r)'
    BY <1>a, <1>c DEF TableInv, ActiveReaders
  <2>6. \A k \in Pins' : opened'[pinned'[k].at] = pinned'[k].object BY <1>9
  <2>7. QED BY <1>10, <2>1, <2>2, <2>3, <2>4, <2>5, <2>6 DEF TableInv
<1>12. QED BY <1>5, <1>7, <1>11

\* Any failure closes what was pinned (pin_configured_root, ConfiguredFileRoots).
LEMMA DenyRootsKeeps ==
    ASSUME ReadsInv, DenyRoots
    PROVE  ReadsInv'
<1>a. ReadsType /\ RootsInv /\ TableInv BY DEF ReadsInv
<1>1. /\ roots \in {"pinning", "checking"} /\ roots' = "denied"
      /\ opened' = Close({pinned[k].at : k \in DOMAIN pinned})
      /\ pinned' = [k \in DOMAIN pinned |-> [pinned[k] EXCEPT !.closed = TRUE]]
      /\ UNCHANGED <<rootAt, entry, chunks, reading, other>>
  BY DEF DenyRoots
<1>2. DOMAIN pinned = Pins BY <1>a, <1>1, PinFacts DEF RootsInv, Pins
<1> DEFINE Shut(h) == [h EXCEPT !.closed = TRUE]
<1>3. \A h \in Handles : Shut(h) \in Handles /\ Shut(h).closed /\ Shut(h).object = h.object
  BY DEF Handles
<1>4. /\ pinned' \in Seq(Handles) /\ Len(pinned') = Len(pinned) /\ DOMAIN pinned' = 1..Len(pinned)
      /\ \A k \in 1..Len(pinned) : pinned'[k].closed /\ pinned'[k].object = pinned[k].object
  <2>1. DOMAIN pinned = 1..Len(pinned) /\ Len(pinned) \in Nat /\ \A k \in 1..Len(pinned) : pinned[k] \in Handles
    BY <1>a, PinFacts
  <2>2. pinned' = [k \in 1..Len(pinned) |-> [pinned[k] EXCEPT !.closed = TRUE]] BY <1>1, <2>1
  <2>3. \A k \in 1..Len(pinned) : pinned'[k] = Shut(pinned[k]) BY <2>2
  <2> HIDE DEF Shut
  <2>4. \A k \in 1..Len(pinned) : /\ pinned'[k] \in Handles /\ pinned'[k].closed
                                  /\ pinned'[k].object = pinned[k].object
    BY <1>3, <2>1, <2>3
  <2>5. DOMAIN pinned' = 1..Len(pinned) BY <2>2
  <2>6. pinned' \in [1..Len(pinned) -> Handles] BY <2>2, <2>4, <2>5
  <2>7. QED BY <2>1, <2>4, <2>5, <2>6
<1>5. Pins' = Pins \ Pins BY <1>4 DEF Pins
<1>6. /\ TableInv' /\ opened' \in [Descriptors -> Objects \cup {Closed}]
      /\ \A r \in ActiveReaders : \A d \in Mine(r) : opened'[d] = opened[d]
  BY <1>1, <1>2, <1>5, PinsClosed
<1>7. ReadsType' BY <1>a, <1>1, <1>6 DEF ReadsType
<1>8. RootsInv' BY <1>a, <1>1, <1>4 DEF RootsInv
<1>9. WalkInv' BY <1>1, <1>6, OthersKeepWalk
<1>10. QED BY <1>6, <1>7, <1>8, <1>9 DEF ReadsInv

\* ConfiguredFileRoots.close, handle after handle (close_pinned_root).
LEMMA ClosePinnedRootKeeps ==
    ASSUME ReadsInv, ClosePinnedRoot
    PROVE  ReadsInv'
<1>a. ReadsType /\ RootsInv /\ TableInv BY DEF ReadsInv
<1>b. roots = "closing" /\ UNCHANGED <<rootAt, entry, chunks, reading, other>>
  BY DEF ClosePinnedRoot
<1>1. CASE Pins = {}
  <2>1. roots' = "closed" /\ UNCHANGED <<opened, pinned>> BY <1>1 DEF ClosePinnedRoot, Pins
  <2>2. ReadsType' BY <1>a, <1>b, <2>1 DEF ReadsType
  <2>3. RootsInv' BY <1>a, <1>b, <2>1 DEF RootsInv
  <2>4. Pins' = Pins /\ ActiveReaders' = ActiveReaders /\ \A r \in DOMAIN Readers : Mine(r)' = Mine(r)
    BY <1>b, <2>1 DEF Pins, ActiveReaders, Mine
  <2>5. TableInv' BY <1>a, <1>b, <2>1, <2>4 DEF TableInv, ActiveReaders
  <2>6. WalkInv' BY <1>b, <2>1, OthersKeepWalk
  <2>7. QED BY <2>2, <2>3, <2>5, <2>6 DEF ReadsInv
<1>2. CASE Pins # {}
  <2> DEFINE m == Min(Pins)
  <2>1. /\ opened' = Close({pinned[m].at}) /\ pinned' = [pinned EXCEPT ![m].closed = TRUE]
        /\ UNCHANGED roots
    BY <1>2 DEF ClosePinnedRoot, Pins
  <2>2. Pins \subseteq 1..Len(pinned) /\ Len(pinned) \in Nat BY <1>a, PinFacts
  <2>3. m \in Pins
    <3>1. Pins \in SUBSET Nat BY <2>2
    <3>2. QED BY <1>2, <3>1, MinMember
  <2> HIDE DEF m
  <2> DEFINE h == [pinned[m] EXCEPT !.closed = TRUE]
  <2>4. pinned[m] \in Handles /\ m \in 1..Len(pinned) BY <1>a, <2>2, <2>3, PinFacts
  <2>5. h \in Handles /\ h.closed /\ h.object = pinned[m].object BY <2>4 DEF Handles
  <2>6. pinned' = [pinned EXCEPT ![m] = h] BY <2>1
  <2> HIDE DEF h
  <2>7. /\ pinned' \in Seq(Handles) /\ Len(pinned') = Len(pinned)
        /\ DOMAIN pinned' = 1..Len(pinned) /\ DOMAIN pinned = 1..Len(pinned) /\ pinned'[m] = h
        /\ \A k \in 1..Len(pinned) : k # m => pinned'[k] = pinned[k]
    BY <1>a, <2>4, <2>5, <2>6 DEF RootsInv
  <2>8. Pins' = Pins \ {m} BY <2>5, <2>7 DEF Pins
  <2>9. /\ TableInv' /\ opened' \in [Descriptors -> Objects \cup {Closed}]
        /\ \A r \in ActiveReaders : \A d \in Mine(r) : opened'[d] = opened[d]
    <3>1. {m} \in SUBSET Pins BY <2>3
    <3>2. opened' = Close({pinned[k].at : k \in {m}})
      <4>1. {pinned[k].at : k \in {m}} = {pinned[m].at} OBVIOUS
      <4>2. QED BY <2>1, <4>1
    <3>3. \A k \in Pins \ {m} : pinned'[k].at = pinned[k].at /\ pinned'[k].object = pinned[k].object
      BY <2>2, <2>7
    <3>4. QED BY <1>b, <2>8, <3>1, <3>2, <3>3, PinsClosed
  <2>10. ReadsType' BY <1>a, <1>b, <2>9 DEF ReadsType
  <2>11. RootsInv'
    <3>1. \A k \in 1..Len(pinned) : pinned'[k].object = Roots[k]
      BY <1>a, <2>5, <2>7 DEF RootsInv
    <3>2. QED BY <1>a, <1>b, <2>1, <2>7, <3>1 DEF RootsInv
  <2>12. WalkInv' BY <1>b, <2>1, <2>7, <2>9, OthersKeepWalk
  <2>13. QED BY <2>9, <2>10, <2>11, <2>12 DEF ReadsInv
<1>3. QED BY <1>1, <1>2

\* The path still leads to what was opened; and the flag of close.
LEMMA RootFlagKeeps ==
    ASSUME ReadsInv, CheckRoot \/ CloseRoots
    PROVE  ReadsInv'
<1>a. ReadsType /\ RootsInv /\ TableInv BY DEF ReadsInv
<1>b. UNCHANGED <<opened, pinned, rootAt, entry, chunks, reading, other>>
  BY DEF CheckRoot, CloseRoots
<1>c. \/ roots = "checking" /\ roots' = IF Len(pinned) = Len(Roots) THEN "ready" ELSE "pinning"
      \/ roots = "ready" /\ roots' = "closing"
  BY DEF CheckRoot, CloseRoots
<1>1. ReadsType' BY <1>a, <1>b DEF ReadsType
<1>2. RootsInv'
  <2>1. Len(pinned) \in Nat /\ Len(Roots) \in Nat BY <1>a, PinFacts, RootFacts
  <2>2. QED BY <1>a, <1>b, <1>c, <2>1 DEF RootsInv
<1>3. Pins' = Pins /\ ActiveReaders' = ActiveReaders /\ \A r \in DOMAIN Readers : Mine(r)' = Mine(r)
  BY <1>b DEF Pins, ActiveReaders, Mine
<1>4. TableInv' BY <1>a, <1>b, <1>3 DEF TableInv, ActiveReaders
<1>5. WalkInv' BY <1>b, <1>c, OthersKeepWalk
<1>6. QED BY <1>1, <1>2, <1>4, <1>5 DEF ReadsInv

\* The next root is opened (pin_configured_root).
LEMMA OpenRootKeeps ==
    ASSUME ReadsInv, OpenRoot
    PROVE  ReadsInv'
<1> DEFINE d == Min(Unused)
           k == Len(pinned) + 1
           h == [at |-> d, object |-> rootAt[Pinning], closed |-> FALSE]
<1>a. ReadsType /\ RootsInv /\ TableInv BY DEF ReadsInv
<1>b. /\ roots = "pinning" /\ roots' = "checking" /\ pinned' = Append(pinned, h)
      /\ UNCHANGED <<rootAt, entry, chunks, reading, other>>
  BY DEF OpenRoot
<1>c. DOMAIN pinned = 1..Len(pinned) /\ Len(pinned) \in Nat /\ Len(Roots) \in Nat
  BY <1>a, PinFacts, RootFacts
<1>d. k \in 1..Len(Roots) /\ Pinning = Roots[k] /\ rootAt[Pinning] = Roots[k] /\ Roots[k] \in ToSet(Roots)
      /\ Roots[k] \in Objects /\ Roots[k] # Closed
  <2>1. k \in 1..Len(Roots) BY <1>a, <1>b, <1>c DEF RootsInv
  <2>2. QED BY <1>a, <2>1, RootFacts DEF OpenRoot, Pinning, ReadsType
<1>e. d \in Descriptors /\ opened[d] = Closed /\ opened' = [opened EXCEPT ![d] = Roots[k]]
  BY <1>d, NewDescriptor DEF OpenRoot, OpenOn
<1> HIDE DEF d
<1>f. h \in Handles /\ h.at = d /\ h.object = Roots[k] /\ h.closed = FALSE
  BY <1>d, <1>e DEF Handles
<1> HIDE DEF h
<1>g. /\ pinned' \in Seq(Handles) /\ Len(pinned') = k /\ DOMAIN pinned' = 1..k /\ pinned'[k] = h
      /\ \A i \in 1..Len(pinned) : pinned'[i] = pinned[i]
      /\ 1..k = (1..Len(pinned)) \cup {k} /\ k \notin 1..Len(pinned) /\ k > 0 /\ k <= Len(Roots)
  BY <1>a, <1>b, <1>c, <1>d, <1>f DEF RootsInv
<1> HIDE DEF k
<1>h. Pins' = Pins \cup {k} /\ k \notin Pins /\ Pins \subseteq 1..Len(pinned)
  BY <1>c, <1>f, <1>g DEF Pins
<1>i. ActiveReaders' = ActiveReaders /\ \A r \in DOMAIN Readers : Mine(r)' = Mine(r)
  BY <1>b DEF ActiveReaders, Mine
<1>j. \A i \in Pins : pinned'[i] = pinned[i] /\ pinned[i].at \in Descriptors
  BY <1>a, <1>g, <1>h, PinFacts
<1>1. ReadsType' BY <1>a, <1>b, <1>d, <1>e DEF ReadsType
<1>2. RootsInv'
  <2>1. \A i \in 1..k : pinned'[i].object = Roots[i] /\ ~pinned'[i].closed
    BY <1>a, <1>b, <1>f, <1>g DEF RootsInv
  <2>2. QED BY <1>b, <1>g, <2>1 DEF RootsInv
<1>3. /\ \A i \in Pins : pinned[i].at # d
      /\ \A q \in ActiveReaders : d \notin Mine(q)
      /\ other # d
  BY <1>a, <1>e DEF TableInv
<1>4. TableInv'
  <2>1. \A e \in Descriptors : opened'[e] # Closed <=>
            \/ \E i \in Pins' : pinned'[i].at = e
            \/ \E q \in ActiveReaders : e \in Mine(q)
            \/ other = e
    <3> TAKE e \in Descriptors
    <3>1. CASE e = d
      BY <1>a, <1>d, <1>e, <1>f, <1>g, <1>h, <3>1 DEF ReadsType
    <3>2. CASE e # d
      <4>1. opened'[e] = opened[e] BY <1>a, <1>e, <3>2 DEF ReadsType
      <4>2. (\E i \in Pins' : pinned'[i].at = e) <=> (\E i \in Pins : pinned[i].at = e)
        BY <1>f, <1>g, <1>h, <1>j, <3>2
      <4>3. QED BY <1>a, <4>1, <4>2 DEF TableInv
    <3>3. QED BY <3>1, <3>2
  <2>2. \A i, j \in Pins' : pinned'[i].at = pinned'[j].at => i = j
    BY <1>a, <1>f, <1>g, <1>h, <1>j, <1>3 DEF TableInv
  <2>3. \A i \in Pins', q \in ActiveReaders : pinned'[i].at \notin Mine(q)
    BY <1>a, <1>f, <1>g, <1>h, <1>j, <1>3 DEF TableInv
  <2>4. \A i \in Pins' : pinned'[i].at # other
    BY <1>a, <1>f, <1>g, <1>h, <1>j, <1>3 DEF TableInv
  <2>5. \A i \in Pins' : opened'[pinned'[i].at] = pinned'[i].object
    <3>1. opened'[d] = Roots[k] BY <1>a, <1>e DEF ReadsType
    <3>2. \A i \in Pins : opened'[pinned[i].at] = opened[pinned[i].at]
      BY <1>a, <1>e, <1>j, <1>3 DEF ReadsType
    <3>3. \A i \in Pins : opened'[pinned[i].at] = pinned[i].object BY <1>a, <3>2 DEF TableInv
    <3>4. QED BY <1>f, <1>g, <1>h, <1>j, <3>1, <3>3
  <2>6. other # Closed => opened'[other] = Elsewhere
    BY <1>a, <1>e, <1>3 DEF TableInv, ReadsType
  <2>7. (\A q, r \in ActiveReaders : q # r => Mine(q) \cap Mine(r) = {})
        /\ \A r \in ActiveReaders : other \notin Mine(r)
    BY <1>a DEF TableInv
  <2>8. other' = other /\ ActiveReaders' = ActiveReaders
        /\ \A r \in ActiveReaders : Mine(r)' = Mine(r)
    BY <1>b, <1>i DEF ActiveReaders
  <2>9. QED BY <2>1, <2>2, <2>3, <2>4, <2>5, <2>6, <2>7, <2>8 DEF TableInv
<1>5. WalkInv'
  <2>1. \A r \in ActiveReaders : \A e \in Mine(r) : e \in Descriptors
    BY <1>a, LastIn, ProgressFields DEF ReadsType, ActiveReaders, Mine, ToSet
  <2>2. \A r \in ActiveReaders : \A e \in Mine(r) : opened'[e] = opened[e]
    BY <1>a, <1>e, <1>3, <2>1 DEF ReadsType
  <2>3. QED BY <1>b, <2>2, OthersKeepWalk
<1>6. QED BY <1>1, <1>2, <1>4, <1>5 DEF ReadsInv

\* Another thread opens a file of its own.
LEMMA OtherOpensKeeps ==
    ASSUME ReadsInv, OtherOpens
    PROVE  ReadsInv'
<1> DEFINE d == Min(Unused)
<1>a. ReadsType /\ RootsInv /\ TableInv BY DEF ReadsInv
<1>b. other = Closed /\ other' = d /\ UNCHANGED <<pinned, roots, rootAt, entry, chunks, reading>>
  BY DEF OtherOpens
<1>e. /\ d \in Descriptors /\ opened[d] = Closed /\ opened' = [opened EXCEPT ![d] = Elsewhere]
      /\ Elsewhere \in Objects /\ Elsewhere # Closed /\ d # Closed /\ Closed \notin Descriptors
  BY NewDescriptor, RootFacts DEF OtherOpens, OpenOn
<1> HIDE DEF d
<1>i. ActiveReaders' = ActiveReaders /\ Pins' = Pins /\ \A r \in DOMAIN Readers : Mine(r)' = Mine(r)
  BY <1>b DEF ActiveReaders, Mine, Pins
<1>j. /\ \A i \in Pins : pinned[i].at \in Descriptors
      /\ \A r \in ActiveReaders : \A e \in Mine(r) : e \in Descriptors
  BY <1>a, PinFacts, LastIn, ProgressFields DEF ReadsType, ActiveReaders, Mine, ToSet
<1>1. ReadsType' BY <1>a, <1>b, <1>e DEF ReadsType
<1>2. RootsInv' BY <1>a, <1>b DEF RootsInv
<1>3. /\ \A i \in Pins : pinned[i].at # d
      /\ \A q \in ActiveReaders : d \notin Mine(q)
  BY <1>a, <1>e DEF TableInv
<1>4. TableInv'
  <2>1. \A e \in Descriptors : opened'[e] # Closed <=>
            \/ \E i \in Pins : pinned[i].at = e
            \/ \E q \in ActiveReaders : e \in Mine(q)
            \/ d = e
    <3> TAKE e \in Descriptors
    <3>1. CASE e = d BY <1>a, <1>e, <3>1 DEF ReadsType
    <3>2. CASE e # d
      <4>1. opened'[e] = opened[e] /\ e # other BY <1>a, <1>b, <1>e, <3>2 DEF ReadsType
      <4>2. QED BY <1>a, <3>2, <4>1 DEF TableInv
    <3>3. QED BY <3>1, <3>2
  <2>2. \A i \in Pins : opened'[pinned[i].at] = pinned[i].object
    BY <1>a, <1>e, <1>j, <1>3 DEF TableInv, ReadsType
  <2>3. opened'[d] = Elsewhere BY <1>a, <1>e DEF ReadsType
  <2>4. QED BY <1>a, <1>b, <1>i, <1>3, <2>1, <2>2, <2>3 DEF TableInv, ActiveReaders
<1>5. WalkInv'
  <2>1. \A r \in ActiveReaders : \A e \in Mine(r) : opened'[e] = opened[e]
    BY <1>a, <1>e, <1>j, <1>3 DEF ReadsType
  <2>2. QED BY <1>b, <2>1, OthersKeepWalk
<1>6. QED BY <1>1, <1>2, <1>4, <1>5 DEF ReadsInv

\* Other processes change what is on the disk, never a descriptor.
LEMMA FilesChangeKeeps ==
    ASSUME ReadsInv, FilesChange
    PROVE  ReadsInv'
<1>a. ReadsType /\ RootsInv /\ TableInv BY DEF ReadsInv
<1>b. UNCHANGED <<opened, pinned, roots, reading, other>> BY DEF FilesChange
<1>i. ActiveReaders' = ActiveReaders /\ Pins' = Pins /\ \A r \in DOMAIN Readers : Mine(r)' = Mine(r)
  BY <1>b DEF ActiveReaders, Mine, Pins
<1>1. /\ entry' \in [Folders -> Entries] /\ chunks' \in [Files -> Nat]
      /\ rootAt' \in [ToSet(Roots) -> ToSet(Roots) \cup {Link}]
      /\ \A root \in ToSet(Roots) : rootAt'[root] \in {root, Link}
  <2>1. CASE /\ \E folder \in Folders \ {Elsewhere} :
                  entry' \in {[entry EXCEPT ![folder] = e] : e \in Entries \ {entry[folder]}}
             /\ UNCHANGED <<chunks, rootAt>>
    BY <1>a, <2>1 DEF ReadsType
  <2>2. CASE /\ \E folder \in Folders \ {Elsewhere}, n \in 0..(MaxChunks + 1) :
                  \E f \in FilesIn(folder) : chunks' = [chunks EXCEPT ![f] = n]
             /\ UNCHANGED <<entry, rootAt>>
    <3>1. \A n \in 0..(MaxChunks + 1) : n \in Nat BY RootFacts
    <3>2. QED BY <1>a, <2>2, <3>1 DEF ReadsType
  <2>3. CASE /\ \E root \in ToSet(Roots) : rootAt' = [rootAt EXCEPT ![root] = Link]
             /\ UNCHANGED <<entry, chunks>>
    BY <1>a, <2>3 DEF ReadsType
  <2>4. QED BY <2>1, <2>2, <2>3 DEF FilesChange
<1>2. ReadsType' BY <1>a, <1>b, <1>1 DEF ReadsType
<1>3. RootsInv' BY <1>a, <1>b DEF RootsInv
<1>4. TableInv' BY <1>a, <1>b, <1>i DEF TableInv, ActiveReaders
<1>5. WalkInv' BY <1>b, OthersKeepWalk
<1>6. QED BY <1>2, <1>3, <1>4, <1>5 DEF ReadsInv

\* Nothing is open at first.
LEMMA InitReadsInv == ReadsInit => ReadsInv
<1> SUFFICES ASSUME ReadsInit PROVE ReadsInv OBVIOUS
<1> DEFINE Over == [Idle EXCEPT !.pc = "done"]
<1>1. \A x \in {Idle, Over} : /\ x \in Progress /\ x.pc \in {"start", "done"} /\ x.mine = <<>>
                              /\ x.total = 0 /\ x.result = "none"
  <2>1. Idle \in Progress /\ Idle.pc = "start" /\ Idle.mine = <<>> /\ Idle.total = 0 /\ Idle.result = "none"
    <3>1. "start" \in Points /\ "none" \in Results BY DEF Points, Results
    <3>2. <<Closed, 0>> \in (Objects \cup {Closed}) \X Nat /\ <<>> \in Seq(Descriptors) OBVIOUS
    <3>3. QED BY <3>1, <3>2 DEF Idle, Progress
  <2>2. Over = Moved(Idle, "done") BY DEF Moved
  <2>3. "done" \in Points BY DEF Points
  <2> HIDE DEF Over
  <2>4. /\ Over \in Progress /\ Over.pc = "done" /\ Over.mine = <<>> /\ Over.total = 0
        /\ Over.result = "none"
    BY <2>1, <2>2, <2>3, ProgressMoved
  <2>5. QED BY <2>1, <2>4
<1>2. reading \in [DOMAIN Readers -> {Idle, Over}] BY DEF ReadsInit
<1> HIDE DEF Over
<1>3. \A r \in DOMAIN Readers : /\ reading[r] \in Progress /\ reading[r].pc \in {"start", "done"}
                                /\ reading[r].mine = <<>> /\ reading[r].total = 0
                                /\ reading[r].result = "none"
  BY <1>1, <1>2
<1>4. ReadsType
  <2>1. reading \in [DOMAIN Readers -> Progress] BY <1>2, <1>3
  <2>2. "a" \in Entries BY DEF Entries
  <2>3. QED BY <2>1, <2>2 DEF ReadsInit, ReadsType
<1>5. RootsInv
  <2>1. pinned = <<>> /\ roots = "pinning" BY DEF ReadsInit
  <2>2. QED BY <2>1, RootFacts DEF RootsInv
<1>6. TableInv
  <2>1. Pins = {} /\ \A r \in DOMAIN Readers : Mine(r) = {}
    BY <1>3 DEF ReadsInit, Pins, Mine, ToSet
  <2>2. QED BY <2>1, RootFacts DEF TableInv, ReadsInit, ActiveReaders
<1>7. WalkInv BY <1>3 DEF WalkInv, Walked
<1>8. QED BY <1>4, <1>5, <1>6, <1>7 DEF ReadsInv

\* Every step of readers, roots, files and other users of descriptors keeps the invariant.
LEMMA NextReadsInv == ReadsInv /\ [ReadsNext]_readVars => ReadsInv'
<1> SUFFICES ASSUME ReadsInv, [ReadsNext]_readVars PROVE ReadsInv' OBVIOUS
<1>1. CASE UNCHANGED readVars
  <2>1. Pins' = Pins /\ ActiveReaders' = ActiveReaders /\ \A r \in DOMAIN Readers : Mine(r)' = Mine(r)
    BY <1>1 DEF readVars, Pins, ActiveReaders, Mine
  <2>2. WalkInv' BY <1>1, OthersKeepWalk DEF readVars
  <2>3. TableInv' BY <1>1, <2>1 DEF readVars, ReadsInv, TableInv, ActiveReaders
  <2>4. QED BY <1>1, <2>2, <2>3 DEF readVars, ReadsInv, ReadsType, RootsInv
<1>2. CASE ReadsNext
  BY <1>2, OpenRootKeeps, RootFlagKeeps, DenyRootsKeeps, ClosePinnedRootKeeps, ReaderStepKeeps,
     OtherOpensKeeps, FilesChangeKeeps
  DEF ReadsNext
<1>3. QED BY <1>1, <1>2

\* Whose every descriptor is, and where every reader stands, always (SecureReads).
THEOREM ReadsInvariant == ReadsSpec => []ReadsInv
  BY InitReadsInv, NextReadsInv, PTL DEF ReadsSpec

\* Roots may be closed and descriptor numbers reused at any moment of a read: the bytes
\* come from a whole file beneath the pinned root, and every descriptor has one owner
\* (ConfiguredFileRoots.read and close, read_file_beneath, read_regular_file).
THEOREM ReadsStayConfined == ReadsSpec => []ReadsConfined
<1>1. ReadsInv => ReadsConfined
  <2> SUFFICES ASSUME ReadsInv PROVE ReadsConfined OBVIOUS
  <2>a. ReadsType /\ RootsInv /\ TableInv /\ WalkInv BY DEF ReadsInv
  <2>1. \A r \in DOMAIN Readers : Confined(r) BY <2>a DEF WalkInv, Walked, Confined, Target
  <2>2. Owned
    <3> DEFINE A == {pinned[k].at : k \in Pins}
               B == UNION {Mine(r) : r \in ActiveReaders}
               C == {other} \ {Closed}
    <3>1. A \subseteq Descriptors /\ C \subseteq Descriptors BY <2>a, PinFacts DEF ReadsType
    <3>2. B \subseteq Descriptors
      BY <2>a, LastIn, ProgressFields DEF ReadsType, ActiveReaders, Mine, ToSet
    <3>3. \A d \in Descriptors : opened[d] # Closed <=> d \in A \cup B \cup C
      BY <2>a, RootFacts DEF TableInv
    <3>4. {d \in Descriptors : opened[d] # Closed} = A \cup B \cup C BY <3>1, <3>2, <3>3
    <3>5. A = {pinned[k].at : k \in {j \in DOMAIN pinned : ~pinned[j].closed}} BY DEF Pins
    <3>6. B = UNION {ToSet(reading[r].mine) : r \in {q \in DOMAIN Readers : reading[q].pc # "done"}}
      BY DEF ActiveReaders, Mine
    <3>7. C = {other} \ {Closed} OBVIOUS
    <3> HIDE DEF A, B, C
    <3>8. Owned <=> {d \in Descriptors : opened[d] # Closed} = A \cup B \cup C
      BY <3>5, <3>6, <3>7, Zenon DEF Owned
    <3>9. QED BY <3>4, <3>8
  <2>3. other # Closed => opened[other] = Elsewhere BY <2>a DEF TableInv
  <2>4. QED BY <2>1, <2>2, <2>3 DEF ReadsConfined
<1>2. QED BY <1>1, ReadsInvariant, PTL

-----------------------------------------------------------------------------
(* Conditions over more and more values *)

\* Later values keep every earlier one.
Keeps(values, later) ==
    DOMAIN values \subseteq DOMAIN later /\ \A f \in DOMAIN values : later[f] = values[f]

Verdicts == {Broken, Bool(TRUE), Bool(FALSE)}

\* True, false and "cannot be evaluated" are three verdicts.
LEMMA VerdictsDiffer == Broken # Bool(TRUE) /\ Broken # Bool(FALSE) /\ Bool(TRUE) # Bool(FALSE)
  BY DEF Broken, Bool

\* A comparison that could be made is made again, with the same outcome.
LEMMA ComparisonStable ==
    ASSUME NEW e, NEW values, NEW later, Keeps(values, later),
           Comparison(e, values) # Broken
    PROVE  Comparison(e, later) = Comparison(e, values)
<1>1. \A o : Operand(o, values) # Broken => Operand(o, later) = Operand(o, values)
  BY DEF Operand, Keeps
<1>2. Operand(e.left, values) # Broken /\ Operand(e.right, values) # Broken
  BY DEF Comparison, Compare
<1>3. QED BY <1>1, <1>2 DEF Comparison

\* A comparison has one of the three verdicts.
LEMMA ComparisonVerdict == \A e, values : Comparison(e, values) \in Verdicts
<1>1. \A b \in BOOLEAN : Bool(b) \in Verdicts BY DEF Verdicts
<1>2. ASSUME NEW op, NEW x, NEW y PROVE Compare(op, x, y) \in Verdicts
  <2>1. Broken \in Verdicts BY DEF Verdicts
  <2>2. Below(x, y) \in BOOLEAN /\ Below(y, x) \in BOOLEAN /\ Equal(x, y) \in BOOLEAN
    BY DEF Below, Equal
  <2>3. (CASE op = "lt" -> Below(x, y) [] op = "gt" -> Below(y, x)
           [] op = "le" -> Below(x, y) \/ Equal(x, y)
           [] OTHER -> Below(y, x) \/ Equal(x, y)) \in BOOLEAN
    BY <2>2
  <2>4. QED BY <1>1, <2>1, <2>2, <2>3, Zenon DEF Compare
<1>3. QED BY <1>2 DEF Comparison

\* The first of the children that stop a branch.
LEMMA FirstStop ==
    ASSUME NEW n \in Nat, NEW stops \in SUBSET (1..n), stops # {}
    PROVE  \E i \in stops : /\ \A j \in stops : i <= j
                            /\ (CHOOSE k \in stops : \A j \in stops : k <= j) = i
<1>1. PICK i \in stops : \A j \in stops : i <= j
  <2>1. stops \in SUBSET Nat OBVIOUS
  <2>2. QED BY <2>1, LeastNumber
<1>2. \A k \in stops : (\A j \in stops : k <= j) => k = i BY <1>1
<1>3. QED BY <1>1, <1>2

\* A branch of children that keep their verdicts keeps its own.
LEMMA BranchStable ==
    ASSUME NEW kind, NEW n \in Nat,
           NEW before \in [1..n -> Verdicts], NEW after \in [1..n -> Verdicts],
           \A i \in 1..n : before[i] # Broken => after[i] = before[i],
           Branch(kind, before) # Broken
    PROVE  Branch(kind, after) = Branch(kind, before)
<1> DEFINE Stops(r) == {i \in DOMAIN r : r[i] # Bool(kind = "all")}
<1>0. Bool(kind = "all") # Broken BY DEF Bool, Broken
<1>1. DOMAIN before = 1..n /\ DOMAIN after = 1..n /\ before # <<>>
  BY DEF Branch
<1>2. after # <<>> BY <1>1
<1>3. CASE Stops(before) = {}
  <2>1. \A i \in 1..n : after[i] = before[i] BY <1>0, <1>1, <1>3
  <2>2. after = before BY <2>1
  <2>3. QED BY <2>2
<1>4. CASE Stops(before) # {}
  <2>1. PICK i \in Stops(before) : /\ \A j \in Stops(before) : i <= j
                                   /\ (CHOOSE k \in Stops(before) :
                                          \A j \in Stops(before) : k <= j) = i
    <3>1. Stops(before) \in SUBSET (1..n) BY <1>1
    <3> HIDE DEF Stops
    <3>2. QED BY <1>4, <3>1, FirstStop
  <2>2. Branch(kind, before) = before[i] BY <1>1, <1>4, <2>1 DEF Branch
  <2>3. before[i] # Broken /\ after[i] = before[i] BY <1>1, <2>1, <2>2
  <2>4. i \in Stops(after) BY <1>1, <2>1, <2>3
  <2>5. \A j \in Stops(after) : i <= j
    <3>1. ASSUME NEW j \in Stops(after), j \notin Stops(before) PROVE FALSE
      BY <1>0, <1>1, <3>1
    <3>2. QED BY <2>1, <3>1
  <2>6. (CHOOSE k \in Stops(after) : \A j \in Stops(after) : k <= j) = i
    <3>1. Stops(after) \in SUBSET (1..n) BY <1>1
    <3> HIDE DEF Stops
    <3>2. PICK m \in Stops(after) : /\ \A j \in Stops(after) : m <= j
                                    /\ (CHOOSE k \in Stops(after) :
                                           \A j \in Stops(after) : k <= j) = m
      BY <2>4, <3>1, FirstStop
    <3>3. m <= i /\ i <= m BY <2>4, <2>5, <3>2
    <3>4. m \in 1..n /\ i \in 1..n BY <2>4, <3>1
    <3>5. QED BY <3>2, <3>3, <3>4
  <2>7. Branch(kind, after) = after[i] BY <1>2, <2>4, <2>6 DEF Branch
  <2>8. QED BY <2>2, <2>3, <2>7
<1>5. QED BY <1>3, <1>4

\* So has "all", "any" or "not" of expressions that have.
LEMMA BranchVerdict ==
    ASSUME NEW kind, NEW n \in Nat, NEW r, r \in [1..n -> Verdicts]
    PROVE  Branch(kind, r) \in Verdicts
<1> DEFINE stops == {i \in DOMAIN r : r[i] # Bool(kind = "all")}
<1>1. Broken \in Verdicts /\ Bool(kind = "all") \in Verdicts
  BY DEF Verdicts
<1>2. CASE stops # {}
  <2>1. stops \in SUBSET (1..n) OBVIOUS
  <2> HIDE DEF stops
  <2>2. (CHOOSE k \in stops : \A j \in stops : k <= j) \in 1..n
    BY <1>2, <2>1, FirstStop
  <2> USE DEF stops
  <2>3. r[CHOOSE k \in stops : \A j \in stops : k <= j] \in Verdicts BY <2>2
  <2>4. QED BY <1>1, <1>2, <2>3 DEF Branch
<1>3. QED BY <1>1, <1>2 DEF Branch

\* Each level of a condition has a verdict, and one that was reached stays, whatever is
\* settled later.
LEMMA Depth3Verdict ==
    ASSUME NEW e, NEW values, ListedTree1(e)
    PROVE  Depth3(e, values) \in Verdicts
<1>1. CASE e.kind \in {"all", "any"}
  <2> DEFINE r == [i \in DOMAIN e.children |-> TooDeep(e.children[i], values)]
  <2>1. r \in [1..Len(e.children) -> Verdicts] /\ Len(e.children) \in Nat
    <3>1. /\ e.children \in Seq(ToSet(e.children)) /\ Len(e.children) \in Nat
          /\ DOMAIN e.children = 1..Len(e.children)
      BY <1>1 DEF ListedTree1, ListedTree, Listed
    <3>2. \A i \in 1..Len(e.children) : TooDeep(e.children[i], values) \in Verdicts
      BY DEF TooDeep, Verdicts
    <3>3. QED BY <3>1, <3>2
  <2>2. Depth3(e, values) = Branch(e.kind, r) BY <1>1 DEF Depth3, Level
  <2> HIDE DEF r
  <2>3. QED BY <2>1, <2>2, BranchVerdict
<1>2. CASE e.kind \notin {"all", "any"}
  BY <1>2, ComparisonVerdict, Zenon DEF Depth3, Level, Verdicts
<1>3. QED BY <1>1, <1>2

\* An expression of one level keeps its verdict when values are added.
LEMMA Depth3Stable ==
    ASSUME NEW e, NEW values, NEW later, ListedTree1(e), Keeps(values, later),
           Depth3(e, values) # Broken
    PROVE  Depth3(e, later) = Depth3(e, values)
<1>1. CASE e.kind \in {"all", "any"}
  <2> DEFINE before == [i \in DOMAIN e.children |-> TooDeep(e.children[i], values)]
             after == [i \in DOMAIN e.children |-> TooDeep(e.children[i], later)]
  <2>1. /\ Len(e.children) \in Nat
        /\ before \in [1..Len(e.children) -> Verdicts]
        /\ after \in [1..Len(e.children) -> Verdicts]
        /\ \A i \in 1..Len(e.children) : before[i] # Broken => after[i] = before[i]
    <3>1. /\ e.children \in Seq(ToSet(e.children)) /\ Len(e.children) \in Nat
          /\ DOMAIN e.children = 1..Len(e.children)
      BY <1>1 DEF ListedTree1, ListedTree, Listed
    <3>2. \A i \in 1..Len(e.children) : before[i] # Broken => after[i] = before[i]
      BY DEF TooDeep
    <3>3. \A c, v : TooDeep(c, v) \in Verdicts BY DEF TooDeep, Verdicts
    <3>4. QED BY <3>1, <3>2, <3>3
  <2>2. Depth3(e, values) = Branch(e.kind, before) /\ Depth3(e, later) = Branch(e.kind, after)
    BY <1>1 DEF Depth3, Level
  <2> HIDE DEF before, after
  <2>3. Branch(e.kind, before) # Broken BY <2>2
  <2>4. Branch(e.kind, after) = Branch(e.kind, before)
    BY <2>1, <2>3, BranchStable, SMTT(60)
  <2>5. QED BY <2>2, <2>4
<1>2. CASE e.kind \notin {"all", "any"}
  <2>1. /\ Depth3(e, values) = IF e.kind = "comparison" THEN Comparison(e, values) ELSE Broken
        /\ Depth3(e, later) = IF e.kind = "comparison" THEN Comparison(e, later) ELSE Broken
    BY <1>2 DEF Depth3, Level
  <2>2. QED BY <2>1, ComparisonStable
<1>3. QED BY <1>1, <1>2

\* An expression of two levels has one of the three verdicts,
LEMMA Depth2Verdict ==
    ASSUME NEW e, NEW values, ListedTree2(e)
    PROVE  Depth2(e, values) \in Verdicts
<1>1. CASE e.kind \in {"all", "any"}
  <2> DEFINE r == [i \in DOMAIN e.children |-> Depth3(e.children[i], values)]
  <2>1. r \in [1..Len(e.children) -> Verdicts] /\ Len(e.children) \in Nat
    <3>1. /\ e.children \in Seq(ToSet(e.children)) /\ Len(e.children) \in Nat
          /\ DOMAIN e.children = 1..Len(e.children)
      BY <1>1 DEF ListedTree2, ListedTree, Listed
    <3>2. \A i \in 1..Len(e.children) : Depth3(e.children[i], values) \in Verdicts
      <4>1. \A c \in ToSet(e.children) : ListedTree1(c)
        BY <1>1, Zenon DEF ListedTree2, ListedTree
      <4>2. \A i \in 1..Len(e.children) : e.children[i] \in ToSet(e.children)
        BY <3>1 DEF ToSet
      <4>3. QED BY <4>1, <4>2, Depth3Verdict
    <3>3. QED BY <3>1, <3>2
  <2>2. Depth2(e, values) = Branch(e.kind, r) BY <1>1 DEF Depth2, Level
  <2> HIDE DEF r
  <2>3. QED BY <2>1, <2>2, BranchVerdict
<1>2. CASE e.kind \notin {"all", "any"}
  BY <1>2, ComparisonVerdict, Zenon DEF Depth2, Level, Verdicts
<1>3. QED BY <1>1, <1>2

\* and keeps it when values are added, if it could be evaluated.
LEMMA Depth2Stable ==
    ASSUME NEW e, NEW values, NEW later, ListedTree2(e), Keeps(values, later),
           Depth2(e, values) # Broken
    PROVE  Depth2(e, later) = Depth2(e, values)
<1>1. CASE e.kind \in {"all", "any"}
  <2> DEFINE before == [i \in DOMAIN e.children |-> Depth3(e.children[i], values)]
             after == [i \in DOMAIN e.children |-> Depth3(e.children[i], later)]
  <2>1. /\ Len(e.children) \in Nat
        /\ before \in [1..Len(e.children) -> Verdicts]
        /\ after \in [1..Len(e.children) -> Verdicts]
        /\ \A i \in 1..Len(e.children) : before[i] # Broken => after[i] = before[i]
    <3>1. /\ e.children \in Seq(ToSet(e.children)) /\ Len(e.children) \in Nat
          /\ DOMAIN e.children = 1..Len(e.children)
      BY <1>1 DEF ListedTree2, ListedTree, Listed
    <3>2. \A i \in 1..Len(e.children) : before[i] # Broken => after[i] = before[i]
      <4>1. \A c \in ToSet(e.children) : ListedTree1(c)
        BY <1>1, Zenon DEF ListedTree2, ListedTree
      <4>2. \A i \in 1..Len(e.children) : e.children[i] \in ToSet(e.children)
        BY <3>1 DEF ToSet
      <4>3. QED BY <4>1, <4>2, Depth3Stable
    <3>3. \A i \in 1..Len(e.children) : /\ Depth3(e.children[i], values) \in Verdicts
                                       /\ Depth3(e.children[i], later) \in Verdicts
      <4>1. \A c \in ToSet(e.children) : ListedTree1(c)
        BY <1>1, Zenon DEF ListedTree2, ListedTree
      <4>2. \A i \in 1..Len(e.children) : e.children[i] \in ToSet(e.children)
        BY <3>1 DEF ToSet
      <4>3. QED BY <4>1, <4>2, Depth3Verdict
    <3>4. QED BY <3>1, <3>2, <3>3
  <2>2. Depth2(e, values) = Branch(e.kind, before) /\ Depth2(e, later) = Branch(e.kind, after)
    BY <1>1 DEF Depth2, Level
  <2> HIDE DEF before, after
  <2>3. Branch(e.kind, before) # Broken BY <2>2
  <2>4. Branch(e.kind, after) = Branch(e.kind, before)
    BY <2>1, <2>3, BranchStable, SMTT(60)
  <2>5. QED BY <2>2, <2>4
<1>2. CASE e.kind \notin {"all", "any"}
  <2>1. /\ Depth2(e, values) = IF e.kind = "comparison" THEN Comparison(e, values) ELSE Broken
        /\ Depth2(e, later) = IF e.kind = "comparison" THEN Comparison(e, later) ELSE Broken
    BY <1>2 DEF Depth2, Level
  <2>2. QED BY <2>1, ComparisonStable
<1>3. QED BY <1>1, <1>2

\* evaluate_constraint returns one of the three verdicts,
LEMMA EvaluateVerdict ==
    ASSUME NEW e, NEW values, ListedCondition(e)
    PROVE  Evaluate(e, values) \in Verdicts
<1>1. CASE e.kind \in {"all", "any"}
  <2> DEFINE r == [i \in DOMAIN e.children |-> Depth2(e.children[i], values)]
  <2>1. r \in [1..Len(e.children) -> Verdicts] /\ Len(e.children) \in Nat
    <3>1. /\ e.children \in Seq(ToSet(e.children)) /\ Len(e.children) \in Nat
          /\ DOMAIN e.children = 1..Len(e.children)
      BY <1>1 DEF ListedCondition, ListedTree, Listed
    <3>2. \A i \in 1..Len(e.children) : Depth2(e.children[i], values) \in Verdicts
      <4>1. \A c \in ToSet(e.children) : ListedTree2(c)
        BY <1>1, Zenon DEF ListedCondition, ListedTree
      <4>2. \A i \in 1..Len(e.children) : e.children[i] \in ToSet(e.children)
        BY <3>1 DEF ToSet
      <4>3. QED BY <4>1, <4>2, Depth2Verdict
    <3>3. QED BY <3>1, <3>2
  <2>2. Evaluate(e, values) = Branch(e.kind, r) BY <1>1 DEF Evaluate, Level
  <2> HIDE DEF r
  <2>3. QED BY <2>1, <2>2, BranchVerdict
<1>2. CASE e.kind \notin {"all", "any"}
  BY <1>2, ComparisonVerdict, Zenon DEF Evaluate, Level, Verdicts
<1>3. QED BY <1>1, <1>2

\* and returns the same one when values are added, if it could be evaluated.
LEMMA EvaluateStable ==
    ASSUME NEW e, NEW values, NEW later, ListedCondition(e), Keeps(values, later),
           Evaluate(e, values) # Broken
    PROVE  Evaluate(e, later) = Evaluate(e, values)
<1>1. CASE e.kind \in {"all", "any"}
  <2> DEFINE before == [i \in DOMAIN e.children |-> Depth2(e.children[i], values)]
             after == [i \in DOMAIN e.children |-> Depth2(e.children[i], later)]
  <2>1. /\ Len(e.children) \in Nat
        /\ before \in [1..Len(e.children) -> Verdicts]
        /\ after \in [1..Len(e.children) -> Verdicts]
        /\ \A i \in 1..Len(e.children) : before[i] # Broken => after[i] = before[i]
    <3>1. /\ e.children \in Seq(ToSet(e.children)) /\ Len(e.children) \in Nat
          /\ DOMAIN e.children = 1..Len(e.children)
      BY <1>1 DEF ListedCondition, ListedTree, Listed
    <3>2. \A i \in 1..Len(e.children) : before[i] # Broken => after[i] = before[i]
      <4>1. \A c \in ToSet(e.children) : ListedTree2(c)
        BY <1>1, Zenon DEF ListedCondition, ListedTree
      <4>2. \A i \in 1..Len(e.children) : e.children[i] \in ToSet(e.children)
        BY <3>1 DEF ToSet
      <4>3. QED BY <4>1, <4>2, Depth2Stable
    <3>3. \A i \in 1..Len(e.children) : /\ Depth2(e.children[i], values) \in Verdicts
                                       /\ Depth2(e.children[i], later) \in Verdicts
      <4>1. \A c \in ToSet(e.children) : ListedTree2(c)
        BY <1>1, Zenon DEF ListedCondition, ListedTree
      <4>2. \A i \in 1..Len(e.children) : e.children[i] \in ToSet(e.children)
        BY <3>1 DEF ToSet
      <4>3. QED BY <4>1, <4>2, Depth2Verdict
    <3>4. QED BY <3>1, <3>2, <3>3
  <2>2. Evaluate(e, values) = Branch(e.kind, before) /\ Evaluate(e, later) = Branch(e.kind, after)
    BY <1>1 DEF Evaluate, Level
  <2> HIDE DEF before, after
  <2>3. Branch(e.kind, before) # Broken BY <2>2
  <2>4. Branch(e.kind, after) = Branch(e.kind, before)
    BY <2>1, <2>3, BranchStable, SMTT(60)
  <2>5. QED BY <2>2, <2>4
<1>2. CASE e.kind \notin {"all", "any"}
  <2>1. /\ Evaluate(e, values) = IF e.kind = "comparison" THEN Comparison(e, values) ELSE Broken
        /\ Evaluate(e, later) = IF e.kind = "comparison" THEN Comparison(e, later) ELSE Broken
    BY <1>2 DEF Evaluate, Level
  <2>2. QED BY <2>1, ComparisonStable
<1>3. QED BY <1>1, <1>2

\* The condition of a rule, likewise.
LEMMA HoldsStable ==
    ASSUME NEW rule, NEW values, NEW later, ListedCondition(rule.only_if), Keeps(values, later)
    PROVE  /\ Holds(rule, values) \in Verdicts
           /\ Holds(rule, values) # Broken => Holds(rule, later) = Holds(rule, values)
<1>1. Bool(TRUE) \in Verdicts BY DEF Verdicts
<1>2. QED BY <1>1, EvaluateVerdict, EvaluateStable DEF Holds

-----------------------------------------------------------------------------
(* The three passes of _effective_values *)

ContractLists(g) ==
    /\ Listed(g.defaults) /\ Listed(g.questions)
    /\ \A d \in ToSet(g.defaults) : ListedCondition(d.only_if)

AskableFields(g) == {g.questions[i].field : i \in DOMAIN g.questions}

\* Why f has its value: its rule's condition holds, or it does not and a question's default
\* stands in.
Justified(g, f, values) ==
    IF HasRule(g, f) /\ Holds(Rule(g, f), values) = Bool(TRUE) THEN values[f] = Rule(g, f).value
    ELSE /\ HasRule(g, f) => Holds(Rule(g, f), values) = Bool(FALSE)
         /\ \E i \in DOMAIN g.questions : /\ g.questions[i].field = f
                                          /\ g.questions[i].default = values[f]

\* What the second and the third pass have settled so far, starting from what was supplied.
PassInv(g, given, acc) ==
    /\ acc = [values |-> acc.values, missing |-> acc.missing, failed |-> acc.failed]
    /\ acc.failed \in BOOLEAN
    /\ ~acc.failed => /\ Keeps(given, acc.values)
                      /\ \A f \in DOMAIN acc.values \ DOMAIN given : Justified(g, f, acc.values)
                      /\ acc.missing \in Seq(AskableFields(g) \ DOMAIN given)

\* A field has a rule when some default is for it, and the rule is one of the defaults.
LEMMA RuleFound ==
    ASSUME NEW g, Listed(g.defaults), NEW f
    PROVE  /\ (\E i \in 1..Len(g.defaults) : g.defaults[i].field = f) => HasRule(g, f)
           /\ HasRule(g, f) => Rule(g, f) \in ToSet(g.defaults)
<1> DEFINE I == {i \in 1..Len(g.defaults) : g.defaults[i].field = f}
<1>1. RuleOf(g, f) = IF I # {} THEN Max(I) ELSE 0
  BY DEF RuleOf, SelectLastInSeq
<1>2. Len(g.defaults) \in Nat /\ DOMAIN g.defaults = 1..Len(g.defaults) BY DEF Listed
<1>3. ASSUME I # {} PROVE Max(I) \in I
  <2> DEFINE B == {n \in Nat : \A i \in I : i <= n}
  <2>1. Len(g.defaults) \in B BY <1>2
  <2>2. PICK b \in B : \A n \in B : b <= n
    <3>1. B \in SUBSET Nat /\ B # {} BY <2>1
    <3> HIDE DEF B
    <3>2. QED BY <3>1, LeastNumber
  <2>3. b \in I
    <3>1. SUFFICES ASSUME b \notin I PROVE FALSE
      OBVIOUS
    <3>2. \A i \in I : i <= b /\ i \in Nat /\ i # b /\ i >= 1 BY <1>2, <2>2, <3>1
    <3>3. b >= 1 BY <1>3, <3>2, <2>2
    <3>4. b - 1 \in B BY <2>2, <3>2, <3>3
    <3>5. QED BY <2>2, <3>4
  <2>4. \A i \in I : b >= i BY <1>2, <2>2
  <2> HIDE DEF I, B
  <2>5. QED BY <2>3, <2>4 DEF Max
<1>4. Rule(g, f) = g.defaults[RuleOf(g, f)] BY DEF Rule
<1>5. I # {} => RuleOf(g, f) \in 1..Len(g.defaults) BY <1>1, <1>3
<1>6. HasRule(g, f) => I # {} BY <1>1 DEF HasRule
<1>7. (\E i \in 1..Len(g.defaults) : g.defaults[i].field = f) => I # {} OBVIOUS
<1> HIDE DEF I
<1>8. I # {} => HasRule(g, f) /\ Rule(g, f) \in ToSet(g.defaults)
  BY <1>2, <1>4, <1>5 DEF HasRule, ToSet
<1>9. QED BY <1>6, <1>7, <1>8

\* Settling an open field adds a value and changes none.
LEMMA WithKeeps ==
    ASSUME NEW values, NEW f, NEW v, f \notin DOMAIN values
    PROVE  Keeps(values, With(values, f, v)) /\ DOMAIN With(values, f, v) = DOMAIN values \cup {f}
  BY DEF Keeps, With

\* The field settled has its new value.
LEMMA WithTakes == \A values, f, v : With(values, f, v)[f] = v
  BY DEF With

\* Adding values twice is adding values.
LEMMA KeepsTrans ==
    ASSUME NEW a, NEW b, NEW c, Keeps(a, b), Keeps(b, c)
    PROVE  Keeps(a, c)
  BY DEF Keeps

\* A reason stays a reason.
LEMMA JustifiedStable ==
    ASSUME NEW g, ContractLists(g), NEW f, NEW values, NEW later, Keeps(values, later),
           f \in DOMAIN values, Justified(g, f, values)
    PROVE  Justified(g, f, later)
<1>1. later[f] = values[f] BY DEF Keeps
<1>2. HasRule(g, f) => Holds(Rule(g, f), later) = Holds(Rule(g, f), values)
  <2>1. HasRule(g, f) => Holds(Rule(g, f), values) \in {Bool(TRUE), Bool(FALSE)}
    BY Zenon DEF Justified
  <2>2. ASSUME HasRule(g, f) PROVE Holds(Rule(g, f), later) = Holds(Rule(g, f), values)
    <3>1. Holds(Rule(g, f), values) # Broken BY <2>1, <2>2, VerdictsDiffer
    <3>2. ListedCondition(Rule(g, f).only_if) BY <2>2, RuleFound DEF ContractLists
    <3>3. QED BY <3>1, <3>2, HoldsStable
  <2>3. QED BY <2>2
<1>3. QED BY <1>1, <1>2 DEF Justified

\* Settling one more field, for a reason.
LEMMA SettleOne ==
    ASSUME NEW g, ContractLists(g), NEW given, NEW acc, PassInv(g, given, acc), ~acc.failed,
           NEW f, f \notin DOMAIN acc.values, NEW v, Justified(g, f, With(acc.values, f, v))
    PROVE  LET next == [acc EXCEPT !.values = With(@, f, v)]
           IN  /\ PassInv(g, given, next) /\ ~next.failed /\ next.missing = acc.missing
               /\ Keeps(acc.values, next.values) /\ f \in DOMAIN next.values
<1> DEFINE next == [acc EXCEPT !.values = With(@, f, v)]
<1>1. next = [values |-> With(acc.values, f, v), missing |-> acc.missing, failed |-> acc.failed]
  BY DEF PassInv
<1>2. /\ next.values = With(acc.values, f, v) /\ next.missing = acc.missing
      /\ next.failed = acc.failed
  BY <1>1
<1> HIDE DEF next
<1>3. Keeps(acc.values, next.values) /\ DOMAIN next.values = DOMAIN acc.values \cup {f}
  <2>1. /\ Keeps(acc.values, With(acc.values, f, v))
        /\ DOMAIN With(acc.values, f, v) = DOMAIN acc.values \cup {f}
    BY WithKeeps
  <2>2. QED BY <1>2, <2>1
<1>4. Keeps(given, next.values) BY <1>3, KeepsTrans DEF PassInv
<1>5. \A h \in DOMAIN next.values \ DOMAIN given : Justified(g, h, next.values)
  BY <1>2, <1>3, JustifiedStable DEF PassInv
<1>6. PassInv(g, given, next) BY <1>1, <1>2, <1>4, <1>5 DEF PassInv
<1>7. QED BY <1>2, <1>3, <1>6 DEF next

\* A pass that fails keeps what it has established.
LEMMA FailNow ==
    ASSUME NEW g, NEW given, NEW acc, PassInv(g, given, acc)
    PROVE  PassInv(g, given, [acc EXCEPT !.failed = TRUE]) /\ [acc EXCEPT !.failed = TRUE].failed
<1>1. acc = [values |-> acc.values, missing |-> acc.missing, failed |-> acc.failed]
  BY DEF PassInv
<1> DEFINE next == [acc EXCEPT !.failed = TRUE]
<1>2. next = [values |-> acc.values, missing |-> acc.missing, failed |-> TRUE]
  <2>1. \A t : [acc EXCEPT !.failed = t]
                 = [values |-> acc.values, missing |-> acc.missing, failed |-> t]
    BY <1>1
  <2>2. QED BY <2>1, Zenon
<1>3. next.failed = TRUE /\ next.values = acc.values /\ next.missing = acc.missing
  BY <1>2
<1> HIDE DEF next
<1>4. PassInv(g, given, next) BY <1>2, <1>3 DEF PassInv
<1>5. QED BY <1>3, <1>4 DEF next

\* What a pass makes of one field: it fails, or keeps what is settled and settles or asks.
SettlesOn(acc, next) == next.failed \/ (~acc.failed /\ Keeps(acc.values, next.values))

\* Nothing added is nothing changed.
LEMMA KeepsSelf == \A values : Keeps(values, values)
  BY DEF Keeps

\* One question of the last pass keeps the invariant; without failure and with nothing
\* missing after it, its field has a value.
LEMMA QuestionStep ==
    ASSUME NEW g, ContractLists(g), NEW given, NEW acc, PassInv(g, given, acc),
           NEW n \in 1..Len(g.questions)
    PROVE  LET next == SettleQuestion(g, acc, g.questions[n])
           IN  /\ PassInv(g, given, next) /\ SettlesOn(acc, next)
               /\ ~next.failed /\ next.missing = <<>> =>
                     acc.missing = <<>> /\ g.questions[n].field \in DOMAIN next.values
<1> DEFINE q == g.questions[n]
           next == SettleQuestion(g, acc, q)
           held == IF HasRule(g, q.field) THEN Holds(Rule(g, q.field), acc.values) ELSE Bool(FALSE)
           value == IF HasRule(g, q.field) THEN Rule(g, q.field).value ELSE q.default
<1> SUFFICES /\ PassInv(g, given, next) /\ SettlesOn(acc, next)
             /\ ~next.failed /\ next.missing = <<>> =>
                   acc.missing = <<>> /\ q.field \in DOMAIN next.values
  OBVIOUS
<1>0. DOMAIN g.questions = 1..Len(g.questions) BY DEF ContractLists, Listed
<1>1. CASE acc.failed \/ q.field \in DOMAIN acc.values
  <2>1. next = acc BY <1>1 DEF SettleQuestion
  <2> HIDE DEF next
  <2>2. QED BY <1>1, <2>1, KeepsSelf DEF SettlesOn
<1>2. CASE ~acc.failed /\ q.field \notin DOMAIN acc.values
  <2>1. next = Settle(acc, q.field, held, value, q.default)
    BY <1>2 DEF SettleQuestion
  <2>2. held \in Verdicts
    <3>1. ASSUME HasRule(g, q.field) PROVE Holds(Rule(g, q.field), acc.values) \in Verdicts
      <4>1. ListedCondition(Rule(g, q.field).only_if) BY <3>1, RuleFound DEF ContractLists
      <4>2. QED BY <4>1, KeepsSelf, HoldsStable
    <3>2. QED BY <3>1 DEF Verdicts
  <2>3. CASE held = Broken
    <3>1. next = [acc EXCEPT !.failed = TRUE] BY <2>1, <2>3 DEF Settle
    <3> HIDE DEF next
    <3>2. PassInv(g, given, next) /\ next.failed BY <3>1, FailNow
    <3>3. QED BY <3>2 DEF SettlesOn
  <2>4. CASE held = Bool(TRUE)
    <3>1. held # Broken /\ held.v = TRUE BY <2>4, VerdictsDiffer DEF Bool
    <3>2. next = [acc EXCEPT !.values = With(@, q.field, value)]
      BY <2>1, <3>1 DEF Settle
    <3>3. HasRule(g, q.field) /\ value = Rule(g, q.field).value
          /\ Holds(Rule(g, q.field), acc.values) = Bool(TRUE)
      BY <2>4, VerdictsDiffer
    <3> DEFINE later == With(acc.values, q.field, value)
    <3>4. Keeps(acc.values, later) /\ later[q.field] = value
      <4> HIDE DEF q, value, held, next
      <4>1. Keeps(acc.values, later) BY <1>2, WithKeeps
      <4>2. later[q.field] = value BY WithTakes
      <4>3. QED BY <4>1, <4>2
    <3> HIDE DEF next, later, value, held, q
    <3>5. Holds(Rule(g, q.field), later) = Bool(TRUE)
      <4>1. ListedCondition(Rule(g, q.field).only_if) BY <3>3, RuleFound DEF ContractLists
      <4>2. QED BY <3>3, <3>4, <4>1, HoldsStable, VerdictsDiffer
    <3>6. Justified(g, q.field, later) BY <3>3, <3>4, <3>5 DEF Justified
    <3>7. /\ PassInv(g, given, next) /\ ~next.failed /\ next.missing = acc.missing
          /\ Keeps(acc.values, next.values) /\ q.field \in DOMAIN next.values
      <4>1. LET then == [acc EXCEPT !.values = With(@, q.field, value)]
            IN  /\ PassInv(g, given, then) /\ ~then.failed /\ then.missing = acc.missing
                /\ Keeps(acc.values, then.values) /\ q.field \in DOMAIN then.values
        BY <1>2, <3>6, SettleOne DEF later
      <4>2. QED BY <3>2, <4>1
    <3>8. QED BY <1>2, <3>7 DEF SettlesOn
  <2>5. CASE held = Bool(FALSE) /\ q.default # NoDefault
    <3>1. held # Broken /\ ~held.v BY <2>5, VerdictsDiffer DEF Bool
    <3>2. next = [acc EXCEPT !.values = With(@, q.field, q.default)]
      BY <2>1, <2>5, <3>1 DEF Settle
    <3>3. HasRule(g, q.field) => Holds(Rule(g, q.field), acc.values) = Bool(FALSE)
      BY <2>5
    <3> DEFINE later == With(acc.values, q.field, q.default)
    <3>4. Keeps(acc.values, later) /\ later[q.field] = q.default
      <4> HIDE DEF q, value, held, next
      <4>1. Keeps(acc.values, later) BY <1>2, WithKeeps
      <4>2. later[q.field] = q.default BY WithTakes
      <4>3. QED BY <4>1, <4>2
    <3>0. \E i \in DOMAIN g.questions : g.questions[i].field = q.field
                                        /\ g.questions[i].default = q.default
      BY <1>0
    <3> HIDE DEF next, later, value, held, q
    <3>5. HasRule(g, q.field) => Holds(Rule(g, q.field), later) = Bool(FALSE)
      <4>1. HasRule(g, q.field) => ListedCondition(Rule(g, q.field).only_if)
        BY RuleFound DEF ContractLists
      <4>2. QED BY <3>3, <3>4, <4>1, HoldsStable, VerdictsDiffer
    <3>6. Justified(g, q.field, later) BY <3>0, <3>4, <3>5, VerdictsDiffer DEF Justified
    <3>7. /\ PassInv(g, given, next) /\ ~next.failed /\ next.missing = acc.missing
          /\ Keeps(acc.values, next.values) /\ q.field \in DOMAIN next.values
      <4>1. LET then == [acc EXCEPT !.values = With(@, q.field, q.default)]
            IN  /\ PassInv(g, given, then) /\ ~then.failed /\ then.missing = acc.missing
                /\ Keeps(acc.values, then.values) /\ q.field \in DOMAIN then.values
        BY <1>2, <3>6, SettleOne DEF later
      <4>2. QED BY <3>2, <4>1
    <3>8. QED BY <1>2, <3>7 DEF SettlesOn
  <2>6. CASE held = Bool(FALSE) /\ q.default = NoDefault
    <3>1. held # Broken /\ ~held.v BY <2>6, VerdictsDiffer DEF Bool
    <3>2. next = [acc EXCEPT !.missing = Append(@, q.field)]
      BY <2>1, <2>6, <3>1 DEF Settle
    <3>3. q.field \in AskableFields(g) \ DOMAIN given
      BY <1>0, <1>2 DEF AskableFields, PassInv, Keeps
    <3> HIDE DEF next, value, held, q
    <3>4. next = [values |-> acc.values, missing |-> Append(acc.missing, q.field),
                  failed |-> acc.failed]
      BY <3>2 DEF PassInv
    <3>5. /\ next.values = acc.values /\ next.missing = Append(acc.missing, q.field)
          /\ next.failed = acc.failed
      BY <3>4
    <3>6. /\ next.missing \in Seq(AskableFields(g) \ DOMAIN given) /\ next.missing # <<>>
      BY <1>2, <3>3, <3>5 DEF PassInv
    <3>7. PassInv(g, given, next) BY <1>2, <3>4, <3>5, <3>6 DEF PassInv
    <3>8. QED BY <1>2, <3>5, <3>6, <3>7, KeepsSelf DEF SettlesOn
  <2>7. QED BY <2>2, <2>3, <2>4, <2>5, <2>6 DEF Verdicts
<1>3. QED BY <1>1, <1>2, Zenon DEF PassInv

\* A rule in the third pass: its value is taken, or its condition does not hold.
LEMMA DefaultStep ==
    ASSUME NEW g, ContractLists(g), NEW given, NEW acc, PassInv(g, given, acc),
           NEW f, HasRule(g, f)
    PROVE  LET next == SettleDefault(g, acc, f)
           IN  /\ PassInv(g, given, next) /\ SettlesOn(acc, next)
               /\ ~next.failed => \/ f \in DOMAIN next.values
                                  \/ Holds(Rule(g, f), next.values) = Bool(FALSE)
<1> DEFINE next == SettleDefault(g, acc, f)
           held == Holds(Rule(g, f), acc.values)
           value == Rule(g, f).value
<1> SUFFICES /\ PassInv(g, given, next) /\ SettlesOn(acc, next)
             /\ ~next.failed => \/ f \in DOMAIN next.values
                                \/ Holds(Rule(g, f), next.values) = Bool(FALSE)
  OBVIOUS
<1>1. CASE acc.failed \/ f \in DOMAIN acc.values
  <2>1. next = acc BY <1>1 DEF SettleDefault
  <2> HIDE DEF next
  <2>2. QED BY <1>1, <2>1, KeepsSelf DEF SettlesOn
<1>2. CASE ~acc.failed /\ f \notin DOMAIN acc.values
  <2>1. next = Assume(acc, f, held, value) BY <1>2 DEF SettleDefault
  <2>0. ListedCondition(Rule(g, f).only_if) BY RuleFound DEF ContractLists
  <2>2. held \in Verdicts BY <2>0, KeepsSelf, HoldsStable
  <2>3. CASE held = Broken
    <3>1. next = [acc EXCEPT !.failed = TRUE] BY <2>1, <2>3 DEF Assume
    <3> HIDE DEF next
    <3>2. PassInv(g, given, next) /\ next.failed BY <3>1, FailNow
    <3>3. QED BY <3>2 DEF SettlesOn
  <2>4. CASE held = Bool(TRUE)
    <3>1. held # Broken /\ held.v = TRUE BY <2>4, VerdictsDiffer DEF Bool
    <3>2. next = [acc EXCEPT !.values = With(@, f, value)] BY <2>1, <3>1 DEF Assume
    <3> DEFINE later == With(acc.values, f, value)
    <3>4. Keeps(acc.values, later) /\ later[f] = value
      <4> HIDE DEF value, held, next
      <4>1. Keeps(acc.values, later) BY <1>2, WithKeeps
      <4>2. later[f] = value BY WithTakes
      <4>3. QED BY <4>1, <4>2
    <3>5. Holds(Rule(g, f), later) = Bool(TRUE)
      BY <2>0, <2>4, <3>4, HoldsStable, VerdictsDiffer
    <3> HIDE DEF next, later, held
    <3>6. Justified(g, f, later) BY <3>4, <3>5 DEF Justified
    <3>7. /\ PassInv(g, given, next) /\ ~next.failed
          /\ Keeps(acc.values, next.values) /\ f \in DOMAIN next.values
      BY <1>2, <3>2, <3>6, SettleOne DEF later
    <3>8. QED BY <1>2, <3>7 DEF SettlesOn
  <2>5. CASE held = Bool(FALSE)
    <3>1. held # Broken /\ ~held.v BY <2>5, VerdictsDiffer DEF Bool
    <3>2. next = acc BY <2>1, <3>1 DEF Assume
    <3> HIDE DEF next
    <3>3. QED BY <1>2, <2>5, <3>2, KeepsSelf DEF SettlesOn
  <2>6. QED BY <2>2, <2>3, <2>4, <2>5 DEF Verdicts
<1>3. QED BY <1>1, <1>2, Zenon DEF PassInv

\* The passes by number: a recursive function over the list of rule fields.
Assumed(h, k, g, start) ==
    h = [n \in 0..k |-> IF n = 0 THEN start ELSE SettleDefault(g, h[n - 1], RuleFields(g)[n])]

\* The function that SettleDefaults goes through the rules with exists.
LEMMA AssumedExists ==
    ASSUME NEW g, NEW start, NEW k \in Nat
    PROVE  \E h : Assumed(h, k, g, start)
<1> DEFINE T == {j \in Nat : \E h : Assumed(h, j, g, start)}
<1>1. 0 \in T
  <2>1. Assumed([n \in 0..0 |-> start], 0, g, start) BY DEF Assumed
  <2>2. QED BY <2>1
<1>2. ASSUME NEW j \in Nat, j \in T PROVE j + 1 \in T
  <2>1. PICK h : Assumed(h, j, g, start) BY <1>2
  <2> DEFINE e == [n \in 0..(j + 1) |->
                      IF n <= j THEN h[n] ELSE SettleDefault(g, h[j], RuleFields(g)[j + 1])]
  <2>2. \A n \in 0..j : h[n] = IF n = 0 THEN start ELSE SettleDefault(g, h[n - 1], RuleFields(g)[n])
    BY <2>1 DEF Assumed
  <2>3. \A n \in 0..(j + 1) :
            e[n] = IF n = 0 THEN start ELSE SettleDefault(g, e[n - 1], RuleFields(g)[n])
    BY <2>2
  <2>4. e = [n \in 0..(j + 1) |-> e[n]] OBVIOUS
  <2> HIDE DEF e
  <2>5. Assumed(e, j + 1, g, start) BY <2>3, <2>4 DEF Assumed
  <2>6. QED BY <2>5
<1>3. Nat \subseteq T
  <2> HIDE DEF T
  <2>1. QED BY <1>1, <1>2, SetInduction
<1>4. QED BY <1>3

\* SettleDefaults is the last of a sequence of accumulators, one rule a step.
LEMMA SettleDefaultsSteps ==
    ASSUME NEW g, NEW start, Len(RuleFields(g)) \in Nat
    PROVE  \E h : /\ SettleDefaults(g, start) = h[Len(RuleFields(g))]
                  /\ h[0] = start
                  /\ \A n \in 1..Len(RuleFields(g)) :
                        h[n] = SettleDefault(g, h[n - 1], RuleFields(g)[n])
<1> DEFINE f == CHOOSE h : Assumed(h, Len(RuleFields(g)), g, start)
<1>1. Assumed(f, Len(RuleFields(g)), g, start) BY AssumedExists
<1>2. SettleDefaults(g, start) = f[Len(RuleFields(g))] BY DEF SettleDefaults, Assumed
<1> HIDE DEF f
<1>3. \A n \in 0..Len(RuleFields(g)) :
          f[n] = IF n = 0 THEN start ELSE SettleDefault(g, f[n - 1], RuleFields(g)[n])
  BY <1>1 DEF Assumed
<1>4. f[0] = start /\ \A n \in 1..Len(RuleFields(g)) :
                         f[n] = SettleDefault(g, f[n - 1], RuleFields(g)[n])
  BY <1>3
<1>5. QED BY <1>2, <1>4

\* The fields that have rules, without repetition, by number of rules looked at.
Collected(h, k, g) ==
    h = [n \in 0..k |-> IF n = 0 THEN <<>>
                        ELSE IF Contains(h[n - 1], g.defaults[n].field) THEN h[n - 1]
                        ELSE Append(h[n - 1], g.defaults[n].field)]

\* The function that RuleFields collects the fields of the rules with exists.
LEMMA CollectedExists ==
    ASSUME NEW g, NEW k \in Nat
    PROVE  \E h : Collected(h, k, g)
<1> DEFINE Next1(s, n) == IF Contains(s, g.defaults[n].field) THEN s
                          ELSE Append(s, g.defaults[n].field)
<1> DEFINE T == {j \in Nat : \E h : Collected(h, j, g)}
<1>1. 0 \in T
  <2>1. Collected([n \in 0..0 |-> <<>>], 0, g) BY DEF Collected
  <2>2. QED BY <2>1
<1>2. ASSUME NEW j \in Nat, j \in T PROVE j + 1 \in T
  <2>1. PICK h : Collected(h, j, g) BY <1>2
  <2> DEFINE e == [n \in 0..(j + 1) |-> IF n <= j THEN h[n] ELSE Next1(h[j], j + 1)]
  <2>2. \A n \in 0..j : h[n] = IF n = 0 THEN <<>> ELSE Next1(h[n - 1], n)
    BY <2>1 DEF Collected
  <2> HIDE DEF Next1
  <2>3. \A n \in 0..(j + 1) : e[n] = IF n = 0 THEN <<>> ELSE Next1(e[n - 1], n)
    BY <2>2
  <2>4. e = [n \in 0..(j + 1) |-> e[n]] OBVIOUS
  <2> HIDE DEF e
  <2>5. Collected(e, j + 1, g) BY <2>3, <2>4 DEF Collected, Next1
  <2>6. QED BY <2>5
<1>3. Nat \subseteq T
  <2> HIDE DEF T
  <2>1. QED BY <1>1, <1>2, SetInduction
<1>4. QED BY <1>3

\* Only fields that have a rule are assumed.
LEMMA RuleFieldsHaveRules ==
    ASSUME NEW g, Listed(g.defaults)
    PROVE  /\ Len(RuleFields(g)) \in Nat /\ DOMAIN RuleFields(g) = 1..Len(RuleFields(g))
           /\ \A f \in ToSet(RuleFields(g)) : HasRule(g, f)
<1> DEFINE S == {g.defaults[i].field : i \in 1..Len(g.defaults)}
           c == CHOOSE h : Collected(h, Len(g.defaults), g)
<1>0. Len(g.defaults) \in Nat BY DEF Listed
<1>1. Collected(c, Len(g.defaults), g) BY <1>0, CollectedExists
<1>2. RuleFields(g) = c[Len(g.defaults)] BY DEF RuleFields, Collected
<1> HIDE DEF c
<1>3. \A n \in 0..Len(g.defaults) :
          c[n] = IF n = 0 THEN <<>>
                 ELSE IF Contains(c[n - 1], g.defaults[n].field) THEN c[n - 1]
                 ELSE Append(c[n - 1], g.defaults[n].field)
  BY <1>1 DEF Collected
<1> DEFINE T == {n \in Nat : n <= Len(g.defaults) => c[n] \in Seq(S)}
<1>4. 0 \in T
  <2>1. c[0] = <<>> BY <1>0, <1>3
  <2> HIDE DEF S
  <2>2. <<>> \in Seq(S) OBVIOUS
  <2>3. c[0] \in Seq(S) BY <2>1, <2>2
  <2>4. QED BY <2>3
<1>5. ASSUME NEW n \in Nat, n \in T PROVE n + 1 \in T
  <2>1. SUFFICES ASSUME n + 1 <= Len(g.defaults) PROVE c[n + 1] \in Seq(S)
    OBVIOUS
  <2>2. c[n] \in Seq(S) /\ g.defaults[n + 1].field \in S BY <1>0, <1>5, <2>1
  <2>3. n + 1 \in 0..Len(g.defaults) /\ n + 1 # 0 /\ (n + 1) - 1 = n BY <1>0, <2>1
  <2>4. c[n + 1] = IF Contains(c[n], g.defaults[n + 1].field) THEN c[n]
                   ELSE Append(c[n], g.defaults[n + 1].field)
    BY <1>3, <2>3
  <2> HIDE DEF S
  <2>5. QED BY <2>2, <2>4
<1>6. Nat \subseteq T
  <2> HIDE DEF T
  <2>1. QED BY <1>4, <1>5, SetInduction
<1>7. RuleFields(g) \in Seq(S) BY <1>0, <1>2, <1>6
<1>8. \A f \in S : HasRule(g, f) BY RuleFound
<1> HIDE DEF S
<1>9. \A f \in ToSet(RuleFields(g)) : f \in S BY <1>7 DEF ToSet
<1>10. QED BY <1>7, <1>8, <1>9

\* The second pass answers or asks every question.
LEMMA AskedAll ==
    ASSUME NEW g, ContractLists(g), NEW given
    PROVE  LET asked == AskQuestions(g, [values |-> given, missing |-> <<>>, failed |-> FALSE])
           IN  /\ PassInv(g, given, asked)
               /\ ~asked.failed /\ asked.missing = <<>> =>
                     \A i \in 1..Len(g.questions) : g.questions[i].field \in DOMAIN asked.values
<1> DEFINE start == [values |-> given, missing |-> <<>>, failed |-> FALSE]
<1>0. Len(g.questions) \in Nat BY DEF ContractLists, Listed
<1>1. PassInv(g, given, start)
  <2>1. <<>> \in Seq(AskableFields(g) \ DOMAIN given) OBVIOUS
  <2>2. /\ start.values = given /\ start.missing = <<>> /\ start.failed = FALSE
        /\ start = [values |-> start.values, missing |-> start.missing, failed |-> start.failed]
    OBVIOUS
  <2> HIDE DEF start
  <2>3. QED BY <2>1, <2>2, KeepsSelf DEF PassInv
<1> HIDE DEF start
<1>2. PICK h : /\ AskQuestions(g, start) = h[Len(g.questions)]
               /\ h[0] = start
               /\ \A n \in 1..Len(g.questions) :
                     h[n] = SettleQuestion(g, h[n - 1], g.questions[n])
  BY <1>0, AskQuestionsSteps
<1> DEFINE Through(n) ==
        /\ PassInv(g, given, h[n])
        /\ ~h[n].failed /\ h[n].missing = <<>> =>
              \A i \in 1..n : g.questions[i].field \in DOMAIN h[n].values
<1> DEFINE T == {n \in Nat : n <= Len(g.questions) => Through(n)}
<1>3. 0 \in T BY <1>1, <1>2
<1>4. ASSUME NEW n \in Nat, n \in T PROVE n + 1 \in T
  <2>1. SUFFICES ASSUME n + 1 <= Len(g.questions) PROVE Through(n + 1)
    OBVIOUS
  <2>2. n + 1 \in 1..Len(g.questions) /\ (n + 1) - 1 = n BY <1>0, <2>1
  <2>3. Through(n) BY <1>0, <1>4, <2>1
  <2>4. h[n + 1] = SettleQuestion(g, h[n], g.questions[n + 1]) BY <1>2, <2>2
  <2>5. /\ PassInv(g, given, h[n + 1]) /\ SettlesOn(h[n], h[n + 1])
        /\ ~h[n + 1].failed /\ h[n + 1].missing = <<>> =>
              h[n].missing = <<>> /\ g.questions[n + 1].field \in DOMAIN h[n + 1].values
    BY <2>2, <2>3, <2>4, QuestionStep
  <2>6. ASSUME ~h[n + 1].failed, h[n + 1].missing = <<>>, NEW i \in 1..(n + 1)
        PROVE  g.questions[i].field \in DOMAIN h[n + 1].values
    <3>1. CASE i = n + 1 BY <2>5, <2>6, <3>1
    <3>2. CASE i \in 1..n
      <4>1. g.questions[i].field \in DOMAIN h[n].values
        BY <2>3, <2>5, <2>6, <3>2 DEF SettlesOn
      <4>2. QED BY <2>5, <2>6, <4>1 DEF SettlesOn, Keeps
    <3>3. QED BY <3>1, <3>2
  <2>7. QED BY <2>5, <2>6
<1>5. Nat \subseteq T
  <2> HIDE DEF T
  <2>1. QED BY <1>3, <1>4, SetInduction
<1>6. Through(Len(g.questions)) BY <1>0, <1>5
<1>7. QED BY <1>2, <1>6 DEF start

\* The third pass takes the value of every rule whose condition holds in the end.
LEMMA AssumedAll ==
    ASSUME NEW g, ContractLists(g), NEW given, NEW asked, PassInv(g, given, asked)
    PROVE  LET final == SettleDefaults(g, asked)
           IN  /\ PassInv(g, given, final) /\ (SettlesOn(asked, final) \/ asked.failed)
               /\ ~final.failed =>
                     \A f \in ToSet(RuleFields(g)) : \/ f \in DOMAIN final.values
                                                     \/ Holds(Rule(g, f), final.values) = Bool(FALSE)
<1> DEFINE fields == RuleFields(g)
<1>0. /\ Len(fields) \in Nat /\ DOMAIN fields = 1..Len(fields)
      /\ \A f \in ToSet(fields) : HasRule(g, f)
  BY RuleFieldsHaveRules DEF ContractLists
<1>1. \A i \in 1..Len(fields) : fields[i] \in ToSet(fields) BY <1>0 DEF ToSet
<1> HIDE DEF fields
<1>2. PICK h : /\ SettleDefaults(g, asked) = h[Len(fields)]
               /\ h[0] = asked
               /\ \A n \in 1..Len(fields) : h[n] = SettleDefault(g, h[n - 1], fields[n])
  BY <1>0, SettleDefaultsSteps DEF fields
<1> DEFINE Or(n, i) == \/ fields[i] \in DOMAIN h[n].values
                       \/ Holds(Rule(g, fields[i]), h[n].values) = Bool(FALSE)
           Through(n) == /\ PassInv(g, given, h[n]) /\ (h[n].failed \/ Keeps(asked.values, h[n].values))
                         /\ ~h[n].failed => ~asked.failed
                         /\ ~h[n].failed => \A i \in 1..n : Or(n, i)
<1> DEFINE T == {n \in Nat : n <= Len(fields) => Through(n)}
<1>3. 0 \in T
  <2>1. (h[0].failed \/ Keeps(asked.values, h[0].values)) /\ (~h[0].failed => ~asked.failed)
    BY <1>2, KeepsSelf
  <2>2. PassInv(g, given, h[0]) /\ \A i \in 1..0 : Or(0, i) BY <1>2
  <2> HIDE DEF Or
  <2>3. QED BY <2>1, <2>2
<1>4. ASSUME NEW n \in Nat, n \in T PROVE n + 1 \in T
  <2> SUFFICES ASSUME n + 1 <= Len(fields) PROVE Through(n + 1)
    <3> HIDE DEF Through
    <3>1. QED OBVIOUS
  <2>1. n + 1 <= Len(fields) OBVIOUS
  <2>2. n + 1 \in 1..Len(fields) /\ (n + 1) - 1 = n BY <1>0, <2>1
  <2>3. Through(n)
    <3>1. n <= Len(fields) BY <1>0, <2>1
    <3> HIDE DEF Through
    <3>2. QED BY <1>4, <3>1
  <2>4. h[n + 1] = SettleDefault(g, h[n], fields[n + 1]) /\ HasRule(g, fields[n + 1])
    BY <1>0, <1>1, <1>2, <2>2
  <2>5. /\ PassInv(g, given, h[n + 1]) /\ SettlesOn(h[n], h[n + 1])
        /\ ~h[n + 1].failed => Or(n + 1, n + 1)
    BY <2>3, <2>4, DefaultStep
  <2>6. ASSUME ~h[n + 1].failed, NEW i \in 1..(n + 1) PROVE Or(n + 1, i)
    <3>1. CASE i = n + 1 BY <2>5, <2>6, <3>1
    <3>2. CASE i \in 1..n
      <4>1. Or(n, i) /\ Keeps(h[n].values, h[n + 1].values)
        BY <2>3, <2>5, <2>6, <3>2 DEF SettlesOn
      <4>2. ListedCondition(Rule(g, fields[i]).only_if)
        <5>1. HasRule(g, fields[i]) BY <1>0, <1>1, <2>1, <3>2
        <5>2. QED BY <5>1, RuleFound DEF ContractLists
      <4>3. CASE fields[i] \in DOMAIN h[n].values BY <4>1, <4>3 DEF Keeps
      <4>4. CASE Holds(Rule(g, fields[i]), h[n].values) = Bool(FALSE)
        BY <4>1, <4>2, <4>4, HoldsStable, VerdictsDiffer
      <4>5. QED BY <4>1, <4>3, <4>4
    <3> HIDE DEF Or
    <3>3. QED BY <3>1, <3>2
  <2>7. (h[n + 1].failed \/ Keeps(asked.values, h[n + 1].values)) /\ (~h[n + 1].failed => ~asked.failed)
    BY <2>3, <2>5, KeepsTrans DEF SettlesOn
  <2> HIDE DEF Or
  <2>8. QED BY <2>5, <2>6, <2>7
<1>5. Nat \subseteq T
  <2> HIDE DEF T
  <2>1. QED BY <1>3, <1>4, SetInduction
<1>6. Through(Len(fields))
  <2> HIDE DEF Through
  <2>1. QED BY <1>0, <1>5
<1> DEFINE final == SettleDefaults(g, asked)
<1>7. final = h[Len(fields)] BY <1>2
<1> HIDE DEF final
<1>8. ~final.failed => \A f \in ToSet(fields) : \/ f \in DOMAIN final.values
                                                \/ Holds(Rule(g, f), final.values) = Bool(FALSE)
  <2>1. ASSUME ~final.failed, NEW f \in ToSet(fields)
        PROVE  f \in DOMAIN final.values \/ Holds(Rule(g, f), final.values) = Bool(FALSE)
    <3>1. PICK i \in 1..Len(fields) : fields[i] = f BY <1>0 DEF ToSet
    <3>2. QED BY <1>6, <1>7, <2>1, <3>1
  <2>2. QED BY <2>1
<1>9. PassInv(g, given, final) /\ (SettlesOn(asked, final) \/ asked.failed)
  BY <1>6, <1>7 DEF SettlesOn
<1>10. QED BY <1>8, <1>9 DEF final, fields

\* What _effective_values comes to for one contract and one set of supplied values.
Exactly(g, given, e) ==
    /\ e.kind \in {"values", "ambiguous", "contract"}
    /\ e.kind = "values" =>
          /\ Keeps(given, e.values)
          /\ \A f \in DOMAIN e.values \ DOMAIN given : Justified(g, f, e.values)
          /\ \A f \in ToSet(RuleFields(g)) : \/ f \in DOMAIN e.values
                                             \/ Holds(Rule(g, f), e.values) = Bool(FALSE)
          /\ \A i \in DOMAIN g.questions : g.questions[i].field \in DOMAIN e.values
    /\ e.kind = "ambiguous" => e.fields # <<>> /\ ToSet(e.fields) \cap DOMAIN given = {}

\* What resolve_effective_values returns is exact: the caller's values are kept, each
\* assumed one is the default of a rule whose condition holds, and none is missed.
LEMMA EffectiveExactly ==
    ASSUME NEW g, ContractLists(g), NEW given
    PROVE  Exactly(g, given, EffectiveValues(g, given))
<1> DEFINE U == Unanswerable(g, given)
           start == [values |-> given, missing |-> <<>>, failed |-> FALSE]
           asked == AskQuestions(g, start)
           final == SettleDefaults(g, asked)
           e == EffectiveValues(g, given)
<1>0. DOMAIN g.questions = 1..Len(g.questions) BY DEF ContractLists, Listed
<1>1. CASE U # <<>>
  <2> DEFINE C == {q \in ToSet(g.questions) : /\ q.field \notin DOMAIN given
                                              /\ ~HasRule(g, q.field) /\ q.default = NoDefault}
  <2>1. U = Picked(g.questions, C) BY DEF Unanswerable
  <2>2. U \in Seq(ToSet(g.questions)) /\ ToSet(U) = ToSet(g.questions) \cap C
    <3> HIDE DEF C, U
    <3>1. g.questions \in Seq(ToSet(g.questions)) BY DEF ContractLists, Listed
    <3>2. QED BY <2>1, <3>1, PickedMembers
  <2>3. e = Ambiguous([i \in DOMAIN U |-> U[i].field]) BY <1>1 DEF EffectiveValues
  <2> HIDE DEF U, e
  <2>4. \A i \in DOMAIN U : U[i] \in C BY <2>2 DEF ToSet
  <2>5. \A i \in DOMAIN U : U[i].field \notin DOMAIN given BY <2>4
  <2>6. DOMAIN U # {}
    <3>1. DOMAIN U = 1..Len(U) /\ Len(U) \in Nat /\ (Len(U) = 0 => U = <<>>) BY <2>2
    <3>2. QED BY <1>1, <3>1
  <2>7. e.kind = "ambiguous" /\ e.fields = [i \in DOMAIN U |-> U[i].field]
    BY <2>3 DEF Ambiguous
  <2>8. DOMAIN e.fields # {} /\ \A i \in DOMAIN e.fields : e.fields[i] \notin DOMAIN given
    BY <2>5, <2>6, <2>7
  <2>9. e.fields # <<>> /\ ToSet(e.fields) \cap DOMAIN given = {} BY <2>8 DEF ToSet
  <2>10. QED BY <2>7, <2>9 DEF Exactly, e
<1>2. CASE U = <<>>
  <2>1. e = AssumeDefaults(g, asked) BY <1>2 DEF EffectiveValues
  <2>2. /\ PassInv(g, given, asked)
        /\ ~asked.failed /\ asked.missing = <<>> =>
              \A i \in 1..Len(g.questions) : g.questions[i].field \in DOMAIN asked.values
    <3> HIDE DEF final, e, U
    <3>1. QED BY AskedAll
  <2> HIDE DEF asked, U, e
  <2>3. CASE asked.failed
    <3>1. e.kind = "contract" BY <2>1, <2>3 DEF AssumeDefaults, Contract
    <3>2. QED BY <3>1 DEF Exactly, e
  <2>4. CASE ~asked.failed /\ asked.missing # <<>>
    <3>1. e.kind = "ambiguous" /\ e.fields = asked.missing
      BY <2>1, <2>4 DEF AssumeDefaults, Ambiguous
    <3>2. asked.missing \in Seq(AskableFields(g) \ DOMAIN given) BY <2>2, <2>4 DEF PassInv
    <3>3. ToSet(asked.missing) \cap DOMAIN given = {} BY <3>2 DEF ToSet
    <3>4. QED BY <2>4, <3>1, <3>3 DEF Exactly, e
  <2>5. CASE ~asked.failed /\ asked.missing = <<>>
    <3>1. e = Concluded(final) BY <2>1, <2>5 DEF AssumeDefaults
    <3>2. /\ PassInv(g, given, final) /\ SettlesOn(asked, final)
          /\ ~final.failed => \A f \in ToSet(RuleFields(g)) :
                                 \/ f \in DOMAIN final.values
                                 \/ Holds(Rule(g, f), final.values) = Bool(FALSE)
      BY <2>2, <2>5, AssumedAll
    <3> HIDE DEF final
    <3>3. CASE final.failed
      <4>1. e.kind = "contract" BY <3>1, <3>3 DEF Concluded, Contract
      <4>2. QED BY <4>1 DEF Exactly, e
    <3>4. CASE ~final.failed
      <4>1. e.kind = "values" /\ e.values = final.values BY <3>1, <3>4 DEF Concluded, Settled
      <4>2. Keeps(given, e.values) /\ \A f \in DOMAIN e.values \ DOMAIN given : Justified(g, f, e.values)
        BY <3>2, <3>4, <4>1 DEF PassInv
      <4>3. \A i \in DOMAIN g.questions : g.questions[i].field \in DOMAIN e.values
        BY <1>0, <2>2, <2>5, <3>2, <3>4, <4>1 DEF SettlesOn, Keeps
      <4>4. QED BY <3>2, <3>4, <4>1, <4>2, <4>3 DEF Exactly, e
    <3>5. QED BY <3>3, <3>4
  <2>6. QED BY <2>3, <2>4, <2>5
<1>3. QED BY <1>1, <1>2

\* The contract, and the verdict of the last preflight if there is one.
GuidanceInv == guidance \in GuidanceCases /\ verdict \in {Unasked, Preflight(guidance, supplied)}

\* In every dialogue of a caller with the guidance of a component, the verdict in hand is
\* that of preflight on the contract and on what the caller has supplied by then.
THEOREM GuidanceInvariant == DialogSpec => []GuidanceInv
<1>1. DialogInit => GuidanceInv BY DEF DialogInit, GuidanceInv
<1>2. GuidanceInv /\ [DialogNext]_dialogVars => GuidanceInv'
  BY DEF GuidanceInv, DialogNext, RunPreflight, AnswerQuestions, dialogVars
<1>3. QED BY <1>1, <1>2, PTL DEF DialogSpec

\* preflight: whatever the contract and whatever is supplied, what it assumed is what the
\* contract allows of the final values, and what it asks is open.
THEOREM DefaultsAreExact == DialogSpec => []DefaultsExact
<1>1. GuidanceInv => DefaultsExact
  <2>1. SUFFICES ASSUME GuidanceInv PROVE DefaultsExact
    OBVIOUS
  <2>2. ContractLists(guidance) BY <2>1, GuidanceAssumption DEF GuidanceInv, ContractLists
  <2> DEFINE e == EffectiveValues(guidance, supplied)
  <2>3. Exactly(guidance, supplied, e) BY <2>2, EffectiveExactly
  <2>4. verdict = Unasked \/ verdict = Judged(guidance, e) BY <2>1 DEF GuidanceInv, Preflight
  <2> HIDE DEF e
  <2>5. ASSUME verdict.kind = "clear" PROVE e.kind = "values" /\ verdict.values = e.values
    <3>1. e.kind # "clear" BY <2>3 DEF Exactly
    <3>2. verdict = Judged(guidance, e) BY <2>4, <2>5 DEF Unasked
    <3>3. QED BY <2>5, <3>1, <3>2 DEF Judged, Contract
  <2>6. ASSUME verdict.kind = "ambiguous" PROVE e.kind = "ambiguous" /\ verdict = e
    BY <2>4, <2>6 DEF Unasked, Judged, Contract
  <2>7. ASSUME verdict.kind = "clear"
        PROVE  LET final == verdict.values
               IN  /\ \A f \in DOMAIN supplied : final[f] = supplied[f]
                   /\ \A f \in ToSet(RuleFields(guidance)) \ DOMAIN supplied :
                         LET rule == Rule(guidance, f)
                         IN  IF Holds(rule, final) = Bool(TRUE) THEN final[f] = rule.value
                             ELSE f \in DOMAIN final =>
                                     \E i \in DOMAIN guidance.questions :
                                         /\ guidance.questions[i].field = f
                                         /\ guidance.questions[i].default = final[f]
                   /\ \A i \in DOMAIN guidance.questions : guidance.questions[i].field \in DOMAIN final
    <3> DEFINE final == e.values
    <3>1. /\ Keeps(supplied, final)
          /\ \A f \in DOMAIN final \ DOMAIN supplied : Justified(guidance, f, final)
          /\ \A f \in ToSet(RuleFields(guidance)) :
                f \in DOMAIN final \/ Holds(Rule(guidance, f), final) = Bool(FALSE)
          /\ \A i \in DOMAIN guidance.questions : guidance.questions[i].field \in DOMAIN final
      BY <2>3, <2>5, <2>7 DEF Exactly
    <3> HIDE DEF final
    <3>2. ASSUME NEW f \in ToSet(RuleFields(guidance)) \ DOMAIN supplied
          PROVE  IF Holds(Rule(guidance, f), final) = Bool(TRUE) THEN final[f] = Rule(guidance, f).value
                 ELSE f \in DOMAIN final =>
                         \E i \in DOMAIN guidance.questions :
                             /\ guidance.questions[i].field = f
                             /\ guidance.questions[i].default = final[f]
      <4>1. HasRule(guidance, f) BY <2>2, RuleFieldsHaveRules DEF ContractLists
      <4>2. CASE f \in DOMAIN final
        <5>1. Justified(guidance, f, final) BY <3>1, <4>2
        <5>2. QED BY <4>1, <4>2, <5>1, Zenon DEF Justified
      <4>3. CASE f \notin DOMAIN final
        <5>1. Holds(Rule(guidance, f), final) # Bool(TRUE) BY <3>1, <4>3, VerdictsDiffer
        <5>2. QED BY <4>3, <5>1
      <4>4. QED BY <4>2, <4>3
    <3>3. verdict.values = final BY <2>5, <2>7 DEF final
    <3>4. \A f \in DOMAIN supplied : final[f] = supplied[f] BY <3>1 DEF Keeps
    <3>5. QED BY <3>1, <3>2, <3>3, <3>4, Zenon
  <2>8. verdict.kind = "ambiguous" =>
            verdict.fields # <<>> /\ ToSet(verdict.fields) \cap DOMAIN supplied = {}
    BY <2>3, <2>6 DEF Exactly
  <2>9. QED BY <2>7, <2>8 DEF DefaultsExact
<1>2. QED BY <1>1, GuidanceInvariant, PTL

-----------------------------------------------------------------------------
(* Ports *)

\* A list is a list over the set of its elements.
LEMMA InOwnSet ==
    ASSUME NEW A, NEW s \in Seq(A)
    PROVE  s \in Seq(ToSet(s))
<1>1. s \in [1..Len(s) -> A] /\ Len(s) \in Nat /\ DOMAIN s = 1..Len(s) OBVIOUS
<1>2. \A i \in 1..Len(s) : s[i] \in ToSet(s) BY <1>1 DEF ToSet
<1> DEFINE B == ToSet(s)
<1> HIDE DEF B
<1>3. s \in [1..Len(s) -> B] BY <1>1, <1>2 DEF B
<1>4. s \in Seq(B) BY <1>1, <1>3
<1>5. QED BY <1>4 DEF B

\* Two ports have no difference exactly when no dimension differs.
LEMMA DifferencesFound ==
    ASSUME NEW p, NEW c
    PROVE  Differences(p, c) = <<>> <=>
              /\ ProvenanceCompatible(p["provenance_requirement"], c["provenance_requirement"])
              /\ \A d \in ToSet(Dimensions) \ {"provenance_requirement"} : p[d] = c[d]
<1> DEFINE differing == {d \in ToSet(Dimensions) :
                            IF d = "provenance_requirement" THEN ~ProvenanceCompatible(p[d], c[d])
                            ELSE p[d] # c[d]}
<1>1. Dimensions \in Seq(ToSet(Dimensions)) /\ "provenance_requirement" \in ToSet(Dimensions)
  <2>1. /\ DOMAIN Dimensions = 1..8 /\ Len(Dimensions) = 8
        /\ Dimensions[8] = "provenance_requirement"
    BY DEF Dimensions
  <2>2. Dimensions \in Seq({"concept", "unit", "shape", "cardinality", "convention", "ordering",
                            "frequency", "provenance_requirement"})
    BY DEF Dimensions
  <2>3. \A i \in 1..8 : Dimensions[i] \in ToSet(Dimensions) BY <2>1 DEF ToSet
  <2>4. 8 \in 1..8 OBVIOUS
  <2>5. Dimensions \in Seq(ToSet(Dimensions)) BY <2>2, InOwnSet
  <2>6. QED BY <2>1, <2>3, <2>4, <2>5
<1>2. Differences(p, c) = Picked(Dimensions, differing) BY DEF Differences, Picked
<1> HIDE DEF differing
<1>3. /\ Picked(Dimensions, differing) \in Seq(ToSet(Dimensions))
      /\ ToSet(Picked(Dimensions, differing)) = ToSet(Dimensions) \cap differing
  BY <1>1, PickedMembers
<1>4. Picked(Dimensions, differing) = <<>> <=> ToSet(Dimensions) \cap differing = {}
  <2>1. ASSUME NEW s \in Seq(ToSet(Dimensions)), s # <<>> PROVE s[1] \in ToSet(s)
    BY <2>1 DEF ToSet
  <2>2. ToSet(<<>>) = {} BY DEF ToSet
  <2>3. QED BY <1>3, <2>1, <2>2
<1>5. ToSet(Dimensions) \cap differing = {} <=>
          \A d \in ToSet(Dimensions) :
              IF d = "provenance_requirement" THEN ProvenanceCompatible(p[d], c[d])
              ELSE p[d] = c[d]
  BY DEF differing
<1>6. QED BY <1>1, <1>2, <1>4, <1>5

\* _provenance_is_compatible is inclusion of the origins that a requirement admits.
LEMMA ProvenanceIsInclusion ==
    ASSUME NEW p \in Provenances, NEW c \in Provenances
    PROVE  ProvenanceCompatible(p, c) <=> Origins(p) \subseteq Origins(c)
<1>1. /\ Origins("not_required") = {"source", "component", "none"}
      /\ Origins("source_bound") = {"source"} /\ Origins("component_bound") = {"component"}
      /\ Origins("source_or_component_bound") = {"source", "component"}
  BY DEF Origins
<1>2. QED BY <1>1 DEF ProvenanceCompatible, Provenances

\* A function's value at a schema depends on its values at the schemas inside it, and only
\* on these.
FromInside(V, F) ==
    /\ F \in [Schemas -> [[Schemas -> V] -> V]]
    /\ \A s \in Schemas : \A f, g \in [Schemas -> V] :
           (\A t \in Inside(s) : f[t] = g[t]) => F[s][f] = F[s][g]

HasFunction(V, F) == \E f \in [Schemas -> V] : \A s \in Schemas : f[s] = F[s][f]

\* What is defined from its values at the schemas inside exists, as schemas come to an end.
LEMMA NestedFunction ==
    ASSUME NEW V, NEW v0 \in V, NEW F, FromInside(V, F)
    PROVE  HasFunction(V, F)
<1> DEFINE Found(f, n) == \A s \in Schemas : Nesting[s] < n => f[s] = F[s][f]
           T == {n \in Nat : \E f \in [Schemas -> V] : Found(f, n)}
<1>0. /\ MaxNesting \in Nat /\ Nesting \in [Schemas -> 0..MaxNesting]
      /\ \A s \in Schemas : \A t \in Inside(s) : t \in Schemas /\ Nesting[t] < Nesting[s]
      /\ F \in [Schemas -> [[Schemas -> V] -> V]]
      /\ \A s \in Schemas : \A f, g \in [Schemas -> V] :
             (\A t \in Inside(s) : f[t] = g[t]) => F[s][f] = F[s][g]
  BY PortsAssumption DEF FromInside
<1>1. 0 \in T
  <2>1. [s \in Schemas |-> v0] \in [Schemas -> V] OBVIOUS
  <2>2. Found([s \in Schemas |-> v0], 0) BY <1>0
  <2>3. QED BY <2>1, <2>2
<1>2. ASSUME NEW n \in Nat, n \in T PROVE n + 1 \in T
  <2>1. PICK f \in [Schemas -> V] : Found(f, n) BY <1>2
  <2> DEFINE g == [s \in Schemas |-> F[s][f]]
  <2>2. g \in [Schemas -> V] BY <1>0
  <2>3. ASSUME NEW s \in Schemas, Nesting[s] < n + 1 PROVE g[s] = F[s][g]
    <3>1. ASSUME NEW t \in Inside(s) PROVE f[t] = g[t]
      <4>1. t \in Schemas /\ Nesting[t] < Nesting[s] BY <1>0
      <4>2. Nesting[t] \in Int /\ Nesting[s] \in Int BY <1>0, <4>1
      <4>3. Nesting[t] < n BY <2>3, <4>1, <4>2
      <4>4. QED BY <2>1, <4>1, <4>3
    <3> HIDE DEF g
    <3>2. F[s][f] = F[s][g] BY <1>0, <2>2, <3>1
    <3>3. g[s] = F[s][f] BY DEF g
    <3>4. QED BY <3>2, <3>3
  <2> HIDE DEF g
  <2>4. Found(g, n + 1) BY <2>3
  <2>5. QED BY <2>2, <2>4
<1>3. Nat \subseteq T
  <2> HIDE DEF T
  <2>1. QED BY <1>1, <1>2, SetInduction
<1>4. PICK f \in [Schemas -> V] : Found(f, MaxNesting + 1)
  <2> DEFINE m == MaxNesting + 1
  <2>1. m \in Nat BY <1>0
  <2> HIDE DEF m
  <2>2. m \in T BY <1>3, <2>1
  <2>3. \E f \in [Schemas -> V] : Found(f, m) BY <2>2
  <2>4. QED BY <2>3 DEF m
<1>5. \A s \in Schemas : Nesting[s] < MaxNesting + 1 BY <1>0
<1>6. \A s \in Schemas : f[s] = F[s][f] BY <1>4, <1>5
<1>7. QED BY <1>6 DEF HasFunction

\* What is true of a schema when it is true of the schemas inside it is true of all.
LEMMA NestedInduction ==
    ASSUME NEW T, \A s \in Schemas : (\A t \in Inside(s) : t \in T) => s \in T
    PROVE  Schemas \subseteq T
<1> DEFINE Shallow == {n \in Nat : \A s \in Schemas : Nesting[s] < n => s \in T}
<1>0. /\ MaxNesting \in Nat /\ Nesting \in [Schemas -> 0..MaxNesting]
      /\ \A s \in Schemas : \A t \in Inside(s) : t \in Schemas /\ Nesting[t] < Nesting[s]
  BY PortsAssumption
<1>1. 0 \in Shallow BY <1>0
<1>2. ASSUME NEW n \in Nat, n \in Shallow PROVE n + 1 \in Shallow
  <2>1. ASSUME NEW s \in Schemas, Nesting[s] < n + 1 PROVE s \in T
    <3>1. ASSUME NEW t \in Inside(s) PROVE t \in T
      <4>1. t \in Schemas /\ Nesting[t] < Nesting[s] BY <1>0
      <4>2. Nesting[t] \in Int /\ Nesting[s] \in Int BY <1>0, <4>1
      <4>3. Nesting[t] < n BY <2>1, <4>1, <4>2
      <4>4. QED BY <1>2, <4>1, <4>3
    <3>2. QED BY <3>1
  <2>2. QED BY <2>1
<1>3. Nat \subseteq Shallow
  <2> HIDE DEF Shallow
  <2>1. QED BY <1>1, <1>2, SetInduction
<1>4. MaxNesting + 1 \in Shallow /\ \A s \in Schemas : Nesting[s] < MaxNesting + 1
  BY <1>0, <1>3
<1>5. QED BY <1>4

\* A reference leads into its definition, a choice into its alternatives.
LEMMA LeadsInside ==
    ASSUME NEW s \in Schemas
    PROVE  /\ Resolves(s) => Definitions[s.ref] \in Inside(s)
           /\ HasAlternatives(s) => \A t \in s.of : t \in Inside(s)
           /\ \A t \in Inside(s) : t \in Schemas
<1>1. \A t \in Inside(s) : t \in Schemas BY PortsAssumption
<1>2. QED BY <1>1 DEF Inside

\* _schema_shapes, unfolded.
LEMMA ShapesOf ==
    ASSUME NEW s \in Schemas
    PROVE  SchemaShapes[s] =
              IF Resolves(s) THEN SchemaShapes[Definitions[s.ref]]
              ELSE IF HasAlternatives(s) THEN UNION {SchemaShapes[t] : t \in s.of}
              ELSE OwnShapes(s)
<1> DEFINE V == SUBSET {"scalar", "ordered_series"}
           E(r, f) ==
               IF Resolves(r) THEN f[Definitions[r.ref]]
               ELSE IF HasAlternatives(r) THEN UNION {f[t] : t \in r.of}
               ELSE OwnShapes(r)
           F == [r \in Schemas |-> [f \in [Schemas -> V] |-> E(r, f)]]
<1>1. ASSUME NEW r \in Schemas, NEW f \in [Schemas -> V] PROVE E(r, f) \in V
  <2>1. Resolves(r) => f[Definitions[r.ref]] \in V BY LeadsInside
  <2>2. HasAlternatives(r) => \A t \in r.of : f[t] \in V BY LeadsInside
  <2>3. OwnShapes(r) \in V BY DEF OwnShapes
  <2>4. HasAlternatives(r) => UNION {f[t] : t \in r.of} \in V BY <2>2
  <2>5. QED BY <2>1, <2>3, <2>4
<1>2. ASSUME NEW r \in Schemas, NEW f \in [Schemas -> V], NEW g \in [Schemas -> V],
             \A t \in Inside(r) : f[t] = g[t]
      PROVE  E(r, f) = E(r, g)
  <2>1. Resolves(r) => f[Definitions[r.ref]] = g[Definitions[r.ref]] BY <1>2, LeadsInside
  <2>2. HasAlternatives(r) => {f[t] : t \in r.of} = {g[t] : t \in r.of} BY <1>2, LeadsInside
  <2>3. QED BY <2>1, <2>2
<1> HIDE DEF E
<1>3. F \in [Schemas -> [[Schemas -> V] -> V]] BY <1>1
<1>4. \A r \in Schemas : \A f \in [Schemas -> V] : F[r][f] = E(r, f) OBVIOUS
<1>5. {} \in V OBVIOUS
<1> HIDE DEF F, V
<1>6. HasFunction(V, F)
  <2>1. ASSUME NEW r \in Schemas, NEW f \in [Schemas -> V], NEW g \in [Schemas -> V],
               \A t \in Inside(r) : f[t] = g[t]
        PROVE  F[r][f] = F[r][g]
    <3>1. E(r, f) = E(r, g) BY <1>2, <2>1
    <3>2. QED BY <1>4, <3>1
  <2>2. FromInside(V, F) BY <1>3, <2>1 DEF FromInside
  <2>3. QED BY <1>5, <2>2, NestedFunction
<1>7. \E f : f = [r \in Schemas |-> E(r, f)]
  <2>1. PICK f \in [Schemas -> V] : \A r \in Schemas : f[r] = F[r][f] BY <1>6 DEF HasFunction
  <2>2. \A r \in Schemas : f[r] = E(r, f) BY <1>4, <2>1
  <2>3. f = [r \in Schemas |-> E(r, f)] BY <2>2
  <2>4. QED BY <2>3
<1>8. SchemaShapes = [r \in Schemas |-> E(r, SchemaShapes)] BY <1>7 DEF SchemaShapes, E
<1>9. SchemaShapes[s] = E(s, SchemaShapes) BY <1>8
<1>10. QED BY <1>9 DEF E

\* _array_minimum_items, unfolded.
LEMMA MinimumsOf ==
    ASSUME NEW s \in Schemas
    PROVE  ArrayMinimums[s] =
              IF Resolves(s) THEN ArrayMinimums[Definitions[s.ref]]
              ELSE IF HasAlternatives(s) THEN UNION {ArrayMinimums[t] : t \in s.of}
              ELSE OwnMinimums(s)
<1> DEFINE V == SUBSET {t.minimum : t \in Schemas}
           E(r, f) ==
               IF Resolves(r) THEN f[Definitions[r.ref]]
               ELSE IF HasAlternatives(r) THEN UNION {f[t] : t \in r.of}
               ELSE OwnMinimums(r)
           F == [r \in Schemas |-> [f \in [Schemas -> V] |-> E(r, f)]]
<1>1. ASSUME NEW r \in Schemas, NEW f \in [Schemas -> V] PROVE E(r, f) \in V
  <2>1. Resolves(r) => f[Definitions[r.ref]] \in V BY LeadsInside
  <2>2. HasAlternatives(r) => \A t \in r.of : f[t] \in V BY LeadsInside
  <2>3. OwnMinimums(r) \in V BY DEF OwnMinimums
  <2>4. HasAlternatives(r) => UNION {f[t] : t \in r.of} \in V BY <2>2
  <2>5. QED BY <2>1, <2>3, <2>4
<1>2. ASSUME NEW r \in Schemas, NEW f \in [Schemas -> V], NEW g \in [Schemas -> V],
             \A t \in Inside(r) : f[t] = g[t]
      PROVE  E(r, f) = E(r, g)
  <2>1. Resolves(r) => f[Definitions[r.ref]] = g[Definitions[r.ref]] BY <1>2, LeadsInside
  <2>2. HasAlternatives(r) => {f[t] : t \in r.of} = {g[t] : t \in r.of} BY <1>2, LeadsInside
  <2>3. QED BY <2>1, <2>2
<1> HIDE DEF E
<1>3. F \in [Schemas -> [[Schemas -> V] -> V]] BY <1>1
<1>4. \A r \in Schemas : \A f \in [Schemas -> V] : F[r][f] = E(r, f) OBVIOUS
<1>5. {} \in V OBVIOUS
<1> HIDE DEF F, V
<1>6. HasFunction(V, F)
  <2>1. ASSUME NEW r \in Schemas, NEW f \in [Schemas -> V], NEW g \in [Schemas -> V],
               \A t \in Inside(r) : f[t] = g[t]
        PROVE  F[r][f] = F[r][g]
    <3>1. E(r, f) = E(r, g) BY <1>2, <2>1
    <3>2. QED BY <1>4, <3>1
  <2>2. FromInside(V, F) BY <1>3, <2>1 DEF FromInside
  <2>3. QED BY <1>5, <2>2, NestedFunction
<1>7. \E f : f = [r \in Schemas |-> E(r, f)]
  <2>1. PICK f \in [Schemas -> V] : \A r \in Schemas : f[r] = F[r][f] BY <1>6 DEF HasFunction
  <2>2. \A r \in Schemas : f[r] = E(r, f) BY <1>4, <2>1
  <2>3. f = [r \in Schemas |-> E(r, f)] BY <2>2
  <2>4. QED BY <2>3
<1>8. ArrayMinimums = [r \in Schemas |-> E(r, ArrayMinimums)] BY <1>7 DEF ArrayMinimums, E
<1>9. ArrayMinimums[s] = E(s, ArrayMinimums) BY <1>8
<1>10. QED BY <1>9 DEF E

\* _schema_allows_null, unfolded.
LEMMA NullOf ==
    ASSUME NEW s \in Schemas
    PROVE  AllowsNull[s] =
              ((\E t \in Inside(s) : AllowsNull[t]) \/ NullByKeywords(s))
<1> DEFINE V == BOOLEAN
           E(r, f) ==
               ((\E t \in Inside(r) : f[t]) \/ NullByKeywords(r))
           F == [r \in Schemas |-> [f \in [Schemas -> V] |-> E(r, f)]]
<1>1. ASSUME NEW r \in Schemas, NEW f \in [Schemas -> V] PROVE E(r, f) \in V
  BY Zenon
<1>2. ASSUME NEW r \in Schemas, NEW f \in [Schemas -> V], NEW g \in [Schemas -> V],
             \A t \in Inside(r) : f[t] = g[t]
      PROVE  E(r, f) = E(r, g)
  <2>1. (\E t \in Inside(r) : f[t]) <=> (\E t \in Inside(r) : g[t]) BY <1>2, Zenon
  <2>2. QED BY <2>1
<1> HIDE DEF E
<1>3. F \in [Schemas -> [[Schemas -> V] -> V]] BY <1>1
<1>4. \A r \in Schemas : \A f \in [Schemas -> V] : F[r][f] = E(r, f) OBVIOUS
<1>5. FALSE \in V OBVIOUS
<1> HIDE DEF F, V
<1>6. HasFunction(V, F)
  <2>1. ASSUME NEW r \in Schemas, NEW f \in [Schemas -> V], NEW g \in [Schemas -> V],
               \A t \in Inside(r) : f[t] = g[t]
        PROVE  F[r][f] = F[r][g]
    <3>1. E(r, f) = E(r, g) BY <1>2, <2>1
    <3>2. QED BY <1>4, <3>1
  <2>2. FromInside(V, F) BY <1>3, <2>1 DEF FromInside
  <2>3. QED BY <1>5, <2>2, NestedFunction
<1>7. \E f : f = [r \in Schemas |-> E(r, f)]
  <2>1. PICK f \in [Schemas -> V] : \A r \in Schemas : f[r] = F[r][f] BY <1>6 DEF HasFunction
  <2>2. \A r \in Schemas : f[r] = E(r, f) BY <1>4, <2>1
  <2>3. f = [r \in Schemas |-> E(r, f)] BY <2>2
  <2>4. QED BY <2>3
<1>8. AllowsNull = [r \in Schemas |-> E(r, AllowsNull)] BY <1>7 DEF AllowsNull, E
<1>9. AllowsNull[s] = E(s, AllowsNull) BY <1>8
<1>10. QED BY <1>9 DEF E

\* What a schema accepts, unfolded.
LEMMA AcceptedOf ==
    ASSUME NEW s \in Schemas
    PROVE  AcceptedValues[s] =
              IF Shapeless(s) THEN {}
              ELSE {v \in Permitted(s) :
                      /\ Resolves(s) => v \in AcceptedValues[Definitions[s.ref]]
                      /\ HasAlternatives(s) => \E t \in s.of : v \in AcceptedValues[t]}
<1> DEFINE V == SUBSET Values
           E(r, f) ==
               IF Shapeless(r) THEN {}
               ELSE {v \in Permitted(r) :
                       /\ Resolves(r) => v \in f[Definitions[r.ref]]
                       /\ HasAlternatives(r) => \E t \in r.of : v \in f[t]}
           F == [r \in Schemas |-> [f \in [Schemas -> V] |-> E(r, f)]]
<1>1. ASSUME NEW r \in Schemas, NEW f \in [Schemas -> V] PROVE E(r, f) \in V
  BY DEF Permitted
<1>2. ASSUME NEW r \in Schemas, NEW f \in [Schemas -> V], NEW g \in [Schemas -> V],
             \A t \in Inside(r) : f[t] = g[t]
      PROVE  E(r, f) = E(r, g)
  <2>1. Resolves(r) => f[Definitions[r.ref]] = g[Definitions[r.ref]] BY <1>2, LeadsInside
  <2>2. HasAlternatives(r) => \A t \in r.of : f[t] = g[t] BY <1>2, LeadsInside
  <2>3. QED BY <2>1, <2>2
<1> HIDE DEF E
<1>3. F \in [Schemas -> [[Schemas -> V] -> V]] BY <1>1
<1>4. \A r \in Schemas : \A f \in [Schemas -> V] : F[r][f] = E(r, f) OBVIOUS
<1>5. {} \in V OBVIOUS
<1> HIDE DEF F, V
<1>6. HasFunction(V, F)
  <2>1. ASSUME NEW r \in Schemas, NEW f \in [Schemas -> V], NEW g \in [Schemas -> V],
               \A t \in Inside(r) : f[t] = g[t]
        PROVE  F[r][f] = F[r][g]
    <3>1. E(r, f) = E(r, g) BY <1>2, <2>1
    <3>2. QED BY <1>4, <3>1
  <2>2. FromInside(V, F) BY <1>3, <2>1 DEF FromInside
  <2>3. QED BY <1>5, <2>2, NestedFunction
<1>7. \E f : f = [r \in Schemas |-> E(r, f)]
  <2>1. PICK f \in [Schemas -> V] : \A r \in Schemas : f[r] = F[r][f] BY <1>6 DEF HasFunction
  <2>2. \A r \in Schemas : f[r] = E(r, f) BY <1>4, <2>1
  <2>3. f = [r \in Schemas |-> E(r, f)] BY <2>2
  <2>4. QED BY <2>3
<1>8. AcceptedValues = [r \in Schemas |-> E(r, AcceptedValues)] BY <1>7 DEF AcceptedValues, E
<1>9. AcceptedValues[s] = E(s, AcceptedValues) BY <1>8
<1>10. QED BY <1>9 DEF E

\* The minimum lengths found in a schema keep its arrays from being empty.
NeverEmpty(s) == \A m \in ArrayMinimums[s] : ~(m = NoKeyword \/ m < 1)

\* What the three traversals find in a schema is enough for one shape.
FoundFit(s, shape) ==
    /\ ~AllowsNull[s] /\ SchemaShapes[s] \subseteq {shape}
    /\ shape = "ordered_series" => NeverEmpty(s)

\* A schema without a reference or a choice: its own keywords.
LEMMA OwnKeywordsFit ==
    ASSUME NEW s \in Schemas, Inside(s) = {}, ~Resolves(s), ~HasAlternatives(s), ~Shapeless(s),
           NEW shape \in {"scalar", "ordered_series"}, FoundFit(s, shape)
    PROVE  Permitted(s) \subseteq OfShape(shape)
<1>1. /\ SchemaShapes[s] = OwnShapes(s) /\ ArrayMinimums[s] = OwnMinimums(s)
      /\ ~NullByKeywords(s)
  BY ShapesOf, MinimumsOf, NullOf, Zenon DEF FoundFit
<1>2. "null" \notin s.types /\ ~(s.values # NoKeyword /\ "null" \in s.values)
  BY <1>1 DEF NullByKeywords
<1>3. /\ ~s.unique /\ "object" \notin s.types
      /\ s.types = {} => s.values # NoKeyword /\ s.values \subseteq {"null", "scalar"}
  BY DEF Shapeless
<1>4. s.types \ {"null"} = s.types BY <1>2
<1>5. /\ "scalar" \in OwnShapes(s) <=> s.types \cap ScalarTypes # {} \/ s.types = {}
      /\ "ordered_series" \in OwnShapes(s) <=> "array" \in s.types
  BY <1>3, <1>4 DEF OwnShapes
<1>6. OwnShapes(s) \subseteq {shape} BY <1>1 DEF FoundFit
<1>7. /\ ValueType("null") = {"null"} /\ ValueType("object") = {"object"}
      /\ ValueType("empty") = {"array"} /\ ValueType("filled") = {"array"}
      /\ ValueType("scalar") = ScalarTypes
  BY DEF ValueType
<1>8. ASSUME NEW v \in Permitted(s)
      PROVE  /\ v \in Values
             /\ s.types = {} \/ ValueType(v) \cap s.types # {}
             /\ s.values # NoKeyword => v \in s.values
             /\ v = "empty" => s.minimum = NoKeyword \/ s.minimum = 0
  BY DEF Permitted
<1>9. CASE shape = "scalar"
  <2>1. "array" \notin s.types BY <1>5, <1>6, <1>9
  <2>2. ASSUME NEW v \in Permitted(s), v # "scalar" PROVE FALSE
    <3>1. CASE s.types = {} BY <1>2, <1>3, <1>8, <2>2, <3>1
    <3>2. CASE s.types # {} BY <1>2, <1>3, <1>7, <1>8, <2>1, <2>2, <3>2 DEF Values
    <3>3. QED BY <3>1, <3>2
  <2>3. QED BY <1>9, <2>2 DEF OfShape
<1>10. CASE shape = "ordered_series"
  <2>1. s.types \cap ScalarTypes = {} /\ s.types # {} BY <1>5, <1>6, <1>10
  <2>2. ASSUME NEW v \in Permitted(s), v # "filled" PROVE FALSE
    <3>1. ValueType(v) \cap s.types # {} BY <1>8, <2>1
    <3>2. v = "empty" /\ "array" \in s.types
      BY <1>2, <1>3, <1>7, <1>8, <2>1, <2>2, <3>1 DEF Values
    <3>3. OwnMinimums(s) = {s.minimum} BY <3>2 DEF OwnMinimums
    <3>4. ~(s.minimum = NoKeyword \/ s.minimum < 1)
      BY <1>1, <1>10, <3>3 DEF FoundFit, NeverEmpty
    <3>5. s.minimum = 0 BY <1>8, <3>2, <3>4
    <3>6. QED BY <3>4, <3>5
  <2>3. QED BY <1>10, <2>2 DEF OfShape
<1>11. QED BY <1>9, <1>10

\* A schema whose parts were found to fit a shape accepts only values of it, however deep
\* its references and choices go.
LEMMA ShapeIsSound ==
    ASSUME NEW s \in Schemas, NEW shape \in {"scalar", "ordered_series"}, FoundFit(s, shape)
    PROVE  AcceptedValues[s] \subseteq OfShape(shape)
<1> DEFINE Fits(r) == FoundFit(r, shape) => AcceptedValues[r] \subseteq OfShape(shape)
           T == {r \in Schemas : Fits(r)}
<1>1. ASSUME NEW r \in Schemas, \A t \in Inside(r) : t \in T PROVE r \in T
  <2>1. SUFFICES ASSUME FoundFit(r, shape) PROVE AcceptedValues[r] \subseteq OfShape(shape)
    OBVIOUS
  <2>2. \A t \in Inside(r) : t \in Schemas /\ Fits(t) BY <1>1
  <2>3. \A t \in Inside(r) : ~AllowsNull[t]
    BY <2>1, NullOf, Zenon DEF FoundFit
  <2>4. CASE Shapeless(r)
    <3>1. AcceptedValues[r] = {} BY <2>4, AcceptedOf
    <3>2. QED BY <3>1
  <2>5. CASE ~Shapeless(r) /\ Resolves(r)
    <3> DEFINE d == Definitions[r.ref]
    <3>1. d \in Inside(r) BY <2>5, LeadsInside
    <3>2. SchemaShapes[r] = SchemaShapes[d] /\ ArrayMinimums[r] = ArrayMinimums[d]
      BY <2>5, ShapesOf, MinimumsOf
    <3>3. AcceptedValues[r] \subseteq AcceptedValues[d] BY <2>5, AcceptedOf
    <3> HIDE DEF d
    <3>4. FoundFit(d, shape)
      <4>1. ~AllowsNull[d] BY <2>3, <3>1, Zenon
      <4>2. SchemaShapes[d] \subseteq {shape} /\ (shape = "ordered_series" => NeverEmpty(d))
        BY <2>1, <3>2 DEF FoundFit, NeverEmpty
      <4>3. QED BY <4>1, <4>2, Zenon DEF FoundFit
    <3>5. AcceptedValues[d] \subseteq OfShape(shape) BY <2>2, <3>1, <3>4
    <3>6. QED BY <3>3, <3>5
  <2>6. CASE ~Shapeless(r) /\ ~Resolves(r) /\ HasAlternatives(r)
    <3>1. /\ SchemaShapes[r] = UNION {SchemaShapes[t] : t \in r.of}
          /\ ArrayMinimums[r] = UNION {ArrayMinimums[t] : t \in r.of}
      BY <2>6, ShapesOf, MinimumsOf
    <3>2. ASSUME NEW t \in r.of PROVE AcceptedValues[t] \subseteq OfShape(shape)
      <4>1. t \in Inside(r) BY <2>6, LeadsInside
      <4>2. ~AllowsNull[t] BY <2>3, <4>1, Zenon
      <4>3. SchemaShapes[t] \subseteq {shape} /\ (shape = "ordered_series" => NeverEmpty(t))
        BY <2>1, <3>1 DEF FoundFit, NeverEmpty
      <4>4. FoundFit(t, shape) BY <4>2, <4>3, Zenon DEF FoundFit
      <4>5. QED BY <2>2, <4>1, <4>4
    <3>3. ASSUME NEW v \in AcceptedValues[r] PROVE \E t \in r.of : v \in AcceptedValues[t]
      BY <2>6, AcceptedOf
    <3>4. QED BY <3>2, <3>3
  <2>7. CASE ~Shapeless(r) /\ ~Resolves(r) /\ ~HasAlternatives(r)
    <3>1. Inside(r) = {} BY <2>7 DEF Inside
    <3>2. AcceptedValues[r] \subseteq Permitted(r) BY <2>7, AcceptedOf
    <3>3. QED BY <2>1, <2>7, <3>1, <3>2, OwnKeywordsFit
  <2>8. QED BY <2>4, <2>5, <2>6, <2>7
<1>2. Schemas \subseteq T
  <2> HIDE DEF T
  <2>1. QED BY <1>1, NestedInduction
<1>3. QED BY <1>2

\* What _field_shape_and_cardinality has found when it names a shape.
LEMMA ShapeFound ==
    ASSUME NEW s, FieldShape(s) # BadPort
    PROVE  /\ FieldShape(s).shape \in {"scalar", "ordered_series"}
           /\ FoundFit(s, FieldShape(s).shape)
<1>1. ~AllowsNull[s] BY DEF FieldShape
<1>2. CASE SchemaShapes[s] = {"ordered_series"}
  <2>1. FieldShape(s).shape = "ordered_series" /\ NeverEmpty(s)
    BY <1>1, <1>2 DEF FieldShape, NeverEmpty
  <2>2. QED BY <1>1, <1>2, <2>1 DEF FoundFit
<1>3. CASE SchemaShapes[s] = {"scalar"}
  <2>1. FieldShape(s).shape = "scalar" BY <1>1, <1>3 DEF FieldShape
  <2>2. QED BY <1>1, <1>3, <2>1 DEF FoundFit
<1>4. SchemaShapes[s] \in {{"scalar"}, {"ordered_series"}} BY DEF FieldShape
<1>5. QED BY <1>2, <1>3, <1>4

\* What an extracted port guarantees.
LEMMA ExtractedPort ==
    ASSUME NEW field, NEW direction, Extract(field, direction) # BadPort
    PROVE  /\ Extract(field, direction).kind = "port" /\ Extract(field, direction).port = field.port
           /\ FieldShape(field.schema) # BadPort /\ field.port.shape = FieldShape(field.schema).shape
  BY DEF Extract

\* The fields compared, and the comparison if it is made.
PortsInv ==
    /\ produces \in ProducerFields /\ consumes \in ConsumerFields
    /\ comparison \in {NotCompared, ComparePortFields(produces, consumes)}

\* Of any two ports extracted and compared (extract_port, compare_ports),
\* the verdict in hand is that of their schemas.
THEOREM PortsInvariant == PortsSpec => []PortsInv
<1>1. PortsInit => PortsInv BY DEF PortsInit, PortsInv
<1>2. PortsInv /\ [PortsNext]_portVars => PortsInv'
  BY DEF PortsInv, PortsNext, portVars
<1>3. QED BY <1>1, <1>2, PTL DEF PortsSpec

\* compare_semantic_ports: for schemas of any depth, as long as they come to an end, ports are
\* compatible exactly when the origins fit and the declared meanings agree; then what the
\* producer's field accepts is of the shape that the consumer asks for, except what it accepts
\* by an object, a set or an untyped value in a choice: these have no shape in the code
\* (Shapeless), and nothing is said of them.
THEOREM CompatibleMeansFit == PortsSpec => []CompatiblePortsFit
<1>1. PortsInv => CompatiblePortsFit
  <2>1. SUFFICES ASSUME PortsInv, comparison.kind = "compared" PROVE CompatiblePortsFit
    BY DEF CompatiblePortsFit
  <2> DEFINE p == produces.port
             c == consumes.port
  <2>2. comparison = ComparePortFields(produces, consumes) BY <2>1 DEF PortsInv, NotCompared
  <2>3. Extract(produces, "output") # BadPort /\ Extract(consumes, "input") # BadPort
    BY <2>1, <2>2 DEF ComparePortFields, BadPort
  <2>4. /\ Extract(produces, "output").port = p /\ Extract(consumes, "input").port = c
        /\ FieldShape(produces.schema) # BadPort /\ p.shape = FieldShape(produces.schema).shape
    BY <2>3, ExtractedPort
  <2>5. comparison.differences = Differences(p, c)
    BY <2>2, <2>3, <2>4 DEF ComparePortFields
  <2>6. p.provenance_requirement \in Provenances /\ c.provenance_requirement \in Provenances
    BY <2>1, PortsAssumption DEF PortsInv
  <2> HIDE DEF p, c
  <2>7. comparison.differences = <<>> <=>
            /\ Origins(p.provenance_requirement) \subseteq Origins(c.provenance_requirement)
            /\ \A d \in ToSet(Dimensions) \ {"provenance_requirement"} : p[d] = c[d]
    BY <2>5, <2>6, DifferencesFound, ProvenanceIsInclusion
  <2>8. ASSUME comparison.differences = <<>>
        PROVE  AcceptedValues[produces.schema] \subseteq OfShape(c.shape)
    <3>1. "shape" \in ToSet(Dimensions)
      <4>1. 3 \in DOMAIN Dimensions /\ Dimensions[3] = "shape" BY DEF Dimensions
      <4>2. QED BY <4>1 DEF ToSet
    <3>2. p["shape"] = c["shape"] BY <2>7, <2>8, <3>1
    <3>3. c.shape = FieldShape(produces.schema).shape BY <2>4, <3>2
    <3>4. produces.schema \in Schemas BY <2>1, PortsAssumption DEF PortsInv
    <3>5. QED BY <2>4, <3>3, <3>4, ShapeFound, ShapeIsSound
  <2>9. QED BY <2>7, <2>8 DEF CompatiblePortsFit, p, c
<1>2. QED BY <1>1, PortsInvariant, PTL

-----------------------------------------------------------------------------
(* Datasets: one cell *)

\* The two events a cell of a column may leave: it was absent, or its text was read.
AbsenceEvent(kind) ==
    IF kind = "local_csv" THEN "csv_empty_field_to_null" ELSE "json_missing_field_to_null"
ReadingEvent(type) ==
    CASE type = "boolean" -> "csv_boolean_parsed"
      [] type = "integer" -> "csv_integer_parsed"
      [] type = "number" -> "csv_number_parsed"
      [] OTHER -> "timestamp_to_canonical_utc"

\* What the record's validator asks of an event and its column.
EventFits(event, kind, type) ==
    /\ event \in {AbsenceEvent(kind), ReadingEvent(type)}
    /\ event = "json_missing_field_to_null" => kind # "local_csv"
    /\ event = "csv_empty_field_to_null" => kind = "local_csv" /\ type # "string"
    /\ event = "csv_boolean_parsed" => kind = "local_csv" /\ type = "boolean"
    /\ event = "csv_integer_parsed" => kind = "local_csv" /\ type = "integer"
    /\ event = "csv_number_parsed" => kind = "local_csv" /\ type = "number"
    /\ event = "timestamp_to_canonical_utc" => type = "timestamp"

\* What normalizing one cell to c must make of the source's cell raw.
CellKept(c, raw, kind, type) ==
    /\ c.event = "none" <=> c.cell = raw
    /\ c.event # "none" => EventFits(c.event, kind, type)
    /\ IF c.cell.tag = "null" THEN raw.reads \in {"nothing", "missing"} ELSE StandsFor(c.cell, raw)
    /\ CellValid(c.cell, type) \/ c.cell.reads = "unpadded"

\* A refusal that normalize_dataset expects.
Expected(refusal) ==
    ~refusal.ok /\ refusal.why # "invalid_normalized_dataset" /\ refusal.code # "uncaught"

\* Refusals are refusals, the answers to a cell are not.
LEMMA CellAnswers ==
    /\ \A cell : Kept(cell).ok /\ Kept(cell).cell = cell /\ Kept(cell).event = "none"
    /\ \A cell, event : /\ Changed(cell, event).ok /\ Changed(cell, event).cell = cell
                        /\ Changed(cell, event).event = event
    /\ \A why : ~Limit(why).ok /\ Limit(why).why = why /\ Limit(why).code = "input_limit_exceeded"
    /\ \A why : ~Invalid(why).ok /\ Invalid(why).why = why /\ Invalid(why).code = "invalid_dataset"
  BY DEF Kept, Changed, Limit, Invalid, Refusal

\* A null is valid in every column.
LEMMA NullValid == \A cell, type : cell.tag = "null" => CellValid(cell, type)
  BY DEF CellValid

\* Text that is short enough is valid in a column of strings, and in a column of
\* timestamps if it is in UTC.
LEMMA TextValid ==
    ASSUME NEW cell, cell.tag = "string", cell.size <= MaxCell
    PROVE  CellValid(cell, "string") /\ (cell.reads = "utc" => CellValid(cell, "timestamp"))
  BY DEF CellValid

\* A timestamp keeps its instant, and loses its offset.
LEMMA TimestampKept ==
    ASSUME NEW text \in CellValues, text.tag = "string", text.size <= MaxCell, NEW kind
    PROVE  LET c == CanonicalTimestamp(text)
           IN  IF c.ok THEN CellKept(c, text, kind, "timestamp") ELSE Expected(c)
<1> DEFINE c == CanonicalTimestamp(text)
<1>1. CASE text.reads \notin {"utc", "offset", "early"}
  BY <1>1, CellAnswers DEF CanonicalTimestamp, Expected
<1>2. CASE text.reads = "utc"
  <2>1. c = Kept(text) BY <1>2 DEF CanonicalTimestamp
  <2>2. CellKept(Kept(text), text, kind, "timestamp")
    BY <1>2, CellAnswers, TextValid DEF CellKept, StandsFor
  <2>3. QED BY <2>1, <2>2, CellAnswers
<1>3. CASE text.reads \in {"offset", "early"}
  <2> DEFINE new == [text EXCEPT !.reads = IF text.reads = "early" THEN "unpadded" ELSE "utc"]
  <2>1. c = Changed(new, "timestamp_to_canonical_utc") BY <1>3 DEF CanonicalTimestamp
  <2>2. /\ new.tag = "string" /\ new.size = text.size /\ new.value = text.value
        /\ new.reads = IF text.reads = "early" THEN "unpadded" ELSE "utc"
    BY DEF CellValues
  <2> HIDE DEF new
  <2>3. new # text /\ new.reads \in {"unpadded", "utc"} BY <1>3, <2>2
  <2>4. EventFits("timestamp_to_canonical_utc", kind, "timestamp") BY DEF EventFits, ReadingEvent
  <2>5. CellKept(Changed(new, "timestamp_to_canonical_utc"), text, kind, "timestamp")
    BY <2>2, <2>3, <2>4, CellAnswers, TextValid DEF CellKept, StandsFor
  <2>6. QED BY <2>1, <2>5, CellAnswers
<1>4. QED BY <1>1, <1>2, <1>3

\* float() of a number has one it rounds to: of the distances of the doubles, one is least.
LEMMA FloatIsNearest ==
    ASSUME NEW n \in Int
    PROVE  Nearest(Float(n), n)
<1> DEFINE T == {Gap(d, n) : d \in Doubles}
<1>1. Doubles \subseteq Int /\ Doubles # {} BY DatasetsAssumption
<1>2. T \in SUBSET Nat /\ T # {}
  <2>1. ASSUME NEW d \in Doubles PROVE Gap(d, n) \in Nat
    <3>1. d \in Int BY <1>1
    <3>2. QED BY <3>1 DEF Gap
  <2>2. QED BY <1>1, <2>1
<1>3. \E k \in T : \A l \in T : k <= l
  <2> HIDE DEF T
  <2>1. QED BY <1>2, LeastNumber
<1>4. \E d \in Doubles : Nearest(d, n) BY <1>3 DEF Nearest
<1>5. QED BY <1>4 DEF Float

\* A CSV cell stands for what its text says, or is refused.
LEMMA CsvCellKept ==
    ASSUME NEW text \in CsvTexts, NEW type \in ColumnTypes
    PROVE  LET c == CsvCell(text, type)
           IN  IF c.ok THEN CellKept(c, text, "local_csv", type) ELSE Expected(c)
<1> DEFINE c == CsvCell(text, type)
<1>0. /\ text \in CellValues /\ text.tag = "string" /\ text.size \in Nat /\ text.value \in Int
      /\ MaxCell \in Nat /\ MaxNumber \in Nat
  BY DatasetsAssumption DEF CsvTexts, CellValues
<1>1. CASE text.size > MaxCell
  BY <1>1, CellAnswers DEF CsvCell, Expected
<1>2. CASE text.size <= MaxCell /\ type = "string"
  <2>1. c = Kept(text) BY <1>0, <1>2 DEF CsvCell
  <2>2. CellKept(Kept(text), text, "local_csv", type)
    BY <1>0, <1>2, CellAnswers, TextValid DEF CellKept, StandsFor
  <2>3. QED BY <2>1, <2>2, CellAnswers
<1>3. CASE text.size <= MaxCell /\ type # "string" /\ text.reads = "nothing"
  <2>1. c = Changed(NullCell, "csv_empty_field_to_null") BY <1>0, <1>3 DEF CsvCell
  <2>2. NullCell.tag = "null" /\ NullCell # text BY <1>0 DEF NullCell
  <2>3. EventFits("csv_empty_field_to_null", "local_csv", type)
    BY <1>3 DEF EventFits, AbsenceEvent
  <2>4. CellKept(Changed(NullCell, "csv_empty_field_to_null"), text, "local_csv", type)
    BY <1>3, <2>2, <2>3, CellAnswers, NullValid DEF CellKept, StandsFor
  <2>5. QED BY <2>1, <2>4, CellAnswers
<1>4. CASE text.size <= MaxCell /\ type \in {"boolean", "integer", "number"} /\ text.reads # "nothing"
  <2> DEFINE Parsed(tag, value) == [NullCell EXCEPT !.tag = tag, !.value = value]
             event == ReadingEvent(type)
             Read(tag, value) ==
                 /\ c = Changed(Parsed(tag, value), event)
                 /\ type = "boolean" => tag = "boolean"
                 /\ type = "integer" => tag = "integer" /\ InRange(value)
                 /\ type = "number" => tag \in {"integer", "float"} /\ InRange(value)
  <2>1. \A tag, value : Parsed(tag, value).tag = tag /\ Parsed(tag, value).value = value
    BY DEF NullCell
  <2>2. EventFits(event, "local_csv", type) /\ event # "none" BY <1>4 DEF EventFits, ReadingEvent
  <2>3. \/ Expected(c)
        \/ \E tag \in {"boolean", "integer"} : Read(tag, text.value)
        \/ Read("float", Float(text.value))
    <3>1. CASE type = "boolean" BY <1>0, <1>4, <3>1, CellAnswers DEF CsvCell, Expected, ReadingEvent
    <3>2. CASE type = "integer" BY <1>0, <1>4, <3>2, CellAnswers DEF CsvCell, Expected, ReadingEvent
    <3>3. CASE type = "number"
      <4> DEFINE number == IF text.reads = "integer" THEN Parsed("integer", text.value)
                           ELSE Parsed("float", Float(text.value))
      <4>1. c = IF text.reads \in {"integer", "fraction"} /\ Canonical(number)
                THEN Changed(number, "csv_number_parsed") ELSE Invalid("invalid_number_cell")
        BY <1>0, <1>4, <3>3 DEF CsvCell
      <4>2. CASE ~(text.reads \in {"integer", "fraction"} /\ Canonical(number))
        BY <4>1, <4>2, CellAnswers DEF Expected
      <4>3. CASE text.reads = "integer" /\ Canonical(number)
        BY <2>1, <3>3, <4>1, <4>3 DEF Canonical, ReadingEvent
      <4>4. CASE text.reads = "fraction" /\ Canonical(number)
        BY <2>1, <3>3, <4>1, <4>4 DEF Canonical, ReadingEvent
      <4>5. QED BY <4>2, <4>3, <4>4
    <3>4. QED BY <1>4, <3>1, <3>2, <3>3
  <2>4. Nearest(Float(text.value), text.value) BY <1>0, FloatIsNearest
  <2> HIDE DEF Parsed, event
  <2>5. ASSUME NEW tag, NEW value, Read(tag, value),
               IF tag = "float" THEN Nearest(value, text.value)
               ELSE tag \in {"boolean", "integer"} /\ value = text.value
        PROVE  c.ok /\ CellKept(c, text, "local_csv", type)
    <3>1. c.ok /\ c.cell = Parsed(tag, value) /\ c.event = event BY <2>5, CellAnswers
    <3>2. Parsed(tag, value) # text BY <1>0, <2>1, <2>5
    <3>3. CellValid(Parsed(tag, value), type)
      <4> DEFINE cell == Parsed(tag, value)
      <4>1. cell.tag = tag /\ cell.value = value /\ tag # "string" BY <2>1, <2>5
      <4>2. /\ type = "boolean" => cell.tag = "boolean"
            /\ type = "integer" => cell.tag = "integer" /\ InRange(cell.value)
            /\ type = "number" => cell.tag \in {"integer", "float"} /\ InRange(cell.value)
        BY <2>5, <4>1
      <4> HIDE DEF cell
      <4>3. CellValid(cell, type) BY <1>4, <4>1, <4>2 DEF CellValid
      <4>4. QED BY <4>3 DEF cell
    <3>4. StandsFor(Parsed(tag, value), text) BY <1>0, <2>1, <2>5 DEF StandsFor
    <3>5. Parsed(tag, value).tag # "null" BY <2>1, <2>5
    <3>6. QED BY <2>2, <3>1, <3>2, <3>3, <3>4, <3>5 DEF CellKept
  <2> HIDE DEF Read, c
  <2>6. CASE Expected(c) BY <2>6 DEF Expected, c
  <2>7. ASSUME NEW tag \in {"boolean", "integer"}, Read(tag, text.value)
        PROVE  c.ok /\ CellKept(c, text, "local_csv", type)
    BY <2>5, <2>7
  <2>8. CASE Read("float", Float(text.value))
    <3>1. c.ok /\ CellKept(c, text, "local_csv", type) BY <2>4, <2>5, <2>8
    <3>2. QED BY <3>1 DEF c
  <2>9. QED BY <2>3, <2>6, <2>7, <2>8 DEF c
<1>5. CASE text.size <= MaxCell /\ type = "timestamp" /\ text.reads # "nothing"
  <2>1. c = CanonicalTimestamp(text) BY <1>0, <1>5 DEF CsvCell
  <2>2. QED BY <1>0, <1>5, <2>1, TimestampKept
<1>6. QED BY <1>0, <1>1, <1>2, <1>3, <1>4, <1>5 DEF ColumnTypes

\* So does a JSON cell.
LEMMA JsonCellKept ==
    ASSUME NEW cell \in JsonValues, NEW type \in ColumnTypes, NEW kind
    PROVE  LET c == JsonCell(cell, type)
           IN  IF c.ok THEN CellKept(c, cell, kind, type) ELSE Expected(c)
<1> DEFINE c == JsonCell(cell, type)
<1>0. /\ cell \in CellValues /\ cell.size \in Nat /\ cell.value \in Int
      /\ MaxCell \in Nat /\ MaxNumber \in Nat
      /\ cell.tag = "null" => cell.reads = "nothing"
  BY DatasetsAssumption DEF JsonValues, CellValues, NullCell
<1>1. CASE cell.tag = "null"
  <2>1. c = Kept(cell) BY <1>1 DEF JsonCell
  <2>2. CellKept(Kept(cell), cell, kind, type) BY <1>0, <1>1, CellAnswers, NullValid DEF CellKept, StandsFor
  <2>3. QED BY <2>1, <2>2, CellAnswers
<1>2. CASE cell.tag # "null" /\ type \in {"boolean", "integer", "number"}
  <2>1. Expected(c) \/ /\ c = Kept(cell)
                       /\ type = "boolean" => cell.tag = "boolean"
                       /\ type = "integer" => cell.tag = "integer" /\ Canonical(cell)
                       /\ type = "number" => cell.tag \in {"integer", "float"} /\ Canonical(cell)
    <3>1. CASE type = "boolean" BY <1>2, <3>1, CellAnswers DEF JsonCell, Expected
    <3>2. CASE type = "integer" BY <1>2, <3>2, CellAnswers DEF JsonCell, Expected
    <3>3. CASE type = "number" BY <1>2, <3>3, CellAnswers DEF JsonCell, Expected
    <3>4. QED BY <1>2, <3>1, <3>2, <3>3
  <2>2. ASSUME c = Kept(cell),
               type = "boolean" => cell.tag = "boolean",
               type = "integer" => cell.tag = "integer" /\ Canonical(cell),
               type = "number" => cell.tag \in {"integer", "float"} /\ Canonical(cell)
        PROVE  c.ok /\ CellKept(c, cell, kind, type)
    <3>1. CellValid(cell, type) BY <1>2, <2>2 DEF CellValid, Canonical
    <3>2. CellKept(Kept(cell), cell, kind, type) BY <1>2, <3>1, CellAnswers DEF CellKept, StandsFor
    <3>3. QED BY <2>2, <3>2, CellAnswers
  <2> HIDE DEF c
  <2>3. QED BY <2>1, <2>2 DEF Expected, c
<1>3. CASE cell.tag # "null" /\ type = "string"
  <2>1. CASE cell.tag = "string" /\ cell.size <= MaxCell
    <3>1. c = Kept(cell) BY <1>0, <1>3, <2>1 DEF JsonCell
    <3>2. CellKept(Kept(cell), cell, kind, type) BY <1>3, <2>1, CellAnswers, TextValid DEF CellKept, StandsFor
    <3>3. QED BY <3>1, <3>2, CellAnswers
  <2>2. CASE ~(cell.tag = "string" /\ cell.size <= MaxCell)
    <3>1. Expected(c) BY <1>0, <1>3, <2>2, CellAnswers DEF JsonCell, Expected
    <3>2. QED BY <3>1 DEF Expected
  <2>3. QED BY <2>1, <2>2
<1>4. CASE cell.tag # "null" /\ type = "timestamp"
  <2>1. CASE cell.tag = "string" /\ cell.size <= MaxCell
    <3>1. c = CanonicalTimestamp(cell) BY <1>0, <1>4, <2>1 DEF JsonCell
    <3>2. QED BY <1>0, <1>4, <2>1, <3>1, TimestampKept
  <2>2. CASE ~(cell.tag = "string" /\ cell.size <= MaxCell)
    <3>1. Expected(c) BY <1>0, <1>4, <2>2, CellAnswers DEF JsonCell, Expected
    <3>2. QED BY <3>1 DEF Expected
  <2>3. QED BY <2>1, <2>2
<1>5. QED BY <1>1, <1>2, <1>3, <1>4 DEF ColumnTypes

-----------------------------------------------------------------------------
(* Datasets: the ledger of one column *)

EventSum(f, S) == MapThenSumSet(LAMBDA e : f[e], S)

AddsUp(g, f, S) ==
    g = [T \in SUBSET S |-> IF T = {} THEN 0
                            ELSE f[CHOOSE e \in T : TRUE] + g[T \ {CHOOSE e \in T : TRUE}]]

\* EventSum is what that function, if there is one, has for the whole set.
LEMMA EventSumIs == \A f, S : EventSum(f, S) = (CHOOSE g : AddsUp(g, f, S))[S]
  BY DEF EventSum, MapThenSumSet, MapThenFoldSet, AddsUp

\* The sum over at most two events.
LEMMA SumOfTwo ==
    ASSUME NEW a, NEW b, a # b, NEW S \in SUBSET {a, b}, NEW f, \A e \in S : f[e] \in Nat
    PROVE  EventSum(f, S) = (IF a \in S THEN f[a] ELSE 0) + (IF b \in S THEN f[b] ELSE 0)
<1> DEFINE Of(T, e) == IF e \in T THEN f[e] ELSE 0
           g == [T \in SUBSET S |-> Of(T, a) + Of(T, b)]
<1>1. AddsUp(g, f, S)
  <2>1. ASSUME NEW T \in SUBSET S, T # {}
        PROVE  Of(T, a) + Of(T, b) = f[CHOOSE e \in T : TRUE] + g[T \ {CHOOSE e \in T : TRUE}]
    <3> DEFINE c == CHOOSE e \in T : TRUE
    <3>1. c \in T BY <2>1
    <3> HIDE DEF c
    <3>2. T \ {c} \in SUBSET S OBVIOUS
    <3>3. g[T \ {c}] = Of(T \ {c}, a) + Of(T \ {c}, b) BY <3>2
    <3>4. Of(T, a) \in Nat /\ Of(T, b) \in Nat OBVIOUS
    <3>5. CASE c = a
      <4>1. Of(T \ {c}, a) = 0 /\ Of(T \ {c}, b) = Of(T, b) /\ f[c] = Of(T, a) BY <3>1, <3>5
      <4> HIDE DEF Of, g
      <4>2. QED BY <3>3, <3>4, <4>1 DEF c
    <3>6. CASE c = b
      <4>1. Of(T \ {c}, b) = 0 /\ Of(T \ {c}, a) = Of(T, a) /\ f[c] = Of(T, b) BY <3>1, <3>6
      <4> HIDE DEF Of, g
      <4>2. QED BY <3>3, <3>4, <4>1 DEF c
    <3>7. QED BY <3>1, <3>5, <3>6
  <2>2. \A T \in SUBSET S : T = {} => Of(T, a) + Of(T, b) = 0 OBVIOUS
  <2>3. QED BY <2>1, <2>2 DEF AddsUp
<1>2. PICK h : h = CHOOSE i : AddsUp(i, f, S) OBVIOUS
<1>3. AddsUp(h, f, S) /\ EventSum(f, S) = h[S] BY <1>1, <1>2, EventSumIs
<1> HIDE DEF g
<1>4. /\ h[{}] = 0
      /\ \A T \in SUBSET S : T # {} => \E c \in T : h[T] = f[c] + h[T \ {c}]
  BY <1>3 DEF AddsUp
<1>5. \A c \in S : h[{c}] = f[c]
  <2>1. ASSUME NEW c \in S PROVE h[{c}] = f[c]
    <3>1. PICK d \in {c} : h[{c}] = f[d] + h[{c} \ {d}] BY <1>4
    <3>2. d = c /\ {c} \ {d} = {} /\ f[c] \in Nat OBVIOUS
    <3>3. QED BY <1>4, <3>1, <3>2
  <2>2. QED BY <2>1
<1>6. CASE S = {} BY <1>3, <1>4, <1>6
<1>7. CASE S = {a} BY <1>3, <1>5, <1>7
<1>8. CASE S = {b} BY <1>3, <1>5, <1>8
<1>9. CASE S = {a, b}
  <2>1. PICK c \in S : h[S] = f[c] + h[S \ {c}] BY <1>4, <1>9
  <2>2. f[a] \in Nat /\ f[b] \in Nat BY <1>9
  <2>3. CASE c = a
    <3>1. S \ {c} = {b} BY <1>9, <2>3
    <3>2. h[S \ {c}] = f[b] BY <1>5, <1>9, <3>1
    <3>3. QED BY <1>3, <1>9, <2>1, <2>2, <2>3, <3>2
  <2>4. CASE c = b
    <3>1. S \ {c} = {a} BY <1>9, <2>4
    <3>2. h[S \ {c}] = f[a] BY <1>5, <1>9, <3>1
    <3>3. QED BY <1>3, <1>9, <2>1, <2>2, <2>4, <3>2
  <2>5. QED BY <1>9, <2>1, <2>3, <2>4
<1>10. S = {} \/ S = {a} \/ S = {b} \/ S = {a, b}
  OBVIOUS
<1>11. QED BY <1>6, <1>7, <1>8, <1>9, <1>10

-----------------------------------------------------------------------------
(* Datasets: the rows *)

\* The source's cell for row i and column j, found by the name of the column.
RawCell(kind, content, columns, i, j) ==
    LET name == columns[j].name
    IN  IF kind = "local_csv"
        THEN content.rows[i][CHOOSE k \in DOMAIN content.header : content.header[k] = name]
        ELSE IF name \in DOMAIN content.rows[i].fields THEN content.rows[i].fields[name]
        ELSE [NullCell EXCEPT !.reads = "missing"]

\* Columns as a valid request declares them.
ColumnsFit(columns) ==
    /\ columns \in Seq(ToSet(columns)) /\ Len(columns) \in 1..MaxColumns
    /\ \A j \in DOMAIN columns : columns[j].type \in ColumnTypes
    /\ \A j, k \in DOMAIN columns : columns[j].id = columns[k].id => j = k

\* A cell of an admitted row is kept or refused.
LEMMA CellOfKept ==
    ASSUME NEW kind, NEW content, ContentOf(kind, content), NEW columns, ColumnsFit(columns),
           HeaderFits(kind, content, columns),
           NEW i \in DOMAIN content.rows, RowRefusal(kind, content, columns, i).ok,
           NEW j \in DOMAIN columns
    PROVE  LET c == CellOf(kind, content, columns, i, j)
           IN  IF c.ok THEN CellKept(c, RawCell(kind, content, columns, i, j), kind, columns[j].type)
               ELSE Expected(c)
<1> DEFINE row == content.rows[i]
           name == columns[j].name
           type == columns[j].type
<1>0. type \in ColumnTypes BY DEF ColumnsFit
<1>1. row \in ToSet(content.rows) BY DEF ToSet, ContentOf
<1>2. CASE kind = "local_csv"
  <2> DEFINE at == CHOOSE k \in DOMAIN content.header : content.header[k] = name
  <2>1. Len(row) = Len(content.header) BY <1>2, CellAnswers DEF RowRefusal
  <2>2. row \in Seq(CsvTexts) /\ content.header \in Seq(ToSet(content.header))
    BY <1>1, <1>2 DEF ContentOf
  <2>3. name \in ToSet(content.header) BY <1>2 DEF HeaderFits, Names
  <2>4. \E k \in DOMAIN content.header : content.header[k] = name BY <2>3 DEF ToSet
  <2>5. at \in DOMAIN content.header BY <2>4
  <2> HIDE DEF at
  <2>6. row[at] \in CsvTexts BY <2>1, <2>2, <2>5
  <2>7. /\ CellOf(kind, content, columns, i, j) = CsvCell(row[at], type)
        /\ RawCell(kind, content, columns, i, j) = row[at]
    BY <1>2 DEF CellOf, CsvCellOf, RawCell, at
  <2>8. QED BY <1>0, <1>2, <2>6, <2>7, CsvCellKept
<1>3. CASE kind # "local_csv" /\ name \in DOMAIN row.fields
  <2>1. row.object BY <1>3, CellAnswers DEF RowRefusal
  <2>2. row.fields[name] \in JsonValues BY <1>1, <1>3, <2>1 DEF ContentOf
  <2>3. /\ CellOf(kind, content, columns, i, j) = JsonCell(row.fields[name], type)
        /\ RawCell(kind, content, columns, i, j) = row.fields[name]
    BY <1>3 DEF CellOf, JsonCellOf, RawCell
  <2>4. QED BY <1>0, <2>2, <2>3, JsonCellKept
<1>4. CASE kind # "local_csv" /\ name \notin DOMAIN row.fields
  <2> DEFINE missing == [NullCell EXCEPT !.reads = "missing"]
             event == "json_missing_field_to_null"
  <2>1. /\ CellOf(kind, content, columns, i, j) = Changed(NullCell, event)
        /\ RawCell(kind, content, columns, i, j) = missing
    BY <1>4 DEF CellOf, JsonCellOf, RawCell
  <2>2. NullCell.tag = "null" /\ missing.reads = "missing" /\ NullCell # missing BY DEF NullCell
  <2>3. EventFits(event, kind, type) BY <1>4 DEF EventFits, AbsenceEvent
  <2> HIDE DEF missing
  <2>4. CellKept(Changed(NullCell, event), missing, kind, type)
    BY <2>2, <2>3, CellAnswers, NullValid DEF CellKept
  <2>5. QED BY <2>1, <2>4, CellAnswers
<1>5. QED BY <1>2, <1>3, <1>4

\* Rows that are normalized: every row is admitted and every cell kept.
AllAdmitted(kind, content, columns) ==
    /\ HeaderFits(kind, content, columns)
    /\ Len(content.rows) \in 1..MaxRows
    /\ \A i \in DOMAIN content.rows :
          /\ RowRefusal(kind, content, columns, i).ok
          /\ \A j \in DOMAIN columns : CellOf(kind, content, columns, i, j).ok

\* Every row is admitted, or the rows are refused as expected.
LEMMA RowsNormalized ==
    ASSUME NEW kind, NEW content, ContentOf(kind, content), NEW columns, ColumnsFit(columns)
    PROVE  LET t == NormalizedRows(kind, content, columns)
           IN  IF t.ok THEN /\ AllAdmitted(kind, content, columns)
                            /\ t = NormalizedTable(kind, content, columns)
               ELSE Expected(t)
<1> DEFINE t == NormalizedRows(kind, content, columns)
           Admit(i) == RowRefusal(kind, content, columns, i)
           Bad(i) == BadCells(kind, content, columns, i)
           refused == RefusedRows(kind, content, columns)
           first == Min(refused)
           worst == CellOf(kind, content, columns, first, Min(Bad(first)))
<1>0. /\ content.rows \in Seq(ToSet(content.rows)) /\ Len(content.rows) \in Nat
      /\ DOMAIN content.rows = 1..Len(content.rows)
      /\ Len(columns) \in Nat /\ DOMAIN columns = 1..Len(columns) /\ MaxRows \in Nat
  BY DatasetsAssumption DEF ContentOf, ColumnsFit
<1>1. t = IF ~HeaderFits(kind, content, columns) THEN Invalid("invalid_csv_header")
          ELSE IF content.form = "scalar" THEN Invalid("invalid_json_source")
          ELSE IF refused # {} THEN IF ~Admit(first).ok THEN Admit(first) ELSE worst
          ELSE IF content.rows = <<>> THEN Invalid("empty_dataset")
          ELSE IF Len(content.rows) > MaxRows THEN Limit("dataset_rows")
          ELSE NormalizedTable(kind, content, columns)
  BY DEF NormalizedRows
<1>2. \A why : Expected(Invalid(why)) \/ why = "invalid_normalized_dataset"
  BY CellAnswers DEF Expected
<1>3. Expected(Limit("dataset_rows")) BY CellAnswers DEF Expected
<1>4. ASSUME HeaderFits(kind, content, columns), refused # {}
      PROVE  IF ~Admit(first).ok THEN Expected(Admit(first)) ELSE Expected(worst)
  <2>1. first \in refused
    <3>1. refused \in SUBSET Nat BY <1>0 DEF RefusedRows
    <3> HIDE DEF refused
    <3>2. \E n \in refused : \A m \in refused : n <= m BY <1>4, <3>1, LeastNumber
    <3>3. QED BY <3>2 DEF Min
  <2>2. first \in DOMAIN content.rows /\ (~Admit(first).ok \/ Bad(first) # {})
    BY <2>1 DEF RefusedRows
  <2> HIDE DEF first
  <2>3. CASE ~Admit(first).ok BY <2>3, CellAnswers DEF RowRefusal, Fine, Expected
  <2>4. CASE Admit(first).ok
    <3> DEFINE at == Min(Bad(first))
    <3>1. at \in Bad(first)
      <4>1. Bad(first) \in SUBSET Nat BY <1>0 DEF BadCells
      <4> HIDE DEF Bad
      <4>2. \E n \in Bad(first) : \A m \in Bad(first) : n <= m BY <2>2, <2>4, <4>1, LeastNumber
      <4>3. QED BY <4>2 DEF Min
    <3>2. at \in DOMAIN columns /\ ~worst.ok BY <3>1 DEF BadCells, worst
    <3> HIDE DEF at
    <3>3. Expected(CellOf(kind, content, columns, first, at))
      BY <1>4, <2>2, <2>4, <3>2, CellOfKept DEF worst, at
    <3>4. QED BY <2>4, <3>3 DEF worst, at
  <2>5. QED BY <2>3, <2>4
<1>5. ASSUME HeaderFits(kind, content, columns), refused = {}, content.rows # <<>>,
             ~(Len(content.rows) > MaxRows)
      PROVE  AllAdmitted(kind, content, columns)
  BY <1>0, <1>5 DEF AllAdmitted, RefusedRows, BadCells
<1>6. NormalizedTable(kind, content, columns).ok BY DEF NormalizedTable
<1> HIDE DEF Admit, refused, first, worst, t
<1>7. Expected(t) \/ (AllAdmitted(kind, content, columns) /\ t = NormalizedTable(kind, content, columns))
  BY <1>1, <1>2, <1>3, <1>4, <1>5
<1>8. QED BY <1>6, <1>7 DEF Expected, t

\* A list has as many places as its length.
LEMMA ListSize ==
    ASSUME NEW n \in Nat
    PROVE  IsFiniteSet(1..n) /\ Cardinality(1..n) = n
<1>1. \A a, b \in Int : /\ IsFiniteSet(a..b)
                         /\ Cardinality(a..b) = IF a > b THEN 0 ELSE b - a + 1
  BY FS_Interval, Zenon
<1>2. PICK m \in Int, one \in Int : m = n /\ one = 1 OBVIOUS
<1>3. IsFiniteSet(one..m) /\ Cardinality(one..m) = IF one > m THEN 0 ELSE m - one + 1
  BY <1>1, Zenon
<1>4. QED BY <1>2, <1>3

\* Columns that are distinct by a key have it distinct from one another.
LEMMA DistinctColumns ==
    ASSUME NEW columns, columns \in Seq(ToSet(columns)), Distinct(columns, LAMBDA column : column.id)
    PROVE  \A j, k \in DOMAIN columns : columns[j].id = columns[k].id => j = k
<1> DEFINE ids == {columns[j].id : j \in DOMAIN columns}
           id == [j \in DOMAIN columns |-> columns[j].id]
<1>1. Cardinality(ids) = Len(columns) BY DEF Distinct
<1>2. DOMAIN columns = 1..Len(columns) /\ Len(columns) \in Nat OBVIOUS
<1>3. IsFiniteSet(DOMAIN columns) /\ Cardinality(DOMAIN columns) = Len(columns)
  BY <1>2, ListSize
<1>4. id \in Surjection(DOMAIN columns, ids) BY DEF Surjection
<1>5. id \in Injection(DOMAIN columns, ids)
  BY <1>1, <1>3, <1>4, FS_SurjSameCardinalityImpliesInj
<1>6. QED BY <1>5 DEF Injection, IsInjective

\* A valid request declares fitting columns.
LEMMA RequestFits ==
    ASSUME NEW r \in DatasetRequests, RequestValid(r)
    PROVE  ColumnsFit(r.columns)
<1>1. r.columns \in Seq(ToSet(r.columns)) BY DatasetsAssumption
<1>2. \A j \in DOMAIN r.columns : r.columns[j].type \in ColumnTypes
  BY DEF RequestValid, ColumnValid
<1>3. Len(r.columns) \in 1..MaxColumns BY DEF RequestValid
<1>4. Distinct(r.columns, LAMBDA column : column.id) BY DEF RequestValid
<1>5. \A j, k \in DOMAIN r.columns : r.columns[j].id = r.columns[k].id => j = k
  BY <1>1, <1>4, DistinctColumns
<1>6. QED BY <1>1, <1>2, <1>3, <1>5 DEF ColumnsFit

\* The rows that an event befell in column j.
Befell(cells, event, j) == {i \in DOMAIN cells : cells[i][j].event = event}

\* The ledger has an entry for every event of every column, and counts its rows.
LEMMA LedgerCounts ==
    ASSUME NEW columns, ColumnsFit(columns), NEW cells
    PROVE  LET events == Ledger(cells, columns)
           IN  /\ \A e \in DOMAIN events : \E j \in DOMAIN columns :
                     e = <<e[1], columns[j].id>> /\ e[1] # "none" /\ Befell(cells, e[1], j) # {}
               /\ \A j \in DOMAIN columns : \A event :
                     event # "none" /\ Befell(cells, event, j) # {}
                        => <<event, columns[j].id>> \in DOMAIN events
               /\ \A j \in DOMAIN columns : \A event :
                     <<event, columns[j].id>> \in DOMAIN events
                        => /\ events[<<event, columns[j].id>>] = Cardinality(Befell(cells, event, j))
                           /\ Befell(cells, event, j) # {}
<1> DEFINE marks == {c \in {<<cells[i][j].event, j>> : i \in DOMAIN cells, j \in DOMAIN columns} :
                          c[1] # "none"}
           Entry(c) == <<c[1], columns[c[2]].id>>
           Of(e) == CHOOSE d \in marks : d[1] = e[1] /\ columns[d[2]].id = e[2]
           events == [e \in {Entry(c) : c \in marks} |->
                        Cardinality({i \in DOMAIN cells : cells[i][Of(e)[2]].event = Of(e)[1]})]
<1>1. Ledger(cells, columns) = events BY DEF Ledger
<1>2. \A j \in DOMAIN columns : \A event :
         <<event, j>> \in marks <=> event # "none" /\ Befell(cells, event, j) # {}
  BY DEF Befell
<1>3. \A c \in marks : c = <<c[1], c[2]>> /\ c[2] \in DOMAIN columns OBVIOUS
<1>4. \A j, k \in DOMAIN columns : columns[j].id = columns[k].id => j = k BY DEF ColumnsFit
<1> HIDE DEF marks
<1>5. DOMAIN events = {Entry(c) : c \in marks} OBVIOUS
<1>6. ASSUME NEW e \in DOMAIN events
      PROVE  \E j \in DOMAIN columns :
                e = <<e[1], columns[j].id>> /\ e[1] # "none" /\ Befell(cells, e[1], j) # {}
  <2>1. PICK c \in marks : e = <<c[1], columns[c[2]].id>> BY <1>5
  <2>2. e[1] = c[1] BY <2>1
  <2>3. QED BY <1>2, <1>3, <2>1, <2>2
<1>7. ASSUME NEW j \in DOMAIN columns, NEW event, event # "none", Befell(cells, event, j) # {}
      PROVE  <<event, columns[j].id>> \in DOMAIN events
  <2>1. <<event, j>> \in marks BY <1>2, <1>7
  <2>2. QED BY <1>5, <2>1
<1>8. ASSUME NEW j \in DOMAIN columns, NEW event, <<event, columns[j].id>> \in DOMAIN events
      PROVE  /\ events[<<event, columns[j].id>>] = Cardinality(Befell(cells, event, j))
             /\ Befell(cells, event, j) # {}
  <2> DEFINE e == <<event, columns[j].id>>
             d == Of(e)
  <2>1. PICK c \in marks : e = <<c[1], columns[c[2]].id>> BY <1>5, <1>8
  <2>2. d \in marks /\ d[1] = event /\ columns[d[2]].id = columns[j].id BY <2>1
  <2>3. d[2] = j BY <1>3, <1>4, <2>2
  <2>4. events[e] = Cardinality({i \in DOMAIN cells : cells[i][d[2]].event = d[1]}) BY <1>8
  <2> HIDE DEF d, events
  <2>5. d = <<event, j>> BY <1>3, <2>2, <2>3
  <2>6. QED BY <1>2, <2>2, <2>3, <2>4, <2>5 DEF Befell
<1> HIDE DEF events
<1>9. QED BY <1>1, <1>6, <1>7, <1>8

\* The answers to the cells of a source, row by row.
Cells(kind, content, columns) ==
    [i \in DOMAIN content.rows |-> [j \in DOMAIN columns |-> CellOf(kind, content, columns, i, j)]]

\* A normalized table has the source's rows, a cell of each for each column, and its ledger.
LEMMA TableShape ==
    ASSUME NEW kind, NEW content, ContentOf(kind, content), NEW columns, ColumnsFit(columns)
    PROVE  LET t == NormalizedTable(kind, content, columns)
               cells == Cells(kind, content, columns)
           IN  /\ t.ok /\ t.events = Ledger(cells, columns)
               /\ DOMAIN t.rows = DOMAIN content.rows /\ Len(t.rows) = Len(content.rows)
               /\ DOMAIN cells = DOMAIN content.rows
               /\ \A i \in DOMAIN t.rows :
                     /\ Len(t.rows[i]) = Len(columns)
                     /\ \A j \in DOMAIN columns : /\ cells[i][j] = CellOf(kind, content, columns, i, j)
                                                  /\ t.rows[i][j] = cells[i][j].cell
<1>0. /\ content.rows \in Seq(ToSet(content.rows)) /\ columns \in Seq(ToSet(columns))
      /\ Len(content.rows) \in Nat /\ Len(columns) \in Nat
      /\ DOMAIN content.rows = 1..Len(content.rows) /\ DOMAIN columns = 1..Len(columns)
  BY DEF ContentOf, ColumnsFit
<1> DEFINE cells == Cells(kind, content, columns)
           rows == [i \in DOMAIN cells |-> [j \in DOMAIN columns |-> cells[i][j].cell]]
<1>1. NormalizedTable(kind, content, columns)
        = [ok |-> TRUE, rows |-> rows, events |-> Ledger(cells, columns)]
  BY DEF NormalizedTable, Cells
<1>2. DOMAIN cells = DOMAIN content.rows /\ DOMAIN rows = DOMAIN content.rows BY DEF Cells
<1>3. \A i \in DOMAIN rows : rows[i] = [j \in DOMAIN columns |-> cells[i][j].cell] OBVIOUS
<1>4. \A i \in DOMAIN cells, j \in DOMAIN columns : cells[i][j] = CellOf(kind, content, columns, i, j)
  BY <1>2 DEF Cells
<1> HIDE DEF cells, rows
<1>5. Len(rows) = Len(content.rows) BY <1>0, <1>2
<1>6. \A i \in DOMAIN rows : Len(rows[i]) = Len(columns) BY <1>0, <1>3
<1>7. \A i \in DOMAIN rows, j \in DOMAIN columns : rows[i][j] = cells[i][j].cell BY <1>3
<1>8. QED BY <1>1, <1>2, <1>4, <1>5, <1>6, <1>7 DEF cells

\* Every cell of an admitted table is kept.
LEMMA TableKept ==
    ASSUME NEW kind, NEW content, ContentOf(kind, content), NEW columns, ColumnsFit(columns),
           AllAdmitted(kind, content, columns)
    PROVE  \A i \in DOMAIN content.rows, j \in DOMAIN columns :
              CellKept(Cells(kind, content, columns)[i][j],
                       RawCell(kind, content, columns, i, j), kind, columns[j].type)
<1>1. ASSUME NEW i \in DOMAIN content.rows, NEW j \in DOMAIN columns
      PROVE  CellKept(Cells(kind, content, columns)[i][j],
                      RawCell(kind, content, columns, i, j), kind, columns[j].type)
  <2>1. /\ HeaderFits(kind, content, columns) /\ RowRefusal(kind, content, columns, i).ok
        /\ CellOf(kind, content, columns, i, j).ok
    BY DEF AllAdmitted
  <2>2. CellKept(CellOf(kind, content, columns, i, j), RawCell(kind, content, columns, i, j),
                 kind, columns[j].type)
    BY <2>1, CellOfKept
  <2>3. QED BY <2>2 DEF Cells
<1>2. QED BY <1>1

\* The rows an event befell are a finite set, no larger than the table.
LEMMA BefellFinite ==
    ASSUME NEW cells, NEW n \in Nat, DOMAIN cells = 1..n, NEW event, NEW j
    PROVE  /\ IsFiniteSet(Befell(cells, event, j))
           /\ Cardinality(Befell(cells, event, j)) \in 0..n
           /\ Befell(cells, event, j) # {} => Cardinality(Befell(cells, event, j)) >= 1
<1>1. Befell(cells, event, j) \in SUBSET (1..n) BY DEF Befell
<1>2. IsFiniteSet(1..n) /\ Cardinality(1..n) = n BY ListSize
<1> DEFINE S == Befell(cells, event, j)
<1> HIDE DEF S
<1>3. IsFiniteSet(S) /\ Cardinality(S) <= n BY <1>1, <1>2, FS_Subset DEF S
<1>4. Cardinality(S) \in Nat BY <1>3, FS_CardinalityType
<1>5. S # {} => Cardinality(S) # 0 BY <1>3, FS_EmptySet
<1>6. QED BY <1>3, <1>4, <1>5 DEF S

\* Every entry of the ledger of an admitted table is one the record's validator accepts.
LEMMA TableEvents ==
    ASSUME NEW kind, NEW content, ContentOf(kind, content), NEW columns, ColumnsFit(columns),
           AllAdmitted(kind, content, columns)
    PROVE  LET events == NormalizedTable(kind, content, columns).events
           IN  \A e \in DOMAIN events : \E j \in DOMAIN columns :
                  /\ columns[j].id = e[2] /\ events[e] \in 1..Len(content.rows)
                  /\ e = <<e[1], columns[j].id>>
                  /\ e[1] # "none" /\ EventFits(e[1], kind, columns[j].type)
<1> DEFINE events == NormalizedTable(kind, content, columns).events
           cells == Cells(kind, content, columns)
<1>1. events = Ledger(cells, columns) /\ DOMAIN cells = DOMAIN content.rows BY TableShape
<1>2. Len(content.rows) \in Nat /\ DOMAIN content.rows = 1..Len(content.rows) BY DEF ContentOf
<1>3. \A i \in DOMAIN content.rows, j \in DOMAIN columns :
         CellKept(cells[i][j], RawCell(kind, content, columns, i, j), kind, columns[j].type)
  BY TableKept
<1> HIDE DEF events, cells
<1>4. ASSUME NEW e \in DOMAIN events
      PROVE  \E j \in DOMAIN columns :
                /\ columns[j].id = e[2] /\ events[e] \in 1..Len(content.rows)
                /\ e = <<e[1], columns[j].id>>
                /\ e[1] # "none" /\ EventFits(e[1], kind, columns[j].type)
  <2>1. PICK j \in DOMAIN columns :
           e = <<e[1], columns[j].id>> /\ e[1] # "none" /\ Befell(cells, e[1], j) # {}
    BY <1>1, <1>4, LedgerCounts
  <2>2. events[e] = Cardinality(Befell(cells, e[1], j)) BY <1>1, <1>4, <2>1, LedgerCounts
  <2>3. events[e] \in 1..Len(content.rows) BY <1>1, <1>2, <2>1, <2>2, BefellFinite
  <2>4. PICK i \in DOMAIN content.rows : cells[i][j].event = e[1] BY <1>1, <2>1 DEF Befell
  <2>5. EventFits(e[1], kind, columns[j].type) BY <1>3, <2>1, <2>4 DEF CellKept
  <2>6. columns[j].id = e[2] BY <2>1
  <2>7. QED BY <2>1, <2>3, <2>5, <2>6
<1>5. QED BY <1>4 DEF events

\* The ledger of a table counts, for column j, the cells that differ from the source's.
Counted(t, kind, content, columns, j) ==
    EventSum(t.events, {e \in DOMAIN t.events : e[2] = columns[j].id})
        = Cardinality({i \in DOMAIN t.rows : t.rows[i][j] # RawCell(kind, content, columns, i, j)})

\* The ledger of an admitted table counts every column's.
LEMMA TableLedger ==
    ASSUME NEW kind, NEW content, ContentOf(kind, content), NEW columns, ColumnsFit(columns),
           AllAdmitted(kind, content, columns), NEW j \in DOMAIN columns
    PROVE  Counted(NormalizedTable(kind, content, columns), kind, content, columns, j)
<1> DEFINE t == NormalizedTable(kind, content, columns)
           events == t.events
           cells == Cells(kind, content, columns)
           id == columns[j].id
           mine == {e \in DOMAIN events : e[2] = id}
           absent == AbsenceEvent(kind)
           read == ReadingEvent(columns[j].type)
           A == Befell(cells, absent, j)
           R == Befell(cells, read, j)
           changed == {i \in DOMAIN t.rows : t.rows[i][j] # RawCell(kind, content, columns, i, j)}
<1>1. /\ events = Ledger(cells, columns) /\ DOMAIN cells = DOMAIN content.rows
      /\ DOMAIN t.rows = DOMAIN content.rows
      /\ \A i \in DOMAIN t.rows : t.rows[i][j] = cells[i][j].cell
  BY TableShape
<1>2. Len(content.rows) \in Nat /\ DOMAIN content.rows = 1..Len(content.rows) BY DEF ContentOf
<1>3. \A i \in DOMAIN content.rows :
         CellKept(cells[i][j], RawCell(kind, content, columns, i, j), kind, columns[j].type)
  BY TableKept
<1>4. absent # read /\ absent # "none" /\ read # "none" BY DEF AbsenceEvent, ReadingEvent
<1>5. \A e \in DOMAIN events : \E k \in DOMAIN columns :
         /\ columns[k].id = e[2] /\ events[e] \in 1..Len(content.rows)
         /\ e = <<e[1], columns[k].id>>
         /\ e[1] # "none" /\ EventFits(e[1], kind, columns[k].type)
  BY TableEvents
<1>6. \A k \in DOMAIN columns : columns[k].id = id => k = j BY DEF ColumnsFit
<1>7. /\ \A event : event # "none" /\ Befell(cells, event, j) # {} => <<event, id>> \in DOMAIN events
      /\ \A event : <<event, id>> \in DOMAIN events
            => events[<<event, id>>] = Cardinality(Befell(cells, event, j))
  BY <1>1, LedgerCounts
<1>8. changed = {i \in DOMAIN content.rows : cells[i][j].event # "none"}
  BY <1>1, <1>3 DEF CellKept
<1>9. \A i \in DOMAIN content.rows : cells[i][j].event \in {"none", absent, read}
  BY <1>3 DEF CellKept, EventFits
<1> HIDE DEF t, cells, absent, read
<1>10. changed = A \cup R /\ A \cap R = {} BY <1>1, <1>4, <1>8, <1>9 DEF Befell
<1>11. /\ IsFiniteSet(A) /\ Cardinality(A) \in Nat
       /\ IsFiniteSet(R) /\ Cardinality(R) \in Nat
  BY <1>1, <1>2, BefellFinite
<1>12. mine \in SUBSET {<<absent, id>>, <<read, id>>}
  <2>1. ASSUME NEW e \in mine PROVE e \in {<<absent, id>>, <<read, id>>}
    <3>1. PICK k \in DOMAIN columns :
             columns[k].id = e[2] /\ e = <<e[1], columns[k].id>> /\ EventFits(e[1], kind, columns[k].type)
      BY <1>5
    <3>2. k = j BY <1>6, <3>1
    <3>3. e[1] \in {absent, read} BY <3>1, <3>2 DEF EventFits, absent, read
    <3>4. QED BY <3>1, <3>2, <3>3
  <2>2. QED BY <2>1
<1>13. \A e \in mine : events[e] \in Nat BY <1>2, <1>5
<1>14. \A event : <<event, id>> \in mine <=> <<event, id>> \in DOMAIN events OBVIOUS
<1> DEFINE Count(event) == IF <<event, id>> \in mine THEN events[<<event, id>>] ELSE 0
<1>15. Count(absent) = Cardinality(A) /\ Count(read) = Cardinality(R)
  BY <1>4, <1>7, <1>14, FS_EmptySet
<1>16. <<absent, id>> # <<read, id>> BY <1>4
<1> HIDE DEF mine, events, A, R, changed
<1>17. EventSum(events, mine) = Count(absent) + Count(read)
  BY <1>12, <1>13, <1>16, SumOfTwo
<1>18. Cardinality(A \cup R) = Cardinality(A) + Cardinality(R) - Cardinality(A \cap R)
  BY <1>11, FS_Union
<1>19. Cardinality(A \cap R) = 0 BY <1>10, FS_EmptySet
<1>20. EventSum(events, mine) = Cardinality(changed)
  BY <1>10, <1>11, <1>15, <1>17, <1>18, <1>19
<1>21. QED BY <1>20 DEF t, events, mine, changed, Counted

\* An event that fits its column is one the record's validator accepts.
LEMMA EventAccepted ==
    ASSUME NEW rec, NEW e, NEW j \in DOMAIN rec.columns, rec.columns[j].id = e[2],
           rec.events[e] \in 1..rec.row_count,
           EventFits(e[1], rec.kind, rec.columns[j].type)
    PROVE  EventValid(rec, e)
<1> DEFINE event == e[1]
           type == rec.columns[j].type
           csv == rec.kind = "local_csv"
           Allowed == CASE event = "json_missing_field_to_null" -> ~csv
                         [] event = "csv_empty_field_to_null" -> csv /\ type # "string"
                         [] event = "csv_boolean_parsed" -> csv /\ type = "boolean"
                         [] event = "csv_integer_parsed" -> csv /\ type = "integer"
                         [] event = "csv_number_parsed" -> csv /\ type = "number"
                         [] event = "timestamp_to_canonical_utc" -> type = "timestamp"
<1>1. event \in {"json_missing_field_to_null", "csv_empty_field_to_null", "csv_boolean_parsed",
                 "csv_integer_parsed", "csv_number_parsed", "timestamp_to_canonical_utc"}
  BY DEF EventFits, AbsenceEvent, ReadingEvent
<1>2. Allowed
  <2>1. /\ event = "json_missing_field_to_null" => ~csv
        /\ event = "csv_empty_field_to_null" => csv /\ type # "string"
        /\ event = "csv_boolean_parsed" => csv /\ type = "boolean"
        /\ event = "csv_integer_parsed" => csv /\ type = "integer"
        /\ event = "csv_number_parsed" => csv /\ type = "number"
        /\ event = "timestamp_to_canonical_utc" => type = "timestamp"
    BY DEF EventFits
  <2> HIDE DEF event, type, csv
  <2>2. QED BY <1>1, <2>1
<1>3. QED BY <1>2 DEF EventValid

\* What the source decoded to, and what normalizing it left: the state before the dataset.
Normalized(r, content, t) ==
    /\ r \in DatasetRequests /\ RequestValid(r)
    /\ ContentOf(r.source.kind, content) /\ r.digest # "other"
    /\ AllAdmitted(r.source.kind, content, r.columns)
    /\ t = NormalizedTable(r.source.kind, content, r.columns)

\* The payload of a normalized table has its columns and its rows.
LEMMA PayloadShape ==
    ASSUME NEW r, NEW content, NEW t, Normalized(r, content, t)
    PROVE  LET p == PayloadOf(r.columns, t.rows)
           IN  /\ p.rows = t.rows /\ Len(p.columns) = Len(r.columns)
               /\ DOMAIN p.columns = DOMAIN r.columns /\ Len(p.rows) \in 1..MaxRows
               /\ \A j \in DOMAIN r.columns :
                     p.columns[j].id = r.columns[j].id /\ p.columns[j].type = r.columns[j].type
<1> DEFINE p == PayloadOf(r.columns, t.rows)
           columns == [j \in DOMAIN r.columns |-> [id |-> r.columns[j].id, type |-> r.columns[j].type]]
<1>1. ColumnsFit(r.columns) BY RequestFits DEF Normalized
<1>2. Len(r.columns) \in Nat /\ DOMAIN r.columns = 1..Len(r.columns) BY <1>1 DEF ColumnsFit
<1>3. p = [columns |-> columns, rows |-> t.rows] BY DEF PayloadOf
<1>4. Len(t.rows) = Len(content.rows) BY <1>1, TableShape DEF Normalized
<1>5. Len(t.rows) \in 1..MaxRows BY <1>4 DEF Normalized, AllAdmitted
<1>6. \A j \in DOMAIN r.columns : columns[j] = [id |-> r.columns[j].id, type |-> r.columns[j].type]
  OBVIOUS
<1>7. DOMAIN columns = DOMAIN r.columns /\ Len(columns) = Len(r.columns) BY <1>2
<1>8. p.rows = t.rows /\ p.columns = columns BY <1>3
<1>9. \A j \in DOMAIN r.columns :
         columns[j].id = r.columns[j].id /\ columns[j].type = r.columns[j].type
  BY <1>6
<1> HIDE DEF columns, p
<1>10. QED BY <1>5, <1>7, <1>8, <1>9 DEF p

\* Only a timestamp that strftime left unpadded keeps a payload from being valid.
LEMMA PayloadAccepted ==
    ASSUME NEW r, NEW content, NEW t, Normalized(r, content, t),
           \A i \in DOMAIN t.rows, j \in DOMAIN r.columns : t.rows[i][j].reads # "unpadded"
    PROVE  PayloadValid(PayloadOf(r.columns, t.rows))
<1> DEFINE p == PayloadOf(r.columns, t.rows)
           kind == r.source.kind
           columns == r.columns
<1>0. ContentOf(kind, content) /\ AllAdmitted(kind, content, columns) BY DEF Normalized
<1>1. ColumnsFit(columns) BY RequestFits DEF Normalized
<1>2. /\ p.rows = t.rows /\ Len(p.columns) = Len(columns)
      /\ DOMAIN p.columns = DOMAIN columns /\ Len(p.rows) \in 1..MaxRows
      /\ \A j \in DOMAIN columns : p.columns[j].id = columns[j].id /\ p.columns[j].type = columns[j].type
  BY PayloadShape
<1>3. /\ DOMAIN t.rows = DOMAIN content.rows
      /\ \A i \in DOMAIN t.rows :
            /\ Len(t.rows[i]) = Len(columns)
            /\ \A j \in DOMAIN columns : t.rows[i][j] = Cells(kind, content, columns)[i][j].cell
  BY <1>0, <1>1, TableShape DEF Normalized
<1>4. \A i \in DOMAIN t.rows, j \in DOMAIN columns : CellValid(t.rows[i][j], columns[j].type)
  <2>1. \A i \in DOMAIN content.rows, j \in DOMAIN columns :
           CellKept(Cells(kind, content, columns)[i][j],
                    RawCell(kind, content, columns, i, j), kind, columns[j].type)
    BY <1>0, <1>1, TableKept
  <2>2. QED BY <1>3, <2>1 DEF CellKept
<1>5. Distinct(p.columns, LAMBDA column : column.id)
  <2>1. Distinct(columns, LAMBDA column : column.id) BY DEF Normalized, RequestValid
  <2>2. {p.columns[j].id : j \in DOMAIN p.columns} = {columns[j].id : j \in DOMAIN columns} BY <1>2
  <2>3. QED BY <1>2, <2>1, <2>2 DEF Distinct
<1>6. Len(columns) \in 1..MaxColumns BY <1>1 DEF ColumnsFit
<1> HIDE DEF p, kind, columns
<1>7. QED BY <1>2, <1>3, <1>4, <1>5, <1>6 DEF PayloadValid, p, columns

\* The record built of a normalized table passes its own validator, and matches its payload.
LEMMA RecordAccepted ==
    ASSUME NEW r, NEW content, NEW t, Normalized(r, content, t)
    PROVE  LET p == PayloadOf(r.columns, t.rows)
               rec == RecordOf(r, content, p, t.events)
           IN  RecordValid(rec) /\ PayloadMatches(rec, p)
<1> DEFINE p == PayloadOf(r.columns, t.rows)
           rec == RecordOf(r, content, p, t.events)
           columns == r.columns
<1>0. /\ RequestValid(r) /\ ContentOf(r.source.kind, content) /\ r.digest # "other"
      /\ AllAdmitted(r.source.kind, content, columns)
  BY DEF Normalized
<1>1. ColumnsFit(columns) BY RequestFits DEF Normalized
<1>2. /\ p.rows = t.rows /\ Len(p.columns) = Len(columns)
      /\ DOMAIN p.columns = DOMAIN columns
      /\ \A j \in DOMAIN columns : p.columns[j].id = columns[j].id /\ p.columns[j].type = columns[j].type
  BY PayloadShape
<1>3. Len(p.rows) = Len(content.rows) BY <1>0, <1>1, <1>2, TableShape DEF Normalized
<1> HIDE DEF p
<1>4. /\ rec.payload = p /\ rec.kind = r.source.kind /\ rec.columns = columns
      /\ rec.row_count = Len(p.rows) /\ rec.column_count = Len(columns)
      /\ rec.bounds = Bounds(columns, p.rows) /\ rec.events = t.events
      /\ rec.digest = r.digest
  BY DEF RecordOf
<1>5. \A e \in DOMAIN rec.events : EventValid(rec, e)
  <2> HIDE DEF rec
  <2>1. ASSUME NEW e \in DOMAIN rec.events PROVE EventValid(rec, e)
    <3>1. PICK j \in DOMAIN columns :
             /\ columns[j].id = e[2] /\ t.events[e] \in 1..Len(content.rows)
             /\ EventFits(e[1], r.source.kind, columns[j].type)
      BY <1>0, <1>1, <1>4, TableEvents DEF Normalized
    <3>2. QED BY <1>3, <1>4, <3>1, EventAccepted
  <2>2. QED BY <2>1
<1>6. /\ Cardinality(TimestampColumns(columns)) <= 1
      /\ \A j \in DOMAIN columns : ColumnValid(columns[j])
      /\ Distinct(columns, LAMBDA column : column.id)
      /\ Distinct(columns, LAMBDA column : column.name)
  BY <1>0 DEF RequestValid
<1>7. TimestampColumns(columns) = {} => Bounds(columns, p.rows) = <<>> BY DEF Bounds
<1> HIDE DEF rec, columns
<1>8. RecordValid(rec) BY <1>0, <1>4, <1>5, <1>6, <1>7 DEF RecordValid
<1>9. PayloadMatches(rec, p) BY <1>2, <1>4 DEF PayloadMatches
<1>10. QED BY <1>8, <1>9 DEF rec, p, columns

\* A normalized table becomes a dataset, is refused as expected, or escapes for the one
\* timestamp a payload does not accept.
LEMMA DatasetBuilt ==
    ASSUME NEW r, NEW content, NEW t, Normalized(r, content, t)
    PROVE  LET d == BuildDataset(r, content, t)
           IN  IF d.ok THEN /\ d.payload = PayloadOf(r.columns, t.rows)
                            /\ d.record.events = t.events
               ELSE \/ Expected(d)
                    \/ /\ d = Escaped
                       /\ \E i \in DOMAIN t.rows, j \in DOMAIN r.columns :
                             t.rows[i][j].reads = "unpadded"
<1> DEFINE d == BuildDataset(r, content, t)
           p == PayloadOf(r.columns, t.rows)
           rec == RecordOf(r, content, p, t.events)
           unseen == \E j \in TimestampColumns(r.columns) : Observations(t.rows, j) = <<>>
           made == [ok |-> TRUE, payload |-> p, record |-> rec]
<1>1. RecordValid(rec) /\ PayloadMatches(rec, p) BY RecordAccepted
<1>2. PayloadValid(p) \/ \E i \in DOMAIN t.rows, j \in DOMAIN r.columns :
                            t.rows[i][j].reads = "unpadded"
  BY PayloadAccepted
<1>3. rec.events = t.events BY DEF RecordOf
<1>4. d = IF ~PayloadValid(p) THEN Escaped
          ELSE IF PayloadSize(p) > MaxPayload THEN Limit("normalized_dataset_payload_bytes")
          ELSE IF unseen THEN Invalid("missing_timestamp_observation")
          ELSE IF ~(RecordValid(rec) /\ PayloadMatches(rec, p))
               THEN Invalid("invalid_normalized_dataset")
          ELSE made
  BY DEF BuildDataset
<1>5. made.ok /\ made.payload = p /\ made.record = rec OBVIOUS
<1> HIDE DEF d, p, rec, unseen, made
<1>6. /\ Expected(Limit("normalized_dataset_payload_bytes"))
      /\ Expected(Invalid("missing_timestamp_observation"))
      /\ ~Limit("normalized_dataset_payload_bytes").ok
      /\ ~Invalid("missing_timestamp_observation").ok
  BY CellAnswers DEF Expected
<1>7. ~Escaped.ok BY DEF Escaped, Refusal
<1>8. QED BY <1>1, <1>2, <1>3, <1>4, <1>5, <1>6, <1>7 DEF d, p

-----------------------------------------------------------------------------
(* Datasets: binding columns to fields *)

\* The columns of a payload a mapping may take, and the rows of a column.
ColumnsNamed(p, id) == {j \in DOMAIN p.columns : p.columns[j].id = id}
WholeColumn(p, j) == [i \in DOMAIN p.rows |-> p.rows[i][j]]

\* One mapping of resolve_dataset_fields, after the ones before it left acc.
BindOne(p, acc, m) ==
    LET at == ColumnsNamed(p, m.source)
    IN  IF m.source \in acc.used \/ m.target \in DOMAIN acc.output \/ at = {}
        THEN [acc EXCEPT !.ok = FALSE]
        ELSE LET column == WholeColumn(p, CHOOSE j \in at : TRUE)
             IN  [ok |-> acc.ok, used |-> acc.used \cup {m.source},
                  output |-> [f \in DOMAIN acc.output \cup {m.target} |->
                                IF f = m.target THEN column ELSE acc.output[f]]]

\* The function that resolve_dataset_fields runs through, up to its n-th mapping.
ResolvesTo(g, p, mappings, literals, n) ==
    g = [k \in 0..n |-> IF k = 0 THEN [ok |-> TRUE, used |-> {}, output |-> literals]
                        ELSE BindOne(p, g[k - 1], mappings[k])]

\* resolve_dataset_fields goes through its mappings one after the other.
LEMMA ResolveIs ==
    ASSUME NEW p, NEW mappings, NEW literals
    PROVE  ResolveFields(p, mappings, literals)
              = (CHOOSE g : ResolvesTo(g, p, mappings, literals, Len(mappings)))[Len(mappings)]
  BY DEF ResolveFields, ResolvesTo, BindOne, ColumnsNamed, WholeColumn

\* There is such a function, for every number of mappings.
LEMMA ResolvesExists ==
    ASSUME NEW p, NEW mappings, NEW literals
    PROVE  \A n \in Nat : \E g : ResolvesTo(g, p, mappings, literals, n)
<1> DEFINE Start == [ok |-> TRUE, used |-> {}, output |-> literals]
           T == {n \in Nat : ~ \E g : ResolvesTo(g, p, mappings, literals, n)}
<1>1. CASE T = {} BY <1>1
<1>2. CASE T # {}
  <2>1. PICK n \in T : \A m \in T : n <= m BY <1>2, LeastNumber
  <2>2. CASE n = 0
    <3> DEFINE g == [k \in 0..0 |-> Start]
    <3>1. g = [k \in 0..0 |-> IF k = 0 THEN Start ELSE BindOne(p, g[k - 1], mappings[k])] OBVIOUS
    <3>2. ResolvesTo(g, p, mappings, literals, 0) BY <3>1 DEF ResolvesTo
    <3>3. QED BY <2>2, <3>2
  <2>3. CASE n # 0
    <3>1. n \in Nat /\ n - 1 \in Nat /\ n - 1 \notin T BY <2>1, <2>3
    <3>2. PICK g : ResolvesTo(g, p, mappings, literals, n - 1) BY <3>1
    <3> DEFINE last == BindOne(p, g[n - 1], mappings[n])
               h == [k \in 0..n |-> IF k = n THEN last ELSE g[k]]
    <3>3. \A k \in 0..n-1 : g[k] = IF k = 0 THEN Start ELSE BindOne(p, g[k - 1], mappings[k])
      BY <3>2 DEF ResolvesTo
    <3> HIDE DEF last, Start
    <3>4. h[n] = last /\ \A k \in 0..n-1 : h[k] = g[k] BY <3>1
    <3>5. \A k \in 0..n : h[k] = IF k = 0 THEN Start ELSE BindOne(p, h[k - 1], mappings[k])
      BY <2>3, <3>1, <3>3, <3>4 DEF last
    <3>6. h = [k \in 0..n |-> h[k]] OBVIOUS
    <3> HIDE DEF h
    <3>7. ResolvesTo(h, p, mappings, literals, n) BY <3>5, <3>6 DEF ResolvesTo, Start
    <3>8. QED BY <2>1, <3>7
  <2>4. QED BY <2>2, <2>3
<1>3. QED BY <1>1, <1>2

\* What a binding is made of.
Binding(acc) == acc = [ok |-> acc.ok, used |-> acc.used, output |-> acc.output]

\* What an accepted mapping adds to a binding: one whole column under its target.
Grows(new, acc, m, p) ==
    new.ok => /\ acc.ok
              /\ m.target \in DOMAIN new.output
              /\ \A f \in DOMAIN acc.output : f \in DOMAIN new.output /\ new.output[f] = acc.output[f]
              /\ \E j \in DOMAIN p.columns :
                    p.columns[j].id = m.source /\ new.output[m.target] = WholeColumn(p, j)

\* A mapping is refused, or adds its column and keeps the rest.
LEMMA BindOneKeeps ==
    ASSUME NEW p, NEW acc, Binding(acc), NEW m
    PROVE  Binding(BindOne(p, acc, m)) /\ Grows(BindOne(p, acc, m), acc, m, p)
<1> DEFINE at == ColumnsNamed(p, m.source)
           new == BindOne(p, acc, m)
           refused == m.source \in acc.used \/ m.target \in DOMAIN acc.output \/ at = {}
           j == CHOOSE k \in at : TRUE
           fields == [f \in DOMAIN acc.output \cup {m.target} |->
                        IF f = m.target THEN WholeColumn(p, j) ELSE acc.output[f]]
<1>1. CASE refused
  <2>1. new = [acc EXCEPT !.ok = FALSE] BY <1>1 DEF BindOne
  <2> HIDE DEF new
  <2>2. acc = [ok |-> acc.ok, used |-> acc.used, output |-> acc.output] BY DEF Binding
  <2>3. new = [ok |-> FALSE, used |-> acc.used, output |-> acc.output] BY <2>1, <2>2
  <2>4. ~new.ok /\ Binding(new) BY <2>3 DEF Binding
  <2>5. QED BY <2>4 DEF new, Grows
<1>2. CASE ~refused
  <2>1. new = [ok |-> acc.ok, used |-> acc.used \cup {m.source}, output |-> fields]
    BY <1>2 DEF BindOne
  <2> HIDE DEF new
  <2>2. j \in DOMAIN p.columns /\ p.columns[j].id = m.source BY <1>2 DEF ColumnsNamed
  <2> HIDE DEF j
  <2>3. /\ DOMAIN fields = DOMAIN acc.output \cup {m.target}
        /\ fields[m.target] = WholeColumn(p, j)
        /\ \A f \in DOMAIN acc.output : fields[f] = acc.output[f]
    BY <1>2
  <2> HIDE DEF fields
  <2>4. Binding(new) /\ new.output = fields /\ (new.ok <=> acc.ok) BY <2>1 DEF Binding
  <2>5. QED BY <2>2, <2>3, <2>4 DEF new, Grows
<1>3. QED BY <1>1, <1>2

\* What an accepted binding of n mappings holds: every literal, and every column, whole.
BoundUpTo(acc, n, p, mappings, literals) ==
    /\ Binding(acc)
    /\ acc.ok => /\ \A f \in DOMAIN literals : f \in DOMAIN acc.output /\ acc.output[f] = literals[f]
                 /\ \A k \in 1..n :
                       /\ mappings[k].target \in DOMAIN acc.output
                       /\ \E j \in DOMAIN p.columns :
                             /\ p.columns[j].id = mappings[k].source
                             /\ acc.output[mappings[k].target] = WholeColumn(p, j)

\* A further mapping leaves what the ones before it bound.
LEMMA BoundFurther ==
    ASSUME NEW p, NEW mappings, NEW literals, NEW n \in Nat, n # 0, NEW acc,
           BoundUpTo(acc, n - 1, p, mappings, literals)
    PROVE  BoundUpTo(BindOne(p, acc, mappings[n]), n, p, mappings, literals)
<1> DEFINE new == BindOne(p, acc, mappings[n])
<1>1. Binding(new) /\ Grows(new, acc, mappings[n], p)
  <2>1. Binding(acc) BY DEF BoundUpTo
  <2>2. QED BY <2>1, BindOneKeeps
<1> HIDE DEF new
<1>2. ASSUME new.ok, NEW f \in DOMAIN literals
      PROVE  f \in DOMAIN new.output /\ new.output[f] = literals[f]
  BY <1>1, <1>2 DEF BoundUpTo, Grows
<1>3. ASSUME new.ok, NEW k \in 1..n
      PROVE  /\ mappings[k].target \in DOMAIN new.output
             /\ \E j \in DOMAIN p.columns :
                   /\ p.columns[j].id = mappings[k].source
                   /\ new.output[mappings[k].target] = WholeColumn(p, j)
  <2>1. CASE k = n BY <1>1, <1>3, <2>1 DEF Grows
  <2>2. CASE k # n
    <3>1. k \in 1..n-1 BY <2>2
    <3>2. acc.ok BY <1>1, <1>3 DEF Grows
    <3>3. /\ mappings[k].target \in DOMAIN acc.output
          /\ \E j \in DOMAIN p.columns :
                /\ p.columns[j].id = mappings[k].source
                /\ acc.output[mappings[k].target] = WholeColumn(p, j)
      BY <3>1, <3>2 DEF BoundUpTo
    <3>4. QED BY <1>1, <1>3, <3>3 DEF Grows
  <2>3. QED BY <2>1, <2>2
<1>4. BoundUpTo(new, n, p, mappings, literals) BY <1>1, <1>2, <1>3 DEF BoundUpTo
<1>5. QED BY <1>4 DEF new

\* A binding that resolves holds every literal and every column named, whole.
LEMMA FieldsResolved ==
    ASSUME NEW p, NEW mappings, Len(mappings) \in Nat, NEW literals
    PROVE  BoundUpTo(ResolveFields(p, mappings, literals), Len(mappings), p, mappings, literals)
<1> DEFINE N == Len(mappings)
           Start == [ok |-> TRUE, used |-> {}, output |-> literals]
<1>1. PICK g : ResolvesTo(g, p, mappings, literals, N) /\ ResolveFields(p, mappings, literals) = g[N]
  <2>1. \E g : ResolvesTo(g, p, mappings, literals, N) BY ResolvesExists
  <2>2. PICK g : g = CHOOSE h : ResolvesTo(h, p, mappings, literals, N) OBVIOUS
  <2>3. ResolvesTo(g, p, mappings, literals, N) BY <2>1, <2>2
  <2>4. QED BY <2>2, <2>3, ResolveIs
<1>2. /\ g[0] = Start
      /\ \A k \in 1..N : g[k] = BindOne(p, g[k - 1], mappings[k])
  <2>1. g = [k \in 0..N |-> IF k = 0 THEN Start ELSE BindOne(p, g[k - 1], mappings[k])]
    BY <1>1 DEF ResolvesTo
  <2>2. \A k \in 0..N : g[k] = IF k = 0 THEN Start ELSE BindOne(p, g[k - 1], mappings[k])
    BY <2>1
  <2> HIDE DEF Start
  <2>3. QED BY <2>2
<1> HIDE DEF N
<1> DEFINE T == {n \in Nat : n <= N /\ ~ BoundUpTo(g[n], n, p, mappings, literals)}
<1>3. CASE T = {} BY <1>1, <1>3 DEF N
<1>4. CASE T # {}
  <2>1. PICK n \in T : \A m \in T : n <= m BY <1>4, LeastNumber
  <2>2. CASE n = 0
    <3>1. BoundUpTo(Start, 0, p, mappings, literals) BY DEF BoundUpTo, Binding
    <3>2. QED BY <1>2, <2>1, <2>2, <3>1
  <2>3. CASE n # 0
    <3>1. n \in Nat /\ n - 1 \in Nat /\ n \in 1..N /\ n - 1 \notin T BY <2>1, <2>3 DEF N
    <3>2. n - 1 <= N BY <2>1 DEF N
    <3>3. BoundUpTo(g[n - 1], n - 1, p, mappings, literals) BY <3>1, <3>2
    <3>4. BoundUpTo(g[n], n, p, mappings, literals) BY <1>2, <2>3, <3>1, <3>3, BoundFurther
    <3>5. QED BY <2>1, <3>4
  <2>4. QED BY <2>2, <2>3
<1>5. QED BY <1>3, <1>4

-----------------------------------------------------------------------------
(* Datasets: the invariant *)

\* A source is read for a valid request only, and holds what its kind can hold.
SourceFits ==
    source # Unread => RequestValid(request) /\ ContentOf(request.source.kind, source)

\* A table is the source's, row by row.
TableFits == table # Unread => source # Unread /\ Normalized(request, source, table)

\* The dataset is a refusal that normalize_dataset expects, or was built of the table.
DatasetFits ==
    dataset # Unread =>
        \/ Expected(dataset)
        \/ table # Unread /\ dataset = BuildDataset(request, source, table)

\* Fields are bound to the columns of a registered dataset.
BoundFits ==
    bound # Unread =>
        /\ dataset # Unread /\ dataset.ok
        /\ \E b \in FieldBindings :
              bound = [ResolveFields(dataset.payload, b.mappings, b.literals) EXCEPT !.used = b]

DatasetInv == request \in DatasetRequests /\ SourceFits /\ TableFits /\ DatasetFits /\ BoundFits

\* A source that decodes was declared with its own digest, and refusals are expected ones.
LEMMA SourceDecoded ==
    ASSUME NEW r, NEW content
    PROVE  LET d == DecodeSource(r, content)
           IN  IF d.ok THEN r.digest # "other" ELSE Expected(d)
<1>1. /\ Expected(Invalid("utf8_bom_not_allowed")) /\ Expected(Invalid("invalid_json_source"))
      /\ Expected(Invalid("empty_dataset")) /\ Expected(Limit("dataset_rows"))
      /\ Expected(Invalid("invalid_csv_source")) /\ Expected(Invalid("invalid_csv_header"))
      /\ Expected(Invalid("source_digest_mismatch"))
  BY CellAnswers DEF Expected
<1>2. Fine.ok BY DEF Fine
<1>3. DecodeJson(content) = Fine \/ Expected(DecodeJson(content)) BY <1>1 DEF DecodeJson
<1>4. DecodeCsv(content) = Fine \/ Expected(DecodeCsv(content)) BY <1>1 DEF DecodeCsv
<1> DEFINE decoded == CASE r.source.kind = "inline_rows" -> Fine
                        [] r.source.kind = "local_csv" -> DecodeCsv(content)
                        [] OTHER -> DecodeJson(content)
<1>5. decoded = Fine \/ Expected(decoded) BY <1>3, <1>4
<1>6. DecodeSource(r, content) = IF ~decoded.ok THEN decoded
                                 ELSE IF r.digest = "other" THEN Invalid("source_digest_mismatch")
                                 ELSE Fine
  BY DEF DecodeSource
<1> HIDE DEF decoded
<1>7. \/ Expected(DecodeSource(r, content))
      \/ DecodeSource(r, content) = Fine /\ r.digest # "other"
  BY <1>1, <1>2, <1>5, <1>6 DEF Expected
<1>8. QED BY <1>2, <1>7 DEF Expected

\* The refusals of requests and of roots are expected ones.
LEMMA RequestsRefused ==
    /\ \A r : ~PreflightLimits(r).ok => Expected(PreflightLimits(r))
    /\ Expected(Refusal("invalid_tool_request", "model"))
    /\ \A reason \in {"input_root_denied", "unsafe_input_path", "unsupported_data_format",
                    "input_limit_exceeded"} : Expected(Refusal(reason, "file"))
<1>1. \A reason, why : ~Refusal(reason, why).ok /\ Refusal(reason, why).code = reason
                     /\ Refusal(reason, why).why = why
  BY DEF Refusal
<1>2. /\ Expected(Refusal("invalid_tool_request", "model"))
      /\ \A reason \in {"input_root_denied", "unsafe_input_path", "unsupported_data_format",
                      "input_limit_exceeded"} : Expected(Refusal(reason, "file"))
      /\ Expected(Refusal("invalid_tool_request", "host_schema_version"))
      /\ Expected(Refusal("unsupported_host_schema", "version"))
  BY <1>1 DEF Expected
<1>3. /\ Expected(Limit("dataset_columns")) /\ Expected(Limit("inline_json_source_bytes"))
      /\ Expected(Limit("dataset_rows"))
  BY CellAnswers DEF Expected
<1>4. \A r : ~PreflightLimits(r).ok => Expected(PreflightLimits(r))
  BY <1>2, <1>3 DEF PreflightLimits, Fine
<1>5. QED BY <1>2, <1>4

\* A source, its rows and what is made of them.
LEMMA SourceStep ==
    ASSUME DatasetInv, ReadSource
    PROVE  DatasetInv'
<1>1. /\ RequestValid(request) /\ request \in DatasetRequests
      /\ UNCHANGED <<request, table, dataset, bound>>
  BY DEF ReadSource, DatasetInv
<1>2. ContentOf(request.source.kind, source')
  <2>1. CASE request.source.kind \in {"inline_rows", "inline_json"}
    BY <1>1, <2>1, DatasetsAssumption DEF ReadSource
  <2>2. CASE request.source.kind \notin {"inline_rows", "inline_json"}
    <3>1. SourceValid(request.source) BY <1>1 DEF RequestValid
    <3>2. request.source.kind \in {"local_csv", "local_json"} BY <2>2, <3>1 DEF SourceValid
    <3>3. source' \in LocalFiles[request.source.kind] BY <2>2 DEF ReadSource
    <3>4. QED BY <3>2, <3>3, DatasetsAssumption
  <2>3. QED BY <2>1, <2>2
<1>3. table = Unread /\ dataset = Unread /\ bound = Unread
  BY DEF ReadSource, DatasetInv, TableFits, BoundFits
<1>4. QED BY <1>1, <1>2, <1>3 DEF DatasetInv, SourceFits, TableFits, DatasetFits, BoundFits

\* A refusal before there is a table concludes the call.
LEMMA RefusalConcludes ==
    ASSUME DatasetInv, dataset = Unread, NEW refusal, Expected(refusal), Concludes(refusal)
    PROVE  DatasetInv'
<1>1. dataset' = refusal /\ UNCHANGED <<request, source, table, bound>> BY DEF Concludes
<1>2. bound = Unread BY DEF DatasetInv, BoundFits
<1>3. QED BY <1>1, <1>2 DEF DatasetInv, SourceFits, TableFits, DatasetFits, BoundFits

\* Normalizing a source leaves its table, or an expected refusal.
LEMMA NormalizeStep ==
    ASSUME DatasetInv, NormalizeSource
    PROVE  DatasetInv'
<1> DEFINE decoded == DecodeSource(request, source)
           rows == NormalizedRows(request.source.kind, source, request.columns)
<1>1. /\ source # Unread /\ table = Unread /\ dataset = Unread
      /\ request \in DatasetRequests /\ RequestValid(request)
      /\ ContentOf(request.source.kind, source)
  BY DEF NormalizeSource, DatasetInv, SourceFits
<1>2. IF decoded.ok THEN request.digest # "other" ELSE Expected(decoded) BY SourceDecoded
<1>3. ColumnsFit(request.columns) BY <1>1, RequestFits
<1>4. IF rows.ok THEN /\ AllAdmitted(request.source.kind, source, request.columns)
                      /\ rows = NormalizedTable(request.source.kind, source, request.columns)
      ELSE Expected(rows)
  BY <1>1, <1>3, RowsNormalized
<1>5. IF ~decoded.ok THEN Concludes(decoded)
      ELSE IF ~rows.ok THEN Concludes(rows)
      ELSE table' = rows /\ UNCHANGED <<request, source, dataset, bound>>
  BY DEF NormalizeSource
<1> HIDE DEF decoded, rows
<1>6. CASE ~decoded.ok BY <1>1, <1>2, <1>5, <1>6, RefusalConcludes
<1>7. CASE decoded.ok /\ ~rows.ok BY <1>1, <1>4, <1>5, <1>7, RefusalConcludes
<1>8. CASE decoded.ok /\ rows.ok
  <2>1. table' = rows /\ UNCHANGED <<request, source, dataset, bound>> BY <1>5, <1>8
  <2>2. Normalized(request, source, rows) BY <1>1, <1>2, <1>4, <1>8 DEF Normalized
  <2>3. bound = Unread BY <1>1 DEF DatasetInv, BoundFits
  <2>4. QED BY <1>1, <2>1, <2>2, <2>3 DEF DatasetInv, SourceFits, TableFits, DatasetFits, BoundFits
<1>9. QED BY <1>6, <1>7, <1>8

\* Finishing a dataset builds it of the table.
LEMMA FinishStep ==
    ASSUME DatasetInv, FinishDataset
    PROVE  DatasetInv'
<1>1. /\ table # Unread /\ dataset = Unread
      /\ dataset' = BuildDataset(request, source, table)
      /\ UNCHANGED <<request, source, table, bound>>
  BY DEF FinishDataset, Concludes
<1>2. bound = Unread BY <1>1 DEF DatasetInv, BoundFits
<1>3. QED BY <1>1, <1>2 DEF DatasetInv, SourceFits, TableFits, DatasetFits, BoundFits

\* Binding fields leaves the dataset as it is.
LEMMA BindStep ==
    ASSUME DatasetInv, BindFields
    PROVE  DatasetInv'
<1>1. /\ dataset # Unread /\ dataset.ok
      /\ \E b \in FieldBindings :
            bound' = [ResolveFields(dataset.payload, b.mappings, b.literals) EXCEPT !.used = b]
      /\ UNCHANGED <<request, source, table, dataset>>
  BY DEF BindFields
<1>2. QED BY <1>1 DEF DatasetInv, SourceFits, TableFits, DatasetFits, BoundFits

\* The inductive invariant of normalize_dataset and resolve_dataset_fields: what is known
\* of the source, the rows, the dataset and the fields bound when each of them is there.
THEOREM DatasetsInvariant == DatasetSpec => []DatasetInv
<1>1. DatasetInit => DatasetInv
  BY DEF DatasetInit, DatasetInv, SourceFits, TableFits, DatasetFits, BoundFits
<1>2. DatasetInv /\ [DatasetNext]_datasetVars => DatasetInv'
  <2>1. SUFFICES ASSUME DatasetInv, [DatasetNext]_datasetVars PROVE DatasetInv' OBVIOUS
  <2>2. CASE UNCHANGED datasetVars
    BY <2>1, <2>2 DEF datasetVars, DatasetInv, SourceFits, TableFits, DatasetFits, BoundFits
  <2>3. CASE RefuseRequest
    <3>1. \E refusal : Expected(refusal) /\ Concludes(refusal)
      BY <2>3, RequestsRefused DEF RefuseRequest
    <3>2. dataset = Unread BY <2>3 DEF RefuseRequest
    <3>3. QED BY <2>1, <3>1, <3>2, RefusalConcludes
  <2>4. CASE ReadSource BY <2>1, <2>4, SourceStep
  <2>5. CASE RootRefuses
    <3>1. dataset = Unread /\ \E reason \in {"input_root_denied", "unsafe_input_path",
              "unsupported_data_format", "input_limit_exceeded"} : Concludes(Refusal(reason, "file"))
      BY <2>5 DEF RootRefuses
    <3>2. \E refusal : Expected(refusal) /\ Concludes(refusal) BY <3>1, RequestsRefused
    <3>3. QED BY <2>1, <3>1, <3>2, RefusalConcludes
  <2>6. CASE NormalizeSource BY <2>1, <2>6, NormalizeStep
  <2>7. CASE FinishDataset BY <2>1, <2>7, FinishStep
  <2>8. CASE BindFields BY <2>1, <2>8, BindStep
  <2>9. QED BY <2>1, <2>2, <2>3, <2>4, <2>5, <2>6, <2>7, <2>8 DEF DatasetNext
<1>3. QED BY <1>1, <1>2, PTL DEF DatasetSpec

\* The payload of a registered dataset is the table's, cell by cell what the source has.
LEMMA PayloadKept ==
    ASSUME DatasetInv, Registered
    PROVE  /\ table # Unread /\ Normalized(request, source, table)
           /\ dataset.payload = PayloadOf(request.columns, table.rows)
           /\ dataset.payload.rows = table.rows /\ dataset.record.events = table.events
           /\ DOMAIN dataset.payload.columns = DOMAIN request.columns
           /\ \A j \in DOMAIN request.columns : dataset.payload.columns[j].id = request.columns[j].id
<1>1. table # Unread /\ dataset = BuildDataset(request, source, table)
  BY DEF DatasetInv, DatasetFits, Registered, Expected
<1>2. Normalized(request, source, table) BY <1>1 DEF DatasetInv, TableFits
<1>3. /\ dataset.payload = PayloadOf(request.columns, table.rows)
      /\ dataset.record.events = table.events
  BY <1>1, <1>2, DatasetBuilt DEF Registered
<1>4. QED BY <1>1, <1>2, <1>3, PayloadShape

\* SourceCell is the raw cell that normalizing kept.
LEMMA SourceCellIs ==
    \A i, j : SourceCell(i, j) = RawCell(request.source.kind, source, request.columns, i, j)
  BY DEF SourceCell, RawCell

\* The cells of a registered dataset are the source's.
LEMMA RegisteredKept ==
    ASSUME DatasetInv, Registered
    PROVE  ValuesKept
<1> DEFINE kind == request.source.kind
           cells == Cells(kind, source, request.columns)
           Raw(i, j) == RawCell(kind, source, request.columns, i, j)
<1>1. Normalized(request, source, table) /\ dataset.payload.rows = table.rows BY PayloadKept
<1>2. ColumnsFit(request.columns) BY <1>1, RequestFits DEF Normalized
<1>3. /\ ContentOf(kind, source) /\ AllAdmitted(kind, source, request.columns)
      /\ table = NormalizedTable(kind, source, request.columns)
  BY <1>1 DEF Normalized
<1>4. /\ DOMAIN table.rows = DOMAIN source.rows
      /\ \A i \in DOMAIN table.rows, j \in DOMAIN request.columns : table.rows[i][j] = cells[i][j].cell
  BY <1>2, <1>3, TableShape
<1>5. \A i \in DOMAIN source.rows, j \in DOMAIN request.columns :
         CellKept(cells[i][j], Raw(i, j), kind, request.columns[j].type)
  BY <1>2, <1>3, TableKept
<1> HIDE DEF cells, Raw
<1>6. \A i \in DOMAIN table.rows, j \in DOMAIN request.columns :
         IF table.rows[i][j].tag = "null" THEN Raw(i, j).reads \in {"nothing", "missing"}
         ELSE StandsFor(table.rows[i][j], Raw(i, j))
  BY <1>4, <1>5 DEF CellKept
<1>7. \A i, j : SourceCell(i, j) = Raw(i, j) BY SourceCellIs DEF Raw
<1>8. QED BY <1>1, <1>6, <1>7 DEF ValuesKept

\* The ledger of a registered dataset is exact.
LEMMA RegisteredLedger ==
    ASSUME DatasetInv, Registered
    PROVE  LedgerExact
<1> DEFINE kind == request.source.kind
<1>1. /\ Normalized(request, source, table) /\ dataset.payload.rows = table.rows
      /\ dataset.record.events = table.events
  BY PayloadKept
<1>2. ColumnsFit(request.columns) BY <1>1, RequestFits DEF Normalized
<1>3. /\ ContentOf(kind, source) /\ AllAdmitted(kind, source, request.columns)
      /\ table = NormalizedTable(kind, source, request.columns)
  BY <1>1 DEF Normalized
<1>4. ASSUME NEW j \in DOMAIN request.columns
      PROVE  LET id == request.columns[j].id
                 events == dataset.record.events
                 mine == {e \in DOMAIN events : e[2] = id}
             IN  EventSum(events, mine)
                    = Cardinality({i \in DOMAIN dataset.payload.rows :
                                      dataset.payload.rows[i][j] # SourceCell(i, j)})
  <2>1. Counted(table, kind, source, request.columns, j) BY <1>2, <1>3, TableLedger
  <2>2. {i \in DOMAIN table.rows : table.rows[i][j] # RawCell(kind, source, request.columns, i, j)}
           = {i \in DOMAIN table.rows : table.rows[i][j] # SourceCell(i, j)}
    BY SourceCellIs
  <2>3. QED BY <1>1, <2>1, <2>2 DEF Counted
<1>5. QED BY <1>4 DEF LedgerExact, EventSum

\* Fields bound to a registered dataset hold whole columns.
LEMMA RegisteredBound ==
    ASSUME DatasetInv, Registered
    PROVE  BoundWhole
<1>1. SUFFICES ASSUME bound # Unread, bound.ok
      PROVE  /\ \A f \in DOMAIN bound.used.literals : bound.output[f] = bound.used.literals[f]
             /\ \A k \in DOMAIN bound.used.mappings :
                   \E j \in DOMAIN request.columns :
                      /\ request.columns[j].id = bound.used.mappings[k].source
                      /\ bound.output[bound.used.mappings[k].target]
                            = [i \in DOMAIN dataset.payload.rows |-> dataset.payload.rows[i][j]]
  BY DEF BoundWhole
<1> DEFINE p == dataset.payload
<1>2. PICK b \in FieldBindings : bound = [ResolveFields(p, b.mappings, b.literals) EXCEPT !.used = b]
  BY <1>1 DEF DatasetInv, BoundFits
<1> DEFINE acc == ResolveFields(p, b.mappings, b.literals)
<1>3. b.mappings \in Seq(ToSet(b.mappings)) BY DatasetsAssumption
<1>4. Len(b.mappings) \in Nat /\ DOMAIN b.mappings = 1..Len(b.mappings) BY <1>3
<1>5. BoundUpTo(acc, Len(b.mappings), p, b.mappings, b.literals) BY <1>4, FieldsResolved
<1>6. /\ DOMAIN p.columns = DOMAIN request.columns
      /\ \A j \in DOMAIN request.columns : p.columns[j].id = request.columns[j].id
  BY PayloadKept
<1> HIDE DEF acc, p
<1>7. acc = [ok |-> acc.ok, used |-> acc.used, output |-> acc.output] BY <1>5 DEF BoundUpTo, Binding
<1>8. bound = [acc EXCEPT !.used = b] BY <1>2 DEF acc
<1>9. bound = [ok |-> acc.ok, used |-> b, output |-> acc.output] BY <1>7, <1>8
<1>10. bound.used = b /\ bound.output = acc.output /\ acc.ok BY <1>1, <1>9
<1>11. \A f \in DOMAIN b.literals : acc.output[f] = b.literals[f] BY <1>5, <1>10 DEF BoundUpTo
<1>12. \A k \in DOMAIN b.mappings : \E j \in DOMAIN request.columns :
          /\ request.columns[j].id = b.mappings[k].source
          /\ acc.output[b.mappings[k].target] = WholeColumn(p, j)
  BY <1>4, <1>5, <1>6, <1>10 DEF BoundUpTo
<1>13. QED BY <1>10, <1>11, <1>12 DEF WholeColumn, p

\* Whatever is registered, normalize_dataset stores the values its source has under the
\* names of its columns and accounts for every change, resolve_dataset_fields binds whole
\* columns, and the record's validator never refuses what the normaliser built.
THEOREM DatasetsAreFaithful == DatasetSpec => []DatasetFaithful
<1>1. DatasetInv => DatasetFaithful
  <2>1. SUFFICES ASSUME DatasetInv PROVE DatasetFaithful OBVIOUS
  <2>2. Registered => ValuesKept /\ LedgerExact /\ BoundWhole
    BY <2>1, RegisteredKept, RegisteredLedger, RegisteredBound
  <2>3. ASSUME dataset # Unread, ~dataset.ok
        PROVE  /\ dataset.why # "invalid_normalized_dataset"
               /\ dataset = Escaped => \E i \in DOMAIN table.rows, j \in DOMAIN request.columns :
                                          table.rows[i][j].reads = "unpadded"
    <3>0. Escaped.code = "uncaught" /\ Escaped.why = "payload" BY DEF Escaped, Refusal
    <3>1. CASE Expected(dataset) BY <3>0, <3>1 DEF Expected
    <3>2. CASE table # Unread /\ dataset = BuildDataset(request, source, table)
      <4>1. Normalized(request, source, table) BY <2>1, <3>2 DEF DatasetInv, TableFits
      <4>2. \/ Expected(dataset)
            \/ /\ dataset = Escaped
               /\ \E i \in DOMAIN table.rows, j \in DOMAIN request.columns :
                     table.rows[i][j].reads = "unpadded"
        BY <2>3, <3>2, <4>1, DatasetBuilt
      <4>3. QED BY <3>0, <4>2 DEF Expected
    <3>3. QED BY <2>1, <2>3, <3>1, <3>2 DEF DatasetInv, DatasetFits
  <2>4. QED BY <2>2, <2>3 DEF DatasetFaithful
<1>2. QED BY <1>1, DatasetsInvariant, PTL
=============================================================================
