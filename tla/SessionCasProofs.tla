-------------------------- MODULE SessionCasProofs --------------------------
(***************************************************************************)
(* Proofs about SessionCas: for any sessions, references and byte limits   *)
(* the store implements ImmutableStore, its scope registry is exact, and   *)
(* it charges every session for each of its references once.               *)
(***************************************************************************)
EXTENDS SessionCas, FiniteSetTheorems, TLAPS

\* The part of the type invariant the proofs need.
TypeCore ==
    /\ closed \subseteq Sessions
    /\ references \in [Sessions -> SUBSET References]
    /\ corrupt \in [Sessions -> SUBSET References]
    /\ registry \in [References -> SUBSET Sessions]
    /\ disk \in [Sessions -> [References -> {"absent", "good", "bad"}]]
    /\ used \in [Sessions -> Nat] /\ \A s \in Sessions : used[s] <= SessionBytes[s]

LiveIn(s, r) == s \notin closed /\ r \in references[s] /\ r \notin corrupt[s]

-----------------------------------------------------------------------------
(* Facts about verdicts *)

\* A dataset verifies only if it is live; every other verdict is a refusal, and
\* what it loses is the dataset itself, in an open session.
LEMMA DatasetFacts ==
    ASSUME NEW s \in Sessions, NEW d \in Datasets
    PROVE  /\ DatasetVerdict(s, d).code \in {"ok", "not_found", "scope_denied", "corrupt"}
           /\ DatasetVerdict(s, d).code = "ok" => LiveIn(s, d) /\ DatasetVerdict(s, d).lost = {}
           /\ DatasetVerdict(s, d).lost \in {{}, {d}}
           /\ DatasetVerdict(s, d).lost # {} => s \notin closed /\ DatasetVerdict(s, d).code = "corrupt"
           /\ DatasetVerdict(s, d).code # "ok" => ~LiveIn(s, d) \/ DatasetVerdict(s, d).lost = {d}
  BY DEF DatasetVerdict, Resolve, Verdict, LiveIn

\* An entry verifies only together with its source.
LEMMA DirectoryFacts ==
    ASSUME NEW s \in Sessions, NEW r \in References, NEW entry,
           NEW v \in DirectoryVerdicts(s, r, entry)
    PROVE  /\ v.code \in {"ok", "not_found", "scope_denied", "corrupt", "invalid"}
           /\ v.code = "ok" => /\ entry = "good"
                               /\ v.lost = {}
                               /\ SourceOf[r] # NoSource => LiveIn(s, SourceOf[r])
           /\ v.lost = {} \/ (SourceOf[r] # NoSource /\ v.lost = {SourceOf[r]} /\ v.code = "corrupt")
           /\ v.code \notin {"ok", "invalid"} =>
                /\ SourceOf[r] # NoSource
                /\ ~LiveIn(s, SourceOf[r]) \/ v.lost = {SourceOf[r]}
           /\ entry = "good" => v.code # "invalid"
<1>1. SourceOf[r] # NoSource => SourceOf[r] \in Datasets
  BY CasAssumption DEF References
<1>2. CASE SourceOf[r] = NoSource
  BY <1>2 DEF DirectoryVerdicts, Verdict
<1>3. CASE SourceOf[r] # NoSource
  BY <1>1, <1>3, DatasetFacts DEF DirectoryVerdicts, Verdict
<1>4. QED BY <1>2, <1>3

-----------------------------------------------------------------------------
(* The refinement mapping *)

st == [s \in Sessions |-> [r \in References |-> StatusOf(s, r)]]

\* A reference maps to "live" exactly when the store would resolve it.
LEMMA MapLive ==
    ASSUME NEW s \in Sessions, NEW r \in References
    PROVE  /\ st[s][r] = "live" <=> LiveIn(s, r)
           /\ st[s][r] = "expired" <=> s \in closed
           /\ st[s][r] \in {"absent", "live"} <=> s \notin closed /\ r \notin corrupt[s]
  BY DEF st, StatusOf, LiveIn

\* What a reference needs is a reference.
LEMMA NeededRefs ==
    ASSUME NEW r \in References
    PROVE  /\ Store!Needed(r) \subseteq References
           /\ r \in Store!Needed(r)
           /\ \A n \in Store!Needed(r) \ {r} : SourceOf[r] # NoSource /\ n = SourceOf[r]
           /\ SourceOf[r] # NoSource => SourceOf[r] \in Store!Needed(r)
  BY CasAssumption DEF Store!Needed, References

\* Steps that change neither references, quarantine nor closing keep the status.
LEMMA MapUnchanged == UNCHANGED <<closed, references, corrupt>> => st' = st
  BY DEF st, StatusOf

\* A refusal of something that is not live with its source, or for want of room.
LEMMA MapRefuse ==
    ASSUME NEW s \in Sessions, NEW r \in References, NEW c \in Store!Refusals,
           UNCHANGED <<closed, references, corrupt>>, Reply(s, r, c),
           c \in {"cache_full", "publication_failed"} \/ \E n \in Store!Needed(r) : ~LiveIn(s, n)
    PROVE  Store!Refuse(s, r)
<1>1. st' = st BY MapUnchanged
<1>2. Store!Live(s, r) => c \in {"cache_full", "publication_failed"}
  BY MapLive, NeededRefs DEF Store!Live, st
<1>3. QED BY <1>1, <1>2 DEF Store!Refuse, Store!Reply, Reply, st

\* A successful load.
LEMMA MapServe ==
    ASSUME NEW s \in Sessions, NEW r \in References,
           UNCHANGED <<closed, references, corrupt>>, Reply(s, r, "ok"),
           \A n \in Store!Needed(r) : LiveIn(s, n)
    PROVE  Store!Serve(s, r)
<1>1. st' = st BY MapUnchanged
<1>2. Store!Live(s, r) BY MapLive, NeededRefs DEF Store!Live, st
<1>3. QED BY <1>1, <1>2 DEF Store!Serve, Store!Reply, Reply, st

\* A successful publication.
LEMMA MapPublish ==
    ASSUME TypeCore, NEW s \in Sessions, NEW r \in References,
           s \notin closed, r \notin corrupt[s],
           SourceOf[r] # NoSource => LiveIn(s, SourceOf[r]),
           references' = [references EXCEPT ![s] = @ \cup {r}],
           UNCHANGED <<closed, corrupt>>, Reply(s, r, "ok")
    PROVE  Store!Publish(s, r)
<1>1. st' = [st EXCEPT ![s][r] = "live"]
  BY DEF st, StatusOf, TypeCore
<1>2. st[s][r] \in {"absent", "live"} BY MapLive
<1>3. \A n \in Store!Needed(r) \ {r} : st[s][n] = "live"
  BY MapLive, NeededRefs
<1>4. QED BY <1>1, <1>2, <1>3 DEF Store!Publish, Store!Reply, Reply, st

\* A failed verification.
LEMMA MapLose ==
    ASSUME TypeCore, NEW s \in Sessions, NEW r \in References, NEW R \in SUBSET Store!Needed(r),
           R # {}, s \notin closed, corrupt' = [corrupt EXCEPT ![s] = @ \cup R],
           UNCHANGED <<closed, references>>, Reply(s, r, "corrupt")
    PROVE  Store!Lose(s, r)
<1>1. R \subseteq References BY NeededRefs
<1>2. st' = [st EXCEPT ![s] = [n \in References |-> IF n \in R THEN "corrupt" ELSE st[s][n]]]
  BY <1>1 DEF st, StatusOf, TypeCore
<1>3. \A n \in R : st[s][n] # "expired" BY <1>1, MapLive
<1>4. QED BY <1>2, <1>3 DEF Store!Lose, Store!Reply, Reply, st

\* Closing.
LEMMA MapExpire ==
    ASSUME TypeCore, NEW s \in Sessions, Close(s)
    PROVE  Store!Expire(s)
<1>1. st' = [st EXCEPT ![s] = [r \in References |-> "expired"]]
  BY DEF st, StatusOf, Close, TypeCore
<1>2. QED BY <1>1 DEF Store!Expire, st, Close

\* Registration of a verified entry publishes it or finds the session full.
LEMMA RegisterMaps ==
    ASSUME TypeCore, NEW s \in Sessions, NEW r \in References,
           s \notin closed, r \notin corrupt[s],
           SourceOf[r] # NoSource => LiveIn(s, SourceOf[r]),
           Register(s, r), UNCHANGED <<closed, corrupt>>
    PROVE  Store!Publish(s, r) \/ Store!Refuse(s, r)
<1>1. CASE r \in references[s] \/ Fits(s, r)
  <2>1. references' = [references EXCEPT ![s] = @ \cup {r}] /\ Reply(s, r, "ok")
    BY <1>1 DEF Register, TypeCore
  <2>2. QED BY <2>1, MapPublish
<1>2. CASE ~(r \in references[s] \/ Fits(s, r))
  <2>1. UNCHANGED references /\ Reply(s, r, "cache_full") BY <1>2 DEF Register
  <2>2. "cache_full" \in Store!Refusals BY DEF Store!Refusals
  <2>3. QED BY <2>1, <2>2, MapRefuse
<1>3. QED BY <1>1, <1>2

\* Adopting an entry found at the destination.
LEMMA AdoptMaps ==
    ASSUME TypeCore, NEW s \in Sessions, NEW r \in References, NEW entry,
           s \notin closed, r \notin corrupt[s], Adopt(s, r, entry)
    PROVE  Store!Publish(s, r) \/ Store!Refuse(s, r) \/ Store!Lose(s, r)
<1>1. PICK v \in DirectoryVerdicts(s, r, entry) :
        IF v.code = "ok"
        THEN Register(s, r) /\ UNCHANGED <<closed, corrupt>>
        ELSE /\ Quarantine(s, v.lost \cup {r}, [disk[s] EXCEPT ![r] = entry])
             /\ Reply(s, r, "corrupt")
             /\ UNCHANGED <<closed, references, used, registry>>
  BY DEF Adopt
<1>2. CASE v.code = "ok"
  BY <1>1, <1>2, DirectoryFacts, RegisterMaps
<1>3. CASE v.code # "ok"
  <2>1. v.lost \cup {r} \in SUBSET Store!Needed(r) BY DirectoryFacts, NeededRefs
  <2>2. corrupt' = [corrupt EXCEPT ![s] = @ \cup (v.lost \cup {r})] BY <1>1, <1>3 DEF Quarantine
  <2>3. QED BY <1>1, <1>3, <2>1, <2>2, MapLose
<1>4. QED BY <1>2, <1>3

\* Every publication is a step of the abstract store.
LEMMA PublishMaps ==
    ASSUME TypeCore, NEW s \in Sessions, NEW r \in References, Publish(s, r)
    PROVE  Store!Publish(s, r) \/ Store!Refuse(s, r) \/ Store!Lose(s, r)
<1> USE DEF Store!Refusals
<1>1. CASE PublishFails(s, r)
  BY <1>1, MapRefuse DEF PublishFails, Refuse
<1>2. CASE PublishDenied(s, r)
  <2>1. r \in Store!Needed(r) /\ ~LiveIn(s, r) BY <1>2, NeededRefs DEF PublishDenied, LiveIn
  <2>2. QED BY <1>2, <2>1, MapRefuse DEF PublishDenied, Refuse
<1>3. CASE PublishExisting(s, r)
  BY <1>3, AdoptMaps DEF PublishExisting
<1>4. CASE PublishFresh(s, r)
  <2>0. s \notin closed /\ r \notin corrupt[s] BY <1>4 DEF PublishFresh
  <2>1. CASE ~Fits(s, r) /\ Refuse(s, r, "cache_full")
    BY <2>1, MapRefuse DEF Refuse
  <2>2. CASE \E v \in DirectoryVerdicts(s, r, "good") :
               /\ v.code # "ok"
               /\ Quarantine(s, v.lost, disk[s])
               /\ Reply(s, r, v.code)
               /\ UNCHANGED <<closed, references, used, registry>>
    <3>1. PICK v \in DirectoryVerdicts(s, r, "good") :
            /\ v.code # "ok"
            /\ Quarantine(s, v.lost, disk[s])
            /\ Reply(s, r, v.code)
            /\ UNCHANGED <<closed, references, used, registry>>
      BY <2>2
    <3>2. v.code \in {"not_found", "scope_denied", "corrupt"} BY <3>1, DirectoryFacts
    <3>3. CASE v.lost = {}
      <4>1. UNCHANGED corrupt BY <3>1, <3>3 DEF Quarantine, TypeCore
      <4>2. SourceOf[r] \in Store!Needed(r) /\ ~LiveIn(s, SourceOf[r])
        BY <3>1, <3>2, <3>3, DirectoryFacts, NeededRefs
      <4>3. QED BY <3>1, <3>2, <4>1, <4>2, MapRefuse
    <3>4. CASE v.lost # {}
      <4>1. v.lost \in SUBSET Store!Needed(r) /\ v.code = "corrupt"
        BY <3>4, DirectoryFacts, NeededRefs
      <4>2. corrupt' = [corrupt EXCEPT ![s] = @ \cup v.lost] BY <3>1 DEF Quarantine
      <4>3. QED BY <2>0, <3>1, <3>4, <4>1, <4>2, MapLose
    <3>5. QED BY <3>3, <3>4
  <2>3. CASE /\ Verdict("ok", {}) \in DirectoryVerdicts(s, r, "good")
             /\ Register(s, r)
             /\ UNCHANGED <<closed, corrupt>>
    <3>1. SourceOf[r] # NoSource => LiveIn(s, SourceOf[r])
      <4>1. Verdict("ok", {}).code = "ok" BY DEF Verdict
      <4>2. QED BY <2>3, <4>1, DirectoryFacts
    <3>2. QED BY <2>0, <2>3, <3>1, RegisterMaps
  <2>4. CASE \E entry \in {"good", "bad"} : Adopt(s, r, entry)
    BY <2>0, <2>4, AdoptMaps
  <2>5. QED BY <1>4, <2>1, <2>2, <2>3, <2>4 DEF PublishFresh
<1>5. QED BY <1>1, <1>2, <1>3, <1>4 DEF Publish

\* So is every load.
LEMMA LoadMaps ==
    ASSUME TypeCore, NEW s \in Sessions, NEW r \in References,
           LoadDataset(s, r) \/ LoadOperation(s, r)
    PROVE  Store!Serve(s, r) \/ Store!Refuse(s, r) \/ Store!Lose(s, r)
<1> USE DEF Store!Refusals
<1>1. CASE LoadDataset(s, r)
  <2> DEFINE v == DatasetVerdict(s, r)
  <2>0. /\ r \in Datasets /\ Quarantine(s, v.lost, disk[s]) /\ Reply(s, r, v.code)
        /\ UNCHANGED <<closed, references, used, registry>>
    BY <1>1 DEF LoadDataset
  <2>1. Store!Needed(r) = {r} BY <2>0, CasAssumption DEF Store!Needed
  <2> HIDE DEF v
  <2>2. CASE v.lost = {}
    <3>1. UNCHANGED corrupt BY <2>0, <2>2 DEF Quarantine, TypeCore
    <3>2. CASE v.code = "ok"
      BY <2>0, <2>1, <3>1, <3>2, DatasetFacts, MapServe DEF v
    <3>3. CASE v.code # "ok"
      BY <2>0, <2>1, <2>2, <3>1, <3>3, DatasetFacts, MapRefuse DEF v
    <3>4. QED BY <3>2, <3>3
  <2>3. CASE v.lost # {}
    <3>1. v.lost \in SUBSET Store!Needed(r) /\ v.code = "corrupt" /\ s \notin closed
      BY <2>0, <2>1, <2>3, DatasetFacts DEF v
    <3>2. corrupt' = [corrupt EXCEPT ![s] = @ \cup v.lost] BY <2>0 DEF Quarantine
    <3>3. QED BY <2>0, <2>3, <3>1, <3>2, MapLose
  <2>4. QED BY <2>2, <2>3
<1>2. CASE LoadOperation(s, r)
  <2>1. CASE Resolve(s, r) # "ok"
    <3>1. Refuse(s, r, Resolve(s, r)) BY <1>2, <2>1 DEF LoadOperation
    <3>2. Resolve(s, r) \in {"not_found", "corrupt", "scope_denied"} /\ ~LiveIn(s, r)
      BY <2>1 DEF Resolve, LiveIn
    <3>3. QED BY <3>1, <3>2, NeededRefs, MapRefuse DEF Refuse
  <2>2. CASE Resolve(s, r) = "ok"
    <3>1. LiveIn(s, r) BY <2>2 DEF Resolve, LiveIn
    <3>2. PICK v \in DirectoryVerdicts(s, r, disk[s][r]) :
            /\ Quarantine(s, IF v.code = "ok" THEN {} ELSE v.lost \cup {r}, disk[s])
            /\ Reply(s, r, IF v.code = "ok" THEN "ok" ELSE "corrupt")
            /\ UNCHANGED <<closed, references, used, registry>>
      BY <1>2, <2>2 DEF LoadOperation
    <3>3. CASE v.code = "ok"
      <4>1. UNCHANGED corrupt BY <3>2, <3>3 DEF Quarantine, TypeCore
      <4>2. \A n \in Store!Needed(r) : LiveIn(s, n) BY <3>1, <3>3, DirectoryFacts, NeededRefs
      <4>3. QED BY <3>2, <3>3, <4>1, <4>2, MapServe
    <3>4. CASE v.code # "ok"
      <4>1. v.lost \cup {r} \in SUBSET Store!Needed(r) BY DirectoryFacts, NeededRefs
      <4>2. corrupt' = [corrupt EXCEPT ![s] = @ \cup (v.lost \cup {r})] BY <3>2, <3>4 DEF Quarantine
      <4>3. s \notin closed BY <3>1 DEF LiveIn
      <4>4. QED BY <3>2, <3>4, <4>1, <4>2, <4>3, MapLose
    <3>5. QED BY <3>3, <3>4
  <2>3. QED BY <2>1, <2>2
<1>3. QED BY <1>1, <1>2

-----------------------------------------------------------------------------
(* The bytes of a set of references *)

\* A set that has every subset of S whose proper subsets it has, has them all.
LEMMA SubsetInduction ==
    ASSUME NEW S, IsFiniteSet(S), NEW T,
           \A R \in SUBSET S : (\A Q \in SUBSET R : Q # R => Q \in T) => R \in T
    PROVE  SUBSET S \subseteq T
<1> DEFINE Missing == (SUBSET S) \ T
<1>1. SUFFICES ASSUME Missing # {} PROVE FALSE
  OBVIOUS
<1>2. FiniteSubsetsOf(S) = SUBSET S
  BY FS_FiniteSubsetsOfFinite
<1>3. PICK R \in Missing : \A Q \in Missing : <<Q, R>> \notin StrictSubsetOrdering(S)
  <2> HIDE DEF Missing
  <2>1. Missing \subseteq FiniteSubsetsOf(S) BY <1>2 DEF Missing
  <2>2. QED BY <1>1, <2>1, FS_StrictSubsetOrderingWellFounded, WFMin
<1>4. ASSUME NEW Q \in SUBSET R, Q # R PROVE Q \in T
  <2>1. <<Q, R>> \in StrictSubsetOrdering(S) BY <1>4 DEF StrictSubsetOrdering
  <2>2. QED BY <1>3, <2>1, <1>4
<1>5. QED BY <1>3, <1>4

\* The bytes of a set, and the function that sums them over its subsets, one member at a time.
Bytes(R) == MapThenSumSet(LAMBDA r : Size[r], R)

SumsOver(g, R) ==
    g = [T \in SUBSET R |-> IF T = {} THEN 0
                            ELSE Size[CHOOSE r \in T : TRUE] + g[T \ {CHOOSE r \in T : TRUE}]]

\* Bytes is what that function, if there is one, has for the whole set.
LEMMA BytesBySums == \A R : Bytes(R) = (CHOOSE g : SumsOver(g, R))[R]
  BY DEF Bytes, MapThenSumSet, MapThenFoldSet, SumsOver

\* Two of these functions agree where they overlap.
LEMMA SumsAgree ==
    ASSUME NEW R, NEW Q, IsFiniteSet(Q), Q \subseteq R,
           NEW f, SumsOver(f, R), NEW g, SumsOver(g, Q)
    PROVE  f[Q] = g[Q]
<1> DEFINE T == {P \in SUBSET Q : f[P] = g[P]}
<1>1. ASSUME NEW P \in SUBSET Q, \A O \in SUBSET P : O # P => O \in T PROVE P \in T
  <2>1. CASE P = {} BY <2>1 DEF SumsOver
  <2>2. CASE P # {}
    <3> DEFINE c == CHOOSE r \in P : TRUE
    <3>1. c \in P BY <2>2
    <3> HIDE DEF c
    <3>2. P \ {c} \in SUBSET P /\ P \ {c} # P BY <3>1
    <3>3. f[P \ {c}] = g[P \ {c}] BY <1>1, <3>2
    <3>4. f[P] = Size[c] + f[P \ {c}] BY <2>2 DEF SumsOver, c
    <3>5. g[P] = Size[c] + g[P \ {c}] BY <2>2 DEF SumsOver, c
    <3>6. QED BY <3>3, <3>4, <3>5
  <2>3. QED BY <2>1, <2>2
<1>2. SUBSET Q \subseteq T
  <2> HIDE DEF T
  <2>1. QED BY <1>1, SubsetInduction
<1>3. QED BY <1>2

\* There is one for every finite set.
LEMMA SumsExist ==
    ASSUME NEW S, IsFiniteSet(S)
    PROVE  \E g : SumsOver(g, S)
<1> DEFINE T == {R \in SUBSET S : \E g : SumsOver(g, R)}
           Sum(R) == (CHOOSE g : SumsOver(g, R))[R]
           Step(R) == IF R = {} THEN 0
                      ELSE Size[CHOOSE r \in R : TRUE] + Sum(R \ {CHOOSE r \in R : TRUE})
<1>1. ASSUME NEW R \in SUBSET S, \A Q \in SUBSET R : Q # R => Q \in T PROVE R \in T
  <2> DEFINE g == [Q \in SUBSET R |-> Step(Q)]
  <2>1. ASSUME NEW Q \in SUBSET R, Q # R PROVE g[Q] = Sum(Q)
    <3>1. PICK f : f = CHOOSE h : SumsOver(h, Q) OBVIOUS
    <3>2. SumsOver(f, Q) BY <1>1, <2>1, <3>1
    <3>3. CASE Q = {} BY <3>1, <3>2, <3>3 DEF SumsOver
    <3>4. CASE Q # {}
      <4> DEFINE c == CHOOSE r \in Q : TRUE
                 P == Q \ {c}
      <4>1. c \in Q BY <3>4
      <4>2. f[Q] = Size[c] + f[P] BY <3>2, <3>4 DEF SumsOver
      <4>3. g[Q] = Size[c] + Sum(P) BY <3>4
      <4>4. P \in SUBSET R /\ P # R /\ P \subseteq Q BY <4>1
      <4> HIDE DEF g, c, P
      <4>5. PICK e : e = CHOOSE h : SumsOver(h, P) OBVIOUS
      <4>6. SumsOver(e, P) BY <1>1, <4>4, <4>5
      <4>7. IsFiniteSet(P) BY <4>4, FS_Subset
      <4>8. f[P] = e[P] BY <3>2, <4>4, <4>6, <4>7, SumsAgree
      <4>9. QED BY <3>1, <4>2, <4>3, <4>5, <4>8
    <3>5. QED BY <3>3, <3>4
  <2>2. \A Q \in SUBSET R : Q # {} => (CHOOSE r \in Q : TRUE) \in Q
    OBVIOUS
  <2>3. ASSUME NEW Q \in SUBSET R
        PROVE  g[Q] = IF Q = {} THEN 0
                      ELSE Size[CHOOSE r \in Q : TRUE] + g[Q \ {CHOOSE r \in Q : TRUE}]
    <3>1. CASE Q = {} BY <3>1
    <3>2. CASE Q # {}
      <4> DEFINE c == CHOOSE r \in Q : TRUE
      <4>1. g[Q] = Size[c] + Sum(Q \ {c}) BY <3>2
      <4>2. c \in Q BY <3>2
      <4> HIDE DEF c, g
      <4>3. Q \ {c} \in SUBSET R /\ Q \ {c} # R BY <4>2
      <4>4. g[Q \ {c}] = Sum(Q \ {c}) BY <2>1, <4>3
      <4>5. QED BY <3>2, <4>1, <4>4 DEF c
    <3>3. QED BY <3>1, <3>2
  <2>4. g = [Q \in SUBSET R |-> g[Q]] OBVIOUS
  <2> HIDE DEF g
  <2>5. SumsOver(g, R) BY <2>3, <2>4 DEF SumsOver
  <2>6. QED BY <2>5
<1>2. SUBSET S \subseteq T
  <2> HIDE DEF T
  <2>1. QED BY <1>1, SubsetInduction
<1>3. QED BY <1>2

\* The bytes of the empty set, and of a set whose chosen member is set aside.
LEMMA BytesUnfold ==
    ASSUME NEW R, IsFiniteSet(R)
    PROVE  /\ R = {} => Bytes(R) = 0
           /\ R # {} => Bytes(R) = Size[CHOOSE r \in R : TRUE] + Bytes(R \ {CHOOSE r \in R : TRUE})
<1>1. PICK f : f = CHOOSE h : SumsOver(h, R) OBVIOUS
<1>2. SumsOver(f, R) /\ Bytes(R) = f[R] BY <1>1, SumsExist, BytesBySums
<1>3. R = {} => Bytes(R) = 0 BY <1>2 DEF SumsOver
<1>4. ASSUME R # {}
      PROVE  Bytes(R) = Size[CHOOSE r \in R : TRUE] + Bytes(R \ {CHOOSE r \in R : TRUE})
  <2> DEFINE c == CHOOSE r \in R : TRUE
             P == R \ {c}
  <2>1. f[R] = Size[c] + f[P] BY <1>2, <1>4 DEF SumsOver
  <2> HIDE DEF c, P
  <2>2. P \subseteq R /\ IsFiniteSet(P) BY FS_Subset DEF P
  <2>3. PICK e : e = CHOOSE h : SumsOver(h, P) OBVIOUS
  <2>4. SumsOver(e, P) /\ Bytes(P) = e[P] BY <2>2, <2>3, SumsExist, BytesBySums
  <2>5. f[P] = e[P] BY <1>2, <2>2, <2>4, SumsAgree
  <2>6. Bytes(R) = Size[c] + Bytes(P) BY <1>2, <2>1, <2>4, <2>5
  <2>7. QED BY <2>6 DEF c, P
<1>5. QED BY <1>3, <1>4

\* It does not matter which member is set aside.
LEMMA BytesWithout ==
    \A R \in SUBSET References :
        Bytes(R) \in Nat /\ \A r \in R : Bytes(R) = Size[r] + Bytes(R \ {r})
<1> DEFINE T == {R \in SUBSET References :
                    Bytes(R) \in Nat /\ \A r \in R : Bytes(R) = Size[r] + Bytes(R \ {r})}
<1>0. IsFiniteSet(References) /\ \A r \in References : Size[r] \in Nat
  BY CasAssumption
<1>1. ASSUME NEW R \in SUBSET References, \A Q \in SUBSET R : Q # R => Q \in T PROVE R \in T
  <2>1. CASE R = {}
    <3>1. Bytes(R) = 0 BY <1>0, <2>1, FS_EmptySet, BytesUnfold
    <3>2. QED BY <2>1, <3>1
  <2>2. CASE R # {}
    <3> DEFINE c == CHOOSE r \in R : TRUE
    <3>1. c \in R BY <2>2
    <3>2. IsFiniteSet(R) BY <1>0, FS_Subset
    <3>3. Bytes(R) = Size[c] + Bytes(R \ {c}) BY <2>2, <3>2, BytesUnfold
    <3> HIDE DEF c
    <3>4. R \ {c} \in T BY <1>1, <3>1
    <3>5. Bytes(R) \in Nat BY <1>0, <3>1, <3>3, <3>4
    <3>6. ASSUME NEW r \in R PROVE Bytes(R) = Size[r] + Bytes(R \ {r})
      <4>1. CASE r = c BY <3>3, <4>1
      <4>2. CASE r # c
        <5>1. R \ {r} \in T /\ r \in R \ {c} /\ c \in R \ {r} BY <1>1, <3>1, <3>6, <4>2
        <5>2. Bytes(R \ {c}) = Size[r] + Bytes((R \ {c}) \ {r}) BY <3>4, <5>1
        <5>3. Bytes(R \ {r}) = Size[c] + Bytes((R \ {r}) \ {c}) BY <5>1
        <5>4. (R \ {c}) \ {r} = (R \ {r}) \ {c} OBVIOUS
        <5>5. (R \ {r}) \ {c} \in T
          <6>1. (R \ {r}) \ {c} \in SUBSET R /\ (R \ {r}) \ {c} # R BY <3>1
          <6>2. QED BY <1>1, <6>1
        <5> DEFINE x == Bytes((R \ {r}) \ {c})
                   a == Bytes(R \ {c})
                   b == Bytes(R \ {r})
        <5>6. x \in Nat /\ Size[r] \in Nat /\ Size[c] \in Nat
          BY <1>0, <3>1, <3>6, <5>5
        <5>7. a = Size[r] + x /\ b = Size[c] + x /\ Bytes(R) = Size[c] + a
          BY <3>3, <5>2, <5>3, <5>4
        <5> HIDE DEF x, a, b
        <5>8. Bytes(R) = Size[r] + b BY <5>6, <5>7
        <5>9. QED BY <5>8 DEF b
      <4>3. QED BY <4>1, <4>2
    <3>7. QED BY <3>5, <3>6
  <2>3. QED BY <2>1, <2>2
<1>2. SUBSET References \subseteq T
  <2> HIDE DEF T
  <2>1. QED BY <1>0, <1>1, SubsetInduction
<1>3. QED BY <1>2

-----------------------------------------------------------------------------
(* Invariants *)

\* The invariant: types, the byte limit, the registry, and the sources.
CasInv == TypeCore /\ ScopeExact /\ SourceRegistered

\* Registration keeps it, for an entry whose source is live.
LEMMA RegisterInv ==
    ASSUME CasInv, NEW s \in Sessions, NEW r \in References, Register(s, r),
           SourceOf[r] # NoSource => LiveIn(s, SourceOf[r]),
           UNCHANGED <<closed, corrupt>>,
           disk' \in [Sessions -> [References -> {"absent", "good", "bad"}]]
    PROVE  CasInv'
<1>1. CASE UNCHANGED <<references, used, registry>>
  <2>1. TypeCore' BY <1>1 DEF CasInv, TypeCore
  <2>2. ScopeExact' /\ SourceRegistered' BY <1>1 DEF CasInv, ScopeExact, SourceRegistered
  <2>3. QED BY <2>1, <2>2 DEF CasInv
<1>2. CASE /\ Fits(s, r)
           /\ references' = [references EXCEPT ![s] = @ \cup {r}]
           /\ used' = [used EXCEPT ![s] = @ + Size[r]]
           /\ registry' = [registry EXCEPT ![r] = @ \cup {s}]
  <2>1. /\ references \in [Sessions -> SUBSET References]
        /\ registry \in [References -> SUBSET Sessions]
        /\ used \in [Sessions -> Nat] /\ \A t \in Sessions : used[t] <= SessionBytes[t]
        /\ Size[r] \in Nat /\ SessionBytes \in [Sessions -> Nat]
    BY CasAssumption DEF CasInv, TypeCore
  <2>2. used' \in [Sessions -> Nat] /\ \A t \in Sessions : used'[t] <= SessionBytes[t]
    BY <1>2, <2>1 DEF Fits
  <2>3. TypeCore' BY <1>2, <2>1, <2>2 DEF CasInv, TypeCore
  <2>4. ScopeExact' BY <1>2, <2>1 DEF CasInv, ScopeExact
  <2>5. SourceRegistered' BY <1>2, <2>1 DEF CasInv, SourceRegistered, LiveIn
  <2>6. QED BY <2>3, <2>4, <2>5 DEF CasInv
<1>3. QED BY <1>1, <1>2 DEF Register

\* Quarantine touches neither references nor the registry.
LEMMA QuarantineInv ==
    ASSUME CasInv, NEW s \in Sessions, NEW lost \in SUBSET References,
           NEW entries \in [References -> {"absent", "good", "bad"}],
           Quarantine(s, lost, entries), UNCHANGED <<closed, references, used, registry>>
    PROVE  CasInv'
<1>1. TypeCore' BY DEF Quarantine, CasInv, TypeCore
<1>2. ScopeExact' /\ SourceRegistered' BY DEF CasInv, ScopeExact, SourceRegistered
<1>3. QED BY <1>1, <1>2 DEF CasInv

\* Neither does a refusal.
LEMMA RefuseInv ==
    ASSUME CasInv, UNCHANGED <<closed, references, corrupt, used, disk, registry>>
    PROVE  CasInv'
  BY DEF CasInv, TypeCore, ScopeExact, SourceRegistered

\* Adoption and the other ways to publish.
LEMMA AdoptInv ==
    ASSUME CasInv, NEW s \in Sessions, NEW r \in References, NEW entry \in {"absent", "good", "bad"},
           Adopt(s, r, entry)
    PROVE  CasInv'
<1>1. PICK v \in DirectoryVerdicts(s, r, entry) :
        IF v.code = "ok"
        THEN Register(s, r) /\ disk' = [disk EXCEPT ![s][r] = entry] /\ UNCHANGED <<closed, corrupt>>
        ELSE /\ Quarantine(s, v.lost \cup {r}, [disk[s] EXCEPT ![r] = entry])
             /\ UNCHANGED <<closed, references, used, registry>>
  BY DEF Adopt
<1>2. CASE v.code = "ok"
  <2>1. disk' = [disk EXCEPT ![s][r] = entry] BY <1>1, <1>2
  <2>2. disk \in [Sessions -> [References -> {"absent", "good", "bad"}]] BY DEF CasInv, TypeCore
  <2>3. disk' \in [Sessions -> [References -> {"absent", "good", "bad"}]] BY <2>1, <2>2
  <2>4. QED BY <1>1, <1>2, <2>3, DirectoryFacts, RegisterInv
<1>3. CASE v.code # "ok"
  <2>1. v.lost \cup {r} \in SUBSET References BY DirectoryFacts, CasAssumption DEF References
  <2>2. [disk[s] EXCEPT ![r] = entry] \in [References -> {"absent", "good", "bad"}]
    BY DEF CasInv, TypeCore
  <2>3. QED BY <1>1, <1>3, <2>1, <2>2, QuarantineInv
<1>4. QED BY <1>2, <1>3

\* Every step of a session keeps the invariant.
LEMMA StepCasInv == CasInv /\ [Next]_vars => CasInv'
<1>1. ASSUME CasInv, UNCHANGED vars PROVE CasInv'
  BY <1>1, RefuseInv DEF vars
<1>2. ASSUME CasInv, NEW s \in Sessions, Close(s) PROVE CasInv'
  <2>1. TypeCore' BY <1>2 DEF Close, CasInv, TypeCore
  <2>2. ScopeExact' BY <1>2 DEF Close, CasInv, TypeCore, ScopeExact
  <2>3. SourceRegistered' BY <1>2 DEF Close, CasInv, TypeCore, SourceRegistered
  <2>4. QED BY <2>1, <2>2, <2>3 DEF CasInv
<1>3. ASSUME CasInv, NEW s \in Sessions, NEW r \in References, Tamper(s, r) PROVE CasInv'
  <2>1. TypeCore' BY <1>3 DEF Tamper, CasInv, TypeCore
  <2>2. ScopeExact' /\ SourceRegistered' BY <1>3 DEF Tamper, CasInv, ScopeExact, SourceRegistered
  <2>3. QED BY <2>1, <2>2 DEF CasInv
<1>4. ASSUME CasInv, NEW s \in Sessions, NEW r \in References, LoadDataset(s, r) PROVE CasInv'
  <2>1. DatasetVerdict(s, r).lost \in SUBSET References BY <1>4, DatasetFacts DEF LoadDataset, References
  <2>2. disk[s] \in [References -> {"absent", "good", "bad"}] BY <1>4 DEF CasInv, TypeCore
  <2>3. QED BY <1>4, <2>1, <2>2, QuarantineInv DEF LoadDataset
<1>5. ASSUME CasInv, NEW s \in Sessions, NEW r \in References, LoadOperation(s, r) PROVE CasInv'
  <2>1. CASE Resolve(s, r) # "ok" BY <1>5, <2>1, RefuseInv DEF LoadOperation, Refuse
  <2>2. CASE Resolve(s, r) = "ok"
    <3>1. PICK v \in DirectoryVerdicts(s, r, disk[s][r]) :
            /\ Quarantine(s, IF v.code = "ok" THEN {} ELSE v.lost \cup {r}, disk[s])
            /\ UNCHANGED <<closed, references, used, registry>>
      BY <1>5, <2>2 DEF LoadOperation
    <3>2. v.lost \cup {r} \in SUBSET References BY DirectoryFacts, CasAssumption DEF References
    <3>3. disk[s] \in [References -> {"absent", "good", "bad"}] BY <1>5 DEF CasInv, TypeCore
    <3>4. QED BY <1>5, <3>1, <3>2, <3>3, QuarantineInv
  <2>3. QED BY <2>1, <2>2
<1>6. ASSUME CasInv, NEW s \in Sessions, NEW r \in References, Publish(s, r) PROVE CasInv'
  <2>1. CASE PublishFails(s, r) \/ PublishDenied(s, r)
    BY <1>6, <2>1, RefuseInv DEF PublishFails, PublishDenied, Refuse
  <2>2. disk[s][r] \in {"absent", "good", "bad"} /\ disk[s] \in [References -> {"absent", "good", "bad"}]
    BY <1>6 DEF CasInv, TypeCore
  <2>3. CASE PublishExisting(s, r) BY <1>6, <2>2, <2>3, AdoptInv DEF PublishExisting
  <2>4. CASE PublishFresh(s, r)
    <3>1. CASE Refuse(s, r, "cache_full") BY <1>6, <3>1, RefuseInv DEF Refuse
    <3>2. ASSUME NEW v \in DirectoryVerdicts(s, r, "good"), Quarantine(s, v.lost, disk[s]),
                 UNCHANGED <<closed, references, used, registry>>
          PROVE  CasInv'
      <4>1. v.lost \in SUBSET References BY DirectoryFacts, CasAssumption DEF References
      <4>2. QED BY <1>6, <2>2, <3>2, <4>1, QuarantineInv
    <3>3. CASE /\ Verdict("ok", {}) \in DirectoryVerdicts(s, r, "good")
               /\ Register(s, r)
               /\ disk' = [disk EXCEPT ![s][r] = "good"]
               /\ UNCHANGED <<closed, corrupt>>
      <4>1. Verdict("ok", {}).code = "ok" BY DEF Verdict
      <4>2. SourceOf[r] # NoSource => LiveIn(s, SourceOf[r]) BY <3>3, <4>1, DirectoryFacts
      <4>3. disk' \in [Sessions -> [References -> {"absent", "good", "bad"}]]
        BY <1>6, <3>3 DEF CasInv, TypeCore
      <4>4. QED BY <1>6, <3>3, <4>2, <4>3, RegisterInv
    <3>4. ASSUME NEW entry \in {"good", "bad"}, Adopt(s, r, entry) PROVE CasInv'
      BY <1>6, <3>4, AdoptInv
    <3>5. QED BY <2>4, <3>1, <3>2, <3>3, <3>4 DEF PublishFresh
  <2>5. QED BY <1>6, <2>1, <2>3, <2>4 DEF Publish
<1>7. QED BY <1>1, <1>2, <1>3, <1>4, <1>5, <1>6 DEF Next

\* The invariant holds initially.
LEMMA InitCasInv == Init => CasInv
  BY CasAssumption DEF Init, CasInv, TypeCore, ScopeExact, SourceRegistered

\* Every open session has been charged for each of its references, once.
ChargedInv == \A s \in Sessions \ closed : used[s] = Bytes(references[s])

\* A registration that charges a reference, in a session that did not have it.
Charges(s, r) ==
    /\ r \notin references[s]
    /\ references' = [references EXCEPT ![s] = @ \cup {r}]
    /\ used' = [used EXCEPT ![s] = @ + Size[r]]
    /\ UNCHANGED closed

\* Whatever a publication does, it charges one new reference or none.
LEMMA PublicationCharges ==
    ASSUME NEW s \in Sessions, NEW r \in References, Publish(s, r)
    PROVE  Charges(s, r) \/ UNCHANGED <<closed, references, used>>
<1>1. ASSUME Register(s, r), UNCHANGED closed
      PROVE  Charges(s, r) \/ UNCHANGED <<closed, references, used>>
  BY <1>1 DEF Register, Charges
<1>2. ASSUME NEW entry, Adopt(s, r, entry)
      PROVE  Charges(s, r) \/ UNCHANGED <<closed, references, used>>
  BY <1>1, <1>2 DEF Adopt
<1>3. CASE PublishFails(s, r) \/ PublishDenied(s, r)
  BY <1>3 DEF PublishFails, PublishDenied, Refuse
<1>4. CASE PublishExisting(s, r)
  BY <1>2, <1>4 DEF PublishExisting
<1>5. CASE PublishFresh(s, r)
  BY <1>1, <1>2, <1>5 DEF PublishFresh, Refuse
<1>6. QED BY <1>3, <1>4, <1>5 DEF Publish

\* One more reference weighs its own size more.
LEMMA ChargeKeeps ==
    ASSUME CasInv, ChargedInv, NEW s \in Sessions, NEW r \in References, Charges(s, r)
    PROVE  ChargedInv'
<1>1. /\ references \in [Sessions -> SUBSET References] /\ used \in [Sessions -> Nat]
  BY DEF CasInv, TypeCore
<1>2. references[s] \cup {r} \in SUBSET References /\ (references[s] \cup {r}) \ {r} = references[s]
  BY <1>1 DEF Charges
<1>3. Bytes(references[s] \cup {r}) = Size[r] + Bytes(references[s])
  <2> DEFINE R == references[s] \cup {r}
  <2>1. R \in SUBSET References /\ r \in R /\ R \ {r} = references[s] BY <1>2
  <2> HIDE DEF R
  <2>2. Bytes(R) = Size[r] + Bytes(R \ {r}) BY <2>1, BytesWithout
  <2>3. QED BY <2>1, <2>2 DEF R
<1>4. Size[r] \in Nat /\ Bytes(references[s]) \in Nat
  BY <1>1, BytesWithout, CasAssumption
<1>5. ASSUME NEW t \in Sessions \ closed PROVE used'[t] = Bytes(references'[t])
  <2>1. used[t] = Bytes(references[t]) BY <1>5 DEF ChargedInv
  <2>2. CASE t # s
    <3>1. used'[t] = used[t] /\ references'[t] = references[t] BY <1>1, <2>2 DEF Charges
    <3>2. QED BY <2>1, <3>1
  <2>3. CASE t = s
    <3>1. used'[t] = used[s] + Size[r] /\ references'[t] = references[s] \cup {r}
      BY <1>1, <2>3 DEF Charges
    <3>2. used'[t] = Bytes(references[s]) + Size[r] BY <2>1, <2>3, <3>1
    <3>3. Bytes(references'[t]) = Size[r] + Bytes(references[s]) BY <3>1, <1>3
    <3>4. QED BY <3>2, <3>3, <1>4
  <2>4. QED BY <2>2, <2>3
<1>6. closed' = closed BY DEF Charges
<1>7. QED
  <2>1. ASSUME NEW t \in Sessions \ closed' PROVE used'[t] = Bytes(references'[t])
    BY <1>5, <1>6
  <2>2. QED BY <2>1 DEF ChargedInv

\* Every step keeps the account.
LEMMA StepChargedInv == CasInv /\ ChargedInv /\ [Next]_vars => ChargedInv'
<1>1. ASSUME ChargedInv, UNCHANGED <<references, used>>, closed \subseteq closed' PROVE ChargedInv'
  BY <1>1 DEF ChargedInv
<1>2. ASSUME ChargedInv, UNCHANGED <<closed, references, used>> PROVE ChargedInv'
  BY <1>1, <1>2
<1>3. ASSUME CasInv, ChargedInv, NEW s \in Sessions, Close(s) PROVE ChargedInv'
  <2>1. closed' = closed \cup {s} /\ references' = [references EXCEPT ![s] = {}] /\ used' = used
    BY <1>3 DEF Close
  <2>2. references \in [Sessions -> SUBSET References] BY <1>3 DEF CasInv, TypeCore
  <2>3. ASSUME NEW t \in Sessions \ closed' PROVE used'[t] = Bytes(references'[t])
    <3>1. t # s /\ t \in Sessions \ closed /\ references'[t] = references[t] BY <2>1, <2>2, <2>3
    <3>2. QED BY <1>3, <2>1, <3>1 DEF ChargedInv
  <2>4. QED BY <2>3 DEF ChargedInv
<1>4. ASSUME CasInv, ChargedInv, NEW s \in Sessions, NEW r \in References, Publish(s, r)
      PROVE  ChargedInv'
  BY <1>2, <1>4, PublicationCharges, ChargeKeeps
<1>5. ASSUME ChargedInv, NEW s \in Sessions, NEW r \in References,
             LoadDataset(s, r) \/ LoadOperation(s, r) \/ Tamper(s, r)
      PROVE  ChargedInv'
  BY <1>2, <1>5 DEF LoadDataset, LoadOperation, Tamper, Refuse
<1>6. CASE UNCHANGED vars BY <1>2, <1>6 DEF vars
<1>7. QED BY <1>3, <1>4, <1>5, <1>6 DEF Next

-----------------------------------------------------------------------------
(* Theorems *)

\* Whatever is published, adopted, lost, quarantined or closed in whatever order,
\* by any number of sessions: the byte limit of each session holds, the registry
\* of SessionScopeRegistry names exactly the sessions that hold a reference, and
\* an operation is registered only beside its source.
THEOREM RegistrationSound == Spec => [](TypeCore /\ RegistryExact)
  BY InitCasInv, StepCasInv, PTL DEF Spec, CasInv, RegistryExact

\* _register and close: what a session has been charged is the size of the references
\* it holds, each once, however often one was republished, adopted, lost or quarantined,
\* and never more than the session may use.
THEOREM ReferencesChargedOnce == Spec => []BytesAccounted
<1>1. Init => ChargedInv
  <2> SUFFICES ASSUME Init PROVE ChargedInv
    OBVIOUS
  <2>1. Bytes({}) = 0 BY FS_EmptySet, BytesUnfold
  <2>2. QED BY <2>1 DEF Init, ChargedInv
<1>2. CasInv /\ ChargedInv => BytesAccounted
  BY DEF CasInv, TypeCore, ChargedInv, BytesAccounted, Bytes
<1>3. QED BY <1>1, <1>2, InitCasInv, StepCasInv, StepChargedInv, PTL DEF Spec

\* SessionCas implements ImmutableStore: each of its steps is a step of the
\* abstract store, or changes nothing it shows.
THEOREM StoreImplemented == Spec => ImplementsStore
<1>1. Init => Store!Init
  BY DEF Init, Store!Init, StatusOf, NoReply, Store!NoReply
<1>2. CasInv /\ [Next]_vars => [Store!Next]_Store!vars
  <2>1. ASSUME CasInv, UNCHANGED vars PROVE UNCHANGED Store!vars
    BY <2>1, MapUnchanged DEF vars, Store!vars, st
  <2>2. ASSUME CasInv, NEW s \in Sessions, Close(s) PROVE Store!Next
    BY <2>2, MapExpire DEF CasInv, Store!Next
  <2>3. ASSUME CasInv, NEW s \in Sessions, NEW r \in References, Tamper(s, r)
        PROVE  UNCHANGED Store!vars
    BY <2>3, MapUnchanged DEF Tamper, Store!vars, st
  <2>4. ASSUME CasInv, NEW s \in Sessions, NEW r \in References, Publish(s, r) PROVE Store!Next
    BY <2>4, PublishMaps DEF CasInv, Store!Next
  <2>5. ASSUME CasInv, NEW s \in Sessions, NEW r \in References, LoadDataset(s, r) \/ LoadOperation(s, r)
        PROVE  Store!Next
    BY <2>5, LoadMaps DEF CasInv, Store!Next
  <2>6. QED BY <2>1, <2>2, <2>3, <2>4, <2>5 DEF Next
<1>3. QED BY <1>1, <1>2, InitCasInv, StepCasInv, PTL DEF Spec, ImplementsStore, Store!Spec
=============================================================================
