------------------------ MODULE ModelResidencyProofs ------------------------
(***************************************************************************)
(* The safety of the model registry, the residency manager and the         *)
(* backend on top of the resource manager, for every set of models, every  *)
(* capacity and each of the three backends, with clients that come and go  *)
(* between the steps of a load.                                            *)
(***************************************************************************)
EXTENDS ModelResidency, ResourceManagerProofs

-----------------------------------------------------------------------------
(***************************************************************************)
(* The inductive invariant.                                                *)
(***************************************************************************)

\* The state is well formed, in terms of ledgers.
LedgersOK ==
    /\ models \in Ledgers(ModelIds, ModelRecords)
    /\ records \in Ledgers(ModelIds, ResidencyRecords)
    /\ allocations \in Ledgers(ModelIds, Sizes \ {0})
    /\ stranded \subseteq ModelIds
    /\ loading \in Loads \cup {NoLoad}
    /\ model_reply \in ModelErrors \cup {"NoReply"}

\* The models that a list names.
Listed(list) == {list[i] : i \in DOMAIN list}

\* What models take up in the records.
Footprints(ids) == Total([id \in ids |-> records[id].footprint])

\* What a load that has filled the backend may rely on when it goes on: its
\* model is registered as it was, in the backend and not resident, and the
\* models it is yet to evict are still resident and not in use, and different.
LoadingSound ==
    loading # NoLoad =>
        /\ loading.id \in DOMAIN models /\ loading.id \notin Resident
        /\ loading.footprint = models[loading.id].footprint
        /\ loading.refs = models[loading.id].refs
        /\ loading.id \in DOMAIN allocations /\ loading.id \notin stranded
        /\ allocations[loading.id] = loading.footprint
        /\ \A i \in DOMAIN loading.evictions :
              /\ loading.evictions[i] \in Resident
              /\ records[loading.evictions[i]].refs = 0
        /\ \A i, j \in DOMAIN loading.evictions :
              i # j => loading.evictions[i] # loading.evictions[j]

\* A load evicts no model needlessly: without the last one, those that it is
\* yet to evict do not make room for it.
PlanShort ==
    loading # NoLoad /\ loading.evictions # <<>> =>
        Footprints(Listed(loading.evictions)
                   \ {loading.evictions[Len(loading.evictions)]}) < loading.footprint

\* The part of the invariant that is about models.
ModelsInv ==
    /\ LedgersOK
    /\ ResidencyAgrees
    /\ BackendAgrees
    /\ ResidentIsAllocated
    /\ RefCountsAgree
    /\ LoadingSound
    /\ PlanShort

\* The whole of it.
RInv == IInv /\ ModelsInv

\* The records, the registry and the backend are functions on sets of ids.
LEMMA ResidencyFunctions ==
    ASSUME LedgersOK
    PROVE  /\ models \in [DOMAIN models -> ModelRecords]
           /\ records \in [DOMAIN records -> ResidencyRecords]
           /\ allocations \in [DOMAIN allocations -> Sizes \ {0}]
           /\ DOMAIN models \subseteq ModelIds
           /\ DOMAIN records \subseteq ModelIds
           /\ DOMAIN allocations \subseteq ModelIds
BY LedgersFunction DEF LedgersOK

-----------------------------------------------------------------------------
(***************************************************************************)
(* The backend.                                                            *)
(***************************************************************************)

\* No backend unloads what it was not asked to unload.
LEMMA UnloadsWhatWasAsked ==
    ASSUME NEW ids, NEW unloaded \in Unloadable(ids)
    PROVE  unloaded \subseteq ids \cap DOMAIN allocations
BY BackendAssumption DEF Unloadable, MockUnloads, CudaUnloads, MetalUnloads

\* No backend loads a model that it has already.
LEMMA LoadsOnlyNewModels ==
    ASSUME NEW id, NEW loaded \in BackendLoadOutcomes(id), loaded
    PROVE  id \notin DOMAIN allocations
BY BackendAssumption DEF BackendLoadOutcomes, MockLoads, CudaLoads, MetalLoads

\* An unload takes some of the models out of the backend, and those that
\* it should have taken out and did not are stranded.
LEMMA UnloadEffect ==
    ASSUME NEW ids, BackendUnload(ids), LedgersOK
    PROVE  \E unloaded \in SUBSET (ids \cap DOMAIN allocations) :
              /\ DOMAIN allocations' = DOMAIN allocations \ unloaded
              /\ \A id \in DOMAIN allocations' : allocations'[id] = allocations[id]
              /\ allocations' \in Ledgers(ModelIds, Sizes \ {0})
              /\ stranded' = stranded \cup ((ids \cap DOMAIN allocations) \ unloaded)
<1>1. PICK unloaded \in Unloadable(ids) :
        /\ allocations' = Erase(allocations, unloaded)
        /\ stranded' = stranded \cup ((ids \cap DOMAIN allocations) \ unloaded)
  BY DEF BackendUnload
<1>2. unloaded \in SUBSET (ids \cap DOMAIN allocations)
  BY UnloadsWhatWasAsked
<1>3. allocations' \in Ledgers(ModelIds, Sizes \ {0})
  BY <1>1, LedgersOps DEF LedgersOK
<1>4. /\ DOMAIN allocations' = DOMAIN allocations \ unloaded
      /\ \A id \in DOMAIN allocations' : allocations'[id] = allocations[id]
  BY <1>1 DEF Erase, Restrict
<1> QED BY <1>1, <1>2, <1>3, <1>4

-----------------------------------------------------------------------------
(***************************************************************************)
(* One lemma per operation: the step keeps the invariant about models.     *)
(***************************************************************************)

\* A step that leaves the models, and their reservations, alone.
LEMMA QuietModels ==
    ASSUME ModelsInv, UNCHANGED <<model_reservations, residency>>,
           model_reply' \in ModelErrors \cup {"NoReply"}
    PROVE  ModelsInv'
BY DEF ModelsInv, LedgersOK, ResidencyAgrees, BackendAgrees,
       ResidentIsAllocated, RefCountsAgree, LoadingSound, PlanShort, Resident, residency,
       backend, At, Evicting, Entering, Footprints, Listed

\* An operation that only answers.
LEMMA AnswerKeepsModels ==
    ASSUME ModelsInv, NEW error \in ModelErrors, AnswerModel(error)
    PROVE  ModelsInv'
<1>1. UNCHANGED <<model_reservations, residency>> /\ model_reply' \in ModelErrors
  BY DEF AnswerModel, vars, ledger
<1> QED BY <1>1, QuietModels

\* A registration adds a model that no one has heard of.
LEMMA AddModelKeepsModels ==
    ASSUME ModelsInv, NEW id \in ModelIds, NEW bytes \in Sizes \ {0}, NEW file \in BOOLEAN,
           id \notin DOMAIN models, AddModel(id, bytes, file)
    PROVE  ModelsInv'
<1> DEFINE new == [footprint |-> bytes, refs |-> 0, file |-> file]
<1>1. /\ models' = Emplace(models, id, new)
      /\ UNCHANGED <<model_reservations, records, allocations, stranded, loading>>
      /\ model_reply' = "None"
  BY DEF AddModel, backend, vars, ledger
<1>2. new \in ModelRecords
  BY ResidencyAssumption DEF ModelRecords
<1>3. /\ DOMAIN models' = DOMAIN models \cup {id}
      /\ models'[id] = new
      /\ \A x \in DOMAIN models : models'[x] = models[x]
  BY <1>1 DEF Emplace
<1>4. new.refs = 0
  OBVIOUS
<1>5. models' \in Ledgers(ModelIds, ModelRecords)
  BY <1>1, <1>2, LedgersOps DEF ModelsInv, LedgersOK
<1> HIDE DEF new
<1>6. LedgersOK'
  BY <1>1, <1>5 DEF ModelsInv, LedgersOK, ModelErrors
<1>7. Resident' = Resident
  BY <1>1 DEF Resident
<1>8. ResidencyAgrees' /\ PlanShort'
  <2>1. Evicting' = Evicting /\ Entering' = Entering
    BY <1>1 DEF Evicting, Entering, At
  <2>2. PlanShort'
    BY <1>1 DEF ModelsInv, PlanShort, Footprints, Listed
  <2> QED BY <1>1, <1>3, <1>7, <2>1, <2>2 DEF ModelsInv, ResidencyAgrees
<1>9. BackendAgrees' /\ ResidentIsAllocated'
  BY <1>1, <1>7 DEF ModelsInv, BackendAgrees, ResidentIsAllocated
<1>10. RefCountsAgree'
  BY <1>1, <1>3, <1>4 DEF ModelsInv, RefCountsAgree
<1>11. LoadingSound'
  BY <1>1, <1>3, <1>7 DEF ModelsInv, LoadingSound
<1> QED BY <1>6, <1>8, <1>9, <1>10, <1>11 DEF ModelsInv

\* Models that hold reservations, as all do if no load is under way, have
\* footprints that add up.
LEMMA FootprintsAdd ==
    ASSUME RInv, NEW ids \in SUBSET Resident, IsFiniteSet(ids)
    PROVE  /\ IsLedger([id \in ids |-> records[id].footprint])
           /\ Footprints(ids) \in Nat
           /\ \A some \in SUBSET ids :
                 Footprints(some) \in Nat /\ Footprints(some) <= Footprints(ids)
           /\ \A id \in ids :
                 /\ records[id].footprint \in Nat
                 /\ Footprints(ids) = Footprints(ids \ {id}) + records[id].footprint
<1> DEFINE f == [id \in ids |-> records[id].footprint]
<1>1. \A id \in ids : f[id] \in Nat
  BY ResidencyFunctions, SizesAssumption DEF RInv, ModelsInv, Resident, ResidencyRecords
<1>2. IsLedger(f)
  BY <1>1 DEF IsLedger
<1>3. ASSUME NEW some \in SUBSET ids
      PROVE  /\ Footprints(some) \in Nat /\ Footprints(some) <= Footprints(ids)
             /\ Footprints(ids) = Footprints(some) + Footprints(ids \ some)
             /\ IsLedger([id \in some |-> records[id].footprint])
  <2>1. /\ [k \in some |-> f[k]] = [id \in some |-> records[id].footprint]
        /\ [k \in ids \ some |-> f[k]] = [id \in ids \ some |-> records[id].footprint]
    OBVIOUS
  <2>2. DOMAIN f = ids
    OBVIOUS
  <2>3. IsLedger([k \in some |-> f[k]]) /\ IsLedger([k \in ids \ some |-> f[k]])
    <3> HIDE DEF f
    <3> QED BY <1>2, <2>2, PartIsLedger
  <2>4. Total(f) = Total([k \in some |-> f[k]]) + Total([k \in ids \ some |-> f[k]])
    <3> HIDE DEF f
    <3> QED BY <1>2, <2>2, TotalSplit
  <2>5. Total([k \in some |-> f[k]]) \in Nat /\ Total([k \in ids \ some |-> f[k]]) \in Nat
    <3> HIDE DEF f
    <3> QED BY <2>3, TotalNat
  <2>6. /\ Footprints(some) = Total([k \in some |-> f[k]])
        /\ Footprints(ids \ some) = Total([k \in ids \ some |-> f[k]])
        /\ Footprints(ids) = Total(f)
    BY <2>1 DEF Footprints
  <2>7. IsLedger([id \in some |-> records[id].footprint])
    BY <2>1, <2>3
  <2> HIDE DEF f
  <2> QED BY <2>4, <2>5, <2>6, <2>7
<1>4. ASSUME NEW id \in ids
      PROVE  /\ records[id].footprint \in Nat
             /\ Footprints(ids) = Footprints(ids \ {id}) + records[id].footprint
  <2> DEFINE one == [x \in {id} |-> records[x].footprint]
  <2>1. IsLedger(one) /\ Footprints(ids) = Footprints({id}) + Footprints(ids \ {id})
    BY <1>3
  <2>2. DOMAIN one = {id} /\ one[id] = records[id].footprint /\ Footprints({id}) = Total(one)
    BY DEF Footprints
  <2>3. records[id].footprint \in Nat
    BY <1>1
  <2>4. Footprints(ids \ {id}) \in Nat
    BY <1>3
  <2> HIDE DEF one
  <2>5. Total(one) = one[id]
    BY <2>1, <2>2, TotalSingleton
  <2> QED BY <2>1, <2>2, <2>3, <2>4, <2>5
<1>5. Footprints(ids) \in Nat
  BY <1>3
<1> QED BY <1>2, <1>3, <1>4, <1>5

\* The models that are resident when no load is under way are finitely many,
\* since they hold reservations.
LEMMA ResidentFinite ==
    ASSUME RInv, loading = NoLoad
    PROVE  Resident \subseteq ValidNames /\ IsFiniteSet(Resident)
<1>1. Resident = DOMAIN model_reservations
  BY DEF RInv, ModelsInv, ResidencyAgrees, Evicting, Entering, At
<1>2. Resident \subseteq ValidNames
  BY <1>1, Accounts, LedgersFunction DEF RInv
<1> QED BY <1>2, NamesAssumption, FS_Subset

\* A plan lists resident models that are not in use, each once, and without its
\* last one there would not be enough room.
LEMMA PlanIsSound ==
    ASSUME RInv, loading = NoLoad, NEW need \in Nat, NEW plan \in EvictionPlans(need)
    PROVE  /\ plan \in Seq(ModelIds)
           /\ \A i \in DOMAIN plan : plan[i] \in Resident /\ records[plan[i]].refs = 0
           /\ \A i, j \in DOMAIN plan : i # j => plan[i] # plan[j]
           /\ plan # <<>> => Footprints(Listed(plan) \ {plan[Len(plan)]}) < need
<1> DEFINE candidates == {id \in Resident : records[id].refs = 0}
           lists == UNION {[1 .. k -> candidates] : k \in 0 .. Cardinality(candidates)}
<1>1. candidates \subseteq Resident /\ Resident \subseteq ModelIds
  BY ResidencyFunctions DEF RInv, ModelsInv, Resident
<1>2. Cardinality(candidates) \in Nat
  BY ResidentFinite, FS_Subset, FS_CardinalityType
<1>3. plan \in lists
  BY DEF EvictionPlans
<1>4. PICK k \in 0 .. Cardinality(candidates) : plan \in [1 .. k -> candidates]
  BY <1>3
<1>5. k \in Nat
  BY <1>2, <1>4
<1>6. plan \in [1 .. k -> ModelIds]
  BY <1>1, <1>4
<1>7. plan \in Seq(ModelIds)
  BY <1>5, <1>6
<1>8. \A i \in DOMAIN plan : plan[i] \in candidates
  BY <1>4
<1>9. \A i, j \in DOMAIN plan : i # j => plan[i] # plan[j]
  BY DEF EvictionPlans
<1>10. ASSUME plan # <<>>
       PROVE  Footprints(Listed(plan) \ {plan[Len(plan)]}) < need
  <2>1. Len(plan) = k /\ k \in 1 .. Len(plan) /\ k - 1 \in 0 .. Len(plan) - 1
        /\ DOMAIN plan = 1 .. k
    BY <1>5, <1>6, <1>7, <1>10
  <2> DEFINE first == {plan[i] : i \in 1 .. k - 1}
  <2>2. \A m \in 0 .. Len(plan) - 1 :
           Free + Total([id \in {plan[i] : i \in 1 .. m} |-> records[id].footprint]) < need
    BY DEF EvictionPlans
  <2>3. Free + Footprints(first) < need
    BY <2>1, <2>2 DEF Footprints
  <2>4. Listed(plan) \ {plan[Len(plan)]} = first
    <3>1. ASSUME NEW x \in Listed(plan) \ {plan[Len(plan)]} PROVE x \in first
      <4>1. PICK i \in 1 .. k : x = plan[i]
        BY <2>1, <3>1 DEF Listed
      <4>2. i \in 1 .. k - 1
        BY <1>5, <2>1, <3>1, <4>1
      <4> QED BY <4>1, <4>2
    <3>2. ASSUME NEW x \in first PROVE x \in Listed(plan) \ {plan[Len(plan)]}
      <4>1. PICK i \in 1 .. k - 1 : x = plan[i]
        BY <3>2
      <4>2. i \in DOMAIN plan /\ k \in DOMAIN plan /\ i # k
        BY <1>5, <2>1, <4>1
      <4> QED BY <1>9, <2>1, <4>1, <4>2 DEF Listed
    <3> QED BY <3>1, <3>2
  <2>5. first \subseteq Resident
    BY <1>1, <1>5, <1>8, <2>1
  <2>6. Footprints(first) \in Nat
    BY <2>5, ResidentFinite, FS_Subset, FootprintsAdd
  <2>7. Free \in Nat
    BY Accounts, CapacityAssumption DEF RInv, Free
  <2> HIDE DEF first
  <2>8. Footprints(Listed(plan) \ {plan[Len(plan)]}) = Footprints(first)
    BY <2>4
  <2>9. Footprints(first) < need
    BY <2>3, <2>6, <2>7
  <2> QED BY <2>8, <2>9
<1> QED BY <1>7, <1>8, <1>9, <1>10

\* The first step of a load keeps the invariant: the backend holds a model
\* more, and the load knows it.
LEMMA LoadPlanKeepsModels ==
    ASSUME RInv, NEW id, loading = NoLoad, id \in DOMAIN models, id \notin Resident,
           LoadPlan(id)
    PROVE  ModelsInv'
<1>1. PICK plan \in EvictionPlans(models[id].footprint),
           source \in SourceOutcomes(id), loaded \in BackendLoadOutcomes(id) :
        \/ source # "None" /\ AnswerModel(source)
        \/ source = "None" /\ ~ loaded /\ AnswerModel("BackendFailure")
        \/ /\ source = "None" /\ loaded
           /\ allocations' = Emplace(allocations, id, models[id].footprint)
           /\ loading' = [id |-> id, footprint |-> models[id].footprint,
                          refs |-> models[id].refs, evictions |-> plan,
                          phase |-> "loaded"]
           /\ model_reply' = "NoReply"
           /\ UNCHANGED <<vars, models, records, stranded>>
  BY DEF LoadPlan
<1>2. source \in ModelErrors /\ "BackendFailure" \in ModelErrors
  BY DEF SourceOutcomes, ModelErrors
<1>3. CASE AnswerModel(source) \/ AnswerModel("BackendFailure")
  BY <1>2, <1>3, AnswerKeepsModels DEF RInv
<1>4. CASE /\ loaded
           /\ allocations' = Emplace(allocations, id, models[id].footprint)
           /\ loading' = [id |-> id, footprint |-> models[id].footprint,
                          refs |-> models[id].refs, evictions |-> plan,
                          phase |-> "loaded"]
           /\ model_reply' = "NoReply"
           /\ UNCHANGED <<vars, models, records, stranded>>
  <2> DEFINE bytes == models[id].footprint
  <2>1. /\ id \in ModelIds /\ bytes \in Sizes \ {0} /\ models[id].refs \in 0 .. MaxRefs
    BY ResidencyFunctions DEF RInv, ModelsInv, ModelRecords
  <2>2. id \notin DOMAIN allocations
    BY <1>4, LoadsOnlyNewModels
  <2>3. /\ plan \in Seq(ModelIds)
        /\ \A i \in DOMAIN plan : plan[i] \in Resident /\ records[plan[i]].refs = 0
        /\ \A i, j \in DOMAIN plan : i # j => plan[i] # plan[j]
        /\ plan # <<>> => Footprints(Listed(plan) \ {plan[Len(plan)]}) < bytes
    BY <2>1, SizesAssumption, PlanIsSound
  <2>4. /\ DOMAIN allocations' = DOMAIN allocations \cup {id}
        /\ allocations'[id] = bytes
        /\ \A x \in DOMAIN allocations : allocations'[x] = allocations[x]
    BY <1>4, <2>2 DEF Emplace
  <2>5. /\ loading' \in Loads /\ loading' # NoLoad
        /\ loading'.id = id /\ loading'.footprint = bytes /\ loading'.refs = models[id].refs
        /\ loading'.evictions = plan /\ loading'.phase = "loaded"
    BY <1>4, <2>1, <2>3, NoLoadAssumption DEF Loads
  <2>6. allocations' \in Ledgers(ModelIds, Sizes \ {0})
    BY <1>4, <2>1, LedgersOps DEF RInv, ModelsInv, LedgersOK
  <2>7. /\ UNCHANGED <<model_reservations, models, records, stranded>>
        /\ model_reply' = "NoReply"
    BY <1>4 DEF vars, ledger
  <2>8. Resident' = Resident
    BY <2>7 DEF Resident
  <2> HIDE DEF bytes
  <2>9. LedgersOK'
    BY <2>5, <2>6, <2>7 DEF RInv, ModelsInv, LedgersOK
  <2>10. ResidencyAgrees' /\ RefCountsAgree'
    <3>1. Evicting' = Evicting /\ Entering' = Entering
      BY <2>5 DEF Evicting, Entering, At
    <3> QED BY <2>7, <2>8, <3>1 DEF RInv, ModelsInv, ResidencyAgrees, RefCountsAgree
  <2>11. BackendAgrees'
    BY <2>4, <2>5, <2>7, <2>8 DEF RInv, ModelsInv, BackendAgrees
  <2>12. ResidentIsAllocated'
    BY <2>4, <2>7, <2>8 DEF RInv, ModelsInv, ResidentIsAllocated
  <2>13. LoadingSound'
    <3>1. id \notin stranded
      BY <2>2 DEF RInv, ModelsInv, BackendAgrees
    <3> QED BY <2>3, <2>4, <2>5, <2>7, <2>8, <3>1 DEF LoadingSound, bytes
  <2>14. PlanShort'
    BY <2>3, <2>5, <2>7 DEF PlanShort, Footprints, Listed
  <2> QED BY <2>9, <2>10, <2>11, <2>12, <2>13, <2>14 DEF ModelsInv
<1> QED BY <1>1, <1>3, <1>4

\* load, until it has filled the backend, keeps the invariant.
LEMMA LoadKeepsModels ==
    ASSUME RInv, NEW id, Load(id)
    PROVE  ModelsInv'
<1>1. CASE AnswerModel("None")
  BY <1>1, AnswerKeepsModels DEF RInv, ModelErrors
<1>2. CASE AnswerModel(LoadError(id))
  BY <1>2, AnswerKeepsModels DEF RInv, ModelErrors, LoadError
<1>3. CASE loading = NoLoad /\ ~ AlreadyLoaded(id) /\ LoadError(id) = "None" /\ LoadPlan(id)
  <2>1. id \in DOMAIN models /\ id \notin Resident
    BY <1>3 DEF LoadError, AlreadyLoaded
  <2> QED BY <1>3, <2>1, LoadPlanKeepsModels
<1> QED BY <1>1, <1>2, <1>3 DEF Load

\* What a load that fills the backend, or gives it back, can count on.
LEMMA LoadingFacts ==
    ASSUME RInv, loading # NoLoad
    PROVE  /\ loading \in Loads
           /\ loading.id \in ModelIds /\ loading.footprint \in Sizes \ {0}
           /\ loading.evictions \in Seq(ModelIds)
           /\ DOMAIN allocations = Resident \cup stranded \cup {loading.id}
           /\ stranded \cap Resident = {}
           /\ loading.id \in DOMAIN models /\ loading.id \notin Resident
           /\ loading.id \notin stranded
           /\ Listed(loading.evictions) \subseteq Resident
           /\ \A i, j \in DOMAIN loading.evictions :
                 i # j => loading.evictions[i] # loading.evictions[j]
<1>1. loading \in Loads
  BY DEF RInv, ModelsInv, LedgersOK
<1>2. DOMAIN allocations = Resident \cup stranded \cup {loading.id} /\ stranded \cap Resident = {}
  BY DEF RInv, ModelsInv, BackendAgrees
<1> QED BY <1>1, <1>2 DEF RInv, ModelsInv, LoadingSound, Listed, Loads

\* While a load waits for its memory, and when it is refused it, the resident
\* models hold the reservations; then all but those it is yet to evict do.
LEMMA ReservedModels ==
    ASSUME RInv, loading # NoLoad
    PROVE  IF loading.phase = "reserved"
           THEN /\ Evicting = Listed(loading.evictions) /\ Entering = {loading.id}
                /\ DOMAIN model_reservations =
                     (Resident \ Listed(loading.evictions)) \cup {loading.id}
           ELSE /\ Evicting = {} /\ Entering = {}
                /\ DOMAIN model_reservations = Resident
BY DEF RInv, ModelsInv, ResidencyAgrees, Evicting, Entering, At, Listed

\* A load that is given or refused its memory keeps the invariant: the models
\* that it is to evict lose their reservations before they are evicted.
LEMMA LoadReserveKeepsModels ==
    ASSUME RInv, LoadReserve
    PROVE  ModelsInv'
<1> DEFINE id == loading.id
           bytes == loading.footprint
           evicted == {loading.evictions[i] : i \in DOMAIN loading.evictions}
           error == ReplaceError(loading.evictions, id, bytes)
<1>1. /\ loading # NoLoad /\ loading.phase = "loaded" /\ model_reply' = "NoReply"
      /\ ReplaceModelReservations(loading.evictions, id, bytes)
      /\ loading' = [loading EXCEPT !.phase = IF reply' = "None" THEN "reserved" ELSE "refused"]
      /\ UNCHANGED <<models, records, allocations, stranded>>
  BY DEF LoadReserve, At, backend
<1>2. loading \in Loads
  BY <1>1, LoadingFacts
<1>3. /\ loading' \in Loads /\ loading' # NoLoad
      /\ loading'.id = id /\ loading'.footprint = bytes
      /\ loading'.refs = loading.refs /\ loading'.evictions = loading.evictions
      /\ loading'.phase = IF reply' = "None" THEN "reserved" ELSE "refused"
  BY <1>1, <1>2, NoLoadAssumption DEF Loads
<1>4. Resident' = Resident
  BY <1>1 DEF Resident
<1>5. LedgersOK'
  BY <1>1, <1>3 DEF RInv, ModelsInv, LedgersOK
<1>6. BackendAgrees' /\ ResidentIsAllocated' /\ RefCountsAgree'
  BY <1>1, <1>3, <1>4 DEF RInv, ModelsInv, BackendAgrees, ResidentIsAllocated, RefCountsAgree
<1>7. LoadingSound'
  BY <1>1, <1>3, <1>4 DEF RInv, ModelsInv, LoadingSound
<1>8. PlanShort'
  BY <1>1, <1>3 DEF RInv, ModelsInv, PlanShort, Footprints, Listed
<1>9. /\ DOMAIN model_reservations = Resident
      /\ \A x \in Resident : /\ x \in DOMAIN models
                             /\ models[x].footprint = records[x].footprint
                             /\ models[x].footprint = model_reservations[x]
  BY <1>1, ReservedModels DEF RInv, ModelsInv, ResidencyAgrees
<1>10. ResidencyAgrees'
  <2>1. CASE error # "None" /\ Refuse(error)
    <3>1. UNCHANGED model_reservations /\ reply' # "None"
      BY <2>1 DEF Refuse, ledger
    <3>2. Evicting' = {} /\ Entering' = {}
      BY <1>3, <3>1 DEF Evicting, Entering, At
    <3> QED BY <1>1, <1>4, <1>9, <3>1, <3>2 DEF ResidencyAgrees
  <2>2. CASE /\ model_reservations' = Emplace(Erase(model_reservations, evicted), id, bytes)
             /\ reply' = "None"
    <3>1. id \notin Resident /\ id \in DOMAIN models /\ bytes = models[id].footprint
      BY <1>1 DEF RInv, ModelsInv, LoadingSound
    <3>2. /\ DOMAIN model_reservations' = (Resident \ evicted) \cup {id}
          /\ model_reservations'[id] = bytes
          /\ \A x \in Resident \ evicted : model_reservations'[x] = model_reservations[x]
      BY <1>9, <2>2, <3>1 DEF Emplace, Erase, Restrict
    <3>3. Evicting' = evicted /\ Entering' = {id}
      BY <1>3, <2>2 DEF Evicting, Entering, At
    <3> HIDE DEF evicted, id, bytes
    <3> QED BY <1>1, <1>4, <1>9, <3>1, <3>2, <3>3 DEF ResidencyAgrees
  <2> QED BY <1>1, <2>1, <2>2 DEF ReplaceModelReservations
<1> QED BY <1>5, <1>6, <1>7, <1>8, <1>10 DEF ModelsInv

\* A load that gives up takes its model out of the backend again.
LEMMA LoadUndoKeepsModels ==
    ASSUME RInv, LoadUndo
    PROVE  ModelsInv'
<1> DEFINE id == loading.id
<1>1. /\ loading # NoLoad /\ loading.phase = "refused"
      /\ BackendUnload({id}) /\ model_reply' = "InsufficientMemory"
      /\ loading' = NoLoad /\ UNCHANGED <<models, records, model_reservations>>
  BY DEF LoadUndo, At, vars, ledger
<1>2. PICK unloaded \in SUBSET ({id} \cap DOMAIN allocations) :
        /\ DOMAIN allocations' = DOMAIN allocations \ unloaded
        /\ \A x \in DOMAIN allocations' : allocations'[x] = allocations[x]
        /\ allocations' \in Ledgers(ModelIds, Sizes \ {0})
        /\ stranded' = stranded \cup (({id} \cap DOMAIN allocations) \ unloaded)
  BY <1>1, UnloadEffect DEF RInv, ModelsInv
<1>3. id \notin Resident /\ id \in DOMAIN allocations /\ id \notin stranded
  BY <1>1 DEF RInv, ModelsInv, LoadingSound
<1>4. DOMAIN allocations = Resident \cup stranded \cup {id} /\ stranded \cap Resident = {}
  BY <1>1, LoadingFacts
<1>5. DOMAIN allocations \subseteq ModelIds
  BY ResidencyFunctions DEF RInv, ModelsInv
<1>6. DOMAIN model_reservations = Resident
  BY <1>1, ReservedModels
<1> HIDE DEF id
<1>7. Resident' = Resident
  BY <1>1 DEF Resident
<1>8. LedgersOK'
  BY <1>1, <1>2, <1>5 DEF RInv, ModelsInv, LedgersOK, ModelErrors
<1>9. ResidencyAgrees'
  BY <1>1, <1>6, <1>7 DEF RInv, ModelsInv, ResidencyAgrees, Evicting, Entering, At
<1>10. RefCountsAgree' /\ LoadingSound' /\ PlanShort'
  BY <1>1 DEF RInv, ModelsInv, RefCountsAgree, LoadingSound, PlanShort
<1>11. BackendAgrees'
  BY <1>1, <1>2, <1>3, <1>4, <1>7 DEF BackendAgrees
<1>12. ResidentIsAllocated'
  BY <1>1, <1>2, <1>3, <1>4, <1>7 DEF RInv, ModelsInv, ResidentIsAllocated
<1> QED BY <1>8, <1>9, <1>10, <1>11, <1>12 DEF ModelsInv

\* What an eviction makes of the records: the model is not resident any more.
LEMMA LoadEvictRecords ==
    ASSUME RInv, LoadEvict
    PROVE  /\ Head(loading.evictions) \in Resident
           /\ records' \in Ledgers(ModelIds, ResidencyRecords)
           /\ DOMAIN records' = DOMAIN records
           /\ \A x \in DOMAIN records :
                 /\ records'[x].footprint = records[x].footprint
                 /\ records'[x].refs = records[x].refs
           /\ Resident' = Resident \ {Head(loading.evictions)}
<1> DEFINE one == Head(loading.evictions)
<1>1. loading # NoLoad /\ loading.evictions # <<>> /\ records' = NotResident({one})
  BY DEF LoadEvict, At
<1>2. one \in Resident
  <2>1. loading.evictions \in Seq(ModelIds) /\ Listed(loading.evictions) \subseteq Resident
    BY <1>1, LoadingFacts
  <2>2. 1 \in DOMAIN loading.evictions /\ one = loading.evictions[1]
    BY <1>1, <2>1
  <2> QED BY <2>1, <2>2 DEF Listed
<1>3. /\ records \in [DOMAIN records -> ResidencyRecords]
      /\ DOMAIN records \subseteq ModelIds
  BY ResidencyFunctions DEF RInv, ModelsInv
<1> HIDE DEF one
<1>4. /\ DOMAIN records' = DOMAIN records
      /\ \A e \in DOMAIN records :
            /\ records'[e] \in ResidencyRecords
            /\ records'[e].footprint = records[e].footprint
            /\ records'[e].refs = records[e].refs
            /\ records'[e].resident = (records[e].resident /\ e # one)
  BY <1>1, <1>3 DEF ResidencyRecords, NotResident
<1>5. records' \in [DOMAIN records -> ResidencyRecords]
  BY <1>1, <1>4 DEF NotResident
<1>6. records' \in Ledgers(ModelIds, ResidencyRecords)
  BY <1>3, <1>5, IsLedgers
<1>7. Resident' = Resident \ {one}
  BY <1>4 DEF Resident
<1> QED BY <1>2, <1>4, <1>6, <1>7 DEF one

\* What an eviction leaves to do: the first model of the list is gone from it,
\* and the last one is the last one still.
LEMMA TailOfDistinct ==
    ASSUME NEW S, NEW list \in Seq(S), list # <<>>,
           \A i, j \in DOMAIN list : i # j => list[i] # list[j]
    PROVE  /\ Tail(list) \in Seq(S)
           /\ Listed(Tail(list)) = Listed(list) \ {Head(list)}
           /\ Head(list) \in Listed(list)
           /\ \A i, j \in DOMAIN Tail(list) : i # j => Tail(list)[i] # Tail(list)[j]
           /\ Tail(list) # <<>> => Tail(list)[Len(Tail(list))] = list[Len(list)]
<1>1. /\ Len(list) \in Nat /\ Len(list) >= 1 /\ DOMAIN list = 1 .. Len(list)
      /\ Head(list) = list[1] /\ Tail(list) \in Seq(S) /\ Len(Tail(list)) = Len(list) - 1
      /\ DOMAIN Tail(list) = 1 .. Len(list) - 1
      /\ \A i \in 1 .. Len(list) - 1 : Tail(list)[i] = list[i + 1]
  OBVIOUS
<1>2. Listed(Tail(list)) = Listed(list) \ {Head(list)}
  <2>1. ASSUME NEW x \in Listed(Tail(list)) PROVE x \in Listed(list) \ {Head(list)}
    <3>1. PICK i \in 1 .. Len(list) - 1 : x = list[i + 1]
      BY <1>1, <2>1 DEF Listed
    <3>2. i + 1 \in DOMAIN list /\ 1 \in DOMAIN list /\ i + 1 # 1
      BY <1>1, <3>1
    <3> QED BY <1>1, <3>1, <3>2 DEF Listed
  <2>2. ASSUME NEW x \in Listed(list) \ {Head(list)} PROVE x \in Listed(Tail(list))
    <3>1. PICK i \in DOMAIN list : x = list[i] /\ i # 1
      BY <1>1, <2>2 DEF Listed
    <3>2. i - 1 \in 1 .. Len(list) - 1 /\ (i - 1) + 1 = i
      BY <1>1, <3>1
    <3>3. x = Tail(list)[i - 1]
      BY <1>1, <3>1, <3>2
    <3> QED BY <1>1, <3>2, <3>3 DEF Listed
  <2> QED BY <2>1, <2>2
<1>3. Head(list) \in Listed(list)
  BY <1>1 DEF Listed
<1>4. ASSUME NEW i \in DOMAIN Tail(list), NEW j \in DOMAIN Tail(list), i # j
      PROVE  Tail(list)[i] # Tail(list)[j]
  <2>1. i + 1 \in DOMAIN list /\ j + 1 \in DOMAIN list /\ i + 1 # j + 1
    BY <1>1, <1>4
  <2> QED BY <1>1, <2>1
<1>5. ASSUME Tail(list) # <<>> PROVE Tail(list)[Len(Tail(list))] = list[Len(list)]
  <2>1. Len(list) - 1 \in 1 .. Len(list) - 1
    BY <1>1, <1>5
  <2> QED BY <1>1, <2>1
<1> QED BY <1>1, <1>2, <1>3, <1>4, <1>5

\* The reservations are finitely many, hence so are the resident models.
LEMMA EvictionsFinite ==
    ASSUME RInv, loading # NoLoad
    PROVE  IsFiniteSet(Listed(loading.evictions))
<1> DEFINE list == loading.evictions
<1>1. list \in Seq(ModelIds)
  BY LoadingFacts
<1>2. Len(list) \in Nat /\ DOMAIN list = 1 .. Len(list)
  BY <1>1
<1>3. IsFiniteSet(1 .. Len(list))
  BY <1>2, FS_Interval
<1> HIDE DEF list
<1>4. IsFiniteSet({list[i] : i \in 1 .. Len(list)})
  <2> DEFINE f == [i \in 1 .. Len(list) |-> list[i]]
             T == {list[i] : i \in 1 .. Len(list)}
  <2>1. f \in Surjection(1 .. Len(list), T)
    BY DEF Surjection
  <2> QED BY <1>3, <2>1, FS_Surjection
<1> QED BY <1>2, <1>4 DEF Listed, list

\* An eviction keeps the invariant: what is evicted has no reservation any
\* more.
LEMMA LoadEvictKeepsModels ==
    ASSUME RInv, LoadEvict
    PROVE  ModelsInv'
<1> DEFINE id == loading.id
           list == loading.evictions
           one == Head(loading.evictions)
<1>1. /\ loading # NoLoad /\ loading.phase = "reserved" /\ list # <<>>
      /\ BackendUnload({one}) /\ model_reply' = "NoReply"
      /\ loading' = [loading EXCEPT !.evictions = Tail(@)]
      /\ UNCHANGED <<models, model_reservations>>
  BY DEF LoadEvict, At, vars, ledger
<1>2. PICK unloaded \in SUBSET ({one} \cap DOMAIN allocations) :
        /\ DOMAIN allocations' = DOMAIN allocations \ unloaded
        /\ \A x \in DOMAIN allocations' : allocations'[x] = allocations[x]
        /\ allocations' \in Ledgers(ModelIds, Sizes \ {0})
        /\ stranded' = stranded \cup (({one} \cap DOMAIN allocations) \ unloaded)
  BY <1>1, UnloadEffect DEF RInv, ModelsInv
<1>3. /\ loading \in Loads /\ list \in Seq(ModelIds)
      /\ DOMAIN allocations = Resident \cup stranded \cup {id} /\ stranded \cap Resident = {}
      /\ id \notin Resident /\ id \notin stranded
      /\ Listed(list) \subseteq Resident
      /\ \A i, j \in DOMAIN list : i # j => list[i] # list[j]
  BY <1>1, LoadingFacts
<1>4. /\ Tail(list) \in Seq(ModelIds)
      /\ Listed(Tail(list)) = Listed(list) \ {one} /\ one \in Listed(list)
      /\ \A i, j \in DOMAIN Tail(list) : i # j => Tail(list)[i] # Tail(list)[j]
      /\ Tail(list) # <<>> => Tail(list)[Len(Tail(list))] = list[Len(list)]
  BY <1>1, <1>3, TailOfDistinct
<1>5. /\ loading' \in Loads /\ loading' # NoLoad
      /\ loading'.id = id /\ loading'.footprint = loading.footprint
      /\ loading'.refs = loading.refs /\ loading'.evictions = Tail(list)
      /\ loading'.phase = "reserved"
  <2>1. /\ loading'.id = id /\ loading'.footprint = loading.footprint
        /\ loading'.refs = loading.refs /\ loading'.evictions = Tail(list)
        /\ loading'.phase = "reserved"
    BY <1>1, <1>3 DEF Loads
  <2> DEFINE rest == Tail(list)
  <2>2. rest \in Seq(ModelIds)
    BY <1>4
  <2> HIDE DEF rest
  <2>3. [loading EXCEPT !.evictions = rest] \in Loads
    BY <1>3, <2>2 DEF Loads
  <2>4. loading' \in Loads
    BY <1>1, <2>3 DEF rest
  <2> QED BY <2>1, <2>4, NoLoadAssumption
<1>6. /\ one \in Resident
      /\ records' \in Ledgers(ModelIds, ResidencyRecords)
      /\ DOMAIN records' = DOMAIN records
      /\ \A x \in DOMAIN records : /\ records'[x].footprint = records[x].footprint
                                   /\ records'[x].refs = records[x].refs
      /\ Resident' = Resident \ {one}
  BY LoadEvictRecords
<1>7. DOMAIN allocations \subseteq ModelIds /\ Resident \subseteq DOMAIN records
  BY ResidencyFunctions DEF RInv, ModelsInv, Resident
<1>8. /\ DOMAIN model_reservations = (Resident \ Listed(list)) \cup {id}
      /\ Evicting' = Listed(Tail(list)) /\ Entering' = {id}
  <2>1. DOMAIN model_reservations = (Resident \ Listed(list)) \cup {id}
    BY <1>1, ReservedModels
  <2>2. At("reserved")'
    BY <1>5 DEF At
  <2> QED BY <1>5, <2>1, <2>2 DEF Evicting, Entering, Listed
<1>9. \A i \in DOMAIN Tail(list) : Tail(list)[i] \in Listed(list) \ {one}
  BY <1>4 DEF Listed
<1>10. \A x \in Listed(list) : records[x].refs = 0
  BY <1>1 DEF RInv, ModelsInv, LoadingSound, Listed
<1> HIDE DEF id, one
<1>11. LedgersOK'
  BY <1>1, <1>2, <1>5, <1>6, <1>7 DEF RInv, ModelsInv, LedgersOK
<1>12. ResidencyAgrees'
  <2>1. DOMAIN model_reservations' = (Resident' \ Evicting') \cup Entering'
    BY <1>1, <1>4, <1>6, <1>8
  <2> QED BY <1>1, <1>6, <1>7, <2>1 DEF RInv, ModelsInv, ResidencyAgrees
<1>13. BackendAgrees'
  BY <1>2, <1>3, <1>5, <1>6 DEF BackendAgrees
<1>14. ResidentIsAllocated'
  BY <1>2, <1>3, <1>6, <1>7 DEF RInv, ModelsInv, ResidentIsAllocated
<1>15. RefCountsAgree'
  BY <1>1, <1>6 DEF RInv, ModelsInv, RefCountsAgree
<1>16. LoadingSound'
  <2>1. /\ id \in DOMAIN models /\ loading.footprint = models[id].footprint
        /\ loading.refs = models[id].refs
        /\ id \in DOMAIN allocations /\ allocations[id] = loading.footprint
    BY <1>1 DEF RInv, ModelsInv, LoadingSound, id
  <2>2. \A i \in DOMAIN Tail(list) :
           Tail(list)[i] \in Resident' /\ records'[Tail(list)[i]].refs = 0
    BY <1>3, <1>6, <1>7, <1>9, <1>10
  <2>3. id # one
    BY <1>3, <1>6
  <2>4. /\ id \in DOMAIN allocations' /\ id \notin stranded'
        /\ allocations'[id] = loading.footprint
    BY <1>2, <1>3, <2>1, <2>3
  <2>5. id \notin Resident'
    BY <1>3, <1>6
  <2> HIDE DEF list
  <2> DEFINE rest == Tail(list)
  <2>6. /\ loading'.evictions = rest
        /\ \A i \in DOMAIN rest : rest[i] \in Resident' /\ records'[rest[i]].refs = 0
        /\ \A i, j \in DOMAIN rest : i # j => rest[i] # rest[j]
    BY <1>4, <1>5, <2>2
  <2>7. models' = models
    BY <1>1
  <2> HIDE DEF rest, id
  <2> QED BY <1>5, <2>1, <2>4, <2>5, <2>6, <2>7 DEF LoadingSound
<1>17. PlanShort'
  <2> SUFFICES ASSUME Tail(list) # <<>> PROVE PlanShort'
    BY <1>5 DEF PlanShort
  <2> DEFINE last == list[Len(list)]
             before == Listed(list) \ {last}
             after == Listed(Tail(list)) \ {last}
  <2>1. after \subseteq before /\ before \subseteq Resident /\ IsFiniteSet(before)
    <3>1. IsFiniteSet(Listed(list))
      BY <1>1, EvictionsFinite
    <3> QED BY <1>3, <1>4, <3>1, FS_Subset
  <2>2. Footprints(before) < loading.footprint /\ loading.footprint \in Nat
    BY <1>1, <1>3, SizesAssumption DEF RInv, ModelsInv, PlanShort, Loads
  <2> HIDE DEF before
  <2>3. /\ Footprints(before) \in Nat /\ Footprints(after) \in Nat
        /\ Footprints(after) <= Footprints(before)
    <3> HIDE DEF after
    <3> QED BY <2>1, FootprintsAdd
  <2>4. [x \in after |-> records'[x].footprint] = [x \in after |-> records[x].footprint]
    BY <1>6, <1>7, <2>1
  <2>5. Total([x \in after |-> records'[x].footprint]) < loading.footprint
    BY <2>2, <2>3, <2>4 DEF Footprints
  <2>6. Listed(loading'.evictions) \ {loading'.evictions[Len(loading'.evictions)]} = after
    BY <1>4, <1>5
  <2> HIDE DEF after, list
  <2> QED BY <1>5, <2>5, <2>6 DEF PlanShort, Footprints, Listed
<1> QED BY <1>11, <1>12, <1>13, <1>14, <1>15, <1>16, <1>17 DEF ModelsInv

\* A load that finishes keeps the invariant: it enters the model that holds a
\* reservation already.
LEMMA LoadFinishKeepsModels ==
    ASSUME RInv, LoadFinish
    PROVE  /\ ModelsInv'
           /\ Resident' = Resident \cup {loading.id}
<1> DEFINE id == loading.id
           bytes == loading.footprint
           new == [footprint |-> bytes, refs |-> loading.refs, resident |-> TRUE]
<1>1. /\ loading # NoLoad /\ loading.phase = "reserved" /\ loading.evictions = <<>>
      /\ records' = Emplace(Erase(records, {id}), id, new)
      /\ model_reply' = "None" /\ loading' = NoLoad
      /\ UNCHANGED <<models, model_reservations, allocations, stranded>>
  BY DEF LoadFinish, At, vars, ledger, backend
<1>2. loading \in Loads
  BY <1>1, LoadingFacts
<1>3. id \in ModelIds /\ new \in ResidencyRecords /\ new.resident
      /\ new.footprint = bytes /\ new.refs = loading.refs
  BY <1>2 DEF Loads, ResidencyRecords
<1>4. /\ id \in DOMAIN models /\ id \notin Resident
      /\ bytes = models[id].footprint /\ loading.refs = models[id].refs
      /\ id \in DOMAIN allocations /\ id \notin stranded /\ allocations[id] = bytes
  BY <1>1 DEF RInv, ModelsInv, LoadingSound
<1>5. DOMAIN model_reservations = Resident \cup {id}
  BY <1>1, ReservedModels DEF Listed
<1> HIDE DEF new, id, bytes
<1>6. /\ DOMAIN records' = DOMAIN records \cup {id}
      /\ records'[id] = new
      /\ \A x \in DOMAIN records \ {id} : records'[x] = records[x]
  BY <1>1 DEF Emplace, Erase, Restrict
<1>7. records' \in Ledgers(ModelIds, ResidencyRecords)
  BY <1>1, <1>3, LedgersOps DEF RInv, ModelsInv, LedgersOK
<1>8. Resident' = Resident \cup {id} /\ Resident \subseteq DOMAIN records \ {id}
  BY <1>3, <1>4, <1>6 DEF Resident
<1>9. LedgersOK'
  BY <1>1, <1>7 DEF RInv, ModelsInv, LedgersOK, ModelErrors
<1>10. ResidencyAgrees'
  <2>1. DOMAIN model_reservations' = (Resident' \ Evicting') \cup Entering'
    BY <1>1, <1>5, <1>8 DEF Evicting, Entering, At
  <2>2. \A x \in Resident' :
           x \in DOMAIN models' /\ models'[x].footprint = records'[x].footprint
    BY <1>1, <1>3, <1>4, <1>6, <1>8 DEF RInv, ModelsInv, ResidencyAgrees
  <2> QED BY <1>1, <2>1, <2>2 DEF RInv, ModelsInv, ResidencyAgrees
<1>11. BackendAgrees'
  <2>1. DOMAIN allocations = Resident \cup stranded \cup {id} /\ stranded \cap Resident = {}
    BY <1>1, LoadingFacts DEF id
  <2> QED BY <1>1, <1>4, <1>8, <2>1 DEF BackendAgrees
<1>12. ResidentIsAllocated'
  BY <1>1, <1>3, <1>4, <1>6, <1>8 DEF RInv, ModelsInv, ResidentIsAllocated
<1>13. RefCountsAgree'
  BY <1>1, <1>3, <1>4, <1>6 DEF RInv, ModelsInv, RefCountsAgree
<1>14. LoadingSound' /\ PlanShort'
  BY <1>1 DEF LoadingSound, PlanShort
<1> QED BY <1>8, <1>9, <1>10, <1>11, <1>12, <1>13, <1>14 DEF ModelsInv, id

\* unload keeps the invariant, also when the backend refuses.
LEMMA UnloadKeepsModels ==
    ASSUME RInv, NEW id, Unload(id)
    PROVE  ModelsInv'
<1> DEFINE error == UnloadError(id)
<1>1. CASE AnswerModel(error) \/ AnswerModel("BackendFailure")
  BY <1>1, AnswerKeepsModels DEF RInv, ModelErrors, UnloadError
<1>2. CASE ~ (AnswerModel(error) \/ AnswerModel("BackendFailure"))
  <2>1. loading = NoLoad /\ error = "None" /\ ReleaseModel(id)
    BY <1>2 DEF Unload
  <2>2. id \in DOMAIN models /\ id \in Resident /\ records[id].refs = 0
    BY <2>1 DEF UnloadError
  <2>3. /\ Resident = DOMAIN model_reservations
        /\ \A x \in Resident : /\ x \in DOMAIN models
                               /\ models[x].footprint = records[x].footprint
                               /\ models[x].footprint = model_reservations[x]
    BY <2>1 DEF RInv, ModelsInv, ResidencyAgrees, Evicting, Entering, At
  <2>4. ReleaseError(id, model_reservations) = "None"
    <3>1. id \in ValidNames
      BY <2>2, <2>3, Accounts, LedgersFunction DEF RInv
    <3> QED BY <2>2, <2>3, <3>1 DEF ReleaseError
  <2>5. /\ allocations' = Erase(allocations, {id})
        /\ records' = [records EXCEPT ![id].resident = FALSE]
        /\ model_reply' = "None"
        /\ UNCHANGED <<models, loading, stranded>>
    BY <1>2, <2>4 DEF Unload
  <2>6. model_reservations' = Erase(model_reservations, {id})
    BY <2>1, <2>4 DEF ReleaseModel
  <2>7. /\ DOMAIN allocations' = DOMAIN allocations \ {id}
        /\ \A x \in DOMAIN allocations' : allocations'[x] = allocations[x]
        /\ DOMAIN model_reservations' = DOMAIN model_reservations \ {id}
        /\ \A x \in DOMAIN model_reservations' :
              model_reservations'[x] = model_reservations[x]
    BY <2>5, <2>6 DEF Erase, Restrict
  <2>8. /\ records \in [DOMAIN records -> ResidencyRecords]
        /\ DOMAIN records \subseteq ModelIds
    BY ResidencyFunctions DEF RInv, ModelsInv
  <2>9. /\ records' \in [DOMAIN records -> ResidencyRecords]
        /\ DOMAIN records' = DOMAIN records
        /\ \A x \in DOMAIN records :
              /\ records'[x].footprint = records[x].footprint
              /\ records'[x].refs = records[x].refs
              /\ x # id => records'[x] = records[x]
        /\ ~ records'[id].resident
    BY <2>2, <2>5, <2>8 DEF ResidencyRecords, Resident
  <2>10. Resident' = Resident \ {id} /\ Resident \subseteq DOMAIN records
    BY <2>9 DEF Resident
  <2>11. LedgersOK'
    <3>1. records' \in Ledgers(ModelIds, ResidencyRecords)
      BY <2>8, <2>9, IsLedgers
    <3>2. allocations' \in Ledgers(ModelIds, Sizes \ {0})
      BY <2>5, LedgersOps DEF RInv, ModelsInv, LedgersOK
    <3> QED BY <2>5, <3>1, <3>2 DEF RInv, ModelsInv, LedgersOK, ModelErrors
  <2>12. ResidencyAgrees'
    BY <2>1, <2>3, <2>5, <2>7, <2>9, <2>10 DEF ResidencyAgrees, Evicting, Entering, At
  <2>13. BackendAgrees'
    BY <2>1, <2>2, <2>5, <2>7, <2>10 DEF RInv, ModelsInv, BackendAgrees
  <2>14. ResidentIsAllocated'
    BY <2>7, <2>9, <2>10 DEF RInv, ModelsInv, ResidentIsAllocated
  <2>15. RefCountsAgree'
    BY <2>5, <2>9 DEF RInv, ModelsInv, RefCountsAgree
  <2>16. LoadingSound' /\ PlanShort'
    BY <2>1, <2>5 DEF LoadingSound, PlanShort
  <2> QED BY <2>11, <2>12, <2>13, <2>14, <2>15, <2>16 DEF ModelsInv
<1> QED BY <1>1, <1>2

\* What retain and release of a reference do to the records: the count is
\* the new one, and nothing else changes but for a record that was missing.
LEMMA SetRefsRecords ==
    ASSUME ModelsInv, NEW id, NEW refs, id \in DOMAIN models, refs \in 0 .. MaxRefs,
           SetRefs(id, refs)
    PROVE  /\ records' \in Ledgers(ModelIds, ResidencyRecords)
           /\ DOMAIN records' = DOMAIN records \cup {id}
           /\ records'[id].refs = refs
           /\ \A x \in DOMAIN records :
                 /\ records'[x].footprint = records[x].footprint
                 /\ x # id => records'[x].refs = records[x].refs
           /\ Resident' = Resident
<1>1. records' = RecordRefs(id, refs)
  BY DEF SetRefs
<1>2. /\ models \in [DOMAIN models -> ModelRecords]
      /\ records \in [DOMAIN records -> ResidencyRecords]
      /\ DOMAIN models \subseteq ModelIds /\ DOMAIN records \subseteq ModelIds
  BY ResidencyFunctions DEF ModelsInv
<1>3. /\ DOMAIN records' = DOMAIN records \cup {id}
      /\ \A x \in DOMAIN records : /\ records'[x].footprint = records[x].footprint
                                   /\ records'[x].resident = records[x].resident
                                   /\ x # id => records'[x].refs = records[x].refs
      /\ records'[id].refs = refs
      /\ id \notin DOMAIN records => ~ records'[id].resident
      /\ records' \in Ledgers(ModelIds, ResidencyRecords)
  <2>1. CASE id \in DOMAIN records
    <3>1. records' = [records EXCEPT ![id].refs = refs]
      BY <1>1, <2>1 DEF RecordRefs
    <3>2. records' \in [DOMAIN records -> ResidencyRecords]
      BY <1>2, <2>1, <3>1 DEF ResidencyRecords
    <3>3. records' \in Ledgers(ModelIds, ResidencyRecords)
      BY <1>2, <3>2, IsLedgers
    <3> QED BY <1>2, <2>1, <3>1, <3>3 DEF ResidencyRecords
  <2>2. CASE id \notin DOMAIN records
    <3> DEFINE new == [footprint |-> models[id].footprint, refs |-> refs,
                       resident |-> FALSE]
    <3>1. records' = Emplace(records, id, new)
      BY <1>1, <2>2 DEF RecordRefs
    <3>2. new \in ResidencyRecords /\ new.refs = refs /\ ~ new.resident
      BY <1>2 DEF ModelRecords, ResidencyRecords
    <3> HIDE DEF new
    <3>3. records' \in Ledgers(ModelIds, ResidencyRecords)
      BY <1>2, <3>1, <3>2, LedgersOps DEF ModelsInv, LedgersOK
    <3> QED BY <2>2, <3>1, <3>2, <3>3 DEF Emplace
  <2> QED BY <2>1, <2>2
<1>4. Resident' = Resident
  <2>1. ASSUME NEW x PROVE x \in Resident' <=> x \in Resident
    <3>1. x \in Resident' <=> x \in DOMAIN records' /\ records'[x].resident
      BY DEF Resident
    <3>2. x \in Resident <=> x \in DOMAIN records /\ records[x].resident
      BY DEF Resident
    <3>3. CASE x \in DOMAIN records
      BY <1>3, <3>1, <3>2, <3>3
    <3>4. CASE x \notin DOMAIN records
      BY <1>3, <3>1, <3>2, <3>4
    <3> QED BY <3>3, <3>4
  <2> QED BY <2>1
<1> QED BY <1>3, <1>4

\* retain and release of a reference keep the two counts equal.
LEMMA SetRefsKeepsModels ==
    ASSUME ModelsInv, NEW id, NEW refs, id \in DOMAIN models, refs \in 0 .. MaxRefs,
           loading = NoLoad, SetRefs(id, refs)
    PROVE  ModelsInv'
<1>1. /\ models' = [models EXCEPT ![id].refs = refs]
      /\ model_reply' = "None"
      /\ UNCHANGED <<model_reservations, allocations, stranded, loading>>
  BY DEF SetRefs, backend, vars, ledger
<1>2. /\ models \in [DOMAIN models -> ModelRecords]
      /\ DOMAIN models \subseteq ModelIds
  BY ResidencyFunctions DEF ModelsInv
<1>3. /\ models' \in [DOMAIN models -> ModelRecords]
      /\ DOMAIN models' = DOMAIN models
      /\ \A x \in DOMAIN models : /\ models'[x].footprint = models[x].footprint
                                  /\ x # id => models'[x] = models[x]
      /\ models'[id].refs = refs
  BY <1>1, <1>2 DEF ModelRecords
<1>4. /\ records' \in Ledgers(ModelIds, ResidencyRecords)
      /\ DOMAIN records' = DOMAIN records \cup {id}
      /\ records'[id].refs = refs
      /\ \A x \in DOMAIN records :
            /\ records'[x].footprint = records[x].footprint
            /\ x # id => records'[x].refs = records[x].refs
      /\ Resident' = Resident
  BY SetRefsRecords
<1>5. Resident \subseteq DOMAIN records
  BY DEF Resident
<1>6. LedgersOK'
  <2>1. models' \in Ledgers(ModelIds, ModelRecords)
    BY <1>2, <1>3, IsLedgers
  <2> QED BY <1>1, <1>4, <2>1 DEF ModelsInv, LedgersOK, ModelErrors
<1>7. ResidencyAgrees'
  BY <1>1, <1>3, <1>4, <1>5 DEF ModelsInv, ResidencyAgrees, Evicting, Entering, At
<1>8. BackendAgrees'
  BY <1>1, <1>4 DEF ModelsInv, BackendAgrees
<1>9. ResidentIsAllocated'
  BY <1>1, <1>4, <1>5 DEF ModelsInv, ResidentIsAllocated
<1>10. RefCountsAgree'
  BY <1>3, <1>4 DEF ModelsInv, RefCountsAgree
<1>11. LoadingSound' /\ PlanShort'
  BY <1>1 DEF LoadingSound, PlanShort
<1> QED BY <1>6, <1>7, <1>8, <1>9, <1>10, <1>11 DEF ModelsInv

\* retain keeps the invariant.
LEMMA RetainKeepsModels ==
    ASSUME ModelsInv, NEW id, Retain(id)
    PROVE  ModelsInv'
<1>1. CASE AnswerModel("UnknownModel")
  BY <1>1, AnswerKeepsModels DEF ModelErrors
<1>2. CASE /\ loading = NoLoad /\ id \in DOMAIN models /\ models[id].refs < MaxRefs
           /\ SetRefs(id, models[id].refs + 1)
  <2>1. models[id].refs \in 0 .. MaxRefs
    BY <1>2, ResidencyFunctions DEF ModelsInv, ModelRecords
  <2>2. models[id].refs + 1 \in 0 .. MaxRefs
    BY <1>2, <2>1, ResidencyAssumption
  <2> QED BY <1>2, <2>2, SetRefsKeepsModels
<1> QED BY <1>1, <1>2 DEF Retain

\* The release of a reference keeps the invariant.
LEMMA ReleaseRefKeepsModels ==
    ASSUME ModelsInv, NEW id, ReleaseRef(id)
    PROVE  ModelsInv'
<1>1. CASE AnswerModel("UnknownModel") \/ AnswerModel("RefcountUnderflow")
  BY <1>1, AnswerKeepsModels DEF ModelErrors
<1>2. CASE /\ loading = NoLoad /\ id \in DOMAIN models /\ models[id].refs # 0
           /\ SetRefs(id, models[id].refs - 1)
  <2>1. models[id].refs \in 0 .. MaxRefs
    BY <1>2, ResidencyFunctions DEF ModelsInv, ModelRecords
  <2>2. models[id].refs - 1 \in 0 .. MaxRefs
    BY <1>2, <2>1, ResidencyAssumption
  <2> QED BY <1>2, <2>2, SetRefsKeepsModels
<1> QED BY <1>1, <1>2 DEF ReleaseRef

\* unregister keeps the invariant: the model is neither resident nor in use,
\* and no load is under way.
LEMMA UnregisterKeepsModels ==
    ASSUME ModelsInv, NEW id, Unregister(id)
    PROVE  ModelsInv'
<1>1. CASE AnswerModel(UnregisterError(id))
  BY <1>1, AnswerKeepsModels DEF ModelErrors, UnregisterError
<1>2. CASE /\ loading = NoLoad /\ UnregisterError(id) = "None"
           /\ models' = Erase(models, {id})
           /\ records' = Erase(records, {id})
           /\ model_reply' = "None"
           /\ UNCHANGED <<vars, backend, loading>>
  <2>1. id \notin Resident
    BY <1>2 DEF UnregisterError
  <2>2. UNCHANGED <<model_reservations, allocations, stranded, loading>>
    BY <1>2 DEF backend, vars, ledger
  <2>3. /\ DOMAIN models' = DOMAIN models \ {id}
        /\ \A x \in DOMAIN models' : models'[x] = models[x]
        /\ DOMAIN records' = DOMAIN records \ {id}
        /\ \A x \in DOMAIN records' : records'[x] = records[x]
    BY <1>2 DEF Erase, Restrict
  <2>4. Resident' = Resident /\ Resident \subseteq DOMAIN records'
    BY <2>1, <2>3 DEF Resident
  <2>5. LedgersOK'
    BY <1>2, <2>2, LedgersOps DEF ModelsInv, LedgersOK, ModelErrors
  <2>6. BackendAgrees' /\ ResidentIsAllocated'
    BY <2>1, <2>2, <2>3, <2>4 DEF ModelsInv, BackendAgrees, ResidentIsAllocated
  <2>7. RefCountsAgree'
    BY <2>3 DEF ModelsInv, RefCountsAgree
  <2>8. LoadingSound' /\ PlanShort'
    BY <1>2, <2>2 DEF LoadingSound, PlanShort
  <2>9. ResidencyAgrees'
    <3>1. DOMAIN model_reservations = Resident
      BY <1>2 DEF ModelsInv, ResidencyAgrees, Evicting, Entering, At
    <3>2. Evicting' = {} /\ Entering' = {}
      BY <1>2, <2>2 DEF Evicting, Entering, At
    <3>3. DOMAIN model_reservations' = (Resident' \ Evicting') \cup Entering'
      BY <2>2, <2>4, <3>1, <3>2
    <3>4. \A x \in Resident :
             /\ x \in DOMAIN models' /\ models'[x] = models[x]
             /\ x \in DOMAIN records' /\ records'[x] = records[x]
      BY <2>1, <2>3, <2>4 DEF ModelsInv, ResidencyAgrees
    <3> QED BY <2>2, <2>4, <3>1, <3>3, <3>4 DEF ModelsInv, ResidencyAgrees
  <2> QED BY <2>5, <2>6, <2>7, <2>8, <2>9 DEF ModelsInv
<1> QED BY <1>1, <1>2 DEF Unregister

\* The registrations and share keep the invariant.
LEMMA OthersKeepModels ==
    ASSUME ModelsInv, NEW id \in ModelIds
    PROVE  /\ \A bytes \in Sizes, good \in BOOLEAN :
                RegisterModel(id, bytes, good) => ModelsInv'
           /\ \A bytes \in Sizes, path \in BOOLEAN, good \in BOOLEAN :
                RegisterFile(id, bytes, path, good) => ModelsInv'
           /\ Share(id) => ModelsInv'
<1>1. ASSUME NEW bytes \in Sizes, NEW good \in BOOLEAN, RegisterModel(id, bytes, good)
      PROVE  ModelsInv'
  <2> DEFINE error == RegisterModelError(id, bytes, good)
  <2>1. CASE AnswerModel(error)
    BY <2>1, AnswerKeepsModels DEF ModelErrors, RegisterModelError
  <2>2. CASE error = "None" /\ AddModel(id, bytes, FALSE)
    <3>1. id \notin DOMAIN models /\ bytes # 0
      BY <2>2 DEF RegisterModelError
    <3> QED BY <2>2, <3>1, AddModelKeepsModels
  <2> QED BY <1>1, <2>1, <2>2 DEF RegisterModel
<1>2. ASSUME NEW bytes \in Sizes, NEW path \in BOOLEAN, NEW good \in BOOLEAN,
             RegisterFile(id, bytes, path, good)
      PROVE  ModelsInv'
  <2> DEFINE error == RegisterFileError(id, bytes, path, good)
  <2>1. CASE AnswerModel(error)
    BY <2>1, AnswerKeepsModels DEF ModelErrors, RegisterFileError
  <2>2. CASE error = "None" /\ AddModel(id, bytes, TRUE)
    <3>1. id \notin DOMAIN models /\ bytes # 0
      BY <2>2 DEF RegisterFileError
    <3> QED BY <2>2, <3>1, AddModelKeepsModels
  <2> QED BY <1>2, <2>1, <2>2 DEF RegisterFile
<1>3. ASSUME Share(id) PROVE ModelsInv'
  <2>1. PICK error \in ShareErrors(id) : AnswerModel(error)
    BY <1>3 DEF Share
  <2>2. error \in ModelErrors
    BY BackendAssumption DEF ShareErrors, MockShare, CudaShare, MetalShare, ModelErrors
  <2> QED BY <2>1, <2>2, AnswerKeepsModels
<1> QED BY <1>1, <1>2, <1>3

\* A call of a client, a cancellation, and a step of a waiting acquire.
ClientMove ==
    \/ ClientCall
    \/ CancelWaiters
    \/ \E t \in Threads : AcquireCall(t) \/ Waiter(t) \/ WaiterEvent(t)

\* No step of a client touches the reservations of models.
LEMMA ClientsLeaveReservations ==
    ASSUME ClientMove
    PROVE  UNCHANGED model_reservations
<1> USE DEF ledger, queue
<1>1. CASE ClientCall
  BY <1>1 DEF ClientCall, TryAcquire, Release, Reserve, Refuse
<1>2. CASE CancelWaiters
  BY <1>2 DEF CancelWaiters
<1>3. ASSUME NEW t \in Threads, AcquireCall(t) PROVE UNCHANGED model_reservations
  BY <1>3 DEF AcquireCall, Acquire, Refuse, Reserve, AcquireAtOnce, Enqueue
<1>4. ASSUME NEW t \in Threads, Waiter(t) \/ WaiterEvent(t)
      PROVE  UNCHANGED model_reservations
  BY <1>4 DEF Waiter, WaiterEvent, TryAgain, WaitTimeout, Return, SpuriousWakeup,
              DeadlinePasses
<1> QED BY <1>1, <1>2, <1>3, <1>4 DEF ClientMove

\* No step of a client touches the models.
LEMMA ClientsKeepModels ==
    ASSUME ModelsInv, ClientStep
    PROVE  ModelsInv' /\ UNCHANGED <<model_reservations, residency>>
<1>1. UNCHANGED model_reservations
  BY ClientsLeaveReservations DEF ClientStep, ClientMove
<1>2. UNCHANGED residency /\ model_reply' = "NoReply"
  BY DEF ClientStep
<1> QED BY <1>1, <1>2, QuietModels

-----------------------------------------------------------------------------

\* Initially there are no models.
LEMMA InitRInv == ResidencyInit => RInv
<1> SUFFICES ASSUME ResidencyInit PROVE RInv
  OBVIOUS
<1>1. IInv
  BY InitIInv DEF ResidencyInit
<1>2. /\ models = NoEntries /\ records = NoEntries /\ allocations = NoEntries
      /\ stranded = {} /\ loading = NoLoad /\ model_reply = "NoReply"
      /\ model_reservations = NoEntries
  BY DEF ResidencyInit, Init
<1>3. DOMAIN NoEntries = {}
  BY DEF NoEntries
<1>4. LedgersOK
  BY <1>2, NoEntriesType DEF LedgersOK
<1>5. Resident = {}
  BY <1>2, <1>3 DEF Resident
<1>6. ResidencyAgrees /\ BackendAgrees /\ ResidentIsAllocated /\ RefCountsAgree
  BY <1>2, <1>3, <1>5
     DEF ResidencyAgrees, BackendAgrees, ResidentIsAllocated, RefCountsAgree,
         Evicting, Entering, At
<1>7. LoadingSound /\ PlanShort
  BY <1>2 DEF LoadingSound, PlanShort
<1> QED BY <1>1, <1>4, <1>6, <1>7 DEF RInv, ModelsInv

\* All that a model operation does to the resource manager, the later steps
\* of a load apart, is release_model.
LEMMA ModelCallUsesManager ==
    ASSUME NEW id, ResidencyCall(id)
    PROVE  UNCHANGED vars \/ ReleaseModel(id)
<1>1. ASSUME NEW bytes, NEW good, RegisterModel(id, bytes, good) PROVE UNCHANGED vars
  BY <1>1 DEF RegisterModel, AddModel, AnswerModel
<1>2. ASSUME NEW bytes, NEW path, NEW good, RegisterFile(id, bytes, path, good)
      PROVE  UNCHANGED vars
  BY <1>2 DEF RegisterFile, AddModel, AnswerModel
<1>3. CASE Load(id)
  BY <1>3 DEF Load, LoadPlan, AnswerModel
<1>4. CASE Unload(id)
  BY <1>4 DEF Unload, AnswerModel
<1>5. CASE Share(id)
  BY <1>5 DEF Share, AnswerModel
<1>6. CASE Retain(id) \/ ReleaseRef(id)
  BY <1>6 DEF Retain, ReleaseRef, SetRefs, AnswerModel
<1>7. CASE Unregister(id)
  BY <1>7 DEF Unregister, AnswerModel
<1> QED BY <1>1, <1>2, <1>3, <1>4, <1>5, <1>6, <1>7 DEF ResidencyCall

\* All that the later steps of a load do to it is to have the reservations
\* replaced.
LEMMA LoadStepUsesManager ==
    ASSUME LoadStep
    PROVE  UNCHANGED vars
           \/ ReplaceModelReservations(loading.evictions, loading.id, loading.footprint)
BY DEF LoadStep, LoadReserve, LoadUndo, LoadEvict, LoadFinish

\* A step of the models keeps the invariant of the resource manager: all it
\* does to it is release_model and replace_model_reservations.
LEMMA ResidencyKeepsIInv ==
    ASSUME RInv, [ResidencyNext]_residencyVars
    PROVE  IInv'
<1>1. ASSUME UNCHANGED vars PROVE IInv'
  BY <1>1, NextIInv DEF RInv
<1>2. ASSUME NEW id \in ModelIds, ResidencyCall(id) PROVE IInv'
  BY <1>1, <1>2, ModelCallUsesManager, ReleaseModelKeepsIInv DEF RInv
<1>3. CASE LoadStep
  <2>1. loading # NoLoad
    BY <1>3 DEF LoadStep, LoadReserve, LoadUndo, LoadEvict, LoadFinish, At
  <2>2. loading.footprint \in Sizes
    BY <2>1 DEF RInv, ModelsInv, LedgersOK, Loads
  <2> QED BY <1>1, <1>3, <2>2, LoadStepUsesManager, ReplaceKeepsIInv DEF RInv
<1>4. CASE ClientStep
  <2>1. Next
    BY <1>4 DEF ClientStep, Next
  <2> QED BY <2>1, NextIInv DEF RInv
<1>5. CASE UNCHANGED residencyVars
  BY <1>1, <1>5 DEF residencyVars
<1> QED BY <1>2, <1>3, <1>4, <1>5 DEF ResidencyNext

\* Every step keeps the invariant.
LEMMA NextRInv == RInv /\ [ResidencyNext]_residencyVars => RInv'
<1> SUFFICES ASSUME RInv, [ResidencyNext]_residencyVars PROVE RInv'
  OBVIOUS
<1>1. IInv'
  BY ResidencyKeepsIInv
<1>2. ModelsInv
  BY DEF RInv
<1>3. ASSUME NEW id \in ModelIds, ResidencyCall(id) PROVE ModelsInv'
  BY <1>2, <1>3, OthersKeepModels, LoadKeepsModels, UnloadKeepsModels,
     RetainKeepsModels, ReleaseRefKeepsModels, UnregisterKeepsModels DEF ResidencyCall
<1>4. CASE LoadStep
  BY <1>1, <1>4, LoadReserveKeepsModels, LoadUndoKeepsModels, LoadEvictKeepsModels,
     LoadFinishKeepsModels DEF RInv, LoadStep
<1>5. CASE ClientStep
  BY <1>1, <1>2, <1>5, ClientsKeepModels DEF RInv
<1>6. CASE UNCHANGED residencyVars
  <2>1. UNCHANGED <<model_reservations, residency, model_reply>>
    BY <1>6 DEF residencyVars, vars, ledger
  <2>2. model_reply \in ModelErrors \cup {"NoReply"}
    BY <1>2 DEF ModelsInv, LedgersOK
  <2> QED BY <1>1, <1>2, <2>1, <2>2, QuietModels DEF RInv
<1> QED BY <1>1, <1>3, <1>4, <1>5, <1>6 DEF ResidencyNext, RInv

\* The conjunction of the invariants of the manager and of the models is an
\* invariant.
THEOREM ResidencyInvariance == ResidencySpec => []RInv
BY InitRInv, NextRInv, PTL DEF ResidencySpec

\* The state of the registry, the residency manager and the backend stays
\* well formed.
THEOREM ResidencyTypeCorrect == ResidencySpec => []ResidencyTypeOK
<1>1. RInv => ResidencyTypeOK
  BY ResidencyFunctions DEF RInv, ModelsInv, LedgersOK, ResidencyTypeOK
<1> QED BY <1>1, ResidencyInvariance, PTL

\* Exactly the resident models hold reservations, of their registered
\* footprints, but for those that a load is yet to evict and the one that it
\* is yet to enter.
THEOREM ResidencyCorrect == ResidencySpec => []ResidencyAgrees
<1>1. RInv => ResidencyAgrees
  BY DEF RInv, ModelsInv
<1> QED BY <1>1, ResidencyInvariance, PTL

\* The backend holds the resident models, the one being loaded and those that
\* it failed to unload, and nothing else.
THEOREM BackendCorrect == ResidencySpec => []BackendAgrees
<1>1. RInv => BackendAgrees
  BY DEF RInv, ModelsInv
<1> QED BY <1>1, ResidencyInvariance, PTL

\* A resident model is in the backend with its whole footprint.
THEOREM ResidentsAllocated == ResidencySpec => []ResidentIsAllocated
<1>1. RInv => ResidentIsAllocated
  BY DEF RInv, ModelsInv
<1> QED BY <1>1, ResidencyInvariance, PTL

\* The reference counts of the registry and of the residency records agree.
THEOREM RefCountsCorrect == ResidencySpec => []RefCountsAgree
<1>1. RInv => RefCountsAgree
  BY DEF RInv, ModelsInv
<1> QED BY <1>1, ResidencyInvariance, PTL

\* What the backend holds of models that are not stranded is what the manager
\* has reserved for models, and the Overhang of the load under way.
LEMMA BackendTotal ==
    ASSUME RInv
    PROVE  /\ Overhang \in Nat
           /\ Total(Erase(allocations, stranded)) = Total(model_reservations) + Overhang
<1> DEFINE left == Erase(allocations, stranded)
<1>1. /\ DOMAIN left = DOMAIN allocations \ stranded
      /\ \A id \in DOMAIN left : left[id] = allocations[id]
      /\ left = [id \in DOMAIN left |-> left[id]]
  BY DEF Erase, Restrict
<1>2. /\ \A id \in DOMAIN model_reservations : models[id].footprint = model_reservations[id]
      /\ \A id \in Resident : models[id].footprint = records[id].footprint
      /\ \A id \in Resident : allocations[id] = records[id].footprint
      /\ stranded \cap Resident = {}
  BY DEF RInv, ModelsInv, ResidencyAgrees, ResidentIsAllocated, BackendAgrees
<1>3. /\ IsLedger(model_reservations) /\ Total(model_reservations) \in Nat
  BY Accounts DEF RInv
<1> HIDE DEF left
<1>4. CASE loading = NoLoad
  <2>1. Resident = DOMAIN model_reservations
    BY <1>4 DEF RInv, ModelsInv, ResidencyAgrees, Evicting, Entering, At
  <2>2. DOMAIN left = DOMAIN model_reservations
    BY <1>1, <1>2, <1>4, <2>1 DEF RInv, ModelsInv, BackendAgrees
  <2>3. left = model_reservations
    BY <1>1, <1>2, <1>3, <2>1, <2>2 DEF IsLedger
  <2>4. Overhang = 0
    BY <1>4 DEF Overhang
  <2> QED BY <1>3, <2>3, <2>4 DEF left
<1>5. CASE loading # NoLoad
  <2> DEFINE id == loading.id
             bytes == loading.footprint
             evicted == Listed(loading.evictions)
  <2>1. /\ id \notin Resident /\ id \notin stranded /\ allocations[id] = bytes
        /\ models[id].footprint = bytes
    BY <1>5 DEF RInv, ModelsInv, LoadingSound
  <2>2. bytes \in Nat /\ evicted \subseteq Resident
    BY <1>5, SizesAssumption, LoadingFacts
  <2>3. DOMAIN left = Resident \cup {id}
    BY <1>1, <1>2, <1>5, <2>1 DEF RInv, ModelsInv, BackendAgrees
  <2>4. CASE loading.phase # "reserved"
    <3>1. DOMAIN model_reservations = Resident /\ Overhang = bytes
      BY <1>5, <2>4, ReservedModels DEF Overhang
    <3> HIDE DEF bytes, id
    <3>2. Total(left) = Total(model_reservations) + left[id]
      BY <1>1, <1>2, <1>3, <2>1, <2>2, <2>3, <3>1, TotalGrow
    <3>3. left[id] = bytes
      BY <1>1, <2>1, <2>3
    <3> QED BY <2>2, <3>1, <3>2, <3>3 DEF left
  <2>5. CASE loading.phase = "reserved"
    <3>1. /\ DOMAIN model_reservations = (Resident \ evicted) \cup {id}
          /\ Overhang = Footprints(evicted)
      BY <1>5, <2>5, ReservedModels DEF Overhang, Footprints
    <3>2. IsFiniteSet(evicted)
      BY <1>5, EvictionsFinite
    <3>3. Footprints(evicted) \in Nat
      BY <2>2, <3>2, FootprintsAdd
    <3> HIDE DEF bytes, id, evicted
    <3>4. DOMAIN left = DOMAIN model_reservations \cup evicted
      BY <2>2, <2>3, <3>1
    <3>5. IsLedger(left)
      <4>1. IsFiniteSet(DOMAIN left)
        <5>1. IsFiniteSet(DOMAIN model_reservations) /\ IsFiniteSet(evicted)
          BY <1>3, <3>2 DEF IsLedger
        <5> QED BY <3>4, <5>1, FS_Union, Zenon
      <4>2. \A x \in DOMAIN left : left[x] \in Nat
        BY <1>1, ResidencyFunctions, SizesAssumption DEF RInv, ModelsInv
      <4> QED BY <1>1, <4>1, <4>2 DEF IsLedger
    <3>6. evicted \in SUBSET DOMAIN left
          /\ DOMAIN left \ evicted = DOMAIN model_reservations
      BY <2>1, <2>2, <2>3, <3>1
    <3>7. Total(left) = Total([x \in evicted |-> left[x]])
                        + Total([x \in DOMAIN left \ evicted |-> left[x]])
      BY <3>5, <3>6, TotalSplit
    <3>8. [x \in evicted |-> left[x]] = [x \in evicted |-> records[x].footprint]
      BY <1>1, <1>2, <2>2, <3>6
    <3>9. [x \in DOMAIN left \ evicted |-> left[x]] = model_reservations
      <4>1. \A x \in DOMAIN model_reservations : left[x] = model_reservations[x]
        BY <1>1, <1>2, <2>1, <2>3, <3>1, <3>6
      <4>2. model_reservations = [x \in DOMAIN model_reservations |-> model_reservations[x]]
        BY <1>3 DEF IsLedger
      <4> QED BY <3>6, <4>1, <4>2
    <3>10. Total([x \in evicted |-> left[x]]) = Footprints(evicted)
      BY <3>8 DEF Footprints
    <3>11. Total([x \in DOMAIN left \ evicted |-> left[x]]) = Total(model_reservations)
      BY <3>9
    <3> QED BY <1>3, <3>1, <3>3, <3>7, <3>10, <3>11 DEF left
  <2> QED BY <2>4, <2>5
<1> QED BY <1>4, <1>5

\* The device and the clients exceed the capacity by no more than the models
\* that are not reserved yet or not evicted yet, apart from what the backend
\* failed to unload; and the models that are not evicted yet take up less than
\* the one that is loaded and one of themselves.
THEOREM OvercommitCorrect == ResidencySpec => []OvercommitBounded
<1>1. RInv => OvercommitBounded
  <2> SUFFICES ASSUME RInv PROVE OvercommitBounded
    OBVIOUS
  <2>1. /\ Overhang \in Nat
        /\ Total(Erase(allocations, stranded)) = Total(model_reservations) + Overhang
    BY BackendTotal
  <2>2. /\ Total(reservations) \in Nat /\ Total(model_reservations) \in Nat
        /\ Total(reservations) + Total(model_reservations) <= Capacity
    BY Accounts DEF RInv
  <2>3. Total(Erase(allocations, stranded)) + Total(reservations) <= Capacity + Overhang
    BY <2>1, <2>2, CapacityAssumption
  <2>4. ASSUME Evicting # {}
        PROVE  \E id \in Evicting : Overhang < loading.footprint + records[id].footprint
    <3> DEFINE list == loading.evictions
               last == list[Len(list)]
    <3>1. loading # NoLoad /\ loading.phase = "reserved" /\ Evicting = Listed(list)
      BY <2>4 DEF Evicting, At, Listed
    <3>2. list \in Seq(ModelIds) /\ loading.footprint \in Nat /\ Listed(list) \subseteq Resident
      BY <3>1, LoadingFacts, SizesAssumption
    <3>3. list # <<>> /\ last \in Listed(list)
      <4>1. list # <<>>
        BY <2>4, <3>1 DEF Listed
      <4>2. Len(list) \in DOMAIN list
        BY <3>2, <4>1
      <4> QED BY <4>1, <4>2 DEF Listed
    <3>4. Footprints(Listed(list) \ {last}) < loading.footprint
      BY <3>1, <3>3 DEF RInv, ModelsInv, PlanShort
    <3> HIDE DEF list, last
    <3>5. IsFiniteSet(Listed(list))
      BY <3>1, EvictionsFinite DEF list
    <3>6. /\ Footprints(Listed(list)) = Footprints(Listed(list) \ {last}) + records[last].footprint
          /\ Footprints(Listed(list) \ {last}) \in Nat /\ records[last].footprint \in Nat
      BY <3>2, <3>3, <3>5, FootprintsAdd
    <3>7. Overhang = Footprints(Listed(list))
      BY <3>1 DEF Overhang, Footprints
    <3>8. Overhang < loading.footprint + records[last].footprint
      BY <3>2, <3>4, <3>6, <3>7
    <3> QED BY <3>1, <3>3, <3>8
  <2> QED BY <2>3, <2>4 DEF OvercommitBounded
<1> QED BY <1>1, ResidencyInvariance, PTL

-----------------------------------------------------------------------------
(***************************************************************************)
(* The action properties.                                                  *)
(***************************************************************************)

\* A step that takes no model out of the registry or out of residence, but
\* for one that is not in use, respects the references.
LEMMA RespectsReferences ==
    ASSUME RInv, RInv', NEW gone,
           \A id \in gone \cap DOMAIN models : models[id].refs = 0,
           DOMAIN models \ gone \subseteq DOMAIN models',
           Resident \ gone \subseteq Resident'
    PROVE  RetainedStep
<1>1. \A id \in Resident' : id \in DOMAIN allocations'
  BY DEF RInv, ModelsInv, ResidentIsAllocated
<1>2. \A id \in DOMAIN models : models[id].refs > 0 => id \notin gone
  BY DEF RInv, ModelsInv
<1> QED BY <1>1, <1>2 DEF RetainedStep

\* So does a step that takes none away.
LEMMA TakesNoneAway ==
    ASSUME RInv, RInv', DOMAIN models \subseteq DOMAIN models', Resident \subseteq Resident'
    PROVE  RetainedStep
<1> DEFINE gone == {}
<1>1. /\ \A id \in gone \cap DOMAIN models : models[id].refs = 0
      /\ DOMAIN models \ gone \subseteq DOMAIN models'
      /\ Resident \ gone \subseteq Resident'
  OBVIOUS
<1> HIDE DEF gone
<1> QED BY <1>1, RespectsReferences

\* The models that a load has planned to evict are not in use when it does.
LEMMA LoadRespectsReferences ==
    ASSUME RInv, RInv', LoadStep
    PROVE  RetainedStep
<1>1. CASE LoadReserve \/ LoadUndo
  <2>1. UNCHANGED <<models, records>>
    BY <1>1 DEF LoadReserve, LoadUndo
  <2>2. Resident' = Resident
    BY <2>1 DEF Resident
  <2> QED BY <2>1, <2>2, TakesNoneAway
<1>2. CASE LoadEvict
  <2> DEFINE gone == {Head(loading.evictions)}
  <2>1. /\ UNCHANGED models /\ Resident' = Resident \ gone
        /\ Head(loading.evictions) \in Resident
    BY <1>2, LoadEvictRecords DEF LoadEvict
  <2>2. records[Head(loading.evictions)].refs = 0
    <3>1. /\ loading # NoLoad /\ loading.evictions # <<>>
          /\ loading.evictions \in Seq(ModelIds)
      BY <1>2, LoadingFacts DEF LoadEvict, At
    <3>2. 1 \in DOMAIN loading.evictions /\ Head(loading.evictions) = loading.evictions[1]
      BY <3>1
    <3> QED BY <3>1, <3>2 DEF RInv, ModelsInv, LoadingSound
  <2>3. \A id \in gone \cap DOMAIN models : models[id].refs = 0
    BY <2>1, <2>2 DEF RInv, ModelsInv, RefCountsAgree, Resident
  <2> HIDE DEF gone
  <2> QED BY <2>1, <2>3, RespectsReferences
<1>3. CASE LoadFinish
  BY <1>3, LoadFinishKeepsModels, TakesNoneAway DEF LoadFinish
<1> QED BY <1>1, <1>2, <1>3 DEF LoadStep

\* No operation on models takes one away that is in use.
LEMMA CallRespectsReferences ==
    ASSUME RInv, RInv', NEW id \in ModelIds, ResidencyCall(id)
    PROVE  RetainedStep
<1>1. ASSUME UNCHANGED records PROVE Resident' = Resident
  BY <1>1 DEF Resident
<1>2. ASSUME UNCHANGED <<models, records>> PROVE RetainedStep
  BY <1>1, <1>2, TakesNoneAway
<1>3. ASSUME NEW error, AnswerModel(error) PROVE RetainedStep
  BY <1>2, <1>3 DEF AnswerModel, residency
<1>4. ASSUME NEW bytes, NEW file, AddModel(id, bytes, file) PROVE RetainedStep
  <2>1. DOMAIN models \subseteq DOMAIN models' /\ UNCHANGED records
    BY <1>4 DEF AddModel, Emplace
  <2> QED BY <1>1, <2>1, TakesNoneAway
<1>5. ASSUME NEW bytes, NEW good, RegisterModel(id, bytes, good) PROVE RetainedStep
  BY <1>3, <1>4, <1>5 DEF RegisterModel
<1>6. ASSUME NEW bytes, NEW path, NEW good, RegisterFile(id, bytes, path, good)
      PROVE  RetainedStep
  BY <1>3, <1>4, <1>6 DEF RegisterFile
<1>7. CASE Load(id)
  BY <1>2, <1>3, <1>7 DEF Load, LoadPlan
<1>8. CASE Unload(id)
  <2>1. CASE \E error : AnswerModel(error)
    BY <1>3, <2>1
  <2>2. CASE ~ \E error : AnswerModel(error)
    <3>1. /\ UnloadError(id) = "None" /\ UNCHANGED models
          /\ records' = [records EXCEPT ![id].resident = FALSE] \/ records' = records
      BY <1>8, <2>2 DEF Unload
    <3>2. id \in DOMAIN models /\ id \in Resident /\ records[id].refs = 0
      BY <3>1 DEF UnloadError
    <3>3. models[id].refs = 0
      BY <3>2 DEF RInv, ModelsInv, RefCountsAgree, Resident
    <3>4. Resident \ {id} \subseteq Resident'
      BY <3>1 DEF Resident
    <3> QED BY <3>1, <3>3, <3>4, RespectsReferences
  <2> QED BY <2>1, <2>2
<1>9. CASE Share(id)
  BY <1>3, <1>9 DEF Share
<1>10. ASSUME NEW refs \in 0 .. MaxRefs, id \in DOMAIN models, SetRefs(id, refs)
       PROVE  RetainedStep
  <2>1. Resident' = Resident
    BY <1>10, SetRefsRecords DEF RInv
  <2>2. DOMAIN models' = DOMAIN models
    BY <1>10 DEF SetRefs
  <2> QED BY <2>1, <2>2, TakesNoneAway
<1>11. ASSUME id \in DOMAIN models PROVE models[id].refs \in 0 .. MaxRefs
  BY <1>11, ResidencyFunctions DEF RInv, ModelsInv, ModelRecords
<1>12. CASE Retain(id)
  <2>1. CASE id \in DOMAIN models /\ models[id].refs < MaxRefs
             /\ SetRefs(id, models[id].refs + 1)
    <3>1. models[id].refs + 1 \in 0 .. MaxRefs
      BY <1>11, <2>1, ResidencyAssumption
    <3> QED BY <1>10, <2>1, <3>1
  <2> QED BY <1>3, <1>12, <2>1 DEF Retain
<1>13. CASE ReleaseRef(id)
  <2>1. CASE id \in DOMAIN models /\ models[id].refs # 0
             /\ SetRefs(id, models[id].refs - 1)
    <3>1. models[id].refs - 1 \in 0 .. MaxRefs
      BY <1>11, <2>1, ResidencyAssumption
    <3> QED BY <1>10, <2>1, <3>1
  <2> QED BY <1>3, <1>13, <2>1 DEF ReleaseRef
<1>14. CASE Unregister(id)
  <2>1. CASE /\ UnregisterError(id) = "None" /\ models' = Erase(models, {id})
             /\ records' = Erase(records, {id})
    <3>1. models[id].refs = 0
      BY <2>1 DEF UnregisterError
    <3>2. /\ DOMAIN models \ {id} \subseteq DOMAIN models'
          /\ Resident \ {id} \subseteq Resident'
      BY <2>1 DEF Erase, Restrict, Resident
    <3> QED BY <3>1, <3>2, RespectsReferences
  <2> QED BY <1>3, <1>14, <2>1 DEF Unregister
<1> QED BY <1>5, <1>6, <1>7, <1>8, <1>9, <1>12, <1>13, <1>14 DEF ResidencyCall

\* Every step respects the references.
LEMMA NextRespectsReferences ==
    RInv /\ RInv' /\ [ResidencyNext]_residencyVars => [RetainedStep]_residencyVars
<1> SUFFICES ASSUME RInv, RInv', ResidencyNext PROVE RetainedStep
  OBVIOUS
<1>1. CASE ClientStep
  <2>1. UNCHANGED <<models, records>>
    BY <1>1 DEF ClientStep, residency
  <2>2. Resident' = Resident
    BY <2>1 DEF Resident
  <2> QED BY <2>1, <2>2, TakesNoneAway
<1> QED BY <1>1, CallRespectsReferences, LoadRespectsReferences DEF ResidencyNext

\* A retained model is neither evicted, unloaded nor unregistered, whatever
\* a load had planned and whatever clients do meanwhile.
THEOREM RetainedCorrect == ResidencySpec => RetainedStays
BY ResidencyInvariance, NextRespectsReferences, PTL DEF ResidencySpec, RetainedStays

\* Only a load's own steps refuse it its memory or end it, and if it fails
\* they change neither the records nor the reservations.
LEMMA NextFailsCleanly ==
    RInv /\ RInv' /\ [ResidencyNext]_residencyVars => [FailedLoadStep]_residencyVars
<1> SUFFICES ASSUME RInv, RInv', ResidencyNext, ~ UNCHANGED residencyVars,
                    loading # NoLoad,
                    IF loading' = NoLoad THEN model_reply' # "None"
                    ELSE loading'.phase = "refused"
             PROVE  /\ Resident' = Resident
                    /\ model_reservations' = model_reservations
                    /\ \A id \in Resident : id \in DOMAIN allocations'
  BY DEF FailedLoadStep
<1>1. ASSUME UNCHANGED <<records, model_reservations>>
      PROVE  /\ Resident' = Resident
             /\ model_reservations' = model_reservations
             /\ \A id \in Resident : id \in DOMAIN allocations'
  <2>1. Resident' = Resident
    BY <1>1 DEF Resident
  <2> QED BY <1>1, <2>1 DEF RInv, ModelsInv, ResidentIsAllocated
<1>2. CASE ClientStep
  BY <1>1, <1>2, ClientsKeepModels DEF RInv, residency
<1>3. ASSUME NEW id, ResidencyCall(id)
      PROVE  UNCHANGED <<records, model_reservations>>
  <2> USE DEF vars, ledger
  <2>1. ASSUME NEW error, AnswerModel(error) PROVE UNCHANGED <<records, model_reservations>>
    BY <2>1 DEF AnswerModel, residency
  <2>2. ASSUME NEW bytes, NEW good, RegisterModel(id, bytes, good)
        PROVE  UNCHANGED <<records, model_reservations>>
    BY <2>1, <2>2 DEF RegisterModel, AddModel
  <2>3. ASSUME NEW bytes, NEW path, NEW good, RegisterFile(id, bytes, path, good)
        PROVE  UNCHANGED <<records, model_reservations>>
    BY <2>1, <2>3 DEF RegisterFile, AddModel
  <2> QED BY <1>3, <2>2, <2>3
          DEF ResidencyCall, Load, Unload, Share, Retain, ReleaseRef, Unregister
<1>4. CASE LoadReserve
  <2>1. reply' # "None" /\ UNCHANGED records
    <3>1. loading \in Loads
      BY LoadingFacts
    <3>2. loading' # NoLoad /\ loading'.phase = IF reply' = "None" THEN "reserved" ELSE "refused"
      BY <1>4, <3>1, NoLoadAssumption DEF LoadReserve, Loads
    <3> QED BY <1>4, <3>2 DEF LoadReserve
  <2>2. UNCHANGED model_reservations
    BY <1>4, <2>1 DEF LoadReserve, ReplaceModelReservations, Refuse, ledger
  <2> QED BY <1>1, <2>1, <2>2
<1>5. CASE LoadUndo
  BY <1>1, <1>5 DEF LoadUndo, vars, ledger
<1>6. ~ LoadEvict
  <2> SUFFICES ASSUME LoadEvict PROVE FALSE
    OBVIOUS
  <2>1. loading \in Loads /\ loading.phase = "reserved" /\ loading.evictions # <<>>
    BY LoadingFacts DEF LoadEvict, At
  <2>2. loading' \in Loads /\ loading'.phase = "reserved"
    <3>1. Tail(loading.evictions) \in Seq(ModelIds)
      BY <2>1 DEF Loads
    <3> QED BY <2>1, <3>1 DEF LoadEvict, Loads
  <2> QED BY <2>2, NoLoadAssumption
<1>7. ~ LoadFinish
  BY DEF LoadFinish
<1> QED BY <1>1, <1>2, <1>3, <1>4, <1>5, <1>6, <1>7 DEF ResidencyNext, LoadStep

\* A load that fails evicts nothing.
THEOREM FailedLoadCorrect == ResidencySpec => FailedLoadEvictsNothing
BY ResidencyInvariance, NextFailsCleanly, PTL DEF ResidencySpec, FailedLoadEvictsNothing

=============================================================================
