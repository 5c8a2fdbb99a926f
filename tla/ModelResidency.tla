--------------------------- MODULE ModelResidency ---------------------------
(***************************************************************************)
(* ModelRegistry, ModelResidencyManager and an accelerator backend on top  *)
(* of ResourceManager, whose actions are used unchanged: clients go on     *)
(* acquiring and releasing memory while models are loaded and evicted.     *)
(*                                                                         *)
(* Every residency operation runs under the residency mutex.  load reads   *)
(* the free memory, plans evictions and loads the backend; then it has the *)
(* reservations replaced, whereupon waiters are granted what is left over; *)
(* then it evicts the models one after the other.  Clients and             *)
(* registrations, which do not take that mutex, run between these steps.   *)
(* The other operations touch the resource manager at most once and are    *)
(* one step.                                                               *)
(***************************************************************************)
EXTENDS ResourceManager

CONSTANTS FileModels,  \* the ids that are registered as files
          MaxRefs,     \* bound on the reference count of a model
          Backend,     \* the accelerator backend of the daemon
          NoLoad

ASSUME ResidencyAssumption == MaxRefs \in Nat
ASSUME BackendAssumption == Backend \in {"mock", "cuda", "metal"}

\* What a load carries from step to step: it has "loaded" the backend, it has
\* "reserved" the memory or it was "refused".  evictions are those to come.
Loads == [id : ModelIds, footprint : Sizes \ {0}, refs : 0 .. MaxRefs,
          evictions : Seq(ModelIds), phase : {"loaded", "reserved", "refused"}]

ASSUME NoLoadAssumption == NoLoad \notin Loads

VARIABLES models,       \* ModelRegistry::models_
          records,      \* ModelResidencyManager::records_
          allocations,  \* the backend's allocations, by model
          stranded,     \* the models that it failed to unload when asked to
          loading,      \* the load that holds the residency mutex, or NoLoad
          model_reply   \* the error of the model operation that has returned

backend == <<allocations, stranded>>
residency == <<models, records, backend, loading>>
residencyVars == <<vars, residency, model_reply>>

-----------------------------------------------------------------------------

ModelErrors == {"None", "InvalidId", "InvalidSize", "InvalidMetadata",
                "InvalidPath", "FileUnavailable", "DuplicateModel",
                "UnknownModel", "ModelInUse", "RefcountUnderflow",
                "UnknownResidency", "InsufficientMemory", "SourceChanged",
                "ReadFailure", "BackendFailure", "BackendUnsupported"}

ModelRecords == [footprint : Sizes \ {0}, refs : 0 .. MaxRefs, file : BOOLEAN]
ResidencyRecords == [footprint : Sizes \ {0}, refs : 0 .. MaxRefs, resident : BOOLEAN]

Resident == {id \in DOMAIN records : records[id].resident}

ResidencyInit ==
    /\ Init
    /\ models = NoEntries
    /\ records = NoEntries
    /\ allocations = NoEntries
    /\ stranded = {}
    /\ loading = NoLoad
    /\ model_reply = "NoReply"

\* A model operation that returns and has changed nothing.
AnswerModel(error) ==
    /\ model_reply' = error
    /\ UNCHANGED <<vars, residency>>

\* records_.try_emplace, or else the update of the reference count.
RecordRefs(id, refs) ==
    IF id \in DOMAIN records
    THEN [records EXCEPT ![id].refs = refs]
    ELSE Emplace(records, id, [footprint |-> models[id].footprint,
                               refs |-> refs, resident |-> FALSE])

-----------------------------------------------------------------------------
(***************************************************************************)
(* The registry's own operations, which take no residency mutex.           *)
(***************************************************************************)

RegisterModelError(id, bytes, goodMetadata) ==
    IF id \notin ValidNames THEN "InvalidId"
    ELSE IF bytes = 0 THEN "InvalidSize"
    ELSE IF ~ goodMetadata THEN "InvalidMetadata"
    ELSE IF id \in DOMAIN models THEN "DuplicateModel"
    ELSE "None"

\* bytes is the size of the file, or 0 if there is no such regular file.
RegisterFileError(id, bytes, goodPath, goodMetadata) ==
    IF id \notin ValidNames THEN "InvalidId"
    ELSE IF ~ goodPath THEN "InvalidPath"
    ELSE IF ~ goodMetadata THEN "InvalidMetadata"
    ELSE IF bytes = 0 THEN "FileUnavailable"
    ELSE IF id \in DOMAIN models THEN "DuplicateModel"
    ELSE "None"

AddModel(id, bytes, file) ==
    /\ models' = Emplace(models, id, [footprint |-> bytes, refs |-> 0, file |-> file])
    /\ model_reply' = "None"
    /\ UNCHANGED <<vars, records, backend, loading>>

RegisterModel(id, bytes, goodMetadata) ==
    LET error == RegisterModelError(id, bytes, goodMetadata) IN
    \/ error # "None" /\ AnswerModel(error)
    \/ error = "None" /\ AddModel(id, bytes, FALSE)

RegisterFile(id, bytes, goodPath, goodMetadata) ==
    LET error == RegisterFileError(id, bytes, goodPath, goodMetadata) IN
    \/ error # "None" /\ AnswerModel(error)
    \/ error = "None" /\ AddModel(id, bytes, TRUE)

-----------------------------------------------------------------------------
(***************************************************************************)
(* The backend.                                                            *)
(***************************************************************************)

\* Whether a load may succeed (TRUE) and may fail (FALSE).  The mock backend
\* fails only if the model is there already; a device may be out of memory or
\* fail otherwise, also while the data is copied, and is then as before.
MockLoads(id) == {id \notin DOMAIN allocations}
CudaLoads(id) == IF id \in DOMAIN allocations THEN {FALSE} ELSE BOOLEAN
MetalLoads(id) == IF id \in DOMAIN allocations THEN {FALSE} ELSE BOOLEAN

\* Mutant: an allocation that is there already counts as loaded.
BackendReloads(id) == BOOLEAN

BackendLoadOutcomes(id) ==
    CASE Backend = "mock" -> MockLoads(id)
      [] Backend = "cuda" -> CudaLoads(id)
      [] Backend = "metal" -> MetalLoads(id)

\* The sets of models that an attempt to unload ids may really unload: cudaFree
\* may fail, and the allocation is kept.
MockUnloads(ids) == {ids \cap DOMAIN allocations}
CudaUnloads(ids) == SUBSET (ids \cap DOMAIN allocations)
MetalUnloads(ids) == {ids \cap DOMAIN allocations}

Unloadable(ids) ==
    CASE Backend = "mock" -> MockUnloads(ids)
      [] Backend = "cuda" -> CudaUnloads(ids)
      [] Backend = "metal" -> MetalUnloads(ids)

\* Only CUDA shares memory with other processes.
MockShare(id) == {"BackendUnsupported"}
CudaShare(id) == IF id \in DOMAIN allocations THEN {"None", "BackendFailure"}
                 ELSE {"BackendFailure"}
MetalShare(id) == {"BackendUnsupported"}

\* Unload ids and carry on, whether or not the backend lets go of them.
BackendUnload(ids) ==
    \E unloaded \in Unloadable(ids) :
        /\ allocations' = Erase(allocations, unloaded)
        /\ stranded' = stranded \cup ((ids \cap DOMAIN allocations) \ unloaded)

-----------------------------------------------------------------------------
(***************************************************************************)
(* load.                                                                   *)
(***************************************************************************)

\* What reading the source of a model may come to.
SourceOutcomes(id) ==
    IF models[id].file
    THEN {"None", "FileUnavailable", "SourceChanged", "ReadFailure"}
    ELSE {"None"}

\* Mutant: retained models are candidates too.
EvictionPlansRetained(need) ==
    LET lists == UNION {[1 .. k -> Resident] : k \in 0 .. Cardinality(Resident)}
        freed(list) == Total([id \in {list[i] : i \in DOMAIN list} |-> records[id].footprint])
    IN {list \in lists :
          /\ \A i, j \in DOMAIN list : i # j => list[i] # list[j]
          /\ Free + freed(list) >= need}

\* Mutant: every candidate is evicted, needed or not.
EvictionPlansAll(need) ==
    LET candidates == {id \in Resident : records[id].refs = 0}
        lists == [1 .. Cardinality(candidates) -> candidates]
        freed(list) == Total([id \in {list[i] : i \in DOMAIN list} |-> records[id].footprint])
    IN {list \in lists :
          /\ \A i, j \in DOMAIN list : i # j => list[i] # list[j]
          /\ Free + freed(list) >= need}

\* The eviction lists that load may plan for need bytes.  The candidates are
\* ranked by a score that contains the measured load times, so any order of
\* them may come up; a prefix is taken that is just long enough.
EvictionPlans(need) ==
    LET candidates == {id \in Resident : records[id].refs = 0}
        lists == UNION {[1 .. k -> candidates] : k \in 0 .. Cardinality(candidates)}
        freed(list, k) ==
            Total([id \in {list[i] : i \in 1 .. k} |-> records[id].footprint])
    IN {list \in lists :
          /\ \A i, j \in DOMAIN list : i # j => list[i] # list[j]
          /\ Free + freed(list, Len(list)) >= need
          /\ \A k \in 0 .. Len(list) - 1 : Free + freed(list, k) < need}

LoadError(id) ==
    IF id \notin DOMAIN models THEN "UnknownModel"
    ELSE IF models[id].footprint > Capacity THEN "InsufficientMemory"
    ELSE IF EvictionPlans(models[id].footprint) = {} THEN "InsufficientMemory"
    ELSE "None"

AlreadyLoaded(id) == id \in DOMAIN models /\ id \in Resident

\* Plan, read the source and load the backend.
LoadPlan(id) ==
    \E plan \in EvictionPlans(models[id].footprint),
       source \in SourceOutcomes(id), loaded \in BackendLoadOutcomes(id) :
        \/ source # "None" /\ AnswerModel(source)
        \/ source = "None" /\ ~ loaded /\ AnswerModel("BackendFailure")
        \/ /\ source = "None" /\ loaded
           /\ allocations' = Emplace(allocations, id, models[id].footprint)
           /\ loading' = [id |-> id, footprint |-> models[id].footprint,
                          refs |-> models[id].refs, evictions |-> plan,
                          phase |-> "loaded"]
           /\ model_reply' = "NoReply"
           /\ UNCHANGED <<vars, models, records, stranded>>

Load(id) ==
    /\ loading = NoLoad
    /\ Unlocked
    /\ \/ AlreadyLoaded(id) /\ AnswerModel("None")
       \/ /\ ~ AlreadyLoaded(id)
          /\ LoadError(id) # "None"
          /\ AnswerModel(LoadError(id))
       \/ /\ ~ AlreadyLoaded(id)
          /\ LoadError(id) = "None"
          /\ LoadPlan(id)

At(phase) == loading # NoLoad /\ loading.phase = phase

\* replace_model_reservations gives the load its memory, if what was free is
\* not gone, and what is left over to waiters; nothing is evicted yet.
LoadReserve ==
    /\ At("loaded")
    /\ ReplaceModelReservations(loading.evictions, loading.id, loading.footprint)
    /\ loading' = [loading EXCEPT !.phase = IF reply' = "None" THEN "reserved" ELSE "refused"]
    /\ model_reply' = "NoReply"
    /\ UNCHANGED <<models, records, backend>>

\* Mutant: the load that gives up leaves its model in the backend.
LoadUndoKeeps ==
    /\ At("refused")
    /\ model_reply' = "InsufficientMemory"
    /\ loading' = NoLoad
    /\ UNCHANGED <<vars, models, records, backend>>

NotResident(ids) ==
    [e \in DOMAIN records |->
        IF e \in ids THEN [records[e] EXCEPT !.resident = FALSE] ELSE records[e]]

\* Mutant: the load evicts what it has planned to, also if it gives up.
LoadUndoAfterEvicting ==
    LET evicted == {loading.evictions[i] : i \in DOMAIN loading.evictions} IN
    /\ At("refused")
    /\ BackendUnload(evicted \cup {loading.id})
    /\ records' = NotResident(evicted)
    /\ model_reply' = "InsufficientMemory"
    /\ loading' = NoLoad
    /\ UNCHANGED <<vars, models>>

\* Without its memory the load takes its model out again and gives up.
LoadUndo ==
    /\ At("refused")
    /\ BackendUnload({loading.id})
    /\ model_reply' = "InsufficientMemory"
    /\ loading' = NoLoad
    /\ UNCHANGED <<vars, models, records>>

\* With it, it evicts one model after the other, whether or not the backend
\* lets go of them ...
LoadEvict ==
    /\ At("reserved")
    /\ loading.evictions # <<>>
    /\ BackendUnload({Head(loading.evictions)})
    /\ records' = NotResident({Head(loading.evictions)})
    /\ loading' = [loading EXCEPT !.evictions = Tail(@)]
    /\ model_reply' = "NoReply"
    /\ UNCHANGED <<vars, models>>

\* ... and enters the new one.
LoadFinish ==
    /\ At("reserved")
    /\ loading.evictions = <<>>
    /\ records' = Emplace(Erase(records, {loading.id}), loading.id,
                          [footprint |-> loading.footprint,
                           refs |-> loading.refs, resident |-> TRUE])
    /\ model_reply' = "None"
    /\ loading' = NoLoad
    /\ UNCHANGED <<vars, models, backend>>

LoadStep == LoadReserve \/ LoadUndo \/ LoadEvict \/ LoadFinish

-----------------------------------------------------------------------------
(***************************************************************************)
(* The other residency operations.                                         *)
(***************************************************************************)

UnloadError(id) ==
    IF id \notin DOMAIN models THEN "UnknownModel"
    ELSE IF id \notin Resident THEN "UnknownResidency"
    ELSE IF records[id].refs # 0 THEN "ModelInUse"
    ELSE "None"

\* A backend that refuses ends it; a reservation that is missing makes it load
\* the model again.
Unload(id) ==
    LET error == UnloadError(id)
        released == ReleaseError(id, model_reservations)
    IN
    /\ loading = NoLoad
    /\ \/ error # "None" /\ AnswerModel(error)
       \/ error = "None" /\ {} \in Unloadable({id}) /\ AnswerModel("BackendFailure")
       \/ /\ error = "None" /\ {id} \in Unloadable({id})
          /\ ReleaseModel(id)
          /\ \E lost \in IF released = "None" THEN {{id}} ELSE {{}, {id}} :
                allocations' = Erase(allocations, lost)
          /\ records' = IF released = "None"
                        THEN [records EXCEPT ![id].resident = FALSE]
                        ELSE records
          /\ model_reply' = IF released = "None" THEN "None" ELSE "UnknownResidency"
          /\ UNCHANGED <<models, loading, stranded>>

\* share hands out a token, if the backend has such, and keeps no record of it.
ShareErrors(id) ==
    IF id \notin DOMAIN models THEN {"UnknownModel"}
    ELSE IF id \notin Resident THEN {"UnknownResidency"}
    ELSE CASE Backend = "mock" -> MockShare(id)
           [] Backend = "cuda" -> CudaShare(id)
           [] Backend = "metal" -> MetalShare(id)

Share(id) ==
    /\ loading = NoLoad
    /\ \E error \in ShareErrors(id) : AnswerModel(error)

\* Mutant: the residency record keeps the old reference count.
SetRefsRegistryOnly(id, refs) ==
    /\ models' = [models EXCEPT ![id].refs = refs]
    /\ model_reply' = "None"
    /\ UNCHANGED <<vars, records, backend, loading>>

SetRefs(id, refs) ==
    /\ models' = [models EXCEPT ![id].refs = refs]
    /\ records' = RecordRefs(id, refs)
    /\ model_reply' = "None"
    /\ UNCHANGED <<vars, backend, loading>>

Retain(id) ==
    /\ loading = NoLoad
    /\ \/ id \notin DOMAIN models /\ AnswerModel("UnknownModel")
       \/ /\ id \in DOMAIN models
          /\ models[id].refs < MaxRefs
          /\ SetRefs(id, models[id].refs + 1)

\* Mutant: no check for a reference count of zero.
ReleaseRefUnchecked(id) ==
    /\ loading = NoLoad
    /\ \/ id \notin DOMAIN models /\ AnswerModel("UnknownModel")
       \/ id \in DOMAIN models /\ SetRefs(id, models[id].refs - 1)

ReleaseRef(id) ==
    /\ loading = NoLoad
    /\ \/ id \notin DOMAIN models /\ AnswerModel("UnknownModel")
       \/ /\ id \in DOMAIN models /\ models[id].refs = 0
          /\ AnswerModel("RefcountUnderflow")
       \/ /\ id \in DOMAIN models /\ models[id].refs # 0
          /\ SetRefs(id, models[id].refs - 1)

\* Mutant: a resident model may be unregistered.
UnregisterErrorResident(id) ==
    IF id \notin ValidNames THEN "InvalidId"
    ELSE IF id \notin DOMAIN models THEN "UnknownModel"
    ELSE IF models[id].refs # 0 THEN "ModelInUse"
    ELSE "None"

UnregisterError(id) ==
    IF id \in Resident THEN "ModelInUse"
    ELSE IF id \notin ValidNames THEN "InvalidId"
    ELSE IF id \notin DOMAIN models THEN "UnknownModel"
    ELSE IF models[id].refs # 0 THEN "ModelInUse"
    ELSE "None"

Unregister(id) ==
    LET error == UnregisterError(id) IN
    /\ loading = NoLoad
    /\ \/ error # "None" /\ AnswerModel(error)
       \/ /\ error = "None"
          /\ models' = Erase(models, {id})
          /\ records' = Erase(records, {id})
          /\ model_reply' = "None"
          /\ UNCHANGED <<vars, backend, loading>>

-----------------------------------------------------------------------------

ResidencyCall(id) ==
    \/ \E bytes \in Sizes, goodMetadata \in BOOLEAN :
          \/ id \notin FileModels /\ RegisterModel(id, bytes, goodMetadata)
          \/ \E goodPath \in BOOLEAN :
                id \in FileModels /\ RegisterFile(id, bytes, goodPath, goodMetadata)
    \/ Load(id)
    \/ Unload(id)
    \/ Share(id)
    \/ Retain(id)
    \/ ReleaseRef(id)
    \/ Unregister(id)

\* A step of a client or of a waiting acquire.
ClientStep ==
    /\ \/ ClientCall
       \/ CancelWaiters
       \/ \E t \in Threads : AcquireCall(t) \/ Waiter(t) \/ WaiterEvent(t)
    /\ model_reply' = "NoReply"
    /\ UNCHANGED residency

ResidencyNext ==
    \/ \E id \in ModelIds : ResidencyCall(id)
    \/ LoadStep
    \/ ClientStep

ResidencySpec == ResidencyInit /\ [][ResidencyNext]_residencyVars

-----------------------------------------------------------------------------

\* The state is well formed.
ResidencyTypeOK ==
    /\ models \in [DOMAIN models -> ModelRecords]
    /\ records \in [DOMAIN records -> ResidencyRecords]
    /\ allocations \in [DOMAIN allocations -> Sizes \ {0}]
    /\ DOMAIN models \cup DOMAIN records \cup DOMAIN allocations \subseteq ModelIds
    /\ stranded \subseteq ModelIds
    /\ loading \in Loads \cup {NoLoad}
    /\ model_reply \in ModelErrors \cup {"NoReply"}

\* The models that a load which has its memory is yet to evict, and the one
\* that it is yet to enter.
Evicting ==
    IF At("reserved") THEN {loading.evictions[i] : i \in DOMAIN loading.evictions} ELSE {}
Entering == IF At("reserved") THEN {loading.id} ELSE {}

\* The residency records, the resource manager and the registry never drift
\* apart: exactly the resident models hold reservations, of their registered
\* footprints, and no resident model is unregistered.  Only while a load
\* carries out its evictions do the records lag behind the reservations, by
\* the models it is yet to evict and the one it is yet to enter.
ResidencyAgrees ==
    /\ DOMAIN model_reservations = (Resident \ Evicting) \cup Entering
    /\ \A id \in DOMAIN model_reservations :
          id \in DOMAIN models /\ models[id].footprint = model_reservations[id]
    /\ \A id \in Resident :
          id \in DOMAIN models /\ models[id].footprint = records[id].footprint

\* The backend holds exactly the resident models, the one being loaded and
\* those that it failed to unload: the manager itself leaks nothing.
BackendAgrees ==
    /\ DOMAIN allocations =
          Resident \cup stranded \cup (IF loading = NoLoad THEN {} ELSE {loading.id})
    /\ stranded \cap Resident = {}

\* Whatever the backend fails to do, a resident model is in its memory.
ResidentIsAllocated ==
    \A id \in Resident :
        id \in DOMAIN allocations /\ allocations[id] = records[id].footprint

\* What the device may hold beyond what is accounted for: a model that has been
\* loaded and not reserved, and then models that are not reserved any more and
\* not evicted yet.
Overhang ==
    IF loading = NoLoad THEN 0
    ELSE IF loading.phase = "reserved" THEN Total([id \in Evicting |-> records[id].footprint])
    ELSE loading.footprint

\* A load fills the backend before it reserves, and its memory is reserved, and
\* what is left over granted to waiters, before it evicts.  So the device and
\* the clients together may exceed the capacity, apart from what the backend
\* failed to unload, but by no more than the Overhang; and since no model is
\* evicted needlessly, that is less than the model that is loaded and one of
\* those that are evicted for it.
OvercommitBounded ==
    /\ Total(Erase(allocations, stranded)) + Total(reservations) <= Capacity + Overhang
    /\ Evicting # {} =>
          \E id \in Evicting : Overhang < loading.footprint + records[id].footprint

\* The copy of the reference count that decides about evictions is the
\* registry's.
RefCountsAgree ==
    /\ DOMAIN records \subseteq DOMAIN models
    /\ \A id \in DOMAIN models :
          IF id \in DOMAIN records THEN records[id].refs = models[id].refs
          ELSE models[id].refs = 0

\* What a step leaves alone: a retained model stays registered, and if it is
\* resident it stays so, in the records and in the backend.
RetainedStep ==
    \A id \in DOMAIN models : models[id].refs > 0 =>
        /\ id \in DOMAIN models'
        /\ id \in Resident => id \in Resident' /\ id \in DOMAIN allocations'

\* A retained model is neither evicted, unloaded nor unregistered, also by a
\* load that planned its evictions before.
RetainedStays == [][RetainedStep]_residencyVars

\* A step with which a load is refused its memory, or gives up.
FailedLoadStep ==
    loading # NoLoad /\ (IF loading' = NoLoad THEN model_reply' # "None"
                         ELSE loading'.phase = "refused") =>
        /\ Resident' = Resident
        /\ model_reservations' = model_reservations
        /\ \A id \in Resident : id \in DOMAIN allocations'

\* A load that fails evicts nothing: from the refusal until it gives up every
\* model that was resident stays so, in the records, the reservations and the
\* backend.
FailedLoadEvictsNothing == [][FailedLoadStep]_residencyVars

=============================================================================
