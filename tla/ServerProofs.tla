---------------------------- MODULE ServerProofs ----------------------------
(***************************************************************************)
(* The safety of the daemon, for any number of sessions: what the managers *)
(* promise still holds when sessions use them through the server, run()    *)
(* leaves nothing behind when it returns and removes no file of another    *)
(* process, and the metrics add up.                                        *)
(***************************************************************************)
EXTENDS Server, ModelResidencyProofs

-----------------------------------------------------------------------------
(***************************************************************************)
(* The inductive invariant.                                                *)
(***************************************************************************)

\* The places where run() is while the socket file is its own.
Serving == {"listen", "polling", "accepting", "closing", "cancelling", "joining"}

\* The file at the path is the server's from bind to unlink, and only then.
PathOwned == path = "ours" <=> run \in Serving

\* There are sessions only while the accept loop or the join is under way.
SessionsServed ==
    run \notin Serving \ {"listen"} => \A s \in Threads : session[s] \in {"none", "done"}

\* The threads inside a waiting acquire are the sessions that wait for one.
WaitersAreSessions ==
    \A s \in Threads : session[s] = "waiting" <=> pc[s] # "idle"

\* A load that is half done belongs to a session.
LoadIsOfSession ==
    loading # NoLoad => \E s \in Threads : session[s] = "loading"

Operations == {"acquire", "release", "load", "unload"}

Dues(whats) == [what : whats, success : BOOLEAN, bytes : Nat]

\* What a session has to record is known until it is recorded.
DueKnown ==
    /\ due \in [Threads -> Dues(Operations \cup {"other"}) \cup {NothingDue}]
    /\ \A s \in Threads :
          /\ session[s] = "recording" => Recording /\ due[s] \in Dues(Operations)
          /\ session[s] = "counting" => Recording /\ due[s] \in Dues(Operations \cup {"other"})

\* The request of an acquire that waits is known until the acquire returns.
RequestsKnown == \A s \in Threads : result[s] # "Idle" => request[s] \in Requests

SessionsInv ==
    /\ ServerTypeOK
    /\ PathOwned
    /\ SessionsServed
    /\ WaitersAreSessions
    /\ LoadIsOfSession
    /\ DueKnown

\* The whole of it, but for the metrics.
SInv == RInv /\ RequestsKnown /\ SessionsInv

-----------------------------------------------------------------------------
(***************************************************************************)
(* The server uses the managers only through their operations.             *)
(***************************************************************************)

\* What a step of the server may do to the managers.
ManagersStep ==
    \/ ClientMove /\ UNCHANGED <<residency, model_reply>>
    \/ \E id \in ModelIds : ResidencyCall(id)
    \/ LoadStep
    \/ UNCHANGED residencyVars

\* Every step of the server is a call of the managers, a step inside one, or
\* none of their business.
LEMMA ServerCallsManagers ==
    ASSUME [ServerNext]_serverVars
    PROVE  ManagersStep
<1> USE DEF managers
<1>1. CASE Run
  BY <1>1 DEF Run, CheckPath, Bind, Listen, Poll, Accept, CloseListener, Cancel, Join,
              ManagersStep, ClientMove
<1>2. CASE PollFails
  BY <1>2 DEF PollFails, ManagersStep
<1>3. CASE Environment
  BY <1>3 DEF Environment, Start, RequestShutdown, Signal, OtherBinds, NodeReport, Connect,
              SendLine, HangUp, Event, ManagersStep, ClientMove
<1>4. ASSUME NEW s \in Threads, Dispatch(s) PROVE ManagersStep
  <2>1. CASE ClientOperation(s)
    BY <2>1 DEF ClientOperation, ManagersStep, ClientMove, ClientCall, AcquireCall
  <2>2. CASE ModelOperation(s)
    BY <2>2 DEF ModelOperation, ManagersStep, ResidencyCall
  <2>3. CASE NodeOperation(s)
    BY <2>3 DEF NodeOperation, ManagersStep
  <2>4. CASE Query(s)
    BY <2>4 DEF Query, ManagersStep
  <2> QED BY <1>4, <2>1, <2>2, <2>3, <2>4 DEF Dispatch
<1>5. ASSUME NEW s \in Threads, Session(s), ~ Dispatch(s) PROVE ManagersStep
  BY <1>5 DEF Session, CheckStop, Read, TooLarge, Processed, Answer, FinishLoad,
              RecordOperation, RecordRequest, ManagersStep
<1>6. ASSUME NEW s \in Threads, Wait(s) PROVE ManagersStep
  BY <1>6 DEF Wait, ManagersStep, ClientMove, Waiter
<1>7. CASE UNCHANGED serverVars
  BY <1>7 DEF serverVars, ManagersStep
<1> QED BY <1>1, <1>2, <1>3, <1>4, <1>5, <1>6, <1>7 DEF ServerNext

\* So it keeps their invariant.
LEMMA ServerKeepsRInv ==
    ASSUME RInv, [ServerNext]_serverVars
    PROVE  RInv'
<1>1. CASE ClientMove /\ UNCHANGED <<residency, model_reply>>
  <2>1. Next
    BY <1>1 DEF ClientMove, Next
  <2>2. IInv'
    BY <2>1, NextIInv DEF RInv
  <2>3. UNCHANGED <<model_reservations, residency>>
    BY <1>1, ClientsLeaveReservations
  <2>4. model_reply' \in ModelErrors \cup {"NoReply"}
    BY <1>1 DEF RInv, ModelsInv, LedgersOK
  <2> QED BY <2>2, <2>3, <2>4, QuietModels DEF RInv
<1>2. CASE [ResidencyNext]_residencyVars
  BY <1>2, NextRInv
<1> QED BY <1>1, <1>2, ServerCallsManagers DEF ManagersStep, ResidencyNext

-----------------------------------------------------------------------------
(***************************************************************************)
(* Who is inside a waiting acquire, and who loads.                         *)
(***************************************************************************)

\* The same threads are inside a waiting acquire before and after a step.
SameWaiters == \A u \in Threads : pc'[u] = "idle" <=> pc[u] = "idle"

\* The operations that do not wait leave the waiting threads where they are.
LEMMA CallsKeepWaiters ==
    ASSUME IInv
    PROVE  /\ UNCHANGED vars => SameWaiters
           /\ CancelWaiters => SameWaiters
           /\ \A error : Refuse(error) => SameWaiters
           /\ \A name, bytes : TryAcquire(name, bytes) => SameWaiters
           /\ \A name : Release(name) => SameWaiters
           /\ \A id : ReleaseModel(id) => SameWaiters
           /\ \A evictions, id, bytes :
                ReplaceModelReservations(evictions, id, bytes) => SameWaiters
<1>1. pc' = pc \/ pc' = NotifyAll => SameWaiters
  BY NotifyAllEffect DEF SameWaiters
<1> QED BY <1>1 DEF vars, queue, CancelWaiters, Refuse, TryAcquire, Reserve, Release,
                    ReleaseModel, ReplaceModelReservations, GrantAfter

\* An acquire either has its answer or waits, in a thread that did not.
LEMMA AcquireWaiters ==
    ASSUME IInv, NEW t \in Threads, NEW name, NEW bytes, NEW priority, NEW cost,
           NEW timeout, Acquire(t, name, bytes, priority, cost, timeout)
    PROVE  \/ reply' # "NoReply" /\ SameWaiters
           \/ /\ reply' = "NoReply" /\ pc[t] = "idle" /\ pc'[t] # "idle"
              /\ \A u \in Threads \ {t} : pc'[u] = "idle" <=> pc[u] = "idle"
<1>1. ASSUME NEW error \in ErrorCodes, Refuse(error)
      PROVE  reply' # "NoReply" /\ SameWaiters
  BY <1>1, CallsKeepWaiters DEF Refuse, ErrorCodes
<1>2. ASSUME Reserve(name, bytes)
      PROVE  reply' # "NoReply" /\ SameWaiters
  BY <1>2, NotifyAllEffect DEF Reserve, GrantAfter, SameWaiters
<1>3. ASSUME AcquireAtOnce(name, bytes)
      PROVE  reply' # "NoReply" /\ SameWaiters
  BY <1>3 DEF AcquireAtOnce, SameWaiters, queue
<1>4. ASSUME NEW req, Enqueue(t, req)
      PROVE  /\ reply' = "NoReply" /\ pc[t] = "idle" /\ pc'[t] # "idle"
             /\ \A u \in Threads \ {t} : pc'[u] = "idle" <=> pc[u] = "idle"
  BY <1>4, NotifyAllEffect DEF Enqueue
<1>5. AcquireError(name, bytes, timeout) \in ErrorCodes /\ "InvalidTimeout" \in ErrorCodes
  BY ErrorsType DEF ErrorCodes
<1> QED BY <1>1, <1>2, <1>3, <1>4, <1>5 DEF Acquire

\* A step inside a waiting acquire ends it or not, and concerns nobody else.
LEMMA WaiterWaiters ==
    ASSUME IInv, NEW t \in Threads
    PROVE  /\ TryAgain(t) \/ WaitTimeout(t) \/ WaiterEvent(t) => SameWaiters
           /\ Return(t) => /\ pc[t] # "idle" /\ pc'[t] = "idle"
                           /\ \A u \in Threads \ {t} : pc'[u] = pc[u]
<1>1. pc \in [Threads -> {"idle", "locked", "waiting", "notified"}]
  BY DEF IInv, TypeOK
<1>2. ASSUME TryAgain(t) PROVE SameWaiters
  BY <1>1, <1>2, NotifyAllEffect DEF TryAgain, Running, SameWaiters
<1>3. ASSUME WaitTimeout(t) \/ WaiterEvent(t) PROVE SameWaiters
  BY <1>1, <1>3 DEF WaitTimeout, WaiterEvent, SpuriousWakeup, DeadlinePasses, SameWaiters
<1>4. ASSUME Return(t)
      PROVE  /\ pc[t] # "idle" /\ pc'[t] = "idle"
             /\ \A u \in Threads \ {t} : pc'[u] = pc[u]
  BY <1>1, <1>4 DEF Return, Running
<1> QED BY <1>2, <1>3, <1>4

\* A model operation leaves the waiting threads where they are.
LEMMA ModelCallWaiters ==
    ASSUME IInv, NEW id, ResidencyCall(id)
    PROVE  SameWaiters
BY ModelCallUsesManager, CallsKeepWaiters

\* No model operation but a load has to do with the load that is under way.
LEMMA OthersKeepLoad ==
    ASSUME NEW id,
           \/ \E bytes \in Sizes, goodPath, goodMetadata \in BOOLEAN :
                 \/ RegisterFile(id, bytes, goodPath, goodMetadata)
                 \/ RegisterModel(id, bytes, goodMetadata)
           \/ Unload(id) \/ Share(id) \/ Retain(id) \/ ReleaseRef(id) \/ Unregister(id)
    PROVE  loading' = loading
<1> USE DEF residency, AnswerModel
<1>1. ASSUME NEW bytes, NEW good, RegisterModel(id, bytes, good) PROVE loading' = loading
  BY <1>1 DEF RegisterModel, AddModel
<1>2. ASSUME NEW bytes, NEW good, NEW goodPath, RegisterFile(id, bytes, goodPath, good)
      PROVE  loading' = loading
  BY <1>2 DEF RegisterFile, AddModel
<1>3. CASE Unload(id)
  BY <1>3 DEF Unload
<1>4. CASE Share(id)
  BY <1>4 DEF Share
<1>5. CASE Retain(id) \/ ReleaseRef(id)
  BY <1>5 DEF Retain, ReleaseRef, SetRefs
<1>6. CASE Unregister(id)
  BY <1>6 DEF Unregister
<1> QED BY <1>1, <1>2, <1>3, <1>4, <1>5, <1>6

-----------------------------------------------------------------------------
(***************************************************************************)
(* The requests of waiting acquires.                                       *)
(***************************************************************************)

\* A pass forgets no request.
LEMMA PassKeepsRequests ==
    ASSUME NEW held, NEW taken, NEW ws \in SUBSET Threads, NEW req, NEW ord,
           \A t \in ws : req[t] \in Requests,
           \A t \in Threads \ ws : result[t] # "Idle" => req[t] \in Requests,
           GrantWaiters(held, taken, ws, req, ord)
    PROVE  RequestsKnown'
<1>1. PICK granted \in GrantSets(req, ord, ws \ expired, Capacity - taken) :
        /\ result' = [t \in Threads |->
                        IF t \in granted THEN "None"
                        ELSE IF t \in ws \cap expired THEN "Timeout"
                        ELSE IF t \in ws THEN "Waiting"
                        ELSE result[t]]
        /\ request' = req
  BY DEF GrantWaiters
<1>2. granted \subseteq ws
  BY DEF GrantSets
<1> QED BY <1>1, <1>2 DEF RequestsKnown

\* Neither does the pass of an operation that does not wait.
LEMMA GrantAfterKeepsRequests ==
    ASSUME IInv, RequestsKnown, NEW held, NEW taken, GrantAfter(held, taken)
    PROVE  RequestsKnown'
<1>1. GrantWaiters(held, taken, pending, request, older)
  BY DEF GrantAfter
<1>2. /\ pending \in SUBSET Threads
      /\ \A t \in pending : request[t] \in Requests
      /\ \A t \in Threads \ pending : result[t] # "Idle" => request[t] \in Requests
  BY DEF IInv, TypeOK, NoOrphanWaiter, RequestsKnown
<1> QED BY <1>1, <1>2, PassKeepsRequests

\* An acquire that joins the queue brings its request.
LEMMA EnqueueKeepsRequests ==
    ASSUME IInv, RequestsKnown, NEW t \in Threads, NEW req \in Requests, Enqueue(t, req)
    PROVE  RequestsKnown'
<1> DEFINE r == [request EXCEPT ![t] = req]
           ws == pending \cup {t}
<1>1. GrantWaiters(reservations, used, ws, r, older \cup (pending \X {t}))
  BY DEF Enqueue
<1>2. request \in [Threads -> Requests \cup {NoRequest}] /\ pending \subseteq Threads
  BY DEF IInv, TypeOK
<1>3. r[t] = req /\ \A u \in Threads \ {t} : r[u] = request[u]
  BY <1>2
<1>4. \A u \in pending : request[u] \in Requests
  BY <1>2 DEF IInv, NoOrphanWaiter
<1>5. ws \in SUBSET Threads
  BY <1>2
<1> HIDE DEF r
<1>6. \A u \in ws : r[u] \in Requests
  BY <1>2, <1>3, <1>4
<1>7. \A u \in Threads \ ws : result[u] # "Idle" => r[u] \in Requests
  BY <1>3 DEF RequestsKnown
<1> HIDE DEF ws
<1> QED BY <1>1, <1>5, <1>6, <1>7, PassKeepsRequests

\* Every use of the managers keeps the requests known.
LEMMA ServerKeepsRequests ==
    ASSUME RInv, RequestsKnown, [ServerNext]_serverVars
    PROVE  RequestsKnown'
<1>1. IInv
  BY DEF RInv
<1>2. UNCHANGED <<request, result>> => RequestsKnown'
  BY DEF RequestsKnown
<1>3. UNCHANGED vars => RequestsKnown'
  BY <1>2 DEF vars, queue
<1>4. ASSUME NEW error, Refuse(error) PROVE RequestsKnown'
  BY <1>2, <1>4 DEF Refuse, queue
<1>5. CASE ClientMove
  <2>1. CASE ClientCall
    BY <1>1, <1>4, <2>1, GrantAfterKeepsRequests DEF ClientCall, TryAcquire, Reserve, Release
  <2>2. CASE CancelWaiters
    BY <1>1, <2>2 DEF CancelWaiters, RequestsKnown, IInv, NoOrphanWaiter
  <2>3. ASSUME NEW t \in Threads, AcquireCall(t) PROVE RequestsKnown'
    <3>1. PICK name \in Names, bytes \in Sizes, priority \in Priorities,
               cost \in Costs, timeout \in Timeouts :
                  Acquire(t, name, bytes, priority, cost, timeout)
      BY <2>3 DEF AcquireCall
    <3> DEFINE error == AcquireError(name, bytes, timeout)
               req == [name |-> name, bytes |-> bytes, priority |-> priority,
                       cost |-> cost, timed |-> timeout = "finite"]
    <3>2. CASE error = "None" /\ timeout # "zero" /\ cost >= 0 /\ Enqueue(t, req)
      <4>1. req \in Requests
        BY <3>2, CostsAssumption DEF AcquireError, Requests
      <4> HIDE DEF req
      <4> QED BY <1>1, <3>2, <4>1, EnqueueKeepsRequests
    <3>3. CASE Reserve(name, bytes)
      BY <1>1, <3>3, GrantAfterKeepsRequests DEF Reserve
    <3>4. CASE AcquireAtOnce(name, bytes)
      BY <1>2, <3>4 DEF AcquireAtOnce, queue
    <3> QED BY <1>4, <3>1, <3>2, <3>3, <3>4 DEF Acquire
  <2>4. ASSUME NEW t \in Threads, TryAgain(t) PROVE RequestsKnown'
    <3>1. GrantWaiters(reservations, used, pending, request, older)
      BY <2>4 DEF TryAgain
    <3>2. /\ pending \in SUBSET Threads
          /\ \A u \in pending : request[u] \in Requests
          /\ \A u \in Threads \ pending : result[u] # "Idle" => request[u] \in Requests
      BY <1>1 DEF IInv, TypeOK, NoOrphanWaiter, RequestsKnown
    <3> QED BY <3>1, <3>2, PassKeepsRequests
  <2>5. ASSUME NEW t \in Threads, WaitTimeout(t) \/ Return(t) PROVE RequestsKnown'
    BY <1>1, <2>5 DEF WaitTimeout, Return, RequestsKnown, IInv, TypeOK
  <2>6. ASSUME NEW t \in Threads, WaiterEvent(t) PROVE RequestsKnown'
    BY <1>2, <2>6 DEF WaiterEvent, SpuriousWakeup, DeadlinePasses
  <2> QED BY <1>5, <2>1, <2>2, <2>3, <2>4, <2>5, <2>6 DEF ClientMove, Waiter
<1>6. ASSUME NEW id \in ModelIds, ResidencyCall(id) PROVE RequestsKnown'
  BY <1>1, <1>3, <1>4, <1>6, ModelCallUsesManager, GrantAfterKeepsRequests DEF ReleaseModel
<1>7. CASE LoadStep
  BY <1>1, <1>3, <1>4, <1>7, LoadStepUsesManager, GrantAfterKeepsRequests
     DEF ReplaceModelReservations
<1>8. CASE UNCHANGED residencyVars
  BY <1>3, <1>8 DEF residencyVars
<1> QED BY <1>5, <1>6, <1>7, <1>8, ServerCallsManagers DEF ManagersStep

-----------------------------------------------------------------------------
(***************************************************************************)
(* What a session does to itself.                                          *)
(***************************************************************************)

\* The operation of s is over, and what there is to record is known.
Concluded(s) ==
    /\ due' \in [Threads -> Dues(Operations \cup {"other"}) \cup {NothingDue}]
    /\ \A u \in Threads \ {s} : due'[u] = due[u]
    /\ \E place \in {"recording", "counting", "answering"} :
          /\ session' = [session EXCEPT ![s] = place]
          /\ place = "recording" => Recording /\ due'[s] \in Dues(Operations)
          /\ place = "counting" => Recording /\ due'[s] \in Dues(Operations \cup {"other"})
          /\ place = "answering" => ~ Recording

\* An operation with a result is concluded.
LEMMA OweConcludes ==
    ASSUME DueKnown, NEW s \in Threads, NEW what \in Operations \cup {"other"},
           NEW success \in BOOLEAN, NEW bytes \in Nat, Owe(s, what, success, bytes)
    PROVE  Concluded(s)
<1> DEFINE d == [what |-> what, success |-> success, bytes |-> bytes]
<1>1. /\ d \in Dues(Operations \cup {"other"})
      /\ what # "other" => d \in Dues(Operations)
  BY DEF Dues
<1>2. CASE Recording
  <2>1. /\ due' = [due EXCEPT ![s] = d]
        /\ session' = [session EXCEPT ![s] = IF what = "other" THEN "counting" ELSE "recording"]
    BY <1>2 DEF Owe, Goto
  <2> HIDE DEF d
  <2>2. /\ due' \in [Threads -> Dues(Operations \cup {"other"}) \cup {NothingDue}]
        /\ due'[s] = d /\ \A u \in Threads \ {s} : due'[u] = due[u]
    BY <1>1, <2>1 DEF DueKnown
  <2>3. CASE what = "other"
    <3>1. session' = [session EXCEPT ![s] = "counting"]
      BY <2>1, <2>3
    <3> QED BY <1>1, <1>2, <2>2, <3>1 DEF Concluded
  <2>4. CASE what # "other"
    <3>1. session' = [session EXCEPT ![s] = "recording"] /\ due'[s] \in Dues(Operations)
      BY <1>1, <2>1, <2>2, <2>4
    <3> QED BY <1>2, <2>2, <3>1 DEF Concluded
  <2> QED BY <2>3, <2>4
<1>3. CASE ~ Recording
  <2>1. due' = due /\ session' = [session EXCEPT ![s] = "answering"]
    BY <1>3 DEF Owe, Goto
  <2> QED BY <1>3, <2>1 DEF Concluded, DueKnown
<1> QED BY <1>2, <1>3

\* How a line is dispatched: it is answered, or its acquire waits, or its load
\* is half done; the rest of what sessions share is as before.
LEMMA DispatchEffect ==
    ASSUME SInv, NEW s \in Threads, Dispatch(s)
    PROVE  \/ Concluded(s) /\ SameWaiters /\ loading' = loading
           \/ /\ session' = [session EXCEPT ![s] = "waiting"]
              /\ pc'[s] # "idle" /\ loading' = loading /\ due' = due
              /\ \A u \in Threads \ {s} : pc'[u] = "idle" <=> pc[u] = "idle"
           \/ /\ session' = [session EXCEPT ![s] = "loading"]
              /\ SameWaiters /\ due' = due
<1> USE DEF Operations
<1>1. IInv /\ DueKnown /\ SizesAssumption
  BY SizesAssumption DEF SInv, RInv, SessionsInv
<1>2. CASE ClientOperation(s)
  <2>1. loading' = loading
    BY <1>2 DEF ClientOperation, residency
  <2>2. ASSUME NEW name \in Names, NEW bytes \in Sizes,
               TryAcquire(name, bytes), Owe(s, "acquire", reply' = "None", bytes)
        PROVE  Concluded(s) /\ SameWaiters
    BY <1>1, <2>2, CallsKeepWaiters, OweConcludes, SizesAssumption
  <2>3. ASSUME NEW name \in Names, Release(name),
               Owe(s, "release", reply' = "None",
                   IF name \in DOMAIN reservations THEN reservations[name] ELSE 0)
        PROVE  Concluded(s) /\ SameWaiters
    <3>1. (IF name \in DOMAIN reservations THEN reservations[name] ELSE 0) \in Nat
      BY <1>1, Accounts DEF IsLedger
    <3> QED BY <1>1, <2>3, <3>1, CallsKeepWaiters, OweConcludes
  <2>4. ASSUME NEW name \in Names, NEW bytes \in Sizes, NEW priority \in Priorities,
               NEW cost \in Costs, NEW timeout \in Timeouts,
               Acquire(s, name, bytes, priority, cost, timeout),
               \/ reply' # "NoReply" /\ Owe(s, "acquire", reply' = "None", bytes)
               \/ reply' = "NoReply" /\ Goto(s, "waiting") /\ UNCHANGED due
        PROVE  \/ Concluded(s) /\ SameWaiters
               \/ /\ session' = [session EXCEPT ![s] = "waiting"]
                  /\ pc'[s] # "idle" /\ due' = due
                  /\ \A u \in Threads \ {s} : pc'[u] = "idle" <=> pc[u] = "idle"
    <3>1. CASE reply' # "NoReply" /\ Owe(s, "acquire", reply' = "None", bytes)
      BY <1>1, <2>4, <3>1, AcquireWaiters, OweConcludes, SizesAssumption
    <3>2. CASE reply' = "NoReply" /\ Goto(s, "waiting") /\ UNCHANGED due
      BY <1>1, <2>4, <3>2, AcquireWaiters DEF Goto
    <3> QED BY <2>4, <3>1, <3>2
  <2> QED BY <1>2, <2>1, <2>2, <2>3, <2>4 DEF ClientOperation
<1>3. CASE ModelOperation(s)
  <2>1. PICK id \in ModelIds :
          \/ /\ Load(id)
             /\ \/ loading' = NoLoad /\ Owe(s, "load", model_reply' = "None", 0)
                \/ loading' # NoLoad /\ Goto(s, "loading") /\ UNCHANGED due
          \/ Unload(id) /\ Owe(s, "unload", model_reply' = "None", 0)
          \/ /\ \/ \E bytes \in Sizes, goodPath, goodMetadata \in BOOLEAN :
                      IF id \in FileModels THEN RegisterFile(id, bytes, goodPath, goodMetadata)
                      ELSE RegisterModel(id, bytes, goodMetadata)
                \/ Share(id) \/ Retain(id) \/ ReleaseRef(id) \/ Unregister(id)
             /\ Owe(s, "other", model_reply' = "None", 0)
    BY <1>3 DEF ModelOperation
  <2>2. ResidencyCall(id)
    BY <2>1 DEF ResidencyCall
  <2>3. SameWaiters
    BY <1>1, <2>2, ModelCallWaiters
  <2>4. ASSUME NEW what \in {"load", "unload", "other"}, Owe(s, what, model_reply' = "None", 0)
        PROVE  Concluded(s)
    BY <1>1, <2>4, OweConcludes
  <2>5. CASE Load(id) /\ loading' # NoLoad /\ Goto(s, "loading") /\ UNCHANGED due
    BY <2>3, <2>5 DEF Goto
  <2>6. CASE Load(id) /\ loading' = NoLoad /\ Owe(s, "load", model_reply' = "None", 0)
    BY <2>3, <2>4, <2>6 DEF Load
  <2>7. CASE /\ \/ Unload(id)
                \/ \E bytes \in Sizes, goodPath, goodMetadata \in BOOLEAN :
                      \/ RegisterFile(id, bytes, goodPath, goodMetadata)
                      \/ RegisterModel(id, bytes, goodMetadata)
                \/ Share(id) \/ Retain(id) \/ ReleaseRef(id) \/ Unregister(id)
             /\ \E what \in {"unload", "other"} : Owe(s, what, model_reply' = "None", 0)
    BY <2>3, <2>4, <2>7, OthersKeepLoad
  <2> QED BY <2>1, <2>5, <2>6, <2>7
<1>4. CASE NodeOperation(s)
  <2>1. UNCHANGED residencyVars
    BY <1>4 DEF NodeOperation
  <2>2. ASSUME NEW success \in BOOLEAN, Owe(s, "other", success, 0)
        PROVE  Concluded(s)
    BY <1>1, <2>2, OweConcludes
  <2>3. Concluded(s)
    BY <1>4, <2>2 DEF NodeOperation
  <2> QED BY <1>1, <2>1, <2>3, CallsKeepWaiters DEF residencyVars, residency
<1>5. CASE Query(s)
  <2>1. UNCHANGED residencyVars
    BY <1>5 DEF Query, managers
  <2>2. Concluded(s)
    BY <1>1, <1>5, OweConcludes DEF Query
  <2> QED BY <1>1, <2>1, <2>2, CallsKeepWaiters DEF residencyVars, residency
<1> QED BY <1>2, <1>3, <1>4, <1>5 DEF Dispatch

\* The last step of a load and the return of an acquire conclude it.
LEMMA LateAnswers ==
    ASSUME SInv, NEW s \in Threads
    PROVE  /\ FinishLoad(s) =>
                /\ SameWaiters
                /\ \/ loading' = NoLoad /\ Concluded(s)
                   \/ loading' # NoLoad /\ UNCHANGED <<session, due>>
           /\ Wait(s) =>
                /\ loading' = loading
                /\ \/ SameWaiters /\ UNCHANGED <<session, due>>
                   \/ /\ Concluded(s) /\ pc'[s] = "idle"
                      /\ \A u \in Threads \ {s} : pc'[u] = pc[u]
<1>1. IInv /\ DueKnown /\ RequestsKnown
  BY DEF SInv, RInv, SessionsInv
<1>2. ASSUME FinishLoad(s)
      PROVE  /\ SameWaiters
             /\ \/ loading' = NoLoad /\ Concluded(s)
                \/ loading' # NoLoad /\ UNCHANGED <<session, due>>
  <2>1. /\ LoadStep
        /\ \/ loading' = NoLoad /\ Owe(s, "load", model_reply' = "None", 0)
           \/ loading' # NoLoad /\ UNCHANGED <<session, due>>
    BY <1>2 DEF FinishLoad
  <2>2. SameWaiters
    BY <1>1, <2>1, CallsKeepWaiters, LoadStepUsesManager
  <2> QED BY <1>1, <2>1, <2>2, OweConcludes DEF Operations
<1>3. ASSUME Wait(s) PROVE loading' = loading
  BY <1>3 DEF Wait, residency
<1>4. ASSUME TryAgain(s) \/ WaitTimeout(s) PROVE SameWaiters
  BY <1>1, <1>4, WaiterWaiters
<1>5. ASSUME Return(s), Owe(s, "acquire", reply' = "None", request[s].bytes)
      PROVE  /\ Concluded(s) /\ pc'[s] = "idle"
             /\ \A u \in Threads \ {s} : pc'[u] = pc[u]
  <2>1. request[s] \in Requests
    BY <1>1, <1>5 DEF Return, RequestsKnown
  <2>2. request[s].bytes \in Nat
    BY <2>1, SizesAssumption DEF Requests
  <2> QED BY <1>1, <1>5, <2>2, WaiterWaiters, OweConcludes DEF Operations
<1> QED BY <1>2, <1>3, <1>4, <1>5 DEF Wait

\* Where a session thread can be.
Places == {"checking", "reading", "processing", "waiting", "loading", "recording",
           "counting", "answering", "done"}

\* A step of a session thread moves that session alone, and touches neither
\* run() nor what clients do.
LEMMA SessionMovesItself ==
    ASSUME SInv, NEW s \in Threads, Session(s) \/ Wait(s)
    PROVE  /\ session[s] \in Places \ {"done"}
           /\ \E place \in Places : session' = [session EXCEPT ![s] = place]
           /\ UNCHANGED <<run, stop, signalled, path, peer, sent>>
<1> USE DEF flags, connection, Goto
<1>1. session = [u \in Threads |-> session[u]]
  BY DEF SInv, SessionsInv, ServerTypeOK
<1>2. Concluded(s) => \E place \in Places : session' = [session EXCEPT ![s] = place]
  BY DEF Concluded, Places
<1>3. CASE Dispatch(s)
  <2>1. \E place \in Places : session' = [session EXCEPT ![s] = place]
    BY <1>2, <1>3, DispatchEffect DEF Places
  <2> QED BY <1>3, <2>1 DEF Dispatch, Places
<1>4. CASE FinishLoad(s)
  <2>1. session[s] = "loading" /\ UNCHANGED <<run, stop, signalled, path, peer, sent>>
    BY <1>4 DEF FinishLoad
  <2>2. CASE Concluded(s)
    BY <1>2, <2>1, <2>2 DEF Places
  <2>3. CASE UNCHANGED session
    <3>1. session' = [session EXCEPT ![s] = "loading"]
      BY <1>1, <2>1, <2>3
    <3> QED BY <2>1, <3>1 DEF Places
  <2> QED BY <1>4, <2>2, <2>3, LateAnswers
<1>5. CASE Wait(s)
  <2>1. session[s] = "waiting" /\ UNCHANGED <<run, stop, signalled, path, peer, sent>>
    BY <1>5 DEF Wait
  <2>2. CASE Concluded(s)
    BY <1>2, <2>1, <2>2 DEF Places
  <2>3. CASE UNCHANGED session
    <3>1. session' = [session EXCEPT ![s] = "waiting"]
      BY <1>1, <2>1, <2>3
    <3> QED BY <2>1, <3>1 DEF Places
  <2> QED BY <1>5, <2>2, <2>3, LateAnswers
<1>6. CASE CheckStop(s) \/ Answer(s)
  BY <1>6 DEF CheckStop, Answer, Places
<1>7. CASE Read(s)
  BY <1>7 DEF Read, Places
<1>8. CASE RecordOperation(s) \/ RecordRequest(s) \/ TooLarge(s) \/ Processed(s)
  BY <1>8 DEF RecordOperation, RecordRequest, TooLarge, Processed, Places
<1> QED BY <1>3, <1>4, <1>5, <1>6, <1>7, <1>8 DEF Session

\* What run() and the world around the server do leaves every session where it
\* is, except that connections come, are accepted and are dropped.
LEMMA OutsideSessions ==
    ASSUME SInv, Run \/ PollFails \/ Environment \/ UNCHANGED serverVars
    PROVE  /\ SameWaiters /\ UNCHANGED <<loading, due, metrics, input>>
           /\ session' \in [Threads -> {"none", "backlog"} \cup Places]
           /\ \A s \in Threads :
                 \/ session'[s] = session[s]
                 \/ /\ session[s] \in {"none", "backlog"}
                    /\ session'[s] \in {"backlog", "checking", "done"}
<1> DEFINE Conclusion ==
              /\ session' \in [Threads -> {"none", "backlog"} \cup Places]
              /\ \A s \in Threads :
                    \/ session'[s] = session[s]
                    \/ /\ session[s] \in {"none", "backlog"}
                       /\ session'[s] \in {"backlog", "checking", "done"}
<1> USE DEF managers, records_due
<1>1. IInv /\ session \in [Threads -> {"none", "backlog"} \cup Places]
  BY DEF SInv, RInv, SessionsInv, ServerTypeOK, Places
<1>2. UNCHANGED residencyVars => SameWaiters /\ loading' = loading
  BY <1>1, CallsKeepWaiters DEF residencyVars, residency
<1>3. UNCHANGED session => Conclusion
  BY <1>1
<1>4. CASE Run \/ PollFails
  <2>1. CASE CheckPath \/ Bind \/ Listen \/ Poll \/ PollFails \/ Join
    BY <1>2, <1>3, <2>1 DEF CheckPath, Bind, Listen, Poll, PollFails, Join
  <2>2. CASE Cancel
    BY <1>1, <1>3, <2>2, CallsKeepWaiters DEF Cancel, residency
  <2>3. CASE Accept
    <3>1. UNCHANGED <<residencyVars, due, metrics, input>>
      BY <2>3 DEF Accept
    <3>2. CASE UNCHANGED session
      BY <1>2, <1>3, <3>1, <3>2
    <3>3. CASE \E s \in Threads :
                  session[s] = "backlog" /\ session' = [session EXCEPT ![s] = "checking"]
      <4>1. Conclusion
        BY <1>1, <3>3 DEF Places
      <4> QED BY <1>2, <3>1, <4>1
    <3> QED BY <2>3, <3>2, <3>3 DEF Accept
  <2>4. CASE CloseListener
    <3>1. Conclusion
      BY <1>1, <2>4 DEF CloseListener, Places
    <3> QED BY <1>2, <2>4, <3>1 DEF CloseListener
  <2> QED BY <1>4, <2>1, <2>2, <2>3, <2>4 DEF Run
<1>5. CASE Environment
  <2>1. CASE Start \/ RequestShutdown \/ Signal \/ OtherBinds
    BY <1>2, <1>3, <2>1 DEF Start, RequestShutdown, Signal, OtherBinds
  <2>2. ASSUME NEW id \in NodeIds, NodeReport(id)
        PROVE  SameWaiters /\ UNCHANGED <<loading, due, metrics, input>> /\ Conclusion
    BY <1>2, <1>3, <2>2 DEF NodeReport
  <2>3. ASSUME NEW s \in Threads, Connect(s)
        PROVE  SameWaiters /\ UNCHANGED <<loading, due, metrics, input>> /\ Conclusion
    <3>1. Conclusion
      BY <1>1, <2>3 DEF Connect, Goto, Places
    <3> QED BY <1>2, <2>3, <3>1 DEF Connect
  <2>4. ASSUME NEW s \in Threads, SendLine(s) \/ HangUp(s)
        PROVE  SameWaiters /\ UNCHANGED <<loading, due, metrics, input>> /\ Conclusion
    BY <1>2, <1>3, <2>4 DEF SendLine, HangUp
  <2>5. ASSUME NEW s \in Threads, Event(s)
        PROVE  SameWaiters /\ UNCHANGED <<loading, due, metrics, input>> /\ Conclusion
    BY <1>1, <1>3, <2>5, WaiterWaiters DEF Event, residency
  <2> HIDE DEF Conclusion
  <2>6. SameWaiters /\ UNCHANGED <<loading, due, metrics, input>> /\ Conclusion
    BY <1>5, <2>1, <2>2, <2>3, <2>4, <2>5 DEF Environment, Conclusion
  <2> QED BY <2>6 DEF Conclusion
<1>6. CASE UNCHANGED serverVars
  BY <1>2, <1>3, <1>6 DEF serverVars
<1> QED BY <1>4, <1>5, <1>6

-----------------------------------------------------------------------------
(***************************************************************************)
(* One lemma per part of the invariant.                                    *)
(***************************************************************************)

\* The path is the server's exactly while it serves, and no step takes away
\* the file of another process.
LEMMA NextPath ==
    ASSUME SInv, [ServerNext]_serverVars
    PROVE  PathOwned' /\ OtherPathStep
<1> USE DEF PathOwned, OtherPathStep, Serving
<1>1. PathOwned
  BY DEF SInv, SessionsInv
<1>2. ASSUME UNCHANGED <<run, path>> PROVE PathOwned' /\ OtherPathStep
  BY <1>1, <1>2
<1>3. CASE Run \/ PollFails
  BY <1>1, <1>3 DEF Run, PollFails, CheckPath, Bind, Listen, Poll, Accept, CloseListener,
                    Cancel, Join
<1>4. CASE Environment
  BY <1>1, <1>4 DEF Environment, Start, RequestShutdown, Signal, OtherBinds, NodeReport,
                    Connect, SendLine, HangUp, Event
<1>5. ASSUME NEW s \in Threads, Session(s) \/ Wait(s) PROVE PathOwned' /\ OtherPathStep
  BY <1>2, <1>5, SessionMovesItself
<1>6. CASE UNCHANGED serverVars
  BY <1>2, <1>6 DEF serverVars
<1> QED BY <1>3, <1>4, <1>5, <1>6 DEF ServerNext

\* There are sessions only while run() is in its loop or joins them.
LEMMA NextServed ==
    ASSUME SInv, [ServerNext]_serverVars
    PROVE  SessionsServed'
<1> USE DEF SessionsServed, Serving
<1>1. SessionsServed /\ DOMAIN session = Threads
  BY DEF SInv, SessionsInv, ServerTypeOK
<1>2. ASSUME UNCHANGED <<run, session>> PROVE SessionsServed'
  BY <1>1, <1>2
<1>3. CASE Run \/ PollFails
  <2>1. CASE CheckPath \/ Bind \/ Listen \/ Poll \/ PollFails \/ Cancel \/ Join
    BY <1>1, <2>1 DEF CheckPath, Bind, Listen, Poll, PollFails, Cancel, Join
  <2>2. CASE Accept \/ CloseListener
    BY <1>1, <2>2 DEF Accept, CloseListener
  <2> QED BY <1>3, <2>1, <2>2 DEF Run
<1>4. CASE Environment
  BY <1>1, <1>4 DEF Environment, Start, RequestShutdown, Signal, OtherBinds, NodeReport,
                    Connect, SendLine, HangUp, Event, Goto
<1>5. ASSUME NEW s \in Threads, Session(s) \/ Wait(s) PROVE SessionsServed'
  <2>1. session[s] \notin {"none", "done"} /\ run' = run
    BY <1>5, SessionMovesItself DEF Places
  <2> QED BY <1>1, <2>1
<1>6. CASE UNCHANGED serverVars
  BY <1>2, <1>6 DEF serverVars
<1> QED BY <1>3, <1>4, <1>5, <1>6 DEF ServerNext

\* The sessions that wait, load or record agree with the managers.
LEMMA NextInProgress ==
    ASSUME SInv, [ServerNext]_serverVars
    PROVE  WaitersAreSessions' /\ LoadIsOfSession' /\ DueKnown'
<1> USE DEF WaitersAreSessions, LoadIsOfSession, DueKnown
<1>1. /\ WaitersAreSessions /\ LoadIsOfSession /\ DueKnown /\ DOMAIN session = Threads
      /\ IInv /\ session = [s \in Threads |-> session[s]]
  BY DEF SInv, RInv, SessionsInv, ServerTypeOK
<1>2. CASE Run \/ PollFails \/ Environment \/ UNCHANGED serverVars
  <2>1. /\ SameWaiters /\ UNCHANGED <<loading, due>>
        /\ \A s \in Threads :
              \/ session'[s] = session[s]
              \/ /\ session[s] \in {"none", "backlog"}
                 /\ session'[s] \in {"backlog", "checking", "done"}
    BY <1>2, OutsideSessions
  <2> QED BY <1>1, <2>1 DEF SameWaiters
<1>3. ASSUME NEW s \in Threads, Concluded(s),
             \/ SameWaiters /\ session[s] # "waiting"
             \/ /\ pc'[s] = "idle"
                /\ \A u \in Threads \ {s} : pc'[u] = pc[u],
             \/ loading' = NoLoad
             \/ loading' = loading /\ session[s] # "loading"
      PROVE  WaitersAreSessions' /\ LoadIsOfSession' /\ DueKnown'
  <2>1. PICK place \in {"recording", "counting", "answering"} :
          /\ session' = [session EXCEPT ![s] = place]
          /\ place = "recording" => Recording /\ due'[s] \in Dues(Operations)
          /\ place = "counting" => Recording /\ due'[s] \in Dues(Operations \cup {"other"})
    BY <1>3 DEF Concluded
  <2>2. session'[s] = place /\ \A u \in Threads \ {s} : session'[u] = session[u]
    BY <1>1, <2>1
  <2>3. WaitersAreSessions'
    BY <1>1, <1>3, <2>2 DEF SameWaiters
  <2>4. LoadIsOfSession'
    BY <1>1, <1>3, <2>2
  <2>5. DueKnown'
    BY <1>1, <1>3, <2>1, <2>2 DEF Concluded
  <2> QED BY <2>3, <2>4, <2>5
<1>4. ASSUME NEW s \in Threads, Dispatch(s)
      PROVE  WaitersAreSessions' /\ LoadIsOfSession' /\ DueKnown'
  <2>1. session[s] = "processing"
    BY <1>4 DEF Dispatch
  <2>2. CASE Concluded(s) /\ SameWaiters /\ loading' = loading
    BY <1>3, <2>1, <2>2
  <2>3. CASE /\ session' = [session EXCEPT ![s] = "waiting"]
             /\ pc'[s] # "idle" /\ loading' = loading /\ due' = due
             /\ \A u \in Threads \ {s} : pc'[u] = "idle" <=> pc[u] = "idle"
    BY <1>1, <2>1, <2>3
  <2>4. CASE /\ session' = [session EXCEPT ![s] = "loading"]
             /\ SameWaiters /\ due' = due
    BY <1>1, <2>1, <2>4 DEF SameWaiters
  <2> QED BY <1>4, <2>2, <2>3, <2>4, DispatchEffect
<1>5. ASSUME NEW s \in Threads, FinishLoad(s)
      PROVE  WaitersAreSessions' /\ LoadIsOfSession' /\ DueKnown'
  <2>1. session[s] = "loading"
    BY <1>5 DEF FinishLoad
  <2>2. CASE SameWaiters /\ UNCHANGED <<session, due>>
    BY <1>1, <2>1, <2>2 DEF SameWaiters
  <2> QED BY <1>3, <1>5, <2>1, <2>2, LateAnswers
<1>6. ASSUME NEW s \in Threads, Wait(s)
      PROVE  WaitersAreSessions' /\ LoadIsOfSession' /\ DueKnown'
  <2>1. session[s] = "waiting"
    BY <1>6 DEF Wait
  <2>2. CASE loading' = loading /\ SameWaiters /\ UNCHANGED <<session, due>>
    BY <1>1, <2>2 DEF SameWaiters
  <2> QED BY <1>3, <1>6, <2>1, <2>2, LateAnswers
<1>7. ASSUME NEW s \in Threads, NEW place \in Places \ {"waiting", "loading"},
             session[s] \notin {"waiting", "loading"},
             UNCHANGED residencyVars, session' = [session EXCEPT ![s] = place],
             due' \in [Threads -> Dues(Operations \cup {"other"}) \cup {NothingDue}],
             \A u \in Threads \ {s} : due'[u] = due[u],
             place # "recording",
             place = "counting" => session[s] = "recording" /\ due' = due
      PROVE  WaitersAreSessions' /\ LoadIsOfSession' /\ DueKnown'
  <2>1. SameWaiters /\ loading' = loading
    BY <1>1, <1>7, CallsKeepWaiters DEF residencyVars, residency
  <2>2. session'[s] = place /\ \A u \in Threads \ {s} : session'[u] = session[u]
    BY <1>1, <1>7
  <2>3. WaitersAreSessions' /\ LoadIsOfSession'
    BY <1>1, <1>7, <2>1, <2>2 DEF SameWaiters
  <2>4. DueKnown'
    BY <1>1, <1>7, <2>2 DEF Dues
  <2> QED BY <2>3, <2>4
<1>8. ASSUME NEW s \in Threads,
             \/ CheckStop(s) \/ Read(s) \/ TooLarge(s) \/ Processed(s) \/ Answer(s)
             \/ RecordOperation(s) \/ RecordRequest(s)
      PROVE  WaitersAreSessions' /\ LoadIsOfSession' /\ DueKnown'
  <2> USE DEF managers, records_due, Goto, Places
  <2>1. CASE CheckStop(s) \/ Read(s) \/ TooLarge(s) \/ Processed(s) \/ Answer(s)
    <3>1. /\ session[s] \in {"checking", "reading", "processing", "answering"}
          /\ UNCHANGED <<residencyVars, due>>
      BY <2>1 DEF CheckStop, Read, TooLarge, Processed, Answer
    <3>2. PICK place \in {"reading", "processing", "checking", "done"} :
             session' = [session EXCEPT ![s] = place]
      BY <2>1 DEF CheckStop, Read, TooLarge, Processed, Answer
    <3>3. due' \in [Threads -> Dues(Operations \cup {"other"}) \cup {NothingDue}]
      BY <1>1, <3>1
    <3> QED BY <1>7, <3>1, <3>2, <3>3
  <2>2. CASE RecordOperation(s)
    BY <1>1, <1>7, <2>2 DEF RecordOperation
  <2>3. CASE RecordRequest(s)
    <3>1. /\ session[s] = "counting" /\ session' = [session EXCEPT ![s] = "answering"]
          /\ due' = [due EXCEPT ![s] = NothingDue] /\ UNCHANGED residencyVars
      BY <2>3 DEF RecordRequest
    <3>2. /\ due' \in [Threads -> Dues(Operations \cup {"other"}) \cup {NothingDue}]
          /\ \A u \in Threads \ {s} : due'[u] = due[u]
      BY <1>1, <3>1
    <3> QED BY <1>7, <3>1, <3>2
  <2> QED BY <1>8, <2>1, <2>2, <2>3
<1> QED BY <1>2, <1>4, <1>5, <1>6, <1>8 DEF ServerNext, Session

\* The state of the server stays well formed: no line is lost or read twice.
LEMMA NextServerType ==
    ASSUME SInv, [ServerNext]_serverVars
    PROVE  ServerTypeOK'
<1> DEFINE Lines ==
              /\ unread \in [Threads -> 0 .. MaxLines] /\ input \in [Threads -> 0 .. MaxLines]
              /\ \A s \in Threads : unread[s] + input[s] <= sent
              /\ sent \in 0 .. MaxLines
           RunOK ==
              /\ run \in {"idle", "checkPath", "bind", "listen", "polling", "accepting",
                          "closing", "cancelling", "joining", "stopped", "failed"}
              /\ stop \in BOOLEAN /\ signalled \in BOOLEAN
              /\ path \in {"absent", "ours", "other"}
              /\ peer \in [Threads -> {"open", "closed"}]
<1> USE ServerAssumption DEF flags, connection
<1>1. Lines /\ RunOK /\ session \in [Threads -> {"none", "backlog"} \cup Places]
  BY DEF SInv, SessionsInv, ServerTypeOK, Places
<1>2. RunOK'
  <2>1. CASE Run \/ PollFails
    BY <1>1, <2>1 DEF Run, PollFails, CheckPath, Bind, Listen, Poll, Accept, CloseListener,
                      Cancel, Join
  <2>2. CASE Environment
    <3>1. CASE Start \/ RequestShutdown \/ Signal \/ OtherBinds
      BY <1>1, <3>1 DEF Start, RequestShutdown, Signal, OtherBinds
    <3>2. ASSUME NEW id \in NodeIds, NodeReport(id) PROVE RunOK'
      BY <1>1, <3>2 DEF NodeReport
    <3>3. ASSUME NEW s \in Threads, Connect(s) \/ HangUp(s) PROVE RunOK'
      BY <1>1, <3>3 DEF Connect, HangUp
    <3>4. ASSUME NEW s \in Threads, SendLine(s) \/ Event(s) PROVE RunOK'
      BY <1>1, <3>4 DEF SendLine, Event
    <3> QED BY <2>2, <3>1, <3>2, <3>3, <3>4 DEF Environment
  <2>3. ASSUME NEW s \in Threads, Session(s) \/ Wait(s) PROVE RunOK'
    BY <1>1, <2>3, SessionMovesItself
  <2>4. CASE UNCHANGED serverVars
    BY <1>1, <2>4 DEF serverVars
  <2> QED BY <2>1, <2>2, <2>3, <2>4 DEF ServerNext
<1>3. session' \in [Threads -> {"none", "backlog"} \cup Places]
  <2>1. ASSUME NEW s \in Threads, Session(s) \/ Wait(s)
        PROVE  session' \in [Threads -> {"none", "backlog"} \cup Places]
    BY <1>1, <2>1, SessionMovesItself
  <2> QED BY <2>1, OutsideSessions DEF ServerNext
<1>4. ASSUME UNCHANGED <<unread, input, sent>> PROVE Lines'
  BY <1>1, <1>4
<1>5. Lines'
  <2>1. CASE Run \/ PollFails
    BY <1>4, <2>1 DEF Run, PollFails, CheckPath, Bind, Listen, Poll, Accept, CloseListener,
                      Cancel, Join
  <2>2. ASSUME NEW s \in Threads, SendLine(s) PROVE Lines'
    BY <1>1, <2>2 DEF SendLine
  <2>3. CASE Environment /\ ~ \E s \in Threads : SendLine(s)
    BY <1>4, <2>3 DEF Environment, Start, RequestShutdown, Signal, OtherBinds, NodeReport,
                      Connect, HangUp, Event
  <2>4. ASSUME NEW s \in Threads, Read(s) PROVE Lines'
    <3>1. sent' = sent
      BY <2>4 DEF Read
    <3>2. CASE UNCHANGED <<unread, input>>
      BY <1>4, <3>1, <3>2
    <3>3. ASSUME NEW n \in 1 .. unread[s],
                 unread' = [unread EXCEPT ![s] = @ - n],
                 input' = [input EXCEPT ![s] = @ + n]
          PROVE  Lines'
      <4>1. /\ unread[s] - n \in 0 .. MaxLines /\ input[s] + n \in 0 .. MaxLines
            /\ (unread[s] - n) + (input[s] + n) <= sent
        BY <1>1
      <4> QED BY <1>1, <3>1, <3>3, <4>1
    <3> QED BY <2>4, <3>2, <3>3 DEF Read
  <2>5. ASSUME NEW s \in Threads, Dispatch(s) PROVE Lines'
    <3>1. input[s] > 0 /\ input' = [input EXCEPT ![s] = @ - 1] /\ UNCHANGED <<unread, sent>>
      BY <2>5 DEF Dispatch
    <3> QED BY <1>1, <3>1
  <2>6. ASSUME NEW s \in Threads, Session(s) \/ Wait(s), ~ Read(s), ~ Dispatch(s)
        PROVE  Lines'
    BY <1>4, <2>6 DEF Session, CheckStop, TooLarge, Processed, Answer, FinishLoad,
                      RecordOperation, RecordRequest, Wait
  <2>7. CASE UNCHANGED serverVars
    BY <1>4, <2>7 DEF serverVars
  <2> QED BY <2>1, <2>2, <2>3, <2>4, <2>5, <2>6, <2>7 DEF ServerNext
<1> QED BY <1>2, <1>3, <1>5 DEF ServerTypeOK, Places

-----------------------------------------------------------------------------

\* The server starts in the invariant.
LEMMA InitSInv == ServerInit => SInv
<1> SUFFICES ASSUME ServerInit PROVE SInv
  OBVIOUS
<1>1. RInv
  BY InitRInv DEF ServerInit
<1>2. RequestsKnown
  BY DEF ServerInit, ResidencyInit, Init, RequestsKnown
<1>3. ServerTypeOK
  <2>1. /\ run = "idle" /\ stop = FALSE /\ signalled = FALSE /\ path \in {"absent", "other"}
        /\ session = [s \in Threads |-> "none"] /\ peer = [s \in Threads |-> "open"]
        /\ sent = 0 /\ unread = [s \in Threads |-> 0] /\ input = [s \in Threads |-> 0]
    BY DEF ServerInit
  <2>2. unread \in [Threads -> 0 .. MaxLines] /\ input \in [Threads -> 0 .. MaxLines]
    BY <2>1, ServerAssumption
  <2>3. sent \in 0 .. MaxLines /\ \A s \in Threads : unread[s] + input[s] <= sent
    BY <2>1, ServerAssumption
  <2> QED BY <2>1, <2>2, <2>3 DEF ServerTypeOK, flags
<1>4. PathOwned /\ SessionsServed /\ WaitersAreSessions /\ LoadIsOfSession /\ DueKnown
  BY DEF ServerInit, ResidencyInit, Init, PathOwned, SessionsServed, WaitersAreSessions,
         LoadIsOfSession, DueKnown, Serving
<1> QED BY <1>1, <1>2, <1>3, <1>4 DEF SInv, SessionsInv

\* Every step of the server keeps the invariant.
LEMMA NextSInv == SInv /\ [ServerNext]_serverVars => SInv'
<1> SUFFICES ASSUME SInv, [ServerNext]_serverVars PROVE SInv'
  OBVIOUS
<1>1. RInv' /\ RequestsKnown'
  BY ServerKeepsRInv, ServerKeepsRequests DEF SInv
<1>2. SessionsInv'
  BY NextServerType, NextPath, NextServed, NextInProgress DEF SessionsInv
<1> QED BY <1>1, <1>2 DEF SInv

\* The invariants of the managers and of the sessions are invariants of the
\* daemon.
THEOREM ServerInvariance == ServerSpec => []SInv
BY InitSInv, NextSInv, PTL DEF ServerSpec

\* The state of the daemon is always well formed; in particular the lines on
\* the sockets and in client.input are never more than were sent.
THEOREM ServerTypeCorrect == ServerSpec => []ServerTypeOK
<1>1. SInv => ServerTypeOK
  BY DEF SInv, SessionsInv
<1> QED BY <1>1, ServerInvariance, PTL

\* When run() has returned, with or without success, no session is left, nobody
\* is queued, no load is half done and the socket file is gone.
THEOREM StoppedCorrect == ServerSpec => []StoppedIsQuiet
<1>1. SInv => StoppedIsQuiet
  <2> SUFFICES ASSUME SInv, run \in {"stopped", "failed"}
               PROVE  /\ \A s \in Threads : session[s] \in {"none", "done"}
                      /\ pending = {} /\ loading = NoLoad /\ path # "ours"
    BY DEF StoppedIsQuiet
  <2>1. \A s \in Threads : session[s] \in {"none", "done"}
    BY DEF SInv, SessionsInv, SessionsServed, Serving
  <2>2. \A s \in Threads : pc[s] = "idle"
    BY <2>1 DEF SInv, SessionsInv, WaitersAreSessions
  <2>3. pending = {}
    BY <2>2 DEF SInv, RInv, IInv, TypeOK, NoOrphanWaiter
  <2>4. loading = NoLoad
    BY <2>1 DEF SInv, SessionsInv, LoadIsOfSession
  <2>5. path # "ours"
    BY DEF SInv, SessionsInv, PathOwned, Serving
  <2> QED BY <2>1, <2>3, <2>4, <2>5
<1> QED BY <1>1, ServerInvariance, PTL

\* The server never removes the socket file of another process.
THEOREM OtherPathCorrect == ServerSpec => OtherPathKept
<1>1. SInv /\ [ServerNext]_serverVars => [OtherPathStep]_serverVars
  BY NextPath
<1> QED BY <1>1, ServerInvariance, PTL DEF ServerSpec, OtherPathKept

-----------------------------------------------------------------------------
(***************************************************************************)
(* The metrics.  First, what the operations of the resource manager do to  *)
(* the reservations that are not grants somebody has still to return with. *)
(***************************************************************************)

\* The waiters that have been granted and have not returned.
Winners == {s \in Threads : result[s] = "None"}

\* The step adds d bytes to the reservations, grants not yet returned apart.
Shift(d) == Total(reservations') - Granted' = Total(reservations) - Granted + d

\* Threads with requests have a demand.
LEMMA RequestsWellFormed ==
    ASSUME NEW req, NEW ws \in SUBSET Threads, \A s \in ws : req[s] \in Requests
    PROVE  WellFormed(req, ws) /\ Demand(req, ws) \in Nat
<1>1. IsFiniteSet(ws)
  BY ThreadsAssumption, FS_Subset
<1>2. \A s \in ws : req[s].bytes \in Nat
  BY SizesAssumption DEF Requests
<1> QED BY <1>1, <1>2, DemandIsLedger DEF WellFormed

\* What was granted and not returned is the demand of the winners.
LEMMA GrantedIsDemand ==
    ASSUME RequestsKnown
    PROVE  /\ WellFormed(request, Winners)
           /\ Granted = Demand(request, Winners)
           /\ Granted \in Nat
<1>1. Granted = Demand(request, Winners)
  BY DEF Granted, Demand, Winners
<1>2. Winners \in SUBSET Threads /\ \A s \in Winners : request[s] \in Requests
  BY DEF Winners, RequestsKnown
<1> QED BY <1>1, <1>2, RequestsWellFormed

\* A pass enters in the reservations what it grants, and nothing else.
LEMMA PassBalances ==
    ASSUME RequestsKnown, RequestsKnown', NEW held \in Ledgers(ValidNames, Amounts), NEW taken,
           NEW ws \in SUBSET Threads, NEW req, NEW ord, SoundQueue(held, ws, req),
           \A t \in ws : result[t] # "None",
           \A t \in Winners : req[t] = request[t],
           GrantWaiters(held, taken, ws, req, ord)
    PROVE  Total(reservations') - Granted' = Total(held) - Granted
<1>1. PICK granted \in GrantSets(req, ord, ws \ expired, Capacity - taken) :
        /\ reservations' = EmplaceGranted(held, req, granted)
        /\ result' = [t \in Threads |->
                        IF t \in granted THEN "None"
                        ELSE IF t \in ws \cap expired THEN "Timeout"
                        ELSE IF t \in ws THEN "Waiting"
                        ELSE result[t]]
        /\ request' = req
  BY DEF GrantWaiters
<1>2. granted \subseteq ws
  BY DEF GrantSets
<1>3. SoundQueue(held, granted, req)
  BY <1>2 DEF SoundQueue
<1>4. Total(reservations') = Total(held) + Demand(req, granted)
  BY <1>1, <1>3, TotalEmplaceGranted
<1>5. Winners' = Winners \cup granted /\ Winners \cap granted = {}
  BY <1>1, <1>2 DEF Winners
<1>6. WellFormed(req, Winners') /\ Granted' = Demand(req, Winners')
  <2>1. Granted' = Demand(req, Winners')
    BY <1>1 DEF Granted, Demand, Winners
  <2>2. Winners' \in SUBSET Threads /\ \A s \in Winners' : req[s] \in Requests
    BY <1>1 DEF Winners, RequestsKnown
  <2> QED BY <2>1, <2>2, RequestsWellFormed
<1>7. /\ WellFormed(req, granted) /\ WellFormed(req, Winners)
      /\ Demand(req, Winners') = Demand(req, granted) + Demand(req, Winners)
  <2>1. Winners' \ granted = Winners /\ granted \in SUBSET Winners'
    BY <1>5
  <2> QED BY <1>6, <2>1, DemandSplit
<1>8. Demand(req, Winners) = Granted
  <2>1. [w \in Winners |-> req[w].bytes] = [w \in Winners |-> request[w].bytes]
    OBVIOUS
  <2> QED BY <2>1, GrantedIsDemand DEF Demand
<1>9. Demand(req, granted) \in Nat /\ Demand(req, Winners) \in Nat /\ Total(held) \in Nat
  BY <1>7, DemandIsLedger, HeldIsLedger, TotalNat
<1> QED BY <1>4, <1>6, <1>7, <1>8, <1>9

\* The pass of an operation that does not wait.
LEMMA GrantAfterBalances ==
    ASSUME IInv, RequestsKnown, RequestsKnown', NEW held \in Ledgers(ValidNames, Amounts),
           NEW taken, SoundQueue(held, pending, request), GrantAfter(held, taken)
    PROVE  Total(reservations') - Granted' = Total(held) - Granted
<1>1. GrantWaiters(held, taken, pending, request, older)
  BY DEF GrantAfter
<1>2. pending \in SUBSET Threads /\ \A t \in pending : result[t] # "None"
  BY DEF IInv, TypeOK, NoOrphanWaiter
<1> QED BY <1>1, <1>2, PassBalances

\* Nothing changes if neither the reservations nor the winners do.
LEMMA QuietBalances ==
    ASSUME IInv, RequestsKnown, UNCHANGED <<reservations, Winners>>,
           \A t \in Winners : request'[t] = request[t]
    PROVE  Shift(0)
<1>1. Granted' = Granted
  <2>1. [s \in Winners |-> request'[s].bytes] = [s \in Winners |-> request[s].bytes]
    OBVIOUS
  <2> QED BY <2>1 DEF Granted, Winners
<1>2. Granted \in Nat /\ Total(reservations) \in Nat
  BY GrantedIsDemand, Accounts
<1> QED BY <1>1, <1>2 DEF Shift

\* A call that is refused.
LEMMA RefuseBalances ==
    ASSUME IInv, RequestsKnown, NEW error, Refuse(error) \/ UNCHANGED vars
    PROVE  Shift(0)
<1>1. UNCHANGED <<reservations, result, request>>
  BY DEF Refuse, vars, ledger, queue
<1> QED BY <1>1, QuietBalances DEF Winners

\* A reservation for a name that is free.
LEMMA ReserveBalances ==
    ASSUME IInv, RequestsKnown, RequestsKnown', NEW name \in ValidNames, NEW bytes \in Amounts,
           ~ HasName(name), Reserve(name, bytes) \/ AcquireAtOnce(name, bytes)
    PROVE  Shift(bytes)
<1> DEFINE held == Emplace(reservations, name, bytes)
<1>1. bytes \in Nat /\ Granted \in Nat
  BY AmountsType, GrantedIsDemand
<1>2. Total(held) = Total(reservations) + bytes /\ Total(reservations) \in Nat
  BY <1>1, Accounts, TotalEmplace DEF HasName
<1>3. CASE Reserve(name, bytes)
  <2>1. GrantAfter(held, used + bytes)
    BY <1>3 DEF Reserve
  <2>2. held \in Ledgers(ValidNames, Amounts)
    BY Accounts, LedgerUpdates
  <2>3. SoundQueue(held, pending, request)
    <3>1. SoundQueue(reservations, pending, request)
      BY QueueIsSound
    <3>2. DOMAIN held = DOMAIN reservations \cup {name}
      BY DEF Emplace
    <3> HIDE DEF held
    <3> QED BY <3>1, <3>2 DEF SoundQueue, HasName
  <2> HIDE DEF held
  <2>4. Total(reservations') - Granted' = Total(held) - Granted
    BY <2>1, <2>2, <2>3, GrantAfterBalances
  <2> QED BY <1>1, <1>2, <2>4 DEF Shift
<1>4. CASE AcquireAtOnce(name, bytes)
  <2>1. reservations' = held /\ UNCHANGED <<result, request>>
    BY <1>4 DEF AcquireAtOnce, queue
  <2>2. Granted' = Granted
    BY <2>1 DEF Granted
  <2> HIDE DEF held
  <2> QED BY <1>1, <1>2, <2>1, <2>2 DEF Shift
<1> QED BY <1>3, <1>4

\* A client's acquire or release moves what it says if it succeeds, and
\* nothing otherwise.
LEMMA CallsBalance ==
    ASSUME IInv, RequestsKnown, RequestsKnown', NEW name
    PROVE  /\ \A bytes \in Sizes :
                 TryAcquire(name, bytes) => Shift(IF reply' = "None" THEN bytes ELSE 0)
           /\ Release(name) =>
                 Shift(IF reply' = "None" THEN - reservations[name] ELSE 0)
           /\ Release(name) /\ reply' = "None" => name \in DOMAIN reservations
<1>1. ASSUME NEW bytes \in Sizes, TryAcquire(name, bytes)
      PROVE  Shift(IF reply' = "None" THEN bytes ELSE 0)
  <2> DEFINE error == TryAcquireError(name, bytes)
  <2>1. CASE error # "None" /\ Refuse(error)
    <3>1. reply' # "None"
      BY <2>1 DEF Refuse
    <3>2. Shift(0)
      BY <2>1, RefuseBalances
    <3> QED BY <3>1, <3>2
  <2>2. CASE error = "None" /\ Reserve(name, bytes)
    <3>1. name \in ValidNames /\ bytes \in Amounts /\ ~ HasName(name)
      BY <2>2 DEF TryAcquireError, Amounts
    <3>2. reply' = "None"
      BY <2>2 DEF Reserve
    <3>3. Shift(bytes)
      BY <2>2, <3>1, ReserveBalances
    <3> QED BY <3>2, <3>3
  <2> QED BY <1>1, <2>1, <2>2 DEF TryAcquire
<1>2. ASSUME Release(name)
      PROVE  /\ Shift(IF reply' = "None" THEN - reservations[name] ELSE 0)
             /\ reply' = "None" => name \in DOMAIN reservations
  <2> DEFINE error == ReleaseError(name, reservations)
             held == Erase(reservations, {name})
  <2>1. CASE error # "None" /\ Refuse(error)
    <3>1. reply' # "None"
      BY <2>1 DEF Refuse
    <3>2. Shift(0)
      BY <2>1, RefuseBalances
    <3> QED BY <3>1, <3>2
  <2>2. CASE /\ error = "None" /\ reply' = "None"
             /\ GrantAfter(held, used - reservations[name])
    <3>1. name \in DOMAIN reservations
      BY <2>2 DEF ReleaseError
    <3>2. /\ Total(held) = Total(reservations) - reservations[name]
          /\ reservations[name] \in Nat /\ Total(reservations) \in Nat /\ Granted \in Nat
      BY <3>1, Accounts, TotalEraseOne, GrantedIsDemand
    <3>3. held \in Ledgers(ValidNames, Amounts)
      BY Accounts, LedgerUpdates
    <3>4. SoundQueue(held, pending, request)
      BY QueueIsSound DEF Erase, Restrict
    <3> HIDE DEF held
    <3>5. Total(reservations') - Granted' = Total(held) - Granted
      BY <2>2, <3>3, <3>4, GrantAfterBalances
    <3>6. Shift(- reservations[name])
      BY <3>2, <3>5 DEF Shift
    <3> QED BY <2>2, <3>1, <3>6
  <2> QED BY <1>2, <2>1, <2>2 DEF Release
<1> QED BY <1>1, <1>2

\* An acquire that succeeds at once moves its bytes; one that is refused or
\* waits moves nothing.
LEMMA AcquireBalances ==
    ASSUME IInv, RequestsKnown, RequestsKnown', NEW t \in Threads, NEW name,
           NEW bytes \in Sizes, NEW priority \in Priorities, NEW cost \in Costs, NEW timeout,
           Acquire(t, name, bytes, priority, cost, timeout)
    PROVE  Shift(IF reply' = "None" THEN bytes ELSE 0)
<1> DEFINE error == AcquireError(name, bytes, timeout)
           req == [name |-> name, bytes |-> bytes, priority |-> priority,
                   cost |-> cost, timed |-> timeout = "finite"]
<1>1. ASSUME NEW e, e # "None", Refuse(e)
      PROVE  Shift(IF reply' = "None" THEN bytes ELSE 0)
  <2>1. reply' # "None"
    BY <1>1 DEF Refuse
  <2>2. Shift(0)
    BY <1>1, RefuseBalances
  <2> QED BY <2>1, <2>2
<1>2. ASSUME error = "None"
      PROVE  name \in ValidNames /\ bytes \in Amounts /\ ~ HasName(name)
  BY <1>2 DEF AcquireError, TryAcquireError, Amounts
<1>3. CASE error = "None" /\ (Reserve(name, bytes) \/ AcquireAtOnce(name, bytes))
  <2>1. reply' = "None"
    BY <1>3 DEF Reserve, AcquireAtOnce
  <2>2. Shift(bytes)
    BY <1>2, <1>3, ReserveBalances
  <2> QED BY <2>1, <2>2
<1>4. CASE error = "None" /\ cost >= 0 /\ Enqueue(t, req)
  <2> DEFINE r == [request EXCEPT ![t] = req]
             ws == pending \cup {t}
  <2>1. /\ GrantWaiters(reservations, used, ws, r, older \cup (pending \X {t}))
        /\ reply' = "NoReply" /\ pc[t] = "idle"
    BY <1>4 DEF Enqueue
  <2>2. req \in Requests /\ req.name = name
    BY <1>2, <1>4, CostsAssumption DEF Requests, Amounts
  <2>3. SoundQueue(reservations, ws, r)
    <3> HIDE DEF req
    <3> QED BY <1>2, <1>4, <2>2, EnqueueIsSound
  <2>4. result[t] # "None"
    BY <2>1 DEF IInv, NoLostWakeup
  <2>5. ws \in SUBSET Threads /\ \A u \in ws : result[u] # "None"
    BY <2>4 DEF IInv, TypeOK, NoOrphanWaiter
  <2>6. \A u \in Winners : r[u] = request[u]
    BY <2>4 DEF IInv, TypeOK, Winners
  <2> HIDE DEF r, ws
  <2>7. Total(reservations') - Granted' = Total(reservations) - Granted
    BY <2>1, <2>3, <2>5, <2>6, Accounts, PassBalances
  <2>8. Shift(0)
    BY <2>7, Accounts, GrantedIsDemand DEF Shift
  <2> QED BY <2>1, <2>8
<1> QED BY <1>1, <1>3, <1>4 DEF Acquire

\* A step inside a waiting acquire moves nothing, except that the return of a
\* grant is the moment at which the grant counts.
LEMMA WaiterBalances ==
    ASSUME IInv, RequestsKnown, RequestsKnown', NEW t \in Threads
    PROVE  /\ TryAgain(t) \/ WaitTimeout(t) \/ WaiterEvent(t) => Shift(0)
           /\ Return(t) => Shift(IF reply' = "None" THEN request[t].bytes ELSE 0)
<1>1. ASSUME TryAgain(t) PROVE Shift(0)
  <2>1. GrantWaiters(reservations, used, pending, request, older)
    BY <1>1 DEF TryAgain
  <2>2. pending \in SUBSET Threads /\ \A u \in pending : result[u] # "None"
    BY DEF IInv, TypeOK, NoOrphanWaiter
  <2>3. SoundQueue(reservations, pending, request)
    BY QueueIsSound
  <2>4. Total(reservations') - Granted' = Total(reservations) - Granted
    BY <2>1, <2>2, <2>3, Accounts, PassBalances
  <2> QED BY <2>4, Accounts, GrantedIsDemand DEF Shift
<1>2. ASSUME WaitTimeout(t) PROVE Shift(0)
  <2>1. UNCHANGED <<reservations, Winners, request>>
    BY <1>2 DEF WaitTimeout, Winners, ledger, IInv, TypeOK
  <2> QED BY <2>1, QuietBalances
<1>3. ASSUME WaiterEvent(t) PROVE Shift(0)
  <2>1. UNCHANGED <<reservations, Winners, request>>
    BY <1>3 DEF WaiterEvent, SpuriousWakeup, DeadlinePasses, Winners, ledger
  <2> QED BY <2>1, QuietBalances
<1>4. ASSUME Return(t) PROVE Shift(IF reply' = "None" THEN request[t].bytes ELSE 0)
  <2>1. /\ result[t] \in {"None", "Timeout"} /\ reply' = result[t]
        /\ result' = [result EXCEPT ![t] = "Idle"]
        /\ request' = [request EXCEPT ![t] = NoRequest] /\ UNCHANGED reservations
    BY <1>4 DEF Return, ledger
  <2>2. Winners' = Winners \ {t} /\ \A u \in Threads \ {t} : request'[u] = request[u]
    BY <2>1 DEF Winners, IInv, TypeOK
  <2>3. CASE reply' = "None"
    <3>1. t \in Winners
      BY <2>1, <2>3 DEF Winners
    <3>2. Granted = Demand(request, Winners \ {t}) + request[t].bytes
      BY <3>1, GrantedIsDemand, DemandRemove
    <3>3. Granted' = Demand(request, Winners \ {t})
      <4>1. [w \in Winners \ {t} |-> request'[w].bytes]
              = [w \in Winners \ {t} |-> request[w].bytes]
        BY <2>2 DEF Winners
      <4> QED BY <2>2, <4>1 DEF Granted, Demand, Winners
    <3>4. request[t].bytes \in Nat /\ Demand(request, Winners \ {t}) \in Nat
      BY <3>1, GrantedIsDemand, DemandRemove, DemandIsLedger DEF WellFormed
    <3> QED BY <2>1, <2>3, <3>2, <3>3, <3>4, Accounts DEF Shift
  <2>4. CASE reply' # "None"
    <3>1. Winners' = Winners /\ \A u \in Winners : request'[u] = request[u]
      BY <2>1, <2>2, <2>4 DEF Winners
    <3>2. Shift(0)
      BY <2>1, <3>1, QuietBalances
    <3> QED BY <2>4, <3>2
  <2> QED BY <2>3, <2>4
<1> QED BY <1>1, <1>2, <1>3, <1>4

\* Neither cancelling the waiters nor the models' comings and goings move
\* client reservations, but for grants that are not yet returned.
LEMMA OthersBalance ==
    ASSUME IInv, RequestsKnown, RequestsKnown'
    PROVE  /\ CancelWaiters => Shift(0)
           /\ \A id : ReleaseModel(id) => Shift(0)
           /\ \A evictions, id, bytes :
                ReplaceModelReservations(evictions, id, bytes) => Shift(0)
           /\ UNCHANGED vars => Shift(0)
<1>1. ASSUME CancelWaiters PROVE Shift(0)
  <2>1. UNCHANGED <<reservations, Winners, request>>
    BY <1>1 DEF CancelWaiters, Winners, ledger, IInv, TypeOK, NoOrphanWaiter
  <2> QED BY <2>1, QuietBalances
<1>2. ASSUME NEW taken, GrantAfter(reservations, taken) PROVE Shift(0)
  <2>1. Total(reservations') - Granted' = Total(reservations) - Granted
    BY <1>2, Accounts, QueueIsSound, GrantAfterBalances
  <2> QED BY <2>1, Accounts, GrantedIsDemand DEF Shift
<1>3. ASSUME NEW error, Refuse(error) PROVE Shift(0)
  BY <1>3, RefuseBalances
<1>4. ASSUME UNCHANGED vars PROVE Shift(0)
  BY <1>4, RefuseBalances
<1> QED BY <1>1, <1>2, <1>3, <1>4 DEF ReleaseModel, ReplaceModelReservations

-----------------------------------------------------------------------------
(***************************************************************************)
(* What the sessions have still to record.                                 *)
(***************************************************************************)

\* The sessions that are about to record an operation that has succeeded.
Owing(what) ==
    {s \in Threads : session[s] = "recording" /\ due[s].what = what /\ due[s].success}

\* What they owe is the total of a ledger.
LEMMA OwedIsTotal ==
    ASSUME DueKnown, NEW what
    PROVE  /\ IsLedger([s \in Owing(what) |-> due[s].bytes])
           /\ Owed(what) = Total([s \in Owing(what) |-> due[s].bytes])
           /\ Owed(what) \in Nat
<1>1. IsFiniteSet(Owing(what))
  BY ThreadsAssumption, FS_Subset DEF Owing
<1>2. \A s \in Owing(what) : due[s].bytes \in Nat
  BY DEF Owing, DueKnown, Dues
<1>3. IsLedger([s \in Owing(what) |-> due[s].bytes])
  BY <1>1, <1>2 DEF IsLedger
<1>4. Owed(what) = Total([s \in Owing(what) |-> due[s].bytes])
  BY DEF Owed, Owing
<1> QED BY <1>3, <1>4, TotalNat

\* Nothing is owed or settled if no session starts or stops recording.
LEMMA OwedSame ==
    ASSUME NEW what,
           \A u \in Threads : /\ session'[u] = "recording" <=> session[u] = "recording"
                              /\ session[u] = "recording" => due'[u] = due[u]
    PROVE  Owed(what)' = Owed(what)
<1>1. Owing(what)' = Owing(what)
  BY DEF Owing
<1>2. [s \in Owing(what) |-> due'[s].bytes] = [s \in Owing(what) |-> due[s].bytes]
  BY DEF Owing
<1> QED BY <1>1, <1>2 DEF Owed, Owing

\* An operation that is over is owed from then on, if it has succeeded.
LEMMA OweAdds ==
    ASSUME Recording, SInv, NEW s \in Threads, session[s] # "recording",
           NEW what \in Operations \cup {"other"}, NEW success \in BOOLEAN, NEW bytes \in Nat,
           Owe(s, what, success, bytes), NEW w \in Operations
    PROVE  Owed(w)' = Owed(w) + (IF w = what /\ success THEN bytes ELSE 0)
<1> DEFINE d == [what |-> what, success |-> success, bytes |-> bytes]
           place == IF what = "other" THEN "counting" ELSE "recording"
<1>1. due' = [due EXCEPT ![s] = d] /\ session' = [session EXCEPT ![s] = place]
  BY DEF Owe, Goto
<1>2. DueKnown /\ DOMAIN session = Threads /\ DOMAIN due = Threads
  BY DEF SInv, SessionsInv, ServerTypeOK, DueKnown
<1>3. /\ session'[s] = place /\ due'[s] = d
      /\ \A u \in Threads \ {s} : session'[u] = session[u] /\ due'[u] = due[u]
  BY <1>1, <1>2
<1>4. d.what = what /\ d.success = success /\ d.bytes = bytes
  OBVIOUS
<1> HIDE DEF d
<1>5. Owed(w) \in Nat
  BY <1>2, OwedIsTotal
<1>6. CASE w = what /\ success
  <2>1. Owing(w)' = Owing(w) \cup {s} /\ s \notin Owing(w)
    BY <1>3, <1>4, <1>6 DEF Owing, Operations
  <2> DEFINE f == [u \in Owing(w) |-> due[u].bytes]
             g == [u \in Owing(w) \cup {s} |-> due'[u].bytes]
  <2>2. /\ DOMAIN f = Owing(w) /\ DOMAIN g = DOMAIN f \cup {s}
        /\ g[s] = bytes /\ \A u \in DOMAIN f : g[u] = f[u]
    BY <1>3, <1>4, <2>1 DEF Owing
  <2>3. IsLedger(f) /\ Owed(w) = Total(f)
    BY <1>2, OwedIsTotal
  <2>4. Owed(w)' = Total(g)
    BY <2>1 DEF Owed, Owing
  <2> HIDE DEF f, g
  <2>5. Total(g) = Total(f) + bytes
    BY <2>1, <2>2, <2>3, TotalGrow
  <2> QED BY <1>6, <2>3, <2>4, <2>5
<1>7. CASE ~ (w = what /\ success)
  <2>1. Owing(w)' = Owing(w) /\ s \notin Owing(w)
    BY <1>3, <1>4, <1>7 DEF Owing
  <2>2. [u \in Owing(w) |-> due'[u].bytes] = [u \in Owing(w) |-> due[u].bytes]
    BY <1>3, <2>1 DEF Owing
  <2>3. Owed(w)' = Owed(w)
    BY <2>1, <2>2 DEF Owed, Owing
  <2> QED BY <1>5, <1>7, <2>3
<1> QED BY <1>6, <1>7

\* Recording an operation settles what was owed for it.
LEMMA RecordSettles ==
    ASSUME SInv, NEW s \in Threads, RecordOperation(s), NEW w \in Operations
    PROVE  /\ Owed(w) \in Nat /\ Owed(w)' \in Nat
           /\ Owed(w)' = Owed(w) - (IF w = due[s].what /\ due[s].success
                                    THEN due[s].bytes ELSE 0)
<1>1. /\ session[s] = "recording" /\ session' = [session EXCEPT ![s] = "counting"]
      /\ due' = due
  BY DEF RecordOperation, Goto
<1>2. DueKnown /\ DOMAIN session = Threads
  BY DEF SInv, SessionsInv, ServerTypeOK
<1>3. session'[s] = "counting" /\ \A u \in Threads \ {s} : session'[u] = session[u]
  BY <1>1, <1>2
<1> DEFINE f == [u \in Owing(w) |-> due[u].bytes]
<1>4. IsLedger(f) /\ Owed(w) = Total(f) /\ Owed(w) \in Nat
  BY <1>2, OwedIsTotal
<1>5. Owing(w)' = Owing(w) \ {s}
  BY <1>1, <1>3 DEF Owing
<1>6. CASE s \in Owing(w)
  <2>1. Erase(f, {s}) = [u \in Owing(w) \ {s} |-> due[u].bytes]
    BY DEF Erase, Restrict
  <2>2. Owed(w)' = Total(Erase(f, {s}))
    BY <1>1, <1>5, <2>1 DEF Owed, Owing
  <2>3. f[s] = due[s].bytes /\ s \in DOMAIN f
    BY <1>6
  <2> HIDE DEF f
  <2>4. Total(Erase(f, {s})) = Total(f) - f[s] /\ f[s] <= Total(f) /\ f[s] \in Nat
    BY <1>4, <2>3, TotalEraseOne
  <2>5. w = due[s].what /\ due[s].success
    BY <1>6 DEF Owing
  <2> QED BY <1>4, <2>2, <2>3, <2>4, <2>5
<1>7. CASE s \notin Owing(w)
  <2>1. Owing(w)' = Owing(w)
    BY <1>5, <1>7
  <2>2. Owed(w)' = Owed(w)
    BY <1>1, <2>1 DEF Owed, Owing
  <2>3. ~ (w = due[s].what /\ due[s].success)
    BY <1>1, <1>7 DEF Owing
  <2> QED BY <1>4, <2>2, <2>3
<1> QED BY <1>6, <1>7

-----------------------------------------------------------------------------
(***************************************************************************)
(* The counters.                                                           *)
(***************************************************************************)

\* The counters count.
MetricsTyped ==
    metrics \in [requests : Nat, successes : Nat, failures : Nat,
                 acquires : Nat, releases : Nat, model_loads : Nat, model_unloads : Nat,
                 acquired_bytes : Nat, released_bytes : Nat]

\* The inductive invariant, with the metrics.
MInv == SInv /\ MetricsTyped /\ MetricsAddUp

\* A step adds acquired and released to the bytes counted and nothing else that
\* matters.
Counts(acquired, released) ==
    /\ MetricsTyped'
    /\ metrics'.requests = metrics.requests
    /\ metrics'.successes = metrics.successes
    /\ metrics'.failures = metrics.failures
    /\ metrics'.acquired_bytes = metrics.acquired_bytes + acquired
    /\ metrics'.released_bytes = metrics.released_bytes + released

\* What a call of Metrics adds to which counter.
LEMMA RecordEffect ==
    ASSUME MetricsTyped, NEW success \in BOOLEAN, NEW bytes \in Nat
    PROVE  /\ record_request(success) =>
                 /\ MetricsTyped'
                 /\ metrics'.requests = metrics.requests + 1
                 /\ metrics'.successes + metrics'.failures
                       = metrics.successes + metrics.failures + 1
                 /\ metrics'.acquired_bytes = metrics.acquired_bytes
                 /\ metrics'.released_bytes = metrics.released_bytes
           /\ record_acquire(success, bytes) => Counts(If(success, bytes), 0)
           /\ record_release(success, bytes) => Counts(0, If(success, bytes))
           /\ record_model_load(success) \/ record_model_unload(success) => Counts(0, 0)
<1> USE DEF MetricsTyped
<1>1. If(success, 1) \in Nat /\ If(~ success, 1) \in Nat /\ If(success, bytes) \in Nat
  BY DEF If
<1>2. If(success, 1) + If(~ success, 1) = 1
  BY DEF If
<1>3. ASSUME record_request(success)
      PROVE  /\ MetricsTyped'
             /\ metrics'.requests = metrics.requests + 1
             /\ metrics'.successes + metrics'.failures
                   = metrics.successes + metrics.failures + 1
             /\ metrics'.acquired_bytes = metrics.acquired_bytes
             /\ metrics'.released_bytes = metrics.released_bytes
  <2> DEFINE r == metrics.requests + 1
             a == metrics.successes + If(success, 1)
             b == metrics.failures + If(~ success, 1)
  <2>1. r \in Nat /\ a \in Nat /\ b \in Nat /\ a + b = metrics.successes + metrics.failures + 1
    BY <1>1, <1>2
  <2>2. metrics' = [metrics EXCEPT !.requests = r, !.successes = a, !.failures = b]
    BY <1>3 DEF record_request
  <2> HIDE DEF a, b
  <2>3. metrics'.requests = r /\ metrics'.successes = a /\ metrics'.failures = b
    BY <2>2
  <2> QED BY <2>1, <2>2, <2>3
<1>4. ASSUME record_acquire(success, bytes) PROVE Counts(If(success, bytes), 0)
  <2> DEFINE a == metrics.acquires + 1
             b == metrics.acquired_bytes + If(success, bytes)
  <2>1. a \in Nat /\ b \in Nat
    BY <1>1
  <2>2. metrics' = [metrics EXCEPT !.acquires = a, !.acquired_bytes = b]
    BY <1>4 DEF record_acquire
  <2> HIDE DEF a, b
  <2>3. /\ MetricsTyped'
        /\ metrics'.requests = metrics.requests /\ metrics'.successes = metrics.successes
        /\ metrics'.failures = metrics.failures /\ metrics'.acquired_bytes = b
        /\ metrics'.released_bytes = metrics.released_bytes
    BY <2>1, <2>2
  <2>4. metrics.released_bytes = metrics.released_bytes + 0
    OBVIOUS
  <2> HIDE DEF MetricsTyped
  <2> QED BY <2>3, <2>4 DEF Counts, b
<1>5. ASSUME record_release(success, bytes) PROVE Counts(0, If(success, bytes))
  <2> DEFINE a == metrics.releases + 1
             b == metrics.released_bytes + If(success, bytes)
  <2>1. a \in Nat /\ b \in Nat
    BY <1>1
  <2>2. metrics' = [metrics EXCEPT !.releases = a, !.released_bytes = b]
    BY <1>5 DEF record_release
  <2> HIDE DEF a, b
  <2>3. /\ MetricsTyped'
        /\ metrics'.requests = metrics.requests /\ metrics'.successes = metrics.successes
        /\ metrics'.failures = metrics.failures /\ metrics'.released_bytes = b
        /\ metrics'.acquired_bytes = metrics.acquired_bytes
    BY <2>1, <2>2
  <2>4. metrics.acquired_bytes = metrics.acquired_bytes + 0
    OBVIOUS
  <2> HIDE DEF MetricsTyped
  <2> QED BY <2>3, <2>4 DEF Counts, b
<1>6. ASSUME record_model_load(success) PROVE Counts(0, 0)
  BY <1>1, <1>6 DEF record_model_load, Counts
<1>7. ASSUME record_model_unload(success) PROVE Counts(0, 0)
  BY <1>1, <1>7 DEF record_model_unload, Counts
<1> QED BY <1>3, <1>4, <1>5, <1>6, <1>7

\* The accounts of bytes stay balanced if a step moves as many bytes as it
\* records or owes.
LEMMA BytesBalance ==
    ASSUME SInv, SInv', MetricsTyped, BytesAddUp,
           NEW d \in Int, Shift(d),
           NEW a \in Int, NEW r \in Int, NEW i \in Nat, NEW o \in Nat,
           Owed("acquire")' = Owed("acquire") + a,
           Owed("release")' = Owed("release") + r,
           Counts(i, o),
           a + i = d + r + o
    PROVE  BytesAddUp'
<1>1. /\ Owed("acquire") \in Nat /\ Owed("release") \in Nat /\ Granted \in Nat
      /\ Total(reservations) \in Nat
  BY OwedIsTotal, GrantedIsDemand, Accounts DEF SInv, RInv, SessionsInv
<1>2. metrics.acquired_bytes \in Nat /\ metrics.released_bytes \in Nat
  BY DEF MetricsTyped
<1>3. Granted' \in Nat /\ Total(reservations') \in Nat
  <2>1. Granted' = Demand(request', Winners')
    BY DEF Granted, Demand, Winners
  <2>2. Winners' \in SUBSET Threads /\ \A s \in Winners' : request'[s] \in Requests
    BY DEF Winners, RequestsKnown, SInv
  <2>3. reservations' \in Ledgers(ValidNames, Amounts)
    BY DEF SInv, RInv, IInv, TypeOK, Amounts
  <2> QED BY <2>1, <2>2, <2>3, RequestsWellFormed, HeldIsLedger, TotalNat
<1>4. /\ metrics'.acquired_bytes = metrics.acquired_bytes + i
      /\ metrics'.released_bytes = metrics.released_bytes + o
  BY DEF Counts
<1>5. Total(reservations') - Granted' = Total(reservations) - Granted + d
  BY DEF Shift
<1>6. metrics.acquired_bytes + Owed("acquire") + Granted
        = Total(reservations) + metrics.released_bytes + Owed("release")
  BY DEF BytesAddUp
<1>7. metrics'.acquired_bytes + Owed("acquire")' + Granted'
        = Total(reservations') + metrics'.released_bytes + Owed("release")'
  <2>1. metrics.acquired_bytes + i + (Owed("acquire") + a) + Granted'
          = Total(reservations') + (metrics.released_bytes + o) + (Owed("release") + r)
    BY <1>1, <1>2, <1>3, <1>5, <1>6
  <2> QED BY <1>4, <2>1
<1> QED BY <1>7 DEF BytesAddUp

\* The bytes that an operation moves.
Moved(what, success, bytes) ==
    CASE what = "acquire" /\ success -> bytes
      [] what = "release" /\ success -> - bytes
      [] OTHER -> 0

\* An operation that is over, and has moved what it is going to record.
LEMMA OweBalances ==
    ASSUME SInv, SInv', MetricsTyped, BytesAddUp, Recording, UNCHANGED metrics,
           NEW s \in Threads, session[s] # "recording",
           NEW what \in Operations \cup {"other"}, NEW success \in BOOLEAN, NEW bytes \in Nat,
           Owe(s, what, success, bytes), Shift(Moved(what, success, bytes))
    PROVE  BytesAddUp'
<1> DEFINE d == Moved(what, success, bytes)
           a == IF "acquire" = what /\ success THEN bytes ELSE 0
           r == IF "release" = what /\ success THEN bytes ELSE 0
<1>1. /\ Owed("acquire")' = Owed("acquire") + a
      /\ Owed("release")' = Owed("release") + r
  BY OweAdds DEF Operations
<1>2. Counts(0, 0)
  BY DEF Counts, MetricsTyped
<1>3. a \in Int /\ r \in Int /\ d \in Int /\ a = d + r
  BY DEF Moved
<1> HIDE DEF a, r, d
<1>4. a + 0 = d + r + 0
  BY <1>3
<1>5. Shift(d)
  BY DEF d
<1> QED BY <1>1, <1>2, <1>3, <1>4, <1>5, BytesBalance

\* A step with which no session starts or stops recording, and no bytes move.
LEMMA NothingToRecord ==
    ASSUME SInv, SInv', MetricsTyped, BytesAddUp, Counts(0, 0), Shift(0),
           \A u \in Threads : /\ session'[u] = "recording" <=> session[u] = "recording"
                              /\ session[u] = "recording" => due'[u] = due[u]
    PROVE  BytesAddUp'
<1>1. /\ Owed("acquire")' = Owed("acquire") /\ Owed("release")' = Owed("release")
      /\ Owed("acquire") \in Nat /\ Owed("release") \in Nat
  BY OwedSame, OwedIsTotal DEF SInv, SessionsInv
<1>2. /\ Owed("acquire")' = Owed("acquire") + 0
      /\ Owed("release")' = Owed("release") + 0
  BY <1>1
<1>3. 0 + 0 = 0 + 0 + 0
  OBVIOUS
<1> QED BY <1>2, <1>3, BytesBalance

\* A line that is dispatched keeps the accounts of bytes.
LEMMA DispatchBytes ==
    ASSUME SInv, SInv', MetricsTyped, BytesAddUp, Recording, NEW s \in Threads, Dispatch(s)
    PROVE  BytesAddUp'
<1> USE DEF Operations
<1>1. /\ IInv /\ RequestsKnown /\ RequestsKnown' /\ session[s] = "processing"
      /\ UNCHANGED metrics /\ DOMAIN session = Threads
  BY DEF SInv, RInv, SessionsInv, ServerTypeOK, Dispatch
<1>2. Counts(0, 0)
  BY <1>1 DEF Counts, MetricsTyped
<1>3. ASSUME NEW place \in {"waiting", "loading"}, Goto(s, place), UNCHANGED due, Shift(0)
      PROVE  BytesAddUp'
  <2>1. \A u \in Threads : session'[u] = "recording" <=> session[u] = "recording"
    BY <1>1, <1>3 DEF Goto
  <2> QED BY <1>2, <1>3, <2>1, NothingToRecord
<1>4. CASE ClientOperation(s)
  <2>1. ASSUME NEW name \in Names, NEW bytes \in Sizes,
               TryAcquire(name, bytes), Owe(s, "acquire", reply' = "None", bytes)
        PROVE  BytesAddUp'
    <3>1. Shift(Moved("acquire", reply' = "None", bytes))
      BY <1>1, <2>1, CallsBalance DEF Moved
    <3>2. bytes \in Nat
      BY SizesAssumption
    <3> QED BY <1>1, <2>1, <3>1, <3>2, OweBalances
  <2>2. ASSUME NEW name \in Names, Release(name),
               Owe(s, "release", reply' = "None",
                   IF name \in DOMAIN reservations THEN reservations[name] ELSE 0)
        PROVE  BytesAddUp'
    <3> DEFINE bytes == IF name \in DOMAIN reservations THEN reservations[name] ELSE 0
    <3>1. bytes \in Nat
      BY <1>1, Accounts DEF IsLedger
    <3>2. Shift(Moved("release", reply' = "None", bytes))
      <4>1. CASE reply' = "None"
        BY <1>1, <2>2, <4>1, CallsBalance DEF Moved
      <4>2. CASE reply' # "None"
        BY <1>1, <2>2, <4>2, CallsBalance DEF Moved
      <4> QED BY <4>1, <4>2
    <3>3. Owe(s, "release", reply' = "None", bytes)
      BY <2>2
    <3> HIDE DEF bytes
    <3> QED BY <1>1, <3>1, <3>2, <3>3, OweBalances
  <2>3. ASSUME NEW name \in Names, NEW bytes \in Sizes, NEW priority \in Priorities,
               NEW cost \in Costs, NEW timeout \in Timeouts,
               Acquire(s, name, bytes, priority, cost, timeout),
               \/ reply' # "NoReply" /\ Owe(s, "acquire", reply' = "None", bytes)
               \/ reply' = "NoReply" /\ Goto(s, "waiting") /\ UNCHANGED due
        PROVE  BytesAddUp'
    <3>1. Shift(IF reply' = "None" THEN bytes ELSE 0)
      BY <1>1, <2>3, AcquireBalances
    <3>2. bytes \in Nat
      BY SizesAssumption
    <3>3. CASE Owe(s, "acquire", reply' = "None", bytes)
      <4>1. Shift(Moved("acquire", reply' = "None", bytes))
        BY <3>1 DEF Moved
      <4> QED BY <1>1, <3>2, <3>3, <4>1, OweBalances
    <3>4. CASE reply' = "NoReply" /\ Goto(s, "waiting") /\ UNCHANGED due
      BY <1>3, <3>1, <3>4
    <3> QED BY <2>3, <3>3, <3>4
  <2> QED BY <1>4, <2>1, <2>2, <2>3 DEF ClientOperation
<1>5. ASSUME NEW what \in {"load", "unload", "other"}, NEW success \in BOOLEAN,
             Owe(s, what, success, 0), Shift(0)
      PROVE  BytesAddUp'
  <2>1. Shift(Moved(what, success, 0))
    BY <1>5 DEF Moved
  <2> QED BY <1>1, <1>5, <2>1, OweBalances
<1>6. CASE ModelOperation(s)
  <2>1. PICK id \in ModelIds :
          /\ ResidencyCall(id)
          /\ \/ \E what \in {"load", "unload", "other"} : Owe(s, what, model_reply' = "None", 0)
             \/ Goto(s, "loading") /\ UNCHANGED due
    BY <1>6 DEF ModelOperation, ResidencyCall
  <2>2. Shift(0)
    BY <1>1, <2>1, ModelCallUsesManager, OthersBalance
  <2> QED BY <1>3, <1>5, <2>1, <2>2
<1>7. CASE NodeOperation(s) \/ Query(s)
  <2>1. UNCHANGED residencyVars
    BY <1>7 DEF NodeOperation, Query, managers
  <2>2. Shift(0)
    BY <1>1, <2>1, OthersBalance DEF residencyVars
  <2> QED BY <1>5, <1>7, <2>2 DEF NodeOperation, Query
<1> QED BY <1>4, <1>6, <1>7 DEF Dispatch

\* Every step keeps the accounts of bytes.
LEMMA NextBytes ==
    ASSUME SInv, SInv', MetricsTyped, BytesAddUp, Recording, [ServerNext]_serverVars
    PROVE  BytesAddUp'
<1>1. /\ IInv /\ RequestsKnown /\ RequestsKnown' /\ DueKnown /\ DOMAIN session = Threads
      /\ DOMAIN due = Threads
  BY DEF SInv, RInv, SessionsInv, ServerTypeOK, DueKnown
<1>2. UNCHANGED metrics => Counts(0, 0)
  BY DEF Counts, MetricsTyped
<1>3. UNCHANGED residencyVars => Shift(0)
  BY <1>1, OthersBalance DEF residencyVars
<1>4. CASE Run \/ PollFails \/ Environment \/ UNCHANGED serverVars
  <2>1. UNCHANGED residencyVars \/ CancelWaiters \/ \E t \in Threads : WaiterEvent(t)
    BY <1>4 DEF Run, PollFails, Environment, CheckPath, Bind, Listen, Poll, Accept,
                CloseListener, Cancel, Join, Start, RequestShutdown, Signal, OtherBinds,
                NodeReport, Connect, SendLine, HangUp, Event, serverVars, managers
  <2>2. Shift(0)
    BY <1>1, <1>3, <2>1, OthersBalance, WaiterBalances
  <2>3. /\ UNCHANGED <<due, metrics>>
        /\ \A u \in Threads : session'[u] = "recording" <=> session[u] = "recording"
    BY <1>4, OutsideSessions
  <2> QED BY <1>2, <2>2, <2>3, NothingToRecord
<1>5. ASSUME NEW s \in Threads, FinishLoad(s) PROVE BytesAddUp'
  <2>1. /\ LoadStep
        /\ \/ Owe(s, "load", model_reply' = "None", 0)
           \/ UNCHANGED <<session, due>>
        /\ session[s] # "recording" /\ UNCHANGED metrics
    BY <1>5 DEF FinishLoad
  <2>2. Shift(0)
    BY <1>1, <2>1, OthersBalance, LoadStepUsesManager
  <2>3. Shift(Moved("load", model_reply' = "None", 0))
    BY <2>2 DEF Moved
  <2>4. CASE Owe(s, "load", model_reply' = "None", 0)
    BY <2>1, <2>3, <2>4, OweBalances DEF Operations
  <2>5. CASE UNCHANGED <<session, due>>
    BY <1>2, <2>1, <2>2, <2>5, NothingToRecord
  <2> QED BY <2>1, <2>4, <2>5
<1>6. ASSUME NEW s \in Threads, Wait(s) PROVE BytesAddUp'
  <2>1. session[s] = "waiting" /\ UNCHANGED metrics
    BY <1>6 DEF Wait
  <2>2. CASE (TryAgain(s) \/ WaitTimeout(s)) /\ UNCHANGED <<session, due>>
    <3>1. Shift(0)
      BY <1>1, <2>2, WaiterBalances
    <3> QED BY <1>2, <2>1, <2>2, <3>1, NothingToRecord
  <2>3. CASE Return(s) /\ Owe(s, "acquire", reply' = "None", request[s].bytes)
    <3>1. request[s] \in Requests
      BY <1>1, <2>3 DEF Return, RequestsKnown
    <3>2. request[s].bytes \in Nat
      BY <3>1, SizesAssumption DEF Requests
    <3>3. Shift(Moved("acquire", reply' = "None", request[s].bytes))
      BY <1>1, <2>3, WaiterBalances DEF Moved
    <3> QED BY <2>1, <2>3, <3>2, <3>3, OweBalances DEF Operations
  <2> QED BY <1>6, <2>2, <2>3 DEF Wait
<1>7. ASSUME NEW s \in Threads, RecordOperation(s) PROVE BytesAddUp'
  <2> DEFINE what == due[s].what
             success == due[s].success
             bytes == due[s].bytes
             a == IF "acquire" = what /\ success THEN bytes ELSE 0
             r == IF "release" = what /\ success THEN bytes ELSE 0
  <2>1. /\ session[s] = "recording" /\ UNCHANGED residencyVars
        /\ CASE what = "acquire" -> record_acquire(success, bytes)
             [] what = "release" -> record_release(success, bytes)
             [] what = "load" -> record_model_load(success)
             [] what = "unload" -> record_model_unload(success)
    BY <1>7 DEF RecordOperation, managers
  <2>2. due[s] \in Dues(Operations)
    BY <1>1, <2>1 DEF DueKnown
  <2>3. what \in Operations /\ success \in BOOLEAN /\ bytes \in Nat
    BY <2>2 DEF Dues
  <2>4. /\ Owed("acquire")' = Owed("acquire") - a /\ Owed("acquire") \in Nat
        /\ Owed("release")' = Owed("release") - r /\ Owed("release") \in Nat
    BY <1>7, RecordSettles DEF Operations
  <2>5. Shift(0)
    BY <1>3, <2>1
  <2> HIDE DEF what, success, bytes
  <2>6. Counts(a, r)
    <3>1. CASE what = "acquire"
      BY <2>1, <2>3, <3>1, RecordEffect DEF If
    <3>2. CASE what = "release"
      BY <2>1, <2>3, <3>2, RecordEffect DEF If
    <3>3. CASE what = "load"
      BY <2>1, <2>3, <3>3, RecordEffect
    <3>4. CASE what = "unload"
      BY <2>1, <2>3, <3>4, RecordEffect
    <3> QED BY <2>3, <3>1, <3>2, <3>3, <3>4 DEF Operations
  <2>7. a \in Nat /\ r \in Nat
    BY <2>3
  <2> HIDE DEF a, r
  <2>8. /\ Owed("acquire")' = Owed("acquire") + (- a)
        /\ Owed("release")' = Owed("release") + (- r)
        /\ - a \in Int /\ - r \in Int /\ (- a) + a = 0 + (- r) + r
    BY <2>4, <2>7
  <2> QED BY <2>5, <2>6, <2>7, <2>8, BytesBalance
<1>8. ASSUME NEW s \in Threads, RecordRequest(s) PROVE BytesAddUp'
  <2>1. /\ session[s] = "counting" /\ session' = [session EXCEPT ![s] = "answering"]
        /\ due' = [due EXCEPT ![s] = NothingDue] /\ UNCHANGED residencyVars
        /\ record_request(due[s].success)
    BY <1>8 DEF RecordRequest, managers, Goto
  <2>2. due[s].success \in BOOLEAN
    BY <1>1, <2>1 DEF DueKnown, Dues
  <2>3. /\ MetricsTyped'
        /\ metrics'.acquired_bytes = metrics.acquired_bytes
        /\ metrics'.released_bytes = metrics.released_bytes
    BY <2>1, <2>2, RecordEffect
  <2>4. /\ Owed("acquire")' = Owed("acquire") /\ Owed("release")' = Owed("release")
    <3>1. \A u \in Threads : /\ session'[u] = "recording" <=> session[u] = "recording"
                             /\ session[u] = "recording" => due'[u] = due[u]
      BY <1>1, <2>1
    <3> QED BY <3>1, OwedSame
  <2>5. reservations' = reservations /\ Granted' = Granted
    BY <2>1 DEF residencyVars, vars, ledger, queue, Granted
  <2> QED BY <2>3, <2>4, <2>5 DEF BytesAddUp
<1>9. ASSUME NEW s \in Threads,
             CheckStop(s) \/ Read(s) \/ TooLarge(s) \/ Processed(s) \/ Answer(s)
      PROVE  BytesAddUp'
  <2>1. /\ session[s] # "recording" /\ UNCHANGED <<residencyVars, metrics, due>>
    BY <1>9 DEF CheckStop, Read, TooLarge, Processed, Answer, managers, records_due
  <2>2. \E place \in {"reading", "processing", "checking", "done"} :
           session' = [session EXCEPT ![s] = place]
    BY <1>9 DEF CheckStop, Read, TooLarge, Processed, Answer, Goto
  <2>3. \A u \in Threads : session'[u] = "recording" <=> session[u] = "recording"
    BY <1>1, <2>1, <2>2
  <2> QED BY <1>2, <1>3, <2>1, <2>3, NothingToRecord
<1> QED BY <1>4, <1>5, <1>6, <1>7, <1>8, <1>9, DispatchBytes DEF ServerNext, Session

\* The lines on the sockets and in the buffers are counted, and so are the
\* operations in progress.
LEMMA LinesType ==
    ASSUME SInv
    PROVE  /\ IsLedger(unread) /\ IsLedger(input)
           /\ DOMAIN unread = Threads /\ DOMAIN input = Threads
           /\ Total(unread) \in Nat /\ Total(input) \in Nat
           /\ IsFiniteSet(InProgress) /\ Cardinality(InProgress) \in Nat
           /\ sent \in Nat /\ DOMAIN session = Threads
<1>1. /\ unread \in [Threads -> 0 .. MaxLines] /\ input \in [Threads -> 0 .. MaxLines]
      /\ sent \in Nat /\ DOMAIN session = Threads
  BY DEF SInv, SessionsInv, ServerTypeOK
<1>2. IsLedger(unread) /\ IsLedger(input)
  BY <1>1, ThreadsAssumption DEF IsLedger
<1>3. IsFiniteSet(InProgress) /\ Cardinality(InProgress) \in Nat
  BY ThreadsAssumption, FS_Subset, FS_CardinalityType DEF InProgress
<1> QED BY <1>1, <1>2, <1>3, TotalNat

\* Every step keeps the account of lines.
LEMMA NextLines ==
    ASSUME SInv, SInv', MetricsTyped, LinesAddUp, Recording, [ServerNext]_serverVars
    PROVE  LinesAddUp'
<1> DEFINE Busy == {"waiting", "loading", "recording", "counting"}
<1>1. /\ IsLedger(unread) /\ IsLedger(input)
      /\ DOMAIN unread = Threads /\ DOMAIN input = Threads
      /\ Total(unread) \in Nat /\ Total(input) \in Nat
      /\ IsFiniteSet(InProgress) /\ Cardinality(InProgress) \in Nat
      /\ sent \in Nat /\ DOMAIN session = Threads
      /\ metrics.requests \in Nat
      /\ metrics.requests + Cardinality(InProgress) + Total(unread) + Total(input) = sent
  BY LinesType DEF MetricsTyped, LinesAddUp
<1>2. IsLedger(unread') /\ IsLedger(input') /\ DOMAIN unread' = Threads /\ DOMAIN input' = Threads
  <2>1. unread' \in [Threads -> 0 .. MaxLines] /\ input' \in [Threads -> 0 .. MaxLines]
    BY DEF SInv, SessionsInv, ServerTypeOK
  <2> QED BY <2>1, ThreadsAssumption DEF IsLedger
<1>3. ASSUME UNCHANGED <<unread, input, sent>>, metrics'.requests = metrics.requests,
             \A s \in Threads : session'[s] \in Busy <=> session[s] \in Busy
      PROVE  LinesAddUp'
  <2>1. InProgress' = InProgress
    BY <1>3 DEF InProgress
  <2> QED BY <1>1, <1>3, <2>1 DEF LinesAddUp
<1>4. CASE Run \/ PollFails \/ Environment \/ UNCHANGED serverVars
  <2>1. /\ UNCHANGED <<metrics, input>>
        /\ \A s \in Threads : session'[s] \in Busy <=> session[s] \in Busy
    BY <1>4, OutsideSessions
  <2>2. ASSUME NEW s \in Threads, SendLine(s) PROVE LinesAddUp'
    <3>1. sent' = sent + 1 /\ unread' = [unread EXCEPT ![s] = @ + 1]
      BY <2>2 DEF SendLine
    <3>2. unread'[s] = unread[s] + 1 /\ \A u \in Threads \ {s} : unread'[u] = unread[u]
      BY <1>1, <3>1
    <3>3. /\ unread[s] \in Nat
          /\ Total(unread') = Total(unread) - unread[s] + unread'[s]
      BY <1>1, <1>2, <3>2, TotalUpdate
    <3>4. InProgress' = InProgress
      BY <2>1 DEF InProgress
    <3>5. Total(unread') = Total(unread) + 1
      BY <1>1, <3>2, <3>3
    <3> QED BY <1>1, <2>1, <3>1, <3>4, <3>5 DEF LinesAddUp
  <2>3. CASE ~ \E s \in Threads : SendLine(s)
    <3>1. UNCHANGED <<unread, sent>>
      BY <1>4, <2>3 DEF Run, PollFails, Environment, CheckPath, Bind, Listen, Poll, Accept,
                CloseListener, Cancel, Join, Start, RequestShutdown, Signal, OtherBinds,
                NodeReport, Connect, HangUp, Event, serverVars, connection
    <3> QED BY <1>3, <2>1, <3>1
  <2> QED BY <2>2, <2>3
<1>5. ASSUME NEW s \in Threads, Read(s) PROVE LinesAddUp'
  <2>1. /\ session[s] = "reading" /\ UNCHANGED <<metrics, sent>>
        /\ \E place \in {"processing", "checking", "done"} :
              session' = [session EXCEPT ![s] = place]
    BY <1>5 DEF Read, Goto, records_due
  <2>2. \A u \in Threads : session'[u] \in Busy <=> session[u] \in Busy
    BY <1>1, <2>1
  <2>3. CASE UNCHANGED <<unread, input>>
    BY <1>3, <2>1, <2>2, <2>3
  <2>4. ASSUME NEW n \in 1 .. unread[s],
               unread' = [unread EXCEPT ![s] = @ - n], input' = [input EXCEPT ![s] = @ + n]
        PROVE  LinesAddUp'
    <3>1. /\ unread'[s] = unread[s] - n /\ \A u \in Threads \ {s} : unread'[u] = unread[u]
          /\ input'[s] = input[s] + n /\ \A u \in Threads \ {s} : input'[u] = input[u]
      BY <1>1, <2>4
    <3>2. /\ unread[s] \in Nat /\ Total(unread') = Total(unread) - unread[s] + unread'[s]
          /\ input[s] \in Nat /\ Total(input') = Total(input) - input[s] + input'[s]
      BY <1>1, <1>2, <3>1, TotalUpdate
    <3>3. Total(unread') + Total(input') = Total(unread) + Total(input)
          /\ Total(unread') \in Int /\ Total(input') \in Int
      BY <1>1, <3>1, <3>2
    <3>4. InProgress' = InProgress
      BY <2>2 DEF InProgress
    <3>5. metrics'.requests + Cardinality(InProgress') + Total(unread') + Total(input') = sent'
      BY <1>1, <2>1, <3>3, <3>4
    <3> QED BY <3>5 DEF LinesAddUp
  <2> QED BY <1>5, <2>3, <2>4 DEF Read
<1>6. ASSUME NEW s \in Threads, Dispatch(s) PROVE LinesAddUp'
  <2>1. /\ session[s] = "processing" /\ UNCHANGED <<metrics, unread, sent>>
        /\ input[s] > 0 /\ input' = [input EXCEPT ![s] = @ - 1]
    BY <1>6 DEF Dispatch, connection
  <2>2. \E place \in Busy : session' = [session EXCEPT ![s] = place]
    BY <1>6, DispatchEffect DEF Concluded
  <2>3. InProgress' = InProgress \cup {s} /\ s \notin InProgress
    BY <1>1, <2>1, <2>2 DEF InProgress
  <2>4. Cardinality(InProgress') = Cardinality(InProgress) + 1
    BY <1>1, <2>3, FS_AddElement
  <2>5. input'[s] = input[s] - 1 /\ \A u \in Threads \ {s} : input'[u] = input[u]
    BY <1>1, <2>1
  <2>6. input[s] \in Nat /\ Total(input') = Total(input) - input[s] + input'[s]
    BY <1>1, <1>2, <2>5, TotalUpdate
  <2>7. Total(input') = Total(input) - 1
    BY <1>1, <2>5, <2>6
  <2> QED BY <1>1, <2>1, <2>4, <2>7 DEF LinesAddUp
<1>7. ASSUME NEW s \in Threads, FinishLoad(s) \/ Wait(s) PROVE LinesAddUp'
  <2>1. session[s] \in Busy /\ UNCHANGED <<metrics, unread, input, sent>>
    BY <1>7 DEF FinishLoad, Wait, connection
  <2>2. \/ UNCHANGED session
        \/ \E place \in Busy : session' = [session EXCEPT ![s] = place]
    BY <1>7, LateAnswers DEF Concluded
  <2>3. \A u \in Threads : session'[u] \in Busy <=> session[u] \in Busy
    BY <1>1, <2>1, <2>2
  <2> QED BY <1>3, <2>1, <2>3
<1>8. ASSUME NEW s \in Threads, RecordOperation(s) PROVE LinesAddUp'
  <2>1. /\ session[s] = "recording" /\ session' = [session EXCEPT ![s] = "counting"]
        /\ UNCHANGED <<unread, input, sent>>
    BY <1>8 DEF RecordOperation, Goto, connection
  <2>2. \A u \in Threads : session'[u] \in Busy <=> session[u] \in Busy
    BY <1>1, <2>1
  <2>3. due[s] \in Dues(Operations)
    BY <2>1 DEF SInv, SessionsInv, DueKnown
  <2>4. due[s].what \in Operations /\ due[s].success \in BOOLEAN /\ due[s].bytes \in Nat
    BY <2>3 DEF Dues
  <2>5. metrics'.requests = metrics.requests
    BY <1>8, <2>4, RecordEffect DEF RecordOperation, Operations, Counts
  <2> QED BY <1>3, <2>1, <2>2, <2>5
<1>9. ASSUME NEW s \in Threads, RecordRequest(s) PROVE LinesAddUp'
  <2>1. /\ session[s] = "counting" /\ session' = [session EXCEPT ![s] = "answering"]
        /\ UNCHANGED <<unread, input, sent>> /\ record_request(due[s].success)
    BY <1>9 DEF RecordRequest, Goto, connection
  <2>2. InProgress' = InProgress \ {s} /\ s \in InProgress
    BY <1>1, <2>1 DEF InProgress
  <2>3. Cardinality(InProgress') = Cardinality(InProgress) - 1
    BY <1>1, <2>2, FS_RemoveElement
  <2>4. due[s].success \in BOOLEAN
    BY <2>1 DEF SInv, SessionsInv, DueKnown, Dues
  <2>5. metrics'.requests = metrics.requests + 1
    BY <2>1, <2>4, RecordEffect
  <2> QED BY <1>1, <2>1, <2>3, <2>5 DEF LinesAddUp
<1>10. ASSUME NEW s \in Threads,
              CheckStop(s) \/ TooLarge(s) \/ Processed(s) \/ Answer(s)
       PROVE  LinesAddUp'
  <2>1. /\ session[s] \notin Busy /\ UNCHANGED <<metrics, unread, input, sent>>
        /\ \E place \in {"reading", "processing", "checking", "done"} :
              session' = [session EXCEPT ![s] = place]
    BY <1>10 DEF CheckStop, TooLarge, Processed, Answer, Goto, connection, records_due
  <2>2. \A u \in Threads : session'[u] \in Busy <=> session[u] \in Busy
    BY <1>1, <2>1
  <2> QED BY <1>3, <2>1, <2>2
<1> QED BY <1>4, <1>5, <1>6, <1>7, <1>8, <1>9, <1>10 DEF ServerNext, Session

\* Every step keeps the counters in step with each other.
LEMMA NextCounters ==
    ASSUME SInv, MetricsTyped, metrics.successes + metrics.failures = metrics.requests,
           [ServerNext]_serverVars
    PROVE  /\ MetricsTyped'
           /\ metrics'.successes + metrics'.failures = metrics'.requests
<1>1. CASE UNCHANGED metrics
  BY <1>1 DEF MetricsTyped
<1>2. ASSUME NEW s \in Threads, RecordOperation(s)
      PROVE  /\ MetricsTyped'
             /\ metrics'.successes + metrics'.failures = metrics'.requests
  <2>1. due[s] \in Dues(Operations)
    BY <1>2 DEF SInv, SessionsInv, DueKnown, RecordOperation
  <2>2. due[s].what \in Operations /\ due[s].success \in BOOLEAN /\ due[s].bytes \in Nat
    BY <2>1 DEF Dues
  <2> QED BY <1>2, <2>2, RecordEffect DEF RecordOperation, Operations, Counts
<1>3. ASSUME NEW s \in Threads, RecordRequest(s)
      PROVE  /\ MetricsTyped'
             /\ metrics'.successes + metrics'.failures = metrics'.requests
  <2>1. due[s].success \in BOOLEAN
    BY <1>3 DEF SInv, SessionsInv, DueKnown, Dues, RecordRequest
  <2> QED BY <1>3, <2>1, RecordEffect DEF RecordRequest
<1>4. CASE Run \/ PollFails \/ Environment \/ UNCHANGED serverVars
  BY <1>1, <1>4, OutsideSessions
<1>5. ASSUME NEW s \in Threads, Session(s) \/ Wait(s), ~ RecordOperation(s), ~ RecordRequest(s)
      PROVE  UNCHANGED metrics
  BY <1>5 DEF Session, Wait, CheckStop, Read, Dispatch, TooLarge, Processed, Answer,
              FinishLoad, records_due
<1> QED BY <1>1, <1>2, <1>3, <1>4, <1>5 DEF ServerNext

\* At every moment, however many sessions run and however they interleave, what
\* the metrics say was acquired and released is what the ledger says, but for
\* what sessions are about to record, and every line is counted exactly once.
THEOREM MetricsCorrect == ServerSpec => []MetricsAddUp
<1>1. ServerInit => MInv
  <2> SUFFICES ASSUME ServerInit PROVE MInv
    OBVIOUS
  <2>1. SInv
    BY InitSInv
  <2>2. MetricsTyped /\ metrics.requests = 0 /\ metrics.successes = 0 /\ metrics.failures = 0
        /\ metrics.acquired_bytes = 0 /\ metrics.released_bytes = 0
    BY DEF ServerInit, MetricsInit, MetricsTyped
  <2>3. BytesAddUp
    <3>1. Owed("acquire") = 0 /\ Owed("release") = 0
      BY TotalEmpty DEF ServerInit, Owed
    <3>2. Granted = 0
      BY TotalEmpty DEF ServerInit, ResidencyInit, Init, Granted
    <3>3. Total(reservations) = 0
      BY TotalEmpty DEF ServerInit, ResidencyInit, Init, NoEntries
    <3> QED BY <2>2, <3>1, <3>2, <3>3 DEF BytesAddUp
  <2>4. LinesAddUp
    <3>1. InProgress = {}
      BY DEF ServerInit, InProgress
    <3>2. Total([s \in Threads |-> 0]) = 0
      <4>1. Units([s \in Threads |-> 0]) = {}
        BY DEF Units
      <4> QED BY <4>1, FS_EmptySet DEF Total
    <3>3. Total(unread) = 0 /\ Total(input) = 0 /\ sent = 0
      BY <3>2 DEF ServerInit
    <3> QED BY <2>2, <3>1, <3>3, FS_EmptySet DEF LinesAddUp
  <2> QED BY <2>1, <2>2, <2>3, <2>4 DEF MInv, MetricsAddUp
<1>2. MInv /\ [ServerNext]_serverVars => MInv'
  <2> SUFFICES ASSUME MInv, [ServerNext]_serverVars PROVE MInv'
    OBVIOUS
  <2>1. SInv'
    BY NextSInv DEF MInv
  <2>2. CASE Recording
    BY <2>1, <2>2, NextBytes, NextLines, NextCounters DEF MInv, MetricsAddUp
  <2>3. CASE ~ Recording
    <3>1. UNCHANGED metrics
      <4>1. CASE Run \/ PollFails \/ Environment \/ UNCHANGED serverVars
        BY <4>1, OutsideSessions DEF MInv
      <4>2. ASSUME NEW s \in Threads, Session(s) \/ Wait(s) PROVE UNCHANGED metrics
        <5>1. session[s] \notin {"recording", "counting"}
          BY <2>3 DEF MInv, SInv, SessionsInv, DueKnown
        <5> QED BY <4>2, <5>1 DEF Session, Wait, CheckStop, Read, Dispatch, TooLarge,
                   Processed, Answer, FinishLoad, RecordOperation, RecordRequest, records_due
      <4> QED BY <4>1, <4>2 DEF ServerNext
    <3> QED BY <2>1, <2>3, <3>1 DEF MInv, MetricsAddUp, MetricsTyped
  <2> QED BY <2>2, <2>3
<1>3. MInv => MetricsAddUp
  BY DEF MInv
<1> QED BY <1>1, <1>2, <1>3, PTL DEF ServerSpec

=============================================================================
