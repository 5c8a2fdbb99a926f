--------------------------- MODULE ResourceManager ---------------------------
(***************************************************************************)
(* gpumemd's ResourceManager: the ledger of client and model reservations  *)
(* of one accelerator's memory, and the queue of acquires that wait for    *)
(* memory.  Every operation runs under mutex_; an acquire that has to wait *)
(* gives the mutex up inside condition_.wait and goes round its loop when  *)
(* it is woken.                                                            *)
(*                                                                         *)
(* An operation that never waits is one step.  A waiting acquire belongs   *)
(* to a thread t and moves through                                         *)
(*                                                                         *)
(*   "idle"     not inside a waiting acquire                               *)
(*   "locked"   inside the loop and holding mutex_                         *)
(*   "waiting"  blocked in condition_.wait or wait_until                   *)
(*   "notified" woken, and about to take mutex_ again                      *)
(*                                                                         *)
(* The clock is modelled by the set of waiters whose deadline has passed.  *)
(***************************************************************************)
EXTENDS GrantOrder, FiniteSets, Sequences

\* Timeouts are told apart as the code does: "infinite" is every timeout that
\* leaves the deadline of the request at time_point::max().
CONSTANTS Threads,        \* threads that may wait inside acquire
          Names,          \* names that clients pass
          ModelIds,       \* ids of models that callers pass
          ValidNames,     \* the names and ids that valid_name accepts
          Sizes,          \* byte counts that callers pass, 0 included
          Priorities,
          Costs,          \* estimated costs, negative ones included
          Timeouts,       \* kinds of timeouts that callers pass
          EvictionLists,  \* the lists passed to replace_model_reservations
          Capacity,       \* capacity_
          NoRequest       \* a thread that is not waiting has no request

ASSUME ThreadsAssumption == IsFiniteSet(Threads)
ASSUME NamesAssumption == IsFiniteSet(ValidNames)
ASSUME SizesAssumption == Sizes \subseteq Nat
ASSUME PrioritiesAssumption == Priorities \subseteq Int
ASSUME CostsAssumption == Costs \subseteq Int
ASSUME TimeoutsAssumption ==
    Timeouts \subseteq {"negative", "zero", "finite", "infinite"}
ASSUME EvictionListsAssumption == EvictionLists \subseteq Seq(ModelIds)
ASSUME CapacityAssumption == Capacity \in Nat \ {0}

VARIABLES used,                \* used_
          reservations,        \* reservations_
          model_reservations,  \* model_reservations_
          pending,             \* the threads whose requests are in pending_
          older,               \* the order of the pending sequence numbers
          request,             \* each waiting thread's PendingRequest ...
          result,              \* ... with its completed flag and its result
          pc,
          expired,             \* pending threads whose deadline has passed
          reply                \* the error of the call that has returned

ledger == <<used, reservations, model_reservations>>
queue == <<pending, older, request, result, pc, expired>>
vars == <<ledger, queue, reply>>

-----------------------------------------------------------------------------

ErrorCodes == {"None", "InvalidName", "InvalidSize", "DuplicateClient",
               "UnknownClient", "InsufficientMemory", "Timeout",
               "InvalidTimeout"}

Requests == [name : ValidNames, bytes : Sizes \ {0}, priority : Priorities,
             cost : Costs \cap Nat, timed : BOOLEAN]

Free == Capacity - used

Unlocked == \A t \in Threads : pc[t] # "locked"

\* t can run inside its acquire: it holds the mutex, or it can take it.
Running(t) ==
    \/ pc[t] = "locked"
    \/ pc[t] = "notified" /\ Unlocked

\* Mutants: the name of a waiting request, or of a reservation, is forgotten.
HasReservedName(name) == name \in DOMAIN reservations
HasPendingName(name) == \E t \in pending : request[t].name = name

HasName(name) ==
    \/ name \in DOMAIN reservations
    \/ \E t \in pending : request[t].name = name

Init ==
    /\ used = 0
    /\ reservations = NoEntries
    /\ model_reservations = NoEntries
    /\ pending = {}
    /\ older = {}
    /\ request = [t \in Threads |-> NoRequest]
    /\ result = [t \in Threads |-> "Idle"]
    /\ pc = [t \in Threads |-> "idle"]
    /\ expired = {}
    /\ reply = "NoReply"

-----------------------------------------------------------------------------
(***************************************************************************)
(* grant_waiters_locked.                                                   *)
(***************************************************************************)

\* The entries that granting ws adds to the reservations in held.
EmplaceGranted(held, req, ws) ==
    [n \in DOMAIN held \cup {req[t].name : t \in ws} |->
        IF n \in DOMAIN held
        THEN held[n]
        ELSE req[CHOOSE t \in ws : req[t].name = n].bytes]

\* Mutant: the waiters that were settled are not woken.
NotifyNobody == pc

\* condition_.notify_all()
NotifyAll == [t \in Threads |-> IF pc[t] = "waiting" THEN "notified" ELSE pc[t]]

\* Mutant: no look at the deadlines before memory is handed out.
GrantWaitersLate(held, taken, ws, req, ord) ==
    \E granted \in GrantSets(req, ord, ws, Capacity - taken) :
        /\ reservations' = EmplaceGranted(held, req, granted)
        /\ used' = taken + Demand(req, granted)
        /\ pending' = ws \ granted
        /\ older' = ord \cap (pending' \X pending')
        /\ result' = [t \in Threads |->
                        IF t \in granted THEN "None"
                        ELSE IF t \in ws THEN "Waiting"
                        ELSE result[t]]
        /\ request' = req
        /\ expired' = expired \ granted

\* One pass over the waiters ws, with the client reservations in held and
\* taken bytes in use: drop the expired ones, grant what fits, wake everyone.
\* The caller says what becomes of pc, which is NotifyAll but for the caller.
GrantWaiters(held, taken, ws, req, ord) ==
    \E granted \in GrantSets(req, ord, ws \ expired, Capacity - taken) :
        /\ reservations' = EmplaceGranted(held, req, granted)
        /\ used' = taken + Demand(req, granted)
        /\ pending' = ws \ (expired \cup granted)
        /\ older' = ord \cap (pending' \X pending')
        /\ result' = [t \in Threads |->
                        IF t \in granted THEN "None"
                        ELSE IF t \in ws \cap expired THEN "Timeout"
                        ELSE IF t \in ws THEN "Waiting"
                        ELSE result[t]]
        /\ request' = req
        /\ expired' = {}

\* The pass of an operation that is called by no waiting thread.
GrantAfter(held, taken) ==
    /\ GrantWaiters(held, taken, pending, request, older)
    /\ pc' = NotifyAll

\* A call that returns without having changed anything.
Refuse(error) ==
    /\ reply' = error
    /\ UNCHANGED <<ledger, queue>>

-----------------------------------------------------------------------------
(***************************************************************************)
(* Operations that never wait.                                             *)
(***************************************************************************)

TryAcquireError(name, bytes) ==
    IF name \notin ValidNames THEN "InvalidName"
    ELSE IF bytes = 0 THEN "InvalidSize"
    ELSE IF HasName(name) THEN "DuplicateClient"
    ELSE IF bytes > Free THEN "InsufficientMemory"
    ELSE "None"

Reserve(name, bytes) ==
    /\ GrantAfter(Emplace(reservations, name, bytes), used + bytes)
    /\ reply' = "None"
    /\ UNCHANGED model_reservations

TryAcquire(name, bytes) ==
    LET error == TryAcquireError(name, bytes) IN
    /\ Unlocked
    /\ \/ error # "None" /\ Refuse(error)
       \/ error = "None" /\ Reserve(name, bytes)

ReleaseError(name, held) ==
    IF name \notin ValidNames THEN "InvalidName"
    ELSE IF name \notin DOMAIN held THEN "UnknownClient"
    ELSE "None"

\* Mutant: the memory is freed and the waiters are left alone.
ReleaseNoPass(name) ==
    LET error == ReleaseError(name, reservations) IN
    /\ Unlocked
    /\ \/ error # "None" /\ Refuse(error)
       \/ /\ error = "None"
          /\ reservations' = Erase(reservations, {name})
          /\ used' = used - reservations[name]
          /\ reply' = "None"
          /\ UNCHANGED <<model_reservations, queue>>

Release(name) ==
    LET error == ReleaseError(name, reservations) IN
    /\ Unlocked
    /\ \/ error # "None" /\ Refuse(error)
       \/ /\ error = "None"
          /\ GrantAfter(Erase(reservations, {name}), used - reservations[name])
          /\ reply' = "None"
          /\ UNCHANGED model_reservations

AcquireModelError(id, bytes) ==
    IF id \notin ValidNames THEN "InvalidName"
    ELSE IF bytes = 0 THEN "InvalidSize"
    ELSE IF id \in DOMAIN model_reservations THEN "DuplicateClient"
    ELSE IF bytes > Free THEN "InsufficientMemory"
    ELSE "None"

AcquireModel(id, bytes) ==
    LET error == AcquireModelError(id, bytes) IN
    /\ Unlocked
    /\ \/ error # "None" /\ Refuse(error)
       \/ /\ error = "None"
          /\ model_reservations' = Emplace(model_reservations, id, bytes)
          /\ used' = used + bytes
          /\ reply' = "None"
          /\ UNCHANGED <<reservations, queue>>

ReleaseModel(id) ==
    LET error == ReleaseError(id, model_reservations) IN
    /\ Unlocked
    /\ \/ error # "None" /\ Refuse(error)
       \/ /\ error = "None"
          /\ model_reservations' = Erase(model_reservations, {id})
          /\ GrantAfter(reservations, used - model_reservations[id])
          /\ reply' = "None"

\* The bytes held by the models in evictions, a set of resident ones.
EvictedBytes(evictions) ==
    Total([id \in evictions |-> model_reservations[id]])

ReplaceError(evictions, id, bytes) ==
    LET evicted == {evictions[i] : i \in DOMAIN evictions} IN
    IF id \notin ValidNames THEN "InvalidName"
    ELSE IF bytes = 0 THEN "InvalidSize"
    ELSE IF id \in DOMAIN model_reservations THEN "DuplicateClient"
    ELSE IF \E i, j \in DOMAIN evictions : i # j /\ evictions[i] = evictions[j]
         THEN "DuplicateClient"
    ELSE IF ~ evicted \subseteq DOMAIN model_reservations THEN "UnknownClient"
    ELSE IF bytes > Free + EvictedBytes(evicted) THEN "InsufficientMemory"
    ELSE "None"

ReplaceModelReservations(evictions, id, bytes) ==
    LET error == ReplaceError(evictions, id, bytes)
        evicted == {evictions[i] : i \in DOMAIN evictions}
    IN
    /\ Unlocked
    /\ \/ error # "None" /\ Refuse(error)
       \/ /\ error = "None"
          /\ model_reservations' =
                Emplace(Erase(model_reservations, evicted), id, bytes)
          /\ GrantAfter(reservations, used - EvictedBytes(evicted) + bytes)
          /\ reply' = "None"

CancelWaiters ==
    /\ Unlocked
    /\ result' = [t \in Threads |-> IF t \in pending THEN "Timeout" ELSE result[t]]
    /\ pending' = {}
    /\ older' = {}
    /\ expired' = {}
    /\ pc' = NotifyAll
    /\ reply' = "NoReply"
    /\ UNCHANGED <<ledger, request>>

-----------------------------------------------------------------------------
(***************************************************************************)
(* acquire.                                                                *)
(***************************************************************************)

\* Mutant: a request for no bytes is let through.
AcquireErrorZeroBytes(name, bytes, timeout) ==
    IF name \notin ValidNames THEN "InvalidName"
    ELSE IF timeout = "negative" THEN "InvalidTimeout"
    ELSE IF bytes > Capacity THEN "InsufficientMemory"
    ELSE IF timeout = "zero" THEN TryAcquireError(name, bytes)
    ELSE IF HasName(name) THEN "DuplicateClient"
    ELSE "None"

\* The part of acquire that needs neither memory nor a place in the queue.
AcquireError(name, bytes, timeout) ==
    IF name \notin ValidNames THEN "InvalidName"
    ELSE IF bytes = 0 THEN "InvalidSize"
    ELSE IF timeout = "negative" THEN "InvalidTimeout"
    ELSE IF bytes > Capacity THEN "InsufficientMemory"
    ELSE IF timeout = "zero" THEN TryAcquireError(name, bytes)
    ELSE IF HasName(name) THEN "DuplicateClient"
    ELSE "None"

\* Nobody waits and there is room: take it without a pass over the queue.
AcquireAtOnce(name, bytes) ==
    /\ pending = {}
    /\ bytes <= Free
    /\ reservations' = Emplace(reservations, name, bytes)
    /\ used' = used + bytes
    /\ reply' = "None"
    /\ UNCHANGED <<model_reservations, queue>>

\* Join the queue and make a first pass over it, still holding the mutex.
Enqueue(t, req) ==
    /\ pc[t] = "idle"
    /\ GrantWaiters(reservations, used, pending \cup {t},
                    [request EXCEPT ![t] = req], older \cup (pending \X {t}))
    /\ pc' = [NotifyAll EXCEPT ![t] = "locked"]
    /\ reply' = "NoReply"
    /\ UNCHANGED model_reservations

\* A negative cost is only looked at, and refused, on the way to the queue.
Acquire(t, name, bytes, priority, cost, timeout) ==
    LET error == AcquireError(name, bytes, timeout)
        mustQueue == ~ (pending = {} /\ bytes <= Free)
        req == [name |-> name, bytes |-> bytes, priority |-> priority,
                cost |-> cost, timed |-> timeout = "finite"]
    IN
    /\ Unlocked
    /\ \/ error # "None" /\ Refuse(error)
       \/ error = "None" /\ timeout = "zero" /\ Reserve(name, bytes)
       \/ /\ error = "None"
          /\ timeout # "zero"
          /\ \/ AcquireAtOnce(name, bytes)
             \/ mustQueue /\ cost < 0 /\ Refuse("InvalidTimeout")
             \/ mustQueue /\ cost >= 0 /\ Enqueue(t, req)

\* One turn of the loop: another pass, then wait unless it has settled t.
TryAgain(t) ==
    /\ Running(t)
    /\ result[t] = "Waiting"
    /\ GrantWaiters(reservations, used, pending, request, older)
    /\ pc' = [NotifyAll EXCEPT ![t] =
                IF t \in pending' THEN "waiting" ELSE "locked"]
    /\ reply' = "NoReply"
    /\ UNCHANGED model_reservations

\* Mutant: the request that timed out stays in the queue.
WaitTimeoutKeeps(t) ==
    /\ Unlocked
    /\ pc[t] \in {"waiting", "notified"}
    /\ t \in expired
    /\ result[t] = "Waiting"
    /\ result' = [result EXCEPT ![t] = "Timeout"]
    /\ pc' = [pc EXCEPT ![t] = "locked"]
    /\ reply' = "NoReply"
    /\ UNCHANGED <<ledger, pending, older, expired, request>>

\* Mutant: condition_.wait for every request, with or without a deadline.
WaitForever(t) == FALSE /\ UNCHANGED vars

\* wait_until reports a timeout to a thread whose request nobody completed.
WaitTimeout(t) ==
    /\ Unlocked
    /\ pc[t] \in {"waiting", "notified"}
    /\ t \in expired
    /\ result[t] = "Waiting"
    /\ pending' = pending \ {t}
    /\ older' = older \cap (pending' \X pending')
    /\ expired' = expired \ {t}
    /\ result' = [result EXCEPT ![t] = "Timeout"]
    /\ pc' = [pc EXCEPT ![t] = "locked"]
    /\ reply' = "NoReply"
    /\ UNCHANGED <<ledger, request>>

\* The loop ends because the request is completed: return its result.
Return(t) ==
    /\ Running(t)
    /\ result[t] \in {"None", "Timeout"}
    /\ reply' = result[t]
    /\ pc' = [pc EXCEPT ![t] = "idle"]
    /\ result' = [result EXCEPT ![t] = "Idle"]
    /\ request' = [request EXCEPT ![t] = NoRequest]
    /\ UNCHANGED <<ledger, pending, older, expired>>

\* A condition variable may wake a thread for no reason.
SpuriousWakeup(t) ==
    /\ pc[t] = "waiting"
    /\ pc' = [pc EXCEPT ![t] = "notified"]
    /\ reply' = "NoReply"
    /\ UNCHANGED <<ledger, pending, older, request, result, expired>>

\* The clock reaches the deadline of a pending request, mutex held or not.
DeadlinePasses(t) ==
    /\ t \in pending \ expired
    /\ request[t].timed
    /\ expired' = expired \cup {t}
    /\ reply' = "NoReply"
    /\ UNCHANGED <<ledger, pending, older, request, result, pc>>

-----------------------------------------------------------------------------

ClientCall ==
    \E name \in Names :
        \/ \E bytes \in Sizes : TryAcquire(name, bytes)
        \/ Release(name)

ModelCall ==
    \E id \in ModelIds :
        \/ \E bytes \in Sizes :
              \/ AcquireModel(id, bytes)
              \/ \E evictions \in EvictionLists :
                    ReplaceModelReservations(evictions, id, bytes)
        \/ ReleaseModel(id)

AcquireCall(t) ==
    \E name \in Names, bytes \in Sizes, priority \in Priorities,
       cost \in Costs, timeout \in Timeouts :
          Acquire(t, name, bytes, priority, cost, timeout)

Waiter(t) == TryAgain(t) \/ WaitTimeout(t) \/ Return(t)

WaiterEvent(t) == SpuriousWakeup(t) \/ DeadlinePasses(t)

Next ==
    \/ ClientCall
    \/ ModelCall
    \/ CancelWaiters
    \/ \E t \in Threads : AcquireCall(t) \/ Waiter(t) \/ WaiterEvent(t)

Spec == Init /\ [][Next]_vars

\* A woken thread gets the mutex in the end, also if others keep taking it,
\* and time goes on.
Fairness ==
    \A t \in Threads :
        /\ SF_vars(Waiter(t))
        /\ WF_vars(DeadlinePasses(t))

FairSpec == Spec /\ Fairness

-----------------------------------------------------------------------------

\* The state is well formed.
TypeOK ==
    /\ used \in Nat
    /\ reservations \in Ledgers(ValidNames, Sizes \ {0})
    /\ model_reservations \in Ledgers(ValidNames, Sizes \ {0})
    /\ pending \subseteq Threads
    /\ older \subseteq pending \X pending
    /\ request \in [Threads -> Requests \cup {NoRequest}]
    /\ result \in [Threads -> {"Idle", "Waiting", "None", "Timeout"}]
    /\ pc \in [Threads -> {"idle", "locked", "waiting", "notified"}]
    /\ expired \subseteq pending
    /\ reply \in ErrorCodes \cup {"NoReply"}

\* The running total used_ is the sum of what is reserved, whoever reserved it
\* and in whatever order grants, timeouts and releases came, and it never
\* exceeds the capacity: capacity_ - used_ cannot wrap around.
Accounting ==
    /\ used = Total(reservations) + Total(model_reservations)
    /\ used <= Capacity

\* A name waits at most once and not while it holds memory.  Otherwise the
\* emplace of a grant would keep the old entry while used_ still grows.
PendingNamesFree ==
    \A t \in pending :
        /\ request[t].name \notin DOMAIN reservations
        /\ \A u \in pending : request[u].name = request[t].name => u = t

\* Whenever the mutex is free, memory that a waiter could use is not left
\* idle: no release, timeout, eviction or cancellation forgets a waiter.
WorkConserving ==
    \A t \in pending : request[t].bytes > Free

\* pending_ and the completed flags agree: a request is in pending_ exactly
\* while its thread is in the loop of acquire and has no result yet.
NoOrphanWaiter ==
    \A t \in Threads :
        /\ t \in pending <=> result[t] = "Waiting"
        /\ t \in pending => pc[t] # "idle" /\ request[t] \in Requests

\* A thread whose request has been completed by another one does not sleep on:
\* it has been notified since, or it holds the mutex.
NoLostWakeup ==
    \A t \in Threads :
        result[t] \in {"None", "Timeout"} => pc[t] \in {"notified", "locked"}

\* How a pending request ends, whoever ends it: if it is granted, its deadline
\* had not passed and the step enters exactly its bytes under its name; if it
\* times out, nothing is reserved under its name.
SettlementStep ==
    \A t \in pending :
        LET name == request[t].name IN
        /\ result'[t] = "None" =>
              /\ t \notin expired
              /\ name \notin DOMAIN reservations
              /\ name \in DOMAIN reservations'
              /\ reservations'[name] = request[t].bytes
        /\ result'[t] = "Timeout" => name \notin DOMAIN reservations'

\* Every step settles requests that way.
Settlement == [][SettlementStep]_vars

\* A pass grants v ahead of a waiter w that comes before it in the scheduling
\* order only if w would not have fitted even without v.
PriorityStep ==
    \A v \in pending, w \in pending \cap pending' :
        /\ result'[v] = "None"
        /\ Precedes(request, older, w, v)
        => request[w].bytes > Free' + request[v].bytes

\* No step of the manager inverts priorities.
NoPriorityInversion == [][PriorityStep]_vars

\* Every waiting acquire with a deadline returns, and so does every one that
\* was granted or cancelled.
Answered ==
    \A t \in Threads :
        \/ result[t] \in {"None", "Timeout"}
        \/ t \in pending /\ request[t].timed
        ~> pc[t] = "idle"

-----------------------------------------------------------------------------

\* The requests in pending_, by name.
Asking ==
    [n \in {request[t].name : t \in pending} |->
        request[CHOOSE t \in pending : request[t].name = n].bytes]

broker == INSTANCE Broker WITH Names <- ValidNames, Amounts <- Sizes \ {0},
                               Supply <- Capacity, held <- reservations,
                               models <- model_reservations, waiting <- Asking

\* Threads, deadlines, wakeups and passes over the queue implement the broker
\* that has none of them: every step grants what was asked for, frees only
\* what was let go, and leaves no memory idle that a waiter could use.
ImplementsBroker == broker!Spec

=============================================================================
