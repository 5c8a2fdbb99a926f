------------------------ MODULE ResourceManagerProofs ------------------------
(***************************************************************************)
(* The safety of ResourceManager for every set of threads, names, sizes,   *)
(* priorities and costs, every capacity and both scheduling policies.      *)
(***************************************************************************)
EXTENDS ResourceManager, MemoryProofs

\* Whoever a grant passes over does not fit in what the grant leaves.
LEMMA PassedOverDoesNotFit ==
    ASSUME NEW req, NEW ord, NEW ws, NEW free \in Int, NEW granted,
           WellFormed(req, ws),
           granted \in GrantSets(req, ord, ws, free)
    PROVE  /\ granted \subseteq ws
           /\ WellFormed(req, granted)
           /\ Demand(req, granted) \in Nat
           /\ Demand(req, granted) <= free
           /\ \A w \in ws \ granted :
                 req[w].bytes > free - Demand(req, granted)
<1>1. /\ granted \subseteq ws
      /\ IsGrant(req, ord, ws, free, granted)
  BY DEF GrantSets
<1>2. WellFormed(req, granted)
  BY <1>1, DemandSplit
<1>3. Demand(req, granted) \in Nat
  BY <1>2, DemandIsLedger
<1>4. ASSUME NEW w \in ws \ granted
      PROVE  req[w].bytes > free - Demand(req, granted)
  <2> DEFINE before == {v \in granted : Precedes(req, ord, v, w)}
  <2>1. req[w].bytes + Demand(req, before) > free
    BY <1>1 DEF IsGrant
  <2>2. before \subseteq granted
    OBVIOUS
  <2> HIDE DEF before
  <2>3. Demand(req, before) <= Demand(req, granted)
    BY <1>2, <2>2, DemandMonotone
  <2>4. Demand(req, before) \in Nat
    BY <1>2, <2>2, DemandSplit, DemandIsLedger
  <2>5. req[w].bytes \in Nat
    BY DEF WellFormed
  <2> QED BY <1>3, <2>1, <2>3, <2>4, <2>5
<1> QED BY <1>1, <1>2, <1>3, <1>4 DEF IsGrant

Amounts == Sizes \ {0}

\* Amounts are natural numbers.
LEMMA AmountsType == Amounts \subseteq Nat
BY SizesAssumption DEF Amounts

\* What a queue of waiters has to satisfy for a pass over it to be sound: its
\* requests are well formed and their names are free and pairwise different.
SoundQueue(held, ws, req) ==
    /\ ws \subseteq Threads
    /\ \A t \in ws :
          /\ req[t] \in Requests
          /\ req[t].name \notin DOMAIN held
          /\ \A u \in ws : req[u].name = req[t].name => u = t

\* Waiters of a sound queue have a demand.
LEMMA SoundQueueWellFormed ==
    ASSUME NEW held, NEW ws, NEW req, SoundQueue(held, ws, req)
    PROVE  WellFormed(req, ws)
<1>1. IsFiniteSet(ws)
  BY ThreadsAssumption, FS_Subset DEF SoundQueue
<1>2. \A t \in ws : req[t].bytes \in Nat
  BY SizesAssumption DEF SoundQueue, Requests
<1> QED BY <1>1, <1>2 DEF WellFormed

\* The client and model reservations are ledgers.
LEMMA HeldIsLedger ==
    ASSUME NEW held \in Ledgers(ValidNames, Amounts)
    PROVE  IsLedger(held)
BY AmountsType, NamesAssumption, LedgersAreLedgers

\* Granting the waiters of a sound queue enters each one's bytes.
LEMMA GrantedEntry ==
    ASSUME NEW held, NEW ws, NEW req, SoundQueue(held, ws, req), NEW t \in ws
    PROVE  EmplaceGranted(held, req, ws)[req[t].name] = req[t].bytes
<1> DEFINE c == CHOOSE u \in ws : req[u].name = req[t].name
<1>1. c \in ws /\ req[c].name = req[t].name
  OBVIOUS
<1>2. c = t /\ req[t].name \notin DOMAIN held
  BY <1>1 DEF SoundQueue
<1>3. EmplaceGranted(held, req, ws)[req[t].name] = req[c].bytes
  BY <1>2 DEF EmplaceGranted
<1> QED BY <1>2, <1>3

\* Granting the waiters of a sound queue enters each of them once: what is
\* held grows by exactly what they demand.
LEMMA TotalEmplaceGranted ==
    ASSUME NEW held \in Ledgers(ValidNames, Amounts), NEW ws, NEW req,
           SoundQueue(held, ws, req)
    PROVE  /\ EmplaceGranted(held, req, ws) \in Ledgers(ValidNames, Amounts)
           /\ Total(EmplaceGranted(held, req, ws)) = Total(held) + Demand(req, ws)
           /\ DOMAIN EmplaceGranted(held, req, ws) =
                 DOMAIN held \cup {req[t].name : t \in ws}
<1> DEFINE e == EmplaceGranted(held, req, ws)
           D == DOMAIN held
           new == {req[t].name : t \in ws}
           f == [t \in ws |-> req[t].bytes]
           h == [n \in new |-> e[n]]
           key == [t \in ws |-> req[t].name]
<1>1. DOMAIN e = D \cup new
  BY DEF EmplaceGranted
<1>2. \A n \in D : e[n] = held[n]
  BY DEF EmplaceGranted
<1>3. new \cap D = {}
  BY DEF SoundQueue
<1>4. \A t \in ws : e[req[t].name] = req[t].bytes
  BY GrantedEntry
<1>5. e \in Ledgers(ValidNames, Amounts)
  <2>1. D \in SUBSET ValidNames /\ \A n \in D : held[n] \in Amounts
    BY DEF Ledgers
  <2>2. \A t \in ws : req[t].name \in ValidNames /\ req[t].bytes \in Amounts
    BY DEF SoundQueue, Requests, Amounts
  <2>3. e \in [D \cup new -> Amounts]
    <3>1. e = [n \in D \cup new |-> e[n]]
      BY DEF EmplaceGranted
    <3>2. ASSUME NEW n \in new PROVE e[n] \in Amounts
      BY <1>4, <2>2
    <3> HIDE DEF e, new
    <3> QED BY <1>2, <2>1, <3>1, <3>2
  <2> HIDE DEF e
  <2> QED BY <2>1, <2>2, <2>3 DEF Ledgers
<1>6. IsLedger(e) /\ IsLedger(held) /\ IsLedger(f)
  BY <1>5, HeldIsLedger, SoundQueueWellFormed, DemandIsLedger
<1>7. [n \in D |-> e[n]] = held
  BY <1>2, <1>6 DEF IsLedger
<1>8. (DOMAIN e) \ D = new
  BY <1>1, <1>3
<1>9. Total(e) = Total(held) + Total(h)
  <2>1. Total(e) = Total([n \in D |-> e[n]]) + Total([n \in DOMAIN e \ D |-> e[n]])
    <3> HIDE DEF e
    <3> QED BY <1>1, <1>6, TotalSplit
  <2> QED BY <1>7, <1>8, <2>1
<1>10. Total(h) = Total(f)
  <2>1. key \in Bijection(DOMAIN f, DOMAIN h)
    <3>1. key \in Injection(ws, new)
      BY DEF Injection, IsInjective, SoundQueue
    <3>2. key \in Surjection(ws, new)
      BY DEF Surjection
    <3> QED BY <3>1, <3>2 DEF Bijection
  <2>2. \A t \in DOMAIN f : h[key[t]] = f[t]
    BY <1>4
  <2> HIDE DEF f, h, key
  <2> QED BY <1>6, <2>1, <2>2, TotalRename
<1> QED BY <1>1, <1>5, <1>9, <1>10 DEF Demand

-----------------------------------------------------------------------------

\* Of two pending requests at most one is older than the other.
ArrivalOrder == \A t, u \in pending : <<t, u>> \in older => <<u, t>> \notin older

\* The inductive invariant: every named safety invariant of ResourceManager,
\* and the order of arrivals.
IInv ==
    /\ TypeOK
    /\ Accounting
    /\ PendingNamesFree
    /\ WorkConserving
    /\ NoOrphanWaiter
    /\ NoLostWakeup
    /\ ArrivalOrder

\* The queue of a reachable state is sound, and dropping reservations or
\* waiters keeps it so.
LEMMA QueueIsSound ==
    ASSUME IInv, NEW held, DOMAIN held \subseteq DOMAIN reservations
    PROVE  SoundQueue(held, pending, request)
BY DEF IInv, TypeOK, PendingNamesFree, NoOrphanWaiter, SoundQueue

\* What a pass of grant_waiters_locked over a sound queue establishes.
LEMMA PassEffect ==
    ASSUME NEW held \in Ledgers(ValidNames, Amounts), NEW taken \in Nat,
           NEW ws, NEW req, NEW ord, NEW rest \in Nat,
           SoundQueue(held, ws, req),
           taken = Total(held) + rest, taken <= Capacity,
           GrantWaiters(held, taken, ws, req, ord)
    PROVE  /\ reservations' \in Ledgers(ValidNames, Amounts)
           /\ used' \in Nat
           /\ used' = Total(reservations') + rest
           /\ used' <= Capacity
           /\ pending' \subseteq ws
           /\ older' \subseteq ord \cap (pending' \X pending')
           /\ request' = req
           /\ expired' = {}
           /\ SoundQueue(reservations', pending', req)
           /\ \A t \in pending' : req[t].bytes > Capacity - used'
           /\ result' \in [Threads -> {result[t] : t \in Threads}
                                       \cup {"None", "Timeout", "Waiting"}]
           /\ \A t \in pending' : result'[t] = "Waiting"
           /\ \A t \in ws \ pending' : result'[t] \in {"None", "Timeout"}
           /\ \A t \in Threads \ ws : result'[t] = result[t]
<1> DEFINE live == ws \ expired
<1>1. PICK granted \in GrantSets(req, ord, live, Capacity - taken) :
        /\ reservations' = EmplaceGranted(held, req, granted)
        /\ used' = taken + Demand(req, granted)
        /\ pending' = ws \ (expired \cup granted)
        /\ older' = ord \cap (pending' \X pending')
        /\ result' = [t \in Threads |->
                        IF t \in granted THEN "None"
                        ELSE IF t \in ws \cap expired THEN "Timeout"
                        ELSE IF t \in ws THEN "Waiting"
                        ELSE result[t]]
        /\ request' = req
        /\ expired' = {}
  BY DEF GrantWaiters
<1>2. SoundQueue(held, live, req) /\ live \subseteq ws
  BY DEF SoundQueue
<1>3. Capacity - taken \in Int
  BY CapacityAssumption
<1>4. WellFormed(req, live)
  BY <1>2, SoundQueueWellFormed
<1>5. /\ granted \subseteq live
      /\ Demand(req, granted) \in Nat
      /\ Demand(req, granted) <= Capacity - taken
      /\ \A w \in live \ granted :
            req[w].bytes > Capacity - taken - Demand(req, granted)
  <2> HIDE DEF live
  <2> QED BY <1>3, <1>4, PassedOverDoesNotFit
<1>6. SoundQueue(held, granted, req)
  BY <1>2, <1>5 DEF SoundQueue
<1>7. /\ reservations' \in Ledgers(ValidNames, Amounts)
      /\ Total(reservations') = Total(held) + Demand(req, granted)
      /\ DOMAIN reservations' = DOMAIN held \cup {req[t].name : t \in granted}
  BY <1>1, <1>6, TotalEmplaceGranted
<1>8. Total(held) \in Nat
  BY HeldIsLedger, TotalNat
<1>9. /\ used' \in Nat
      /\ used' = Total(reservations') + rest
      /\ used' <= Capacity
  BY <1>1, <1>5, <1>7, <1>8, CapacityAssumption
<1>10. pending' = live \ granted /\ granted \subseteq ws
  BY <1>1, <1>5
<1>11. SoundQueue(reservations', pending', req)
  BY <1>7, <1>10 DEF SoundQueue
<1>12. \A t \in pending' : req[t].bytes > Capacity - used'
  <2> SUFFICES ASSUME NEW t \in pending' PROVE req[t].bytes > Capacity - used'
    OBVIOUS
  <2>1. req[t].bytes > Capacity - taken - Demand(req, granted)
    BY <1>5, <1>10
  <2>2. Capacity - used' = Capacity - taken - Demand(req, granted)
    BY <1>1, <1>5, CapacityAssumption
  <2> QED BY <2>1, <2>2
<1>13. ws \subseteq Threads
  BY DEF SoundQueue
<1>14. result' \in [Threads -> {result[t] : t \in Threads}
                               \cup {"None", "Timeout", "Waiting"}]
  BY <1>1
<1>15. /\ \A t \in pending' : result'[t] = "Waiting"
       /\ \A t \in ws \ pending' : result'[t] \in {"None", "Timeout"}
       /\ \A t \in Threads \ ws : result'[t] = result[t]
  BY <1>1, <1>10, <1>13
<1>16. older' \subseteq ord \cap (pending' \X pending')
  BY <1>1
<1> QED BY <1>1, <1>7, <1>9, <1>10, <1>11, <1>12, <1>14, <1>15, <1>16

\* A pass keeps the invariant if its caller hands it a sound queue and exact
\* accounts, and leaves nobody asleep whose request the pass has completed.
LEMMA PassKeepsIInv ==
    ASSUME IInv,
           NEW held \in Ledgers(ValidNames, Amounts), NEW taken \in Nat,
           NEW ws, NEW req \in [Threads -> Requests \cup {NoRequest}], NEW ord,
           SoundQueue(held, ws, req),
           model_reservations' \in Ledgers(ValidNames, Amounts),
           taken = Total(held) + Total(model_reservations'),
           taken <= Capacity,
           pending \subseteq ws,
           \A t, u \in ws : <<t, u>> \in ord => <<u, t>> \notin ord,
           reply' \in ErrorCodes \cup {"NoReply"},
           pc' \in [Threads -> {"idle", "locked", "waiting", "notified"}],
           \A t \in ws : pc'[t] # "idle",
           \A t \in ws \ pending' : pc'[t] \in {"notified", "locked"},
           \A t \in Threads \ ws :
              result[t] \in {"None", "Timeout"} => pc'[t] \in {"notified", "locked"},
           GrantWaiters(held, taken, ws, req, ord)
    PROVE  IInv'
<1> DEFINE rest == Total(model_reservations')
<1>1. rest \in Nat
  BY HeldIsLedger, TotalNat
<1>2. taken = Total(held) + rest
  OBVIOUS
<1> HIDE DEF rest
<1>3. /\ reservations' \in Ledgers(ValidNames, Amounts)
      /\ used' \in Nat
      /\ used' = Total(reservations') + rest
      /\ used' <= Capacity
      /\ pending' \subseteq ws
      /\ older' \subseteq ord \cap (pending' \X pending')
      /\ request' = req
      /\ expired' = {}
      /\ SoundQueue(reservations', pending', req)
      /\ \A t \in pending' : req[t].bytes > Capacity - used'
      /\ result' \in [Threads -> {result[t] : t \in Threads}
                                  \cup {"None", "Timeout", "Waiting"}]
      /\ \A t \in pending' : result'[t] = "Waiting"
      /\ \A t \in ws \ pending' : result'[t] \in {"None", "Timeout"}
      /\ \A t \in Threads \ ws : result'[t] = result[t]
  BY <1>1, <1>2, PassEffect
<1>4. ws \subseteq Threads
  BY DEF SoundQueue
<1>5. TypeOK'
  BY <1>3, <1>4 DEF IInv, TypeOK, Amounts
<1>6. Accounting'
  BY <1>3 DEF Accounting, rest
<1>7. PendingNamesFree'
  BY <1>3 DEF SoundQueue, PendingNamesFree
<1>8. WorkConserving'
  BY <1>3 DEF WorkConserving, Free
<1>9. NoOrphanWaiter'
  <2> SUFFICES ASSUME NEW t \in Threads
               PROVE  /\ t \in pending' <=> result'[t] = "Waiting"
                      /\ t \in pending' => pc'[t] # "idle" /\ request'[t] \in Requests
    BY DEF NoOrphanWaiter
  <2>1. CASE t \in pending'
    BY <1>3, <2>1 DEF SoundQueue
  <2>2. CASE t \in ws \ pending'
    BY <1>3, <2>2
  <2>3. CASE t \notin ws
    BY <1>3, <2>3 DEF IInv, NoOrphanWaiter
  <2> QED BY <1>3, <2>1, <2>2, <2>3
<1>10. NoLostWakeup'
  <2> SUFFICES ASSUME NEW t \in Threads, result'[t] \in {"None", "Timeout"}
               PROVE  pc'[t] \in {"notified", "locked"}
    BY DEF NoLostWakeup
  <2>1. CASE t \in pending'
    BY <1>3, <2>1
  <2>2. CASE t \in ws \ pending'
    BY <2>2
  <2>3. CASE t \notin ws
    BY <1>3, <2>3
  <2> QED BY <2>1, <2>2, <2>3
<1>11. ArrivalOrder'
  BY <1>3 DEF ArrivalOrder
<1> QED BY <1>5, <1>6, <1>7, <1>8, <1>9, <1>10, <1>11 DEF IInv

\* The invariant gives exact accounts of two ledgers.
LEMMA Accounts ==
    ASSUME IInv
    PROVE  /\ IsLedger(reservations) /\ IsLedger(model_reservations)
           /\ reservations \in Ledgers(ValidNames, Amounts)
           /\ model_reservations \in Ledgers(ValidNames, Amounts)
           /\ Total(reservations) \in Nat /\ Total(model_reservations) \in Nat
           /\ used \in Nat
           /\ used = Total(reservations) + Total(model_reservations)
           /\ used <= Capacity
BY HeldIsLedger, TotalNat DEF IInv, TypeOK, Accounting, Amounts

\* Emplacing and erasing entries keeps the type of a reservation ledger.
LEMMA LedgerUpdates ==
    ASSUME NEW held \in Ledgers(ValidNames, Amounts)
    PROVE  /\ \A n \in ValidNames, amount \in Amounts :
                Emplace(held, n, amount) \in Ledgers(ValidNames, Amounts)
           /\ \A S : Erase(held, S) \in Ledgers(ValidNames, Amounts)
BY LedgersOps

\* notify_all moves every waiting thread on and no other.
LEMMA NotifyAllEffect ==
    ASSUME IInv
    PROVE  /\ NotifyAll \in [Threads -> {"idle", "locked", "waiting", "notified"}]
           /\ \A t \in Threads :
                /\ NotifyAll[t] # "waiting"
                /\ pc[t] # "waiting" => NotifyAll[t] = pc[t]
                /\ pc[t] # "idle" => NotifyAll[t] \in {"notified", "locked"}
BY DEF IInv, TypeOK, NotifyAll

\* The pass of an operation that does not wait keeps the invariant.
LEMMA GrantAfterKeepsIInv ==
    ASSUME IInv,
           NEW held \in Ledgers(ValidNames, Amounts), NEW taken \in Nat,
           SoundQueue(held, pending, request),
           model_reservations' \in Ledgers(ValidNames, Amounts),
           taken = Total(held) + Total(model_reservations'),
           taken <= Capacity,
           reply' \in ErrorCodes \cup {"NoReply"},
           GrantAfter(held, taken)
    PROVE  IInv'
<1>1. request \in [Threads -> Requests \cup {NoRequest}]
  BY DEF IInv, TypeOK
<1>2. GrantWaiters(held, taken, pending, request, older) /\ pc' = NotifyAll
  BY DEF GrantAfter
<1>3. pending \subseteq Threads /\ \A t \in pending : pc[t] # "idle"
  BY DEF IInv, TypeOK, NoOrphanWaiter
<1>4. /\ pc' \in [Threads -> {"idle", "locked", "waiting", "notified"}]
      /\ \A t \in pending : pc'[t] # "idle" /\ pc'[t] \in {"notified", "locked"}
  BY <1>2, <1>3, NotifyAllEffect
<1>5. ASSUME NEW t \in Threads \ pending, result[t] \in {"None", "Timeout"}
      PROVE  pc'[t] \in {"notified", "locked"}
  BY <1>2, <1>5, NotifyAllEffect DEF IInv, NoLostWakeup
<1>6. \A t, u \in pending : <<t, u>> \in older => <<u, t>> \notin older
  BY DEF IInv, ArrivalOrder
<1> QED BY <1>1, <1>2, <1>4, <1>5, <1>6, PassKeepsIInv

\* A call that is refused keeps the invariant.
LEMMA RefuseKeepsIInv ==
    ASSUME IInv, NEW error \in ErrorCodes, Refuse(error)
    PROVE  IInv'
BY DEF Refuse, IInv, TypeOK, Accounting, PendingNamesFree, WorkConserving,
       NoOrphanWaiter, NoLostWakeup, ArrivalOrder, Free, ledger, queue

\* A reservation made without waiting keeps the invariant.
LEMMA ReserveKeepsIInv ==
    ASSUME IInv, NEW name, NEW bytes \in Sizes,
           TryAcquireError(name, bytes) = "None", Reserve(name, bytes)
    PROVE  IInv'
<1> DEFINE held == Emplace(reservations, name, bytes)
<1>1. /\ name \in ValidNames /\ bytes # 0 /\ ~ HasName(name) /\ ~ bytes > Free
  BY DEF TryAcquireError
<1>2. bytes \in Amounts /\ bytes \in Nat
  BY <1>1, SizesAssumption DEF Amounts
<1>3. held \in Ledgers(ValidNames, Amounts)
  BY <1>1, <1>2, Accounts, LedgerUpdates
<1>4. DOMAIN held = DOMAIN reservations \cup {name}
  BY DEF Emplace
<1>5. SoundQueue(held, pending, request)
  <2>1. SoundQueue(reservations, pending, request)
    BY QueueIsSound
  <2>2. name \notin DOMAIN reservations /\ \A t \in pending : request[t].name # name
    BY <1>1 DEF HasName
  <2> QED BY <1>4, <2>1, <2>2 DEF SoundQueue
<1>6. Total(held) = Total(reservations) + bytes
  BY <1>1, <1>2, Accounts, TotalEmplace DEF HasName
<1>7. used + bytes \in Nat /\ used + bytes <= Capacity
  BY <1>1, <1>2, Accounts, CapacityAssumption DEF Free
<1>8. model_reservations' = model_reservations
  BY DEF Reserve
<1>9. used + bytes = Total(held) + Total(model_reservations')
  BY <1>2, <1>6, <1>8, Accounts
<1>10. GrantAfter(held, used + bytes) /\ reply' \in ErrorCodes
  BY DEF Reserve, ErrorCodes
<1> HIDE DEF held
<1> QED BY <1>3, <1>5, <1>7, <1>8, <1>9, <1>10, Accounts, GrantAfterKeepsIInv

-----------------------------------------------------------------------------
(***************************************************************************)
(* One lemma per operation: the step keeps the invariant.                  *)
(***************************************************************************)

\* The operations answer with error codes.
LEMMA ErrorsType ==
    /\ \A name, bytes : TryAcquireError(name, bytes) \in ErrorCodes
    /\ \A name, held : ReleaseError(name, held) \in ErrorCodes
    /\ \A id, bytes : AcquireModelError(id, bytes) \in ErrorCodes
    /\ \A evictions, id, bytes : ReplaceError(evictions, id, bytes) \in ErrorCodes
    /\ \A name, bytes, timeout : AcquireError(name, bytes, timeout) \in ErrorCodes
BY DEF ErrorCodes, TryAcquireError, ReleaseError, AcquireModelError, ReplaceError,
       AcquireError

\* try_acquire keeps the invariant.
LEMMA TryAcquireKeepsIInv ==
    ASSUME IInv, NEW name, NEW bytes \in Sizes, TryAcquire(name, bytes)
    PROVE  IInv'
<1>1. CASE Refuse(TryAcquireError(name, bytes))
  BY <1>1, ErrorsType, RefuseKeepsIInv
<1>2. CASE TryAcquireError(name, bytes) = "None" /\ Reserve(name, bytes)
  BY <1>2, ReserveKeepsIInv
<1> QED BY <1>1, <1>2 DEF TryAcquire

\* release keeps the invariant.
LEMMA ReleaseKeepsIInv ==
    ASSUME IInv, NEW name, Release(name)
    PROVE  IInv'
<1>1. CASE Refuse(ReleaseError(name, reservations))
  BY <1>1, ErrorsType, RefuseKeepsIInv
<1>2. CASE ReleaseError(name, reservations) = "None"
           /\ GrantAfter(Erase(reservations, {name}), used - reservations[name])
           /\ reply' = "None" /\ UNCHANGED model_reservations
  <2> DEFINE held == Erase(reservations, {name})
             taken == used - reservations[name]
  <2>1. name \in DOMAIN reservations
    BY <1>2 DEF ReleaseError
  <2>2. /\ Total(held) = Total(reservations) - reservations[name]
        /\ reservations[name] \in Nat
        /\ reservations[name] <= Total(reservations)
    BY <2>1, Accounts, TotalEraseOne
  <2>3. held \in Ledgers(ValidNames, Amounts)
    BY Accounts, LedgerUpdates
  <2>4. SoundQueue(held, pending, request)
    BY QueueIsSound DEF Erase, Restrict
  <2>5. /\ taken \in Nat /\ taken <= Capacity
        /\ taken = Total(held) + Total(model_reservations')
    BY <1>2, <2>2, Accounts, CapacityAssumption
  <2>6. reply' \in ErrorCodes /\ GrantAfter(held, taken)
    BY <1>2 DEF ErrorCodes
  <2>7. model_reservations' \in Ledgers(ValidNames, Amounts)
    BY <1>2, Accounts
  <2> HIDE DEF held, taken
  <2> QED BY <2>3, <2>4, <2>5, <2>6, <2>7, GrantAfterKeepsIInv
<1> QED BY <1>1, <1>2 DEF Release

\* acquire_model keeps the invariant: it makes no pass, but it only takes
\* memory, so no waiter fits that did not fit before.
LEMMA AcquireModelKeepsIInv ==
    ASSUME IInv, NEW id, NEW bytes \in Sizes, AcquireModel(id, bytes)
    PROVE  IInv'
<1>1. CASE Refuse(AcquireModelError(id, bytes))
  BY <1>1, ErrorsType, RefuseKeepsIInv
<1>2. CASE AcquireModelError(id, bytes) = "None"
           /\ model_reservations' = Emplace(model_reservations, id, bytes)
           /\ used' = used + bytes /\ reply' = "None"
           /\ UNCHANGED <<reservations, queue>>
  <2>1. id \in ValidNames /\ bytes # 0 /\ id \notin DOMAIN model_reservations
        /\ ~ bytes > Free
    BY <1>2 DEF AcquireModelError
  <2>2. bytes \in Amounts /\ bytes \in Nat
    BY <2>1, SizesAssumption DEF Amounts
  <2>3. model_reservations' \in Ledgers(ValidNames, Amounts)
    BY <1>2, <2>1, <2>2, Accounts, LedgerUpdates
  <2>4. Total(model_reservations') = Total(model_reservations) + bytes
    BY <1>2, <2>1, <2>2, Accounts, TotalEmplace
  <2>5. used' \in Nat /\ used' <= Capacity /\ used <= used'
    BY <1>2, <2>1, <2>2, Accounts, CapacityAssumption DEF Free
  <2>6. TypeOK'
    BY <1>2, <2>3, <2>5 DEF IInv, TypeOK, queue, ErrorCodes, Amounts
  <2>7. Accounting'
    BY <1>2, <2>2, <2>4, <2>5, Accounts DEF Accounting
  <2>8. WorkConserving'
    <3> SUFFICES ASSUME NEW t \in pending PROVE request[t].bytes > Capacity - used'
      BY <1>2 DEF WorkConserving, Free, queue
    <3>1. request[t].bytes > Capacity - used
      BY DEF IInv, WorkConserving, Free
    <3>2. request[t].bytes \in Nat
      BY SizesAssumption DEF IInv, NoOrphanWaiter, TypeOK, Requests
    <3> QED BY <2>5, <3>1, <3>2, Accounts, CapacityAssumption
  <2>9. PendingNamesFree' /\ NoOrphanWaiter' /\ NoLostWakeup' /\ ArrivalOrder'
    BY <1>2 DEF IInv, PendingNamesFree, NoOrphanWaiter, NoLostWakeup, ArrivalOrder,
                queue
  <2> QED BY <2>6, <2>7, <2>8, <2>9 DEF IInv
<1> QED BY <1>1, <1>2 DEF AcquireModel

\* release_model keeps the invariant.
LEMMA ReleaseModelKeepsIInv ==
    ASSUME IInv, NEW id, ReleaseModel(id)
    PROVE  IInv'
<1>1. CASE Refuse(ReleaseError(id, model_reservations))
  BY <1>1, ErrorsType, RefuseKeepsIInv
<1>2. CASE ReleaseError(id, model_reservations) = "None"
           /\ model_reservations' = Erase(model_reservations, {id})
           /\ GrantAfter(reservations, used - model_reservations[id])
           /\ reply' = "None"
  <2> DEFINE taken == used - model_reservations[id]
  <2>1. id \in DOMAIN model_reservations
    BY <1>2 DEF ReleaseError
  <2>2. /\ Total(model_reservations') =
              Total(model_reservations) - model_reservations[id]
        /\ model_reservations[id] \in Nat
        /\ model_reservations[id] <= Total(model_reservations)
    BY <1>2, <2>1, Accounts, TotalEraseOne
  <2>3. model_reservations' \in Ledgers(ValidNames, Amounts)
    BY <1>2, Accounts, LedgerUpdates
  <2>4. SoundQueue(reservations, pending, request)
    BY QueueIsSound
  <2>5. /\ taken \in Nat /\ taken <= Capacity
        /\ taken = Total(reservations) + Total(model_reservations')
    BY <2>2, Accounts, CapacityAssumption
  <2>6. reply' \in ErrorCodes /\ GrantAfter(reservations, taken)
    BY <1>2 DEF ErrorCodes
  <2> HIDE DEF taken
  <2> QED BY <2>3, <2>4, <2>5, <2>6, Accounts, GrantAfterKeepsIInv
<1> QED BY <1>1, <1>2 DEF ReleaseModel

\* replace_model_reservations keeps the invariant.
LEMMA ReplaceKeepsIInv ==
    ASSUME IInv, NEW evictions, NEW id, NEW bytes \in Sizes,
           ReplaceModelReservations(evictions, id, bytes)
    PROVE  IInv'
<1> DEFINE evicted == {evictions[i] : i \in DOMAIN evictions}
           gone == EvictedBytes(evicted)
           left == Erase(model_reservations, evicted)
           taken == used - gone + bytes
<1>1. CASE Refuse(ReplaceError(evictions, id, bytes))
  BY <1>1, ErrorsType, RefuseKeepsIInv
<1>2. CASE ReplaceError(evictions, id, bytes) = "None"
           /\ model_reservations' = Emplace(left, id, bytes)
           /\ GrantAfter(reservations, taken)
           /\ reply' = "None"
  <2>1. /\ id \in ValidNames /\ bytes # 0 /\ id \notin DOMAIN model_reservations
        /\ evicted \subseteq DOMAIN model_reservations
        /\ ~ bytes > Free + gone
    BY <1>2 DEF ReplaceError
  <2>2. bytes \in Amounts /\ bytes \in Nat
    BY <2>1, SizesAssumption DEF Amounts
  <2>3. /\ IsLedger(left)
        /\ Total(left) = Total(model_reservations) - gone
        /\ gone \in Nat /\ gone <= Total(model_reservations)
    <3> HIDE DEF evicted
    <3> QED BY <2>1, Accounts, TotalErase DEF EvictedBytes
  <2>4. left \in Ledgers(ValidNames, Amounts)
    BY Accounts, LedgerUpdates
  <2>5. id \notin DOMAIN left
    BY <2>1 DEF Erase, Restrict
  <2> HIDE DEF evicted, gone, left
  <2>6. model_reservations' \in Ledgers(ValidNames, Amounts)
    BY <1>2, <2>1, <2>2, <2>4, LedgerUpdates
  <2>7. Total(model_reservations') = Total(left) + bytes
    BY <1>2, <2>2, <2>3, <2>5, TotalEmplace
  <2>8. /\ taken \in Nat /\ taken <= Capacity
        /\ taken = Total(reservations) + Total(model_reservations')
    BY <2>1, <2>2, <2>3, <2>7, Accounts, CapacityAssumption DEF Free
  <2>9. SoundQueue(reservations, pending, request)
    BY QueueIsSound
  <2>10. reply' \in ErrorCodes /\ GrantAfter(reservations, taken)
    BY <1>2 DEF ErrorCodes
  <2> HIDE DEF taken
  <2> QED BY <2>6, <2>8, <2>9, <2>10, Accounts, GrantAfterKeepsIInv
<1> QED BY <1>1, <1>2 DEF ReplaceModelReservations

\* cancel_waiters keeps the invariant.
LEMMA CancelKeepsIInv ==
    ASSUME IInv, CancelWaiters
    PROVE  IInv'
<1>1. TypeOK' /\ Accounting' /\ PendingNamesFree' /\ WorkConserving'
  BY NotifyAllEffect
     DEF CancelWaiters, IInv, TypeOK, Accounting, PendingNamesFree,
         WorkConserving, ledger
<1>2. NoOrphanWaiter'
  BY DEF CancelWaiters, IInv, TypeOK, NoOrphanWaiter
<1>3. NoLostWakeup'
  <2> SUFFICES ASSUME NEW t \in Threads, result'[t] \in {"None", "Timeout"}
               PROVE  pc'[t] \in {"notified", "locked"}
    BY DEF NoLostWakeup
  <2>1. pc[t] # "idle"
    BY DEF CancelWaiters, IInv, NoLostWakeup, NoOrphanWaiter
  <2> QED BY <2>1, NotifyAllEffect DEF CancelWaiters
<1>4. ArrivalOrder'
  BY DEF CancelWaiters, ArrivalOrder
<1> QED BY <1>1, <1>2, <1>3, <1>4 DEF IInv

\* An acquire that finds nobody waiting and enough room keeps the invariant.
LEMMA AcquireAtOnceKeepsIInv ==
    ASSUME IInv, NEW name \in ValidNames, NEW bytes \in Amounts, ~ HasName(name),
           AcquireAtOnce(name, bytes)
    PROVE  IInv'
<1>1. /\ pending = {} /\ bytes <= Free
      /\ reservations' = Emplace(reservations, name, bytes)
      /\ used' = used + bytes /\ reply' = "None"
      /\ UNCHANGED <<model_reservations, queue>>
  BY DEF AcquireAtOnce
<1>2. bytes \in Nat
  BY AmountsType
<1>3. reservations' \in Ledgers(ValidNames, Amounts)
  BY <1>1, Accounts, LedgerUpdates
<1>4. Total(reservations') = Total(reservations) + bytes
  BY <1>1, <1>2, Accounts, TotalEmplace DEF HasName
<1>5. used' \in Nat /\ used' <= Capacity
  BY <1>1, <1>2, Accounts, CapacityAssumption DEF Free
<1>6. TypeOK'
  BY <1>1, <1>3, <1>5 DEF IInv, TypeOK, queue, ErrorCodes, Amounts
<1>7. Accounting'
  BY <1>1, <1>2, <1>4, <1>5, Accounts DEF Accounting
<1>8. PendingNamesFree' /\ WorkConserving'
  BY <1>1 DEF PendingNamesFree, WorkConserving, queue
<1>9. NoOrphanWaiter' /\ NoLostWakeup' /\ ArrivalOrder'
  BY <1>1 DEF IInv, NoOrphanWaiter, NoLostWakeup, ArrivalOrder, queue
<1> QED BY <1>6, <1>7, <1>8, <1>9 DEF IInv

\* The queue with a newcomer in it is sound.
LEMMA EnqueueIsSound ==
    ASSUME IInv, NEW t \in Threads, NEW req \in Requests, ~ HasName(req.name)
    PROVE  SoundQueue(reservations, pending \cup {t}, [request EXCEPT ![t] = req])
<1> DEFINE r == [request EXCEPT ![t] = req]
<1>1. request \in [Threads -> Requests \cup {NoRequest}] /\ pending \subseteq Threads
  BY DEF IInv, TypeOK
<1>2. r[t] = req /\ \A u \in Threads \ {t} : r[u] = request[u]
  BY <1>1
<1>3. SoundQueue(reservations, pending, request)
  BY QueueIsSound
<1>4. req.name \notin DOMAIN reservations /\ \A u \in pending : request[u].name # req.name
  BY DEF HasName
<1> HIDE DEF r
<1>5. SoundQueue(reservations, pending \cup {t}, r)
  BY <1>1, <1>2, <1>3, <1>4 DEF SoundQueue
<1> QED BY <1>5 DEF r

\* An acquire that joins the queue keeps the invariant.
LEMMA EnqueueKeepsIInv ==
    ASSUME IInv, NEW t \in Threads, NEW req \in Requests, ~ HasName(req.name),
           Enqueue(t, req)
    PROVE  IInv'
<1> DEFINE ws == pending \cup {t}
           r == [request EXCEPT ![t] = req]
<1>1. /\ GrantWaiters(reservations, used, ws, r, older \cup (pending \X {t}))
      /\ pc' = [NotifyAll EXCEPT ![t] = "locked"]
      /\ reply' = "NoReply" /\ model_reservations' = model_reservations
  BY DEF Enqueue
<1>2. r \in [Threads -> Requests \cup {NoRequest}]
  BY DEF IInv, TypeOK
<1>3. SoundQueue(reservations, ws, r)
  BY EnqueueIsSound
<1>4. pending \subseteq Threads /\ \A u \in pending : pc[u] # "idle"
  BY DEF IInv, TypeOK, NoOrphanWaiter
<1>5. /\ pc' \in [Threads -> {"idle", "locked", "waiting", "notified"}]
      /\ pc'[t] = "locked" /\ \A u \in Threads \ {t} : pc'[u] = NotifyAll[u]
  BY <1>1, NotifyAllEffect
<1>6. \A u \in ws : pc'[u] # "idle" /\ pc'[u] \in {"notified", "locked"}
  BY <1>4, <1>5, NotifyAllEffect
<1>7. ASSUME NEW u \in Threads \ ws, result[u] \in {"None", "Timeout"}
      PROVE  pc'[u] \in {"notified", "locked"}
  BY <1>5, <1>7, NotifyAllEffect DEF IInv, NoLostWakeup
<1>8. pending \subseteq ws
  OBVIOUS
<1>9. \A u, v \in ws : LET ord == older \cup (pending \X {t})
                       IN  <<u, v>> \in ord => <<v, u>> \notin ord
  <2>1. t \notin pending
    BY DEF Enqueue, IInv, NoOrphanWaiter
  <2>2. /\ older \subseteq pending \X pending
        /\ \A u, v \in pending : <<u, v>> \in older => <<v, u>> \notin older
    BY DEF IInv, TypeOK, ArrivalOrder
  <2> QED BY <2>1, <2>2
<1> HIDE DEF ws, r
<1> QED BY <1>1, <1>2, <1>3, <1>5, <1>6, <1>7, <1>8, <1>9, Accounts, PassKeepsIInv

\* acquire, until it returns or waits, keeps the invariant.
LEMMA AcquireKeepsIInv ==
    ASSUME IInv, NEW t \in Threads, NEW name, NEW bytes \in Sizes,
           NEW priority \in Priorities, NEW cost \in Costs, NEW timeout,
           Acquire(t, name, bytes, priority, cost, timeout)
    PROVE  IInv'
<1> DEFINE error == AcquireError(name, bytes, timeout)
           req == [name |-> name, bytes |-> bytes, priority |-> priority,
                   cost |-> cost, timed |-> timeout = "finite"]
<1>1. CASE error # "None" /\ Refuse(error)
  BY <1>1, ErrorsType, RefuseKeepsIInv
<1>2. CASE error = "None" /\ timeout = "zero" /\ Reserve(name, bytes)
  <2>1. TryAcquireError(name, bytes) = "None"
    BY <1>2 DEF AcquireError
  <2> QED BY <1>2, <2>1, ReserveKeepsIInv
<1>3. CASE Refuse("InvalidTimeout")
  BY <1>3, RefuseKeepsIInv DEF ErrorCodes
<1>4. ASSUME error = "None", timeout # "zero"
      PROVE  name \in ValidNames /\ bytes \in Amounts /\ ~ HasName(name)
  BY <1>4 DEF AcquireError, Amounts
<1>5. CASE error = "None" /\ timeout # "zero" /\ AcquireAtOnce(name, bytes)
  BY <1>4, <1>5, AcquireAtOnceKeepsIInv
<1>6. CASE error = "None" /\ timeout # "zero" /\ cost >= 0 /\ Enqueue(t, req)
  <2>1. req \in Requests /\ req.name = name
    BY <1>4, <1>6, CostsAssumption DEF Requests, Amounts
  <2> HIDE DEF req
  <2> QED BY <1>4, <1>6, <2>1, EnqueueKeepsIInv
<1> QED BY <1>1, <1>2, <1>3, <1>5, <1>6 DEF Acquire

\* A turn of the loop of a waiting acquire keeps the invariant.
LEMMA TryAgainKeepsIInv ==
    ASSUME IInv, NEW t \in Threads, TryAgain(t)
    PROVE  IInv'
<1>1. /\ GrantWaiters(reservations, used, pending, request, older)
      /\ pc' = [NotifyAll EXCEPT ![t] = IF t \in pending' THEN "waiting" ELSE "locked"]
      /\ reply' = "NoReply" /\ model_reservations' = model_reservations
      /\ result[t] = "Waiting"
  BY DEF TryAgain
<1>2. request \in [Threads -> Requests \cup {NoRequest}]
  BY DEF IInv, TypeOK
<1>3. SoundQueue(reservations, pending, request)
  BY QueueIsSound
<1>4. pending \subseteq Threads /\ t \in pending /\ \A u \in pending : pc[u] # "idle"
  BY <1>1 DEF IInv, TypeOK, NoOrphanWaiter
<1>5. /\ pc' \in [Threads -> {"idle", "locked", "waiting", "notified"}]
      /\ pc'[t] # "idle" /\ (t \notin pending' => pc'[t] = "locked")
      /\ \A u \in Threads \ {t} : pc'[u] = NotifyAll[u]
  BY <1>1, NotifyAllEffect
<1>6. \A u \in pending : pc'[u] # "idle"
  BY <1>4, <1>5, NotifyAllEffect
<1>7. \A u \in pending \ pending' : pc'[u] \in {"notified", "locked"}
  BY <1>4, <1>5, NotifyAllEffect
<1>8. ASSUME NEW u \in Threads \ pending, result[u] \in {"None", "Timeout"}
      PROVE  pc'[u] \in {"notified", "locked"}
  BY <1>4, <1>5, <1>8, NotifyAllEffect DEF IInv, NoLostWakeup
<1>9. \A u, v \in pending : <<u, v>> \in older => <<v, u>> \notin older
  BY DEF IInv, ArrivalOrder
<1> QED BY <1>1, <1>2, <1>3, <1>5, <1>6, <1>7, <1>8, <1>9, Accounts, PassKeepsIInv

\* A wait that times out keeps the invariant.
LEMMA WaitTimeoutKeepsIInv ==
    ASSUME IInv, NEW t \in Threads, WaitTimeout(t)
    PROVE  IInv'
<1>1. TypeOK'
  BY DEF WaitTimeout, IInv, TypeOK, ledger
<1>2. Accounting' /\ PendingNamesFree' /\ WorkConserving'
  BY DEF WaitTimeout, IInv, Accounting, PendingNamesFree, WorkConserving, Free, ledger
<1>3. NoOrphanWaiter' /\ NoLostWakeup' /\ ArrivalOrder'
  BY DEF WaitTimeout, IInv, TypeOK, NoOrphanWaiter, NoLostWakeup,
         ArrivalOrder
<1> QED BY <1>1, <1>2, <1>3 DEF IInv

\* The return of a waiting acquire keeps the invariant.
LEMMA ReturnKeepsIInv ==
    ASSUME IInv, NEW t \in Threads, Return(t)
    PROVE  IInv'
<1>1. t \notin pending
  BY DEF Return, IInv, NoOrphanWaiter
<1>2. TypeOK'
  BY DEF Return, IInv, TypeOK, ErrorCodes, ledger
<1>3. \A u \in pending : request'[u] = request[u]
  BY <1>1 DEF Return, IInv, TypeOK
<1>4. Accounting' /\ PendingNamesFree' /\ WorkConserving'
  BY <1>3 DEF Return, IInv, Accounting, PendingNamesFree, WorkConserving, Free, ledger
<1>5. NoOrphanWaiter' /\ NoLostWakeup' /\ ArrivalOrder'
  BY <1>1, <1>3 DEF Return, IInv, TypeOK, NoOrphanWaiter, NoLostWakeup,
         ArrivalOrder
<1> QED BY <1>2, <1>4, <1>5 DEF IInv

\* A spurious wakeup keeps the invariant.
LEMMA SpuriousWakeupKeepsIInv ==
    ASSUME IInv, NEW t \in Threads, SpuriousWakeup(t)
    PROVE  IInv'
<1>1. TypeOK'
  BY DEF SpuriousWakeup, IInv, TypeOK, ledger
<1>2. Accounting' /\ PendingNamesFree' /\ WorkConserving'
  BY DEF SpuriousWakeup, IInv, Accounting, PendingNamesFree, WorkConserving, Free, ledger
<1>3. NoOrphanWaiter' /\ NoLostWakeup' /\ ArrivalOrder'
  BY DEF SpuriousWakeup, IInv, TypeOK, NoOrphanWaiter, NoLostWakeup,
         ArrivalOrder
<1> QED BY <1>1, <1>2, <1>3 DEF IInv

\* The passing of a deadline keeps the invariant.
LEMMA DeadlinePassesKeepsIInv ==
    ASSUME IInv, NEW t \in Threads, DeadlinePasses(t)
    PROVE  IInv'
<1>1. TypeOK'
  BY DEF DeadlinePasses, IInv, TypeOK, ledger
<1>2. Accounting' /\ PendingNamesFree' /\ WorkConserving'
  BY DEF DeadlinePasses, IInv, Accounting, PendingNamesFree, WorkConserving, Free, ledger
<1>3. NoOrphanWaiter' /\ NoLostWakeup' /\ ArrivalOrder'
  BY DEF DeadlinePasses, IInv, TypeOK, NoOrphanWaiter, NoLostWakeup,
         ArrivalOrder
<1> QED BY <1>1, <1>2, <1>3 DEF IInv

-----------------------------------------------------------------------------

\* The manager starts in the invariant.
LEMMA InitIInv == Init => IInv
<1> SUFFICES ASSUME Init PROVE IInv
  OBVIOUS
<1>1. NoEntries \in Ledgers(ValidNames, Sizes \ {0})
  BY NoEntriesType
<1>2. Total(NoEntries) = 0
  BY TotalEmpty DEF NoEntries
<1>3. TypeOK
  BY <1>1 DEF Init, TypeOK
<1>4. Accounting
  BY <1>2, CapacityAssumption DEF Init, Accounting
<1>5. /\ PendingNamesFree /\ WorkConserving /\ NoOrphanWaiter /\ NoLostWakeup
      /\ ArrivalOrder
  BY DEF Init, PendingNamesFree, WorkConserving, NoOrphanWaiter, NoLostWakeup,
         ArrivalOrder
<1> QED BY <1>3, <1>4, <1>5 DEF IInv

\* Every step of the manager keeps the invariant.
LEMMA NextIInv == IInv /\ [Next]_vars => IInv'
<1> SUFFICES ASSUME IInv, [Next]_vars PROVE IInv'
  OBVIOUS
<1>1. CASE ClientCall
  BY <1>1, TryAcquireKeepsIInv, ReleaseKeepsIInv DEF ClientCall
<1>2. CASE ModelCall
  BY <1>2, AcquireModelKeepsIInv, ReplaceKeepsIInv, ReleaseModelKeepsIInv DEF ModelCall
<1>3. CASE CancelWaiters
  BY <1>3, CancelKeepsIInv
<1>4. ASSUME NEW t \in Threads, AcquireCall(t) PROVE IInv'
  BY <1>4, AcquireKeepsIInv DEF AcquireCall
<1>5. ASSUME NEW t \in Threads, Waiter(t) PROVE IInv'
  BY <1>5, TryAgainKeepsIInv, WaitTimeoutKeepsIInv, ReturnKeepsIInv DEF Waiter
<1>6. ASSUME NEW t \in Threads, SpuriousWakeup(t) \/ DeadlinePasses(t) PROVE IInv'
  BY <1>6, SpuriousWakeupKeepsIInv, DeadlinePassesKeepsIInv
<1>7. CASE UNCHANGED vars
  BY <1>7 DEF vars, ledger, queue, IInv, TypeOK, Accounting, PendingNamesFree,
              WorkConserving, NoOrphanWaiter, NoLostWakeup, ArrivalOrder, Free
<1> QED BY <1>1, <1>2, <1>3, <1>4, <1>5, <1>6, <1>7 DEF Next, WaiterEvent

\* The conjunction of the manager's invariants is an invariant.
THEOREM Invariance == Spec => []IInv
BY InitIInv, NextIInv, PTL DEF Spec

\* The manager's state stays well formed.
THEOREM TypeCorrect == Spec => []TypeOK
<1>1. IInv => TypeOK
  BY DEF IInv
<1> QED BY <1>1, Invariance, PTL

\* used_ is always the sum of the client and model reservations, and never
\* more than the capacity.
THEOREM AccountingCorrect == Spec => []Accounting
<1>1. IInv => Accounting
  BY DEF IInv
<1> QED BY <1>1, Invariance, PTL

\* No waiting acquire ever fits in the free memory.
THEOREM WorkConservation == Spec => []WorkConserving
<1>1. IInv => WorkConserving
  BY DEF IInv
<1> QED BY <1>1, Invariance, PTL

\* A name waits at most once, and never while it holds memory.
THEOREM NamesCorrect == Spec => []PendingNamesFree
<1>1. IInv => PendingNamesFree
  BY DEF IInv
<1> QED BY <1>1, Invariance, PTL

\* pending_ holds exactly the requests of the threads in the loop of acquire
\* that have no result yet, whoever settled the others.
THEOREM QueueCorrect == Spec => []NoOrphanWaiter
<1>1. IInv => NoOrphanWaiter
  BY DEF IInv
<1> QED BY <1>1, Invariance, PTL

\* Nobody whose request has been completed by another thread is left asleep.
THEOREM WakeupCorrect == Spec => []NoLostWakeup
<1>1. IInv => NoLostWakeup
  BY DEF IInv
<1> QED BY <1>1, Invariance, PTL

-----------------------------------------------------------------------------
(***************************************************************************)
(* The action properties.                                                  *)
(***************************************************************************)

\* The scheduling order does not put two requests each before the other.
LEMMA PrecedesAsymmetric ==
    ASSUME NEW req, NEW ord, NEW v, NEW w, req[v] \in Requests, req[w] \in Requests,
           <<w, v>> \in ord => <<v, w>> \notin ord,
           Precedes(req, ord, w, v)
    PROVE  ~ Precedes(req, ord, v, w)
<1>1. /\ req[v].priority \in Int /\ req[w].priority \in Int
      /\ req[v].cost \in Int /\ req[w].cost \in Int
  BY PrioritiesAssumption, CostsAssumption DEF Requests
<1> QED BY <1>1 DEF Precedes

\* A pass settles requests as it should and inverts no priorities.
LEMMA PassActions ==
    ASSUME IInv,
           NEW held \in Ledgers(ValidNames, Amounts), NEW taken \in Nat,
           NEW ws, NEW req, NEW ord,
           SoundQueue(held, ws, req), pending \subseteq ws,
           \A t \in pending : req[t] = request[t],
           \A t, u \in pending : <<t, u>> \in ord <=> <<t, u>> \in older,
           GrantWaiters(held, taken, ws, req, ord)
    PROVE  SettlementStep /\ PriorityStep
<1> DEFINE live == ws \ expired
<1>1. PICK granted \in GrantSets(req, ord, live, Capacity - taken) :
        /\ reservations' = EmplaceGranted(held, req, granted)
        /\ used' = taken + Demand(req, granted)
        /\ pending' = ws \ (expired \cup granted)
        /\ result' = [t \in Threads |->
                        IF t \in granted THEN "None"
                        ELSE IF t \in ws \cap expired THEN "Timeout"
                        ELSE IF t \in ws THEN "Waiting"
                        ELSE result[t]]
  BY DEF GrantWaiters
<1>2. SoundQueue(held, live, req) /\ ws \subseteq Threads
  BY DEF SoundQueue
<1>3. WellFormed(req, live)
  BY <1>2, SoundQueueWellFormed
<1>4. /\ granted \subseteq live /\ WellFormed(req, granted)
      /\ Demand(req, granted) \in Nat
  <2>1. Capacity - taken \in Int
    BY CapacityAssumption
  <2> HIDE DEF live
  <2> QED BY <1>3, <2>1, PassedOverDoesNotFit
<1>5. SoundQueue(held, granted, req)
  BY <1>2, <1>4 DEF SoundQueue
<1>6. /\ DOMAIN reservations' = DOMAIN held \cup {req[t].name : t \in granted}
      /\ \A t \in granted : reservations'[req[t].name] = req[t].bytes
  <2>1. DOMAIN EmplaceGranted(held, req, granted) =
          DOMAIN held \cup {req[t].name : t \in granted}
    BY <1>5, TotalEmplaceGranted
  <2>2. ASSUME NEW t \in granted
        PROVE  EmplaceGranted(held, req, granted)[req[t].name] = req[t].bytes
    BY <1>5, GrantedEntry
  <2> QED BY <1>1, <2>1, <2>2
<1>7. /\ \A t \in ws : result'[t] = "None" <=> t \in granted
      /\ \A t \in ws : result'[t] = "Timeout" => t \notin granted
  BY <1>1, <1>2
<1>8. SettlementStep
  <2> SUFFICES ASSUME NEW t \in pending
               PROVE  LET name == request[t].name IN
                      /\ result'[t] = "None" =>
                            /\ t \notin expired
                            /\ name \notin DOMAIN reservations
                            /\ name \in DOMAIN reservations'
                            /\ reservations'[name] = request[t].bytes
                      /\ result'[t] = "Timeout" => name \notin DOMAIN reservations'
    BY DEF SettlementStep
  <2>1. request[t].name \notin DOMAIN reservations
    BY DEF IInv, PendingNamesFree
  <2>2. t \in ws /\ req[t] = request[t]
    OBVIOUS
  <2>3. CASE t \in granted
    BY <1>4, <1>6, <1>7, <2>1, <2>2, <2>3
  <2>4. CASE t \notin granted
    <3>1. req[t].name \notin DOMAIN held
          /\ \A u \in granted : req[u].name # req[t].name
      BY <1>4, <2>2, <2>4 DEF SoundQueue
    <3>2. request[t].name \notin DOMAIN reservations'
      BY <1>6, <2>2, <3>1
    <3> QED BY <1>7, <2>2, <2>4, <3>2
  <2> QED BY <2>3, <2>4
<1>9. PriorityStep
  <2> SUFFICES ASSUME NEW v \in pending, NEW w \in pending \cap pending',
                      result'[v] = "None", Precedes(request, older, w, v)
               PROVE  request[w].bytes > Free' + request[v].bytes
    BY DEF PriorityStep
  <2> DEFINE before == {x \in granted : Precedes(req, ord, x, w)}
             others == granted \ {v}
  <2>1. v \in granted /\ w \in live \ granted /\ req[v] = request[v] /\ req[w] = request[w]
    BY <1>1, <1>7
  <2>2. req[v] \in Requests /\ req[w] \in Requests
    BY <2>1 DEF SoundQueue
  <2>3. v \notin before
    <3>1. <<w, v>> \in ord => <<v, w>> \notin ord
      BY DEF IInv, ArrivalOrder
    <3>2. Precedes(req, ord, w, v)
      BY <2>1 DEF Precedes
    <3> QED BY <2>2, <3>1, <3>2, PrecedesAsymmetric
  <2>4. req[w].bytes + Demand(req, before) > Capacity - taken
    BY <2>1 DEF GrantSets, IsGrant
  <2>5. before \subseteq others
    BY <2>1, <2>3
  <2>6. req[v].bytes \in Nat /\ req[w].bytes \in Nat
    BY <2>2, SizesAssumption DEF Requests
  <2> HIDE DEF before, others
  <2>7. /\ WellFormed(req, others)
        /\ Demand(req, granted) = Demand(req, others) + req[v].bytes
    BY <1>4, <2>1, DemandRemove DEF others
  <2>8. /\ Demand(req, before) <= Demand(req, others)
        /\ Demand(req, before) \in Nat /\ Demand(req, others) \in Nat
    BY <2>5, <2>7, DemandMonotone, DemandSplit, DemandIsLedger
  <2>9. Free' = Capacity - (taken + Demand(req, granted))
    BY <1>1 DEF Free
  <2> QED BY <1>4, <2>1, <2>4, <2>6, <2>7, <2>8, <2>9, CapacityAssumption
<1> QED BY <1>8, <1>9

\* A step that completes no pending request satisfies both properties, and so
\* does one that only times some out and reserves nothing.
LEMMA QuietActions ==
    ASSUME IInv, reservations' = reservations,
           \A t \in pending : result'[t] \in {"Waiting", "Timeout"}
    PROVE  SettlementStep /\ PriorityStep
<1>1. \A t \in pending : request[t].name \notin DOMAIN reservations
                         /\ result'[t] # "None"
  BY DEF IInv, PendingNamesFree
<1> QED BY <1>1 DEF SettlementStep, PriorityStep

\* Both properties hold of the pass of an operation that does not wait.
LEMMA GrantAfterActions ==
    ASSUME IInv, NEW held \in Ledgers(ValidNames, Amounts), NEW taken \in Nat,
           SoundQueue(held, pending, request), GrantAfter(held, taken)
    PROVE  SettlementStep /\ PriorityStep
BY PassActions DEF GrantAfter

\* Every step of the manager satisfies both properties.
LEMMA NextActions == IInv /\ [Next]_vars => [SettlementStep /\ PriorityStep]_vars
<1> SUFFICES ASSUME IInv, Next PROVE SettlementStep /\ PriorityStep
  OBVIOUS
<1>1. \A t \in pending : result[t] = "Waiting" /\ t \in Threads
  BY DEF IInv, TypeOK, NoOrphanWaiter
<1>2. result \in [Threads -> {"Idle", "Waiting", "None", "Timeout"}]
  BY DEF IInv, TypeOK
<1>3. SoundQueue(reservations, pending, request)
  BY QueueIsSound
<1>4. ASSUME NEW error, Refuse(error) PROVE SettlementStep /\ PriorityStep
  BY <1>1, <1>4, QuietActions DEF Refuse, ledger, queue
<1>5. ASSUME NEW name, NEW bytes \in Sizes, TryAcquireError(name, bytes) = "None",
             Reserve(name, bytes)
      PROVE  SettlementStep /\ PriorityStep
  <2> DEFINE held == Emplace(reservations, name, bytes)
  <2>1. name \in ValidNames /\ bytes # 0 /\ ~ HasName(name)
    BY <1>5 DEF TryAcquireError
  <2>2. bytes \in Amounts /\ bytes \in Nat
    BY <2>1, SizesAssumption DEF Amounts
  <2>3. held \in Ledgers(ValidNames, Amounts) /\ used + bytes \in Nat
    BY <2>1, <2>2, Accounts, LedgerUpdates
  <2>4. DOMAIN held = DOMAIN reservations \cup {name}
    BY DEF Emplace
  <2>5. SoundQueue(held, pending, request)
    BY <1>3, <2>1, <2>4 DEF SoundQueue, HasName
  <2>6. GrantAfter(held, used + bytes)
    BY <1>5 DEF Reserve
  <2> HIDE DEF held
  <2> QED BY <2>3, <2>5, <2>6, GrantAfterActions
<1>6. ASSUME NEW name, NEW bytes \in Sizes, TryAcquire(name, bytes)
      PROVE  SettlementStep /\ PriorityStep
  BY <1>4, <1>5, <1>6 DEF TryAcquire
<1>7. ASSUME NEW name, Release(name) PROVE SettlementStep /\ PriorityStep
  <2> DEFINE held == Erase(reservations, {name})
             taken == used - reservations[name]
  <2>1. CASE Refuse(ReleaseError(name, reservations))
    BY <1>4, <2>1
  <2>2. CASE name \in DOMAIN reservations /\ GrantAfter(held, taken)
    <3>1. held \in Ledgers(ValidNames, Amounts)
      BY Accounts, LedgerUpdates
    <3>2. SoundQueue(held, pending, request)
      BY QueueIsSound DEF Erase, Restrict
    <3>3. taken \in Nat
      BY <2>2, Accounts, TotalEraseOne
    <3> HIDE DEF held, taken
    <3> QED BY <2>2, <3>1, <3>2, <3>3, GrantAfterActions
  <2> QED BY <1>7, <2>1, <2>2 DEF Release, ReleaseError
<1>8. ASSUME NEW id, NEW bytes \in Sizes, AcquireModel(id, bytes)
      PROVE  SettlementStep /\ PriorityStep
  <2>1. CASE Refuse(AcquireModelError(id, bytes))
    BY <1>4, <2>1
  <2>2. CASE UNCHANGED <<reservations, queue>>
    BY <1>1, <2>2, QuietActions DEF queue
  <2> QED BY <1>8, <2>1, <2>2 DEF AcquireModel
<1>9. ASSUME NEW id, ReleaseModel(id) PROVE SettlementStep /\ PriorityStep
  <2> DEFINE taken == used - model_reservations[id]
  <2>1. CASE Refuse(ReleaseError(id, model_reservations))
    BY <1>4, <2>1
  <2>2. CASE id \in DOMAIN model_reservations /\ GrantAfter(reservations, taken)
    <3>1. model_reservations[id] \in Nat
          /\ model_reservations[id] <= Total(model_reservations)
      BY <2>2, Accounts, TotalEraseOne
    <3>2. taken \in Nat
      BY <3>1, Accounts
    <3> HIDE DEF taken
    <3> QED BY <1>3, <2>2, <3>2, Accounts, GrantAfterActions
  <2> QED BY <1>9, <2>1, <2>2 DEF ReleaseModel, ReleaseError
<1>10. ASSUME NEW evictions, NEW id, NEW bytes \in Sizes,
              ReplaceModelReservations(evictions, id, bytes)
       PROVE  SettlementStep /\ PriorityStep
  <2> DEFINE evicted == {evictions[i] : i \in DOMAIN evictions}
             taken == used - EvictedBytes(evicted) + bytes
  <2>1. CASE Refuse(ReplaceError(evictions, id, bytes))
    BY <1>4, <2>1
  <2>2. CASE ReplaceError(evictions, id, bytes) = "None" /\ GrantAfter(reservations, taken)
    <3>1. evicted \subseteq DOMAIN model_reservations
      BY <2>2 DEF ReplaceError
    <3>2. bytes \in Nat
      BY SizesAssumption
    <3>3. /\ EvictedBytes(evicted) \in Nat
          /\ EvictedBytes(evicted) <= Total(model_reservations)
      <4> HIDE DEF evicted
      <4> QED BY <3>1, Accounts, TotalErase DEF EvictedBytes
    <3>4. taken \in Nat
      <4> HIDE DEF evicted
      <4> QED BY <3>2, <3>3, Accounts
    <3> HIDE DEF taken
    <3> QED BY <1>3, <2>2, <3>4, Accounts, GrantAfterActions
  <2> QED BY <1>10, <2>1, <2>2 DEF ReplaceModelReservations
<1>11. CASE CancelWaiters
  BY <1>1, <1>11, QuietActions DEF CancelWaiters, ledger
<1>12. ASSUME NEW t \in Threads, NEW req \in Requests, ~ HasName(req.name),
              Enqueue(t, req)
       PROVE  SettlementStep /\ PriorityStep
  <2> DEFINE ws == pending \cup {t}
             r == [request EXCEPT ![t] = req]
             ord == older \cup (pending \X {t})
  <2>1. GrantWaiters(reservations, used, ws, r, ord) /\ pc[t] = "idle"
    BY <1>12 DEF Enqueue
  <2>2. SoundQueue(reservations, ws, r)
    BY <1>12, EnqueueIsSound
  <2>3. t \notin pending
    BY <2>1 DEF IInv, NoOrphanWaiter
  <2>4. /\ pending \subseteq ws
        /\ \A u \in pending : r[u] = request[u]
        /\ \A u, v \in pending : <<u, v>> \in ord <=> <<u, v>> \in older
    BY <1>1, <2>3 DEF IInv, TypeOK
  <2> HIDE DEF ws, r, ord
  <2> QED BY <2>1, <2>2, <2>4, Accounts, PassActions
<1>13. ASSUME NEW t \in Threads, NEW name, NEW bytes \in Sizes,
              NEW priority \in Priorities, NEW cost \in Costs, NEW timeout,
              Acquire(t, name, bytes, priority, cost, timeout)
       PROVE  SettlementStep /\ PriorityStep
  <2> DEFINE error == AcquireError(name, bytes, timeout)
             req == [name |-> name, bytes |-> bytes, priority |-> priority,
                     cost |-> cost, timed |-> timeout = "finite"]
  <2>1. CASE Refuse(error) \/ Refuse("InvalidTimeout")
    BY <1>4, <2>1
  <2>2. CASE error = "None" /\ timeout = "zero" /\ Reserve(name, bytes)
    <3>1. TryAcquireError(name, bytes) = "None"
      BY <2>2 DEF AcquireError
    <3> QED BY <1>5, <2>2, <3>1
  <2>3. CASE AcquireAtOnce(name, bytes)
    <3>1. pending = {}
      BY <2>3 DEF AcquireAtOnce
    <3> QED BY <3>1 DEF SettlementStep, PriorityStep
  <2>4. CASE error = "None" /\ timeout # "zero" /\ cost >= 0 /\ Enqueue(t, req)
    <3>1. name \in ValidNames /\ bytes \in Sizes \ {0} /\ ~ HasName(name)
      BY <2>4 DEF AcquireError
    <3>2. req \in Requests /\ req.name = name
      BY <2>4, <3>1, CostsAssumption DEF Requests
    <3> HIDE DEF req
    <3> QED BY <1>12, <2>4, <3>1, <3>2
  <2> QED BY <1>13, <2>1, <2>2, <2>3, <2>4 DEF Acquire
<1>14. ASSUME NEW t \in Threads, TryAgain(t) PROVE SettlementStep /\ PriorityStep
  BY <1>3, <1>14, Accounts, PassActions DEF TryAgain
<1>15. ASSUME NEW t \in Threads, WaitTimeout(t) PROVE SettlementStep /\ PriorityStep
  BY <1>1, <1>2, <1>15, QuietActions DEF WaitTimeout, ledger
<1>16. ASSUME NEW t \in Threads, Return(t) PROVE SettlementStep /\ PriorityStep
  BY <1>1, <1>2, <1>16, QuietActions DEF Return, ledger
<1>17. ASSUME NEW t \in Threads, SpuriousWakeup(t) \/ DeadlinePasses(t)
       PROVE  SettlementStep /\ PriorityStep
  BY <1>1, <1>17, QuietActions DEF SpuriousWakeup, DeadlinePasses, ledger
<1>18. CASE ClientCall
  BY <1>6, <1>7, <1>18 DEF ClientCall
<1>19. CASE ModelCall
  BY <1>8, <1>9, <1>10, <1>19 DEF ModelCall
<1>20. ASSUME NEW t \in Threads, AcquireCall(t) PROVE SettlementStep /\ PriorityStep
  BY <1>13, <1>20 DEF AcquireCall
<1>21. ASSUME NEW t \in Threads, Waiter(t) PROVE SettlementStep /\ PriorityStep
  BY <1>14, <1>15, <1>16, <1>21 DEF Waiter
<1> QED BY <1>11, <1>17, <1>18, <1>19, <1>20, <1>21 DEF Next, WaiterEvent

\* However a waiting acquire ends, the ledger agrees with what it is told: a
\* grant enters its bytes before its deadline, a timeout leaves nothing behind.
THEOREM SettlementCorrect == Spec => Settlement
<1>1. IInv /\ [Next]_vars => [SettlementStep]_vars
  BY NextActions
<1> QED BY <1>1, Invariance, PTL DEF Spec, Settlement

\* A waiter is overtaken by one that comes after it in the scheduling order
\* only when it would not have fitted anyway.
THEOREM PriorityCorrect == Spec => NoPriorityInversion
<1>1. IInv /\ [Next]_vars => [PriorityStep]_vars
  BY NextActions
<1> QED BY <1>1, Invariance, PTL DEF Spec, NoPriorityInversion

-----------------------------------------------------------------------------
(***************************************************************************)
(* ResourceManager implements Broker: threads, deadlines, the queue and    *)
(* the passes over it only ever do what the broker promises.  Every step   *)
(* is mapped to a step of the broker with the help of the inductive        *)
(* invariant of ResourceManager, before the step and after it.             *)
(***************************************************************************)

\* The broker counts as the manager does.
LEMMA BrokerCardinality == \A S : broker!Cardinality(S) = Cardinality(S)
BY DEF broker!Cardinality, Cardinality

\* The broker adds up bytes as the manager's ledgers do.
LEMMA BrokerTotal == \A f : broker!Total(f) = Total(f)
<1> SUFFICES ASSUME NEW f PROVE broker!Total(f) = Total(f)
  OBVIOUS
<1>1. broker!Units(f) = Units(f)
  BY DEF broker!Units, Units
<1> QED BY <1>1, BrokerCardinality DEF broker!Total, Total

\* The broker sees each pending request under its name.
AskedByName ==
    /\ DOMAIN Asking = {request[t].name : t \in pending}
    /\ \A t \in pending : Asking[request[t].name] = request[t].bytes

\* It does so in every state of the invariant.
LEMMA AskingEntry == IInv => AskedByName
<1> SUFFICES ASSUME IInv PROVE AskedByName
  OBVIOUS
<1>1. ASSUME NEW t \in pending
      PROVE  Asking[request[t].name] = request[t].bytes
  <2> DEFINE c == CHOOSE u \in pending : request[u].name = request[t].name
  <2>1. c \in pending /\ request[c].name = request[t].name
    OBVIOUS
  <2>2. c = t
    BY <2>1 DEF IInv, PendingNamesFree
  <2>3. Asking[request[t].name] = request[c].bytes
    BY DEF Asking
  <2> QED BY <2>2, <2>3
<1> QED BY <1>1 DEF Asking, AskedByName

\* After a step that keeps the invariant, the broker's obligation is met if
\* the entries that are new were asked for, the others are as before, and
\* whoever is pending has asked for it.
LEMMA Settles ==
    ASSUME IInv', NEW holding, NEW asking,
           \A n \in DOMAIN holding :
              n \in DOMAIN reservations' /\ reservations'[n] = holding[n],
           \A n \in DOMAIN reservations' \ DOMAIN holding :
              n \in DOMAIN asking /\ reservations'[n] = asking[n],
           \A t \in pending' :
              /\ request'[t].name \in DOMAIN asking
              /\ request'[t].bytes = asking[request'[t].name]
    PROVE  broker!Settle(holding, asking)
<1>1. /\ DOMAIN Asking' = {request'[t].name : t \in pending'}
      /\ \A t \in pending' : Asking'[request'[t].name] = request'[t].bytes
  <2>1. AskedByName'
    BY AskingEntry, PTL
  <2> QED BY <2>1 DEF AskedByName
<1>2. \A t \in pending' : request'[t].name \notin DOMAIN reservations'
  BY DEF IInv, PendingNamesFree
<1>3. /\ used' \in Nat /\ used' <= Capacity
      /\ used' = Total(reservations') + Total(model_reservations')
  BY DEF IInv, TypeOK, Accounting
<1>4. \A t \in pending' : used' + request'[t].bytes > Capacity
  <2> SUFFICES ASSUME NEW t \in pending' PROVE used' + request'[t].bytes > Capacity
    OBVIOUS
  <2>1. request'[t].bytes > Capacity - used'
    BY DEF IInv, WorkConserving, Free
  <2>2. request'[t].bytes \in Nat
    BY SizesAssumption DEF IInv, NoOrphanWaiter, TypeOK, Requests
  <2> QED BY <1>3, <2>1, <2>2, CapacityAssumption
<1> DEFINE taken == Total(reservations') + Total(model_reservations')
<1>5. taken = used'
  BY <1>3
<1> HIDE DEF taken
<1>6. \A n \in DOMAIN Asking' :
         n \in DOMAIN asking /\ Asking'[n] = asking[n] /\ taken + Asking'[n] > Capacity
  BY <1>1, <1>4, <1>5
<1>7. DOMAIN reservations' \ DOMAIN holding \subseteq DOMAIN asking \ DOMAIN Asking'
  BY <1>1, <1>2
<1>8. \A n \in DOMAIN reservations' :
         reservations'[n] = IF n \in DOMAIN reservations' \ DOMAIN holding
                            THEN asking[n] ELSE holding[n]
  OBVIOUS
<1> HIDE DEF Asking
<1> QED BY <1>3, <1>5, <1>6, <1>7, <1>8, BrokerTotal DEF broker!Settle, taken

\* What a pass over a sound queue does to the reservations, entry by entry.
LEMMA PassEntries ==
    ASSUME NEW held \in Ledgers(ValidNames, Amounts), NEW taken \in Nat,
           NEW ws, NEW req, NEW ord,
           SoundQueue(held, ws, req),
           GrantWaiters(held, taken, ws, req, ord)
    PROVE  /\ \A n \in DOMAIN held :
                 n \in DOMAIN reservations' /\ reservations'[n] = held[n]
           /\ \A n \in DOMAIN reservations' \ DOMAIN held :
                 \E t \in ws : n = req[t].name /\ reservations'[n] = req[t].bytes
           /\ pending' \subseteq ws
           /\ request' = req
<1> DEFINE live == ws \ expired
<1>1. PICK granted \in GrantSets(req, ord, live, Capacity - taken) :
        /\ reservations' = EmplaceGranted(held, req, granted)
        /\ pending' = ws \ (expired \cup granted)
        /\ request' = req
  BY DEF GrantWaiters
<1>2. granted \subseteq ws
  BY DEF GrantSets
<1>3. SoundQueue(held, granted, req)
  BY <1>2 DEF SoundQueue
<1>4. DOMAIN reservations' = DOMAIN held \cup {req[t].name : t \in granted}
  BY <1>1, <1>3, TotalEmplaceGranted
<1>5. \A t \in granted : reservations'[req[t].name] = req[t].bytes
  BY <1>1, <1>3, GrantedEntry
<1>6. \A n \in DOMAIN held : reservations'[n] = held[n]
  BY <1>1 DEF EmplaceGranted
<1>7. \A n \in DOMAIN reservations' \ DOMAIN held :
         \E t \in ws : n = req[t].name /\ reservations'[n] = req[t].bytes
  BY <1>2, <1>4, <1>5
<1> QED BY <1>1, <1>4, <1>6, <1>7

\* A pass over the queue by an operation that changes no client's reservation
\* grants what the broker has been asked for.
LEMMA PassSettles ==
    ASSUME IInv, IInv', NEW taken \in Nat,
           GrantWaiters(reservations, taken, pending, request, older)
    PROVE  broker!Settle(reservations, Asking)
<1>1. SoundQueue(reservations, pending, request)
  BY QueueIsSound
<1>2. /\ \A n \in DOMAIN reservations :
            n \in DOMAIN reservations' /\ reservations'[n] = reservations[n]
      /\ \A n \in DOMAIN reservations' \ DOMAIN reservations :
            \E t \in pending : n = request[t].name /\ reservations'[n] = request[t].bytes
      /\ pending' \subseteq pending
      /\ request' = request
  BY <1>1, Accounts, PassEntries
<1>3. /\ \A n \in DOMAIN reservations' \ DOMAIN reservations :
            n \in DOMAIN Asking /\ reservations'[n] = Asking[n]
      /\ \A t \in pending' :
            /\ request'[t].name \in DOMAIN Asking
            /\ request'[t].bytes = Asking[request'[t].name]
  BY <1>2, AskingEntry DEF AskedByName
<1> QED BY <1>2, <1>3, Settles

\* A step that reserves nothing and adds nobody to the queue turns away those
\* who leave it.
LEMMA QuietSettles ==
    ASSUME IInv, IInv', reservations' = reservations, pending' \subseteq pending,
           \A t \in pending : request'[t] = request[t]
    PROVE  broker!Settle(reservations, Asking)
<1>1. \A t \in pending' : /\ request'[t].name \in DOMAIN Asking
                          /\ request'[t].bytes = Asking[request'[t].name]
  BY AskingEntry DEF AskedByName
<1> QED BY <1>1, Settles

-----------------------------------------------------------------------------
(***************************************************************************)
(* One lemma per kind of step of the broker.                               *)
(***************************************************************************)

\* A call of release that succeeds is a client that lets go.
LEMMA ReleaseLetsGo ==
    ASSUME IInv, IInv', NEW name, ReleaseError(name, reservations) = "None",
           GrantAfter(Erase(reservations, {name}), used - reservations[name]),
           UNCHANGED model_reservations
    PROVE  name \in ValidNames /\ broker!LetGo(name)
<1> DEFINE held == Erase(reservations, {name})
           taken == used - reservations[name]
<1>1. name \in ValidNames /\ name \in DOMAIN reservations
  BY DEF ReleaseError
<1>2. held \in Ledgers(ValidNames, Amounts)
  BY Accounts, LedgerUpdates
<1>3. SoundQueue(held, pending, request)
  BY QueueIsSound DEF Erase, Restrict
<1>4. taken \in Nat
  BY <1>1, Accounts, TotalEraseOne
<1>5. GrantWaiters(held, taken, pending, request, older)
  BY DEF GrantAfter
<1>6. broker!Erase(reservations, {name}) = held
  BY DEF broker!Erase, broker!Restrict, Erase, Restrict
<1> HIDE DEF held, taken
<1>7. /\ \A n \in DOMAIN held :
            n \in DOMAIN reservations' /\ reservations'[n] = held[n]
      /\ \A n \in DOMAIN reservations' \ DOMAIN held :
            \E t \in pending : n = request[t].name /\ reservations'[n] = request[t].bytes
      /\ pending' \subseteq pending
      /\ request' = request
  BY <1>2, <1>3, <1>4, <1>5, PassEntries
<1>8. /\ \A n \in DOMAIN reservations' \ DOMAIN held :
            n \in DOMAIN Asking /\ reservations'[n] = Asking[n]
      /\ \A t \in pending' :
            /\ request'[t].name \in DOMAIN Asking
            /\ request'[t].bytes = Asking[request'[t].name]
  BY <1>7, AskingEntry DEF AskedByName
<1>9. broker!Settle(held, Asking)
  BY <1>7, <1>8, Settles
<1> QED BY <1>1, <1>6, <1>9 DEF broker!LetGo

\* A step that lets a new name into the reservations or into the queue, and
\* grants or drops others, is a client that asks.
LEMMA IsAsk ==
    ASSUME IInv, IInv', NEW name, NEW bytes, ~ HasName(name),
           UNCHANGED model_reservations,
           \A n \in DOMAIN reservations :
              n \in DOMAIN reservations' /\ reservations'[n] = reservations[n],
           \A n \in DOMAIN reservations' \ DOMAIN reservations :
              \/ n = name /\ reservations'[n] = bytes
              \/ \E t \in pending : n = request[t].name
                                    /\ reservations'[n] = request[t].bytes,
           \A t \in pending' :
              \/ request'[t].name = name /\ request'[t].bytes = bytes
              \/ t \in pending /\ request'[t] = request[t]
    PROVE  broker!Ask(name, bytes)
<1> DEFINE asking == Emplace(Asking, name, bytes)
<1>1. name \notin DOMAIN reservations /\ name \notin DOMAIN Asking
  BY AskingEntry DEF AskedByName, HasName
<1>2. /\ DOMAIN asking = DOMAIN Asking \cup {name}
      /\ asking[name] = bytes
      /\ \A n \in DOMAIN Asking : asking[n] = Asking[n]
  BY <1>1 DEF Emplace
<1>3. broker!Emplace(Asking, name, bytes) = asking
  BY DEF broker!Emplace, Emplace
<1> HIDE DEF asking
<1>4. ASSUME NEW n \in DOMAIN reservations' \ DOMAIN reservations
      PROVE  n \in DOMAIN asking /\ reservations'[n] = asking[n]
  <2>1. CASE n = name /\ reservations'[n] = bytes
    BY <1>2, <2>1
  <2>2. CASE \E t \in pending : n = request[t].name
                               /\ reservations'[n] = request[t].bytes
    BY <1>2, <2>2, AskingEntry DEF AskedByName
  <2> QED BY <2>1, <2>2
<1>5. ASSUME NEW t \in pending'
      PROVE  /\ request'[t].name \in DOMAIN asking
             /\ request'[t].bytes = asking[request'[t].name]
  <2>1. CASE request'[t].name = name /\ request'[t].bytes = bytes
    BY <1>2, <2>1
  <2>2. CASE t \in pending /\ request'[t] = request[t]
    BY <1>2, <2>2, AskingEntry DEF AskedByName
  <2> QED BY <2>1, <2>2
<1>6. broker!Settle(reservations, asking)
  BY <1>4, <1>5, Settles
<1> QED BY <1>1, <1>3, <1>6 DEF broker!Ask

\* A reservation made without waiting, by try_acquire or by an acquire with a
\* zero timeout, is a client that asks.
LEMMA ReserveAsks ==
    ASSUME IInv, IInv', NEW name, NEW bytes \in Sizes,
           TryAcquireError(name, bytes) = "None", Reserve(name, bytes)
    PROVE  name \in ValidNames /\ bytes \in Amounts /\ broker!Ask(name, bytes)
<1> DEFINE held == Emplace(reservations, name, bytes)
<1>1. name \in ValidNames /\ bytes # 0 /\ ~ HasName(name)
  BY DEF TryAcquireError
<1>2. bytes \in Amounts /\ bytes \in Nat
  BY <1>1, SizesAssumption DEF Amounts
<1>3. held \in Ledgers(ValidNames, Amounts) /\ used + bytes \in Nat
  BY <1>1, <1>2, Accounts, LedgerUpdates
<1>4. /\ DOMAIN held = DOMAIN reservations \cup {name} /\ held[name] = bytes
      /\ \A n \in DOMAIN reservations : held[n] = reservations[n]
  BY <1>1 DEF Emplace, HasName
<1>5. SoundQueue(held, pending, request)
  <2>1. SoundQueue(reservations, pending, request)
    BY QueueIsSound
  <2> QED BY <1>1, <1>4, <2>1 DEF SoundQueue, HasName
<1>6. GrantWaiters(held, used + bytes, pending, request, older)
      /\ UNCHANGED model_reservations
  BY DEF Reserve, GrantAfter
<1> HIDE DEF held
<1>7. /\ \A n \in DOMAIN held :
            n \in DOMAIN reservations' /\ reservations'[n] = held[n]
      /\ \A n \in DOMAIN reservations' \ DOMAIN held :
            \E t \in pending : n = request[t].name /\ reservations'[n] = request[t].bytes
      /\ pending' \subseteq pending
      /\ request' = request
  BY <1>3, <1>5, <1>6, PassEntries
<1>8. /\ \A n \in DOMAIN reservations :
            n \in DOMAIN reservations' /\ reservations'[n] = reservations[n]
      /\ \A n \in DOMAIN reservations' \ DOMAIN reservations :
            \/ n = name /\ reservations'[n] = bytes
            \/ \E t \in pending : n = request[t].name
                                  /\ reservations'[n] = request[t].bytes
  BY <1>4, <1>7
<1>9. broker!Ask(name, bytes)
  BY <1>1, <1>6, <1>7, <1>8, IsAsk
<1> QED BY <1>1, <1>2, <1>9

\* An acquire that finds nobody waiting and enough room is a client that asks.
LEMMA AcquireAtOnceAsks ==
    ASSUME IInv, IInv', NEW name, NEW bytes, ~ HasName(name),
           AcquireAtOnce(name, bytes)
    PROVE  broker!Ask(name, bytes)
<1>1. /\ reservations' = Emplace(reservations, name, bytes)
      /\ UNCHANGED <<model_reservations, pending, request>>
  BY DEF AcquireAtOnce, queue
<1>2. /\ DOMAIN reservations' = DOMAIN reservations \cup {name}
      /\ reservations'[name] = bytes
      /\ \A n \in DOMAIN reservations : reservations'[n] = reservations[n]
  BY <1>1 DEF Emplace, HasName
<1>3. /\ \A n \in DOMAIN reservations :
            n \in DOMAIN reservations' /\ reservations'[n] = reservations[n]
      /\ \A n \in DOMAIN reservations' \ DOMAIN reservations :
            n = name /\ reservations'[n] = bytes
      /\ \A t \in pending' : t \in pending /\ request'[t] = request[t]
  BY <1>1, <1>2
<1> QED BY <1>1, <1>3, IsAsk

\* An acquire that joins the queue is a client that asks.
LEMMA EnqueueAsks ==
    ASSUME IInv, IInv', NEW t \in Threads, NEW req \in Requests, ~ HasName(req.name),
           Enqueue(t, req)
    PROVE  broker!Ask(req.name, req.bytes)
<1> DEFINE ws == pending \cup {t}
           r == [request EXCEPT ![t] = req]
<1>1. /\ GrantWaiters(reservations, used, ws, r, older \cup (pending \X {t}))
      /\ UNCHANGED model_reservations
  BY DEF Enqueue
<1>2. SoundQueue(reservations, ws, r)
  BY EnqueueIsSound
<1>3. /\ request \in [Threads -> Requests \cup {NoRequest}] /\ pending \subseteq Threads
      /\ t \notin pending
  BY DEF Enqueue, IInv, TypeOK, NoOrphanWaiter
<1>4. r[t] = req /\ \A u \in pending : r[u] = request[u]
  BY <1>3
<1> HIDE DEF r
<1>5. /\ \A n \in DOMAIN reservations :
            n \in DOMAIN reservations' /\ reservations'[n] = reservations[n]
      /\ \A n \in DOMAIN reservations' \ DOMAIN reservations :
            \E u \in ws : n = r[u].name /\ reservations'[n] = r[u].bytes
      /\ pending' \subseteq ws
      /\ request' = r
  <2> HIDE DEF ws
  <2> QED BY <1>1, <1>2, Accounts, PassEntries
<1>6. \A n \in DOMAIN reservations' \ DOMAIN reservations :
         \/ n = req.name /\ reservations'[n] = req.bytes
         \/ \E u \in pending : n = request[u].name
                               /\ reservations'[n] = request[u].bytes
  BY <1>4, <1>5
<1>7. \A u \in pending' :
         \/ request'[u].name = req.name /\ request'[u].bytes = req.bytes
         \/ u \in pending /\ request'[u] = request[u]
  BY <1>4, <1>5
<1> QED BY <1>1, <1>5, <1>6, <1>7, IsAsk

\* Every call of acquire is a client that asks, or one that is turned away.
LEMMA AcquireAsks ==
    ASSUME IInv, IInv', NEW t \in Threads, NEW name, NEW bytes \in Sizes,
           NEW priority \in Priorities, NEW cost \in Costs, NEW timeout,
           Acquire(t, name, bytes, priority, cost, timeout)
    PROVE  \/ \E error : Refuse(error)
           \/ name \in ValidNames /\ bytes \in Amounts /\ broker!Ask(name, bytes)
<1> DEFINE error == AcquireError(name, bytes, timeout)
           req == [name |-> name, bytes |-> bytes, priority |-> priority,
                   cost |-> cost, timed |-> timeout = "finite"]
<1>1. CASE \E e : Refuse(e)
  BY <1>1
<1>2. CASE error = "None" /\ timeout = "zero" /\ Reserve(name, bytes)
  <2>1. TryAcquireError(name, bytes) = "None"
    BY <1>2 DEF AcquireError
  <2> QED BY <1>2, <2>1, ReserveAsks
<1>3. ASSUME error = "None", timeout # "zero"
      PROVE  name \in ValidNames /\ bytes \in Amounts /\ ~ HasName(name)
  BY <1>3 DEF AcquireError, Amounts
<1>4. CASE error = "None" /\ timeout # "zero" /\ AcquireAtOnce(name, bytes)
  BY <1>3, <1>4, AcquireAtOnceAsks
<1>5. CASE error = "None" /\ timeout # "zero" /\ cost >= 0 /\ Enqueue(t, req)
  <2>1. req \in Requests /\ req.name = name /\ req.bytes = bytes
    BY <1>3, <1>5, CostsAssumption DEF Requests, Amounts
  <2> HIDE DEF req
  <2>2. broker!Ask(req.name, req.bytes)
    BY <1>3, <1>5, <2>1, EnqueueAsks
  <2> QED BY <1>3, <1>5, <2>1, <2>2
<1>6. \/ Refuse(error) \/ Refuse("InvalidTimeout")
      \/ error = "None" /\ timeout = "zero" /\ Reserve(name, bytes)
      \/ error = "None" /\ timeout # "zero" /\ AcquireAtOnce(name, bytes)
      \/ error = "None" /\ timeout # "zero" /\ cost >= 0 /\ Enqueue(t, req)
  BY DEF Acquire
<1> QED BY <1>1, <1>2, <1>4, <1>5, <1>6

\* acquire_model, release_model and replace_model_reservations bring at most
\* one model and change none that stays.
LEMMA ModelsComeAndGo ==
    ASSUME NEW gone, NEW id, NEW bytes,
           \/ model_reservations' = Emplace(model_reservations, id, bytes)
           \/ model_reservations' = Erase(model_reservations, gone)
           \/ /\ id \notin DOMAIN model_reservations
              /\ model_reservations' = Emplace(Erase(model_reservations, gone), id, bytes),
           broker!Settle(reservations, Asking)
    PROVE  broker!ChangeModels
<1> DEFINE M == DOMAIN model_reservations
           N == DOMAIN model_reservations'
<1>1. N \ M \subseteq {id} /\ \A x \in M \cap N : model_reservations'[x] = model_reservations[x]
  BY DEF Emplace, Erase, Restrict
<1>2. N \ M = {} \/ N \ M = {id}
  BY <1>1
<1> HIDE DEF M, N
<1>3. broker!Cardinality(N \ M) <= 1
  <2>1. Cardinality({}) = 0 /\ Cardinality({id}) = 1
    BY FS_EmptySet, FS_Singleton
  <2> QED BY <1>2, <2>1, BrokerCardinality
<1> QED BY <1>1, <1>3 DEF broker!ChangeModels, M, N

\* Every operation on models is a change of models or a refusal.
LEMMA ModelCallChanges ==
    ASSUME IInv, IInv', ModelCall
    PROVE  (\E error : Refuse(error)) \/ broker!ChangeModels
<1> USE DEF ledger, queue
<1>1. ASSUME NEW id, NEW bytes \in Sizes, AcquireModel(id, bytes)
      PROVE  (\E error : Refuse(error)) \/ broker!ChangeModels
  <2>1. CASE model_reservations' = Emplace(model_reservations, id, bytes)
             /\ UNCHANGED <<reservations, queue>>
    <3>1. broker!Settle(reservations, Asking)
      BY <2>1, QuietSettles
    <3> QED BY <2>1, <3>1, ModelsComeAndGo
  <2> QED BY <1>1, <2>1 DEF AcquireModel
<1>2. ASSUME NEW id, ReleaseModel(id)
      PROVE  (\E error : Refuse(error)) \/ broker!ChangeModels
  <2> DEFINE taken == used - model_reservations[id]
  <2>1. CASE id \in DOMAIN model_reservations
             /\ model_reservations' = Erase(model_reservations, {id})
             /\ GrantAfter(reservations, taken)
    <3>1. model_reservations[id] \in Nat
          /\ model_reservations[id] <= Total(model_reservations)
      BY <2>1, Accounts, TotalEraseOne
    <3>2. taken \in Nat
      BY <3>1, Accounts
    <3> HIDE DEF taken
    <3>3. broker!Settle(reservations, Asking)
      BY <2>1, <3>2, PassSettles DEF GrantAfter
    <3> QED BY <2>1, <3>3, ModelsComeAndGo
  <2> QED BY <1>2, <2>1 DEF ReleaseModel, ReleaseError
<1>3. ASSUME NEW evictions, NEW id, NEW bytes \in Sizes,
             ReplaceModelReservations(evictions, id, bytes)
      PROVE  (\E error : Refuse(error)) \/ broker!ChangeModels
  <2> DEFINE evicted == {evictions[i] : i \in DOMAIN evictions}
             gone == EvictedBytes(evicted)
             taken == used - gone + bytes
  <2>1. CASE ReplaceError(evictions, id, bytes) = "None"
             /\ model_reservations' = Emplace(Erase(model_reservations, evicted), id, bytes)
             /\ GrantAfter(reservations, taken)
    <3>1. id \notin DOMAIN model_reservations /\ evicted \subseteq DOMAIN model_reservations
      BY <2>1 DEF ReplaceError
    <3> HIDE DEF evicted
    <3>2. gone \in Nat /\ gone <= Total(model_reservations)
      BY <3>1, Accounts, TotalErase DEF EvictedBytes
    <3> HIDE DEF gone
    <3>3. taken \in Nat
      BY <3>2, Accounts, SizesAssumption
    <3> HIDE DEF taken
    <3>4. broker!Settle(reservations, Asking)
      BY <2>1, <3>3, PassSettles DEF GrantAfter
    <3> QED BY <2>1, <3>1, <3>4, ModelsComeAndGo
  <2> QED BY <1>3, <2>1 DEF ReplaceModelReservations
<1> QED BY <1>1, <1>2, <1>3 DEF ModelCall

\* A call that is refused changes nothing for the broker.
LEMMA RefuseTurnsAway ==
    ASSUME IInv, IInv', NEW error, Refuse(error)
    PROVE  broker!TurnAway
<1>1. UNCHANGED <<reservations, model_reservations, pending, request>>
  BY DEF Refuse, ledger, queue
<1>2. broker!Settle(reservations, Asking)
  BY <1>1, QuietSettles
<1> QED BY <1>1, <1>2 DEF broker!TurnAway

\* What a waiting acquire does by itself grants nothing that the broker has
\* not been asked for: it times out, returns, or makes another pass.
LEMMA WaiterSettles ==
    ASSUME IInv, IInv', NEW t \in Threads, Waiter(t) \/ WaiterEvent(t)
    PROVE  broker!TurnAway \/ broker!ChangeModels
<1> USE DEF ledger, queue
<1>1. CASE TryAgain(t)
  <2>1. GrantWaiters(reservations, used, pending, request, older)
        /\ UNCHANGED model_reservations
    BY <1>1 DEF TryAgain
  <2>2. broker!Settle(reservations, Asking)
    BY <2>1, Accounts, PassSettles
  <2>3. broker!Cardinality(DOMAIN model_reservations' \ DOMAIN model_reservations) <= 1
    <3>1. DOMAIN model_reservations' \ DOMAIN model_reservations = {}
      BY <2>1
    <3> QED BY <3>1, FS_EmptySet, BrokerCardinality
  <2> QED BY <2>1, <2>2, <2>3 DEF broker!ChangeModels
<1>2. CASE WaitTimeout(t) \/ SpuriousWakeup(t) \/ DeadlinePasses(t)
  <2>1. /\ UNCHANGED <<reservations, model_reservations, request>>
        /\ pending' \subseteq pending
    BY <1>2 DEF WaitTimeout, SpuriousWakeup, DeadlinePasses
  <2>2. broker!Settle(reservations, Asking)
    BY <2>1, QuietSettles
  <2> QED BY <2>1, <2>2 DEF broker!TurnAway
<1>3. CASE Return(t)
  <2>1. t \notin pending
    BY <1>3 DEF Return, IInv, NoOrphanWaiter
  <2>2. /\ UNCHANGED <<reservations, model_reservations, pending>>
        /\ \A u \in pending : request'[u] = request[u]
    BY <1>3, <2>1 DEF Return, IInv, TypeOK
  <2>3. broker!Settle(reservations, Asking)
    BY <2>2, QuietSettles
  <2> QED BY <2>2, <2>3 DEF broker!TurnAway
<1> QED BY <1>1, <1>2, <1>3 DEF Waiter, WaiterEvent

-----------------------------------------------------------------------------

\* The manager starts as the broker does.
LEMMA InitRefines == Init => broker!Init
<1> SUFFICES ASSUME Init PROVE broker!Init
  OBVIOUS
<1>1. reservations = NoEntries /\ model_reservations = NoEntries /\ pending = {}
  BY DEF Init
<1>2. Asking = NoEntries
  BY <1>1 DEF Asking, NoEntries
<1> QED BY <1>1, <1>2 DEF broker!Init, broker!NoEntries, NoEntries

\* Every step of the manager is a step of the broker.
LEMMA NextRefines ==
    IInv /\ IInv' /\ [Next]_vars => [broker!Next]_(broker!brokerVars)
<1> SUFFICES ASSUME IInv, IInv', [Next]_vars
             PROVE  broker!Next \/ UNCHANGED broker!brokerVars
  OBVIOUS
<1>1. ASSUME NEW error, Refuse(error) PROVE broker!Next
  BY <1>1, RefuseTurnsAway DEF broker!Next
<1>2. ASSUME NEW name, NEW bytes \in Amounts, name \in ValidNames, broker!Ask(name, bytes)
      PROVE  broker!Next
  BY <1>2 DEF broker!Next, Amounts
<1>3. CASE ClientCall
  <2>1. ASSUME NEW name, NEW bytes \in Sizes, TryAcquire(name, bytes)
        PROVE  broker!Next
    BY <1>1, <1>2, <2>1, ReserveAsks DEF TryAcquire
  <2>2. ASSUME NEW name, Release(name)
        PROVE  broker!Next
    <3>1. CASE Refuse(ReleaseError(name, reservations))
      BY <1>1, <3>1
    <3>2. CASE /\ ReleaseError(name, reservations) = "None"
               /\ GrantAfter(Erase(reservations, {name}), used - reservations[name])
               /\ UNCHANGED model_reservations
      <4>1. name \in ValidNames /\ broker!LetGo(name)
        BY <3>2, ReleaseLetsGo
      <4> QED BY <4>1 DEF broker!Next
    <3> QED BY <2>2, <3>1, <3>2 DEF Release
  <2> QED BY <1>3, <2>1, <2>2 DEF ClientCall
<1>4. CASE ModelCall
  BY <1>1, <1>4, ModelCallChanges DEF broker!Next
<1>5. CASE CancelWaiters
  <2>1. /\ UNCHANGED <<reservations, model_reservations, request>>
        /\ pending' \subseteq pending
    BY <1>5 DEF CancelWaiters, ledger
  <2>2. broker!Settle(reservations, Asking)
    BY <2>1, QuietSettles
  <2> QED BY <2>1, <2>2 DEF broker!TurnAway, broker!Next
<1>6. ASSUME NEW t \in Threads, AcquireCall(t) PROVE broker!Next
  BY <1>1, <1>2, <1>6, AcquireAsks DEF AcquireCall
<1>7. ASSUME NEW t \in Threads, Waiter(t) \/ WaiterEvent(t) PROVE broker!Next
  BY <1>7, WaiterSettles DEF broker!Next
<1>8. CASE UNCHANGED vars
  BY <1>8 DEF vars, ledger, queue, broker!brokerVars, Asking
<1> QED BY <1>3, <1>4, <1>5, <1>6, <1>7, <1>8 DEF Next

\* The resource manager, with its threads, deadlines, wakeups and passes over
\* the queue, implements the broker, for every instance of its constants.
THEOREM Refinement == Spec => ImplementsBroker
<1>1. Init /\ [][Next]_vars /\ []IInv => broker!Init /\ [][broker!Next]_(broker!brokerVars)
  BY InitRefines, NextRefines, PTL
<1> QED BY <1>1, Invariance, PTL DEF Spec, ImplementsBroker, broker!Spec

=============================================================================
