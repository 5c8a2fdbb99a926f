--------------------------- MODULE GrantLoopProofs ---------------------------
(***************************************************************************)
(* The loops of grant_waiters_locked compute the only grant set there is,  *)
(* for every queue, every amount of free memory and both policies.         *)
(***************************************************************************)
EXTENDS GrantLoop, MemoryProofs

Requests == [bytes : Sizes, priority : Priorities, cost : Costs]

\* What the pass starts from.
InputsOK ==
    /\ \E n \in Nat : request \in [1 .. n -> Requests]
    /\ due \subseteq Waiters
    /\ atStart \in Nat

FitsAt(i) == request[pending[i]].bytes <= free
First(v, w) == Precedes(request, Older, v, w)
Before(w) == {v \in granted : First(v, w)}

\* pending_ is a vector of waiters in the order of their sequence numbers.
QueueInOrder ==
    /\ pending \in Seq(Waiters)
    /\ \A i, j \in DOMAIN pending : i < j => pending[i] < pending[j]

\* Every waiter is in one place.
OnePlace ==
    /\ Range(pending) \cup granted \cup timedOut = Waiters
    /\ Range(pending) \cap granted = {}
    /\ Range(pending) \cap timedOut = {}
    /\ granted \cap timedOut = {}

\* The sweep has dropped the due requests before its index, then all of them.
Swept ==
    /\ phase = "expire" => /\ granted = {}
                           /\ selected = 0
                           /\ timedOut \subseteq due
                           /\ \A i \in 1 .. index - 1 : pending[i] \notin due
    /\ phase # "expire" => timedOut = due

\* The free memory is what the grants have left.
Books == free = atStart - Demand(request, granted)

\* The scan has selected the first in the order of service of those that fit,
\* as far as it has come.
BestSoFar ==
    /\ phase = "scan" /\ selected = 0 => \A i \in 1 .. index - 1 : ~ FitsAt(i)
    /\ phase = "scan" /\ selected # 0 =>
          /\ selected < index
          /\ FitsAt(selected)
          /\ \A i \in 1 .. index - 1 :
                FitsAt(i) => i = selected \/ First(pending[selected], pending[i])
    /\ phase = "done" => \A i \in DOMAIN pending : ~ FitsAt(i)

\* Whoever still waits comes after all that were granted, or does not fit in
\* what those before it have left.
PassedOver ==
    \A w \in Range(pending) :
        \/ \A v \in granted : First(v, w)
        \/ request[w].bytes + Demand(request, Before(w)) > atStart

LoopInv ==
    /\ InputsOK /\ TypeOK /\ QueueInOrder /\ OnePlace
    /\ Swept /\ Books /\ BestSoFar /\ PassedOver

-----------------------------------------------------------------------------
(***************************************************************************)
(* Sequences and the order of service.                                     *)
(***************************************************************************)

\* A waiter's request is well typed, and the waiters are finitely many.
LEMMA WaitersTyped ==
    ASSUME InputsOK
    PROVE  /\ IsFiniteSet(Waiters)
           /\ Waiters \subseteq Nat
           /\ \A w \in Waiters : /\ request[w].bytes \in Nat
                                 /\ request[w].priority \in Int
                                 /\ request[w].cost \in Nat
           /\ \A ws \in SUBSET Waiters : WellFormed(request, ws)
<1>1. PICK n \in Nat : request \in [1 .. n -> Requests]
  BY DEF InputsOK
<1>2. Waiters = 1 .. n
  BY <1>1 DEF Waiters
<1>3. IsFiniteSet(Waiters)
  BY <1>2, FS_Interval
<1>4. \A w \in Waiters : /\ request[w].bytes \in Nat
                         /\ request[w].priority \in Int
                         /\ request[w].cost \in Nat
  BY <1>1, <1>2, LoopAssumption DEF Requests
<1>5. \A ws \in SUBSET Waiters : WellFormed(request, ws)
  BY <1>3, <1>4, FS_Subset DEF WellFormed
<1> QED BY <1>2, <1>3, <1>4, <1>5

\* The order of service is a strict total order.
LEMMA ServiceOrder ==
    ASSUME InputsOK
    PROVE  /\ \A w \in Waiters : ~ First(w, w)
           /\ \A u, v, w \in Waiters : First(u, v) /\ First(v, w) => First(u, w)
           /\ \A v, w \in Waiters : v = w \/ First(v, w) \/ First(w, v)
<1>1. \A v, w \in Waiters : <<v, w>> \in Older <=> v < w
  BY DEF Older
<1>2. Waiters \subseteq Nat
  BY WaitersTyped
<1>3. \A w \in Waiters : request[w].priority \in Int /\ request[w].cost \in Nat
  BY WaitersTyped
<1>4. \A w \in Waiters : ~ First(w, w)
  BY <1>1, <1>2, <1>3 DEF First, Precedes
<1>5. ASSUME NEW u \in Waiters, NEW v \in Waiters, NEW w \in Waiters,
             First(u, v), First(v, w)
      PROVE  First(u, w)
  <2>1. u \in Nat /\ v \in Nat /\ w \in Nat
    BY <1>2
  <2>2. <<u, v>> \in Older /\ <<v, w>> \in Older => <<u, w>> \in Older
    BY <1>1, <2>1
  <2>3. CASE Policy = "CostAware"
    BY <1>3, <1>5, <2>2, <2>3 DEF First, Precedes
  <2>4. CASE Policy # "CostAware"
    BY <1>3, <1>5, <2>2, <2>4 DEF First, Precedes
  <2> QED BY <2>3, <2>4
<1>6. ASSUME NEW v \in Waiters, NEW w \in Waiters, v # w
      PROVE  First(v, w) \/ First(w, v)
  <2>1. <<v, w>> \in Older \/ <<w, v>> \in Older
    BY <1>1, <1>2, <1>6
  <2> QED BY <1>3, <2>1 DEF First, Precedes
<1> QED BY <1>4, <1>5, <1>6

\* Of any waiters one is served first: the one with the fewest before it.
LEMMA FirstOfSome ==
    ASSUME InputsOK, NEW S \in SUBSET Waiters, S # {}
    PROVE  \E x \in S : \A y \in S : y = x \/ First(x, y)
<1> DEFINE ahead(x) == {y \in S : First(y, x)}
           ranks == {Cardinality(ahead(x)) : x \in S}
<1>1. /\ \A w \in Waiters : ~ First(w, w)
      /\ \A u, v, w \in Waiters : First(u, v) /\ First(v, w) => First(u, w)
      /\ \A v, w \in Waiters : v = w \/ First(v, w) \/ First(w, v)
  BY ServiceOrder
<1>2. IsFiniteSet(S)
  BY WaitersTyped, FS_Subset
<1>3. \A x \in S : IsFiniteSet(ahead(x)) /\ Cardinality(ahead(x)) \in Nat
  BY <1>2, FS_Subset, FS_CardinalityType
<1>4. ranks \in SUBSET Nat /\ ranks # {}
  BY <1>3
<1>5. PICK m \in ranks : \A k \in ranks : m <= k
  BY <1>4, LeastNatural
<1>6. PICK x \in S : m = Cardinality(ahead(x))
  BY <1>5
<1>7. ASSUME NEW y \in S, First(y, x)
      PROVE  FALSE
  <2>1. ahead(y) \in SUBSET ahead(x)
    BY <1>1, <1>7
  <2>2. y \in ahead(x) /\ y \notin ahead(y)
    BY <1>1, <1>7
  <2>3. Cardinality(ahead(y)) <= Cardinality(ahead(x))
    BY <1>3, <2>1, FS_Subset
  <2>4. Cardinality(ahead(y)) # Cardinality(ahead(x))
    BY <1>3, <2>1, <2>2, FS_Subset
  <2>5. m <= Cardinality(ahead(y))
    BY <1>5
  <2> HIDE DEF ahead
  <2> QED BY <1>3, <1>6, <2>3, <2>4, <2>5
<1>8. x \in S /\ \A y \in S : y = x \/ First(x, y)
  BY <1>1, <1>7
<1> QED BY <1>8

\* Two grants cannot differ, since they cannot differ first in w: a grant that
\* passes w over has no room for it, and one that has w has that room.
LEMMA NoFirstDifference ==
    ASSUME InputsOK, NEW queue \in SUBSET Waiters, NEW room \in Nat,
           NEW A \in GrantSets(request, Older, queue, room),
           NEW B \in GrantSets(request, Older, queue, room),
           NEW w \in A \ B,
           \A y \in (A \ B) \cup (B \ A) : y = w \/ First(w, y)
    PROVE  FALSE
<1> DEFINE before == {v \in B : Precedes(request, Older, v, w)}
           both == before \cup {w}
<1>1. /\ A \subseteq queue /\ B \subseteq queue
      /\ Demand(request, A) <= room
      /\ request[w].bytes + Demand(request, before) > room
  BY DEF GrantSets, IsGrant
<1>2. /\ \A v \in Waiters : ~ First(v, v)
      /\ \A u, v, x \in Waiters : First(u, v) /\ First(v, x) => First(u, x)
  BY ServiceOrder
<1>3. before \subseteq A /\ w \notin before
  BY <1>1, <1>2 DEF First
<1>4. /\ WellFormed(request, A) /\ WellFormed(request, both) /\ WellFormed(request, before)
      /\ request[w].bytes \in Nat
  BY <1>1, <1>3, WaitersTyped
<1>5. both \in SUBSET A /\ w \in both /\ both \ {w} = before
  BY <1>3
<1> HIDE DEF both, before
<1>6. Demand(request, both) = Demand(request, before) + request[w].bytes
  BY <1>4, <1>5, DemandRemove
<1>7. Demand(request, both) <= Demand(request, A)
  BY <1>4, <1>5, DemandMonotone
<1>8. Demand(request, A) \in Nat /\ Demand(request, before) \in Nat
  BY <1>4, DemandIsLedger
<1> QED BY <1>1, <1>4, <1>6, <1>7, <1>8

\* The order and the free memory determine what is granted.
LEMMA GrantIsUnique ==
    ASSUME InputsOK, NEW queue \in SUBSET Waiters, NEW room \in Nat,
           NEW A \in GrantSets(request, Older, queue, room),
           NEW B \in GrantSets(request, Older, queue, room)
    PROVE  A = B
<1> SUFFICES ASSUME A # B
             PROVE  FALSE
  OBVIOUS
<1> DEFINE differ == (A \ B) \cup (B \ A)
<1>1. differ \in SUBSET Waiters /\ differ # {}
  BY DEF GrantSets
<1>2. PICK w \in differ : \A y \in differ : y = w \/ First(w, y)
  BY <1>1, FirstOfSome
<1>3. CASE w \in A \ B
  BY <1>2, <1>3, NoFirstDifference
<1>4. CASE w \in B \ A
  <2>1. \A y \in (B \ A) \cup (A \ B) : y = w \/ First(w, y)
    BY <1>2
  <2> QED BY <1>4, <2>1, NoFirstDifference
<1> QED BY <1>2, <1>3, <1>4

\* Erasing an element of an ascending vector.
Erased(S, s, k, t) ==
    /\ t \in Seq(S)
    /\ Len(t) = Len(s) - 1
    /\ \A i, j \in DOMAIN t : i < j => t[i] < t[j]
    /\ Range(t) = Range(s) \ {s[k]}
    /\ \A i \in 1 .. k - 1 : t[i] = s[i]

LEMMA EraseAscending ==
    ASSUME NEW S \in SUBSET Nat, NEW s \in Seq(S),
           \A i, j \in DOMAIN s : i < j => s[i] < s[j],
           NEW k \in 1 .. Len(s), NEW t, t = RemoveAt(s, k)
    PROVE  Erased(S, s, k, t)
<1>1. /\ Len(s) \in Nat /\ DOMAIN s = 1 .. Len(s)
      /\ \A i \in 1 .. Len(s) : s[i] \in Nat
  BY LenProperties
<1>2. /\ t \in Seq(S) /\ Len(t) = Len(s) - 1
      /\ \A j \in 1 .. Len(s) - 1 : t[j] = IF j < k THEN s[j] ELSE s[j + 1]
  <2>1. Without(S, s, k, t)
    BY RemoveAtProperties
  <2> QED BY <2>1 DEF Without
<1>3. DOMAIN t = 1 .. Len(s) - 1
  BY <1>2, LenProperties
<1>4. ASSUME NEW i \in DOMAIN t, NEW j \in DOMAIN t, i < j
      PROVE  t[i] < t[j]
  <2> DEFINE I == IF i < k THEN i ELSE i + 1
             J == IF j < k THEN j ELSE j + 1
  <2>1. I \in DOMAIN s /\ J \in DOMAIN s /\ I < J
    BY <1>1, <1>3, <1>4
  <2>2. t[i] = s[I] /\ t[j] = s[J]
    BY <1>2, <1>3
  <2> QED BY <2>1, <2>2
<1>5. ASSUME NEW x \in Range(t)
      PROVE  x \in Range(s) \ {s[k]}
  <2>1. PICK j \in DOMAIN t : x = t[j]
    BY <1>5 DEF Range
  <2> DEFINE J == IF j < k THEN j ELSE j + 1
  <2>2. J \in DOMAIN s /\ k \in DOMAIN s /\ J # k /\ x = s[J]
    BY <1>1, <1>2, <1>3, <2>1
  <2> HIDE DEF J
  <2>3. s[J] # s[k]
    <3>1. CASE J < k
      BY <1>1, <2>2, <3>1
    <3>2. CASE k < J
      BY <1>1, <2>2, <3>2
    <3> QED BY <1>1, <2>2, <3>1, <3>2
  <2> QED BY <2>2, <2>3 DEF Range
<1>6. ASSUME NEW x \in Range(s) \ {s[k]}
      PROVE  x \in Range(t)
  <2>1. PICK j \in DOMAIN s : x = s[j]
    BY <1>6 DEF Range
  <2> DEFINE J == IF j < k THEN j ELSE j - 1
  <2>2. j # k
    BY <1>6, <2>1
  <2>3. J \in DOMAIN t /\ t[J] = s[j]
    <3>1. CASE j < k
      BY <1>1, <1>2, <1>3, <3>1
    <3>2. CASE j > k
      <4>1. j - 1 \in 1 .. Len(s) - 1 /\ ~ (j - 1 < k) /\ (j - 1) + 1 = j
        BY <1>1, <3>2
      <4>2. t[j - 1] = s[(j - 1) + 1]
        BY <1>2, <4>1
      <4>3. J = j - 1
        BY <1>1, <3>2
      <4> QED BY <1>3, <4>1, <4>2, <4>3
    <3> QED BY <1>1, <2>2, <3>1, <3>2
  <2> QED BY <2>1, <2>3 DEF Range
<1>7. \A i \in 1 .. k - 1 : t[i] = s[i]
  BY <1>1, <1>2
<1> QED BY <1>2, <1>4, <1>5, <1>6, <1>7 DEF Erased

-----------------------------------------------------------------------------
(***************************************************************************)
(* The invariant.                                                          *)
(***************************************************************************)

\* The empty set asks for nothing.
LEMMA DemandNone ==
    ASSUME NEW requests
    PROVE  Demand(requests, {}) = 0
BY TotalEmpty DEF Demand

\* The inputs of the pass do not change, and with them the order of service.
LEMMA InputsStay ==
    ASSUME UNCHANGED inputs
    PROVE  /\ InputsOK => InputsOK'
           /\ Waiters' = Waiters
           /\ \A v, w : First(v, w)' <=> First(v, w)
BY DEF inputs, InputsOK, Waiters, First, Precedes, Older

\* The indices and elements of pending_.
LEMMA QueueTyped ==
    ASSUME LoopInv
    PROVE  /\ Len(pending) \in Nat
           /\ DOMAIN pending = 1 .. Len(pending)
           /\ \A i \in 1 .. Len(pending) : pending[i] \in Waiters /\ pending[i] \in Range(pending)
           /\ \A w \in Range(pending) : \E i \in 1 .. Len(pending) : w = pending[i]
           /\ Range(pending) \subseteq Waiters
           /\ index \in Nat /\ selected \in Nat /\ free \in Nat /\ atStart \in Nat
           /\ index <= Len(pending) + 1 /\ selected <= Len(pending)
<1>1. /\ Len(pending) \in Nat /\ DOMAIN pending = 1 .. Len(pending)
      /\ \A i \in 1 .. Len(pending) : pending[i] \in Waiters
  BY LenProperties DEF LoopInv, QueueInOrder
<1>2. /\ index \in 1 .. Len(pending) + 1 /\ selected \in 0 .. Len(pending)
      /\ atStart \in Nat /\ free \in 0 .. atStart
  BY DEF LoopInv, TypeOK, InputsOK
<1> QED BY <1>1, <1>2 DEF Range

\* The pass starts in order.
LEMMA LoopInitially == Init => LoopInv
<1> SUFFICES ASSUME Init
             PROVE  LoopInv
  OBVIOUS
<1>1. PICK n \in 0 .. MaxWaiters :
         /\ request \in [1 .. n -> Requests]
         /\ due \in SUBSET (1 .. n)
         /\ pending = [w \in 1 .. n |-> w]
  BY DEF Init, Requests
<1>2. n \in Nat /\ Waiters = 1 .. n /\ atStart \in Nat
  BY <1>1, LoopAssumption DEF Waiters, Init
<1>3. pending \in Seq(Waiters) /\ Len(pending) = n /\ DOMAIN pending = 1 .. n
  BY <1>1, <1>2
<1>4. Range(pending) = Waiters
  BY <1>1, <1>2 DEF Range
<1>5. InputsOK
  BY <1>1, <1>2 DEF InputsOK
<1>6. TypeOK
  BY <1>2, <1>3, <1>4 DEF TypeOK, Init
<1>7. QueueInOrder
  BY <1>1, <1>3 DEF QueueInOrder
<1>8. OnePlace /\ Swept /\ BestSoFar /\ PassedOver
  BY <1>4 DEF OnePlace, Swept, BestSoFar, PassedOver, Init
<1>9. Books
  BY <1>2, DemandNone DEF Books, Init
<1> QED BY <1>5, <1>6, <1>7, <1>8, <1>9 DEF LoopInv

\* The sweep drops the due requests, each once, and nobody else.
LEMMA ExpireKeeps ==
    ASSUME LoopInv, Expire
    PROVE  LoopInv'
<1>1. /\ InputsOK /\ TypeOK /\ QueueInOrder /\ OnePlace
      /\ Swept /\ Books /\ BestSoFar /\ PassedOver
  BY DEF LoopInv
<1>2. /\ phase = "expire" /\ phase' = "expire" /\ index <= Len(pending)
      /\ UNCHANGED <<inputs, free, selected, granted, phase>>
  BY DEF Expire
<1>3. InputsOK' /\ Waiters' = Waiters
  BY <1>1, <1>2, InputsStay
<1>4. /\ granted = {} /\ selected = 0 /\ timedOut \subseteq due
      /\ \A i \in 1 .. index - 1 : pending[i] \notin due
  BY <1>1, <1>2 DEF Swept
<1>5. /\ Len(pending) \in Nat /\ index \in 1 .. Len(pending) /\ Waiters \subseteq Nat
      /\ pending[index] \in Waiters /\ pending[index] \in Range(pending)
  BY <1>1, <1>2, QueueTyped, WaitersTyped DEF TypeOK
<1>6. Books' /\ BestSoFar' /\ PassedOver'
  BY <1>1, <1>2, <1>4 DEF Books, BestSoFar, PassedOver, inputs
<1>7. CASE pending[index] \in due
  <2>1. /\ timedOut' = timedOut \cup {pending[index]}
        /\ pending' = RemoveAt(pending, index)
        /\ index' = index
    BY <1>7 DEF Expire
  <2>2. /\ pending' \in Seq(Waiters)
        /\ Len(pending') = Len(pending) - 1
        /\ \A i, j \in DOMAIN pending' : i < j => pending'[i] < pending'[j]
        /\ Range(pending') = Range(pending) \ {pending[index]}
        /\ \A i \in 1 .. index - 1 : pending'[i] = pending[i]
    <3>1. /\ pending \in Seq(Waiters) /\ Waiters \in SUBSET Nat /\ index \in 1 .. Len(pending)
          /\ \A i, j \in DOMAIN pending : i < j => pending[i] < pending[j]
      BY <1>1, <1>5 DEF QueueInOrder
    <3>2. Erased(Waiters, pending, index, pending')
      BY <2>1, <3>1, EraseAscending
    <3> QED BY <3>2 DEF Erased
  <2>3. QueueInOrder'
    BY <1>3, <2>2 DEF QueueInOrder
  <2>4. OnePlace'
    BY <1>1, <1>2, <1>3, <1>4, <1>5, <2>1, <2>2 DEF OnePlace
  <2>5. TypeOK'
    <3>1. index' \in 1 .. Len(pending') + 1 /\ selected' \in 0 .. Len(pending')
      BY <1>2, <1>4, <1>5, <2>1, <2>2
    <3>2. Range(pending') \subseteq Waiters' /\ timedOut' \subseteq Waiters'
      BY <1>1, <1>3, <1>5, <2>1, <2>2 DEF TypeOK
    <3> QED BY <1>1, <1>2, <1>3, <3>1, <3>2 DEF TypeOK, inputs
  <2>6. Swept'
    BY <1>2, <1>4, <1>7, <2>1, <2>2 DEF Swept, inputs
  <2> QED BY <1>3, <1>6, <2>3, <2>4, <2>5, <2>6 DEF LoopInv
<1>8. CASE pending[index] \notin due
  <2>1. UNCHANGED <<timedOut, pending>> /\ index' = index + 1
    BY <1>8 DEF Expire
  <2>2. QueueInOrder' /\ OnePlace'
    BY <1>1, <1>2, <1>3, <2>1 DEF QueueInOrder, OnePlace
  <2>3. TypeOK'
    BY <1>1, <1>2, <1>3, <1>5, <2>1 DEF TypeOK, inputs
  <2>4. Swept'
    BY <1>2, <1>4, <1>5, <1>8, <2>1 DEF Swept, inputs
  <2> QED BY <1>3, <1>6, <2>2, <2>3, <2>4 DEF LoopInv
<1> QED BY <1>7, <1>8

\* When the sweep is over exactly the due requests have timed out.
LEMMA StartScanKeeps ==
    ASSUME LoopInv, StartScan
    PROVE  LoopInv'
<1>1. /\ InputsOK /\ TypeOK /\ QueueInOrder /\ OnePlace
      /\ Swept /\ Books /\ BestSoFar /\ PassedOver
  BY DEF LoopInv
<1>2. /\ phase = "expire" /\ phase' = "scan" /\ index > Len(pending)
      /\ index' = 1 /\ selected' = 0
      /\ UNCHANGED <<inputs, pending, free, granted, timedOut>>
  BY DEF StartScan
<1>3. /\ InputsOK' /\ Waiters' = Waiters
  BY <1>1, <1>2, InputsStay
<1>4. /\ granted = {} /\ timedOut \subseteq due
      /\ \A i \in 1 .. index - 1 : pending[i] \notin due
  BY <1>1, <1>2 DEF Swept
<1>5. /\ Len(pending) \in Nat /\ index = Len(pending) + 1
      /\ \A w \in Range(pending) : \E i \in 1 .. Len(pending) : w = pending[i]
  BY <1>2, QueueTyped
<1>6. Range(pending) \cap due = {}
  BY <1>4, <1>5
<1>7. timedOut = due
  BY <1>1, <1>4, <1>6 DEF OnePlace, InputsOK
<1>8. Swept' /\ Books' /\ PassedOver'
  BY <1>1, <1>2, <1>4, <1>7 DEF Swept, Books, PassedOver, inputs
<1>9. QueueInOrder' /\ OnePlace' /\ BestSoFar'
  BY <1>1, <1>2, <1>3 DEF QueueInOrder, OnePlace, BestSoFar
<1>10. TypeOK'
  BY <1>1, <1>2, <1>3, <1>5 DEF TypeOK, inputs
<1> QED BY <1>3, <1>8, <1>9, <1>10 DEF LoopInv

\* One more request has been looked at.
LEMMA ScanKeeps ==
    ASSUME LoopInv, Scan
    PROVE  LoopInv'
<1> DEFINE candidate == pending[index]
<1>1. /\ InputsOK /\ TypeOK /\ QueueInOrder /\ OnePlace
      /\ Swept /\ Books /\ BestSoFar /\ PassedOver
  BY DEF LoopInv
<1>2. /\ phase = "scan" /\ phase' = "scan" /\ index <= Len(pending)
      /\ index' = index + 1
      /\ UNCHANGED <<inputs, pending, free, granted, timedOut, phase>>
  BY DEF Scan
<1>3. /\ InputsOK' /\ Waiters' = Waiters
      /\ \A v, w : First(v, w)' <=> First(v, w)
  BY <1>1, <1>2, InputsStay
<1>4. /\ Len(pending) \in Nat /\ index \in 1 .. Len(pending) /\ selected \in 0 .. Len(pending)
      /\ \A i \in 1 .. Len(pending) : pending[i] \in Waiters
  BY <1>1, <1>2, QueueTyped DEF TypeOK
<1>5. /\ ~ FitsAt(index) => selected' = selected
      /\ FitsAt(index) =>
            selected' = IF selected = 0 \/ First(candidate, pending[selected])
                        THEN index ELSE selected
  <2>1. request[candidate].bytes \in Nat /\ free \in Nat
    BY <1>1, <1>4, WaitersTyped, QueueTyped
  <2> QED BY <1>4, <2>1 DEF Scan, FitsAt, First
<1>6. \A i : FitsAt(i)' <=> FitsAt(i)
  BY <1>2 DEF FitsAt, inputs
<1>7. QueueInOrder' /\ OnePlace' /\ Swept' /\ Books'
  BY <1>1, <1>2, <1>3 DEF QueueInOrder, OnePlace, Swept, Books, inputs
<1>8. PassedOver'
  BY <1>1, <1>2, <1>3 DEF PassedOver, Before, First, inputs
<1>9. TypeOK'
  BY <1>1, <1>2, <1>3, <1>4, <1>5 DEF TypeOK, inputs
<1>10. /\ \A u, v, w \in Waiters : First(u, v) /\ First(v, w) => First(u, w)
       /\ \A v, w \in Waiters : v = w \/ First(v, w) \/ First(w, v)
  BY <1>1, ServiceOrder
<1>11. BestSoFar'
  <2>1. \A i \in 1 .. index' - 1 : i \in 1 .. index - 1 \/ i = index
    BY <1>2, <1>4
  <2>2. CASE ~ FitsAt(index)
    <3>1. selected' = selected
      BY <1>5, <2>2
    <3>2. selected = 0 => \A i \in 1 .. index' - 1 : ~ FitsAt(i)
      BY <1>1, <1>2, <2>1, <2>2 DEF BestSoFar
    <3>3. selected # 0 =>
             /\ selected < index'
             /\ FitsAt(selected)
             /\ \A i \in 1 .. index' - 1 :
                   FitsAt(i) => i = selected \/ First(pending[selected], pending[i])
      BY <1>1, <1>2, <1>4, <2>1, <2>2 DEF BestSoFar
    <3> QED BY <1>2, <1>3, <1>6, <3>1, <3>2, <3>3 DEF BestSoFar
  <2>3. CASE FitsAt(index) /\ selected = 0
    <3>1. selected' = index /\ index # 0
      BY <1>4, <1>5, <2>3
    <3>2. \A i \in 1 .. index - 1 : ~ FitsAt(i)
      BY <1>1, <1>2, <2>3 DEF BestSoFar
    <3>3. /\ index < index'
          /\ \A i \in 1 .. index' - 1 : FitsAt(i) => i = index
      BY <1>2, <1>4, <2>1, <3>2
    <3> QED BY <1>2, <1>3, <1>6, <2>3, <3>1, <3>3 DEF BestSoFar
  <2>4. CASE FitsAt(index) /\ selected # 0
    <3>1. /\ selected < index /\ FitsAt(selected) /\ pending[selected] \in Waiters
          /\ candidate \in Waiters
          /\ \A i \in 1 .. index - 1 : pending[i] \in Waiters
          /\ \A i \in 1 .. index - 1 :
                FitsAt(i) => i = selected \/ First(pending[selected], pending[i])
      BY <1>1, <1>2, <1>4, <2>4 DEF BestSoFar
    <3>2. CASE First(candidate, pending[selected])
      <4>1. selected' = index /\ index # 0
        BY <1>4, <1>5, <2>4, <3>2
      <4>2. \A i \in 1 .. index - 1 : FitsAt(i) => First(candidate, pending[i])
        BY <1>10, <3>1, <3>2
      <4>3. /\ index < index'
            /\ \A i \in 1 .. index' - 1 :
                  FitsAt(i) => i = index \/ First(candidate, pending[i])
        BY <1>2, <1>4, <2>1, <4>2
      <4> QED BY <1>2, <1>3, <1>6, <2>4, <4>1, <4>3 DEF BestSoFar
    <3>3. CASE ~ First(candidate, pending[selected])
      <4>1. selected' = selected
        BY <1>5, <2>4, <3>3
      <4>2. candidate # pending[selected]
        <5>1. selected \in DOMAIN pending /\ index \in DOMAIN pending /\ selected < index
          BY <1>4, <2>4, <3>1, QueueTyped
        <5>2. pending[selected] < pending[index]
          BY <1>1, <5>1 DEF QueueInOrder
        <5>3. pending[selected] \in Nat /\ candidate \in Nat
          BY <1>1, <3>1, WaitersTyped
        <5> QED BY <5>2, <5>3
      <4>3. First(pending[selected], candidate)
        BY <1>10, <3>1, <3>3, <4>2
      <4>4. /\ selected < index'
            /\ \A i \in 1 .. index' - 1 :
                  FitsAt(i) => i = selected \/ First(pending[selected], pending[i])
        BY <1>2, <1>4, <2>1, <3>1, <4>3
      <4> QED BY <1>2, <1>3, <1>6, <2>4, <3>1, <4>1, <4>4 DEF BestSoFar
    <3> QED BY <3>2, <3>3
  <2> QED BY <2>2, <2>3, <2>4
<1> QED BY <1>3, <1>7, <1>8, <1>9, <1>11 DEF LoopInv

\* The selected request is granted: those it leaves waiting come after it or
\* did not fit before it was granted.
LEMMA GrantKeeps ==
    ASSUME LoopInv, Grant
    PROVE  LoopInv'
<1> DEFINE waiter == pending[selected]
<1>1. /\ InputsOK /\ TypeOK /\ QueueInOrder /\ OnePlace
      /\ Swept /\ Books /\ BestSoFar /\ PassedOver
  BY DEF LoopInv
<1>2. /\ phase = "scan" /\ phase' = "scan" /\ index > Len(pending) /\ selected # 0
      /\ granted' = granted \cup {waiter}
      /\ free' = free - request[waiter].bytes
      /\ pending' = RemoveAt(pending, selected)
      /\ index' = 1 /\ selected' = 0
      /\ UNCHANGED <<inputs, timedOut>>
  BY DEF Grant
<1>3. /\ InputsOK' /\ Waiters' = Waiters
      /\ \A v, w : First(v, w)' <=> First(v, w)
      /\ request' = request /\ atStart' = atStart
  BY <1>1, <1>2, InputsStay DEF inputs
<1>4. /\ Len(pending) \in Nat /\ index = Len(pending) + 1 /\ selected \in 1 .. Len(pending)
      /\ waiter \in Waiters /\ waiter \in Range(pending)
      /\ Waiters \in SUBSET Nat
      /\ free \in Nat /\ atStart \in Nat /\ request[waiter].bytes \in Nat
      /\ \A w \in Range(pending) : \E i \in 1 .. Len(pending) : w = pending[i]
  BY <1>1, <1>2, QueueTyped, WaitersTyped
<1>5. /\ pending' \in Seq(Waiters)
      /\ Len(pending') = Len(pending) - 1
      /\ \A i, j \in DOMAIN pending' : i < j => pending'[i] < pending'[j]
      /\ Range(pending') = Range(pending) \ {waiter}
  <2>1. /\ pending \in Seq(Waiters)
        /\ \A i, j \in DOMAIN pending : i < j => pending[i] < pending[j]
    BY <1>1 DEF QueueInOrder
  <2>2. Erased(Waiters, pending, selected, pending')
    BY <1>2, <1>4, <2>1, EraseAscending
  <2> QED BY <2>2 DEF Erased
<1>6. /\ request[waiter].bytes <= free
      /\ \A i \in 1 .. Len(pending) :
            FitsAt(i) => pending[i] = waiter \/ First(waiter, pending[i])
  BY <1>1, <1>2, <1>4 DEF BestSoFar, FitsAt
<1>7. /\ granted \subseteq Waiters /\ granted' \subseteq Waiters /\ waiter \notin granted
      /\ WellFormed(request, granted) /\ WellFormed(request, granted')
      /\ \A w : WellFormed(request, Before(w)) /\ Demand(request, Before(w)) \in Nat
      /\ \A w : WellFormed(request, Before(w)') /\ Demand(request, Before(w)') \in Nat
  <2>1. granted \subseteq Waiters /\ granted' \subseteq Waiters /\ waiter \notin granted
    BY <1>1, <1>2, <1>4 DEF OnePlace
  <2>2. \A w : Before(w) \subseteq granted /\ Before(w)' \subseteq granted'
    BY DEF Before
  <2> QED BY <1>1, <2>1, <2>2, WaitersTyped, DemandIsLedger
<1>8. QueueInOrder' /\ OnePlace'
  BY <1>1, <1>2, <1>3, <1>4, <1>5, <1>7 DEF QueueInOrder, OnePlace
<1>9. TypeOK'
  <2>1. free' \in 0 .. atStart
    BY <1>1, <1>2, <1>4, <1>6 DEF TypeOK
  <2>2. index' \in 1 .. Len(pending') + 1 /\ selected' \in 0 .. Len(pending')
    BY <1>2, <1>4, <1>5
  <2>3. Range(pending') \subseteq Waiters
    BY <1>1, <1>5 DEF TypeOK
  <2> QED BY <1>1, <1>2, <1>3, <1>7, <2>1, <2>2, <2>3 DEF TypeOK
<1>10. Swept' /\ BestSoFar'
  BY <1>1, <1>2, <1>4 DEF Swept, BestSoFar, inputs
<1>11. Books'
  <2>1. granted' \ {waiter} = granted /\ waiter \in granted'
    BY <1>2, <1>7
  <2>2. Demand(request, granted') = Demand(request, granted) + request[waiter].bytes
    BY <1>7, <2>1, DemandRemove
  <2>3. Demand(request, granted) \in Nat
    BY <1>7, DemandIsLedger
  <2> QED BY <1>1, <1>2, <1>3, <1>4, <2>2, <2>3 DEF Books
<1>12. PassedOver'
  <2> SUFFICES ASSUME NEW w \in Range(pending)'
               PROVE  \/ \A v \in granted' : First(v, w)
                      \/ request[w].bytes + Demand(request, Before(w)') > atStart
    BY <1>3 DEF PassedOver
  <2>1. w \in Range(pending) /\ w # waiter /\ request[w].bytes \in Nat
    <3>1. w \in Range(pending) /\ w # waiter
      BY <1>5
    <3> QED BY <1>1, <3>1, QueueTyped, WaitersTyped
  <2>2. Before(w) \subseteq Before(w)'
    BY <1>2, <1>3 DEF Before
  <2>3. Demand(request, Before(w)) <= Demand(request, Before(w)')
    BY <1>7, <2>2, DemandMonotone
  <2>4. CASE request[w].bytes + Demand(request, Before(w)) > atStart
    <3>1. Demand(request, Before(w)) \in Nat /\ Demand(request, Before(w)') \in Nat
      BY <1>7
    <3> QED BY <1>4, <2>1, <2>3, <2>4, <3>1
  <2>5. CASE \A v \in granted : First(v, w)
    <3>1. Before(w) = granted
      BY <2>5 DEF Before
    <3>2. PICK i \in 1 .. Len(pending) : w = pending[i]
      BY <1>4, <2>1
    <3>3. CASE FitsAt(i)
      BY <1>2, <1>6, <2>1, <2>5, <3>2, <3>3
    <3>4. CASE ~ FitsAt(i)
      <4>1. request[w].bytes > free
        BY <1>4, <2>1, <3>2, <3>4 DEF FitsAt
      <4>2. free = atStart - Demand(request, Before(w))
        BY <1>1, <3>1 DEF Books
      <4> QED BY <1>4, <1>7, <2>1, <2>3, <4>1, <4>2
    <3> QED BY <3>3, <3>4
  <2> QED BY <1>1, <2>1, <2>4, <2>5 DEF PassedOver
<1> QED BY <1>3, <1>8, <1>9, <1>10, <1>11, <1>12 DEF LoopInv

\* The pass is over when nothing that is left fits.
LEMMA StopKeeps ==
    ASSUME LoopInv, Stop
    PROVE  LoopInv'
<1>1. /\ InputsOK /\ TypeOK /\ QueueInOrder /\ OnePlace
      /\ Swept /\ Books /\ BestSoFar /\ PassedOver
  BY DEF LoopInv
<1>2. /\ phase = "scan" /\ phase' = "done" /\ index > Len(pending) /\ selected = 0
      /\ UNCHANGED <<inputs, pending, free, index, selected, granted, timedOut>>
  BY DEF Stop
<1>3. /\ InputsOK' /\ Waiters' = Waiters
      /\ \A v, w : First(v, w)' <=> First(v, w)
  BY <1>1, <1>2, InputsStay
<1>4. Len(pending) \in Nat /\ index = Len(pending) + 1 /\ DOMAIN pending = 1 .. Len(pending)
  BY <1>2, QueueTyped
<1>5. BestSoFar'
  BY <1>1, <1>2, <1>4 DEF BestSoFar, FitsAt, inputs
<1>6. QueueInOrder' /\ OnePlace' /\ Swept' /\ Books' /\ TypeOK'
  BY <1>1, <1>2, <1>3 DEF QueueInOrder, OnePlace, Swept, Books, TypeOK, inputs
<1>7. PassedOver'
  BY <1>1, <1>2, <1>3 DEF PassedOver, Before, First, inputs
<1> QED BY <1>3, <1>5, <1>6, <1>7 DEF LoopInv

\* A stuttering step changes nothing.
LEMMA LoopStutters ==
    ASSUME LoopInv, UNCHANGED vars
    PROVE  LoopInv'
<1>1. UNCHANGED <<request, due, atStart, pending, free, index, selected, granted, timedOut, phase>>
  BY DEF vars, inputs
<1>2. (InputsOK /\ TypeOK /\ QueueInOrder /\ OnePlace)'
  BY <1>1 DEF LoopInv, InputsOK, TypeOK, QueueInOrder, OnePlace, Waiters
<1>3. (Swept /\ Books /\ BestSoFar /\ PassedOver)'
  BY <1>1 DEF LoopInv, Swept, Books, BestSoFar, PassedOver, Before, First, FitsAt, Older, Waiters
<1> QED BY <1>2, <1>3 DEF LoopInv

-----------------------------------------------------------------------------

\* The loops of grant_waiters_locked keep the invariant, for every queue.
THEOREM LoopInvariance == Spec => []LoopInv
<1>1. Init => LoopInv
  BY LoopInitially
<1>2. LoopInv /\ [Next]_vars => LoopInv'
  BY ExpireKeeps, StartScanKeeps, ScanKeeps, GrantKeeps, StopKeeps, LoopStutters DEF Next
<1> QED BY <1>1, <1>2, PTL DEF Spec

\* The indices of the loops stay inside pending_ while it is erased from, and
\* the free memory never goes below 0.
THEOREM LoopTypeCorrect == Spec => []TypeOK
<1>1. LoopInv => TypeOK
  BY DEF LoopInv
<1> QED BY <1>1, LoopInvariance, PTL

\* Erasing from pending_ while it is walked loses nobody and serves nobody
\* twice, whatever the lengths and the deadlines.
THEOREM PartitionCorrect == Spec => []Partition
<1>1. LoopInv => Partition
  <2> SUFFICES ASSUME LoopInv
               PROVE  Partition
    OBVIOUS
  <2>1. InputsOK /\ OnePlace /\ QueueInOrder
    BY DEF LoopInv
  <2>2. /\ Len(pending) \in Nat /\ DOMAIN pending = 1 .. Len(pending)
        /\ \A i \in 1 .. Len(pending) : pending[i] \in Waiters
        /\ Range(pending) \subseteq Waiters
    BY QueueTyped
  <2>3. IsFiniteSet(Waiters) /\ Waiters \subseteq Nat
    BY <2>1, WaitersTyped
  <2>4. Cardinality(Range(pending)) = Len(pending)
    <3>1. pending \in [1 .. Len(pending) -> Range(pending)]
      BY <2>1, <2>2 DEF QueueInOrder, Range
    <3>2. ASSUME NEW i \in 1 .. Len(pending), NEW j \in 1 .. Len(pending),
                 pending[i] = pending[j]
          PROVE  i = j
      <4>1. pending[i] \in Nat /\ pending[j] \in Nat
        BY <2>2, <2>3
      <4>2. ~ (i < j) /\ ~ (j < i)
        BY <2>1, <2>2, <3>2, <4>1 DEF QueueInOrder
      <4> QED BY <2>2, <4>2
    <3>3. pending \in Injection(1 .. Len(pending), Range(pending))
      BY <2>2, <3>1, <3>2 DEF Injection, IsInjective
    <3>4. pending \in Surjection(1 .. Len(pending), Range(pending))
      BY <2>2, <3>1 DEF Surjection, Range
    <3>5. ExistsBijection(1 .. Len(pending), Range(pending))
      BY <3>3, <3>4 DEF Bijection, ExistsBijection
    <3> QED BY <2>2, <3>5, FS_CountingElements
  <2>5. IsFiniteSet(Range(pending)) /\ IsFiniteSet(granted) /\ IsFiniteSet(timedOut)
    BY <2>1, <2>2, <2>3, FS_Subset DEF OnePlace
  <2>6. /\ IsFiniteSet(granted \cup timedOut)
        /\ Cardinality(granted \cup timedOut)
              = Cardinality(granted) + Cardinality(timedOut) - Cardinality({})
    BY <2>1, <2>5, FS_Union DEF OnePlace
  <2>7. /\ Range(pending) \cap (granted \cup timedOut) = {}
        /\ Range(pending) \cup (granted \cup timedOut) = Waiters
    BY <2>1 DEF OnePlace
  <2>8. Cardinality(Waiters) = Cardinality(Range(pending))
                               + Cardinality(granted \cup timedOut) - Cardinality({})
    BY <2>5, <2>6, <2>7, FS_Union
  <2>9. /\ Cardinality({}) = 0 /\ Cardinality(granted) \in Nat
        /\ Cardinality(timedOut) \in Nat
    BY <2>5, FS_EmptySet, FS_CardinalityType
  <2>10. Cardinality(granted) + Cardinality(timedOut) + Len(pending) = Cardinality(Waiters)
    BY <2>2, <2>4, <2>6, <2>8, <2>9
  <2> QED BY <2>1, <2>10 DEF Partition, OnePlace, QueueInOrder
<1> QED BY <1>1, LoopInvariance, PTL

\* The loops of grant_waiters_locked compute the only grant set there is: the
\* step that ResourceManager takes for a whole pass is what the code does, for
\* every queue, any free memory, any set of passed deadlines and both policies.
THEOREM PassCorrect == Spec => []PassComputesGrantSet
<1>1. LoopInv => PassComputesGrantSet
  <2> SUFFICES ASSUME LoopInv, phase = "done"
               PROVE  /\ timedOut = due
                      /\ GrantSets(request, Older, Waiters \ due, atStart) = {granted}
                      /\ free = atStart - Demand(request, granted)
    BY DEF PassComputesGrantSet
  <2> DEFINE queue == Waiters \ due
  <2>1. /\ InputsOK /\ TypeOK /\ OnePlace /\ Swept /\ Books /\ BestSoFar /\ PassedOver
    BY DEF LoopInv
  <2>2. timedOut = due /\ free = atStart - Demand(request, granted)
    BY <2>1 DEF Swept, Books
  <2>3. /\ granted \subseteq queue /\ queue \ granted \subseteq Range(pending)
        /\ granted \subseteq Waiters
    BY <2>1, <2>2 DEF OnePlace
  <2>4. /\ free \in Nat /\ atStart \in Nat /\ Demand(request, granted) \in Nat
    BY <2>1, <2>3, QueueTyped, WaitersTyped, DemandIsLedger
  <2>5. ASSUME NEW w \in queue \ granted
        PROVE  request[w].bytes
                  + Demand(request, {v \in granted : Precedes(request, Older, v, w)}) > atStart
    <3>1. w \in Range(pending) /\ w \in Waiters /\ request[w].bytes \in Nat
      BY <2>1, <2>3, WaitersTyped
    <3>2. PICK i \in DOMAIN pending : w = pending[i]
      BY <3>1 DEF Range
    <3>3. request[w].bytes > free
      BY <2>1, <2>4, <3>1, <3>2 DEF BestSoFar, FitsAt
    <3>4. CASE \A v \in granted : First(v, w)
      <4>1. {v \in granted : Precedes(request, Older, v, w)} = granted
        BY <3>4 DEF First
      <4>2. request[w].bytes + Demand(request, granted) > atStart
        BY <2>2, <2>4, <3>1, <3>3
      <4> QED BY <4>1, <4>2
    <3>5. CASE request[w].bytes + Demand(request, Before(w)) > atStart
      BY <3>5 DEF Before, First
    <3> QED BY <2>1, <3>1, <3>4, <3>5 DEF PassedOver
  <2>6. granted \in GrantSets(request, Older, queue, atStart)
    BY <2>2, <2>3, <2>4, <2>5 DEF GrantSets, IsGrant
  <2>7. \A ws \in GrantSets(request, Older, queue, atStart) : ws = granted
    BY <2>1, <2>4, <2>6, GrantIsUnique
  <2> QED BY <2>2, <2>6, <2>7
<1> QED BY <1>1, LoopInvariance, PTL

=============================================================================
