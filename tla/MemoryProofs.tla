---------------------------- MODULE MemoryProofs ----------------------------
(***************************************************************************)
(* The laws of the total of a ledger and of the demand of a set of         *)
(* waiters, and what the proofs need to know of numbers and sequences.     *)
(***************************************************************************)
EXTENDS Memory, SequencesExt, FiniteSetTheorems, SequenceTheorems, TLAPS

IsLedger(f) ==
    /\ f = [k \in DOMAIN f |-> f[k]]
    /\ IsFiniteSet(DOMAIN f)
    /\ \A k \in DOMAIN f : f[k] \in Nat

\* A unit of a ledger is a key with the number of one of its bytes.
LEMMA UnitsMember ==
    ASSUME NEW f, NEW u
    PROVE  u \in Units(f) <=>
             \E k \in DOMAIN f : \E i \in 1 .. f[k] : u = <<k, i>>
BY DEF Units

\* The units of a ledger are finitely many.
LEMMA UnitsFinite ==
    ASSUME NEW f, IsLedger(f)
    PROVE  IsFiniteSet(Units(f))
<1> DEFINE D == DOMAIN f
           Block == [k \in D |-> {k} \X (1 .. f[k])]
           Blocks == {{k} \X (1 .. f[k]) : k \in D}
<1>1. Block \in Surjection(D, Blocks)
  BY DEF Surjection
<1>2. IsFiniteSet(Blocks)
  <2> HIDE DEF Block, Blocks
  <2> QED BY <1>1, FS_Surjection DEF IsLedger
<1>3. ASSUME NEW k \in D
      PROVE  IsFiniteSet({k} \X (1 .. f[k]))
  <2>1. IsFiniteSet({k})
    BY FS_Singleton
  <2>2. IsFiniteSet(1 .. f[k])
    BY FS_Interval DEF IsLedger
  <2> QED BY <2>1, <2>2, FS_Product
<1>4. \A B \in Blocks : IsFiniteSet(B)
  BY <1>3
<1>5. IsFiniteSet(UNION Blocks)
  <2> HIDE DEF Blocks
  <2> QED BY <1>2, <1>4, FS_UNION
<1> QED BY <1>5 DEF Units

\* A total is a natural number.
LEMMA TotalNat ==
    ASSUME NEW f, IsLedger(f)
    PROVE  Total(f) \in Nat
BY UnitsFinite, FS_CardinalityType DEF Total

\* The empty ledger totals 0.
LEMMA TotalEmpty ==
    ASSUME NEW f, DOMAIN f = {}
    PROVE  Total(f) = 0
<1>1. Units(f) = {}
  BY DEF Units
<1> QED BY <1>1, FS_EmptySet DEF Total

\* Every part of a ledger is a ledger.
LEMMA PartIsLedger ==
    ASSUME NEW f, IsLedger(f), NEW S \in SUBSET (DOMAIN f)
    PROVE  IsLedger([k \in S |-> f[k]])
BY FS_Subset DEF IsLedger

\* The total of a ledger is the sum of the totals of two parts of it.
LEMMA TotalSplit ==
    ASSUME NEW f, IsLedger(f), NEW S \in SUBSET (DOMAIN f)
    PROVE  Total(f) = Total([k \in S |-> f[k]])
                      + Total([k \in DOMAIN f \ S |-> f[k]])
<1> DEFINE g == [k \in S |-> f[k]]
           h == [k \in DOMAIN f \ S |-> f[k]]
<1>1. IsLedger(g) /\ IsLedger(h)
  BY PartIsLedger
<1>2. DOMAIN g = S /\ DOMAIN h = DOMAIN f \ S
  OBVIOUS
<1>3. (\A k \in S : g[k] = f[k]) /\ (\A k \in DOMAIN f \ S : h[k] = f[k])
  OBVIOUS
<1> HIDE DEF g, h
<1>4. Units(f) = Units(g) \cup Units(h)
  <2>1. ASSUME NEW u \in Units(f) PROVE u \in Units(g) \cup Units(h)
    <3>1. PICK k \in DOMAIN f : \E i \in 1 .. f[k] : u = <<k, i>>
      BY UnitsMember
    <3>2. CASE k \in S
      BY <3>1, <3>2, <1>2, <1>3, UnitsMember
    <3>3. CASE k \notin S
      BY <3>1, <3>3, <1>2, <1>3, UnitsMember
    <3> QED BY <3>2, <3>3
  <2>2. ASSUME NEW u \in Units(g) PROVE u \in Units(f)
    BY <1>2, <1>3, UnitsMember
  <2>3. ASSUME NEW u \in Units(h) PROVE u \in Units(f)
    BY <1>2, <1>3, UnitsMember
  <2> QED BY <2>1, <2>2, <2>3
<1>5. Units(g) \cap Units(h) = {}
  <2> SUFFICES ASSUME NEW u \in Units(g), u \in Units(h) PROVE FALSE
    OBVIOUS
  <2>1. PICK k \in S : \E i \in 1 .. g[k] : u = <<k, i>>
    BY <1>2, UnitsMember
  <2>2. PICK l \in DOMAIN f \ S : \E i \in 1 .. h[l] : u = <<l, i>>
    BY <1>2, UnitsMember
  <2> QED BY <2>1, <2>2
<1>6. /\ Cardinality(Units(f)) = Cardinality(Units(g)) + Cardinality(Units(h))
                                 - Cardinality({})
      /\ Cardinality(Units(g)) \in Nat /\ Cardinality(Units(h)) \in Nat
  BY <1>1, <1>4, <1>5, UnitsFinite, FS_Union, FS_CardinalityType
<1> QED BY <1>6, FS_EmptySet DEF Total, g, h

\* A ledger with one key totals its entry.
LEMMA TotalSingleton ==
    ASSUME NEW f, NEW k, IsLedger(f), DOMAIN f = {k}
    PROVE  Total(f) = f[k]
<1> DEFINE m == [i \in 1 .. f[k] |-> <<k, i>>]
<1>1. m \in Bijection(1 .. f[k], Units(f))
  <2>1. m \in Injection(1 .. f[k], Units(f))
    BY UnitsMember DEF Injection, IsInjective
  <2>2. m \in Surjection(1 .. f[k], Units(f))
    BY UnitsMember DEF Surjection
  <2> QED BY <2>1, <2>2 DEF Bijection
<1>2. f[k] \in Nat
  BY DEF IsLedger
<1>3. ExistsBijection(1 .. f[k], Units(f))
  <2> HIDE DEF m
  <2> QED BY <1>1 DEF ExistsBijection
<1> QED BY <1>2, <1>3, FS_CountingElements DEF Total

\* Renaming the keys of a ledger one to one keeps its total.
LEMMA TotalRename ==
    ASSUME NEW f, NEW h, IsLedger(f),
           NEW key \in Bijection(DOMAIN f, DOMAIN h),
           \A k \in DOMAIN f : h[key[k]] = f[k]
    PROVE  Total(h) = Total(f)
<1> DEFINE m == [u \in Units(f) |-> <<key[u[1]], u[2]>>]
<1>1. /\ \A k \in DOMAIN f : key[k] \in DOMAIN h
      /\ \A k, l \in DOMAIN f : key[k] = key[l] => k = l
      /\ \A n \in DOMAIN h : \E k \in DOMAIN f : key[k] = n
  BY DEF Bijection, Injection, Surjection, IsInjective
<1>2. ASSUME NEW u \in Units(f)
      PROVE  /\ u = <<u[1], u[2]>>
             /\ u[1] \in DOMAIN f
             /\ u[2] \in 1 .. f[u[1]]
  <2>1. PICK k \in DOMAIN f : \E i \in 1 .. f[k] : u = <<k, i>>
    BY UnitsMember
  <2> QED BY <2>1
<1>3. m \in [Units(f) -> Units(h)]
  <2> SUFFICES ASSUME NEW u \in Units(f) PROVE <<key[u[1]], u[2]>> \in Units(h)
    OBVIOUS
  <2>1. key[u[1]] \in DOMAIN h /\ h[key[u[1]]] = f[u[1]]
    BY <1>1, <1>2
  <2> QED BY <2>1, <1>2, UnitsMember
<1>4. m \in Injection(Units(f), Units(h))
  <2> SUFFICES ASSUME NEW u \in Units(f), NEW v \in Units(f), m[u] = m[v]
               PROVE  u = v
    BY <1>3 DEF Injection, IsInjective
  <2>1. key[u[1]] = key[v[1]] /\ u[2] = v[2]
    OBVIOUS
  <2>2. u[1] = v[1]
    BY <2>1, <1>1, <1>2
  <2> QED BY <2>1, <2>2, <1>2
<1>5. m \in Surjection(Units(f), Units(h))
  <2> SUFFICES ASSUME NEW v \in Units(h) PROVE \E u \in Units(f) : m[u] = v
    BY <1>3 DEF Surjection
  <2>1. PICK n \in DOMAIN h : \E i \in 1 .. h[n] : v = <<n, i>>
    BY UnitsMember
  <2>2. PICK i \in 1 .. h[n] : v = <<n, i>>
    BY <2>1
  <2>3. PICK k \in DOMAIN f : key[k] = n
    BY <1>1
  <2>4. <<k, i>> \in Units(f)
    BY <2>2, <2>3, UnitsMember
  <2>5. m[<<k, i>>] = v
    BY <2>2, <2>3, <2>4
  <2> QED BY <2>4, <2>5
<1>6. ExistsBijection(Units(f), Units(h))
  <2> HIDE DEF m
  <2> QED BY <1>4, <1>5 DEF ExistsBijection, Bijection
<1> QED BY <1>6, UnitsFinite, FS_Bijection DEF Total

\* A function from finitely many keys to natural numbers is a ledger.
LEMMA LedgersAreLedgers ==
    ASSUME NEW Keys, NEW Amounts \in SUBSET Nat, IsFiniteSet(Keys),
           NEW f \in Ledgers(Keys, Amounts)
    PROVE  IsLedger(f) /\ DOMAIN f \subseteq Keys
BY FS_Subset DEF Ledgers, IsLedger

\* A ledger is a function from some of the keys to the values.
LEMMA LedgersFunction ==
    ASSUME NEW Keys, NEW Values, NEW f \in Ledgers(Keys, Values)
    PROVE  DOMAIN f \subseteq Keys /\ f \in [DOMAIN f -> Values]
BY DEF Ledgers

\* A function from some of the keys to the values is a ledger.
LEMMA IsLedgers ==
    ASSUME NEW Keys, NEW Values, NEW D \in SUBSET Keys, NEW f \in [D -> Values]
    PROVE  f \in Ledgers(Keys, Values)
BY DEF Ledgers

\* Emplacing and erasing entries keeps the type of a ledger.
LEMMA LedgersOps ==
    ASSUME NEW Keys, NEW Values, NEW f \in Ledgers(Keys, Values)
    PROVE  /\ \A k \in Keys, v \in Values : Emplace(f, k, v) \in Ledgers(Keys, Values)
           /\ \A S : Erase(f, S) \in Ledgers(Keys, Values)
<1>1. PICK D \in SUBSET Keys : f \in [D -> Values]
  BY DEF Ledgers
<1>2. ASSUME NEW k \in Keys, NEW v \in Values
      PROVE  Emplace(f, k, v) \in Ledgers(Keys, Values)
  <2>1. Emplace(f, k, v) \in [D \cup {k} -> Values]
    BY <1>1 DEF Emplace
  <2> QED BY <2>1 DEF Ledgers
<1>3. ASSUME NEW S PROVE Erase(f, S) \in Ledgers(Keys, Values)
  <2>1. Erase(f, S) \in [D \ S -> Values]
    BY <1>1 DEF Erase, Restrict
  <2> QED BY <2>1 DEF Ledgers
<1> QED BY <1>2, <1>3

\* The empty ledger is one.
LEMMA NoEntriesType ==
    ASSUME NEW Keys, NEW Amounts
    PROVE  NoEntries \in Ledgers(Keys, Amounts)
<1>1. NoEntries \in [{} -> Amounts]
  BY DEF NoEntries
<1> QED BY <1>1 DEF Ledgers

\* Emplacing a new key adds its amount to the total.
LEMMA TotalEmplace ==
    ASSUME NEW f, NEW k, NEW n \in Nat, IsLedger(f), k \notin DOMAIN f
    PROVE  /\ IsLedger(Emplace(f, k, n))
           /\ Total(Emplace(f, k, n)) = Total(f) + n
<1> DEFINE e == Emplace(f, k, n)
           D == DOMAIN f
<1>1. DOMAIN e = D \cup {k} /\ e[k] = n /\ \A x \in D : e[x] = f[x]
  BY DEF Emplace
<1>2. IsLedger(e)
  <2>1. IsFiniteSet(D \cup {k})
    BY FS_AddElement DEF IsLedger
  <2>2. e = [x \in DOMAIN e |-> e[x]]
    BY DEF Emplace
  <2> QED BY <1>1, <2>1, <2>2 DEF IsLedger
<1>3. [x \in D |-> e[x]] = f
  BY <1>1 DEF IsLedger
<1>4. (DOMAIN e) \ D = {k}
  BY <1>1
<1> HIDE DEF e
<1>5. Total(e) = Total([x \in D |-> e[x]]) + Total([x \in {k} |-> e[x]])
  BY <1>1, <1>2, <1>4, TotalSplit
<1>6. Total([x \in {k} |-> e[x]]) = n
  <2>1. IsLedger([x \in {k} |-> e[x]])
    BY <1>1, <1>2, PartIsLedger
  <2> QED BY <2>1, <1>1, TotalSingleton
<1> QED BY <1>2, <1>3, <1>5, <1>6 DEF e

\* Erasing keys takes what they held off the total.
LEMMA TotalErase ==
    ASSUME NEW f, IsLedger(f), NEW S \in SUBSET (DOMAIN f)
    PROVE  /\ IsLedger(Erase(f, S))
           /\ Total(Erase(f, S)) = Total(f) - Total([k \in S |-> f[k]])
           /\ Total([k \in S |-> f[k]]) \in Nat
           /\ Total([k \in S |-> f[k]]) <= Total(f)
<1>1. Erase(f, S) = [k \in DOMAIN f \ S |-> f[k]]
  BY DEF Erase, Restrict
<1>2. IsLedger(Erase(f, S)) /\ IsLedger([k \in S |-> f[k]])
  BY <1>1, PartIsLedger
<1>3. /\ Total(f) \in Nat
      /\ Total(Erase(f, S)) \in Nat
      /\ Total([k \in S |-> f[k]]) \in Nat
  BY <1>2, TotalNat
<1>4. Total(f) = Total([k \in S |-> f[k]]) + Total(Erase(f, S))
  BY <1>1, TotalSplit
<1> QED BY <1>2, <1>3, <1>4

\* Erasing one key takes its entry off the total.
LEMMA TotalEraseOne ==
    ASSUME NEW f, IsLedger(f), NEW k \in DOMAIN f
    PROVE  /\ IsLedger(Erase(f, {k}))
           /\ Total(Erase(f, {k})) = Total(f) - f[k]
           /\ f[k] \in Nat
           /\ f[k] <= Total(f)
<1>1. IsLedger([x \in {k} |-> f[x]])
  BY PartIsLedger
<1>2. Total([x \in {k} |-> f[x]]) = f[k]
  BY <1>1, TotalSingleton
<1> QED BY <1>2, TotalErase

\* Two ledgers with the same entries have the same total.
LEMMA TotalEqual ==
    ASSUME NEW f, NEW g, DOMAIN f = DOMAIN g, \A k \in DOMAIN f : f[k] = g[k]
    PROVE  Total(f) = Total(g)
<1>1. Units(f) = Units(g)
  BY DEF Units
<1> QED BY <1>1 DEF Total

\* Changing one entry changes the total by the difference.
LEMMA TotalUpdate ==
    ASSUME NEW f, NEW g, IsLedger(f), IsLedger(g), NEW k \in DOMAIN f,
           DOMAIN g = DOMAIN f, \A x \in DOMAIN f \ {k} : g[x] = f[x]
    PROVE  /\ Total(f) \in Nat /\ f[k] \in Nat /\ f[k] <= Total(f)
           /\ Total(g) = Total(f) - f[k] + g[k]
<1>1. /\ Total(Erase(f, {k})) = Total(f) - f[k] /\ f[k] \in Nat
      /\ Total(Erase(g, {k})) = Total(g) - g[k] /\ g[k] \in Nat
      /\ Total(f) \in Nat /\ Total(g) \in Nat /\ f[k] <= Total(f)
  BY TotalEraseOne, TotalNat
<1>2. Total(Erase(f, {k})) = Total(Erase(g, {k}))
  <2> DEFINE e == Erase(f, {k})
             h == Erase(g, {k})
  <2>1. /\ DOMAIN e = DOMAIN f \ {k} /\ DOMAIN h = DOMAIN g \ {k}
        /\ \A x \in DOMAIN e : e[x] = f[x]
        /\ \A x \in DOMAIN h : h[x] = g[x]
    BY DEF Erase, Restrict
  <2> HIDE DEF e, h
  <2>2. DOMAIN e = DOMAIN h /\ \A x \in DOMAIN e : e[x] = h[x]
    BY <2>1
  <2>3. Total(e) = Total(h)
    BY <2>2, TotalEqual
  <2> QED BY <2>3 DEF e, h
<1> QED BY <1>1, <1>2

\* One more entry adds its amount to the total.
LEMMA TotalGrow ==
    ASSUME NEW f, NEW g, NEW k, IsLedger(f), k \notin DOMAIN f,
           DOMAIN g = DOMAIN f \cup {k}, \A x \in DOMAIN f : g[x] = f[x], g[k] \in Nat
    PROVE  Total(g) = Total(f) + g[k]
<1> DEFINE e == Emplace(f, k, g[k])
<1>1. DOMAIN e = DOMAIN g /\ \A x \in DOMAIN e : e[x] = g[x]
  BY DEF Emplace
<1>2. Total(e) = Total(f) + g[k]
  BY TotalEmplace
<1> HIDE DEF e
<1>3. Total(e) = Total(g)
  BY <1>1, TotalEqual
<1> QED BY <1>2, <1>3

\* A set of natural numbers that is not empty has a least element.  This is
\* how the proofs do induction: over the least counterexample.
LEMMA LeastNatural ==
    ASSUME NEW S \in SUBSET Nat, S # {}
    PROVE  \E m \in S : \A k \in S : m <= k
<1> DEFINE R == {ss \in Nat \X Nat : ss[1] < ss[2]}
<1>1. IsWellFoundedOn(R, Nat)
  BY NatLessThanWellFounded DEF OpToRel
<1> HIDE DEF R
<1>2. PICK m \in S : \A k \in S : ~ (<<k, m>> \in R)
  BY <1>1, WFMin
<1>3. \A k \in S : ~ (k < m)
  BY <1>2 DEF R
<1> QED BY <1>3

\* The waiters ws are finitely many and ask for natural numbers of bytes.
WellFormed(request, ws) ==
    /\ IsFiniteSet(ws)
    /\ \A w \in ws : request[w].bytes \in Nat

\* The requests of a set of waiters form a ledger.
LEMMA DemandIsLedger ==
    ASSUME NEW request, NEW ws, WellFormed(request, ws)
    PROVE  /\ IsLedger([w \in ws |-> request[w].bytes])
           /\ Demand(request, ws) \in Nat
<1>1. IsLedger([w \in ws |-> request[w].bytes])
  BY DEF WellFormed, IsLedger
<1> QED BY <1>1, TotalNat DEF Demand

\* Demand is additive.
LEMMA DemandSplit ==
    ASSUME NEW request, NEW ws, WellFormed(request, ws), NEW vs \in SUBSET ws
    PROVE  /\ WellFormed(request, vs)
           /\ WellFormed(request, ws \ vs)
           /\ Demand(request, ws) = Demand(request, vs) + Demand(request, ws \ vs)
<1> DEFINE f == [w \in ws |-> request[w].bytes]
<1>1. IsLedger(f)
  BY DemandIsLedger
<1>2. DOMAIN f = ws
  OBVIOUS
<1>3. [w \in vs |-> f[w]] = [w \in vs |-> request[w].bytes]
  OBVIOUS
<1>4. [w \in ws \ vs |-> f[w]] = [w \in ws \ vs |-> request[w].bytes]
  OBVIOUS
<1>5. WellFormed(request, vs) /\ WellFormed(request, ws \ vs)
  BY FS_Subset DEF WellFormed
<1>6. Total(f) = Total([w \in vs |-> f[w]]) + Total([w \in ws \ vs |-> f[w]])
  <2> HIDE DEF f
  <2> QED BY <1>1, <1>2, TotalSplit
<1> QED BY <1>3, <1>4, <1>5, <1>6 DEF Demand

\* A subset of the waiters asks for no more than all of them.
LEMMA DemandMonotone ==
    ASSUME NEW request, NEW ws, WellFormed(request, ws), NEW vs \in SUBSET ws
    PROVE  Demand(request, vs) <= Demand(request, ws)
<1>1. /\ WellFormed(request, vs)
      /\ WellFormed(request, ws \ vs)
      /\ Demand(request, ws) = Demand(request, vs) + Demand(request, ws \ vs)
  BY DemandSplit
<1>2. Demand(request, vs) \in Nat /\ Demand(request, ws \ vs) \in Nat
  BY <1>1, DemandIsLedger
<1> QED BY <1>1, <1>2

\* One waiter asks for its bytes.
LEMMA DemandOne ==
    ASSUME NEW request, NEW w, request[w].bytes \in Nat
    PROVE  Demand(request, {w}) = request[w].bytes
<1> DEFINE f == [v \in {w} |-> request[v].bytes]
<1>1. WellFormed(request, {w})
  BY FS_Singleton DEF WellFormed
<1>2. IsLedger(f)
  BY <1>1, DemandIsLedger
<1>3. DOMAIN f = {w} /\ f[w] = request[w].bytes
  OBVIOUS
<1> HIDE DEF f
<1>4. Total(f) = f[w]
  BY <1>2, <1>3, TotalSingleton
<1> QED BY <1>3, <1>4 DEF Demand, f

\* Without one of the waiters the demand is smaller by that waiter's bytes.
LEMMA DemandRemove ==
    ASSUME NEW request, NEW ws, WellFormed(request, ws), NEW v \in ws
    PROVE  /\ WellFormed(request, ws \ {v})
           /\ Demand(request, ws) = Demand(request, ws \ {v}) + request[v].bytes
<1>1. {v} \in SUBSET ws
  OBVIOUS
<1>2. /\ WellFormed(request, ws \ {v})
      /\ Demand(request, ws) = Demand(request, {v}) + Demand(request, ws \ {v})
  BY <1>1, DemandSplit
<1>3. request[v].bytes \in Nat
  BY DEF WellFormed
<1>4. Demand(request, {v}) = request[v].bytes
  BY <1>3, DemandOne
<1>5. Demand(request, ws \ {v}) \in Nat
  BY <1>2, DemandIsLedger
<1> QED BY <1>2, <1>3, <1>4, <1>5

\* What is left of a vector when the element at i is erased.
Without(S, s, i, t) ==
    /\ t \in Seq(S) /\ Len(t) = Len(s) - 1
    /\ \A j \in 1 .. Len(s) - 1 : t[j] = IF j < i THEN s[j] ELSE s[j + 1]

LEMMA RemoveAtProperties ==
    ASSUME NEW S, NEW s \in Seq(S), NEW i \in 1 .. Len(s)
    PROVE  Without(S, s, i, RemoveAt(s, i))
<1> DEFINE front == SubSeq(s, 1, i - 1)
           back == SubSeq(s, i + 1, Len(s))
<1>1. Len(s) \in Nat /\ \A j \in 1 .. Len(s) : s[j] \in S
  BY LenProperties
<1>2. /\ front \in Seq(S) /\ Len(front) = i - 1
      /\ \A j \in 1 .. i - 1 : front[j] = s[j]
  BY <1>1, SubSeqProperties
<1>3. /\ back \in Seq(S) /\ Len(back) = Len(s) - i
      /\ \A j \in 1 .. Len(s) - i : back[j] = s[j + i]
  BY <1>1, SubSeqProperties
<1> HIDE DEF front, back
<1>4. /\ front \o back \in Seq(S)
      /\ Len(front \o back) = Len(front) + Len(back)
      /\ \A j \in 1 .. Len(front) + Len(back) :
            (front \o back)[j] = IF j <= Len(front) THEN front[j] ELSE back[j - Len(front)]
  BY <1>2, <1>3, ConcatProperties
<1>5. RemoveAt(s, i) = front \o back
  BY DEF RemoveAt, front, back
<1>6. Len(RemoveAt(s, i)) = Len(s) - 1
  <2>1. i \in Int /\ Len(s) \in Int /\ Len(front) = i - 1 /\ Len(back) = Len(s) - i
    BY <1>1, <1>2, <1>3
  <2>2. Len(front) + Len(back) = Len(s) - 1
    BY <2>1
  <2> QED BY <1>4, <1>5, <2>2
<1>7. ASSUME NEW j \in 1 .. Len(s) - 1
      PROVE  RemoveAt(s, i)[j] = IF j < i THEN s[j] ELSE s[j + 1]
  <2>1. (front \o back)[j] = IF j <= i - 1 THEN front[j] ELSE back[j - (i - 1)]
    <3>1. i \in Int /\ Len(s) \in Int /\ Len(front) = i - 1 /\ Len(back) = Len(s) - i
      BY <1>1, <1>2, <1>3
    <3>2. Len(front) + Len(back) = Len(s) - 1
      BY <3>1
    <3> QED BY <1>4, <3>1, <3>2
  <2>2. CASE j < i
    <3>1. front[j] = s[j]
      BY <1>1, <1>2, <2>2
    <3> QED BY <1>1, <1>5, <2>1, <2>2, <3>1
  <2>3. CASE j >= i
    <3>1. j - (i - 1) \in 1 .. Len(s) - i /\ j - (i - 1) + i = j + 1
      BY <1>1, <2>3
    <3>2. back[j - (i - 1)] = s[j + 1]
      BY <1>3, <3>1
    <3> QED BY <1>1, <1>5, <2>1, <2>3, <3>2
  <2> QED BY <1>1, <2>2, <2>3
<1> QED BY <1>4, <1>5, <1>6, <1>7 DEF Without

=============================================================================
