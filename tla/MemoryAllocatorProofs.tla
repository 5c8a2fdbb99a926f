------------------------ MODULE MemoryAllocatorProofs ------------------------
(***************************************************************************)
(* The allocator hands out addresses as AddressSpace promises, for every   *)
(* capacity, every set of ids and sizes, and both strategies.              *)
(***************************************************************************)
EXTENDS MemoryAllocator, MemoryProofs

\* The blocks x and y have no address in common.
Apart(x, y) == End(x) <= y.offset \/ End(y) <= x.offset

\* A block is an interval of at least one address.
LEMMA BlockIsInterval ==
    ASSUME NEW b \in Blocks
    PROVE  /\ b = [offset |-> b.offset, bytes |-> b.bytes]
           /\ b.offset \in Nat /\ b.bytes \in Nat
           /\ End(b) \in Nat /\ End(b) = b.offset + b.bytes
           /\ b.offset < End(b)
           /\ b.bytes <= Capacity /\ b.offset <= MaxOffset
BY AllocatorAssumption DEF Blocks, End

-----------------------------------------------------------------------------
(***************************************************************************)
(* coalesce_locked: the loop.  FoldLeft is defined by recursion over the   *)
(* subsets of the positions; that there is such a function is shown with a *)
(* least counterexample.                                                   *)
(***************************************************************************)

\* A set of positions that is not empty has a greatest one.
LEMMA MaxOfPositions ==
    ASSUME NEW n \in Nat, NEW s \in SUBSET (1 .. n), s # {}
    PROVE  Max(s) \in s /\ \A y \in s : y <= Max(s)
<1> DEFINE above == {k \in Nat : \A y \in s : y <= k}
<1>1. above \in SUBSET Nat /\ n \in above
  OBVIOUS
<1>2. PICK m \in above : \A k \in above : m <= k
  <2> HIDE DEF above
  <2> QED BY <1>1, LeastNatural
<1>3. m \in s
  <2> SUFFICES ASSUME m \notin s PROVE FALSE
    OBVIOUS
  <2>1. m \in Nat /\ \A y \in s : y \in 1 .. n /\ y <= m /\ y # m
    BY <1>2
  <2>2. PICK y \in s : TRUE
    OBVIOUS
  <2>3. m - 1 \in Nat
    BY <2>1, <2>2
  <2>4. \A x \in s : x <= m - 1
    BY <2>1
  <2> QED BY <1>2, <2>1, <2>3, <2>4
<1>4. \E x \in s : \A y \in s : x >= y
  BY <1>2, <1>3
<1>5. Max(s) \in s /\ \A y \in s : Max(s) >= y
  BY <1>4 DEF Max
<1> QED BY <1>5

\* The merge of the blocks at s, given the merges of smaller sets.
MergeAt(iter, blocks, s) ==
    IF s = {} THEN <<>> ELSE Merge(iter[s \ {Max(s)}], blocks[Max(s)])

\* The merges of all sets of the first n blocks.
IsFold(iter, blocks, n) == iter = [s \in SUBSET (1 .. n) |-> MergeAt(iter, blocks, s)]

\* The fold of any number of blocks is well defined.
LEMMA FoldExists ==
    ASSUME NEW blocks, NEW N \in Nat
    PROVE  \E iter : IsFold(iter, blocks, N)
<1> DEFINE stuck == {n \in Nat : ~ \E iter : IsFold(iter, blocks, n)}
<1> SUFFICES ASSUME stuck # {}
             PROVE  FALSE
  OBVIOUS
<1>1. PICK m \in stuck : \A k \in stuck : m <= k
  <2>1. stuck \in SUBSET Nat
    OBVIOUS
  <2> HIDE DEF stuck
  <2> QED BY <2>1, LeastNatural
<1>2. m \in Nat /\ ~ \E iter : IsFold(iter, blocks, m)
  BY <1>1
<1>3. CASE m = 0
  <2> DEFINE first == [s \in SUBSET (1 .. 0) |-> <<>>]
  <2>1. ASSUME NEW s \in SUBSET (1 .. 0)
        PROVE  MergeAt(first, blocks, s) = <<>>
    BY DEF MergeAt
  <2>2. first = [s \in SUBSET (1 .. 0) |-> MergeAt(first, blocks, s)]
    BY <2>1
  <2> QED BY <1>2, <1>3, <2>2 DEF IsFold
<1>4. CASE m # 0
  <2>1. m - 1 \in Nat /\ m - 1 \notin stuck
    BY <1>1, <1>2, <1>4
  <2>2. PICK iter : IsFold(iter, blocks, m - 1)
    BY <2>1
  <2> DEFINE longer == [s \in SUBSET (1 .. m) |->
                          IF m \in s THEN Merge(iter[s \ {m}], blocks[m]) ELSE iter[s]]
  <2>3. ASSUME NEW s \in SUBSET (1 .. m), m \notin s
        PROVE  s \in SUBSET (1 .. m - 1) /\ longer[s] = iter[s]
    BY <1>2, <2>3
  <2>4. ASSUME NEW s \in SUBSET (1 .. m)
        PROVE  longer[s] = MergeAt(longer, blocks, s)
    <3>1. CASE m \in s
      <4>1. Max(s) \in s /\ m <= Max(s)
        BY <1>2, <3>1, MaxOfPositions
      <4>2. Max(s) = m
        <5>1. Max(s) \in 1 .. m
          BY <4>1
        <5> QED BY <1>2, <4>1, <5>1
      <4>3. longer[s \ {m}] = iter[s \ {m}]
        BY <2>3
      <4> QED BY <3>1, <4>2, <4>3 DEF MergeAt
    <3>2. CASE m \notin s
      <4>1. longer[s] = MergeAt(iter, blocks, s)
        BY <2>2, <2>3, <3>2 DEF IsFold
      <4>2. CASE s = {}
        BY <4>1, <4>2 DEF MergeAt
      <4>3. CASE s # {}
        <5>1. longer[s \ {Max(s)}] = iter[s \ {Max(s)}]
          BY <2>3, <3>2
        <5> QED BY <4>1, <4>3, <5>1 DEF MergeAt
      <4> QED BY <4>2, <4>3
    <3> QED BY <3>1, <3>2
  <2>5. longer = [s \in SUBSET (1 .. m) |-> MergeAt(longer, blocks, s)]
    BY <2>4
  <2> QED BY <1>2, <2>5 DEF IsFold
<1> QED BY <1>3, <1>4

\* The loop of coalesce_locked: merged[k] is the vector after k blocks.
IsMerge(merged, blocks, n) ==
    /\ merged[0] = <<>>
    /\ \A k \in 1 .. n : merged[k] = Merge(merged[k - 1], blocks[k])

\* FoldLeft runs the loop.
LEMMA FoldIsLoop ==
    ASSUME NEW blocks, NEW n \in Nat, DOMAIN blocks = 1 .. n
    PROVE  \E merged : IsMerge(merged, blocks, n) /\ FoldLeft(Merge, <<>>, blocks) = merged[n]
<1> DEFINE fold == CHOOSE iter : iter = [s \in SUBSET (1 .. n) |-> MergeAt(iter, blocks, s)]
           merged == [k \in 0 .. n |-> fold[1 .. k]]
<1>1. \E iter : iter = [s \in SUBSET (1 .. n) |-> MergeAt(iter, blocks, s)]
  BY FoldExists DEF IsFold
<1>2. fold = [s \in SUBSET (1 .. n) |-> MergeAt(fold, blocks, s)]
  BY <1>1
<1>3. FoldLeft(Merge, <<>>, blocks) = fold[1 .. n]
  BY DEF FoldLeft, MapThenFoldSet, MergeAt
<1> HIDE DEF fold
<1>4. merged[0] = <<>>
  <2>1. 1 .. 0 = {} /\ {} \in SUBSET (1 .. n)
    OBVIOUS
  <2>2. fold[{}] = MergeAt(fold, blocks, {})
    BY <1>2, <2>1
  <2> QED BY <2>1, <2>2 DEF MergeAt
<1>5. ASSUME NEW k \in 1 .. n
      PROVE  merged[k] = Merge(merged[k - 1], blocks[k])
  <2> DEFINE s == 1 .. k
  <2>1. s \in SUBSET (1 .. n) /\ s # {} /\ k \in s
    <3>1. \A i \in s : i \in 1 .. n
      OBVIOUS
    <3>2. k \in s
      OBVIOUS
    <3> QED BY <3>1, <3>2
  <2>2. Max(s) \in s /\ k <= Max(s)
    <3> HIDE DEF s
    <3> QED BY <2>1, MaxOfPositions
  <2>3. Max(1 .. k) = k /\ (1 .. k) \ {k} = 1 .. k - 1
    BY <2>2
  <2>4. fold[1 .. k] = MergeAt(fold, blocks, 1 .. k)
    BY <1>2, <2>1
  <2> QED BY <2>1, <2>3, <2>4 DEF MergeAt
<1>6. merged[n] = fold[1 .. n]
  OBVIOUS
<1>7. IsMerge(merged, blocks, n)
  BY <1>4, <1>5 DEF IsMerge
<1> HIDE DEF merged
<1> QED BY <1>3, <1>6, <1>7

-----------------------------------------------------------------------------
(***************************************************************************)
(* What the loop does with blocks that lie in order.                       *)
(***************************************************************************)

\* Blocks lie in order, none reaches into the next, all below the capacity.
InOrder(blocks) ==
    /\ \A i \in 1 .. Len(blocks) : End(blocks[i]) <= Capacity
    /\ \A i, j \in 1 .. Len(blocks) : i < j => End(blocks[i]) <= blocks[j].offset

\* Moreover no block touches the next.
Spaced(blocks) ==
    /\ \A i \in 1 .. Len(blocks) : End(blocks[i]) <= Capacity
    /\ \A i, j \in 1 .. Len(blocks) : i < j => End(blocks[i]) < blocks[j].offset

\* The address lies in one of the first n blocks.
Covered(address, blocks, n) == \E i \in 1 .. n : Within(address, blocks[i])

\* merged is what the loop has made of the first k blocks.
MergedSoFar(merged, blocks, k) ==
    /\ merged \in Seq(Blocks)
    /\ Spaced(merged)
    /\ k = 0 => Len(merged) = 0
    /\ k > 0 => Len(merged) > 0 /\ End(merged[Len(merged)]) = End(blocks[k])
    /\ \A address \in Int : Covered(address, merged, Len(merged)) <=> Covered(address, blocks, k)

\* One iteration of the loop.
LEMMA SumFits ==
    ASSUME NEW offset \in Nat, NEW x \in Nat, NEW y \in Nat, x > 0,
           NEW limit \in Nat, offset + x + y <= limit
    PROVE  x + y \in 1 .. limit
OBVIOUS

LEMMA MergeKeeps ==
    ASSUME NEW blocks \in Seq(Blocks), InOrder(blocks),
           NEW k \in 1 .. Len(blocks), NEW merged,
           MergedSoFar(merged, blocks, k - 1)
    PROVE  MergedSoFar(Merge(merged, blocks[k]), blocks, k)
<1> DEFINE n == Len(merged)
           b == blocks[k]
           last == merged[n]
<1>1. /\ merged \in Seq(Blocks) /\ Spaced(merged)
      /\ n \in Nat /\ DOMAIN merged = 1 .. n
      /\ \A i \in 1 .. n : merged[i] \in Blocks
  BY LenProperties DEF MergedSoFar
<1>2. b \in Blocks /\ End(b) <= Capacity /\ Len(blocks) \in Nat
  BY LenProperties DEF InOrder
<1>3. /\ b.offset \in Nat /\ b.bytes \in Nat /\ b.bytes <= Capacity
      /\ End(b) \in Nat /\ End(b) = b.offset + b.bytes /\ b.offset < End(b)
  BY <1>2, BlockIsInterval
<1>4. \A i \in 1 .. n :
         /\ merged[i].offset \in Nat /\ merged[i].bytes \in Nat
         /\ End(merged[i]) \in Nat /\ End(merged[i]) = merged[i].offset + merged[i].bytes
         /\ merged[i].offset < End(merged[i])
         /\ merged[i].offset <= MaxOffset
  BY <1>1, BlockIsInterval
<1>5. n > 0 => k > 1 /\ End(last) = End(blocks[k - 1]) /\ End(last) <= b.offset
  <2> SUFFICES ASSUME n > 0 PROVE k > 1 /\ End(last) = End(blocks[k - 1]) /\ End(last) <= b.offset
    OBVIOUS
  <2>1. k - 1 \in Nat /\ k - 1 # 0
    BY <1>1, <1>2 DEF MergedSoFar
  <2>2. k - 1 \in 1 .. Len(blocks) /\ k - 1 < k /\ k - 1 > 0
    BY <1>2, <2>1
  <2> QED BY <2>1, <2>2 DEF MergedSoFar, InOrder
<1>6. \A address \in Int :
         Covered(address, blocks, k) <=> Covered(address, merged, n) \/ Within(address, b)
  <2> SUFFICES ASSUME NEW address \in Int
               PROVE  Covered(address, blocks, k) <=>
                        Covered(address, blocks, k - 1) \/ Within(address, b)
    BY DEF MergedSoFar
  <2>1. 1 .. k = (1 .. k - 1) \cup {k}
    BY <1>2
  <2> QED BY <2>1 DEF Covered
<1>7. n > 0 => /\ n \in 1 .. n /\ last \in Blocks
               /\ last.offset \in Nat /\ last.bytes \in Nat /\ last.bytes > 0
               /\ End(last) \in Nat /\ End(last) = last.offset + last.bytes
               /\ last.offset < End(last) /\ last.offset <= MaxOffset
  <2> SUFFICES ASSUME n > 0 PROVE n \in 1 .. n /\ last \in Blocks /\ last.bytes > 0
    BY BlockIsInterval
  <2>1. n \in 1 .. n
    BY <1>1
  <2>2. last \in Blocks
    BY <1>1, <2>1
  <2> QED BY <2>1, <2>2 DEF Blocks
<1>8. last = merged[n] /\ b = blocks[k] /\ Len(merged) = n /\ k > 0 /\ k # 0
  BY <1>2
<1> HIDE DEF n, b, last
<1>9. CASE n > 0 /\ End(last) = b.offset
  <2> DEFINE whole == [last EXCEPT !.bytes = @ + b.bytes]
             result == [merged EXCEPT ![n] = whole]
  <2>1. last = [offset |-> last.offset, bytes |-> last.bytes]
    BY <1>7, <1>9, BlockIsInterval
  <2>2. whole = [offset |-> last.offset, bytes |-> last.bytes + b.bytes]
    BY <2>1
  <2>3. whole.offset = last.offset /\ whole.bytes = last.bytes + b.bytes
    BY <2>2
  <2>4. End(whole) = End(b)
    BY <1>3, <1>7, <1>9, <2>3 DEF End
  <2>5. whole \in Blocks
    <3>1. Capacity \in Nat /\ MaxOffset \in Nat
      BY AllocatorAssumption
    <3>2. /\ last.offset \in Nat /\ last.bytes \in Nat /\ last.bytes > 0
          /\ last.offset + last.bytes = b.offset /\ last.offset <= MaxOffset
      BY <1>7, <1>9
    <3>3. last.offset + last.bytes + b.bytes <= Capacity
      BY <1>2, <1>3, <3>2
    <3>4. last.bytes + b.bytes \in 1 .. Capacity
      BY <1>3, <3>1, <3>2, <3>3, SumFits
    <3>5. last.offset \in 0 .. MaxOffset
      BY <3>1, <3>2
    <3> QED BY <2>2, <3>4, <3>5 DEF Blocks
  <2>6. Merge(merged, b) = result
    <3>1. merged # <<>> /\ Last(merged) = last
      BY <1>1, <1>8, <1>9 DEF Last
    <3> QED BY <1>8, <1>9, <3>1 DEF Merge
  <2> HIDE DEF whole
  <2>7. /\ result \in Seq(Blocks) /\ Len(result) = n
        /\ \A i \in 1 .. n : result[i] = IF i = n THEN whole ELSE merged[i]
    <3>1. n \in 1 .. Len(merged)
      BY <1>7, <1>8, <1>9
    <3> QED BY <1>1, <1>8, <2>5, <3>1, ExceptSeq
  <2> HIDE DEF result
  <2>8. Spaced(result)
    <3>1. ASSUME NEW i \in 1 .. n PROVE End(result[i]) <= Capacity
      BY <1>1, <1>2, <1>8, <2>4, <2>7 DEF Spaced
    <3>2. ASSUME NEW i \in 1 .. n, NEW j \in 1 .. n, i < j
          PROVE  End(result[i]) < result[j].offset
      <4>1. i # n
        BY <1>1, <3>2
      <4>2. End(merged[i]) < merged[j].offset
        BY <1>1, <1>8, <3>2 DEF Spaced
      <4> QED BY <1>8, <2>3, <2>7, <4>1, <4>2
    <3> QED BY <2>7, <3>1, <3>2 DEF Spaced
  <2>9. ASSUME NEW address \in Int
        PROVE  Covered(address, result, n) <=> Covered(address, merged, n) \/ Within(address, b)
    <3>1. Within(address, whole) <=> Within(address, last) \/ Within(address, b)
      BY <1>3, <1>7, <1>9, <2>3, <2>4 DEF Within
    <3>2. Covered(address, result, n) <=>
            Within(address, whole) \/ \E i \in 1 .. n : i # n /\ Within(address, merged[i])
      BY <1>7, <1>9, <2>7 DEF Covered
    <3>3. Covered(address, merged, n) <=>
            Within(address, last) \/ \E i \in 1 .. n : i # n /\ Within(address, merged[i])
      BY <1>7, <1>8, <1>9 DEF Covered
    <3> QED BY <3>1, <3>2, <3>3
  <2>10. End(result[n]) = End(b)
    BY <1>7, <1>9, <2>4, <2>7
  <2> QED BY <1>6, <1>8, <1>9, <2>6, <2>7, <2>8, <2>9, <2>10 DEF MergedSoFar
<1>10. CASE ~ (n > 0 /\ End(last) = b.offset)
  <2> DEFINE result == Append(merged, b)
  <2>1. Merge(merged, b) = result
    <3>1. merged # <<>> => n > 0
      BY <1>1, <1>8, EmptySeq
    <3> QED BY <1>8, <1>10, <3>1 DEF Merge, Last
  <2>2. /\ result \in Seq(Blocks) /\ Len(result) = n + 1
        /\ \A i \in 1 .. n : result[i] = merged[i]
        /\ result[n + 1] = b
    BY <1>1, <1>2, <1>8, AppendProperties
  <2> HIDE DEF result
  <2>3. ASSUME NEW i \in 1 .. n PROVE End(merged[i]) < b.offset
    <3>1. n > 0 /\ i <= n
      BY <1>1
    <3>2. End(last) < b.offset
      BY <1>3, <1>5, <1>7, <1>10, <3>1
    <3>3. CASE i = n
      BY <1>8, <3>2, <3>3
    <3>4. CASE i < n
      <4>1. End(merged[i]) < last.offset
        BY <1>1, <1>7, <1>8, <3>1, <3>4 DEF Spaced
      <4>2. End(merged[i]) \in Nat
        BY <1>4
      <4> QED BY <1>3, <1>7, <3>1, <3>2, <4>1, <4>2
    <3> QED BY <1>1, <3>1, <3>3, <3>4
  <2>4. Spaced(result)
    <3>1. ASSUME NEW i \in 1 .. n + 1 PROVE End(result[i]) <= Capacity
      BY <1>1, <1>2, <1>8, <2>2 DEF Spaced
    <3>2. ASSUME NEW i \in 1 .. n + 1, NEW j \in 1 .. n + 1, i < j
          PROVE  End(result[i]) < result[j].offset
      <4>1. i \in 1 .. n /\ (j \in 1 .. n \/ j = n + 1)
        BY <1>1, <3>2
      <4> QED BY <1>1, <1>8, <2>2, <2>3, <3>2, <4>1 DEF Spaced
    <3> QED BY <2>2, <3>1, <3>2 DEF Spaced
  <2>5. ASSUME NEW address \in Int
        PROVE  Covered(address, result, n + 1) <=> Covered(address, merged, n) \/ Within(address, b)
    <3>1. 1 .. n + 1 = (1 .. n) \cup {n + 1}
      BY <1>1
    <3> QED BY <2>2, <3>1 DEF Covered
  <2>6. n + 1 > 0
    BY <1>1
  <2> QED BY <1>6, <1>8, <2>1, <2>2, <2>4, <2>5, <2>6 DEF MergedSoFar
<1> QED BY <1>9, <1>10

\* After the loop the blocks are spaced and cover the same addresses.
LEMMA LoopSpaces ==
    ASSUME NEW blocks \in Seq(Blocks), InOrder(blocks)
    PROVE  LET result == FoldLeft(Merge, <<>>, blocks) IN
           /\ result \in Seq(Blocks)
           /\ Spaced(result)
           /\ \A address \in Int :
                 Covered(address, result, Len(result)) <=> Covered(address, blocks, Len(blocks))
<1> DEFINE n == Len(blocks)
<1>1. n \in Nat /\ DOMAIN blocks = 1 .. n
  BY LenProperties
<1>2. PICK merged : IsMerge(merged, blocks, n) /\ FoldLeft(Merge, <<>>, blocks) = merged[n]
  <2> HIDE DEF n
  <2> QED BY <1>1, FoldIsLoop
<1> DEFINE wrong == {k \in 0 .. n : ~ MergedSoFar(merged[k], blocks, k)}
<1>3. wrong = {}
  <2> SUFFICES ASSUME wrong # {} PROVE FALSE
    OBVIOUS
  <2>1. PICK m \in wrong : \A k \in wrong : m <= k
    <3>1. wrong \in SUBSET Nat
      BY <1>1
    <3> HIDE DEF wrong
    <3> QED BY <3>1, LeastNatural
  <2>2. m \in 0 .. n /\ ~ MergedSoFar(merged[m], blocks, m)
    BY <2>1
  <2>3. CASE m = 0
    <3>1. merged[0] = <<>>
      BY <1>2 DEF IsMerge
    <3>2. <<>> \in Seq(Blocks) /\ Len(<<>>) = 0 /\ 1 .. 0 = {}
      OBVIOUS
    <3>3. MergedSoFar(<<>>, blocks, 0)
      BY <3>2 DEF MergedSoFar, Spaced, Covered
    <3> QED BY <2>2, <2>3, <3>1, <3>3
  <2>4. CASE m # 0
    <3>1. m \in 1 .. n /\ m - 1 \in 0 .. n /\ m - 1 \notin wrong
      BY <1>1, <2>1, <2>2, <2>4
    <3>2. MergedSoFar(merged[m - 1], blocks, m - 1)
      BY <3>1
    <3>3. merged[m] = Merge(merged[m - 1], blocks[m])
      BY <1>2, <3>1 DEF IsMerge
    <3> QED BY <2>2, <3>1, <3>2, <3>3, MergeKeeps
  <2> QED BY <2>3, <2>4
<1>4. MergedSoFar(merged[n], blocks, n)
  BY <1>1, <1>3
<1> QED BY <1>2, <1>4 DEF MergedSoFar

-----------------------------------------------------------------------------
(***************************************************************************)
(* coalesce_locked: the sort, and the whole of it.                         *)
(***************************************************************************)

\* Offsets ascend.
Ascending(blocks) ==
    \A i, j \in DOMAIN blocks : i < j => blocks[i].offset < blocks[j].offset

\* A block that is apart from the free ones has its place among them.
LEMMA SortingExists ==
    ASSUME NEW free \in Seq(Blocks), Spaced(free), NEW b \in Blocks,
           \A i \in 1 .. Len(free) : Apart(b, free[i])
    PROVE  LET blocks == Append(free, b) IN
           \E sorted \in [DOMAIN blocks -> Range(blocks)] :
              Range(sorted) = Range(blocks) /\ Ascending(sorted)
<1> DEFINE n == Len(free)
           blocks == Append(free, b)
           places == {i \in 1 .. n + 1 : i = n + 1 \/ b.offset < free[i].offset}
<1>1. n \in Nat /\ \A i \in 1 .. n : free[i] \in Blocks
  BY LenProperties
<1>2. /\ \A i \in 1 .. n : /\ free[i].offset \in Nat /\ End(free[i]) \in Nat
                           /\ free[i].offset < End(free[i])
      /\ b.offset \in Nat /\ End(b) \in Nat /\ b.offset < End(b)
  BY <1>1, BlockIsInterval
<1>3. PICK p \in places : \A i \in places : p <= i
  <2>1. n + 1 \in places /\ places \in SUBSET Nat
    BY <1>1
  <2> HIDE DEF places
  <2> QED BY <2>1, LeastNatural
<1>4. /\ p \in 1 .. n + 1
      /\ p # n + 1 => b.offset < free[p].offset
      /\ \A i \in 1 .. n : i < p => free[i].offset < b.offset
  <2>1. ASSUME NEW i \in 1 .. n, i < p PROVE free[i].offset < b.offset
    <3>1. i \notin places
      BY <1>1, <1>3, <2>1
    <3>2. ~ (b.offset < free[i].offset)
      BY <1>1, <3>1
    <3>3. free[i].offset # b.offset
      BY <1>2 DEF Apart
    <3> QED BY <1>2, <3>2, <3>3
  <2> QED BY <1>3, <2>1
<1>5. \A i \in 1 .. n : i >= p => b.offset < free[i].offset
  <2> SUFFICES ASSUME NEW i \in 1 .. n, i >= p PROVE b.offset < free[i].offset
    OBVIOUS
  <2>1. p \in 1 .. n /\ b.offset < free[p].offset
    BY <1>1, <1>4
  <2>2. CASE i = p
    BY <2>1, <2>2
  <2>3. CASE i > p
    <3>1. End(free[p]) < free[i].offset
      BY <2>1, <2>3 DEF Spaced
    <3> QED BY <1>2, <2>1, <3>1
  <2> QED BY <1>1, <1>4, <2>2, <2>3
<1>6. \A i, j \in 1 .. n : i < j => free[i].offset < free[j].offset
  BY <1>2 DEF Spaced
<1>7. /\ blocks \in Seq(Blocks) /\ Len(blocks) = n + 1
      /\ \A i \in 1 .. n : blocks[i] = free[i]
      /\ blocks[n + 1] = b
  BY AppendProperties
<1>8. DOMAIN blocks = 1 .. n + 1
  <2> HIDE DEF blocks, n
  <2> QED BY <1>7, LenProperties
<1> DEFINE sorted == [i \in 1 .. n + 1 |-> IF i < p THEN free[i] ELSE IF i = p THEN b ELSE free[i - 1]]
<1> HIDE DEF n, blocks, places
<1>9. \A x : x \in Range(blocks) <=> x = b \/ \E i \in 1 .. n : x = free[i]
  <2>1. n + 1 \in 1 .. n + 1 /\ \A i \in 1 .. n + 1 : i \in 1 .. n \/ i = n + 1
    BY <1>1
  <2>2. \A i \in 1 .. n : i \in 1 .. n + 1
    BY <1>1
  <2> QED BY <1>7, <1>8, <2>1, <2>2 DEF Range
<1>10. ASSUME NEW i \in 1 .. n + 1
       PROVE  /\ i < p => i \in 1 .. n /\ sorted[i] = free[i]
              /\ i = p => sorted[i] = b
              /\ i > p => i - 1 \in 1 .. n /\ i - 1 >= p /\ sorted[i] = free[i - 1]
  BY <1>1, <1>4
<1>11. DOMAIN sorted = 1 .. n + 1
  OBVIOUS
<1> HIDE DEF sorted
<1>12. \A i \in 1 .. n + 1 : sorted[i] \in Range(blocks)
  <2> SUFFICES ASSUME NEW i \in 1 .. n + 1 PROVE sorted[i] \in Range(blocks)
    OBVIOUS
  <2>1. i < p \/ i = p \/ i > p
    BY <1>1, <1>4
  <2> QED BY <1>9, <1>10, <2>1
<1>13. sorted \in [DOMAIN blocks -> Range(blocks)]
  <2>1. sorted = [i \in 1 .. n + 1 |-> sorted[i]]
    BY DEF sorted
  <2> QED BY <1>8, <1>12, <2>1
<1>14. Range(sorted) = Range(blocks)
  <2>1. ASSUME NEW x \in Range(blocks) PROVE \E i \in 1 .. n + 1 : sorted[i] = x
    <3>1. CASE x = b
      BY <1>4, <1>10, <3>1
    <3>2. ASSUME NEW i \in 1 .. n, x = free[i] PROVE \E j \in 1 .. n + 1 : sorted[j] = x
      <4>1. CASE i < p
        <5>1. i \in 1 .. n + 1
          BY <1>1
        <5> QED BY <1>10, <3>2, <4>1, <5>1
      <4>2. CASE i >= p
        <5>1. i + 1 \in 1 .. n + 1 /\ i + 1 > p /\ (i + 1) - 1 = i
          BY <1>1, <1>4, <4>2
        <5> QED BY <1>10, <3>2, <5>1
      <4> QED BY <1>1, <1>4, <4>1, <4>2
    <3> QED BY <1>9, <3>1, <3>2
  <2> QED BY <1>11, <1>12, <2>1 DEF Range
<1>15. Ascending(sorted)
  <2> SUFFICES ASSUME NEW i \in 1 .. n + 1, NEW j \in 1 .. n + 1, i < j
               PROVE  sorted[i].offset < sorted[j].offset
    BY <1>11 DEF Ascending
  <2>1. CASE j < p
    <3>1. i < p
      BY <1>4, <2>1
    <3> QED BY <1>6, <1>10, <2>1, <3>1
  <2>2. CASE j = p
    <3>1. i < p
      BY <2>2
    <3> QED BY <1>4, <1>10, <2>2, <3>1
  <2>3. CASE j > p /\ i = p
    BY <1>5, <1>10, <2>3
  <2>4. CASE j > p /\ i < p
    <3>1. j - 1 \in 1 .. n /\ i \in 1 .. n /\ i < j - 1
      BY <1>4, <1>10, <2>4
    <3> QED BY <1>6, <1>10, <2>4, <3>1
  <2>5. CASE j > p /\ i > p
    <3>1. j - 1 \in 1 .. n /\ i - 1 \in 1 .. n /\ i - 1 < j - 1
      BY <1>10, <2>5
    <3> QED BY <1>6, <1>10, <2>5, <3>1
  <2> QED BY <1>1, <1>4, <2>1, <2>2, <2>3, <2>4, <2>5
<1> QED BY <1>13, <1>14, <1>15 DEF blocks

\* The sort puts the blocks in order.
LEMMA SortedInOrder ==
    ASSUME NEW free \in Seq(Blocks), Spaced(free), NEW b \in Blocks, End(b) <= Capacity,
           \A i \in 1 .. Len(free) : Apart(b, free[i])
    PROVE  LET sorted == Sorted(Append(free, b)) IN
           /\ sorted \in Seq(Blocks)
           /\ InOrder(sorted)
           /\ \A address : Covered(address, sorted, Len(sorted)) <=>
                             Covered(address, free, Len(free)) \/ Within(address, b)
<1> DEFINE n == Len(free)
           blocks == Append(free, b)
           sorted == Sorted(blocks)
<1>1. n \in Nat /\ \A i \in 1 .. n : free[i] \in Blocks
  BY LenProperties
<1>2. /\ blocks \in Seq(Blocks) /\ Len(blocks) = n + 1
      /\ \A i \in 1 .. n : blocks[i] = free[i]
      /\ blocks[n + 1] = b
  BY AppendProperties
<1>3. DOMAIN blocks = 1 .. n + 1
  <2> HIDE DEF blocks, n
  <2> QED BY <1>2, LenProperties
<1>4. /\ sorted \in [DOMAIN blocks -> Range(blocks)]
      /\ Range(sorted) = Range(blocks)
      /\ \A i, j \in DOMAIN blocks : i < j => sorted[i].offset < sorted[j].offset
  <2>1. \E s \in [DOMAIN blocks -> Range(blocks)] :
          /\ Range(s) = Range(blocks)
          /\ \A i, j \in DOMAIN blocks : i < j => s[i].offset < s[j].offset
    <3>1. PICK s \in [DOMAIN blocks -> Range(blocks)] :
            Range(s) = Range(blocks) /\ Ascending(s)
      BY SortingExists
    <3>2. DOMAIN s = DOMAIN blocks
      OBVIOUS
    <3> QED BY <3>1, <3>2 DEF Ascending
  <2> HIDE DEF blocks
  <2> QED BY <2>1 DEF Sorted
<1> HIDE DEF n, blocks, sorted
<1>5. \A x : x \in Range(blocks) <=> x = b \/ \E i \in 1 .. n : x = free[i]
  <2>1. n + 1 \in 1 .. n + 1 /\ \A i \in 1 .. n + 1 : i \in 1 .. n \/ i = n + 1
    BY <1>1
  <2>2. \A i \in 1 .. n : i \in 1 .. n + 1
    BY <1>1
  <2> QED BY <1>2, <1>3, <2>1, <2>2 DEF Range
<1>6. \A x \in Range(blocks) : x \in Blocks /\ End(x) <= Capacity
  BY <1>1, <1>5 DEF Spaced, n
<1>7. sorted \in Seq(Blocks) /\ Len(sorted) = n + 1
  <2>1. sorted \in [1 .. n + 1 -> Blocks]
    BY <1>3, <1>4, <1>6
  <2>2. n + 1 \in Nat
    BY <1>1
  <2> QED BY <2>1, <2>2
<1>8. ASSUME NEW x \in Range(blocks), NEW y \in Range(blocks), x.offset < y.offset
      PROVE  End(x) <= y.offset
  <2>1. /\ x.offset \in Nat /\ End(x) \in Nat /\ x.offset < End(x)
        /\ y.offset \in Nat /\ End(y) \in Nat /\ y.offset < End(y)
    BY <1>6, BlockIsInterval
  <2> SUFFICES Apart(x, y)
    BY <1>8, <2>1 DEF Apart
  <2>2. CASE x = b \/ y = b
    <3>1. x # y
      BY <1>8, <2>1
    <3> QED BY <1>5, <2>2, <3>1 DEF Apart, n
  <2>3. CASE x # b /\ y # b
    <3>1. PICK i \in 1 .. n : x = free[i]
      BY <1>5, <2>3
    <3>2. PICK j \in 1 .. n : y = free[j]
      BY <1>5, <2>3
    <3>3. i < j \/ j < i
      <4>1. i # j
        BY <1>8, <2>1, <3>1, <3>2
      <4> QED BY <1>1, <4>1
    <3>4. End(x) < y.offset \/ End(y) < x.offset
      BY <3>1, <3>2, <3>3 DEF Spaced, n
    <3> QED BY <2>1, <3>4 DEF Apart
  <2> QED BY <2>2, <2>3
<1>9. \A i \in 1 .. n + 1 : sorted[i] \in Range(blocks)
  BY <1>3, <1>4
<1>10. InOrder(sorted)
  <2>1. ASSUME NEW i \in 1 .. n + 1, NEW j \in 1 .. n + 1, i < j
        PROVE  End(sorted[i]) <= sorted[j].offset
    BY <1>3, <1>4, <1>8, <1>9, <2>1
  <2> QED BY <1>6, <1>7, <1>9, <2>1 DEF InOrder
<1>11. ASSUME NEW address
       PROVE  Covered(address, sorted, n + 1) <=>
                Covered(address, free, n) \/ Within(address, b)
  <2>1. Covered(address, sorted, n + 1) <=> \E x \in Range(blocks) : Within(address, x)
    <3>1. Range(sorted) = {sorted[i] : i \in 1 .. n + 1}
      BY <1>3, <1>4 DEF Range
    <3> QED BY <1>4, <3>1 DEF Covered
  <2> QED BY <1>5, <2>1 DEF Covered
<1> QED BY <1>7, <1>10, <1>11 DEF sorted, blocks, n

\* A released block goes back to the free list: it covers that block and what
\* it covered before, and still no two of its blocks touch.
LEMMA CoalesceSpaces ==
    ASSUME NEW free \in Seq(Blocks), Spaced(free), NEW b \in Blocks, End(b) <= Capacity,
           \A i \in 1 .. Len(free) : Apart(b, free[i])
    PROVE  LET result == Coalesce(Append(free, b)) IN
           /\ result \in Seq(Blocks)
           /\ Spaced(result)
           /\ \A address \in Int :
                 Covered(address, result, Len(result)) <=>
                   Covered(address, free, Len(free)) \/ Within(address, b)
<1> DEFINE sorted == Sorted(Append(free, b))
<1>1. /\ sorted \in Seq(Blocks)
      /\ InOrder(sorted)
      /\ \A address : Covered(address, sorted, Len(sorted)) <=>
                        Covered(address, free, Len(free)) \/ Within(address, b)
  BY SortedInOrder
<1>2. Coalesce(Append(free, b)) = FoldLeft(Merge, <<>>, sorted)
  BY DEF Coalesce
<1> HIDE DEF sorted
<1>3. LET result == FoldLeft(Merge, <<>>, sorted) IN
      /\ result \in Seq(Blocks)
      /\ Spaced(result)
      /\ \A address \in Int :
            Covered(address, result, Len(result)) <=> Covered(address, sorted, Len(sorted))
  BY <1>1, LoopSpaces
<1> QED BY <1>1, <1>2, <1>3

-----------------------------------------------------------------------------
(***************************************************************************)
(* The inductive invariant.                                                *)
(***************************************************************************)

\* No address is in two allocations.
HeldApart ==
    \A id, other \in DOMAIN allocations :
        id # other => Apart(allocations[id], allocations[other])

\* Where addresses end that may be held: a pool has no others than those below
\* the capacity, the direct strategy has handed out those below the next one.
Limit == IF strategy = "Pool" THEN Capacity ELSE direct_next_offset

HeldBelow == \A id \in DOMAIN allocations : End(allocations[id]) <= Limit

\* No address is free and held.
FreeNotHeld ==
    \A id \in DOMAIN allocations, i \in 1 .. Len(free_blocks) :
        Apart(allocations[id], free_blocks[i])

\* Every address of the pool is free or held.
NothingLost ==
    \A address \in 0 .. Capacity - 1 :
        Covered(address, free_blocks, Len(free_blocks)) \/ HoldersOf(address) # {}

PoolInOrder == strategy = "Pool" => Spaced(free_blocks) /\ FreeNotHeld /\ NothingLost

AllocatorInv ==
    /\ strategy \in {"Direct", "Pool"}
    /\ AllocatorTypeOK
    /\ IsFiniteSet(DOMAIN allocations)
    /\ UsedIsExact
    /\ HeldApart
    /\ HeldBelow
    /\ PoolInOrder

BytesOf(blocks) == [id \in DOMAIN blocks |-> blocks[id].bytes]

AddressesBelow(blocks, limit) ==
    {address \in 0 .. limit - 1 : \E id \in DOMAIN blocks : Within(address, blocks[id])}

\* The sizes of finitely many blocks form a ledger.
LEMMA BytesAreLedger ==
    ASSUME NEW blocks, IsFiniteSet(DOMAIN blocks), blocks \in [DOMAIN blocks -> Blocks]
    PROVE  /\ IsLedger(BytesOf(blocks))
           /\ DOMAIN BytesOf(blocks) = DOMAIN blocks
           /\ \A id \in DOMAIN blocks : BytesOf(blocks)[id] = blocks[id].bytes
<1>1. \A id \in DOMAIN blocks : blocks[id].bytes \in Nat
  BY BlockIsInterval
<1> QED BY <1>1 DEF IsLedger, BytesOf

\* Blocks that are apart are as large together as the set of their addresses.
LEMMA TotalIsAddresses ==
    ASSUME NEW blocks, IsFiniteSet(DOMAIN blocks), blocks \in [DOMAIN blocks -> Blocks],
           \A id, other \in DOMAIN blocks : id # other => Apart(blocks[id], blocks[other]),
           NEW limit \in Nat, \A id \in DOMAIN blocks : End(blocks[id]) <= limit
    PROVE  /\ Total(BytesOf(blocks)) = Cardinality(AddressesBelow(blocks, limit))
           /\ Total(BytesOf(blocks)) <= limit
<1> DEFINE f == BytesOf(blocks)
           A == AddressesBelow(blocks, limit)
           at == [u \in Units(f) |-> blocks[u[1]].offset + u[2] - 1]
<1>1. /\ IsLedger(f) /\ DOMAIN f = DOMAIN blocks
      /\ \A id \in DOMAIN blocks : f[id] = blocks[id].bytes
  BY BytesAreLedger
<1>2. \A id \in DOMAIN blocks :
         /\ blocks[id].offset \in Nat /\ blocks[id].bytes \in Nat
         /\ End(blocks[id]) \in Nat /\ End(blocks[id]) = blocks[id].offset + blocks[id].bytes
  BY BlockIsInterval
<1> HIDE DEF f
<1>3. ASSUME NEW u \in Units(f)
      PROVE  /\ u = <<u[1], u[2]>>
             /\ u[1] \in DOMAIN blocks
             /\ u[2] \in 1 .. blocks[u[1]].bytes
             /\ at[u] \in 0 .. limit - 1
             /\ Within(at[u], blocks[u[1]])
  <2>1. PICK k \in DOMAIN f : \E i \in 1 .. f[k] : u = <<k, i>>
    BY UnitsMember
  <2>2. /\ u = <<u[1], u[2]>>
        /\ u[1] \in DOMAIN blocks
        /\ u[2] \in 1 .. blocks[u[1]].bytes
    BY <1>1, <2>1
  <2>3. at[u] = blocks[u[1]].offset + u[2] - 1
    OBVIOUS
  <2> QED BY <1>2, <2>2, <2>3 DEF Within
<1>4. \A u \in Units(f) : at[u] \in A
  BY <1>3 DEF AddressesBelow
<1>5. at \in [Units(f) -> A]
  BY <1>4
<1>6. ASSUME NEW u \in Units(f), NEW v \in Units(f), at[u] = at[v]
      PROVE  u = v
  <2>1. u[1] = v[1]
    BY <1>2, <1>3, <1>6 DEF Within, Apart
  <2>2. u[2] = v[2]
    <3>1. blocks[u[1]].offset + u[2] - 1 = blocks[u[1]].offset + v[2] - 1
      BY <1>6, <2>1
    <3> QED BY <1>2, <1>3, <2>1, <3>1
  <2> QED BY <1>3, <2>1, <2>2
<1>7. ASSUME NEW address \in A
      PROVE  \E u \in Units(f) : at[u] = address
  <2>1. PICK id \in DOMAIN blocks : Within(address, blocks[id])
    BY DEF AddressesBelow
  <2> DEFINE i == address - blocks[id].offset + 1
  <2>2. address \in Nat
    BY DEF AddressesBelow
  <2>3. i \in 1 .. f[id] /\ blocks[id].offset + i - 1 = address
    BY <1>1, <1>2, <2>1, <2>2 DEF Within
  <2>4. <<id, i>> \in Units(f)
    BY <1>1, <2>3, UnitsMember
  <2> QED BY <2>3, <2>4
<1>8. ExistsBijection(Units(f), A)
  <2> HIDE DEF at
  <2>1. at \in Bijection(Units(f), A)
    BY <1>5, <1>6, <1>7 DEF Bijection, Injection, Surjection, IsInjective
  <2> QED BY <2>1 DEF ExistsBijection
<1>9. Cardinality(A) = Total(f)
  BY <1>1, <1>8, UnitsFinite, FS_Bijection DEF Total
<1>10. Cardinality(A) <= limit
  <2>1. A \in SUBSET (0 .. limit - 1)
    BY DEF AddressesBelow
  <2>2. IsFiniteSet(0 .. limit - 1) /\ Cardinality(0 .. limit - 1) = limit
    <3>1. 0 \in Int /\ limit - 1 \in Int
      OBVIOUS
    <3>2. /\ IsFiniteSet(0 .. limit - 1)
          /\ Cardinality(0 .. limit - 1) = IF 0 > limit - 1 THEN 0 ELSE limit - 1 - 0 + 1
      BY <3>1, FS_Interval
    <3> QED BY <3>2
  <2> HIDE DEF A
  <2> QED BY <2>1, <2>2, FS_Subset
<1> QED BY <1>9, <1>10 DEF f

-----------------------------------------------------------------------------
(***************************************************************************)
(* allocate.                                                               *)
(***************************************************************************)

\* The search ends at the first free block that is large enough.
LEMMA FirstFitFinds ==
    ASSUME free_blocks \in Seq(Blocks), NEW bytes \in Nat
    PROVE  LET i == FirstFit(bytes) IN
           \/ i = 0 /\ \A j \in 1 .. Len(free_blocks) : free_blocks[j].bytes < bytes
           \/ /\ i \in 1 .. Len(free_blocks) /\ i # 0
              /\ free_blocks[i].bytes >= bytes
              /\ \A j \in 1 .. Len(free_blocks) : j < i => free_blocks[j].bytes < bytes
<1> DEFINE n == Len(free_blocks)
           fitting == {i \in 1 .. n : free_blocks[i].bytes >= bytes}
<1>1. n \in Nat /\ \A i \in 1 .. n : free_blocks[i] \in Blocks
  BY LenProperties
<1>2. \A i \in 1 .. n : free_blocks[i].bytes \in Nat
  BY <1>1, BlockIsInterval
<1>3. FirstFit(bytes) = IF fitting # {} THEN Min(fitting) ELSE 0
  BY DEF FirstFit, SelectInSeq
<1>4. CASE fitting = {}
  BY <1>2, <1>3, <1>4
<1>5. CASE fitting # {}
  <2>1. PICK m \in fitting : \A k \in fitting : m <= k
    <3>1. fitting \in SUBSET Nat
      OBVIOUS
    <3> HIDE DEF fitting
    <3> QED BY <1>5, <3>1, LeastNatural
  <2>2. Min(fitting) \in fitting /\ \A k \in fitting : Min(fitting) <= k
    <3> HIDE DEF fitting
    <3> QED BY <2>1 DEF Min
  <2>3. FirstFit(bytes) \in fitting /\ \A k \in fitting : FirstFit(bytes) <= k
    BY <1>3, <1>5, <2>2
  <2>4. \A j \in 1 .. n : j < FirstFit(bytes) => free_blocks[j].bytes < bytes
    BY <1>1, <1>2, <2>3
  <2> QED BY <1>1, <2>3, <2>4
<1> QED BY <1>4, <1>5

\* The free list after the front of block i has been taken.
TakeFront(free, i, bytes) ==
    LET rest == [offset |-> free[i].offset + bytes, bytes |-> free[i].bytes - bytes]
    IN  IF rest.bytes = 0 THEN RemoveAt(free, i) ELSE [free EXCEPT ![i] = rest]

\* The list stays spaced and loses the block that was taken, nothing else.
LEMMA RestFits ==
    ASSUME NEW offset \in Nat, NEW whole \in Nat, NEW part \in Nat, part <= whole, whole # part,
           NEW limit \in Nat, NEW top \in Nat, limit <= top, offset + whole <= limit
    PROVE  offset + part \in 0 .. top /\ whole - part \in 1 .. limit
OBVIOUS

LEMMA TakeFrontTakes ==
    ASSUME NEW free \in Seq(Blocks), Spaced(free), NEW i \in 1 .. Len(free),
           NEW bytes \in Nat, bytes > 0, bytes <= free[i].bytes
    PROVE  LET left == TakeFront(free, i, bytes)
               taken == [offset |-> free[i].offset, bytes |-> bytes]
           IN  /\ taken \in Blocks /\ End(taken) <= Capacity
               /\ left \in Seq(Blocks) /\ Spaced(left)
               /\ \A j \in 1 .. Len(left) :
                     /\ Apart(taken, left[j])
                     /\ \E k \in 1 .. Len(free) : /\ free[k].offset <= left[j].offset
                                                  /\ End(left[j]) <= End(free[k])
               /\ \A address \in Int :
                     Covered(address, free, Len(free)) <=>
                       Covered(address, left, Len(left)) \/ Within(address, taken)
               /\ \A k \in 1 .. Len(free) : k # i => Apart(taken, free[k])
<1> DEFINE n == Len(free)
           block == free[i]
           left == TakeFront(free, i, bytes)
           taken == [offset |-> block.offset, bytes |-> bytes]
           rest == [offset |-> block.offset + bytes, bytes |-> block.bytes - bytes]
<1>1. n \in Nat /\ i \in 1 .. n /\ \A k \in 1 .. n : free[k] \in Blocks
  BY LenProperties
<1>2. \A k \in 1 .. n :
         /\ free[k].offset \in Nat /\ free[k].bytes \in Nat
         /\ End(free[k]) \in Nat /\ End(free[k]) = free[k].offset + free[k].bytes
         /\ free[k].offset < End(free[k])
         /\ free[k].bytes <= Capacity /\ free[k].offset <= MaxOffset
  BY <1>1, BlockIsInterval
<1>3. /\ block.offset \in Nat /\ block.bytes \in Nat /\ bytes <= block.bytes
      /\ End(block) \in Nat /\ End(block) = block.offset + block.bytes
      /\ block.bytes <= Capacity /\ block.offset <= MaxOffset
      /\ End(block) <= Capacity
  BY <1>1, <1>2 DEF Spaced
<1>4. /\ taken.offset = block.offset /\ End(taken) = block.offset + bytes
      /\ End(taken) \in Nat /\ End(taken) <= End(block) /\ taken.offset < End(taken)
  BY <1>3 DEF End
<1>5. taken \in Blocks /\ End(taken) <= Capacity
  <2>1. bytes \in 1 .. Capacity /\ block.offset \in 0 .. MaxOffset
    BY <1>3, AllocatorAssumption
  <2> QED BY <1>3, <1>4, <2>1, AllocatorAssumption DEF Blocks
<1>6. \A k, l \in 1 .. n : k < l => End(free[k]) < free[l].offset
  BY DEF Spaced
<1>7. \A k \in 1 .. n : End(free[k]) <= Capacity
  BY DEF Spaced
<1>8. \A k \in 1 .. n : k # i => Apart(block, free[k]) /\ Apart(taken, free[k])
  <2> SUFFICES ASSUME NEW k \in 1 .. n, k # i PROVE Apart(block, free[k]) /\ Apart(taken, free[k])
    OBVIOUS
  <2>1. CASE k < i
    <3>1. End(free[k]) < block.offset
      BY <1>1, <1>6, <2>1
    <3> QED BY <1>2, <1>3, <1>4, <3>1 DEF Apart
  <2>2. CASE i < k
    <3>1. End(block) < free[k].offset
      BY <1>1, <1>6, <2>2
    <3> QED BY <1>2, <1>3, <1>4, <3>1 DEF Apart
  <2> QED BY <1>1, <2>1, <2>2
<1> HIDE DEF taken
<1>9. CASE block.bytes = bytes
  <2>1. left = RemoveAt(free, i)
    BY <1>3, <1>9 DEF TakeFront
  <2>2. /\ left \in Seq(Blocks) /\ Len(left) = n - 1
        /\ \A j \in 1 .. n - 1 : left[j] = IF j < i THEN free[j] ELSE free[j + 1]
    <3>1. Without(Blocks, free, i, left)
      BY <2>1, RemoveAtProperties
    <3> QED BY <3>1 DEF Without
  <2> HIDE DEF left, block, n
  <2>3. ASSUME NEW j \in 1 .. n - 1
        PROVE  \E k \in 1 .. n : k # i /\ left[j] = free[k] /\ (k = j \/ k = j + 1)
                                 /\ (k = j <=> j < i)
    <3>1. CASE j < i
      <4>1. j \in 1 .. n
        BY <1>1
      <4> QED BY <1>1, <2>2, <3>1, <4>1
    <3>2. CASE j >= i
      <4>1. j + 1 \in 1 .. n /\ j + 1 # i /\ j + 1 # j /\ ~ (j < i)
        BY <1>1, <3>2
      <4> QED BY <2>2, <4>1
    <3> QED BY <1>1, <3>1, <3>2
  <2>4. Spaced(left)
    <3>1. ASSUME NEW j \in 1 .. n - 1 PROVE End(left[j]) <= Capacity
      BY <1>7, <2>3
    <3>2. ASSUME NEW j \in 1 .. n - 1, NEW l \in 1 .. n - 1, j < l
          PROVE  End(left[j]) < left[l].offset
      <4>1. PICK k \in 1 .. n : left[j] = free[k] /\ (k = j \/ k = j + 1) /\ (k = j <=> j < i)
        BY <2>3
      <4>2. PICK m \in 1 .. n : left[l] = free[m] /\ (m = l \/ m = l + 1) /\ (m = l <=> l < i)
        BY <2>3
      <4>3. k < m
        BY <1>1, <3>2, <4>1, <4>2
      <4> QED BY <1>6, <4>1, <4>2, <4>3
    <3> QED BY <2>2, <3>1, <3>2 DEF Spaced
  <2>5. ASSUME NEW j \in 1 .. n - 1
        PROVE  /\ Apart(taken, left[j])
               /\ \E k \in 1 .. n : free[k].offset <= left[j].offset /\ End(left[j]) <= End(free[k])
    <3>1. PICK k \in 1 .. n : k # i /\ left[j] = free[k]
      BY <2>3
    <3>2. free[k].offset <= left[j].offset /\ End(left[j]) <= End(free[k])
      BY <1>2, <3>1
    <3> QED BY <1>8, <3>1, <3>2
  <2>6. ASSUME NEW address \in Int
        PROVE  Covered(address, free, n) <=> Covered(address, left, n - 1) \/ Within(address, taken)
    <3>1. Within(address, taken) <=> Within(address, block)
      BY <1>3, <1>4, <1>9 DEF Within
    <3>2. ASSUME NEW k \in 1 .. n, k # i
          PROVE  \E j \in 1 .. n - 1 : left[j] = free[k]
      <4>1. CASE k < i
        <5>1. k \in 1 .. n - 1
          BY <1>1, <4>1
        <5> QED BY <2>2, <4>1, <5>1
      <4>2. CASE k > i
        <5>1. k - 1 \in 1 .. n - 1 /\ ~ (k - 1 < i) /\ (k - 1) + 1 = k
          BY <1>1, <4>2
        <5> QED BY <2>2, <5>1
      <4> QED BY <1>1, <3>2, <4>1, <4>2
    <3>3. Covered(address, free, n) => Covered(address, left, n - 1) \/ Within(address, block)
      BY <3>2 DEF Covered, block
    <3>4. Covered(address, left, n - 1) => Covered(address, free, n)
      BY <2>3 DEF Covered
    <3>5. Within(address, block) => Covered(address, free, n)
      BY <1>1 DEF Covered, block
    <3> QED BY <3>1, <3>3, <3>4, <3>5
  <2> QED BY <1>5, <1>8, <2>2, <2>4, <2>5, <2>6 DEF left, taken, block, n
<1>10. CASE block.bytes # bytes
  <2>1. left = [free EXCEPT ![i] = rest]
    BY <1>3, <1>10 DEF TakeFront
  <2>2. rest \in Blocks /\ rest.offset = End(taken) /\ End(rest) = End(block)
    <3>1. rest.offset = End(taken) /\ End(rest) = End(block)
      BY <1>3, <1>4, <1>10 DEF End
    <3>2. Capacity \in Nat /\ MaxOffset \in Nat /\ Capacity <= MaxOffset
      BY AllocatorAssumption
    <3>3. rest.offset = block.offset + bytes /\ rest.bytes = block.bytes - bytes
      OBVIOUS
    <3>4. block.offset + block.bytes <= Capacity
      BY <1>3
    <3>5. rest.offset \in 0 .. MaxOffset /\ rest.bytes \in 1 .. Capacity
      <4> HIDE DEF block, rest
      <4>1. /\ block.offset \in Nat /\ block.bytes \in Nat
            /\ bytes <= block.bytes /\ block.bytes # bytes
        BY <1>3, <1>10
      <4>2. block.offset + bytes \in 0 .. MaxOffset /\ block.bytes - bytes \in 1 .. Capacity
        BY <3>2, <3>4, <4>1, RestFits
      <4> QED BY <3>3, <4>2
    <3> QED BY <3>1, <3>5 DEF Blocks
  <2> HIDE DEF rest
  <2>3. /\ left \in Seq(Blocks) /\ Len(left) = n
        /\ \A j \in 1 .. n : left[j] = IF j = i THEN rest ELSE free[j]
    BY <1>1, <2>1, <2>2, ExceptSeq
  <2>4. rest.offset \in Nat /\ End(rest) \in Nat /\ block.offset <= rest.offset
    BY <1>3, <1>4, <2>2
  <2> HIDE DEF left, n
  <2>5. ASSUME NEW j \in 1 .. n
        PROVE  free[j].offset <= left[j].offset /\ End(left[j]) = End(free[j])
    BY <1>2, <2>2, <2>3, <2>4
  <2>6. Spaced(left)
    <3>1. ASSUME NEW j \in 1 .. n PROVE End(left[j]) <= Capacity
      BY <1>7, <2>5
    <3>2. ASSUME NEW j \in 1 .. n, NEW l \in 1 .. n, j < l
          PROVE  End(left[j]) < left[l].offset
      <4>1. End(free[j]) < free[l].offset
        BY <1>6, <3>2
      <4>2. left[l].offset \in Nat
        BY <1>2, <2>3, <2>4
      <4> QED BY <1>2, <2>5, <4>1, <4>2
    <3> QED BY <2>3, <3>1, <3>2 DEF Spaced
  <2>7. ASSUME NEW j \in 1 .. n
        PROVE  /\ Apart(taken, left[j])
               /\ \E k \in 1 .. n : free[k].offset <= left[j].offset /\ End(left[j]) <= End(free[k])
    <3>1. Apart(taken, rest)
      BY <1>4, <2>2 DEF Apart
    <3>2. Apart(taken, left[j])
      BY <1>8, <2>3, <3>1
    <3>3. End(left[j]) <= End(free[j])
      BY <1>2, <2>5
    <3> QED BY <2>5, <3>2, <3>3
  <2>8. ASSUME NEW address \in Int
        PROVE  Covered(address, free, n) <=> Covered(address, left, n) \/ Within(address, taken)
    <3>1. Within(address, block) <=> Within(address, rest) \/ Within(address, taken)
      BY <1>3, <1>4, <2>2, <2>4 DEF Within
    <3>2. Covered(address, left, n) <=>
            Within(address, rest) \/ \E k \in 1 .. n : k # i /\ Within(address, free[k])
      BY <1>1, <2>3 DEF Covered
    <3>3. Covered(address, free, n) <=>
            Within(address, block) \/ \E k \in 1 .. n : k # i /\ Within(address, free[k])
      BY <1>1 DEF Covered
    <3> QED BY <3>1, <3>2, <3>3
  <2> QED BY <1>5, <1>8, <2>3, <2>6, <2>7, <2>8 DEF left, taken, n
<1> QED BY <1>9, <1>10

\* What Enter does to the records: one more block, which is counted.
Entered(id, block) ==
    /\ DOMAIN allocations' = DOMAIN allocations \cup {id}
    /\ allocations'[id] = block
    /\ \A other \in DOMAIN allocations : allocations'[other] = allocations[other]
    /\ allocations' \in [DOMAIN allocations' -> Blocks]
    /\ DOMAIN allocations' \subseteq Ids \cap ValidIds
    /\ IsFiniteSet(DOMAIN allocations')
    /\ used' = used + block.bytes /\ block.bytes \in Nat
    /\ UsedIsExact'

LEMMA EnterCounts ==
    ASSUME AllocatorInv, NEW id \in (Ids \cap ValidIds) \ DOMAIN allocations,
           NEW offset, NEW bytes,
           [offset |-> offset, bytes |-> bytes] \in Blocks, Enter(id, offset, bytes)
    PROVE  Entered(id, [offset |-> offset, bytes |-> bytes])
<1> DEFINE block == [offset |-> offset, bytes |-> bytes]
           f == BytesOf(allocations)
           g == BytesOf(allocations')
<1>1. /\ allocations' = Emplace(allocations, id, block)
      /\ used' = used + bytes
  BY DEF Enter
<1>2. /\ allocations \in [DOMAIN allocations -> Blocks]
      /\ DOMAIN allocations \subseteq Ids \cap ValidIds
      /\ IsFiniteSet(DOMAIN allocations)
      /\ used = Total(f)
  BY DEF AllocatorInv, AllocatorTypeOK, UsedIsExact, BytesOf
<1>3. /\ DOMAIN allocations' = DOMAIN allocations \cup {id}
      /\ allocations'[id] = block
      /\ \A other \in DOMAIN allocations : allocations'[other] = allocations[other]
      /\ allocations' = [k \in DOMAIN allocations' |-> allocations'[k]]
  BY <1>1 DEF Emplace
<1>4. \A k \in DOMAIN allocations' : allocations'[k] \in Blocks
  BY <1>2, <1>3
<1>5. allocations' \in [DOMAIN allocations' -> Blocks]
  BY <1>3, <1>4
<1>6. IsFiniteSet(DOMAIN allocations')
  BY <1>2, <1>3, FS_AddElement
<1>7. bytes \in Nat
  <2>1. block.bytes \in Nat
    BY BlockIsInterval
  <2> QED BY <2>1
<1>8. used' = Total(g)
  <2>1. /\ IsLedger(f) /\ DOMAIN f = DOMAIN allocations
        /\ \A k \in DOMAIN allocations : f[k] = allocations[k].bytes
    BY <1>2, BytesAreLedger
  <2>2. /\ DOMAIN g = DOMAIN allocations'
        /\ \A k \in DOMAIN allocations' : g[k] = allocations'[k].bytes
    BY DEF BytesOf
  <2> HIDE DEF f, g
  <2>3. /\ id \notin DOMAIN f /\ DOMAIN g = DOMAIN f \cup {id}
        /\ \A k \in DOMAIN f : g[k] = f[k]
        /\ g[id] = bytes
    BY <1>3, <2>1, <2>2
  <2>4. Total(g) = Total(f) + bytes
    BY <1>7, <2>1, <2>3, TotalGrow
  <2> QED BY <1>1, <1>2, <2>4
<1>9. UsedIsExact'
  BY <1>8 DEF UsedIsExact, BytesOf
<1> QED BY <1>1, <1>2, <1>3, <1>5, <1>6, <1>7, <1>9 DEF Entered

\* A new block that is apart from the held ones keeps them apart.
LEMMA EnterApart ==
    ASSUME AllocatorInv, NEW id, NEW block,
           DOMAIN allocations' = DOMAIN allocations \cup {id},
           allocations'[id] = block,
           \A other \in DOMAIN allocations : allocations'[other] = allocations[other],
           \A other \in DOMAIN allocations : Apart(block, allocations[other])
    PROVE  HeldApart'
<1> SUFFICES ASSUME NEW k \in DOMAIN allocations', NEW l \in DOMAIN allocations', k # l
             PROVE  Apart(allocations'[k], allocations'[l])
  BY DEF HeldApart, Apart, End
<1>1. CASE k \in DOMAIN allocations /\ l \in DOMAIN allocations
  BY <1>1 DEF AllocatorInv, HeldApart
<1>2. CASE k = id \/ l = id
  BY <1>2 DEF Apart
<1> QED BY <1>1, <1>2

\* The direct strategy enters a block behind all others.
LEMMA AllocateDirectKeeps ==
    ASSUME AllocatorInv, UNCHANGED strategy, NEW id \in Ids, NEW bytes \in Nat,
           AllocateError(id, bytes) = "None", AllocateDirect(id, bytes)
    PROVE  AllocatorInv'
<1> DEFINE offset == direct_next_offset
           block == [offset |-> offset, bytes |-> bytes]
<1>1. /\ strategy = "Direct" /\ strategy' = "Direct"
      /\ offset + bytes <= MaxOffset
      /\ direct_next_offset' = offset + bytes
      /\ Enter(id, offset, bytes)
      /\ free_blocks' = free_blocks
  BY DEF AllocateDirect
<1>2. /\ id \in (Ids \cap ValidIds) \ DOMAIN allocations
      /\ bytes # 0 /\ ~ (bytes > Capacity - used)
  BY <1>1 DEF AllocateError, OutOfMemory
<1>3. /\ used \in 0 .. Capacity /\ offset \in 0 .. MaxOffset /\ free_blocks \in Seq(Blocks)
      /\ Capacity \in Nat /\ MaxOffset \in Nat
  BY AllocatorAssumption DEF AllocatorInv, AllocatorTypeOK
<1>4. block \in Blocks
  <2>1. bytes \in 1 .. Capacity
    BY <1>2, <1>3
  <2> QED BY <1>3, <2>1 DEF Blocks
<1>5. /\ DOMAIN allocations' = DOMAIN allocations \cup {id}
      /\ allocations'[id] = block
      /\ \A other \in DOMAIN allocations : allocations'[other] = allocations[other]
      /\ allocations' \in [DOMAIN allocations' -> Blocks]
      /\ DOMAIN allocations' \subseteq Ids \cap ValidIds
      /\ IsFiniteSet(DOMAIN allocations')
      /\ used' = used + bytes
      /\ UsedIsExact'
  <2>1. Entered(id, block)
    BY <1>1, <1>2, <1>4, EnterCounts
  <2> QED BY <2>1 DEF Entered
<1>6. AllocatorTypeOK'
  <2>1. used' \in 0 .. Capacity /\ direct_next_offset' \in 0 .. MaxOffset
    BY <1>1, <1>2, <1>3, <1>5
  <2>2. free_blocks' \in Seq(Blocks)
    BY <1>1, <1>3
  <2> QED BY <1>5, <2>1, <2>2 DEF AllocatorTypeOK, Blocks
<1>7. \A other \in DOMAIN allocations : End(allocations[other]) <= offset
  BY <1>1 DEF AllocatorInv, HeldBelow, Limit
<1>8. HeldApart'
  <2>1. \A other \in DOMAIN allocations : Apart(block, allocations[other])
    BY <1>7 DEF Apart
  <2> QED BY <1>5, <2>1, EnterApart
<1>9. HeldBelow'
  <2>1. ASSUME NEW k \in DOMAIN allocations' PROVE End(allocations'[k]) <= offset + bytes
    <3>1. CASE k = id
      <4>1. End(block) = offset + bytes
        BY DEF End
      <4> QED BY <1>3, <1>5, <3>1, <4>1
    <3>2. CASE k # id
      <4>1. k \in DOMAIN allocations /\ allocations[k] \in Blocks
        BY <1>5, <3>2 DEF AllocatorInv, AllocatorTypeOK
      <4>2. End(allocations[k]) \in Nat
        BY <4>1, BlockIsInterval
      <4> QED BY <1>3, <1>5, <1>7, <4>1, <4>2
    <3> QED BY <3>1, <3>2
  <2>2. Limit' = offset + bytes
    BY <1>1 DEF Limit
  <2> QED BY <2>1, <2>2 DEF HeldBelow, End
<1> QED BY <1>1, <1>5, <1>6, <1>8, <1>9 DEF AllocatorInv, PoolInOrder

\* A pool enters the front of a free block.
LEMMA AllocateFromPoolKeeps ==
    ASSUME AllocatorInv, UNCHANGED strategy, NEW id \in Ids, NEW bytes \in Nat,
           AllocateError(id, bytes) = "None", AllocateFromPool(id, bytes)
    PROVE  AllocatorInv'
<1> DEFINE i == FirstFit(bytes)
           n == Len(free_blocks)
           left == TakeFront(free_blocks, i, bytes)
           taken == [offset |-> free_blocks[i].offset, bytes |-> bytes]
<1>1. /\ strategy = "Pool" /\ strategy' = "Pool"
      /\ free_blocks' = left
      /\ Enter(id, free_blocks[i].offset, bytes)
      /\ direct_next_offset' = direct_next_offset
  BY DEF AllocateFromPool, TakeFront
<1>2. /\ id \in (Ids \cap ValidIds) \ DOMAIN allocations
      /\ bytes # 0 /\ i # 0
  BY <1>1 DEF AllocateError, OutOfMemory
<1>3. /\ direct_next_offset \in 0 .. MaxOffset /\ free_blocks \in Seq(Blocks)
      /\ Spaced(free_blocks) /\ FreeNotHeld /\ NothingLost
  BY <1>1 DEF AllocatorInv, AllocatorTypeOK, PoolInOrder
<1>4. i \in 1 .. n /\ bytes > 0 /\ bytes <= free_blocks[i].bytes
  <2>1. i \in 1 .. n /\ free_blocks[i].bytes >= bytes
    BY <1>2, <1>3, FirstFitFinds
  <2> QED BY <1>2, <2>1
<1>5. /\ taken \in Blocks /\ End(taken) <= Capacity
      /\ left \in Seq(Blocks) /\ Spaced(left)
      /\ \A j \in 1 .. Len(left) :
            /\ Apart(taken, left[j])
            /\ \E k \in 1 .. n : /\ free_blocks[k].offset <= left[j].offset
                                 /\ End(left[j]) <= End(free_blocks[k])
      /\ \A address \in Int :
            Covered(address, free_blocks, n) <=>
              Covered(address, left, Len(left)) \/ Within(address, taken)
      /\ \A k \in 1 .. n : k # i => Apart(taken, free_blocks[k])
  <2> HIDE DEF i
  <2> QED BY <1>3, <1>4, TakeFrontTakes
<1>6. /\ DOMAIN allocations' = DOMAIN allocations \cup {id}
      /\ allocations'[id] = taken
      /\ \A other \in DOMAIN allocations : allocations'[other] = allocations[other]
      /\ allocations' \in [DOMAIN allocations' -> Blocks]
      /\ DOMAIN allocations' \subseteq Ids \cap ValidIds
      /\ IsFiniteSet(DOMAIN allocations')
      /\ UsedIsExact'
  <2> HIDE DEF i
  <2>1. Entered(id, taken)
    BY <1>1, <1>2, <1>5, EnterCounts
  <2> QED BY <2>1 DEF Entered
<1>7. \A other \in DOMAIN allocations :
         /\ allocations[other] \in Blocks
         /\ allocations[other].offset \in Nat /\ End(allocations[other]) \in Nat
         /\ End(allocations[other]) <= Capacity
  BY <1>1, BlockIsInterval DEF AllocatorInv, AllocatorTypeOK, HeldBelow, Limit
<1>8. n \in Nat /\ \A k \in 1 .. n : /\ free_blocks[k].offset \in Nat
                                     /\ free_blocks[k].bytes \in Nat
                                     /\ End(free_blocks[k]) \in Nat
                                     /\ End(free_blocks[k]) = free_blocks[k].offset + free_blocks[k].bytes
  BY <1>3, LenProperties, BlockIsInterval
<1> HIDE DEF i, n, left
<1>9. HeldApart'
  <2>1. ASSUME NEW other \in DOMAIN allocations PROVE Apart(taken, allocations[other])
    <3>1. Apart(allocations[other], free_blocks[i])
      BY <1>3, <1>4 DEF FreeNotHeld, n
    <3>2. taken.offset = free_blocks[i].offset /\ End(taken) = free_blocks[i].offset + bytes
      BY DEF End
    <3>3. End(taken) <= End(free_blocks[i])
      BY <1>4, <1>8, <3>2
    <3> QED BY <1>4, <1>7, <1>8, <3>1, <3>2, <3>3 DEF Apart
  <2> HIDE DEF taken
  <2> QED BY <1>6, <2>1, EnterApart
<1> HIDE DEF taken
<1>10. \A k \in DOMAIN allocations' : End(allocations'[k]) <= Capacity
  BY <1>5, <1>6, <1>7
<1>11. HeldBelow'
  BY <1>1, <1>10 DEF HeldBelow, Limit, End
<1>12. FreeNotHeld'
  <2> SUFFICES ASSUME NEW k \in DOMAIN allocations', NEW j \in 1 .. Len(left)
               PROVE  Apart(allocations'[k], left[j])
    BY <1>1 DEF FreeNotHeld, Apart, End
  <2>1. CASE k = id
    BY <1>5, <1>6, <2>1
  <2>2. CASE k # id
    <3>1. k \in DOMAIN allocations /\ allocations'[k] = allocations[k]
      BY <1>6, <2>2
    <3>2. PICK m \in 1 .. n : /\ free_blocks[m].offset <= left[j].offset
                              /\ End(left[j]) <= End(free_blocks[m])
      BY <1>5
    <3>3. Apart(allocations[k], free_blocks[m])
      BY <1>3, <3>1, <3>2 DEF FreeNotHeld, n
    <3>4. left[j] \in Blocks
      BY <1>5, LenProperties
    <3>5. left[j].offset \in Nat /\ End(left[j]) \in Nat
      BY <3>4, BlockIsInterval
    <3>6. /\ allocations[k].offset \in Nat /\ End(allocations[k]) \in Nat
          /\ free_blocks[m].offset \in Nat /\ End(free_blocks[m]) \in Nat
      BY <1>7, <1>8, <3>1
    <3>7. Apart(allocations[k], left[j])
      BY <3>2, <3>3, <3>5, <3>6 DEF Apart
    <3> QED BY <3>1, <3>7
  <2> QED BY <2>1, <2>2
<1>13. NothingLost'
  <2> SUFFICES ASSUME NEW address \in 0 .. Capacity - 1,
                      ~ Covered(address, left, Len(left))
               PROVE  \E k \in DOMAIN allocations' : Within(address, allocations'[k])
    BY <1>1 DEF NothingLost, HoldersOf, Covered, Within, End
  <2>1. Covered(address, free_blocks, n) <=> Within(address, taken)
    <3>1. address \in Int
      OBVIOUS
    <3> QED BY <1>5, <3>1
  <2>2. CASE Within(address, taken)
    BY <1>6, <2>2
  <2>3. CASE ~ Within(address, taken)
    <3>1. HoldersOf(address) # {}
      BY <1>3, <2>1, <2>3 DEF NothingLost, n
    <3> QED BY <1>6, <3>1 DEF HoldersOf
  <2> QED BY <2>2, <2>3
<1>14. AllocatorTypeOK'
  <2>1. Total(BytesOf(allocations')) <= Capacity
    <3>1. \A k, l \in DOMAIN allocations' : k # l => Apart(allocations'[k], allocations'[l])
      BY <1>9 DEF HeldApart, Apart, End
    <3> QED BY <1>6, <1>10, <3>1, TotalIsAddresses, AllocatorAssumption
  <2>2. used' = Total(BytesOf(allocations')) /\ Total(BytesOf(allocations')) \in Nat
    <3>1. IsLedger(BytesOf(allocations'))
      BY <1>6, BytesAreLedger
    <3> QED BY <1>6, <3>1, TotalNat DEF UsedIsExact, BytesOf
  <2>3. used' \in 0 .. Capacity
    BY <2>1, <2>2, AllocatorAssumption
  <2> QED BY <1>1, <1>3, <1>5, <1>6, <2>3 DEF AllocatorTypeOK, Blocks
<1>15. Spaced(free_blocks)'
  BY <1>1, <1>5 DEF Spaced, End
<1> QED BY <1>1, <1>6, <1>9, <1>11, <1>12, <1>13, <1>14, <1>15 DEF AllocatorInv, PoolInOrder

\* An answer that is an error changes nothing else.
LEMMA RefuseKeeps ==
    ASSUME AllocatorInv, UNCHANGED <<strategy, used, direct_next_offset, free_blocks, allocations>>
    PROVE  AllocatorInv'
BY DEF AllocatorInv, AllocatorTypeOK, UsedIsExact, HeldApart, HeldBelow, Limit, PoolInOrder,
       Spaced, FreeNotHeld, NothingLost, Covered, HoldersOf

-----------------------------------------------------------------------------
(***************************************************************************)
(* release.                                                                *)
(***************************************************************************)

\* What is erased from the records is taken off the count.
LEMMA EraseCounts ==
    ASSUME AllocatorInv, NEW id \in DOMAIN allocations,
           allocations' = Erase(allocations, {id}),
           used' = used - allocations[id].bytes
    PROVE  /\ DOMAIN allocations' = DOMAIN allocations \ {id}
           /\ \A other \in DOMAIN allocations' : allocations'[other] = allocations[other]
           /\ allocations' \in [DOMAIN allocations' -> Blocks]
           /\ DOMAIN allocations' \subseteq Ids \cap ValidIds
           /\ IsFiniteSet(DOMAIN allocations')
           /\ used' \in 0 .. Capacity
           /\ UsedIsExact'
<1> DEFINE f == BytesOf(allocations')
           g == BytesOf(allocations)
<1>1. /\ allocations \in [DOMAIN allocations -> Blocks]
      /\ DOMAIN allocations \subseteq Ids \cap ValidIds
      /\ IsFiniteSet(DOMAIN allocations)
      /\ used = Total(g) /\ used \in 0 .. Capacity
  BY DEF AllocatorInv, AllocatorTypeOK, UsedIsExact, BytesOf
<1>2. /\ DOMAIN allocations' = DOMAIN allocations \ {id}
      /\ \A other \in DOMAIN allocations' : allocations'[other] = allocations[other]
      /\ allocations' = [k \in DOMAIN allocations' |-> allocations'[k]]
  BY DEF Erase, Restrict
<1>3. \A k \in DOMAIN allocations' : allocations'[k] \in Blocks
  BY <1>1, <1>2
<1>4. allocations' \in [DOMAIN allocations' -> Blocks]
  BY <1>2, <1>3
<1>5. IsFiniteSet(DOMAIN allocations')
  BY <1>1, <1>2, FS_Subset
<1>6. /\ IsLedger(g) /\ DOMAIN g = DOMAIN allocations
      /\ \A k \in DOMAIN allocations : g[k] = allocations[k].bytes
  BY <1>1, BytesAreLedger
<1>7. /\ IsLedger(f) /\ DOMAIN f = DOMAIN allocations'
      /\ \A k \in DOMAIN allocations' : f[k] = allocations'[k].bytes
  BY <1>4, <1>5, BytesAreLedger
<1> HIDE DEF g, f
<1>8. /\ id \notin DOMAIN f /\ DOMAIN g = DOMAIN f \cup {id}
      /\ \A k \in DOMAIN f : g[k] = f[k]
      /\ g[id] \in Nat /\ g[id] = allocations[id].bytes
  <2>1. DOMAIN g = DOMAIN f \cup {id} /\ id \notin DOMAIN f
    BY <1>2, <1>6, <1>7
  <2>2. \A k \in DOMAIN f : g[k] = f[k]
    BY <1>2, <1>6, <1>7
  <2>3. g[id] = allocations[id].bytes
    BY <1>6
  <2>4. g[id] \in Nat
    BY <1>6 DEF IsLedger
  <2> QED BY <2>1, <2>2, <2>3, <2>4
<1>9. Total(g) = Total(f) + g[id] /\ Total(f) \in Nat
  <2>1. Total(f) \in Nat
    BY <1>7, TotalNat
  <2>2. Total(g) = Total(f) + g[id]
    <3>1. IsLedger(f) /\ id \notin DOMAIN f /\ DOMAIN g = DOMAIN f \cup {id}
      BY <1>7, <1>8
    <3>2. \A x \in DOMAIN f : g[x] = f[x]
      BY <1>8
    <3>3. g[id] \in Nat
      BY <1>8
    <3> QED BY <3>1, <3>2, <3>3, TotalGrow
  <2> QED BY <2>1, <2>2
<1>10. used' = Total(f) /\ used' \in 0 .. Capacity
  BY <1>1, <1>8, <1>9, AllocatorAssumption
<1>11. UsedIsExact'
  BY <1>10 DEF UsedIsExact, BytesOf, f
<1> QED BY <1>1, <1>2, <1>4, <1>5, <1>10, <1>11

\* Releasing a block keeps the invariant.
LEMMA ReleaseKeeps ==
    ASSUME AllocatorInv, UNCHANGED strategy, NEW id \in DOMAIN allocations, Release(id)
    PROVE  AllocatorInv'
<1> DEFINE b == allocations[id]
           n == Len(free_blocks)
           result == Coalesce(Append(free_blocks, b))
<1>1. /\ free_blocks' = IF strategy = "Pool" THEN result ELSE free_blocks
      /\ used' = used - b.bytes
      /\ allocations' = Erase(allocations, {id})
      /\ direct_next_offset' = direct_next_offset
      /\ strategy' = strategy
  BY DEF Release
<1>2. /\ DOMAIN allocations' = DOMAIN allocations \ {id}
      /\ \A other \in DOMAIN allocations' : allocations'[other] = allocations[other]
      /\ allocations' \in [DOMAIN allocations' -> Blocks]
      /\ DOMAIN allocations' \subseteq Ids \cap ValidIds
      /\ IsFiniteSet(DOMAIN allocations')
      /\ used' \in 0 .. Capacity
      /\ UsedIsExact'
  BY <1>1, EraseCounts
<1>3. /\ free_blocks \in Seq(Blocks) /\ direct_next_offset \in 0 .. MaxOffset
      /\ strategy \in {"Direct", "Pool"}
      /\ \A k \in DOMAIN allocations : allocations[k] \in Blocks /\ End(allocations[k]) <= Limit
  BY DEF AllocatorInv, AllocatorTypeOK, HeldBelow
<1>4. HeldApart'
  BY <1>2 DEF AllocatorInv, HeldApart
<1>5. HeldBelow'
  BY <1>1, <1>2 DEF AllocatorInv, HeldBelow, Limit
<1>6. CASE strategy # "Pool"
  <2>1. AllocatorTypeOK'
    BY <1>1, <1>2, <1>3, <1>6 DEF AllocatorTypeOK, Blocks
  <2> QED BY <1>1, <1>2, <1>3, <1>4, <1>5, <1>6, <2>1 DEF AllocatorInv, PoolInOrder
<1>7. CASE strategy = "Pool"
  <2>1. Spaced(free_blocks) /\ FreeNotHeld /\ NothingLost
    BY <1>7 DEF AllocatorInv, PoolInOrder
  <2>2. b \in Blocks /\ End(b) <= Capacity /\ \A i \in 1 .. n : Apart(b, free_blocks[i])
    BY <1>3, <1>7, <2>1 DEF Limit, FreeNotHeld
  <2>3. /\ result \in Seq(Blocks) /\ Spaced(result)
        /\ \A address \in Int :
              Covered(address, result, Len(result)) <=>
                Covered(address, free_blocks, n) \/ Within(address, b)
    <3> HIDE DEF b
    <3> QED BY <1>3, <2>1, <2>2, CoalesceSpaces
  <2>4. free_blocks' = result
    BY <1>1, <1>7
  <2> HIDE DEF b, n, result
  <2>5. AllocatorTypeOK'
    BY <1>1, <1>2, <1>3, <2>3, <2>4 DEF AllocatorTypeOK, Blocks
  <2>6. Spaced(free_blocks)'
    BY <2>3, <2>4 DEF Spaced, End
  <2>7. FreeNotHeld'
    <3> SUFFICES ASSUME NEW k \in DOMAIN allocations', NEW j \in 1 .. Len(result)
                 PROVE  Apart(allocations[k], result[j])
      BY <1>2, <2>4 DEF FreeNotHeld, Apart, End
    <3> DEFINE x == allocations[k]
               y == result[j]
    <3>1. k \in DOMAIN allocations /\ k # id /\ x \in Blocks /\ y \in Blocks
      BY <1>2, <1>3, <2>3, LenProperties
    <3>2. /\ x.offset \in Nat /\ End(x) \in Nat /\ x.offset < End(x)
          /\ y.offset \in Nat /\ End(y) \in Nat /\ y.offset < End(y)
      BY <3>1, BlockIsInterval
    <3>3. ASSUME NEW address \in Int, Within(address, x), Within(address, y)
          PROVE  FALSE
      <4>1. Covered(address, result, Len(result))
        BY <3>3 DEF Covered
      <4>2. Covered(address, free_blocks, n) \/ Within(address, b)
        BY <2>3, <4>1
      <4>3. CASE Within(address, b)
        <5>1. Apart(x, b)
          BY <3>1 DEF AllocatorInv, HeldApart, b
        <5>2. b.offset \in Nat /\ End(b) \in Nat
          BY <2>2, BlockIsInterval
        <5> QED BY <3>2, <3>3, <4>3, <5>1, <5>2 DEF Apart, Within
      <4>4. ASSUME NEW i \in 1 .. n, Within(address, free_blocks[i])
            PROVE  FALSE
        <5>1. Apart(x, free_blocks[i])
          BY <2>1, <3>1 DEF FreeNotHeld, n
        <5>2. free_blocks[i] \in Blocks
          BY <1>3, LenProperties DEF n
        <5>3. free_blocks[i].offset \in Nat /\ End(free_blocks[i]) \in Nat
          BY <5>2, BlockIsInterval
        <5> QED BY <3>2, <3>3, <4>4, <5>1, <5>3 DEF Apart, Within
      <4> QED BY <4>2, <4>3, <4>4 DEF Covered
    <3>4. ~ Within(x.offset, y) /\ ~ Within(y.offset, x)
      <4>1. Within(x.offset, x) /\ Within(y.offset, y)
        BY <3>2 DEF Within
      <4> QED BY <3>2, <3>3, <4>1
    <3> QED BY <3>2, <3>4 DEF Within, Apart
  <2>8. NothingLost'
    <3> SUFFICES ASSUME NEW address \in 0 .. Capacity - 1,
                        ~ Covered(address, result, Len(result))
                 PROVE  \E k \in DOMAIN allocations' : Within(address, allocations'[k])
      BY <2>4 DEF NothingLost, HoldersOf, Covered, Within, End
    <3>1. ~ Covered(address, free_blocks, n) /\ ~ Within(address, b)
      <4>1. address \in Int
        OBVIOUS
      <4> QED BY <2>3, <4>1
    <3>2. PICK k \in DOMAIN allocations : Within(address, allocations[k])
      BY <2>1, <3>1 DEF NothingLost, HoldersOf, n
    <3>3. k # id
      BY <3>1, <3>2 DEF b
    <3> QED BY <1>2, <3>2, <3>3
  <2> QED BY <1>1, <1>2, <1>3, <1>4, <1>5, <2>5, <2>6, <2>7, <2>8 DEF AllocatorInv, PoolInOrder
<1> QED BY <1>6, <1>7

-----------------------------------------------------------------------------

\* A new allocator satisfies the invariant.
LEMMA AllocatorInitially == Init => AllocatorInv
<1> SUFFICES ASSUME Init PROVE AllocatorInv
  OBVIOUS
<1> DEFINE all == [offset |-> 0, bytes |-> Capacity]
<1>1. /\ strategy \in {"Direct", "Pool"} /\ used = 0 /\ direct_next_offset = 0
      /\ free_blocks = <<all>> /\ allocations = [id \in {} |-> 0]
  BY DEF Init
<1>2. DOMAIN allocations = {} /\ allocations \in [{} -> Blocks]
  BY <1>1
<1>3. all \in Blocks /\ End(all) = Capacity
  BY AllocatorAssumption DEF Blocks, End
<1>4. free_blocks \in Seq(Blocks) /\ Len(free_blocks) = 1 /\ free_blocks[1] = all
  BY <1>1, <1>3
<1>5. AllocatorTypeOK
  BY <1>1, <1>2, <1>4, AllocatorAssumption DEF AllocatorTypeOK
<1>6. UsedIsExact
  <2>1. DOMAIN [id \in DOMAIN allocations |-> allocations[id].bytes] = {}
    BY <1>2
  <2> QED BY <1>1, <2>1, TotalEmpty DEF UsedIsExact
<1>7. IsFiniteSet(DOMAIN allocations)
  BY <1>2, FS_EmptySet
<1>8. HeldApart /\ HeldBelow /\ FreeNotHeld
  BY <1>2 DEF HeldApart, HeldBelow, FreeNotHeld
<1> HIDE DEF all
<1>9. Spaced(free_blocks)
  <2>1. \A i \in 1 .. 1 : i = 1
    OBVIOUS
  <2>2. Capacity <= Capacity
    BY AllocatorAssumption
  <2> QED BY <1>3, <1>4, <2>1, <2>2 DEF Spaced
<1>10. NothingLost
  <2> SUFFICES ASSUME NEW address \in 0 .. Capacity - 1
               PROVE  Within(address, free_blocks[1])
    BY <1>4 DEF NothingLost, Covered
  <2>1. all.offset = 0
    BY DEF all
  <2> QED BY <1>3, <1>4, <2>1, AllocatorAssumption DEF Within
<1> QED BY <1>1, <1>5, <1>6, <1>7, <1>8, <1>9, <1>10 DEF AllocatorInv, PoolInOrder

\* Every step keeps it.
LEMMA AllocatorNext == AllocatorInv /\ [Next]_vars => AllocatorInv'
<1> SUFFICES ASSUME AllocatorInv, [Next]_vars PROVE AllocatorInv'
  OBVIOUS
<1>1. ASSUME NEW error, UNCHANGED strategy, Refuse(error) PROVE AllocatorInv'
  BY <1>1, RefuseKeeps DEF Refuse
<1>2. ASSUME UNCHANGED strategy, NEW id \in Ids, Release(id) PROVE AllocatorInv'
  BY <1>1, <1>2, ReleaseKeeps DEF Release
<1>3. ASSUME UNCHANGED strategy, NEW id \in Ids, NEW bytes \in Sizes, Allocate(id, bytes)
      PROVE  AllocatorInv'
  <2>1. bytes \in Nat
    BY AllocatorAssumption
  <2> QED BY <1>1, <1>3, <2>1, AllocateDirectKeeps, AllocateFromPoolKeeps DEF Allocate
<1>4. CASE UNCHANGED vars
  BY <1>4, RefuseKeeps DEF vars
<1> QED BY <1>2, <1>3, <1>4 DEF Next

\* The allocator keeps its records and its free list in order, whatever is
\* allocated and released.
THEOREM AllocatorInvariance == Spec => []AllocatorInv
BY AllocatorInitially, AllocatorNext, PTL DEF Spec

\* The state of the allocator is well formed; used_ never passes the capacity.
THEOREM AllocatorTypeCorrect == Spec => []AllocatorTypeOK
<1>1. AllocatorInv => AllocatorTypeOK
  BY DEF AllocatorInv
<1> QED BY <1>1, AllocatorInvariance, PTL

\* used_ is the sum of the live allocations.
THEOREM UsedCorrect == Spec => []UsedIsExact
<1>1. AllocatorInv => UsedIsExact
  BY DEF AllocatorInv
<1> QED BY <1>1, AllocatorInvariance, PTL

\* In every state of the invariant the free list is the gaps.
LEMMA InvGaps == AllocatorInv => FreeListIsTheGaps
<1> SUFFICES ASSUME AllocatorInv, strategy = "Pool"
             PROVE  /\ \A address \in Addresses :
                          Cardinality(HoldersOf(address)) + Cardinality(FreeBlocksAt(address))
                              = IF address < Capacity THEN 1 ELSE 0
                    /\ \A i \in 1 .. Len(free_blocks) - 1 :
                          End(free_blocks[i]) < free_blocks[i + 1].offset
  BY DEF FreeListIsTheGaps
<1> DEFINE n == Len(free_blocks)
<1>1. /\ HeldApart /\ FreeNotHeld /\ NothingLost /\ Spaced(free_blocks)
      /\ free_blocks \in Seq(Blocks) /\ Capacity \in Nat /\ MaxOffset \in Nat
      /\ \A id \in DOMAIN allocations : /\ allocations[id] \in Blocks
                                        /\ End(allocations[id]) <= Capacity
  BY AllocatorAssumption DEF AllocatorInv, PoolInOrder, AllocatorTypeOK, HeldBelow, Limit
<1>2. /\ n \in Nat /\ DOMAIN free_blocks = 1 .. n
      /\ \A i \in 1 .. n : free_blocks[i] \in Blocks /\ End(free_blocks[i]) <= Capacity
  BY <1>1, LenProperties DEF Spaced
<1>3. \A b \in Blocks : b.offset \in Nat /\ End(b) \in Nat
  BY BlockIsInterval
<1>4. ASSUME NEW address \in Addresses
      PROVE  Cardinality(HoldersOf(address)) + Cardinality(FreeBlocksAt(address))
               = IF address < Capacity THEN 1 ELSE 0
  <2> DEFINE H == HoldersOf(address)
             F == FreeBlocksAt(address)
  <2>1. address \in Nat
    BY <1>1 DEF Addresses
  <2>2. \A x, y \in H : x = y
    BY <1>1, <1>3, <2>1 DEF HoldersOf, HeldApart, Apart, Within
  <2>3. \A i, j \in F : i = j
    <3> SUFFICES ASSUME NEW i \in F, NEW j \in F, i < j PROVE FALSE
      BY <1>2 DEF FreeBlocksAt
    <3>1. i \in 1 .. n /\ j \in 1 .. n /\ Within(address, free_blocks[i]) /\ Within(address, free_blocks[j])
      BY <1>2 DEF FreeBlocksAt
    <3>2. End(free_blocks[i]) < free_blocks[j].offset
      BY <1>1, <3>1 DEF Spaced
    <3> QED BY <1>2, <1>3, <2>1, <3>1, <3>2 DEF Within
  <2>4. ~ (H # {} /\ F # {})
    <3> SUFFICES ASSUME NEW id \in H, NEW i \in F PROVE FALSE
      OBVIOUS
    <3>1. /\ id \in DOMAIN allocations /\ Within(address, allocations[id])
          /\ i \in 1 .. n /\ Within(address, free_blocks[i])
      BY <1>2 DEF HoldersOf, FreeBlocksAt
    <3>2. Apart(allocations[id], free_blocks[i])
      BY <1>1, <3>1 DEF FreeNotHeld
    <3> QED BY <1>1, <1>2, <1>3, <2>1, <3>1, <3>2 DEF Within, Apart
  <2>5. address < Capacity => H # {} \/ F # {}
    <3> SUFFICES ASSUME address < Capacity PROVE H # {} \/ F # {}
      OBVIOUS
    <3>1. address \in 0 .. Capacity - 1
      BY <1>1, <2>1
    <3> QED BY <1>1, <1>2, <3>1 DEF NothingLost, Covered, FreeBlocksAt
  <2>6. ~ (address < Capacity) => H = {} /\ F = {}
    BY <1>1, <1>2, <1>3, <2>1 DEF HoldersOf, FreeBlocksAt, Within
  <2> HIDE DEF H, F
  <2>7. ASSUME NEW S, \A x, y \in S : x = y
        PROVE  Cardinality(S) = IF S = {} THEN 0 ELSE 1
    <3>1. CASE S = {}
      BY <3>1, FS_EmptySet
    <3>2. CASE S # {}
      <4>1. PICK x : S = {x}
        BY <2>7, <3>2
      <4> QED BY <3>2, <4>1, FS_Singleton
    <3> QED BY <3>1, <3>2
  <2>8. Cardinality(H) = (IF H = {} THEN 0 ELSE 1) /\ Cardinality(F) = IF F = {} THEN 0 ELSE 1
    BY <2>2, <2>3, <2>7
  <2>9. Cardinality(H) + Cardinality(F) = IF address < Capacity THEN 1 ELSE 0
    BY <2>4, <2>5, <2>6, <2>8
  <2> QED BY <2>9 DEF H, F
<1>5. ASSUME NEW i \in 1 .. n - 1
      PROVE  End(free_blocks[i]) < free_blocks[i + 1].offset
  <2>1. i \in 1 .. n /\ i + 1 \in 1 .. n /\ i < i + 1
    BY <1>2
  <2> QED BY <1>1, <2>1 DEF Spaced
<1> QED BY <1>4, <1>5

\* In a pool, after any history of splits and merges, every address is in
\* exactly one allocation or one free block, and no two free blocks touch.
THEOREM FreeListCorrect == Spec => []FreeListIsTheGaps
BY InvGaps, AllocatorInvariance, PTL

-----------------------------------------------------------------------------
(***************************************************************************)
(* The allocator implements AddressSpace.                                  *)
(***************************************************************************)

\* The abstract specification counts and compares as this module does.
LEMMA PromiseOperators ==
    /\ Promise!Addresses = Addresses
    /\ \A S : Promise!Cardinality(S) = Cardinality(S)
    /\ \A S : Promise!Min(S) = Min(S)
BY DEF Promise!Addresses, Addresses, Promise!Cardinality, Cardinality, Promise!Min, Min

\* An address is its holder's, and nobody's if there is none.
OwnerIsHolder ==
    /\ DOMAIN Owner = Addresses
    /\ Nobody \notin DOMAIN allocations
    /\ \A address \in Addresses :
          /\ Owner[address] \in DOMAIN allocations \cup {Nobody}
          /\ \A id \in DOMAIN allocations : Owner[address] = id <=> Within(address, allocations[id])

\* The owner is well defined in every state of the invariant.
LEMMA InvOwner == AllocatorInv => OwnerIsHolder
<1> SUFFICES ASSUME AllocatorInv PROVE OwnerIsHolder
  OBVIOUS
<1>1. Nobody \notin DOMAIN allocations
  BY AllocatorAssumption DEF AllocatorInv, AllocatorTypeOK
<1>2. \A id \in DOMAIN allocations :
         allocations[id].offset \in Nat /\ End(allocations[id]) \in Nat
  BY BlockIsInterval DEF AllocatorInv, AllocatorTypeOK
<1>3. ASSUME NEW address \in Addresses
      PROVE  /\ Owner[address] \in DOMAIN allocations \cup {Nobody}
             /\ \A id \in DOMAIN allocations :
                   Owner[address] = id <=> Within(address, allocations[id])
  <2>1. address \in Nat
    BY AllocatorAssumption DEF Addresses
  <2>2. \A x, y \in HoldersOf(address) : x = y
    BY <1>2, <2>1 DEF AllocatorInv, HeldApart, HoldersOf, Apart, Within
  <2>3. Owner[address] = IF HoldersOf(address) = {} THEN Nobody
                         ELSE CHOOSE id \in HoldersOf(address) : TRUE
    BY DEF Owner
  <2>4. CASE HoldersOf(address) = {}
    BY <1>1, <2>3, <2>4 DEF HoldersOf
  <2>5. CASE HoldersOf(address) # {}
    <3>1. Owner[address] \in HoldersOf(address)
      BY <2>3, <2>5
    <3> QED BY <2>2, <3>1 DEF HoldersOf
  <2> QED BY <2>4, <2>5
<1>4. DOMAIN Owner = Addresses
  BY DEF Owner
<1> QED BY <1>1, <1>3, <1>4 DEF OwnerIsHolder

\* The addresses of an id are its block.
LEMMA AddressesOfHolder ==
    ASSUME AllocatorInv
    PROVE  /\ \A id \in DOMAIN allocations :
                 /\ Promise!AddressesOf(id)
                      = allocations[id].offset .. End(allocations[id]) - 1
                 /\ Promise!AddressesOf(id) # {}
           /\ \A id \in Ids \ DOMAIN allocations : Promise!AddressesOf(id) = {}
<1>1. OwnerIsHolder
  BY InvOwner
<1>2. ASSUME NEW id \in DOMAIN allocations
      PROVE  /\ Promise!AddressesOf(id) = allocations[id].offset .. End(allocations[id]) - 1
             /\ Promise!AddressesOf(id) # {}
  <2> DEFINE b == allocations[id]
  <2>1. b \in Blocks /\ End(b) <= Limit /\ direct_next_offset \in 0 .. MaxOffset
    BY DEF AllocatorInv, AllocatorTypeOK, HeldBelow
  <2>2. Limit \in Nat /\ Limit <= MaxOffset
    BY <2>1, AllocatorAssumption DEF Limit
  <2>3. b.offset \in Nat /\ End(b) \in Nat /\ b.offset < End(b)
    BY <2>1, BlockIsInterval
  <2>4. Promise!AddressesOf(id) = {address \in Addresses : Within(address, b)}
    BY <1>1, PromiseOperators DEF Promise!AddressesOf, OwnerIsHolder
  <2> HIDE DEF b
  <2>5. \A address : address \in Addresses /\ Within(address, b)
                       <=> address \in b.offset .. End(b) - 1
    BY <2>1, <2>2, <2>3, AllocatorAssumption DEF Addresses, Within
  <2>6. Promise!AddressesOf(id) = b.offset .. End(b) - 1
    BY <2>4, <2>5
  <2>7. b.offset \in b.offset .. End(b) - 1
    BY <2>3
  <2> QED BY <2>6, <2>7 DEF b
<1>3. ASSUME NEW id \in Ids \ DOMAIN allocations
      PROVE  Promise!AddressesOf(id) = {}
  BY <1>1, PromiseOperators, AllocatorAssumption DEF Promise!AddressesOf, OwnerIsHolder
<1> QED BY <1>2, <1>3

\* A block is unowned if no address of it is held.
LEMMA UnownedBlock ==
    ASSUME AllocatorInv, NEW offset \in Nat, NEW bytes \in Nat, offset + bytes <= MaxOffset
    PROVE  Promise!Unowned(Promise!Block(offset, bytes)) <=>
             \A address \in offset .. offset + bytes - 1 :
                \A id \in DOMAIN allocations : ~ Within(address, allocations[id])
<1>1. OwnerIsHolder
  BY InvOwner
<1>2. \A address \in offset .. offset + bytes - 1 : address \in Addresses
  BY AllocatorAssumption DEF Addresses
<1>3. \A address \in Addresses :
         Owner[address] = Nobody <=>
           \A id \in DOMAIN allocations : ~ Within(address, allocations[id])
  BY <1>1 DEF OwnerIsHolder
<1> QED BY <1>2, <1>3 DEF Promise!Unowned, Promise!Block

\* A gap of a pool lies in one free block: two that touch would be one.
LEMMA GapInFreeBlock ==
    ASSUME AllocatorInv, strategy = "Pool", NEW bytes \in Nat, bytes > 0,
           NEW gap \in Promise!Gaps(bytes)
    PROVE  \E j \in 1 .. Len(free_blocks) :
              /\ free_blocks[j].offset <= gap
              /\ free_blocks[j].bytes >= bytes
<1> DEFINE n == Len(free_blocks)
<1>1. /\ NothingLost /\ Spaced(free_blocks) /\ free_blocks \in Seq(Blocks)
      /\ Capacity \in Nat /\ MaxOffset \in Nat /\ Capacity <= MaxOffset
  BY AllocatorAssumption DEF AllocatorInv, PoolInOrder, AllocatorTypeOK
<1>2. n \in Nat /\ \A i \in 1 .. n : free_blocks[i] \in Blocks
  BY <1>1, LenProperties
<1>3. \A i \in 1 .. n : /\ free_blocks[i].offset \in Nat /\ free_blocks[i].bytes \in Nat
                        /\ End(free_blocks[i]) \in Nat
                        /\ End(free_blocks[i]) = free_blocks[i].offset + free_blocks[i].bytes
                        /\ free_blocks[i].offset < End(free_blocks[i])
  BY <1>2, BlockIsInterval
<1>4. gap \in 0 .. Capacity - bytes /\ Promise!Unowned(Promise!Block(gap, bytes))
  BY DEF Promise!Gaps
<1>5. gap \in Nat /\ gap + bytes <= Capacity /\ gap + bytes <= MaxOffset
  BY <1>1, <1>4
<1>6. ASSUME NEW address \in gap .. gap + bytes - 1
      PROVE  \E i \in 1 .. n : Within(address, free_blocks[i])
  <2>1. HoldersOf(address) = {}
    BY <1>4, <1>5, UnownedBlock DEF HoldersOf
  <2>2. address \in 0 .. Capacity - 1
    BY <1>1, <1>5
  <2> QED BY <1>1, <2>1, <2>2 DEF NothingLost, Covered
<1>7. PICK j \in 1 .. n : Within(gap, free_blocks[j])
  BY <1>5, <1>6
<1>8. End(free_blocks[j]) >= gap + bytes
  <2> SUFFICES ASSUME End(free_blocks[j]) < gap + bytes PROVE FALSE
    BY <1>3, <1>5
  <2> DEFINE e == End(free_blocks[j])
  <2>1. e \in Nat /\ gap < e /\ e \in gap .. gap + bytes - 1
    BY <1>3, <1>5, <1>7 DEF Within
  <2>2. PICK i \in 1 .. n : Within(e, free_blocks[i])
    BY <1>6, <2>1
  <2>3. i # j
    BY <1>3, <2>2 DEF Within
  <2>4. CASE i < j
    <3>1. End(free_blocks[i]) < free_blocks[j].offset
      BY <1>1, <2>4 DEF Spaced
    <3> QED BY <1>3, <2>2, <3>1 DEF Within
  <2>5. CASE j < i
    <3>1. End(free_blocks[j]) < free_blocks[i].offset
      BY <1>1, <2>5 DEF Spaced
    <3> QED BY <1>3, <2>2, <3>1 DEF Within
  <2> QED BY <1>2, <2>3, <2>4, <2>5
<1>9. free_blocks[j].offset <= gap /\ free_blocks[j].bytes >= bytes
  BY <1>3, <1>5, <1>7, <1>8 DEF Within
<1> QED BY <1>9

\* First fit finds the lowest gap, if there is one.
LEMMA FirstFitIsLowest ==
    ASSUME AllocatorInv, strategy = "Pool", NEW bytes \in Nat, bytes > 0
    PROVE  /\ FirstFit(bytes) = 0 => Promise!PlacesInPool(bytes) = {}
           /\ FirstFit(bytes) # 0 =>
                free_blocks[FirstFit(bytes)].offset \in Promise!PlacesInPool(bytes)
<1> DEFINE n == Len(free_blocks)
           i == FirstFit(bytes)
           offset == free_blocks[i].offset
<1>1. /\ free_blocks \in Seq(Blocks) /\ Spaced(free_blocks) /\ FreeNotHeld
      /\ Capacity \in Nat /\ MaxOffset \in Nat /\ Capacity <= MaxOffset
  BY AllocatorAssumption DEF AllocatorInv, AllocatorTypeOK, PoolInOrder
<1>2. /\ n \in Nat
      /\ \A j \in 1 .. n : free_blocks[j].offset \in Nat /\ free_blocks[j].bytes \in Nat
      /\ \A j \in 1 .. n : /\ End(free_blocks[j]) = free_blocks[j].offset + free_blocks[j].bytes
                           /\ End(free_blocks[j]) <= Capacity
  BY <1>1, LenProperties, BlockIsInterval DEF Spaced
<1>3. \/ i = 0 /\ \A j \in 1 .. n : free_blocks[j].bytes < bytes
      \/ /\ i \in 1 .. n /\ i # 0
         /\ free_blocks[i].bytes >= bytes
         /\ \A j \in 1 .. n : j < i => free_blocks[j].bytes < bytes
  BY <1>1, FirstFitFinds
<1> HIDE DEF i
<1>4. CASE i = 0
  <2>1. Promise!Gaps(bytes) = {}
    <3> SUFFICES ASSUME NEW gap \in Promise!Gaps(bytes) PROVE FALSE
      OBVIOUS
    <3>1. PICK j \in 1 .. n : free_blocks[j].bytes >= bytes
      BY GapInFreeBlock
    <3>2. free_blocks[j].bytes < bytes
      BY <1>2, <1>3, <1>4
    <3> QED BY <1>2, <3>1, <3>2
  <2> QED BY <1>4, <2>1 DEF Promise!PlacesInPool, i
<1>5. CASE i # 0
  <2>1. i \in 1 .. n /\ free_blocks[i].bytes >= bytes /\ offset \in Nat
    BY <1>2, <1>3, <1>5
  <2>2. offset + bytes <= End(free_blocks[i]) /\ offset + bytes <= Capacity
    BY <1>1, <1>2, <2>1
  <2>3. offset \in Promise!Gaps(bytes)
    <3>1. ASSUME NEW address \in offset .. offset + bytes - 1, NEW id \in DOMAIN allocations
          PROVE  ~ Within(address, allocations[id])
      <4>1. Apart(allocations[id], free_blocks[i])
        BY <1>1, <2>1 DEF FreeNotHeld
      <4>2. allocations[id].offset \in Nat /\ End(allocations[id]) \in Nat
        BY BlockIsInterval DEF AllocatorInv, AllocatorTypeOK
      <4>3. /\ End(free_blocks[i]) \in Nat /\ address \in Int
            /\ offset <= address /\ address < End(free_blocks[i])
        BY <1>2, <2>1, <2>2
      <4> QED BY <2>1, <4>1, <4>2, <4>3 DEF Apart, Within
    <3>2. offset + bytes <= MaxOffset
      BY <1>1, <2>1, <2>2
    <3>3. Promise!Unowned(Promise!Block(offset, bytes))
      BY <2>1, <3>1, <3>2, UnownedBlock
    <3>4. offset \in 0 .. Capacity - bytes
      BY <1>1, <2>1, <2>2
    <3> QED BY <3>3, <3>4 DEF Promise!Gaps
  <2>4. ASSUME NEW gap \in Promise!Gaps(bytes) PROVE offset <= gap
    <3>1. PICK j \in 1 .. n : free_blocks[j].offset <= gap /\ free_blocks[j].bytes >= bytes
      BY GapInFreeBlock
    <3>2. ~ (j < i)
      BY <1>2, <1>3, <2>1, <3>1
    <3>3. gap \in Int
      BY DEF Promise!Gaps
    <3>4. offset <= free_blocks[j].offset
      <4>1. CASE j = i
        BY <1>2, <2>1, <4>1
      <4>2. CASE i < j
        <5>1. End(free_blocks[i]) < free_blocks[j].offset
          BY <1>1, <2>1, <4>2 DEF Spaced
        <5> QED BY <1>2, <2>1, <5>1
      <4> QED BY <1>2, <2>1, <3>2, <4>1, <4>2
    <3> QED BY <1>2, <2>1, <3>1, <3>3, <3>4
  <2> QED BY <1>5, <2>3, <2>4 DEF Promise!PlacesInPool, i
<1> QED BY <1>4, <1>5 DEF i

\* The bytes in use are as many as the addresses that have an owner.
LEMMA UsedIsOwned ==
    ASSUME AllocatorInv
    PROVE  Promise!Used = used
<1>1. OwnerIsHolder
  BY InvOwner
<1>2. Addresses \ Promise!AddressesOf(Nobody) = AddressesBelow(allocations, MaxOffset)
  BY <1>1, PromiseOperators DEF Promise!AddressesOf, OwnerIsHolder, AddressesBelow, Addresses
<1>3. MaxOffset \in Nat /\ \A id \in DOMAIN allocations : End(allocations[id]) <= MaxOffset
  <2>1. direct_next_offset \in 0 .. MaxOffset
    BY DEF AllocatorInv, AllocatorTypeOK
  <2>2. Limit \in Nat /\ Limit <= MaxOffset
    BY <2>1, AllocatorAssumption DEF Limit
  <2>3. \A id \in DOMAIN allocations :
           End(allocations[id]) \in Nat /\ End(allocations[id]) <= Limit
    BY BlockIsInterval DEF AllocatorInv, AllocatorTypeOK, HeldBelow
  <2> QED BY <2>2, <2>3, AllocatorAssumption
<1>4. Total(BytesOf(allocations)) = Cardinality(AddressesBelow(allocations, MaxOffset))
  BY <1>3, TotalIsAddresses DEF AllocatorInv, AllocatorTypeOK, HeldApart
<1> QED BY <1>2, <1>4, PromiseOperators
        DEF Promise!Used, AllocatorInv, UsedIsExact, BytesOf

\* The direct strategy finds a place if and only if the bytes are there.
LEMMA DirectPlaces ==
    ASSUME AllocatorInv, strategy = "Direct", NEW bytes \in Nat
    PROVE  /\ bytes > Capacity - used => Promise!PlacesAnywhere(bytes) = {}
           /\ bytes <= Capacity - used /\ direct_next_offset + bytes <= MaxOffset =>
                direct_next_offset \in Promise!PlacesAnywhere(bytes)
<1>1. Promise!Used = used
  BY UsedIsOwned
<1>2. used \in Nat /\ Capacity \in Nat /\ direct_next_offset \in Nat /\ MaxOffset \in Nat
  BY AllocatorAssumption DEF AllocatorInv, AllocatorTypeOK
<1>3. bytes > Capacity - used => Promise!PlacesAnywhere(bytes) = {}
  BY <1>1, <1>2 DEF Promise!PlacesAnywhere
<1>4. ASSUME bytes <= Capacity - used, direct_next_offset + bytes <= MaxOffset
      PROVE  direct_next_offset \in Promise!PlacesAnywhere(bytes)
  <2>1. ASSUME NEW address \in direct_next_offset .. direct_next_offset + bytes - 1,
               NEW id \in DOMAIN allocations
        PROVE  ~ Within(address, allocations[id])
    <3>1. End(allocations[id]) <= direct_next_offset /\ End(allocations[id]) \in Nat
      BY BlockIsInterval DEF AllocatorInv, AllocatorTypeOK, HeldBelow, Limit
    <3> QED BY <1>2, <3>1 DEF Within
  <2>2. Promise!Unowned(Promise!Block(direct_next_offset, bytes))
    BY <1>2, <1>4, <2>1, UnownedBlock
  <2>3. direct_next_offset \in 0 .. MaxOffset - bytes
    BY <1>2, <1>4
  <2> QED BY <1>1, <1>4, <2>2, <2>3 DEF Promise!PlacesAnywhere
<1> QED BY <1>3, <1>4

\* Entering a block gives its addresses, and no others, a new owner.
LEMMA EnterOwner ==
    ASSUME AllocatorInv, AllocatorInv', NEW id \in (Ids \cap ValidIds) \ DOMAIN allocations,
           NEW offset \in Nat, NEW bytes \in Nat,
           [offset |-> offset, bytes |-> bytes] \in Blocks, Enter(id, offset, bytes)
    PROVE  Owner' = [address \in Promise!Addresses |->
                       IF address \in Promise!Block(offset, bytes) THEN id ELSE Owner[address]]
<1> DEFINE block == [offset |-> offset, bytes |-> bytes]
<1>1. OwnerIsHolder
  BY InvOwner
<1>2. OwnerIsHolder'
  BY InvOwner, PTL
<1>3. /\ DOMAIN allocations' = DOMAIN allocations \cup {id}
      /\ allocations'[id] = block
      /\ \A other \in DOMAIN allocations : allocations'[other] = allocations[other]
  <2>1. Entered(id, block)
    BY EnterCounts
  <2> QED BY <2>1 DEF Entered
<1>4. /\ \A address \in Addresses :
            /\ Owner'[address] \in DOMAIN allocations' \cup {Nobody}
            /\ \A k \in DOMAIN allocations' : Owner'[address] = k <=> Within(address, allocations'[k])
      /\ Nobody \notin DOMAIN allocations'
  BY <1>2 DEF OwnerIsHolder, Addresses, Within, End
<1>5. ASSUME NEW address \in Addresses
      PROVE  Owner'[address] = IF address \in Promise!Block(offset, bytes) THEN id ELSE Owner[address]
  <2>1. address \in Promise!Block(offset, bytes) <=> Within(address, block)
    <3>1. address \in Nat
      BY AllocatorAssumption DEF Addresses
    <3>2. block.offset = offset /\ End(block) = offset + bytes
      BY DEF End
    <3> QED BY <3>1, <3>2 DEF Promise!Block, Within
  <2>2. CASE Within(address, block)
    BY <1>3, <1>4, <2>1, <2>2
  <2>3. CASE ~ Within(address, block)
    <3>1. CASE Owner[address] \in DOMAIN allocations
      <4>1. Within(address, allocations[Owner[address]])
        BY <1>1, <3>1 DEF OwnerIsHolder
      <4> QED BY <1>3, <1>4, <2>1, <2>3, <3>1, <4>1
    <3>2. CASE Owner[address] = Nobody
      <4>1. \A k \in DOMAIN allocations : ~ Within(address, allocations[k])
        BY <1>1, <3>2 DEF OwnerIsHolder
      <4>2. \A k \in DOMAIN allocations' : ~ Within(address, allocations'[k])
        BY <1>3, <2>3, <4>1
      <4> QED BY <1>4, <2>1, <2>3, <3>2, <4>2
    <3> QED BY <1>1, <3>1, <3>2 DEF OwnerIsHolder
  <2> QED BY <2>2, <2>3
<1>6. Owner' = [address \in Addresses |-> Owner'[address]]
  BY DEF Owner, Addresses
<1> QED BY <1>5, <1>6, PromiseOperators

\* What changes no allocation changes no owner.
LEMMA OwnerStays ==
    ASSUME UNCHANGED allocations
    PROVE  UNCHANGED Owner
BY DEF Owner, HoldersOf, Addresses

\* allocate does what the abstract operation of the same name may do.
LEMMA AllocateRefines ==
    ASSUME AllocatorInv, AllocatorInv', UNCHANGED strategy, NEW id \in Ids, NEW bytes \in Sizes,
           Allocate(id, bytes)
    PROVE  Promise!Allocate(id, bytes)
<1> DEFINE error == AllocateError(id, bytes)
<1>1. bytes \in Nat
  BY AllocatorAssumption
<1>2. id \in DOMAIN allocations <=> Promise!AddressesOf(id) # {}
  BY AddressesOfHolder
<1>3. strategy \in {"Direct", "Pool"}
  BY DEF AllocatorInv
<1>4. ASSUME error # "None", Refuse(error) PROVE Promise!Allocate(id, bytes)
  <2>1. Promise!Refuse(error)
    BY <1>4, OwnerStays DEF Refuse, Promise!Refuse
  <2>2. CASE id \notin ValidIds
    BY <2>1, <2>2 DEF AllocateError, Promise!Allocate
  <2>3. CASE id \in ValidIds /\ bytes = 0
    BY <2>1, <2>3 DEF AllocateError, Promise!Allocate
  <2>4. CASE id \in ValidIds /\ bytes # 0 /\ id \in DOMAIN allocations
    BY <1>1, <1>2, <2>1, <2>4 DEF AllocateError, Promise!Allocate
  <2>5. CASE id \in ValidIds /\ bytes # 0 /\ id \notin DOMAIN allocations
    <3>1. OutOfMemory(bytes) /\ error = "OutOfMemory"
      BY <1>4, <2>5 DEF AllocateError
    <3>2. bytes > 0
      BY <1>1, <2>5
    <3>3. Promise!Places(bytes) = {}
      <4>1. CASE strategy = "Direct"
        BY <1>1, <3>1, <4>1, DirectPlaces DEF OutOfMemory, Promise!Places
      <4>2. CASE strategy = "Pool"
        BY <1>1, <3>1, <3>2, <4>2, FirstFitIsLowest DEF OutOfMemory, Promise!Places
      <4> QED BY <1>3, <4>1, <4>2
    <3> QED BY <1>2, <2>1, <2>5, <3>1, <3>2, <3>3 DEF Promise!Allocate
  <2> QED BY <2>2, <2>3, <2>4, <2>5
<1>5. ASSUME NEW offset \in Nat, error = "None", offset \in Promise!Places(bytes),
             [offset |-> offset, bytes |-> bytes] \in Blocks, Enter(id, offset, bytes)
      PROVE  Promise!Allocate(id, bytes)
  <2>1. id \in (Ids \cap ValidIds) \ DOMAIN allocations /\ bytes # 0
    BY <1>5 DEF AllocateError
  <2>2. Owner' = [address \in Promise!Addresses |->
                    IF address \in Promise!Block(offset, bytes) THEN id ELSE Owner[address]]
    BY <1>1, <1>5, <2>1, EnterOwner
  <2>3. answer' = <<"None", offset, bytes>>
    BY <1>5 DEF Enter
  <2>4. bytes > 0 /\ id \in ValidIds /\ Promise!AddressesOf(id) = {}
    BY <1>1, <1>2, <2>1
  <2> QED BY <1>5, <2>2, <2>3, <2>4 DEF Promise!Allocate
<1>6. ASSUME error = "None", AllocateDirect(id, bytes) PROVE Promise!Allocate(id, bytes)
  <2> DEFINE offset == direct_next_offset
  <2>1. /\ strategy = "Direct" /\ offset + bytes <= MaxOffset /\ Enter(id, offset, bytes)
    BY <1>6 DEF AllocateDirect
  <2>2. bytes # 0 /\ ~ (bytes > Capacity - used)
    BY <1>6, <2>1 DEF AllocateError, OutOfMemory
  <2>3. used \in 0 .. Capacity /\ offset \in 0 .. MaxOffset /\ Capacity \in Nat /\ MaxOffset \in Nat
    BY AllocatorAssumption DEF AllocatorInv, AllocatorTypeOK
  <2>4. bytes <= Capacity - used /\ bytes \in 1 .. Capacity /\ offset \in Nat
    BY <1>1, <2>2, <2>3
  <2>5. offset \in Promise!Places(bytes)
    BY <1>1, <2>1, <2>4, DirectPlaces DEF Promise!Places
  <2>6. [offset |-> offset, bytes |-> bytes] \in Blocks
    BY <2>3, <2>4 DEF Blocks
  <2> QED BY <1>5, <1>6, <2>1, <2>4, <2>5, <2>6
<1>7. ASSUME error = "None", AllocateFromPool(id, bytes) PROVE Promise!Allocate(id, bytes)
  <2> DEFINE i == FirstFit(bytes)
             offset == free_blocks[i].offset
  <2>1. strategy = "Pool" /\ Enter(id, offset, bytes)
    BY <1>7 DEF AllocateFromPool
  <2>2. bytes # 0 /\ i # 0
    BY <1>7, <2>1 DEF AllocateError, OutOfMemory
  <2>3. free_blocks \in Seq(Blocks)
    BY DEF AllocatorInv, AllocatorTypeOK
  <2>4. i \in 1 .. Len(free_blocks) /\ free_blocks[i].bytes >= bytes
    BY <1>1, <2>2, <2>3, FirstFitFinds
  <2>5. free_blocks[i] \in Blocks
    BY <2>3, <2>4, LenProperties
  <2>6. [offset |-> offset, bytes |-> bytes] \in Blocks /\ offset \in Nat /\ bytes > 0
    BY <1>1, <2>2, <2>4, <2>5, AllocatorAssumption DEF Blocks
  <2>7. offset \in Promise!Places(bytes)
    BY <1>1, <2>1, <2>2, <2>6, FirstFitIsLowest DEF Promise!Places
  <2> HIDE DEF offset
  <2> QED BY <1>5, <1>7, <2>1, <2>6, <2>7
<1> QED BY <1>4, <1>6, <1>7 DEF Allocate

\* release gives the addresses of an id back and tells where they were.
LEMMA ReleaseRefines ==
    ASSUME AllocatorInv, AllocatorInv', UNCHANGED strategy, NEW id \in Ids, Release(id)
    PROVE  Promise!Release(id)
<1>1. CASE id \notin DOMAIN allocations
  <2>1. Refuse("UnknownAllocation")
    BY <1>1 DEF Release
  <2>2. Promise!Refuse("UnknownAllocation")
    BY <2>1, OwnerStays DEF Refuse, Promise!Refuse
  <2>3. Promise!AddressesOf(id) = {}
    BY <1>1, AddressesOfHolder
  <2> QED BY <2>2, <2>3 DEF Promise!Release
<1>2. CASE id \in DOMAIN allocations
  <2> DEFINE b == allocations[id]
             block == Promise!AddressesOf(id)
  <2>1. /\ allocations' = Erase(allocations, {id})
        /\ used' = used - b.bytes
        /\ answer' = <<"None", b.offset, b.bytes>>
    BY <1>2 DEF Release
  <2>2. /\ DOMAIN allocations' = DOMAIN allocations \ {id}
        /\ \A other \in DOMAIN allocations' : allocations'[other] = allocations[other]
    BY <1>2, <2>1, EraseCounts
  <2>3. block = b.offset .. End(b) - 1 /\ block # {}
    BY <1>2, AddressesOfHolder
  <2>4. b \in Blocks
    BY <1>2 DEF AllocatorInv, AllocatorTypeOK
  <2>5. /\ b.offset \in Nat /\ b.bytes \in Nat /\ End(b) \in Nat
        /\ End(b) = b.offset + b.bytes /\ b.offset < End(b)
    BY <2>4, BlockIsInterval
  <2> HIDE DEF b
  <2>6. Promise!Min(block) = b.offset /\ Promise!Cardinality(block) = b.bytes
    <3>1. b.offset \in block /\ \A y \in block : b.offset <= y
      BY <2>3, <2>5
    <3>2. Min(block) = b.offset
      <4>1. Min(block) \in block /\ \A y \in block : Min(block) <= y
        <5> HIDE DEF block
        <5> QED BY <3>1 DEF Min
      <4>2. Min(block) \in Int /\ b.offset <= Min(block) /\ Min(block) <= b.offset
        BY <2>3, <3>1, <4>1
      <4> QED BY <2>5, <4>2
    <3>3. b.offset \in Int /\ End(b) - 1 \in Int
      BY <2>5
    <3>4. Cardinality(b.offset .. End(b) - 1)
            = IF b.offset > End(b) - 1 THEN 0 ELSE End(b) - 1 - b.offset + 1
      BY <3>3, FS_Interval
    <3>5. Cardinality(block) = b.bytes
      BY <2>3, <2>5, <3>4
    <3> QED BY <3>2, <3>5, PromiseOperators
  <2>7. OwnerIsHolder
    BY InvOwner
  <2>8. OwnerIsHolder'
    BY InvOwner, PTL
  <2>9. /\ \A address \in Addresses :
              /\ Owner'[address] \in DOMAIN allocations' \cup {Nobody}
              /\ \A k \in DOMAIN allocations' :
                    Owner'[address] = k <=> Within(address, allocations'[k])
        /\ Nobody \notin DOMAIN allocations'
    BY <2>8 DEF OwnerIsHolder, Addresses, Within, End
  <2>10. ASSUME NEW address \in Addresses
         PROVE  Owner'[address] = IF address \in block THEN Nobody ELSE Owner[address]
    <3>1. address \in block <=> Owner[address] = id
      BY PromiseOperators DEF Promise!AddressesOf
    <3>2. CASE Owner[address] = id
      <4>1. \A k \in DOMAIN allocations' : ~ Within(address, allocations'[k])
        BY <2>2, <2>7, <3>2 DEF OwnerIsHolder
      <4> QED BY <2>9, <3>1, <3>2, <4>1
    <3>3. CASE Owner[address] # id /\ Owner[address] \in DOMAIN allocations
      <4>1. Within(address, allocations[Owner[address]])
        BY <2>7, <3>3 DEF OwnerIsHolder
      <4> QED BY <2>2, <2>9, <3>1, <3>3, <4>1
    <3>4. CASE Owner[address] = Nobody /\ Owner[address] # id
      <4>1. \A k \in DOMAIN allocations' : ~ Within(address, allocations'[k])
        BY <2>2, <2>7, <3>4 DEF OwnerIsHolder
      <4> QED BY <2>9, <3>1, <3>4, <4>1
    <3> QED BY <2>7, <3>2, <3>3, <3>4 DEF OwnerIsHolder
  <2>11. Owner' = [address \in Addresses |-> Owner'[address]]
    BY DEF Owner, Addresses
  <2>12. Owner' = [address \in Promise!Addresses |->
                     IF address \in block THEN Nobody ELSE Owner[address]]
    <3> HIDE DEF block
    <3> QED BY <2>10, <2>11, PromiseOperators
  <2> QED BY <2>1, <2>3, <2>6, <2>12 DEF Promise!Release, b
<1> QED BY <1>1, <1>2

\* A new allocator maps to an address space that nobody has.
LEMMA AllocatorInitRefines == Init => Promise!Init
<1> SUFFICES ASSUME Init PROVE Promise!Init
  OBVIOUS
<1>1. Owner = [address \in Addresses |-> Nobody]
  BY DEF Init, Owner, HoldersOf
<1> QED BY <1>1, PromiseOperators DEF Init, Promise!Init

\* Every step of the allocator is a step of the address space.
LEMMA AllocatorNextRefines ==
    AllocatorInv /\ AllocatorInv' /\ [Next]_vars => [Promise!Next]_(Promise!spaceVars)
<1> SUFFICES ASSUME AllocatorInv, AllocatorInv', [Next]_vars
             PROVE  Promise!Next \/ UNCHANGED Promise!spaceVars
  OBVIOUS
<1>1. CASE Next
  <2>1. UNCHANGED strategy
    BY <1>1 DEF Next
  <2> QED BY <1>1, <2>1, AllocateRefines, ReleaseRefines DEF Next, Promise!Next
<1>2. CASE UNCHANGED vars
  BY <1>2, OwnerStays DEF vars, Promise!spaceVars
<1> QED BY <1>1, <1>2

\* The allocator, with its free list, its first fit and its merging, implements
\* the address space: a pool serves a request at the lowest gap that is large
\* enough and refuses it only if there is none.
THEOREM AllocatorRefinement == Spec => ImplementsAddressSpace
<1>1. Init /\ [][Next]_vars /\ []AllocatorInv
        => Promise!Init /\ [][Promise!Next]_(Promise!spaceVars)
  BY AllocatorInitRefines, AllocatorNextRefines, PTL
<1> QED BY <1>1, AllocatorInvariance, PTL DEF Spec, ImplementsAddressSpace, Promise!Spec

=============================================================================
