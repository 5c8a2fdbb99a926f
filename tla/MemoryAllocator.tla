---------------------------- MODULE MemoryAllocator ----------------------------
(***************************************************************************)
(* MemoryAllocator: the list of free blocks of a pool, and the direct      *)
(* strategy, which only counts.  Every operation runs under mutex_ and is  *)
(* one action.                                                             *)
(***************************************************************************)
EXTENDS Integers, Sequences, SequencesExt, Memory

CONSTANTS Ids,        \* the ids that callers use
          ValidIds,   \* the ids that valid_id accepts
          Sizes,      \* the sizes that callers ask for
          Capacity,
          MaxOffset,  \* bound on direct_next_offset_
          Nobody      \* the owner of an address that is free

ASSUME AllocatorAssumption ==
    /\ Sizes \subseteq Nat
    /\ Capacity \in Nat \ {0}
    /\ MaxOffset \in Nat
    /\ MaxOffset >= Capacity
    /\ Nobody \notin Ids

VARIABLES strategy,            \* strategy_, fixed by the constructor
          used,                \* used_
          direct_next_offset,  \* direct_next_offset_
          free_blocks,         \* free_blocks_, a sequence of blocks
          allocations,         \* allocations_: id |-> its block
          answer               \* the result of the last operation

vars == <<strategy, used, direct_next_offset, free_blocks, allocations, answer>>

Blocks == [offset : 0 .. MaxOffset, bytes : 1 .. Capacity]

End(block) == block.offset + block.bytes

-----------------------------------------------------------------------------

Init ==
    /\ strategy \in {"Direct", "Pool"}
    /\ used = 0
    /\ direct_next_offset = 0
    /\ free_blocks = <<[offset |-> 0, bytes |-> Capacity]>>
    /\ allocations = [id \in {} |-> 0]
    /\ answer = <<"None", 0, 0>>

Refuse(error) ==
    /\ answer' = <<error, 0, 0>>
    /\ UNCHANGED <<used, direct_next_offset, free_blocks, allocations>>

Enter(id, offset, bytes) ==
    /\ allocations' = Emplace(allocations, id, [offset |-> offset, bytes |-> bytes])
    /\ used' = used + bytes
    /\ answer' = <<"None", offset, bytes>>

\* Mutant: the last block that fits.
LastFit(bytes) == SelectLastInSeq(free_blocks, LAMBDA block : block.bytes >= bytes)

\* 0 if no free block is large enough.
FirstFit(bytes) == SelectInSeq(free_blocks, LAMBDA block : block.bytes >= bytes)

\* Mutant: the size is compared with the whole capacity.
OutOfMemoryOfCapacity(bytes) ==
    IF strategy = "Direct" THEN bytes > Capacity ELSE FirstFit(bytes) = 0

OutOfMemory(bytes) ==
    IF strategy = "Direct" THEN bytes > Capacity - used ELSE FirstFit(bytes) = 0

\* Mutant: an id that is held already is allocated again.
AllocateErrorNoDuplicate(id, bytes) ==
    IF id \notin ValidIds THEN "InvalidId"
    ELSE IF bytes = 0 THEN "InvalidSize"
    ELSE IF OutOfMemory(bytes) THEN "OutOfMemory"
    ELSE "None"

AllocateError(id, bytes) ==
    IF id \notin ValidIds THEN "InvalidId"
    ELSE IF bytes = 0 THEN "InvalidSize"
    ELSE IF id \in DOMAIN allocations THEN "DuplicateAllocation"
    ELSE IF OutOfMemory(bytes) THEN "OutOfMemory"
    ELSE "None"

AllocateDirect(id, bytes) ==
    /\ strategy = "Direct"
    /\ direct_next_offset + bytes <= MaxOffset
    /\ direct_next_offset' = direct_next_offset + bytes
    /\ Enter(id, direct_next_offset, bytes)
    /\ UNCHANGED free_blocks

\* The front of the block is taken; a block that is used up is erased.
AllocateFromPool(id, bytes) ==
    LET i == FirstFit(bytes)
        block == free_blocks[i]
        rest == [offset |-> block.offset + bytes, bytes |-> block.bytes - bytes]
    IN /\ strategy = "Pool"
       /\ free_blocks' = IF rest.bytes = 0 THEN RemoveAt(free_blocks, i)
                         ELSE [free_blocks EXCEPT ![i] = rest]
       /\ Enter(id, block.offset, bytes)
       /\ UNCHANGED direct_next_offset

Allocate(id, bytes) ==
    LET error == AllocateError(id, bytes) IN
    \/ error # "None" /\ Refuse(error)
    \/ error = "None" /\ (AllocateDirect(id, bytes) \/ AllocateFromPool(id, bytes))

\* Append a block to merged, or extend the last one that it touches.
Merge(merged, block) ==
    IF merged # <<>> /\ End(Last(merged)) = block.offset
    THEN [merged EXCEPT ![Len(merged)].bytes = @ + block.bytes]
    ELSE Append(merged, block)

\* The blocks by ascending offset; no two free blocks have the same one.
Sorted(blocks) ==
    CHOOSE sorted \in [DOMAIN blocks -> Range(blocks)] :
        /\ Range(sorted) = Range(blocks)
        /\ \A i, j \in DOMAIN blocks : i < j => sorted[i].offset < sorted[j].offset

\* Mutant: the blocks are merged in the order of their release.
CoalesceUnsorted(blocks) == FoldLeft(Merge, <<>>, blocks)

\* coalesce_locked.
Coalesce(blocks) == FoldLeft(Merge, <<>>, Sorted(blocks))

Release(id) ==
    \/ id \notin DOMAIN allocations /\ Refuse("UnknownAllocation")
    \/ /\ id \in DOMAIN allocations
       /\ free_blocks' = IF strategy = "Pool" THEN Coalesce(Append(free_blocks, allocations[id]))
                         ELSE free_blocks
       /\ used' = used - allocations[id].bytes
       /\ allocations' = Erase(allocations, {id})
       /\ answer' = <<"None", allocations[id].offset, allocations[id].bytes>>
       /\ UNCHANGED direct_next_offset

Next ==
    /\ UNCHANGED strategy
    /\ \E id \in Ids : Release(id) \/ \E bytes \in Sizes : Allocate(id, bytes)

Spec == Init /\ [][Next]_vars

-----------------------------------------------------------------------------

\* The state is well formed; used_ never passes the capacity.
AllocatorTypeOK ==
    /\ used \in 0 .. Capacity
    /\ direct_next_offset \in 0 .. MaxOffset
    /\ free_blocks \in Seq(Blocks)
    /\ DOMAIN allocations \subseteq Ids \cap ValidIds
    /\ allocations \in [DOMAIN allocations -> Blocks]

\* used_ is the sum of the live allocations, with both strategies.
UsedIsExact == used = Total([id \in DOMAIN allocations |-> allocations[id].bytes])

Addresses == 0 .. MaxOffset - 1
Within(address, block) == block.offset <= address /\ address < End(block)
HoldersOf(address) == {id \in DOMAIN allocations : Within(address, allocations[id])}
FreeBlocksAt(address) == {i \in DOMAIN free_blocks : Within(address, free_blocks[i])}

\* In a pool every address below the capacity is in exactly one allocation or
\* in exactly one free block, blocks lie in ascending order and no two of them
\* touch: after any history of splits and merges nothing is lost, free twice,
\* or fragmented more than the allocations force it to be.
FreeListIsTheGaps ==
    strategy = "Pool" =>
        /\ \A address \in Addresses :
              Cardinality(HoldersOf(address)) + Cardinality(FreeBlocksAt(address))
                  = IF address < Capacity THEN 1 ELSE 0
        /\ \A i \in 1 .. Len(free_blocks) - 1 : End(free_blocks[i]) < free_blocks[i + 1].offset

\* Whose address it is.
Owner ==
    [address \in Addresses |->
        IF HoldersOf(address) = {} THEN Nobody ELSE CHOOSE id \in HoldersOf(address) : TRUE]

Promise == INSTANCE AddressSpace WITH owner <- Owner

\* The allocator does what AddressSpace says, answers included.
ImplementsAddressSpace == Promise!Spec

=============================================================================
