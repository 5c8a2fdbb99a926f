----------------------------- MODULE AddressSpace -----------------------------
(***************************************************************************)
(* What MemoryAllocator promises: every address belongs to at most one     *)
(* allocation.  A pool serves an allocation at the lowest gap that is      *)
(* large enough, and refuses it only if there is none; it has no free list *)
(* that could forget or split a gap.  The direct strategy hands out        *)
(* addresses nobody has and counts bytes only.                             *)
(***************************************************************************)
EXTENDS Integers, FiniteSets, FiniteSetsExt

CONSTANTS Ids,        \* the ids that callers use
          ValidIds,   \* the ids that valid_id accepts
          Sizes,      \* the sizes that callers ask for
          Capacity,
          MaxOffset,  \* bound on the addresses of the direct strategy
          Nobody

VARIABLES strategy, owner, answer

spaceVars == <<strategy, owner, answer>>

Addresses == 0 .. MaxOffset - 1

Block(offset, bytes) == offset .. offset + bytes - 1

AddressesOf(id) == {address \in Addresses : owner[address] = id}

Unowned(block) == \A address \in block : owner[address] = Nobody

Used == Cardinality(Addresses \ AddressesOf(Nobody))

Gaps(bytes) == {offset \in 0 .. Capacity - bytes : Unowned(Block(offset, bytes))}

PlacesInPool(bytes) == {offset \in Gaps(bytes) : \A gap \in Gaps(bytes) : offset <= gap}

PlacesAnywhere(bytes) ==
    {offset \in 0 .. MaxOffset - bytes : Unowned(Block(offset, bytes)) /\ bytes <= Capacity - Used}

Places(bytes) == IF strategy = "Pool" THEN PlacesInPool(bytes) ELSE PlacesAnywhere(bytes)

-----------------------------------------------------------------------------

Init ==
    /\ strategy \in {"Direct", "Pool"}
    /\ owner = [address \in Addresses |-> Nobody]
    /\ answer = <<"None", 0, 0>>

Refuse(error) == answer' = <<error, 0, 0>> /\ UNCHANGED owner

Allocate(id, bytes) ==
    \/ id \notin ValidIds /\ Refuse("InvalidId")
    \/ id \in ValidIds /\ bytes = 0 /\ Refuse("InvalidSize")
    \/ /\ id \in ValidIds
       /\ bytes > 0
       /\ \/ AddressesOf(id) # {} /\ Refuse("DuplicateAllocation")
          \/ AddressesOf(id) = {} /\ Places(bytes) = {} /\ Refuse("OutOfMemory")
          \/ /\ AddressesOf(id) = {}
             /\ \E offset \in Places(bytes) :
                   /\ owner' = [address \in Addresses |->
                                  IF address \in Block(offset, bytes) THEN id ELSE owner[address]]
                   /\ answer' = <<"None", offset, bytes>>

Release(id) ==
    LET block == AddressesOf(id) IN
    \/ block = {} /\ Refuse("UnknownAllocation")
    \/ /\ block # {}
       /\ owner' = [address \in Addresses |->
                      IF address \in block THEN Nobody ELSE owner[address]]
       /\ answer' = <<"None", Min(block), Cardinality(block)>>

Next ==
    /\ UNCHANGED strategy
    /\ \E id \in Ids : Release(id) \/ \E bytes \in Sizes : Allocate(id, bytes)

Spec == Init /\ [][Next]_spaceVars

=============================================================================
