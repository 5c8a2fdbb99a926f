-------------------------- MODULE MCMemoryAllocator --------------------------
(***************************************************************************)
(* The instance of MemoryAllocator for TLC.                                *)
(***************************************************************************)
EXTENDS MemoryAllocator, TLC

\* Valid ids are alike.
IdSymmetry == Permutations(ValidIds)

\* Answers decide about no later step.
View == <<strategy, used, direct_next_offset, free_blocks, allocations>>

=============================================================================
