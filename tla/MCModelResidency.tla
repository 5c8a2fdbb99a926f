-------------------------- MODULE MCModelResidency --------------------------
(***************************************************************************)
(* Instances of ModelResidency for TLC.                                    *)
(***************************************************************************)
EXTENDS ModelResidency, TLC

\* Evictions come from load alone.
NoEvictionLists == {}

\* The answers of calls decide about no later step: states that differ only
\* in them are explored once.
View == <<ledger, queue, residency>>

ModelSymmetry == Permutations((ModelIds \cap ValidNames) \ FileModels)

=============================================================================
