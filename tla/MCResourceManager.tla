-------------------------- MODULE MCResourceManager --------------------------
(***************************************************************************)
(* Instances of ResourceManager for TLC.                                   *)
(***************************************************************************)
EXTENDS ResourceManager, TLC

\* Threads are alike, and so are the valid names.
ThreadSymmetry == Permutations(Threads)
ThreadAndNameSymmetry ==
    Permutations(Threads) \cup Permutations(Names \cap ValidNames)

\* The answers of calls decide about no later step: states that differ only
\* in them are explored once.
View == <<ledger, queue>>

NoEvictionLists == {}
EvictionListsUpTo2 == {<<>>} \cup {<<x>> : x \in ModelIds}
                      \cup {<<x, y>> : x, y \in ModelIds}

\* Integers that a configuration file cannot write.
MinusOneZeroTwo == {-1, 0, 2}

=============================================================================
