------------------------------- MODULE MCServer -------------------------------
(***************************************************************************)
(* Instances of Server for TLC.                                            *)
(***************************************************************************)
EXTENDS Server, TLC

NoEvictionLists == {}

\* Sessions are alike, and so are names.
SessionSymmetry == Permutations(Threads) \cup Permutations(Names)

\* The answers of calls decide about no later step.
View == <<ledger, queue, residency, nodes, run, flags, path, session, connection, input,
          records_due>>

=============================================================================
