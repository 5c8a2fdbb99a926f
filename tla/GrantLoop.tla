------------------------------ MODULE GrantLoop ------------------------------
(***************************************************************************)
(* The two loops of grant_waiters_locked, one iteration at a time, over    *)
(* every small pending_ vector: a sweep that drops expired requests while  *)
(* it walks the vector, then a repeated scan for the best request that     *)
(* fits, which is granted and erased.  ResourceManager takes the pass as   *)
(* one step that grants a member of GrantSets; here that is shown to be    *)
(* what the loops do.                                                      *)
(*                                                                         *)
(* Waiters are numbered by their sequence numbers; acquire appends, so     *)
(* pending_ starts in ascending order.                                     *)
(***************************************************************************)
EXTENDS GrantOrder, Sequences, SequencesExt

CONSTANTS MaxWaiters, Sizes, Priorities, Costs, MaxFree

ASSUME LoopAssumption ==
    /\ MaxWaiters \in Nat /\ MaxFree \in Nat
    /\ Sizes \subseteq Nat \ {0} /\ Priorities \subseteq Int /\ Costs \subseteq Nat

VARIABLES request,   \* the requests, by sequence number
          due,       \* the waiters whose deadline is not after now
          atStart,   \* capacity_ - used_ when the pass starts
          pending,   \* pending_, as a sequence of waiters
          free,      \* capacity_ - used_
          index,     \* the loop variable of either loop, from 1
          selected,  \* index of the best request found so far, or 0
          granted, timedOut, phase

inputs == <<request, due, atStart>>
vars == <<inputs, pending, free, index, selected, granted, timedOut, phase>>

Waiters == DOMAIN request
Older == {pair \in Waiters \X Waiters : pair[1] < pair[2]}

Init ==
    /\ \E n \in 0 .. MaxWaiters :
          /\ request \in [1 .. n -> [bytes : Sizes, priority : Priorities, cost : Costs]]
          /\ due \in SUBSET (1 .. n)
          /\ pending = [w \in 1 .. n |-> w]
    /\ atStart \in 0 .. MaxFree
    /\ free = atStart
    /\ index = 1
    /\ selected = 0
    /\ granted = {}
    /\ timedOut = {}
    /\ phase = "expire"

\* Mutant: the index moves on after an erase as well.
ExpireSkips ==
    /\ phase = "expire"
    /\ index <= Len(pending)
    /\ index' = index + 1
    /\ IF pending[index] \in due
       THEN /\ timedOut' = timedOut \cup {pending[index]}
            /\ pending' = RemoveAt(pending, index)
       ELSE UNCHANGED <<timedOut, pending>>
    /\ UNCHANGED <<inputs, free, selected, granted, phase>>

\* The first loop: erase an expired request without moving on, else move on.
Expire ==
    /\ phase = "expire"
    /\ index <= Len(pending)
    /\ IF pending[index] \in due
       THEN /\ timedOut' = timedOut \cup {pending[index]}
            /\ pending' = RemoveAt(pending, index)
            /\ UNCHANGED index
       ELSE /\ index' = index + 1
            /\ UNCHANGED <<timedOut, pending>>
    /\ UNCHANGED <<inputs, free, selected, granted, phase>>

StartScan ==
    /\ phase = "expire"
    /\ index > Len(pending)
    /\ phase' = "scan"
    /\ index' = 1
    /\ selected' = 0
    /\ UNCHANGED <<inputs, pending, free, granted, timedOut>>

\* Mutants: the first request that fits stays selected; a request that does
\* not fit is passed over without moving on.
ScanFirstFit ==
    /\ phase = "scan"
    /\ index <= Len(pending)
    /\ selected' = IF selected = 0 /\ request[pending[index]].bytes <= free
                   THEN index ELSE selected
    /\ index' = index + 1
    /\ UNCHANGED <<inputs, pending, free, granted, timedOut, phase>>
ScanStuck ==
    LET candidate == pending[index] IN
    /\ phase = "scan"
    /\ index <= Len(pending)
    /\ selected' =
         IF request[candidate].bytes > free THEN selected
         ELSE IF \/ selected = 0
                 \/ Precedes(request, Older, candidate, pending[selected])
              THEN index
         ELSE selected
    /\ index' = IF request[candidate].bytes > free THEN index ELSE index + 1
    /\ UNCHANGED <<inputs, pending, free, granted, timedOut, phase>>

\* One iteration of the inner loop of the second one.
Scan ==
    LET candidate == pending[index] IN
    /\ phase = "scan"
    /\ index <= Len(pending)
    /\ selected' =
         IF request[candidate].bytes > free THEN selected
         ELSE IF \/ selected = 0
                 \/ Precedes(request, Older, candidate, pending[selected])
              THEN index
         ELSE selected
    /\ index' = index + 1
    /\ UNCHANGED <<inputs, pending, free, granted, timedOut, phase>>

\* Mutant: the first request is erased instead of the selected one.
GrantErasesFirst ==
    LET waiter == pending[selected] IN
    /\ phase = "scan"
    /\ index > Len(pending)
    /\ selected # 0
    /\ granted' = granted \cup {waiter}
    /\ free' = free - request[waiter].bytes
    /\ pending' = RemoveAt(pending, 1)
    /\ index' = 1
    /\ selected' = 0
    /\ UNCHANGED <<inputs, timedOut, phase>>

\* The scan is over: grant what it selected and scan again.
Grant ==
    LET waiter == pending[selected] IN
    /\ phase = "scan"
    /\ index > Len(pending)
    /\ selected # 0
    /\ granted' = granted \cup {waiter}
    /\ free' = free - request[waiter].bytes
    /\ pending' = RemoveAt(pending, selected)
    /\ index' = 1
    /\ selected' = 0
    /\ UNCHANGED <<inputs, timedOut, phase>>

\* Nothing that is left fits.
Stop ==
    /\ phase = "scan"
    /\ index > Len(pending)
    /\ selected = 0
    /\ phase' = "done"
    /\ UNCHANGED <<inputs, pending, free, index, selected, granted, timedOut>>

Next == Expire \/ StartScan \/ Scan \/ Grant \/ Stop

Spec == Init /\ [][Next]_vars /\ WF_vars(Next)

-----------------------------------------------------------------------------

\* The state is well formed.
TypeOK ==
    /\ Range(pending) \subseteq Waiters
    /\ free \in 0 .. atStart
    /\ index \in 1 .. Len(pending) + 1
    /\ selected \in 0 .. Len(pending)
    /\ granted \subseteq Waiters /\ timedOut \subseteq Waiters
    /\ phase \in {"expire", "scan", "done"}

\* Nobody is lost while the vector is erased from: every request is still
\* pending, granted or timed out, and only one of them, and those still
\* pending keep the order in which they came.
Partition ==
    /\ Range(pending) \cup granted \cup timedOut = Waiters
    /\ Cardinality(granted) + Cardinality(timedOut) + Len(pending)
          = Cardinality(Waiters)
    /\ \A i, j \in DOMAIN pending : i < j => pending[i] < pending[j]

\* The pass ends with the only grant set there is: exactly the due requests
\* time out, and of the others those are granted that the scheduling order
\* and the free memory prescribe.  This is the step of ResourceManager.
PassComputesGrantSet ==
    phase = "done" =>
        /\ timedOut = due
        /\ GrantSets(request, Older, Waiters \ due, atStart) = {granted}
        /\ free = atStart - Demand(request, granted)

\* Every pass ends.
PassEnds == <>(phase = "done")

=============================================================================
