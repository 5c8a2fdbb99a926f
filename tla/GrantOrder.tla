----------------------------- MODULE GrantOrder -----------------------------
(***************************************************************************)
(* What one pass of grant_waiters_locked over the waiting acquires hands   *)
(* out, stated without its loop: the order in which waiters are served and *)
(* the set of waiters a pass grants.  GrantLoop checks that the loop       *)
(* computes exactly this set.                                              *)
(*                                                                         *)
(* A queue is a set of waiters; request[w] holds the name, bytes, priority *)
(* and estimated cost of waiter w, and <<v, w>> \in older says that v was  *)
(* given a smaller sequence number than w.                                 *)
(***************************************************************************)
EXTENDS Integers, Memory

CONSTANT Policy  \* SchedulingPolicy of the manager

ASSUME PolicyAssumption == Policy \in {"PriorityFifo", "CostAware"}

\* The comparison that makes candidate v replace the selected waiter w.
Precedes(request, older, v, w) ==
    \/ request[v].priority > request[w].priority
    \/ /\ request[v].priority = request[w].priority
       /\ \/ /\ Policy = "CostAware"
             /\ request[v].cost < request[w].cost
          \/ /\ \/ Policy # "CostAware"
                \/ request[v].cost = request[w].cost
             /\ <<v, w>> \in older

\* Mutant: whatever fits may be granted, in any order.
IsGrantInAnyOrder(request, older, queue, free, ws) ==
    /\ Demand(request, ws) <= free
    /\ \A w \in queue \ ws : request[w].bytes + Demand(request, ws) > free

\* ws may be granted out of queue with free bytes left: ws fits, and whoever
\* is passed over does not fit in what its predecessors in ws leave.
IsGrant(request, older, queue, free, ws) ==
    /\ Demand(request, ws) <= free
    /\ \A w \in queue \ ws :
          LET before == {v \in ws : Precedes(request, older, v, w)}
          IN  request[w].bytes + Demand(request, before) > free

GrantSets(request, older, queue, free) ==
    {ws \in SUBSET queue : IsGrant(request, older, queue, free, ws)}

=============================================================================
