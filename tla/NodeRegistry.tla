---------------------------- MODULE NodeRegistry ----------------------------
(***************************************************************************)
(* NodeRegistry: the nodes that clients announce.  Every operation runs    *)
(* under mutex_ and is one step.  Endpoints are only checked and listed.   *)
(***************************************************************************)
EXTENDS Naturals, Memory

VARIABLE nodes  \* nodes_

NodesInit == nodes = NoEntries

RegisterNodeError(id, validId, goodEndpoint, capacity) ==
    IF ~ validId THEN "InvalidId"
    ELSE IF ~ goodEndpoint THEN "InvalidEndpoint"
    ELSE IF capacity = 0 THEN "InvalidCapacity"
    ELSE IF id \in DOMAIN nodes THEN "DuplicateNode"
    ELSE "None"

register_node(id, capacity) ==
    nodes' = Emplace(nodes, id, [capacity |-> capacity, used |-> 0, healthy |-> TRUE])

KnownNodeError(id) == IF id \in DOMAIN nodes THEN "None" ELSE "UnknownNode"

unregister_node(id) == nodes' = Erase(nodes, {id})

UpdateUsageError(id, used) ==
    IF id \notin DOMAIN nodes THEN "UnknownNode"
    ELSE IF used > nodes[id].capacity THEN "InvalidCapacity"
    ELSE "None"

update_usage(id, used) == nodes' = [nodes EXCEPT ![id].used = used]

set_health(id, healthy) == nodes' = [nodes EXCEPT ![id].healthy = healthy]

=============================================================================
