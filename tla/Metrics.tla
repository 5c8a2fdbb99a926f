------------------------------- MODULE Metrics -------------------------------
(***************************************************************************)
(* Metrics: the counters that sessions add to, one call under mutex_ at a  *)
(* time.                                                                   *)
(***************************************************************************)
EXTENDS Naturals

VARIABLE metrics  \* snapshot_

MetricsInit ==
    metrics = [requests |-> 0, successes |-> 0, failures |-> 0,
               acquires |-> 0, releases |-> 0, model_loads |-> 0, model_unloads |-> 0,
               acquired_bytes |-> 0, released_bytes |-> 0]

If(success, n) == IF success THEN n ELSE 0

record_request(success) ==
    metrics' = [metrics EXCEPT !.requests = @ + 1,
                               !.successes = @ + If(success, 1),
                               !.failures = @ + If(~ success, 1)]

record_acquire(success, bytes) ==
    metrics' = [metrics EXCEPT !.acquires = @ + 1,
                               !.acquired_bytes = @ + If(success, bytes)]

record_release(success, bytes) ==
    metrics' = [metrics EXCEPT !.releases = @ + 1,
                               !.released_bytes = @ + If(success, bytes)]

record_model_load(success) ==
    metrics' = [metrics EXCEPT !.model_loads = @ + If(success, 1)]

record_model_unload(success) ==
    metrics' = [metrics EXCEPT !.model_unloads = @ + If(success, 1)]

=============================================================================
