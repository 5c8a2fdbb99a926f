------------------------------- MODULE Broker -------------------------------
(***************************************************************************)
(* What the memory broker promises to its callers, without threads, locks, *)
(* deadlines or a scheduling order.  A name asks for memory, holds exactly *)
(* what it asked for once it has been granted, and holds it until it lets  *)
(* go; whoever asked and has neither been granted nor turned away waits.   *)
(* Memory is never promised twice and never left idle while somebody waits *)
(* for it.  ResourceManager is shown to implement this.                    *)
(***************************************************************************)
EXTENDS Memory

CONSTANTS Names, Amounts, Supply

VARIABLES held,     \* what each client holds
          models,   \* what each model holds
          waiting   \* what each waiting client has asked for

brokerVars == <<held, models, waiting>>

Init ==
    /\ held = NoEntries
    /\ models = NoEntries
    /\ waiting = NoEntries

\* Every step ends like this: of those who wait some are granted and some are
\* turned away, those who hold memory keep it, and nobody who still waits
\* could have what is left.
Settle(holding, asking) ==
    LET granted == DOMAIN held' \ DOMAIN holding
        taken == Total(held') + Total(models')
    IN
    /\ DOMAIN holding \subseteq DOMAIN held'
    /\ granted \subseteq DOMAIN asking \ DOMAIN waiting'
    /\ \A n \in DOMAIN held' :
          held'[n] = IF n \in granted THEN asking[n] ELSE holding[n]
    /\ DOMAIN waiting' \subseteq DOMAIN asking
    /\ \A n \in DOMAIN waiting' :
          waiting'[n] = asking[n] /\ taken + waiting'[n] > Supply
    /\ taken <= Supply

Ask(name, amount) ==
    /\ name \notin DOMAIN held \cup DOMAIN waiting
    /\ UNCHANGED models
    /\ Settle(held, Emplace(waiting, name, amount))

LetGo(name) ==
    /\ name \in DOMAIN held
    /\ UNCHANGED models
    /\ Settle(Erase(held, {name}), waiting)

TurnAway ==
    /\ UNCHANGED <<held, models>>
    /\ Settle(held, waiting)

\* At most one model comes, and any may go; none changes its size.
ChangeModels ==
    /\ Cardinality(DOMAIN models' \ DOMAIN models) <= 1
    /\ \A id \in DOMAIN models \cap DOMAIN models' : models'[id] = models[id]
    /\ Settle(held, waiting)

Next ==
    \/ \E name \in Names : LetGo(name) \/ \E amount \in Amounts : Ask(name, amount)
    \/ TurnAway
    \/ ChangeModels

Spec == Init /\ [][Next]_brokerVars

=============================================================================
