-------------------------- MODULE DevicePlacement --------------------------
(***************************************************************************)
(* DevicePlacement: which of several devices a model goes to.  Every       *)
(* operation runs under mutex_ and is one step.  The vector placements_ is *)
(* searched by model only, so it is a ledger by model.                     *)
(***************************************************************************)
EXTENDS Integers, Sequences, Memory

CONSTANTS Capacities,   \* the capacity of each device, in order
          Models,       \* the ids that callers pass
          ValidModels,  \* the ids that are neither empty nor too long
          Sizes         \* byte counts that callers pass, 0 included

ASSUME PlacementAssumption ==
    /\ Capacities \in Seq(Nat \ {0}) /\ Capacities # <<>>
    /\ Sizes \subseteq Nat

VARIABLES used,        \* devices_[i].used
          placements,  \* placements_
          result       \* what the last call has returned

vars == <<used, placements, result>>

Devices == DOMAIN Capacities
NoDevice == Len(Capacities) + 1

Init ==
    /\ used = [d \in Devices |-> 0]
    /\ placements = NoEntries
    /\ result = <<"None", NoDevice>>

Fits(d, bytes) == bytes <= Capacities[d] - used[d]

\* Mutant: a later device of the same load wins, or a fuller one.
SelectLast(bytes) ==
    LET selected[i \in 0 .. Len(Capacities)] ==
            IF i = 0 THEN NoDevice
            ELSE IF Fits(i, bytes) THEN i ELSE selected[i - 1]
    IN  selected[Len(Capacities)]

\* Mutant: what the device already holds is not looked at.
SelectByCapacity(bytes) ==
    LET selected[i \in 0 .. Len(Capacities)] ==
            IF i = 0 THEN NoDevice
            ELSE IF /\ bytes <= Capacities[i]
                    /\ selected[i - 1] = NoDevice \/ used[i] < used[selected[i - 1]]
            THEN i
            ELSE selected[i - 1]
    IN  selected[Len(Capacities)]

\* The loop of place: selected[i] is the choice after the first i devices.
Select(bytes) ==
    LET selected[i \in 0 .. Len(Capacities)] ==
            IF i = 0 THEN NoDevice
            ELSE IF /\ Fits(i, bytes)
                    /\ selected[i - 1] = NoDevice \/ used[i] < used[selected[i - 1]]
            THEN i
            ELSE selected[i - 1]
    IN  selected[Len(Capacities)]

PlaceError(model, bytes) ==
    IF model \notin ValidModels THEN "InvalidModel"
    ELSE IF bytes = 0 THEN "InvalidSize"
    ELSE IF model \in DOMAIN placements THEN "DuplicateModel"
    ELSE IF Select(bytes) = NoDevice THEN "InsufficientMemory"
    ELSE "None"

Refuse(error) ==
    /\ result' = <<error, NoDevice>>
    /\ UNCHANGED <<used, placements>>

Place(model, bytes) ==
    LET error == PlaceError(model, bytes)
        device == Select(bytes)
    IN
    \/ error # "None" /\ Refuse(error)
    \/ /\ error = "None"
       /\ used' = [used EXCEPT ![device] = @ + bytes]
       /\ placements' = Emplace(placements, model, [device |-> device, bytes |-> bytes])
       /\ result' = <<"None", device>>

Release(model) ==
    \/ model \notin DOMAIN placements /\ Refuse("UnknownModel")
    \/ /\ model \in DOMAIN placements
       /\ used' = [used EXCEPT ![placements[model].device] = @ - placements[model].bytes]
       /\ placements' = Erase(placements, {model})
       /\ result' = <<"None", placements[model].device>>

Next ==
    \E model \in Models :
        \/ \E bytes \in Sizes : Place(model, bytes)
        \/ Release(model)

Spec == Init /\ [][Next]_vars

-----------------------------------------------------------------------------

\* The models that are placed on device d, with their bytes.
On(d) ==
    [m \in {m \in DOMAIN placements : placements[m].device = d} |-> placements[m].bytes]

\* What a device has handed out is the sum of what is placed on it, after any
\* sequence of placements and releases, and no device is overcommitted: its
\* free bytes, a difference of unsigned numbers, never wrap around.
DevicesAccounted ==
    \A d \in Devices : used[d] = Total(On(d)) /\ used[d] <= Capacities[d]

\* What a placement may choose: the emptiest of the devices that have room, the
\* first such one, and none only if no device has room.
LeastUsedStep ==
    /\ \A m \in DOMAIN placements' \ DOMAIN placements :
          LET bytes == placements'[m].bytes
              room == {d \in Devices : used[d] + bytes <= Capacities[d]}
              least == {d \in room : \A e \in room : used[d] <= used[e]}
          IN  placements'[m].device = CHOOSE d \in least : \A e \in least : d <= e
    /\ \A m \in Models, bytes \in Sizes :
          Place(m, bytes) /\ result'[1] = "InsufficientMemory" =>
             \A d \in Devices : used[d] + bytes > Capacities[d]

\* A model goes to the emptiest of the devices that have room for it, the
\* first such one, and is refused for lack of memory only if no device has
\* room, however much the devices have free together.
PlacesLeastUsed == [][LeastUsedStep]_vars

=============================================================================
