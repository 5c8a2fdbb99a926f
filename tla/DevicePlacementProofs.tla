------------------------ MODULE DevicePlacementProofs ------------------------
(***************************************************************************)
(* Device placement: the loop of place chooses the first of the least used *)
(* devices with room, and the devices' accounts are exact, for any number  *)
(* of devices, models and bytes.                                           *)
(***************************************************************************)
EXTENDS DevicePlacement, MemoryProofs

Placements == [device : Devices, bytes : Nat]

\* The state is well formed, and only finitely many models are placed.
PlacementTypeOK ==
    /\ used \in [Devices -> Nat]
    /\ placements \in [DOMAIN placements -> Placements]
    /\ IsFiniteSet(DOMAIN placements)

PlacementInv == PlacementTypeOK /\ DevicesAccounted

\* Device d is the choice among the first i devices.
IsChoice(d, i, bytes) ==
    \/ /\ d = NoDevice
       /\ \A e \in 1 .. i : ~ Fits(e, bytes)
    \/ /\ d \in 1 .. i
       /\ Fits(d, bytes)
       /\ \A e \in 1 .. i : Fits(e, bytes) =>
             used[d] < used[e] \/ (used[d] = used[e] /\ d <= e)

\* The devices are numbered from 1.
LEMMA DevicesTyped ==
    /\ Len(Capacities) \in Nat
    /\ Devices = 1 .. Len(Capacities)
    /\ NoDevice \notin Devices /\ NoDevice \in Nat
    /\ \A d \in Devices : Capacities[d] \in Nat
<1>1. Capacities \in Seq(Nat)
  BY PlacementAssumption
<1>2. /\ Len(Capacities) \in Nat /\ DOMAIN Capacities = 1 .. Len(Capacities)
      /\ \A d \in 1 .. Len(Capacities) : Capacities[d] \in Nat
  BY <1>1, LenProperties
<1> QED BY <1>2 DEF Devices, NoDevice

-----------------------------------------------------------------------------
(***************************************************************************)
(* The loop.  Its choices are a function that is defined by recursion over *)
(* the devices; that there is such a function, and what it computes, is    *)
(* shown with a least counterexample.                                      *)
(***************************************************************************)

\* One iteration: the choice after device i, with the choices before it.
Iteration(chosen, i, bytes) ==
    IF i = 0 THEN NoDevice
    ELSE IF /\ Fits(i, bytes)
            /\ chosen[i - 1] = NoDevice \/ used[i] < used[chosen[i - 1]]
    THEN i
    ELSE chosen[i - 1]

\* The choices of the first n iterations.
IsRun(chosen, n, bytes) == chosen = [i \in 0 .. n |-> Iteration(chosen, i, bytes)]

\* The loop can be run to its end.
LEMMA RunExists ==
    ASSUME NEW bytes, NEW N \in Nat
    PROVE  \E chosen : IsRun(chosen, N, bytes)
<1> DEFINE stuck == {n \in Nat : ~ \E chosen : IsRun(chosen, n, bytes)}
<1> SUFFICES stuck = {}
  OBVIOUS
<1> SUFFICES ASSUME stuck # {}
             PROVE  FALSE
  OBVIOUS
<1>1. PICK m \in stuck : \A k \in stuck : m <= k
  <2>1. stuck \in SUBSET Nat
    OBVIOUS
  <2> HIDE DEF stuck
  <2> QED BY <2>1, LeastNatural
<1>2. m \in Nat /\ ~ \E chosen : IsRun(chosen, m, bytes)
  BY <1>1
<1>3. CASE m = 0
  <2> DEFINE first == [i \in 0 .. 0 |-> NoDevice]
  <2>1. first = [i \in 0 .. 0 |-> Iteration(first, i, bytes)]
    BY DEF Iteration
  <2> QED BY <1>2, <1>3, <2>1 DEF IsRun
<1>4. CASE m # 0
  <2>1. m - 1 \in Nat /\ m - 1 \notin stuck
    BY <1>1, <1>2, <1>4
  <2>2. PICK chosen : IsRun(chosen, m - 1, bytes)
    BY <2>1
  <2> DEFINE longer == [i \in 0 .. m |-> IF i = m THEN Iteration(chosen, m, bytes) ELSE chosen[i]]
  <2>3. \A i \in 0 .. m - 1 : longer[i] = chosen[i]
    BY <1>2
  <2>4. ASSUME NEW i \in 0 .. m
        PROVE  longer[i] = Iteration(longer, i, bytes)
    <3>1. i # 0 => longer[i - 1] = chosen[i - 1]
      BY <1>2, <2>3
    <3>2. Iteration(longer, i, bytes) = Iteration(chosen, i, bytes)
      BY <3>1 DEF Iteration
    <3>3. i # m => chosen[i] = Iteration(chosen, i, bytes)
      BY <1>2, <2>2 DEF IsRun
    <3> QED BY <3>2, <3>3
  <2>5. longer = [i \in 0 .. m |-> Iteration(longer, i, bytes)]
    BY <2>4
  <2> QED BY <1>2, <2>5 DEF IsRun
<1> QED BY <1>3, <1>4

\* Select is the last choice of a run.
LEMMA SelectIsRun ==
    ASSUME NEW bytes
    PROVE  \E chosen : /\ IsRun(chosen, Len(Capacities), bytes)
                       /\ Select(bytes) = chosen[Len(Capacities)]
<1> DEFINE N == Len(Capacities)
           loop == CHOOSE chosen : chosen = [i \in 0 .. N |-> Iteration(chosen, i, bytes)]
<1>1. \E chosen : chosen = [i \in 0 .. N |-> Iteration(chosen, i, bytes)]
  BY DevicesTyped, RunExists DEF IsRun
<1>2. IsRun(loop, N, bytes)
  BY <1>1 DEF IsRun
<1>3. Select(bytes) = loop[N]
  BY DEF Select, Iteration
<1> QED BY <1>2, <1>3

\* One iteration extends the choice by one device.
LEMMA IterationChooses ==
    ASSUME PlacementTypeOK, NEW bytes \in Nat, NEW chosen,
           NEW i \in 1 .. Len(Capacities), IsChoice(chosen[i - 1], i - 1, bytes)
    PROVE  IsChoice(Iteration(chosen, i, bytes), i, bytes)
<1> DEFINE d == chosen[i - 1]
           N == Len(Capacities)
<1>1. /\ N \in Nat /\ NoDevice = N + 1 /\ i \in Nat /\ i # 0
      /\ \A e \in 1 .. N : used[e] \in Nat
  BY DevicesTyped DEF PlacementTypeOK, NoDevice
<1>2. \A e \in 1 .. i : e \in 1 .. i - 1 \/ e = i
  BY <1>1
<1>3. d # NoDevice => d \in 1 .. i - 1 /\ used[d] \in Nat
  BY <1>1 DEF IsChoice
<1>4. CASE ~ Fits(i, bytes)
  <2>1. Iteration(chosen, i, bytes) = d
    BY <1>1, <1>4 DEF Iteration
  <2> QED BY <1>1, <1>2, <1>4, <2>1 DEF IsChoice
<1>5. CASE Fits(i, bytes) /\ d = NoDevice
  <2>1. Iteration(chosen, i, bytes) = i
    BY <1>1, <1>5 DEF Iteration
  <2>2. \A e \in 1 .. i - 1 : ~ Fits(e, bytes)
    BY <1>1, <1>5 DEF IsChoice
  <2> QED BY <1>1, <1>2, <1>5, <2>1, <2>2 DEF IsChoice
<1>6. CASE Fits(i, bytes) /\ d # NoDevice /\ used[i] < used[d]
  <2>1. Iteration(chosen, i, bytes) = i
    BY <1>1, <1>6 DEF Iteration
  <2>2. \A e \in 1 .. i - 1 : Fits(e, bytes) => used[d] <= used[e]
    BY <1>1, <1>3, <1>6 DEF IsChoice
  <2>3. \A e \in 1 .. i - 1 : Fits(e, bytes) => used[i] < used[e]
    BY <1>1, <1>3, <1>6, <2>2
  <2> QED BY <1>1, <1>2, <1>6, <2>1, <2>3 DEF IsChoice
<1>7. CASE Fits(i, bytes) /\ d # NoDevice /\ ~ (used[i] < used[d])
  <2>1. Iteration(chosen, i, bytes) = d
    BY <1>1, <1>7 DEF Iteration
  <2>2. /\ Fits(d, bytes)
        /\ \A e \in 1 .. i - 1 : Fits(e, bytes) =>
              used[d] < used[e] \/ (used[d] = used[e] /\ d <= e)
    BY <1>7 DEF IsChoice
  <2>3. used[d] < used[i] \/ (used[d] = used[i] /\ d <= i)
    BY <1>1, <1>3, <1>7
  <2> QED BY <1>1, <1>2, <1>3, <1>7, <2>1, <2>2, <2>3 DEF IsChoice
<1> QED BY <1>4, <1>5, <1>6, <1>7

\* The loop of place chooses the first of the least used devices with room.
LEMMA SelectChooses ==
    ASSUME PlacementTypeOK, NEW bytes \in Nat
    PROVE  IsChoice(Select(bytes), Len(Capacities), bytes)
<1> DEFINE N == Len(Capacities)
<1>1. N \in Nat
  BY DevicesTyped
<1>2. PICK chosen : IsRun(chosen, N, bytes) /\ Select(bytes) = chosen[N]
  BY SelectIsRun
<1>3. \A i \in 0 .. N : chosen[i] = Iteration(chosen, i, bytes)
  BY <1>2 DEF IsRun
<1> DEFINE wrong == {i \in 0 .. N : ~ IsChoice(chosen[i], i, bytes)}
<1>4. ASSUME wrong # {}
      PROVE  FALSE
  <2>1. wrong \in SUBSET Nat
    BY <1>1
  <2>2. PICK m \in wrong : \A k \in wrong : m <= k
    <3> HIDE DEF wrong
    <3> QED BY <1>4, <2>1, LeastNatural
  <2>3. m \in 0 .. N /\ ~ IsChoice(chosen[m], m, bytes)
    BY <2>2
  <2>4. CASE m = 0
    BY <1>1, <1>3, <2>3, <2>4 DEF Iteration, IsChoice
  <2>5. CASE m # 0
    <3>1. m \in 1 .. N /\ m - 1 \in 0 .. N /\ ~ (m <= m - 1)
      BY <1>1, <2>3, <2>5
    <3>2. IsChoice(chosen[m - 1], m - 1, bytes)
      BY <2>2, <3>1
    <3>3. IsChoice(Iteration(chosen, m, bytes), m, bytes)
      BY <3>1, <3>2, IterationChooses
    <3> QED BY <1>3, <2>3, <3>3
  <2> QED BY <2>4, <2>5
<1>5. N \in 0 .. N /\ N \notin wrong
  BY <1>1, <1>4
<1> QED BY <1>2, <1>5

\* What a successful place has to work with.
LEMMA SelectFits ==
    ASSUME PlacementTypeOK, NEW bytes \in Nat
    PROVE  /\ Select(bytes) = NoDevice => \A d \in Devices : ~ Fits(d, bytes)
           /\ Select(bytes) # NoDevice =>
                 /\ Select(bytes) \in Devices
                 /\ Fits(Select(bytes), bytes)
                 /\ \A e \in Devices : Fits(e, bytes) =>
                       \/ used[Select(bytes)] < used[e]
                       \/ used[Select(bytes)] = used[e] /\ Select(bytes) <= e
<1>1. IsChoice(Select(bytes), Len(Capacities), bytes)
  BY SelectChooses
<1>2. Devices = 1 .. Len(Capacities) /\ NoDevice \notin Devices
  BY DevicesTyped
<1> QED BY <1>1, <1>2 DEF IsChoice

-----------------------------------------------------------------------------
(***************************************************************************)
(* The accounts of the devices.                                            *)
(***************************************************************************)

\* What is placed on a device is a ledger.
LEMMA OnIsLedger ==
    ASSUME PlacementTypeOK, NEW d
    PROVE  /\ IsLedger(On(d))
           /\ DOMAIN On(d) = {m \in DOMAIN placements : placements[m].device = d}
           /\ \A m \in DOMAIN On(d) : On(d)[m] = placements[m].bytes
<1>1. /\ DOMAIN On(d) = {m \in DOMAIN placements : placements[m].device = d}
      /\ \A m \in DOMAIN On(d) : On(d)[m] = placements[m].bytes
  BY DEF On
<1>2. IsFiniteSet(DOMAIN On(d))
  BY <1>1, FS_Subset DEF PlacementTypeOK
<1>3. \A m \in DOMAIN On(d) : On(d)[m] \in Nat
  BY <1>1 DEF PlacementTypeOK, Placements
<1>4. On(d) = [m \in DOMAIN On(d) |-> On(d)[m]]
  BY DEF On
<1> QED BY <1>1, <1>2, <1>3, <1>4 DEF IsLedger

\* Nothing is placed at first.
LEMMA PlacementInitially == Init => PlacementInv
<1> SUFFICES ASSUME Init
             PROVE  PlacementInv
  OBVIOUS
<1>1. /\ used = [d \in Devices |-> 0]
      /\ placements = NoEntries /\ DOMAIN placements = {}
  BY DEF Init, NoEntries
<1>2. PlacementTypeOK
  BY <1>1, FS_EmptySet DEF PlacementTypeOK, NoEntries
<1>3. ASSUME NEW d \in Devices
      PROVE  used[d] = Total(On(d)) /\ used[d] <= Capacities[d]
  <2>1. DOMAIN On(d) = {}
    BY <1>1 DEF On
  <2>2. Total(On(d)) = 0
    BY <2>1, TotalEmpty
  <2> QED BY <1>1, <2>2, DevicesTyped
<1> QED BY <1>2, <1>3 DEF PlacementInv, DevicesAccounted

\* A placement adds its bytes to the device that was chosen, which has room.
LEMMA PlaceKeeps ==
    ASSUME PlacementInv, NEW model, NEW bytes \in Nat, Place(model, bytes),
           PlaceError(model, bytes) = "None"
    PROVE  PlacementInv'
<1> DEFINE device == Select(bytes)
<1>1. /\ used' = [used EXCEPT ![device] = @ + bytes]
      /\ placements' = Emplace(placements, model, [device |-> device, bytes |-> bytes])
  BY DEF Place
<1>2. model \notin DOMAIN placements /\ device # NoDevice
  BY DEF PlaceError
<1>3. PlacementTypeOK /\ DevicesAccounted
  BY DEF PlacementInv
<1>4. device \in Devices /\ Fits(device, bytes)
  BY <1>2, <1>3, SelectFits
<1>5. \A d \in Devices : used[d] \in Nat /\ Capacities[d] \in Nat
  BY <1>3, DevicesTyped DEF PlacementTypeOK
<1>6. /\ DOMAIN placements' = DOMAIN placements \cup {model}
      /\ placements'[model] = [device |-> device, bytes |-> bytes]
      /\ \A m \in DOMAIN placements : placements'[m] = placements[m]
      /\ placements' = [m \in DOMAIN placements' |-> placements'[m]]
  BY <1>1, <1>2 DEF Emplace
<1> HIDE DEF device
<1>7. PlacementTypeOK'
  <2>1. used' \in [Devices -> Nat]
    BY <1>1, <1>3, <1>4, <1>5 DEF PlacementTypeOK
  <2>2. IsFiniteSet(DOMAIN placements')
    BY <1>3, <1>6, FS_AddElement DEF PlacementTypeOK
  <2>3. \A m \in DOMAIN placements' : placements'[m] \in Placements
    BY <1>3, <1>4, <1>6 DEF PlacementTypeOK, Placements
  <2>4. placements' \in [DOMAIN placements' -> Placements]
    BY <1>6, <2>3
  <2> QED BY <2>1, <2>2, <2>4 DEF PlacementTypeOK
<1>8. ASSUME NEW d \in Devices
      PROVE  used'[d] = Total(On(d)') /\ used'[d] <= Capacities[d]
  <2>1. used[d] = Total(On(d)) /\ used[d] <= Capacities[d]
    BY <1>3 DEF DevicesAccounted
  <2>2. /\ IsLedger(On(d))
        /\ DOMAIN On(d) = {m \in DOMAIN placements : placements[m].device = d}
        /\ \A m \in DOMAIN On(d) : On(d)[m] = placements[m].bytes
    BY <1>3, OnIsLedger
  <2>3. /\ DOMAIN On(d)' = {m \in DOMAIN placements' : placements'[m].device = d}
        /\ \A m \in DOMAIN On(d)' : On(d)'[m] = placements'[m].bytes
    BY DEF On
  <2> DEFINE f == On(d)
             g == On(d)'
  <2>4. CASE d = device
    <3>1. /\ DOMAIN g = DOMAIN f \cup {model} /\ model \notin DOMAIN f
          /\ \A m \in DOMAIN f : g[m] = f[m]
          /\ g[model] = bytes
      BY <1>2, <1>6, <2>2, <2>3, <2>4
    <3> HIDE DEF f, g
    <3>2. Total(g) = Total(f) + g[model]
      BY <2>2, <3>1, TotalGrow DEF f
    <3>3. used'[d] = used[d] + bytes
      BY <1>1, <1>3, <1>4, <2>4 DEF PlacementTypeOK
    <3>4. bytes <= Capacities[d] - used[d]
      BY <1>4, <2>4 DEF Fits
    <3>5. used'[d] = Total(g)
      BY <2>1, <3>1, <3>2, <3>3 DEF f
    <3> QED BY <1>5, <3>3, <3>4, <3>5 DEF g
  <2>5. CASE d # device
    <3>1. DOMAIN g = DOMAIN f /\ \A m \in DOMAIN f : g[m] = f[m]
      BY <1>6, <2>2, <2>3, <2>5
    <3> HIDE DEF f, g
    <3>2. Total(f) = Total(g)
      BY <3>1, TotalEqual
    <3>3. used'[d] = used[d]
      BY <1>1, <1>3, <2>5 DEF PlacementTypeOK
    <3> QED BY <2>1, <3>2, <3>3 DEF f, g
  <2> QED BY <2>4, <2>5
<1> QED BY <1>7, <1>8 DEF PlacementInv, DevicesAccounted

\* A release takes the bytes off the device that the model was placed on.
LEMMA ReleaseKeeps ==
    ASSUME PlacementInv, NEW model \in DOMAIN placements, Release(model)
    PROVE  PlacementInv'
<1> DEFINE device == placements[model].device
           bytes == placements[model].bytes
<1>1. /\ used' = [used EXCEPT ![device] = @ - bytes]
      /\ placements' = Erase(placements, {model})
  BY DEF Release
<1>2. PlacementTypeOK /\ DevicesAccounted
  BY DEF PlacementInv
<1>3. device \in Devices /\ bytes \in Nat
  BY <1>2 DEF PlacementTypeOK, Placements
<1>4. \A d \in Devices : used[d] \in Nat /\ Capacities[d] \in Nat
  BY <1>2, DevicesTyped DEF PlacementTypeOK
<1>5. /\ DOMAIN placements' = DOMAIN placements \ {model}
      /\ \A m \in DOMAIN placements' : placements'[m] = placements[m]
      /\ placements' = [m \in DOMAIN placements' |-> placements'[m]]
  BY <1>1 DEF Erase, Restrict
<1>6. IsFiniteSet(DOMAIN placements') /\ placements' \in [DOMAIN placements' -> Placements]
  <2>1. IsFiniteSet(DOMAIN placements')
    BY <1>2, <1>5, FS_Subset DEF PlacementTypeOK
  <2>2. \A m \in DOMAIN placements' : placements'[m] \in Placements
    BY <1>2, <1>5 DEF PlacementTypeOK
  <2> QED BY <1>5, <2>1, <2>2
<1>7. ASSUME NEW d \in Devices
      PROVE  used'[d] \in Nat /\ used'[d] = Total(On(d)') /\ used'[d] <= Capacities[d]
  <2>1. used[d] = Total(On(d)) /\ used[d] <= Capacities[d]
    BY <1>2 DEF DevicesAccounted
  <2>2. /\ IsLedger(On(d))
        /\ DOMAIN On(d) = {m \in DOMAIN placements : placements[m].device = d}
        /\ \A m \in DOMAIN On(d) : On(d)[m] = placements[m].bytes
    BY <1>2, OnIsLedger
  <2>3. /\ DOMAIN On(d)' = {m \in DOMAIN placements' : placements'[m].device = d}
        /\ \A m \in DOMAIN On(d)' : On(d)'[m] = placements'[m].bytes
        /\ On(d)' = [m \in DOMAIN On(d)' |-> On(d)'[m]]
    BY DEF On
  <2> DEFINE f == On(d)'
             g == On(d)
  <2>4. IsLedger(f)
    <3>1. IsFiniteSet(DOMAIN f)
      BY <1>6, <2>3, FS_Subset
    <3>2. \A m \in DOMAIN f : f[m] \in Nat
      BY <1>6, <2>3 DEF Placements
    <3> QED BY <2>3, <3>1, <3>2 DEF IsLedger
  <2>5. CASE d = device
    <3>1. /\ DOMAIN g = DOMAIN f \cup {model} /\ model \notin DOMAIN f
          /\ \A m \in DOMAIN f : g[m] = f[m]
          /\ g[model] = bytes
      BY <1>5, <2>2, <2>3, <2>5
    <3> HIDE DEF f, g
    <3>2. Total(g) = Total(f) + bytes
      BY <1>3, <2>4, <3>1, TotalGrow
    <3>3. used'[d] = used[d] - bytes
      BY <1>1, <1>2, <1>3, <2>5 DEF PlacementTypeOK
    <3>4. Total(f) \in Nat
      BY <2>4, TotalNat
    <3>5. used[d] = Total(g)
      BY <2>1 DEF g
    <3>6. used'[d] = Total(f) /\ used'[d] <= used[d]
      BY <1>3, <3>2, <3>3, <3>4, <3>5
    <3> QED BY <1>4, <2>1, <3>4, <3>6 DEF f
  <2>6. CASE d # device
    <3>1. DOMAIN g = DOMAIN f /\ \A m \in DOMAIN g : g[m] = f[m]
      BY <1>5, <2>2, <2>3, <2>6
    <3> HIDE DEF f, g
    <3>2. Total(g) = Total(f)
      BY <3>1, TotalEqual
    <3>3. used'[d] = used[d]
      BY <1>1, <1>2, <1>3, <2>6 DEF PlacementTypeOK
    <3> QED BY <1>4, <2>1, <3>2, <3>3 DEF f, g
  <2> QED BY <2>5, <2>6
<1>8. used' \in [Devices -> Nat]
  BY <1>1, <1>2, <1>7 DEF PlacementTypeOK
<1> QED BY <1>6, <1>7, <1>8 DEF PlacementInv, PlacementTypeOK, DevicesAccounted

\* What is refused changes nothing.
LEMMA UnchangedKeeps ==
    ASSUME PlacementInv, UNCHANGED <<used, placements>>
    PROVE  PlacementInv'
<1>1. \A d : On(d)' = On(d)
  BY DEF On
<1> QED BY <1>1 DEF PlacementInv, PlacementTypeOK, DevicesAccounted

\* A new placement is where the order of used bytes and indices puts it.
LEMMA PlaceIsLeastUsed ==
    ASSUME PlacementInv, NEW model, NEW bytes \in Nat, Place(model, bytes),
           NEW m \in DOMAIN placements' \ DOMAIN placements
    PROVE  LET room == {d \in Devices : used[d] + placements'[m].bytes <= Capacities[d]}
               least == {d \in room : \A e \in room : used[d] <= used[e]}
           IN  placements'[m].device = CHOOSE d \in least : \A e \in least : d <= e
<1> DEFINE device == Select(bytes)
           room == {d \in Devices : used[d] + placements'[m].bytes <= Capacities[d]}
           least == {d \in room : \A e \in room : used[d] <= used[e]}
<1>1. PlacementTypeOK
  BY DEF PlacementInv
<1>2. /\ PlaceError(model, bytes) = "None"
      /\ placements' = Emplace(placements, model, [device |-> device, bytes |-> bytes])
  BY DEF Place, Refuse
<1>3. device # NoDevice
  BY <1>2 DEF PlaceError
<1>4. placements'[m].device = device /\ placements'[m].bytes = bytes
  BY <1>2 DEF Emplace
<1>5. /\ device \in Devices
      /\ Fits(device, bytes)
      /\ \A e \in Devices : Fits(e, bytes) =>
            used[device] < used[e] \/ (used[device] = used[e] /\ device <= e)
  BY <1>1, <1>3, SelectFits
<1>6. /\ \A d \in Devices : used[d] \in Nat /\ Capacities[d] \in Nat /\ d \in Nat
      /\ Devices \subseteq Nat
  BY <1>1, DevicesTyped DEF PlacementTypeOK
<1> HIDE DEF device
<1>7. \A d \in Devices : d \in room <=> Fits(d, bytes)
  BY <1>4, <1>6 DEF Fits
<1>8. device \in least /\ \A e \in least : device <= e
  <2>1. device \in room /\ \A e \in room : used[device] <= used[e]
    BY <1>5, <1>6, <1>7
  <2>2. ASSUME NEW e \in least
        PROVE  device <= e
    <3>1. e \in Devices /\ Fits(e, bytes) /\ used[e] <= used[device]
      BY <1>7, <2>1, <2>2
    <3> QED BY <1>5, <1>6, <3>1
  <2> QED BY <2>1, <2>2
<1>9. least \subseteq Nat
  BY <1>6
<1> HIDE DEF least
<1>10. \A d \in least : (\A e \in least : d <= e) => d = device
  BY <1>8, <1>9
<1>11. device = CHOOSE d \in least : \A e \in least : d <= e
  BY <1>8, <1>10
<1> QED BY <1>4, <1>11 DEF least

\* A model is refused for lack of memory only if no device has room.
LEMMA RefusedOnlyWithoutRoom ==
    ASSUME PlacementInv, NEW model, NEW bytes \in Nat, Place(model, bytes),
           result'[1] = "InsufficientMemory", NEW d \in Devices
    PROVE  used[d] + bytes > Capacities[d]
<1>1. PlacementTypeOK
  BY DEF PlacementInv
<1>2. used[d] \in Nat /\ Capacities[d] \in Nat
  BY <1>1, DevicesTyped DEF PlacementTypeOK
<1>3. PlaceError(model, bytes) = "InsufficientMemory"
  BY DEF Place, Refuse
<1>4. Select(bytes) = NoDevice
  BY <1>3 DEF PlaceError
<1>5. ~ Fits(d, bytes)
  BY <1>1, <1>4, SelectFits
<1> QED BY <1>2, <1>5 DEF Fits

-----------------------------------------------------------------------------

\* The state of DevicePlacement stays well formed and its accounts exact.
THEOREM PlacementInvariance == Spec => []PlacementInv
<1>1. Init => PlacementInv
  BY PlacementInitially
<1>2. PlacementInv /\ [Next]_vars => PlacementInv'
  <2> SUFFICES ASSUME PlacementInv, [Next]_vars
               PROVE  PlacementInv'
    OBVIOUS
  <2>1. CASE UNCHANGED vars
    BY <2>1, UnchangedKeeps DEF vars
  <2>2. ASSUME NEW model \in Models, NEW bytes \in Sizes, Place(model, bytes)
        PROVE  PlacementInv'
    <3>1. bytes \in Nat
      BY PlacementAssumption
    <3>2. CASE PlaceError(model, bytes) = "None"
      BY <2>2, <3>1, <3>2, PlaceKeeps
    <3>3. CASE PlaceError(model, bytes) # "None"
      BY <2>2, <3>3, UnchangedKeeps DEF Place, Refuse
    <3> QED BY <3>2, <3>3
  <2>3. ASSUME NEW model \in Models, Release(model)
        PROVE  PlacementInv'
    <3>1. CASE model \in DOMAIN placements
      BY <2>3, <3>1, ReleaseKeeps
    <3>2. CASE model \notin DOMAIN placements
      BY <2>3, <3>2, UnchangedKeeps DEF Release, Refuse
    <3> QED BY <3>1, <3>2
  <2> QED BY <2>1, <2>2, <2>3 DEF Next
<1> QED BY <1>1, <1>2, PTL DEF Spec

\* A device has handed out exactly what is placed on it, and never more than
\* it has, after any sequence of calls of place and release.
THEOREM DevicesCorrect == Spec => []DevicesAccounted
<1>1. PlacementInv => DevicesAccounted
  BY DEF PlacementInv
<1> QED BY <1>1, PlacementInvariance, PTL

\* The loop of place gives a model to the first of the least used devices that
\* have room for it, and refuses it only if none has.
THEOREM LeastUsedCorrect == Spec => PlacesLeastUsed
<1>1. PlacementInv /\ [Next]_vars => [LeastUsedStep]_vars
  <2> SUFFICES ASSUME PlacementInv, Next
               PROVE  LeastUsedStep
    BY DEF LeastUsedStep
  <2>1. Sizes \subseteq Nat
    BY PlacementAssumption
  <2>2. ASSUME NEW m \in DOMAIN placements' \ DOMAIN placements
        PROVE  LET bytes == placements'[m].bytes
                   room == {d \in Devices : used[d] + bytes <= Capacities[d]}
                   least == {d \in room : \A e \in room : used[d] <= used[e]}
               IN  placements'[m].device = CHOOSE d \in least : \A e \in least : d <= e
    <3>1. ~ \E model \in Models : Release(model)
      BY <2>2 DEF Release, Refuse, Erase, Restrict
    <3>2. PICK model \in Models, bytes \in Sizes : Place(model, bytes)
      BY <3>1 DEF Next
    <3> QED BY <2>1, <2>2, <3>2, PlaceIsLeastUsed
  <2>3. ASSUME NEW m \in Models, NEW bytes \in Sizes, Place(m, bytes),
               result'[1] = "InsufficientMemory", NEW d \in Devices
        PROVE  used[d] + bytes > Capacities[d]
    BY <2>1, <2>3, RefusedOnlyWithoutRoom
  <2> QED BY <2>2, <2>3 DEF LeastUsedStep
<1> QED BY <1>1, PlacementInvariance, PTL DEF Spec, PlacesLeastUsed

=============================================================================
