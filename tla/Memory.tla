------------------------------- MODULE Memory -------------------------------
(***************************************************************************)
(* Byte ledgers.  gpumemd keeps every account of accelerator memory as an  *)
(* unordered_map from a name to a number of bytes next to a running total. *)
(* A ledger is a function whose domain is the finite set of its keys; its  *)
(* total is the number of its units, so that the laws of the total follow  *)
(* from the laws of cardinality.                                           *)
(***************************************************************************)

EXTENDS Naturals, FiniteSets, Functions

\* The ledgers whose keys are in Keys and whose entries are in Amounts.
Ledgers(Keys, Amounts) == UNION {[K -> Amounts] : K \in SUBSET Keys}

NoEntries == [key \in {} |-> 0]

\* One element per byte of each entry.
Units(ledger) == UNION {{key} \X (1 .. ledger[key]) : key \in DOMAIN ledger}

Total(ledger) == Cardinality(Units(ledger))

\* The bytes that the waiters in ws ask for together.
Demand(request, ws) == Total([w \in ws |-> request[w].bytes])

\* unordered_map::emplace: an entry that is there already is left alone.
Emplace(ledger, key, amount) ==
    [k \in DOMAIN ledger \cup {key} |->
        IF k \in DOMAIN ledger THEN ledger[k] ELSE amount]

Erase(ledger, keys) == Restrict(ledger, DOMAIN ledger \ keys)

=============================================================================
