---------------------------- MODULE SyncPromise ----------------------------
(***************************************************************************)
(* What the retroactive sync promises to a reader of the PII registry: a   *)
(* time recorded for a resource means that each value that was in its      *)
(* tables before that time is stored, forgone, or due, and a value that is *)
(* due stays due until it is stored or forgone, or is no longer there.     *)
(* How values are selected, sent and stored is left open, and so is which  *)
(* other values the sync sees to.                                          *)
(***************************************************************************)
EXTENDS Naturals

CONSTANTS
    Resources,  \* resources of the registry
    Values,     \* values that a table may hold
    Home        \* [Values -> Resources]: the resource a value belongs to

VARIABLES
    written,    \* [Values -> Nat]: when the value was written, 0 if it is not there
    due,        \* values that the sync will see to
    stored,     \* values that have a counterpart in pii_vault
    forgone,    \* values that the sync has decided not to store
    recorded    \* [Resources -> SUBSET Nat]: times the registry records

promise == <<written, due, stored, forgone, recorded>>

-----------------------------------------------------------------------------
\* Nothing that was in q before time t has been missed.
Accounted(q, t) ==
    \A v \in Values : Home[v] = q /\ written[v] # 0 /\ written[v] < t
                          => v \in due \cup stored \cup forgone

Init ==
    /\ written \in [Values -> Nat]
    /\ due = {} /\ stored = {} /\ forgone = {}
    /\ recorded = [q \in Resources |-> {0}]

\* The customer writes or removes values: what is new is no older than any time
\* that is recorded, and what stays is still due.
Change ==
    /\ written' \in [Values -> Nat]
    /\ \A v \in Values : \/ written'[v] \in {0, written[v]}
                         \/ \A t \in recorded[Home[v]] : written'[v] >= t
    /\ \A v \in due : written'[v] # 0 => v \in due'
    /\ due' \subseteq Values
    /\ UNCHANGED <<stored, forgone, recorded>>

\* The sync takes values on, and stores or forgoes them.
Sync ==
    /\ due' \subseteq Values
    /\ due \subseteq due' \cup stored' \cup forgone'
    /\ stored \subseteq stored' /\ stored' \subseteq Values
    /\ forgone \subseteq forgone' /\ forgone' \subseteq Values
    /\ UNCHANGED <<written, recorded>>

\* Other times are recorded; everything before them is accounted for.
Record ==
    /\ recorded' \in [Resources -> SUBSET Nat]
    /\ \A q \in Resources : \A t \in recorded'[q] : Accounted(q, t)
    /\ UNCHANGED <<written, due, stored, forgone>>

Next == Change \/ Sync \/ Record

Spec == Init /\ [][Next]_promise

-----------------------------------------------------------------------------
\* What a reader may conclude from the times that are recorded.
Kept == \A q \in Resources : \A t \in recorded[q] : Accounted(q, t)
=============================================================================
