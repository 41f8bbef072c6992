---------------------------- MODULE AtLeastOnce ----------------------------
(***************************************************************************)
(* What each push endpoint of the data plane promises to Pub/Sub: it takes *)
(* a message off the subscription only when every value that the message   *)
(* obliges it to store is stored.  How often a value is stored, in which   *)
(* order and by how many requests at once is left open.                    *)
(***************************************************************************)
CONSTANTS
    Messages,  \* messages pushed by Pub/Sub
    Values,    \* values that can be stored
    Owed       \* [Messages -> SUBSET Values]: what a message obliges to

VARIABLES
    waiting,   \* messages that have not been acknowledged
    stored     \* values that are in the warehouse

promise == <<waiting, stored>>

-----------------------------------------------------------------------------
Init ==
    /\ waiting \subseteq Messages
    /\ stored = {}

Store ==
    /\ stored' \in SUBSET Values
    /\ stored \subseteq stored'
    /\ UNCHANGED waiting

Acknowledge(m) ==
    /\ m \in waiting
    /\ Owed[m] \subseteq stored
    /\ waiting' = waiting \ {m}
    /\ UNCHANGED stored

Next ==
    \/ Store
    \/ \E m \in Messages : Acknowledge(m)

Spec == Init /\ [][Next]_promise

=============================================================================
