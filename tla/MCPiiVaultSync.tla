--------------------------- MODULE MCPiiVaultSync ---------------------------
(* Small instances of PiiVaultSync for TLC.                                *)
EXTENDS PiiVaultSync, TLC

CONSTANTS q1, u1, u2, x1, x2, x3, f1, f2, r1, r2, w1, w2, i1

\* One table with a row per user; x3 is a second row of u2.
MCResourceOf == [row \in Rows |-> q1]
MCUserOf == [row \in Rows |-> IF row = x1 THEN u1 ELSE u2]
MCHostOf == [w \in Workers |-> i1]
MCOriginal == [q \in Resources |-> {f1}]

\* Exchanging both users together with their rows changes nothing.
Swap == [v \in {u1, u2, x1, x2} |->
            CASE v = u1 -> u2 [] v = u2 -> u1 [] v = x1 -> x2 [] v = x2 -> x1]
Same == [v \in {u1, u2, x1, x2} |-> v]
Paired == {Swap, Same}

Symmetric == Permutations(Runs) \cup Permutations(Workers)
=============================================================================
