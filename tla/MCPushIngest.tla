---------------------------- MODULE MCPushIngest ----------------------------
(* Small instances of PushIngest for TLC.                                  *)
EXTENDS PushIngest

CONSTANTS c1, c2, w1, w2, s1, s2, u1, f1, f2, f3, q1, a1, r1, r2, i1

\* c1 and c2 are customers' messages, c2 not a JSON object; w1 and w2 are
\* records of the landing zone, w2 not Avro; s1 and s2 are for the sequential
\* ingestor, s2 not what it expects.
MCRoutes == [m \in Messages |->
                IF m \in {c1, c2} THEN "customer" ELSE IF m \in {s1, s2} THEN "sequential" ELSE "raw"]
MCMalformed == Messages \cap {c2, w2, s2}
MCOwner == [m \in Messages |-> IF m \in {c1, s1} THEN u1 ELSE NoUser]
MCPresent == [m \in Messages |-> IF m = c1 THEN Fields ELSE {}]
MCTopic == [m \in Messages |-> q1]
MCSender == [m \in Messages |-> a1]
MCBacklogs == {{c1, c2}, {c1, s1}, {w1, w2, s1}, {s1, s2}}

\* As declared at first, with f2 withdrawn, and revoked; f3 is never encrypted.
Full == [declared |-> TRUE, caller |-> a1, keyed |-> TRUE, encrypt |-> {f1, f2}]
MCDeclarations == [q \in Resources |->
    {Full, [Full EXCEPT !.encrypt = {f1}],
     [declared |-> FALSE, caller |-> NoCaller, keyed |-> FALSE, encrypt |-> {}]}]
MCOneBacklog == {{c1}}
MCOneDeclaration == [q \in Resources |-> {Full}]

\* Two requests of one instance; only one of them also takes what the other
\* two endpoints get.
MCHostOf == [r \in Requests |-> i1]
MCServes == [r \in Requests |->
                IF r = r1 THEN RouteNames ELSE {"customer"}]
=============================================================================
