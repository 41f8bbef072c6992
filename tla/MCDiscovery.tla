---------------------------- MODULE MCDiscovery ----------------------------
(* Small instances of Discovery for TLC.                                   *)
EXTENDS Discovery

CONSTANTS q1, q2, q3, q4, d1, d2, id, mail, blob, EMAIL, PHONE, x1, x2, l1, l2,
          c1, s1, p1, k1, m1, m2, m3

\* q1 in d1 and q2 in d2; q3 in d2 is excluded; q4 is d1 itself, declared as
\* one resource.  d1 is listed twice.
MCDatasetOf == [q \in Resources |-> IF q = q1 THEN d1 ELSE IF q = q4 THEN NoTable ELSE d2]
MCDatasets == <<d1, d2, d1>>
MCConfigured == <<l1, l2>>

Plain == [columns |-> {id, mail}, direct |-> {mail}, inMart |-> {}, allowed |-> {},
          tenantColumn |-> NoColumn, userColumn |-> id, scanned |-> TRUE, full |-> TRUE,
          patterns |-> {}, table |-> TRUE,
          tenantScoped |-> FALSE, cryptoShred |-> TRUE, exempt |-> FALSE]
\* One column, with tenants but no user ids.
Narrow == [Plain EXCEPT !.columns = {id}, !.direct = {}, !.tenantColumn = id,
                        !.tenantScoped = TRUE, !.userColumn = NoColumn, !.exempt = TRUE,
                        !.full = FALSE, !.patterns = {EMAIL}]
\* All direct identifiers, one of them allowed in a mart.
Wide == [Plain EXCEPT !.columns = {id, mail, blob}, !.direct = {mail, blob}, !.inMart = {mail},
                      !.allowed = {mail}, !.scanned = FALSE]
\* Something of another type.
View == [Narrow EXCEPT !.table = FALSE]

MCDeclarations == [q \in Resources |->
    CASE q = q1 -> {Plain, Narrow} [] q = q2 -> {View} [] q = q3 -> {} [] q = q4 -> {Wide}]

\* A plain address, a telephone number in a user id, a mixed object.
MCCell == [row \in Rows |-> [c \in Columns |->
    CASE c = id -> IF row = x1 THEN <<Benign>> ELSE <<PHONE>>
      [] c = mail -> <<EMAIL>>
      [] c = blob -> IF row = x1 THEN <<Benign, EMAIL>> ELSE <<PHONE, EMAIL>>]]
MCJson == [row \in Rows |-> {blob}]

Full == [columns |-> {id, mail, blob}, rows |-> {x1, x2}]
Small == [columns |-> {id, mail}, rows |-> {x1}]
Least == [columns |-> {id}, rows |-> {}]
MCContents == [q \in Resources |->
    CASE q = q1 -> {Full, Small, NoTable} [] q = q2 -> {Least, NoTable}
      [] q = q3 -> {Least} [] q = q4 -> {NoTable}]

\* m1 is a mart over q1, m2 a staging model, and m3 goes by the id of q2, which
\* is not declared as a table.
MCCandidates == [m \in Models |-> IF m = m3 THEN {q2} ELSE {q1, q4}]
MCHas == [m \in Models |-> IF m = m1 THEN {id, mail, blob} ELSE {mail}]

MCSchedules == {{c1}, {s1}, {p1}, {k1}}
=============================================================================
