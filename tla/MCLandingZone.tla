--------------------------- MODULE MCLandingZone ---------------------------
(* Small instances of LandingZone for TLC.                                 *)
EXTENDS LandingZone

CONSTANTS a1, a2, b1, x1, x2, x3, id, email, phone, n1, n2, i1, i2

\* Two uploads of one name, and a JSON upload of another.
MCNameOf == [u \in Uploads |-> IF u = b1 THEN n2 ELSE n1]
MCJson == Uploads \cap {b1}
MCUploadOf == [row \in Rows |-> IF row = x3 THEN a2 ELSE a1]
\* a2, which replaces a1, has no phone numbers at all.
MCColumns == [u \in Uploads |-> IF u = a2 THEN {id, email} ELSE {id, email, phone}]
\* Neither has x2, a row of a1.
MCCells == [row \in Rows |-> IF row = x1 THEN {id, email, phone} ELSE {id, email}]
=============================================================================
