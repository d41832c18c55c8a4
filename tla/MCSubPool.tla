------------------------------ MODULE MCSubPool ------------------------------
(* Instances of SubPool for TLC: three keys of which two share a server, one *)
(* known and one unknown region, and the tables a run starts from.           *)
EXTENDS SubPool

CONSTANTS k1, k2, k3, de, unk

MCServerOf == [k \in Keys |-> IF k = k3 THEN "s3" ELSE "s1"]
MCNoServer == "none"
MCRegions == {de, unk}
MCUnknown == {unk}

NoRows == {Empty}
OneRow == {[i \in 1..1 |-> NewRow(k1, de, 1)]}
=============================================================================
