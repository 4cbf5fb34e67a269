---------------------------- MODULE MCSigScanner ----------------------------
(* Small instances of the signature scanner: eight addresses, two bases, so *)
(* that offsets wrap and one base's offset is another base's address.       *)
EXTENDS SigScanner, TLC

CONSTANTS exe, s1, s2, s3, k1, k2, absent

MCOptions == {NameOption} \cup {KeyOption(k) : k \in Keys}
MCValues == Addresses \cup {exe}

\* s3 has the hash of s1.
TwoCollide == s1 :> k1 @@ s2 :> k2 @@ s3 :> k1
Alone == s2 :> k2

MCLen == [s \in Sigs |-> IF s = s1 THEN 2 ELSE 1]

WholeModule == [off |-> 0, size |-> 4]
PartOfModule == [off |-> 2, size |-> 1]
BelowModule == [off |-> M - 2, size |-> 2]
NullRange == [off |-> absent, size |-> 4]

\* The code as shipped; s1 matching one byte later and below the
\* module, the others overwritten.
Shipped == [s \in Sigs |-> IF s = s1 THEN {0, 3} ELSE {2}]
Shifted == [s \in Sigs |-> IF s = s1 THEN {1, M - 1} ELSE {}]

AllRanges == {WholeModule, PartOfModule, BelowModule, NullRange}
OneRange == {WholeModule}
TwoImages == {Shipped, Shifted}
=============================================================================
