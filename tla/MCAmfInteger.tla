---------------------------- MODULE MCAmfInteger ----------------------------
(***************************************************************************)
(* Instances of AmfInteger: with Group = 4 every integer of a range that   *)
(* exceeds the encodable one on both sides; with the real Group = 128 the  *)
(* integers around every boundary of the code.                             *)
(***************************************************************************)
EXTENDS AmfInteger

Reach == Modulus + 10
EveryNumber == -Reach .. Reach
EveryLength == 0 .. Modulus \div 4 - 1
AnyLength == 0 .. Modulus \div 2
EveryWord == 0 .. Word - 1

Bounds == {0, Group, Group * Group, Group * Group * Group, Modulus \div 2, Modulus}
Near(b) == b - 3 .. b + 3
BoundaryNumbers == UNION {Near(b) \cup Near(-b) : b \in Bounds}
BoundaryLengths ==
  (UNION {Near(b) \cup Near(b \div 2) : b \in Bounds}) \cap EveryLength
=============================================================================
