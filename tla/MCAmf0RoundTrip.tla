--------------------------- MODULE MCAmf0RoundTrip ---------------------------
(***************************************************************************)
(* Instances of Amf0RoundTrip: three arrays and objects, the empty name    *)
(* for a property, and a mapped class.                                     *)
(***************************************************************************)
EXTENDS Amf0RoundTrip, TLC

CONSTANTS o1, o2, o3

MCObj3 == {o1, o2, o3}
AnyOrder == Permutations(Obj)
=============================================================================
