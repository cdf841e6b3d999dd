-------------------------- MODULE MCAmf3RoundTrip --------------------------
(***************************************************************************)
(* Instances of Amf3RoundTrip: three objects, a string that doubles as     *)
(* property name, and traits of each sort: the default ones, those of an   *)
(* ArrayCollection, a class with a sealed member and dynamic properties,   *)
(* an externalizable class; for some runs a second description of the same *)
(* class (otherTr), and the one of the documented ResultSet example.       *)
(***************************************************************************)
EXTENDS Amf3RoundTrip, TLC

CONSTANTS o1, o2, o3, empty, acName, s1, s2, cls, ext, null, defaultTr, acTr,
          clsTr, extTr, otherTr, resultSetTr, noName, nothing

MCObj2 == {o1, o2}
MCObj3 == {o1, o2, o3}
AnyOrder == Permutations(Obj)
MCStrings == {empty, acName, s1, s2, cls, ext}

MCClassName == (defaultTr :> noName) @@ (acTr :> acName) @@ (clsTr :> cls)
               @@ (extTr :> ext) @@ (otherTr :> cls) @@ (resultSetTr :> acName)
MCMembers == (defaultTr :> <<>>) @@ (acTr :> <<>>) @@ (clsTr :> <<s1>>)
             @@ (extTr :> <<>>) @@ (otherTr :> <<>>) @@ (resultSetTr :> <<>>)
MCDynamic == (defaultTr :> TRUE) @@ (acTr :> FALSE) @@ (clsTr :> FALSE)
             @@ (extTr :> FALSE) @@ (otherTr :> TRUE) @@ (resultSetTr :> FALSE)
MCExternal == (defaultTr :> FALSE) @@ (acTr :> TRUE) @@ (clsTr :> FALSE)
              @@ (extTr :> TRUE) @@ (otherTr :> FALSE) @@ (resultSetTr :> TRUE)

MCExtSize == [s \in Strings |-> IF s = ext THEN 2 ELSE 1]
OwnKey == [s \in Strings |-> s]
\* s2 is s1, a NUL byte and more: strdup and strcmp stop at the NUL.
UpToNul == [s \in Strings |-> IF s = s2 THEN s1 ELSE s]
ClassNameOf == [tr \in Traits |-> MCClassName[tr]]
MembersOf == [tr \in Traits |-> MCMembers[tr]]
DynamicOf == [tr \in Traits |-> MCDynamic[tr]]
ExternalOf == [tr \in Traits |-> MCExternal[tr]]
=============================================================================
