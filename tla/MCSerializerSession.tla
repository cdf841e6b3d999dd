------------------------- MODULE MCSerializerSession -------------------------
(***************************************************************************)
(* Instances of SerializerSession: one object the caller keeps, one with   *)
(* an encode_amf method, and objects that getters make.                    *)
(***************************************************************************)
EXTENDS SerializerSession

CONSTANTS kept, custom, temp1, temp2, home1, home2, home3

MCHome == [o \in Kept |-> IF o = kept THEN home1 ELSE home2]
=============================================================================
