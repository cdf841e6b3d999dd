----------------------------- MODULE Amf3Client -----------------------------
(***************************************************************************)
(* What a Flash client writes and RocketAMF reads but never writes: XML,   *)
(* arrays with entries before their values, dictionaries, and vectors of   *)
(* objects.  A client counts objects, strings and traits as the serializer *)
(* of RocketAMF does, whose other actions stand for the client's as well.  *)
(* All of this is the reverse of what deserializer.c reads.                *)
(***************************************************************************)
EXTENDS Amf3Writer

CONSTANTS
  ClientKinds,  \* what occurs of "xml", "named", "dict", "vector"
  XmlSizes,     \* of XML: 0 stands for the empty string
  ClientLen,    \* bound: entries of dictionaries, values after entries, items of vectors
  TypeName      \* the type that vectors of objects name

ASSUME ClientAssumption ==
  /\ ClientKinds \subseteq {"xml", "named", "dict", "vector"}
  /\ XmlSizes \subseteq Nat /\ ClientLen \in Nat
  /\ TypeName \in Strings

\* o is met and its header written; what follows is owed by frames.
Begin(o, kind, tok, frames) ==
  /\ FirstTime(o)
  /\ Emit(tok)
  /\ Remember(o, kind)
  /\ heap' = Meet(o, kind, None)
  /\ stack' = Append(Below, Served) \o frames
  /\ UNCHANGED <<strCache, strIndex, traitCache, traitIndex>>

ClientXml(o, size) ==
  /\ "xml" \in ClientKinds
  /\ Begin(o, "leaf", XmlTok(size), <<>>)

ClientNamedArray(o, len) ==
  /\ "named" \in ClientKinds
  /\ Begin(o, "hash", NamedArrayTok(len), <<NewFrame(o, <<>>, FALSE, len, <<>>, FALSE),
                                           NewFrame(o, <<>>, FALSE, 0, <<>>, TRUE)>>)

ClientDict(o, len) ==
  /\ "dict" \in ClientKinds
  /\ Begin(o, "dict", DictTok(len), <<NewFrame(o, <<>>, FALSE, 2 * len, <<>>, FALSE)>>)

ClientVector(o, len) ==
  /\ "vector" \in ClientKinds
  /\ Begin(o, "vector", VectorTok(len),
           <<NewFrame(o, <<TypeName>>, FALSE, len, <<>>, FALSE)>>)

\* An array without any entry is written by WriteArray.
OwesName == InDynamicPart /\ heap[Top.obj].kind = "hash" /\ heap[Top.obj].kids = <<>>

ClientNext ==
  IF OwesName THEN \E k \in Keys \ {Empty} : WriteKey(k)
  ELSE \/ WriterNext
       \/ \E o \in Obj, size \in XmlSizes : ClientXml(o, size)
       \/ \E o \in Obj, len \in 0 .. ClientLen :
            ClientNamedArray(o, len) \/ ClientDict(o, len) \/ ClientVector(o, len)
=============================================================================
