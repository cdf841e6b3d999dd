----------------------------- MODULE Amf3Stream -----------------------------
(***************************************************************************)
(* The AMF3 byte stream as the serializer writes it and the deserializer   *)
(* reads it: a sequence of tokens, one for every unit the reader consumes  *)
(* as a whole.  A token keeps what decides how the reading goes on (inline *)
(* or reference, index, length, trait header, name) and leaves out how     *)
(* numbers, dates and characters are laid out in bytes.                    *)
(*                                                                         *)
(* The constants describe what a program may serialize: object identities, *)
(* strings, scalars, and the trait descriptions (class name, sealed        *)
(* members, dynamic and externalizable flags) an object is written with.   *)
(***************************************************************************)
EXTENDS Integers, Sequences

CONSTANTS
  Obj,        \* identities of the Ruby objects that may be written
  Strings,    \* strings: values, property names, class names
  Texts,      \* the strings that occur as values, a part of Strings
  Empty,      \* the empty string, a member of Strings
  ACName,     \* "flex.messaging.io.ArrayCollection", a member of Strings
  Scalars,    \* null, booleans, numbers: written inline, never cached
  Traits,     \* the trait descriptions in use
  Default,    \* the traits of a plain hash or an unmapped object
  ACTraits,   \* the traits an ArrayCollection is written with
  ClassName,  \* [Traits -> Strings \cup {NoName}]
  Members,    \* [Traits -> Seq(Strings)], the sealed members
  Dynamic,    \* [Traits -> BOOLEAN]
  External,   \* [Traits -> BOOLEAN]
  ExtSize,    \* [Strings -> Nat], values write_external writes per class
  NoName,     \* a nil :class_name in a traits hash
  None,       \* nothing
  Native      \* TRUE: the C extension, FALSE: pure Ruby

ASSUME StreamAssumption ==
  /\ Empty \in Strings
  /\ ACName \in Strings \ {Empty}
  /\ Texts \subseteq Strings
  /\ NoName \notin Strings
  /\ None \notin Strings \cup Scalars \cup Obj
  /\ Strings \cap Scalars = {} /\ Strings \cap Obj = {} /\ Scalars \cap Obj = {}
  /\ Default \in Traits /\ ACTraits \in Traits
  /\ ClassName \in [Traits -> Strings \cup {NoName}]
  /\ Members \in [Traits -> Seq(Strings)]
  /\ Dynamic \in [Traits -> BOOLEAN]
  /\ External \in [Traits -> BOOLEAN]
  /\ ExtSize \in [Strings -> Nat]
  /\ ClassName[Default] = NoName /\ Members[Default] = <<>>
  /\ Dynamic[Default] /\ ~External[Default]
  /\ ClassName[ACTraits] = ACName /\ Members[ACTraits] = <<>>
  /\ External[ACTraits] /\ ~Dynamic[ACTraits]
  /\ Native \in BOOLEAN

VARIABLE stream

(***************************************************************************)
(* Tokens.  n is an index, a length or a member count; v the payload; m    *)
(* tells a string written as a value (after its 0x06 marker) from one      *)
(* written bare, as a class name, a member name or a property name.        *)
(***************************************************************************)
Token ==
  [t : {"scalar"}, n : {0}, v : Scalars, m : {TRUE}]
  \cup [t : {"empty"}, n : {0}, v : {Empty}, m : BOOLEAN]
  \cup [t : {"str"}, n : {0}, v : Strings \ {Empty}, m : BOOLEAN]
  \cup [t : {"strref"}, n : Nat, v : {None}, m : BOOLEAN]
  \cup [t : {"ref", "leaf", "array", "traitref", "xml", "named", "dict", "vector"},
        n : Nat, v : {None}, m : {TRUE}]
  \cup [t : {"traits"}, n : Nat, v : Traits, m : {TRUE}]

ScalarTok(v)      == [t |-> "scalar", n |-> 0, v |-> v, m |-> TRUE]
EmptyTok(m)       == [t |-> "empty", n |-> 0, v |-> Empty, m |-> m]
StrTok(s, m)      == [t |-> "str", n |-> 0, v |-> s, m |-> m]
StrRefTok(i, m)   == [t |-> "strref", n |-> i, v |-> None, m |-> m]
RefTok(i)         == [t |-> "ref", n |-> i, v |-> None, m |-> TRUE]
LeafTok           == [t |-> "leaf", n |-> 0, v |-> None, m |-> TRUE]
ArrayTok(len)     == [t |-> "array", n |-> len, v |-> None, m |-> TRUE]
\* What RocketAMF reads and never writes: XML and how long it is (empty or
\* not), an array with entries before its len values, a dictionary of len
\* pairs, a vector of len objects.
XmlTok(len)       == [t |-> "xml", n |-> len, v |-> None, m |-> TRUE]
NamedArrayTok(len) == [t |-> "named", n |-> len, v |-> None, m |-> TRUE]
DictTok(len)      == [t |-> "dict", n |-> len, v |-> None, m |-> TRUE]
VectorTok(len)    == [t |-> "vector", n |-> len, v |-> None, m |-> TRUE]
TraitRefTok(i)    == [t |-> "traitref", n |-> i, v |-> None, m |-> TRUE]
TraitsTok(tr)     == [t |-> "traits", n |-> Len(Members[tr]), v |-> tr, m |-> TRUE]
=============================================================================
