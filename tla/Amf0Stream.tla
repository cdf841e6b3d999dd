----------------------------- MODULE Amf0Stream -----------------------------
(***************************************************************************)
(* The AMF0 byte stream as a sequence of tokens, one for every unit the    *)
(* reader consumes as a whole: a type marker with what follows it up to    *)
(* the first nested value, or a property name.  AMF0 has no string or      *)
(* trait table; objects and arrays are referred to by a 16 bit index.      *)
(*                                                                         *)
(* A value may be written in AMF3 after the marker 0x11; Amf3Stream        *)
(* describes AMF3 in full, here such a part only has arrays, references    *)
(* and scalars: what matters is in which table its references look.        *)
(***************************************************************************)
EXTENDS Integers, Sequences

CONSTANTS
  Obj,         \* identities of the arrays, hashes and objects
  Scalars,     \* everything AMF0 never caches: numbers, strings, dates, null
  Names,       \* property names
  Empty,       \* the empty name, a member of Names
  ClassNames,  \* mapped class names
  None,        \* nothing; as a class name: an anonymous object
  RefLimit,    \* the largest index a reference can hold, 0xffff
  Native       \* TRUE: the C extension, FALSE: pure Ruby

ASSUME StreamAssumption ==
  /\ Empty \in Names
  /\ None \notin Obj \cup Scalars \cup Names \cup ClassNames
  /\ Obj \cap Scalars = {}
  /\ RefLimit \in Nat
  /\ Native \in BOOLEAN

VARIABLE stream

\* t and n: the kind and its length or index; m: the AMF version it is in.
Token ==
  [t : {"scalar"}, m : {0, 3}, n : {0}, v : Scalars]
  \cup [t : {"ref", "array"}, m : {0, 3}, n : Nat, v : {None}]
  \cup [t : {"hash", "end", "avmplus"}, m : {0}, n : {0}, v : {None}]
  \cup [t : {"object"}, m : {0}, n : {0}, v : ClassNames \cup {None}]
  \cup [t : {"key"}, m : {0}, n : {0}, v : Names]

ScalarTok(m, v)   == [t |-> "scalar", m |-> m, n |-> 0, v |-> v]
RefTok(m, i)      == [t |-> "ref", m |-> m, n |-> i, v |-> None]
ArrayTok(m, len)  == [t |-> "array", m |-> m, n |-> len, v |-> None]
ObjectTok(cls)    == [t |-> "object", m |-> 0, n |-> 0, v |-> cls]
HashTok           == [t |-> "hash", m |-> 0, n |-> 0, v |-> None]
KeyTok(k)         == [t |-> "key", m |-> 0, n |-> 0, v |-> k]
EndTok            == [t |-> "end", m |-> 0, n |-> 0, v |-> None]
SwitchTok         == [t |-> "avmplus", m |-> 0, n |-> 0, v |-> None]
=============================================================================
