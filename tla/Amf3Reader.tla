----------------------------- MODULE Amf3Reader -----------------------------
(***************************************************************************)
(* One call of Deserializer#deserialize(3, source): des3_deserialize and   *)
(* the des3_read_* functions of ext/rocketamf_ext/deserializer.c, and      *)
(* their amf3_read_* twins in lib/rocketamf/pure/deserializer.rb.  A step  *)
(* reads one token; the recursion is an explicit stack, one frame per      *)
(* active read function.                                                   *)
(*                                                                         *)
(* The two implementations differ where a reference points past the end of *)
(* its table: the C code raises RangeError, the Ruby code indexes an array *)
(* and goes on with nil.                                                   *)
(*                                                                         *)
(* As in Amf3Writer, an operator just before another one and named after   *)
(* it is that operator with a slip in it, used by nothing.                 *)
(***************************************************************************)
EXTENDS Amf3Stream

VARIABLES
  pos,       \* index of the next token
  rstack,    \* the active read functions, the innermost last
  objTab,    \* obj_cache: the entry of each index, a node
  strTab,    \* str_cache
  traitTab,  \* trait_cache
  made,      \* the objects created so far, with what they hold
  rstat      \* "idle", "run", "done" or "error"

readerVars == <<pos, rstack, objTab, strTab, traitTab, made, rstat>>
tables == <<objTab, strTab, traitTab>>

(***************************************************************************)
(* A frame: what the function reads (names of a trait description, the     *)
(* inner array of a collection, the values of an object or array, entries  *)
(* before the values of an array, the type of a vector), the node it       *)
(* fills, the traits token whose names it reads, the names read, the       *)
(* values and members to come, and the property name just read.            *)
(***************************************************************************)
ReaderValue == Nat \cup Strings \cup Scalars \cup {None}
ReadFrame == [what : {"names", "inner", "values", "entries", "type"}, node : ReaderValue,
              hdr : Traits \cup {None}, names : Seq(Strings \cup {None}),
              left : Nat, members : Seq(Strings \cup {None}), dyn : BOOLEAN,
              key : Strings \cup {None}]

ValuesFrame(node, left) ==
  [what |-> "values", node |-> node, hdr |-> None, names |-> <<>>, left |-> left,
   members |-> <<>>, dyn |-> FALSE, key |-> None]

MadeNode(kind, cls) == [kind |-> kind, cls |-> cls, kids |-> <<>>]

ReaderInit ==
  /\ pos = 1
  /\ rstack = <<ValuesFrame(1, 1)>>
  /\ objTab = <<>> /\ strTab = <<>> /\ traitTab = <<>>
  /\ made = <<MadeNode("root", None)>>
  /\ rstat = "idle"

-----------------------------------------------------------------------------
RTop == rstack[Len(rstack)]
RBelow == SubSeq(rstack, 1, Len(rstack) - 1)

Tok == stream[pos]
More == rstat = "run" /\ pos <= Len(stream)
Advance == pos' = pos + 1 /\ UNCHANGED <<stream, rstat>>

\* The innermost function has called des3_deserialize.
ExpectsValue ==
  More /\ rstack # <<>> /\ RTop.what \notin {"names", "type"} /\ RTop.left > 0
ExpectsName == More /\ rstack # <<>> /\ RTop.what = "names"
ExpectsType == More /\ rstack # <<>> /\ RTop.what = "type"
ExpectsKey ==
  More /\ rstack # <<>> /\ RTop.what \in {"values", "entries"} /\ RTop.left = 0 /\ RTop.dyn

KeyOf(f, done) ==
  IF f.key # None THEN f.key
  ELSE IF done < Len(f.members) THEN f.members[done + 1] ELSE None

\* The value v is returned to frame f: kept as the inner array of a
\* collection, or stored in the object f fills.
Taken(f, v) ==
  IF f.what = "inner" THEN [f EXCEPT !.left = 0, !.node = v]
  ELSE [f EXCEPT !.left = @ - 1, !.key = None]

Stored(f, v) ==
  IF f.what = "inner" THEN made
  ELSE [made EXCEPT ![f.node].kids =
          Append(@, [key |-> KeyOf(f, Len(made[f.node].kids)), val |-> v])]

Deliver(v) ==
  /\ rstack' = Append(RBelow, Taken(RTop, v))
  /\ made' = Stored(RTop, v)

-----------------------------------------------------------------------------
(***************************************************************************)
(* des3_read_string                                                        *)
(***************************************************************************)
IsString(tok) == tok.t \in {"empty", "str", "strref"}
StringBeyondEnd(tok) == tok.t = "strref" /\ tok.n >= Len(strTab)
StringRead(tok) ==
  IF tok.t = "strref"
  THEN IF tok.n < Len(strTab) THEN strTab[tok.n + 1] ELSE None
  ELSE tok.v
StringTableAfterAny(tok) ==
  IF tok.t \in {"str", "strref"} THEN Append(strTab, tok.v) ELSE strTab
StringTableAfter(tok) == IF tok.t = "str" THEN Append(strTab, tok.v) ELSE strTab

\* RangeError in C; the Ruby code carries on with nil.
Unusable(tok) == IsString(tok) /\ StringBeyondEnd(tok) /\ Native

ReadScalar ==
  /\ ExpectsValue
  /\ Tok.t = "scalar"
  /\ Deliver(Tok.v)
  /\ Advance
  /\ UNCHANGED tables

ReadString ==
  /\ ExpectsValue
  /\ IsString(Tok) /\ Tok.m /\ ~Unusable(Tok)
  /\ strTab' = StringTableAfter(Tok)
  /\ Deliver(StringRead(Tok))
  /\ Advance
  /\ UNCHANGED <<objTab, traitTab>>

(***************************************************************************)
(* The branch every des3_read_* function takes on a header with a low 0.   *)
(***************************************************************************)
ObjectAtFromOne(n) == IF n \in 1 .. Len(objTab) THEN objTab[n] ELSE None
ObjectAt(n) == IF n < Len(objTab) THEN objTab[n + 1] ELSE None

ReadReference ==
  /\ ExpectsValue
  /\ Tok.t = "ref"
  /\ Tok.n < Len(objTab) \/ ~Native
  /\ Deliver(ObjectAt(Tok.n))
  /\ Advance
  /\ UNCHANGED tables

\* Dates, byte arrays and vectors of numbers are entered; XML if it has text.
Entered(tok) == tok.t = "xml" => tok.n > 0

ReadLeaf ==
  /\ ExpectsValue
  /\ Tok.t \in {"leaf", "xml"}
  /\ LET node == Len(made) + 1
     IN  /\ objTab' = IF Entered(Tok) THEN Append(objTab, node) ELSE objTab
         /\ made' = Append(Stored(RTop, node), MadeNode("leaf", None))
         /\ rstack' = Append(RBelow, Taken(RTop, node))
  /\ Advance
  /\ UNCHANGED <<strTab, traitTab>>

\* A new object of a kind is entered, then filled by frames.
NewNode == Len(made) + 1
Open(kind, frames) ==
  /\ objTab' = Append(objTab, NewNode)
  /\ made' = Append(made, MadeNode(kind, None))
  /\ rstack' = rstack \o frames
  /\ Advance
  /\ UNCHANGED <<strTab, traitTab>>

ReadArray == ExpectsValue /\ Tok.t = "array" /\ Open("array", <<ValuesFrame(NewNode, Tok.n)>>)

\* Values without a name come after the entries, under the index of their turn.
ReadNamedArray ==
  /\ ExpectsValue /\ Tok.t = "named"
  /\ Open("hash", <<ValuesFrame(NewNode, Tok.n),
                    [ValuesFrame(NewNode, 0) EXCEPT !.what = "entries", !.dyn = TRUE]>>)

ReadDict == ExpectsValue /\ Tok.t = "dict" /\ Open("dict", <<ValuesFrame(NewNode, 2 * Tok.n)>>)

ReadVector ==
  /\ ExpectsValue /\ Tok.t = "vector"
  /\ Open("array", <<[ValuesFrame(NewNode, Tok.n) EXCEPT !.what = "type"]>>)

TypeNameDropped(tok) == strTab
\* "Class name of objects - ignored", but it is a string like any other.
TypeNameKept(tok) == StringTableAfter(tok)
ReadTypeName ==
  /\ ExpectsType
  /\ IsString(Tok) /\ ~Tok.m /\ ~Unusable(Tok)
  /\ strTab' = TypeNameKept(Tok)
  /\ rstack' = Append(RBelow, [RTop EXCEPT !.what = "values"])
  /\ Advance
  /\ UNCHANGED <<objTab, traitTab, made>>

(***************************************************************************)
(* The tail of des3_read_object, with the traits known: an ArrayCollection *)
(* is replaced by its inner array, anything else is created, entered in    *)
(* the object table, and filled.                                           *)
(***************************************************************************)
BeginObject(tr, below) ==
  IF tr.cls = ACName
  THEN /\ rstack' = Append(below, [ValuesFrame(None, 1) EXCEPT !.what = "inner"])
       /\ UNCHANGED <<objTab, made>>
  ELSE LET node == Len(made) + 1
           owed == IF ~tr.ext THEN Len(tr.members)
                   ELSE IF tr.cls \in Strings THEN ExtSize[tr.cls] ELSE 0
       IN  /\ objTab' = Append(objTab, node)
           /\ made' = Append(made, MadeNode("object", tr.cls))
           /\ rstack' = Append(below,
                [ValuesFrame(node, owed) EXCEPT
                   !.members = IF tr.ext THEN <<>> ELSE tr.members,
                   !.dyn = tr.dyn /\ ~tr.ext])

ReadTraitReference ==
  /\ ExpectsValue
  /\ Tok.t = "traitref"
  /\ Tok.n < Len(traitTab)
  /\ BeginObject(traitTab[Tok.n + 1], rstack)
  /\ Advance
  /\ UNCHANGED <<strTab, traitTab>>

ReadTraits ==
  /\ ExpectsValue
  /\ Tok.t = "traits"
  /\ rstack' = Append(rstack, [ValuesFrame(None, Tok.n + 1) EXCEPT
                                 !.what = "names", !.hdr = Tok.v])
  /\ Advance
  /\ UNCHANGED <<tables, made>>

\* A class or member name; with the last one the traits enter their table.
ReadName ==
  /\ ExpectsName
  /\ IsString(Tok) /\ ~Tok.m /\ ~Unusable(Tok)
  /\ strTab' = StringTableAfter(Tok)
  /\ LET names == Append(RTop.names, StringRead(Tok))
         tr == [cls |-> Head(names), members |-> Tail(names),
                dyn |-> Dynamic[RTop.hdr], ext |-> External[RTop.hdr]]
     IN  IF RTop.left > 1
         THEN /\ rstack' = Append(RBelow, [RTop EXCEPT !.names = names, !.left = @ - 1])
              /\ UNCHANGED <<objTab, traitTab, made>>
         ELSE /\ traitTab' = Append(traitTab, tr)
              /\ BeginObject(tr, RBelow)
  /\ Advance

\* The next dynamic property or entry of an array; an empty name ends them.
\* In Ruby so does a missing one, but not in an array.
NotAName == RTop.what = "entries" /\ IsString(Tok) /\ StringRead(Tok) = None
AfterKeys == IF RTop.what = "entries" THEN RBelow ELSE Append(RBelow, [RTop EXCEPT !.dyn = FALSE])
ReadKey ==
  /\ ExpectsKey
  /\ IsString(Tok) /\ ~Tok.m /\ ~Unusable(Tok) /\ ~NotAName
  /\ strTab' = StringTableAfter(Tok)
  /\ LET k == StringRead(Tok)
     IN  rstack' = IF k \in {Empty, None} THEN AfterKeys
                   ELSE Append(RBelow, [RTop EXCEPT !.left = 1, !.key = k])
  /\ Advance
  /\ UNCHANGED <<objTab, traitTab, made>>

ObjTabAfterReturnOnce(f) == objTab
\* "Add again for ArrayCollection source array"
ObjTabAfterReturn(f) == IF f.what = "inner" THEN Append(objTab, f.node) ELSE objTab

CompleteEarly(f) == f.what \notin {"names", "type"} /\ f.left = 0
Complete(f) == f.what \notin {"names", "type"} /\ f.left = 0 /\ ~f.dyn

ReadReturn ==
  /\ rstat = "run"
  /\ Len(rstack) > 1 /\ Complete(RTop)
  /\ objTab' = ObjTabAfterReturn(RTop)
  /\ LET caller == rstack[Len(rstack) - 1]
     IN  /\ made' = Stored(caller, RTop.node)
         /\ rstack' = Append(SubSeq(rstack, 1, Len(rstack) - 2), Taken(caller, RTop.node))
  /\ UNCHANGED <<pos, strTab, traitTab, stream, rstat>>

ReadDone ==
  /\ rstat = "run"
  /\ Len(rstack) = 1 /\ Complete(RTop)
  /\ rstat' = "done"
  /\ UNCHANGED <<pos, rstack, tables, made, stream>>

-----------------------------------------------------------------------------
(***************************************************************************)
(* The reader raises: on a reference past the end of its table (C), on     *)
(* traits past the end (both: Ruby calls [] on nil), on bytes that are not *)
(* what it is looking for, and at the end of the source.                   *)
(***************************************************************************)
BeyondEnd ==
  \/ Tok.t = "ref" /\ Tok.n >= Len(objTab) /\ Native
  \/ Tok.t = "traitref" /\ Tok.n >= Len(traitTab)
  \/ Unusable(Tok)
  \/ ExpectsKey /\ NotAName

Misplaced ==
  IF ExpectsValue THEN IsString(Tok) /\ ~Tok.m ELSE ~(IsString(Tok) /\ ~Tok.m)

ReadRaises ==
  /\ ExpectsValue \/ ExpectsName \/ ExpectsType \/ ExpectsKey
  /\ BeyondEnd \/ Misplaced
  /\ rstat' = "error"
  /\ UNCHANGED <<pos, rstack, tables, made, stream>>

ReadPastEnd ==
  /\ rstat = "run"
  /\ pos > Len(stream) /\ ~Complete(RTop)
  /\ rstat' = "error"
  /\ UNCHANGED <<pos, rstack, tables, made, stream>>

ReaderNext ==
  \/ ReadScalar \/ ReadString \/ ReadReference \/ ReadLeaf \/ ReadArray
  \/ ReadNamedArray \/ ReadDict \/ ReadVector \/ ReadTypeName
  \/ ReadTraitReference \/ ReadTraits \/ ReadName \/ ReadKey
  \/ ReadReturn \/ ReadDone \/ ReadRaises \/ ReadPastEnd

-----------------------------------------------------------------------------
\* Every variable of the reader has its type.
TraitRecord == [cls : Strings \cup {None}, members : Seq(Strings \cup {None}),
                dyn : BOOLEAN, ext : BOOLEAN]
ReadNode == [kind : {"root", "leaf", "array", "object", "hash", "dict"}, cls : Strings \cup {None},
             kids : Seq([key : Strings \cup {None}, val : ReaderValue])]
ReaderTypeOK ==
  /\ pos \in Nat \ {0}
  /\ rstack \in Seq(ReadFrame)
  /\ objTab \in Seq(ReaderValue)
  /\ strTab \in Seq(Strings)
  /\ traitTab \in Seq(TraitRecord)
  /\ made \in Seq(ReadNode)
  /\ rstat \in {"idle", "run", "done", "error"}
=============================================================================
