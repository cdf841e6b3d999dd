----------------------------- MODULE Amf3Writer -----------------------------
(***************************************************************************)
(* One top-level call of Serializer#serialize(3, obj): ser3_serialize and  *)
(* the ser3_write_* functions of ext/rocketamf_ext/serializer.c, and their *)
(* amf3_* twins in lib/rocketamf/pure/serializer.rb.                       *)
(*                                                                         *)
(* The recursion is an explicit stack, one frame per active                *)
(* ser3_write_array or ser3_write_object (or write_external callback); a   *)
(* step writes one token.  The object graph is chosen while it is written: *)
(* the contents of an object are looked at once, when it is first met      *)
(* (later it is a reference), so choosing them then is the same as         *)
(* choosing the whole graph beforehand.                                    *)
(*                                                                         *)
(* An operator just before another one, named after it, is the same        *)
(* operator with a slip in it (ObjSlotsOne and ObjSlots); nothing uses it: *)
(* put in place of the other, it breaks one of the properties.             *)
(***************************************************************************)
EXTENDS Amf3Stream

CONSTANTS
  Root,        \* stands for the caller that asked for one value
  Keys,        \* the dynamic property names in use
  DefaultKey,  \* the trait cache key "__default__"
  StrKey,      \* [Strings -> StrKeys]: what the string cache compares
  StrKeys,
  MaxLen,      \* bound: array length and number of dynamic properties
  NestedInAC   \* may an ArrayCollection hold objects not written before?

ASSUME WriterAssumption ==
  /\ Root \notin Obj
  /\ Keys \subseteq Strings
  /\ StrKey \in [Strings -> StrKeys]
  /\ MaxLen \in Nat
  /\ NestedInAC \in BOOLEAN

VARIABLES
  objCache, objIndex,      \* ser->obj_cache, ser->obj_index
  strCache, strIndex,      \* ser->str_cache, ser->str_index
  traitCache, traitIndex,  \* ser->trait_cache, ser->trait_index
  stack,                   \* the active write functions, the innermost last
  heap,                    \* the object graph, as far as it has been looked at
  met                      \* number of entries of heap that are in use

writerVars == <<objCache, objIndex, strCache, strIndex, traitCache, traitIndex,
                stack, heap, met, stream>>
caches == <<objCache, objIndex, strCache, strIndex, traitCache, traitIndex>>

NotCached == -1
TraitKeys == Strings \cup {DefaultKey, NoName}

(***************************************************************************)
(* A frame: the object being written, the names still to be written (class *)
(* name and members of traits that are not in the trait cache), whether    *)
(* the source array header of an ArrayCollection is still to come, how     *)
(* many values are still owed, the sealed members, whether dynamic         *)
(* properties may follow, and the property name just written.              *)
(***************************************************************************)
Frame == [obj : Obj \cup {Root}, names : Seq(Strings), src : BOOLEAN, len : Nat,
          left : Nat, members : Seq(Strings), dyn : BOOLEAN,
          key : Strings \cup {None}]

\* The last three are written by others only.
Kinds == {"unmet", "root", "leaf", "array", "ac", "object", "hash", "dict", "vector"}
Values == Obj \cup Strings \cup Scalars
Kid == [key : Strings \cup {None}, val : Values]
\* What an object turned out to be and to hold, as how many'th it was met, and
\* inside how many ArrayCollections.
Node == [kind : Kinds, tr : Traits \cup {None}, kids : Seq(Kid), nth : Nat, depth : Nat]

Unmet == [kind |-> "unmet", tr |-> None, kids |-> <<>>, nth |-> 0, depth |-> 0]
NewFrame(o, names, src, len, members, dyn) ==
  [obj |-> o, names |-> names, src |-> src, len |-> len, left |-> len,
   members |-> members, dyn |-> dyn, key |-> None]

WriterInit ==
  /\ stream = <<>>
  /\ objCache = [o \in Obj |-> NotCached] /\ objIndex = 0
  /\ strCache = [k \in StrKeys |-> NotCached] /\ strIndex = 0
  /\ traitCache = [k \in TraitKeys |-> NotCached] /\ traitIndex = 0
  /\ stack = <<NewFrame(Root, <<>>, FALSE, 1, <<>>, FALSE)>>
  /\ heap = [o \in Obj \cup {Root} |->
               IF o = Root THEN [Unmet EXCEPT !.kind = "root", !.nth = 1] ELSE Unmet]
  /\ met = 1

-----------------------------------------------------------------------------
(***************************************************************************)
(* Helpers.                                                                *)
(***************************************************************************)
Top == stack[Len(stack)]
Below == SubSeq(stack, 1, Len(stack) - 1)
Busy == stack # <<>>

\* The innermost function is about to call ser3_serialize on its next value.
WantsValue == Busy /\ Top.names = <<>> /\ ~Top.src /\ Top.left > 0

Emit(tok) == stream' = Append(stream, tok)

\* The property the next value belongs to: the dynamic name just written, or
\* the next sealed member.
NextKey(f, done) ==
  IF f.key # None THEN f.key
  ELSE IF done < Len(f.members) THEN f.members[done + 1] ELSE None

Served == [Top EXCEPT !.left = @ - 1, !.key = None]

\* The graph after the current slot is found to hold v.
Holding(v) ==
  [heap EXCEPT ![Top.obj].kids =
     Append(@, [key |-> NextKey(Top, Len(heap[Top.obj].kids)), val |-> v])]

\* Inside how many ArrayCollections the next value is.
DepthHere == heap[Top.obj].depth + (IF heap[Top.obj].kind = "ac" THEN 1 ELSE 0)

\* The graph after the slot is found to hold o, met for the first time.
Meet(o, kind, tr) ==
  [Holding(o) EXCEPT ![o] = [kind |-> kind, tr |-> tr, kids |-> <<>>,
                             nth |-> met + 1, depth |-> DepthHere]]

ObjSlotsOne(kind) == 1
\* An ArrayCollection takes a second index for its source array.
ObjSlots(kind) == IF kind = "ac" THEN 2 ELSE 1

RememberOnly(o, kind) ==
  /\ objCache' = [objCache EXCEPT ![o] = objIndex]
  /\ objIndex' = objIndex
Remember(o, kind) ==
  /\ objCache' = [objCache EXCEPT ![o] = objIndex]
  /\ objIndex' = objIndex + ObjSlots(kind)

(***************************************************************************)
(* ser3_write_utf8vr: the empty string is never cached, any other string   *)
(* is a reference once a string with the same key has been written.        *)
(***************************************************************************)
WriteUtf8vr(s, m) ==
  \/ /\ s = Empty
     /\ Emit(EmptyTok(m))
     /\ UNCHANGED <<strCache, strIndex>>
  \/ /\ s # Empty
     /\ strCache[StrKey[s]] # NotCached
     /\ Emit(StrRefTok(strCache[StrKey[s]], m))
     /\ UNCHANGED <<strCache, strIndex>>
  \/ /\ s # Empty
     /\ strCache[StrKey[s]] = NotCached
     /\ Emit(StrTok(s, m))
     /\ strCache' = [strCache EXCEPT ![StrKey[s]] = strIndex]
     /\ strIndex' = strIndex + 1

\* Traits are looked up by class name alone; traits given without a class
\* name are written inline every time and never counted.
TraitKeyOfClass(tr) == ClassName[tr]
TraitKey(tr) == IF tr = Default THEN DefaultKey ELSE ClassName[tr]
WireName(tr) == IF ClassName[tr] = NoName THEN Empty ELSE ClassName[tr]

-----------------------------------------------------------------------------
(***************************************************************************)
(* ser3_serialize, by the kind of the value the slot turns out to hold.    *)
(***************************************************************************)
WriteScalar(v) ==
  /\ WantsValue
  /\ Emit(ScalarTok(v))
  /\ heap' = Holding(v)
  /\ stack' = Append(Below, Served)
  /\ UNCHANGED <<caches, met>>

WriteString(s) ==
  /\ WantsValue
  /\ WriteUtf8vr(s, TRUE)
  /\ heap' = Holding(s)
  /\ stack' = Append(Below, Served)
  /\ UNCHANGED <<objCache, objIndex, traitCache, traitIndex, met>>

\* Every ser3_write_* function begins with this lookup.
WriteReference(o) ==
  /\ WantsValue
  /\ objCache[o] # NotCached
  /\ Emit(RefTok(objCache[o]))
  /\ heap' = Holding(o)
  /\ stack' = Append(Below, Served)
  /\ UNCHANGED <<caches, met>>

\* o is written inline: it is new to the object cache.
FirstTime(o) ==
  /\ WantsValue
  /\ objCache[o] = NotCached
  /\ NestedInAC \/ heap[Top.obj].kind # "ac"
  /\ met' = met + 1

\* ser3_write_time, ser3_write_date and ser3_write_byte_array
WriteLeaf(o) ==
  /\ FirstTime(o)
  /\ Emit(LeafTok)
  /\ Remember(o, "leaf")
  /\ heap' = Meet(o, "leaf", None)
  /\ stack' = Append(Below, Served)
  /\ UNCHANGED <<strCache, strIndex, traitCache, traitIndex>>

WriteArray(o, len) ==
  /\ FirstTime(o)
  /\ Emit(ArrayTok(len))
  /\ Remember(o, "array")
  /\ heap' = Meet(o, "array", None)
  /\ stack' = Append(Append(Below, Served),
                     NewFrame(o, <<>>, FALSE, len, <<>>, FALSE))
  /\ UNCHANGED <<strCache, strIndex, traitCache, traitIndex>>

WriteTraitsUncounted(tr) ==
  LET k == TraitKey(tr)
      known == k # NoName /\ traitCache[k] # NotCached
  IN  /\ Emit(IF known THEN TraitRefTok(traitCache[k]) ELSE TraitsTok(tr))
      /\ traitCache' = IF known \/ k = NoName THEN traitCache
                       ELSE [traitCache EXCEPT ![k] = traitIndex]
      /\ traitIndex' = traitIndex

\* The traits part of ser3_write_array (for a collection) and of
\* ser3_write_object: a reference when the class name is known, otherwise the
\* header now and the names in the next steps.
WriteTraits(tr) ==
  LET k == TraitKey(tr)
      known == k # NoName /\ traitCache[k] # NotCached
  IN  /\ Emit(IF known THEN TraitRefTok(traitCache[k]) ELSE TraitsTok(tr))
      /\ traitCache' = IF known \/ k = NoName THEN traitCache
                       ELSE [traitCache EXCEPT ![k] = traitIndex]
      /\ traitIndex' = IF known \/ k = NoName THEN traitIndex ELSE traitIndex + 1

NamesToWrite(tr) ==
  IF TraitKey(tr) # NoName /\ traitCache[TraitKey(tr)] # NotCached
  THEN <<>> ELSE <<WireName(tr)>> \o Members[tr]

WriteArrayCollection(o, len) ==
  /\ FirstTime(o)
  /\ WriteTraits(ACTraits)
  /\ Remember(o, "ac")
  /\ heap' = Meet(o, "ac", None)
  /\ stack' = Append(Append(Below, Served),
                     NewFrame(o, NamesToWrite(ACTraits), TRUE, len, <<>>, FALSE))
  /\ UNCHANGED <<strCache, strIndex>>

\* tr is Default or the traits of the mapped class, or the hash a custom
\* encode_amf passes to write_object.
WriteObject(o, tr) ==
  /\ FirstTime(o)
  /\ WriteTraits(tr)
  /\ Remember(o, "object")
  /\ heap' = Meet(o, "object", tr)
  /\ LET sealed == IF External[tr] THEN <<>> ELSE Members[tr]
         owed == IF External[tr] THEN ExtSize[WireName(tr)] ELSE Len(sealed)
     IN  stack' = Append(Append(Below, Served),
                         NewFrame(o, NamesToWrite(tr), FALSE, owed, sealed,
                                  Dynamic[tr] /\ ~External[tr]))
  /\ UNCHANGED <<strCache, strIndex>>

-----------------------------------------------------------------------------
(***************************************************************************)
(* The rest of a function once its header is out.                          *)
(***************************************************************************)
WriteName ==
  /\ Busy
  /\ Top.names # <<>>
  /\ WriteUtf8vr(Head(Top.names), FALSE)
  /\ stack' = Append(Below, [Top EXCEPT !.names = Tail(@)])
  /\ UNCHANGED <<objCache, objIndex, traitCache, traitIndex, heap, met>>

WriteSourceHeader ==
  /\ Busy
  /\ Top.names = <<>>
  /\ Top.src
  /\ Emit(ArrayTok(Top.len))
  /\ stack' = Append(Below, [Top EXCEPT !.src = FALSE])
  /\ UNCHANGED <<caches, heap, met>>

InDynamicPart == Busy /\ Top.names = <<>> /\ Top.left = 0 /\ Top.dyn

\* ser3_hash_iter: a property that is not among the sealed members
WriteKey(k) ==
  /\ InDynamicPart
  /\ \A i \in DOMAIN heap[Top.obj].kids : heap[Top.obj].kids[i].key # k
  /\ Len(heap[Top.obj].kids) < Len(Top.members) + MaxLen
  /\ WriteUtf8vr(k, FALSE)
  /\ stack' = Append(Below, [Top EXCEPT !.left = 1, !.key = k])
  /\ UNCHANGED <<objCache, objIndex, traitCache, traitIndex, heap, met>>

CloseDynamicSilently ==
  /\ InDynamicPart
  /\ stack' = Append(Below, [Top EXCEPT !.dyn = FALSE])
  /\ UNCHANGED <<caches, heap, met, stream>>

CloseDynamic ==
  /\ InDynamicPart
  /\ Emit(EmptyTok(FALSE))
  /\ stack' = Append(Below, [Top EXCEPT !.dyn = FALSE])
  /\ UNCHANGED <<caches, heap, met>>

Return ==
  /\ Busy
  /\ Top.names = <<>> /\ ~Top.src /\ Top.left = 0 /\ ~Top.dyn
  /\ stack' = Below
  /\ UNCHANGED <<caches, heap, met, stream>>

WriterNext ==
  \/ \E v \in Scalars : WriteScalar(v)
  \/ \E s \in Texts : WriteString(s)
  \/ \E o \in Obj : WriteReference(o)
  \/ \E o \in Obj : WriteLeaf(o)
  \/ \E o \in Obj, len \in 0 .. MaxLen : WriteArray(o, len)
  \/ \E o \in Obj, len \in 0 .. MaxLen : WriteArrayCollection(o, len)
  \/ \E o \in Obj, tr \in Traits \ {ACTraits} : WriteObject(o, tr)
  \/ WriteName
  \/ WriteSourceHeader
  \/ \E k \in Keys : WriteKey(k)
  \/ CloseDynamic
  \/ Return

WriterSpec == WriterInit /\ [][WriterNext]_writerVars

-----------------------------------------------------------------------------
\* Every variable of the writer has its type.
Index == Nat \cup {NotCached}
WriterTypeOK ==
  /\ stream \in Seq(Token)
  /\ objCache \in [Obj -> Index] /\ objIndex \in Nat
  /\ strCache \in [StrKeys -> Index] /\ strIndex \in Nat
  /\ traitCache \in [TraitKeys -> Index] /\ traitIndex \in Nat
  /\ stack \in Seq(Frame)
  /\ heap \in [Obj \cup {Root} -> Node]
  /\ met \in Nat

\* An object has an index exactly when it has been met, the indexes given out
\* lie below obj_index, and no two objects overlap: the second index of an
\* ArrayCollection, which no table entry of the writer records, belongs to
\* nobody else.
ObjectIndexesDistinct ==
  /\ \A o \in Obj : /\ (objCache[o] = NotCached) <=> (heap[o].kind = "unmet")
                    /\ objCache[o] + ObjSlots(heap[o].kind) <= objIndex
                         \/ objCache[o] = NotCached
  /\ \A o, p \in Obj :
       o # p /\ objCache[o] # NotCached /\ objCache[p] # NotCached =>
         \/ objCache[o] + ObjSlots(heap[o].kind) <= objCache[p]
         \/ objCache[p] + ObjSlots(heap[p].kind) <= objCache[o]

\* The same for the string and the trait cache: one index, one key.
NamesIndexedOnce ==
  /\ \A k \in StrKeys : strCache[k] < strIndex
  /\ \A k, l \in StrKeys : strCache[k] = strCache[l] => k = l \/ strCache[k] = NotCached
  /\ \A k \in TraitKeys : traitCache[k] < traitIndex
  /\ \A k, l \in TraitKeys : traitCache[k] = traitCache[l] => k = l \/ traitCache[k] = NotCached
=============================================================================
