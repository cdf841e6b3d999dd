----------------------------- MODULE Amf3Proofs -----------------------------
(***************************************************************************)
(* Theorems about Amf3Writer and about Amf3RoundTrip, for any number of    *)
(* objects, strings and traits and for graphs of any size and shape: types *)
(* and caches of the writer first, then the types of both sides, and the   *)
(* snapshots of the writer that a reader goes by (Amf3Simulation has that  *)
(* reader).                                                                *)
(***************************************************************************)
EXTENDS Amf3RoundTrip, TLAPS

USE DEF NotCached, Index

-----------------------------------------------------------------------------
(***************************************************************************)
(* Typing of the helpers.                                                  *)
(***************************************************************************)

\* The innermost frame and the frames below it.
LEMMA TopType ==
  ASSUME WriterTypeOK, Busy
  PROVE  Top \in Frame /\ Below \in Seq(Frame) /\ Len(stack) \in Nat \ {0}
BY DEF WriterTypeOK, Busy, Top, Below

\* A finished slot leaves a frame.
LEMMA ServedType ==
  ASSUME WriterTypeOK, WantsValue
  PROVE  Served \in Frame /\ Top.obj \in Obj \cup {Root}
<1>1. Top \in Frame BY TopType DEF WantsValue
<1>2. Top.left > 0 BY DEF WantsValue
<1>3. \A f \in Frame : f.left > 0 => [f EXCEPT !.left = @ - 1, !.key = None] \in Frame
  <2> SUFFICES ASSUME NEW f \in Frame, f.left > 0
               PROVE  [f EXCEPT !.left = f.left - 1, !.key = None] \in Frame
    OBVIOUS
  <2>1. f.left \in Nat /\ f.left - 1 \in Nat BY DEF Frame
  <2> QED BY <2>1 DEF Frame
<1>4. Served \in Frame BY <1>1, <1>2, <1>3 DEF Served
<1>5. \A f \in Frame : f.obj \in Obj \cup {Root} BY DEF Frame
<1> QED BY <1>1, <1>4, <1>5

\* The property name of the next value.
LEMMA NextKeyType ==
  ASSUME NEW f \in Frame, NEW done \in Nat
  PROVE  NextKey(f, done) \in Strings \cup {None}
<1>1. CASE f.key # None BY <1>1 DEF NextKey, Frame
<1>2. CASE f.key = None /\ done < Len(f.members)
  <2>1. f.members \in Seq(Strings) BY DEF Frame
  <2>2. done + 1 \in 1 .. Len(f.members) BY <1>2, <2>1
  <2> QED BY <1>2, <2>1, <2>2 DEF NextKey
<1>3. CASE f.key = None /\ ~(done < Len(f.members)) BY <1>3 DEF NextKey
<1> QED BY <1>1, <1>2, <1>3

\* The graph with one more value in it.
LEMMA HoldingType ==
  ASSUME WriterTypeOK, WantsValue, NEW v \in Values
  PROVE  Holding(v) \in [Obj \cup {Root} -> Node]
<1>1. Top.obj \in Obj \cup {Root} /\ Top \in Frame
  BY ServedType, TopType DEF WantsValue
<1>2. heap[Top.obj] \in Node /\ heap \in [Obj \cup {Root} -> Node]
  BY <1>1 DEF WriterTypeOK
<1> DEFINE k == NextKey(Top, Len(heap[Top.obj].kids))
<1>3. k \in Strings \cup {None}
  BY <1>1, <1>2, NextKeyType DEF Node
<1>4. [key |-> k, val |-> v] \in Kid
  BY <1>3 DEF Kid
<1>5. Append(heap[Top.obj].kids, [key |-> k, val |-> v]) \in Seq(Kid)
  BY <1>2, <1>4 DEF Node
<1> HIDE DEF k
<1>6. [heap[Top.obj] EXCEPT !.kids = Append(@, [key |-> k, val |-> v])] \in Node
  BY <1>2, <1>5 DEF Node
<1> QED
  BY <1>1, <1>2, <1>6 DEF Holding, k

\* The graph with one more object in it.
LEMMA MeetType ==
  ASSUME WriterTypeOK, WantsValue, NEW o \in Obj, NEW kind \in Kinds,
         NEW tr \in Traits \cup {None}
  PROVE  Meet(o, kind, tr) \in [Obj \cup {Root} -> Node]
<1>1. Holding(o) \in [Obj \cup {Root} -> Node]
  BY HoldingType DEF Values
<1>2. Top.obj \in Obj \cup {Root} /\ heap \in [Obj \cup {Root} -> Node] /\ met \in Nat
  BY ServedType DEF WriterTypeOK
<1>3. DepthHere \in Nat
  BY <1>2 DEF DepthHere, Node
<1>4. <<>> \in Seq(Kid)
  OBVIOUS
<1>5. [kind |-> kind, tr |-> tr, kids |-> <<>>, nth |-> met + 1, depth |-> DepthHere] \in Node
  BY <1>2, <1>3, <1>4 DEF Node
<1> QED
  BY <1>1, <1>5 DEF Meet

\* One more token.
LEMMA EmitType ==
  ASSUME WriterTypeOK, NEW tok \in Token, Emit(tok)
  PROVE  stream' \in Seq(Token)
BY DEF WriterTypeOK, Emit

\* ser3_write_utf8vr.
LEMMA Utf8vrType ==
  ASSUME WriterTypeOK, NEW s \in Strings, NEW m \in BOOLEAN, WriteUtf8vr(s, m)
  PROVE  /\ stream' \in Seq(Token)
         /\ strCache' \in [StrKeys -> Index] /\ strIndex' \in Nat
<1>0. StrKey[s] \in StrKeys /\ strCache \in [StrKeys -> Index] /\ strIndex \in Nat
  BY WriterAssumption DEF WriterTypeOK
<1>1. CASE s = Empty /\ Emit(EmptyTok(m)) /\ UNCHANGED <<strCache, strIndex>>
  <2>1. EmptyTok(m) \in Token BY DEF EmptyTok, Token
  <2> QED BY <1>0, <1>1, <2>1, EmitType
<1>2. CASE /\ strCache[StrKey[s]] # NotCached
           /\ Emit(StrRefTok(strCache[StrKey[s]], m))
           /\ UNCHANGED <<strCache, strIndex>>
  <2>1. StrRefTok(strCache[StrKey[s]], m) \in Token
    BY <1>0, <1>2 DEF StrRefTok, Token
  <2> QED BY <1>0, <1>2, <2>1, EmitType
<1>3. CASE /\ s # Empty /\ Emit(StrTok(s, m))
           /\ strCache' = [strCache EXCEPT ![StrKey[s]] = strIndex]
           /\ strIndex' = strIndex + 1
  <2>1. StrTok(s, m) \in Token BY <1>3 DEF StrTok, Token
  <2> QED BY <1>0, <1>3, <2>1, EmitType
<1> QED
  BY <1>1, <1>2, <1>3 DEF WriteUtf8vr

\* The key traits are cached under, and the names written for them.
LEMMA TraitNames ==
  ASSUME NEW tr \in Traits
  PROVE  /\ TraitKey(tr) \in TraitKeys
         /\ WireName(tr) \in Strings
         /\ Members[tr] \in Seq(Strings)
         /\ NamesToWrite(tr) \in Seq(Strings)
<1>1. ClassName[tr] \in Strings \cup {NoName} /\ Empty \in Strings
      /\ Members[tr] \in Seq(Strings)
  BY StreamAssumption
<1>2. TraitKey(tr) \in TraitKeys
  BY <1>1 DEF TraitKey, TraitKeys
<1>3. WireName(tr) \in Strings
  BY <1>1 DEF WireName
<1>4. <<WireName(tr)>> \o Members[tr] \in Seq(Strings)
  BY <1>1, <1>3
<1> QED
  BY <1>1, <1>2, <1>3, <1>4 DEF NamesToWrite

\* The traits part of ser3_write_object.
LEMMA TraitsType ==
  ASSUME WriterTypeOK, NEW tr \in Traits, WriteTraits(tr)
  PROVE  /\ stream' \in Seq(Token)
         /\ traitCache' \in [TraitKeys -> Index] /\ traitIndex' \in Nat
<1> DEFINE k == TraitKey(tr)
           known == k # NoName /\ traitCache[k] # NotCached
           tok == IF known THEN TraitRefTok(traitCache[k]) ELSE TraitsTok(tr)
<1>1. k \in TraitKeys /\ Len(Members[tr]) \in Nat
  BY TraitNames
<1>2. traitCache \in [TraitKeys -> Index] /\ traitIndex \in Nat
  BY DEF WriterTypeOK
<1>3. tok \in Token
  BY <1>1, <1>2 DEF TraitRefTok, TraitsTok, Token
<1>4. /\ Emit(tok)
      /\ traitCache' = IF known \/ k = NoName THEN traitCache
                       ELSE [traitCache EXCEPT ![k] = traitIndex]
      /\ traitIndex' = IF known \/ k = NoName THEN traitIndex ELSE traitIndex + 1
  BY DEF WriteTraits
<1> HIDE DEF tok, k
<1> QED
  BY <1>1, <1>2, <1>3, <1>4, EmitType

\* Giving an object its index.
LEMMA RememberType ==
  ASSUME WriterTypeOK, NEW o \in Obj, NEW kind \in Kinds, Remember(o, kind)
  PROVE  objCache' \in [Obj -> Index] /\ objIndex' \in Nat
BY DEF WriterTypeOK, Remember, ObjSlots

\* The frame of a function that has just been called.
LEMMA NewFrameType ==
  ASSUME NEW o \in Obj \cup {Root}, NEW names \in Seq(Strings), NEW src \in BOOLEAN,
         NEW len \in Nat, NEW members \in Seq(Strings), NEW dyn \in BOOLEAN
  PROVE  NewFrame(o, names, src, len, members, dyn) \in Frame
BY DEF NewFrame, Frame

\* Replacing the innermost frame, and calling a function on top of it.
LEMMA StackType ==
  ASSUME WriterTypeOK, Busy, NEW f \in Frame, NEW g \in Frame
  PROVE  Append(Below, f) \in Seq(Frame) /\ Append(Append(Below, f), g) \in Seq(Frame)
BY TopType

-----------------------------------------------------------------------------
(***************************************************************************)
(* Type correctness.                                                       *)
(***************************************************************************)

\* The caller's frame and the empty caches have their types.
LEMMA InitType == WriterInit => WriterTypeOK
<1> SUFFICES ASSUME WriterInit PROVE WriterTypeOK
  OBVIOUS
<1>1. NewFrame(Root, <<>>, FALSE, 1, <<>>, FALSE) \in Frame
  BY DEF NewFrame, Frame
<1>2. Unmet \in Node /\ [Unmet EXCEPT !.kind = "root", !.nth = 1] \in Node
  <2>1. Unmet \in Node BY DEF Unmet, Node, Kinds
  <2>2. \A n \in Node : [n EXCEPT !.kind = "root", !.nth = 1] \in Node
    BY DEF Node, Kinds
  <2> QED BY <2>1, <2>2
<1>3. heap \in [Obj \cup {Root} -> Node]
  BY <1>2 DEF WriterInit
<1> QED
  <2>1. <<NewFrame(Root, <<>>, FALSE, 1, <<>>, FALSE)>> \in Seq(Frame)
    <3>1. \A f \in Frame : <<f>> \in Seq(Frame) OBVIOUS
    <3> QED BY <1>1, <3>1
  <2>2. \A S : <<>> \in Seq(S) OBVIOUS
  <2> QED BY <1>3, <2>1, <2>2 DEF WriterInit, WriterTypeOK

\* Every step keeps the types.
LEMMA NextType == WriterTypeOK /\ [WriterNext]_writerVars => WriterTypeOK'
<1> SUFFICES ASSUME WriterTypeOK, [WriterNext]_writerVars PROVE WriterTypeOK'
  OBVIOUS
<1> USE DEF caches
<1>1. ASSUME NEW v \in Scalars, WriteScalar(v) PROVE WriterTypeOK'
  <2>1. WantsValue /\ Busy /\ v \in Values
    BY <1>1 DEF WriteScalar, WantsValue, Values
  <2>2. ScalarTok(v) \in Token BY DEF ScalarTok, Token
  <2>3. heap' \in [Obj \cup {Root} -> Node]
    BY <1>1, <2>1, HoldingType DEF WriteScalar
  <2>4. stack' \in Seq(Frame)
    BY <1>1, <2>1, ServedType, StackType DEF WriteScalar
  <2>5. stream' \in Seq(Token)
    BY <1>1, <2>2, EmitType DEF WriteScalar
  <2> QED BY <1>1, <2>3, <2>4, <2>5 DEF WriteScalar, WriterTypeOK
<1>2. ASSUME NEW s \in Texts, WriteString(s) PROVE WriterTypeOK'
  <2>1. WantsValue /\ Busy /\ s \in Strings /\ s \in Values
    BY <1>2, StreamAssumption DEF WriteString, WantsValue, Values
  <2>2. /\ stream' \in Seq(Token)
        /\ strCache' \in [StrKeys -> Index] /\ strIndex' \in Nat
    BY <1>2, <2>1, Utf8vrType DEF WriteString
  <2>3. heap' \in [Obj \cup {Root} -> Node]
    BY <1>2, <2>1, HoldingType DEF WriteString
  <2>4. stack' \in Seq(Frame)
    BY <1>2, <2>1, ServedType, StackType DEF WriteString
  <2> QED BY <1>2, <2>2, <2>3, <2>4 DEF WriteString, WriterTypeOK
<1>3. ASSUME NEW o \in Obj, WriteReference(o) PROVE WriterTypeOK'
  <2>1. WantsValue /\ Busy /\ o \in Values
    BY <1>3 DEF WriteReference, WantsValue, Values
  <2>2. RefTok(objCache[o]) \in Token
    BY <1>3 DEF WriteReference, WriterTypeOK, RefTok, Token
  <2>3. heap' \in [Obj \cup {Root} -> Node]
    BY <1>3, <2>1, HoldingType DEF WriteReference
  <2>4. stack' \in Seq(Frame)
    BY <1>3, <2>1, ServedType, StackType DEF WriteReference
  <2>5. stream' \in Seq(Token)
    BY <1>3, <2>2, EmitType DEF WriteReference
  <2> QED BY <1>3, <2>3, <2>4, <2>5 DEF WriteReference, WriterTypeOK
<1>4. ASSUME NEW o \in Obj, WriteLeaf(o) PROVE WriterTypeOK'
  <2>1. WantsValue /\ Busy /\ met' \in Nat
    BY <1>4 DEF WriteLeaf, FirstTime, WantsValue, WriterTypeOK
  <2>2. LeafTok \in Token BY DEF LeafTok, Token
  <2>3. heap' \in [Obj \cup {Root} -> Node]
    BY <1>4, <2>1, MeetType DEF WriteLeaf, Kinds
  <2>4. stack' \in Seq(Frame)
    BY <1>4, <2>1, ServedType, StackType DEF WriteLeaf
  <2>5. stream' \in Seq(Token)
    BY <1>4, <2>2, EmitType DEF WriteLeaf
  <2>6. objCache' \in [Obj -> Index] /\ objIndex' \in Nat
    BY <1>4, RememberType DEF WriteLeaf, Kinds
  <2> QED BY <1>4, <2>1, <2>3, <2>4, <2>5, <2>6 DEF WriteLeaf, WriterTypeOK
<1>5. ASSUME NEW o \in Obj, NEW len \in 0 .. MaxLen, WriteArray(o, len)
      PROVE  WriterTypeOK'
  <2>0. len \in Nat BY WriterAssumption
  <2>1. WantsValue /\ Busy /\ met' \in Nat
    BY <1>5 DEF WriteArray, FirstTime, WantsValue, WriterTypeOK
  <2>2. ArrayTok(len) \in Token BY <2>0 DEF ArrayTok, Token
  <2>3. heap' \in [Obj \cup {Root} -> Node]
    BY <1>5, <2>1, MeetType DEF WriteArray, Kinds
  <2>4. NewFrame(o, <<>>, FALSE, len, <<>>, FALSE) \in Frame
    BY <2>0 DEF NewFrame, Frame
  <2>5. stack' \in Seq(Frame)
    BY <1>5, <2>1, <2>4, ServedType, StackType DEF WriteArray
  <2>6. stream' \in Seq(Token)
    BY <1>5, <2>2, EmitType DEF WriteArray
  <2>7. objCache' \in [Obj -> Index] /\ objIndex' \in Nat
    BY <1>5, RememberType DEF WriteArray, Kinds
  <2> QED BY <1>5, <2>1, <2>3, <2>5, <2>6, <2>7 DEF WriteArray, WriterTypeOK
<1>6. ASSUME NEW o \in Obj, NEW len \in 0 .. MaxLen, WriteArrayCollection(o, len)
      PROVE  WriterTypeOK'
  <2>0. len \in Nat /\ ACTraits \in Traits BY WriterAssumption, StreamAssumption
  <2>1. WantsValue /\ Busy /\ met' \in Nat
    BY <1>6 DEF WriteArrayCollection, FirstTime, WantsValue, WriterTypeOK
  <2>2. /\ stream' \in Seq(Token)
        /\ traitCache' \in [TraitKeys -> Index] /\ traitIndex' \in Nat
    BY <1>6, <2>0, TraitsType DEF WriteArrayCollection
  <2>3. heap' \in [Obj \cup {Root} -> Node]
    BY <1>6, <2>1, MeetType DEF WriteArrayCollection, Kinds
  <2>4. NewFrame(o, NamesToWrite(ACTraits), TRUE, len, <<>>, FALSE) \in Frame
    BY <2>0, TraitNames DEF NewFrame, Frame
  <2>5. stack' \in Seq(Frame)
    BY <1>6, <2>1, <2>4, ServedType, StackType DEF WriteArrayCollection
  <2>6. objCache' \in [Obj -> Index] /\ objIndex' \in Nat
    BY <1>6, RememberType DEF WriteArrayCollection, Kinds
  <2> QED
    BY <1>6, <2>1, <2>2, <2>3, <2>5, <2>6 DEF WriteArrayCollection, WriterTypeOK
<1>7. ASSUME NEW o \in Obj, NEW tr \in Traits, WriteObject(o, tr)
      PROVE  WriterTypeOK'
  <2>1. WantsValue /\ Busy /\ met' \in Nat
    BY <1>7 DEF WriteObject, FirstTime, WantsValue, WriterTypeOK
  <2>2. /\ stream' \in Seq(Token)
        /\ traitCache' \in [TraitKeys -> Index] /\ traitIndex' \in Nat
    BY <1>7, TraitsType DEF WriteObject
  <2>3. heap' \in [Obj \cup {Root} -> Node]
    BY <1>7, <2>1, MeetType DEF WriteObject, Kinds
  <2> DEFINE sealed == IF External[tr] THEN <<>> ELSE Members[tr]
             owed == IF External[tr] THEN ExtSize[WireName(tr)] ELSE Len(sealed)
             called == NewFrame(o, NamesToWrite(tr), FALSE, owed, sealed,
                                Dynamic[tr] /\ ~External[tr])
  <2>4. sealed \in Seq(Strings) /\ owed \in Nat
    BY TraitNames, StreamAssumption
  <2>5. called \in Frame
    <3>1. NamesToWrite(tr) \in Seq(Strings) BY TraitNames
    <3>2. (Dynamic[tr] /\ ~External[tr]) \in BOOLEAN OBVIOUS
    <3> HIDE DEF sealed, owed
    <3> QED BY <3>1, <3>2, <2>4, NewFrameType
  <2>6. stack' \in Seq(Frame)
    <3>1. stack' = Append(Append(Below, Served), called)
      BY <1>7 DEF WriteObject
    <3> HIDE DEF called
    <3> QED BY <3>1, <2>1, <2>5, ServedType, StackType
  <2>7. objCache' \in [Obj -> Index] /\ objIndex' \in Nat
    BY <1>7, RememberType DEF WriteObject, Kinds
  <2>8. UNCHANGED <<strCache, strIndex>>
    BY <1>7 DEF WriteObject
  <2> QED BY <2>1, <2>2, <2>3, <2>6, <2>7, <2>8 DEF WriterTypeOK
<1>8. ASSUME WriteName PROVE WriterTypeOK'
  <2>1. Busy /\ Top \in Frame /\ Top.names \in Seq(Strings) /\ Top.names # <<>>
    BY <1>8, TopType DEF WriteName, Frame
  <2>2. Head(Top.names) \in Strings /\ Tail(Top.names) \in Seq(Strings)
    BY <2>1
  <2>3. /\ stream' \in Seq(Token)
        /\ strCache' \in [StrKeys -> Index] /\ strIndex' \in Nat
    BY <1>8, <2>2, Utf8vrType DEF WriteName
  <2>4. [Top EXCEPT !.names = Tail(@)] \in Frame
    BY <2>1, <2>2 DEF Frame
  <2>5. stack' \in Seq(Frame)
    BY <1>8, <2>1, <2>4, StackType DEF WriteName
  <2> QED BY <1>8, <2>3, <2>5 DEF WriteName, WriterTypeOK
<1>9. ASSUME WriteSourceHeader PROVE WriterTypeOK'
  <2>1. Busy /\ Top \in Frame /\ Top.len \in Nat
    BY <1>9, TopType DEF WriteSourceHeader, Frame
  <2>2. ArrayTok(Top.len) \in Token BY <2>1 DEF ArrayTok, Token
  <2>3. stream' \in Seq(Token)
    BY <1>9, <2>2, EmitType DEF WriteSourceHeader
  <2>4. [Top EXCEPT !.src = FALSE] \in Frame BY <2>1 DEF Frame
  <2>5. stack' \in Seq(Frame)
    BY <1>9, <2>1, <2>4, StackType DEF WriteSourceHeader
  <2> QED BY <1>9, <2>3, <2>5 DEF WriteSourceHeader, WriterTypeOK
<1>10. ASSUME NEW k \in Keys, WriteKey(k) PROVE WriterTypeOK'
  <2>1. Busy /\ Top \in Frame /\ k \in Strings
    BY <1>10, TopType, WriterAssumption DEF WriteKey, InDynamicPart
  <2>2. /\ stream' \in Seq(Token)
        /\ strCache' \in [StrKeys -> Index] /\ strIndex' \in Nat
    BY <1>10, <2>1, Utf8vrType DEF WriteKey
  <2>3. [Top EXCEPT !.left = 1, !.key = k] \in Frame BY <2>1 DEF Frame
  <2>4. stack' \in Seq(Frame)
    BY <1>10, <2>1, <2>3, StackType DEF WriteKey
  <2> QED BY <1>10, <2>2, <2>4 DEF WriteKey, WriterTypeOK
<1>11. ASSUME CloseDynamic PROVE WriterTypeOK'
  <2>1. Busy /\ Top \in Frame
    BY <1>11, TopType DEF CloseDynamic, InDynamicPart
  <2>2. EmptyTok(FALSE) \in Token BY DEF EmptyTok, Token
  <2>3. stream' \in Seq(Token)
    BY <1>11, <2>2, EmitType DEF CloseDynamic
  <2>4. [Top EXCEPT !.dyn = FALSE] \in Frame BY <2>1 DEF Frame
  <2>5. stack' \in Seq(Frame)
    BY <1>11, <2>1, <2>4, StackType DEF CloseDynamic
  <2> QED BY <1>11, <2>3, <2>5 DEF CloseDynamic, WriterTypeOK
<1>12. ASSUME Return PROVE WriterTypeOK'
  <2>1. Busy BY <1>12 DEF Return
  <2>2. stack' \in Seq(Frame) BY <1>12, <2>1, TopType DEF Return
  <2> QED BY <1>12, <2>2 DEF Return, WriterTypeOK
<1>13. ASSUME UNCHANGED writerVars PROVE WriterTypeOK'
  BY <1>13 DEF writerVars, WriterTypeOK
<1> QED
  BY <1>1, <1>2, <1>3, <1>4, <1>5, <1>6, <1>7, <1>8, <1>9, <1>10, <1>11, <1>12,
     <1>13 DEF WriterNext

\* The writer's variables have their types in every reachable state, whatever
\* objects, traits and strings are written.
THEOREM WriterTypeCorrect == WriterSpec => []WriterTypeOK
<1>1. WriterInit => WriterTypeOK BY InitType
<1>2. WriterTypeOK /\ [WriterNext]_writerVars => WriterTypeOK' BY NextType
<1> QED BY <1>1, <1>2, PTL DEF WriterSpec

-----------------------------------------------------------------------------
(***************************************************************************)
(* Indexes.  Together with the types, both properties are inductive: a     *)
(* step either leaves a cache and the kinds of the objects alone, or adds  *)
(* one entry at the end.                                                   *)
(***************************************************************************)

\* Finding a value in a slot changes no object's kind.
LEMMA HoldingKinds ==
  ASSUME WriterTypeOK, WantsValue, NEW v \in Values, NEW o \in Obj
  PROVE  Holding(v)[o].kind = heap[o].kind
<1> DEFINE new == Append(heap[Top.obj].kids,
                         [key |-> NextKey(Top, Len(heap[Top.obj].kids)), val |-> v])
<1>1. heap \in [Obj \cup {Root} -> Node] /\ Top.obj \in Obj \cup {Root}
  BY ServedType DEF WriterTypeOK
<1>2. Holding(v) = [heap EXCEPT ![Top.obj].kids = new]
  BY DEF Holding
<1> HIDE DEF new
<1>3. heap[Top.obj] \in Node /\ heap[o] \in Node
  BY <1>1
<1>4. [heap[Top.obj] EXCEPT !.kids = new].kind = heap[Top.obj].kind
  BY <1>3 DEF Node
<1> QED
  BY <1>1, <1>2, <1>3, <1>4

\* Meeting an object gives it its kind and changes no other.
LEMMA MeetKinds ==
  ASSUME WriterTypeOK, WantsValue, NEW o \in Obj, NEW kind \in Kinds,
         NEW tr \in Traits \cup {None}, NEW p \in Obj
  PROVE  Meet(o, kind, tr)[p].kind = IF p = o THEN kind ELSE heap[p].kind
<1>1. Holding(o) \in [Obj \cup {Root} -> Node] /\ o \in Values
  BY HoldingType DEF Values
<1>2. Holding(o)[p].kind = heap[p].kind
  BY <1>1, HoldingKinds
<1> QED
  BY <1>1, <1>2 DEF Meet

\* A step that gives out no object index.
LEMMA ObjectsKept ==
  ASSUME ObjectIndexesDistinct, UNCHANGED <<objCache, objIndex>>,
         \A o \in Obj : heap'[o].kind = heap[o].kind
  PROVE  ObjectIndexesDistinct'
BY DEF ObjectIndexesDistinct, ObjSlots

\* A step that meets o.
LEMMA ObjectAdded ==
  ASSUME WriterTypeOK, ObjectIndexesDistinct, NEW o \in Obj,
         NEW kind \in Kinds \ {"unmet"},
         objCache[o] = NotCached, Remember(o, kind),
         \A p \in Obj : heap'[p].kind = IF p = o THEN kind ELSE heap[p].kind
  PROVE  ObjectIndexesDistinct'
<1>1. objCache \in [Obj -> Index] /\ objIndex \in Nat
  BY DEF WriterTypeOK
<1>2. /\ objCache' = [objCache EXCEPT ![o] = objIndex]
      /\ objIndex' = objIndex + ObjSlots(kind)
  BY DEF Remember
<1>3. \A k : ObjSlots(k) \in {1, 2}
  BY DEF ObjSlots
<1>4. \A p \in Obj \ {o} : objCache'[p] = objCache[p] /\ heap'[p].kind = heap[p].kind
  BY <1>1, <1>2
<1>5. objCache'[o] = objIndex /\ heap'[o].kind = kind /\ objCache'[o] # NotCached
  BY <1>1, <1>2
<1>6. \A p \in Obj : /\ (objCache'[p] = NotCached) <=> (heap'[p].kind = "unmet")
                     /\ objCache'[p] + ObjSlots(heap'[p].kind) <= objIndex'
                          \/ objCache'[p] = NotCached
  <2> TAKE p \in Obj
  <2>1. CASE p = o BY <2>1, <1>2, <1>3, <1>5
  <2>2. CASE p # o
    <3>1. ObjSlots(heap[p].kind) \in {1, 2} /\ ObjSlots(kind) \in {1, 2} /\ objCache[p] \in Index
      BY <1>1, <1>3
    <3> QED BY <2>2, <3>1, <1>1, <1>2, <1>4 DEF ObjectIndexesDistinct
  <2> QED BY <2>1, <2>2
<1>7. \A p, q \in Obj :
        p # q /\ objCache'[p] # NotCached /\ objCache'[q] # NotCached =>
          \/ objCache'[p] + ObjSlots(heap'[p].kind) <= objCache'[q]
          \/ objCache'[q] + ObjSlots(heap'[q].kind) <= objCache'[p]
  <2> SUFFICES ASSUME NEW p \in Obj, NEW q \in Obj, p # q,
                      objCache'[p] # NotCached, objCache'[q] # NotCached
               PROVE  \/ objCache'[p] + ObjSlots(heap'[p].kind) <= objCache'[q]
                      \/ objCache'[q] + ObjSlots(heap'[q].kind) <= objCache'[p]
    OBVIOUS
  <2>1. CASE p = o BY <2>1, <1>4, <1>5 DEF ObjectIndexesDistinct
  <2>2. CASE q = o BY <2>2, <1>4, <1>5 DEF ObjectIndexesDistinct
  <2>3. CASE p # o /\ q # o BY <2>3, <1>4 DEF ObjectIndexesDistinct
  <2> QED BY <2>1, <2>2, <2>3
<1> QED
  BY <1>6, <1>7 DEF ObjectIndexesDistinct

\* No step breaks the object indexes.
LEMMA ObjectsStep ==
  ASSUME WriterTypeOK, ObjectIndexesDistinct, [WriterNext]_writerVars
  PROVE  ObjectIndexesDistinct'
<1> USE DEF caches
<1>1. ASSUME NEW v \in Values, WantsValue, UNCHANGED <<objCache, objIndex>>,
             heap' = Holding(v)
      PROVE  ObjectIndexesDistinct'
  BY <1>1, HoldingKinds, ObjectsKept
<1>2. ASSUME NEW o \in Obj, NEW kind \in Kinds \ {"unmet"}, NEW tr \in Traits \cup {None},
             FirstTime(o), Remember(o, kind), heap' = Meet(o, kind, tr)
      PROVE  ObjectIndexesDistinct'
  <2>1. WantsValue /\ objCache[o] = NotCached /\ kind \in Kinds
    BY <1>2 DEF FirstTime
  <2>2. \A p \in Obj : heap'[p].kind = IF p = o THEN kind ELSE heap[p].kind
    BY <1>2, <2>1, MeetKinds
  <2> QED BY <1>2, <2>1, <2>2, ObjectAdded
<1>3. ASSUME UNCHANGED <<objCache, objIndex, heap>> PROVE ObjectIndexesDistinct'
  BY <1>3, ObjectsKept
<1>4. ASSUME NEW v \in Scalars, WriteScalar(v) PROVE ObjectIndexesDistinct'
  BY <1>4, <1>1 DEF WriteScalar, Values
<1>5. ASSUME NEW s \in Texts, WriteString(s) PROVE ObjectIndexesDistinct'
  <2>1. s \in Values BY StreamAssumption DEF Values
  <2> QED BY <1>5, <2>1, <1>1 DEF WriteString
<1>6. ASSUME NEW o \in Obj, WriteReference(o) PROVE ObjectIndexesDistinct'
  BY <1>6, <1>1 DEF WriteReference, Values
<1>7. ASSUME NEW o \in Obj, WriteLeaf(o) PROVE ObjectIndexesDistinct'
  BY <1>7, <1>2 DEF WriteLeaf, Kinds
<1>8. ASSUME NEW o \in Obj, NEW len \in 0 .. MaxLen, WriteArray(o, len)
      PROVE  ObjectIndexesDistinct'
  BY <1>8, <1>2 DEF WriteArray, Kinds
<1>9. ASSUME NEW o \in Obj, NEW len \in 0 .. MaxLen, WriteArrayCollection(o, len)
      PROVE  ObjectIndexesDistinct'
  BY <1>9, <1>2 DEF WriteArrayCollection, Kinds
<1>10. ASSUME NEW o \in Obj, NEW tr \in Traits, WriteObject(o, tr)
       PROVE  ObjectIndexesDistinct'
  BY <1>10, <1>2 DEF WriteObject, Kinds
<1>11. ASSUME NEW k \in Keys, WriteKey(k) PROVE ObjectIndexesDistinct'
  BY <1>11, <1>3 DEF WriteKey
<1>12. CASE WriteName \/ WriteSourceHeader \/ CloseDynamic \/ Return
  BY <1>12, <1>3 DEF WriteName, WriteSourceHeader, CloseDynamic, Return
<1>13. CASE UNCHANGED writerVars
  BY <1>13, <1>3 DEF writerVars
<1> QED
  BY <1>4, <1>5, <1>6, <1>7, <1>8, <1>9, <1>10, <1>11, <1>12, <1>13 DEF WriterNext

\* No two objects share an index, nor the second index of a collection, in
\* any reachable state.
THEOREM ObjectIndexesStayDistinct == WriterSpec => []ObjectIndexesDistinct
<1>1. WriterInit => ObjectIndexesDistinct
  <2> SUFFICES ASSUME WriterInit PROVE ObjectIndexesDistinct
    OBVIOUS
  <2>1. \A o \in Obj : objCache[o] = NotCached BY DEF WriterInit
  <2>2. \A o \in Obj : heap[o].kind = "unmet"
    BY WriterAssumption DEF WriterInit, Unmet
  <2> QED BY <2>1, <2>2 DEF ObjectIndexesDistinct
<1>2. WriterTypeOK /\ ObjectIndexesDistinct /\ [WriterNext]_writerVars
        => ObjectIndexesDistinct'
  BY ObjectsStep
<1> QED
  BY <1>1, <1>2, WriterTypeCorrect, PTL DEF WriterSpec

-----------------------------------------------------------------------------
\* A step of the string cache: nothing, or one new key at the end.
LEMMA StringsStep ==
  ASSUME WriterTypeOK, NamesIndexedOnce, UNCHANGED <<traitCache, traitIndex>>,
         \/ UNCHANGED <<strCache, strIndex>>
         \/ \E s \in Strings, m \in BOOLEAN : WriteUtf8vr(s, m)
  PROVE  NamesIndexedOnce'
<1>1. CASE UNCHANGED <<strCache, strIndex>>
  BY <1>1 DEF NamesIndexedOnce
<1>2. CASE \E k \in StrKeys : /\ strCache' = [strCache EXCEPT ![k] = strIndex]
                              /\ strIndex' = strIndex + 1
  <2>1. strCache \in [StrKeys -> Index] /\ strIndex \in Nat BY DEF WriterTypeOK
  <2> QED BY <1>2, <2>1 DEF NamesIndexedOnce
<1>3. \A s \in Strings : StrKey[s] \in StrKeys
  BY WriterAssumption
<1> QED
  BY <1>1, <1>2, <1>3 DEF WriteUtf8vr

\* A step of the trait cache.
LEMMA TraitsStep ==
  ASSUME WriterTypeOK, NamesIndexedOnce, UNCHANGED <<strCache, strIndex>>,
         NEW tr \in Traits, WriteTraits(tr)
  PROVE  NamesIndexedOnce'
<1>1. traitCache \in [TraitKeys -> Index] /\ traitIndex \in Nat
  BY DEF WriterTypeOK
<1>2. \/ UNCHANGED <<traitCache, traitIndex>>
      \/ \E k \in TraitKeys : /\ traitCache' = [traitCache EXCEPT ![k] = traitIndex]
                              /\ traitIndex' = traitIndex + 1
  BY TraitNames DEF WriteTraits
<1>3. CASE UNCHANGED <<traitCache, traitIndex>>
  BY <1>3 DEF NamesIndexedOnce
<1>4. CASE \E k \in TraitKeys : /\ traitCache' = [traitCache EXCEPT ![k] = traitIndex]
                                /\ traitIndex' = traitIndex + 1
  BY <1>1, <1>4 DEF NamesIndexedOnce
<1> QED
  BY <1>2, <1>3, <1>4

\* No step breaks the string and trait indexes.
LEMMA NamesStep ==
  ASSUME WriterTypeOK, NamesIndexedOnce, [WriterNext]_writerVars
  PROVE  NamesIndexedOnce'
<1> USE DEF caches
<1>1. ASSUME UNCHANGED <<strCache, strIndex, traitCache, traitIndex>>
      PROVE  NamesIndexedOnce'
  BY <1>1 DEF NamesIndexedOnce
<1>2. ASSUME NEW s \in Texts, WriteString(s) PROVE NamesIndexedOnce'
  <2>1. s \in Strings /\ TRUE \in BOOLEAN BY StreamAssumption
  <2> QED BY <1>2, <2>1, StringsStep DEF WriteString
<1>3. ASSUME WriteName PROVE NamesIndexedOnce'
  <2>1. Top.names \in Seq(Strings) /\ Top.names # <<>>
    BY <1>3, TopType DEF WriteName, Frame
  <2>2. Head(Top.names) \in Strings /\ FALSE \in BOOLEAN BY <2>1
  <2> QED BY <1>3, <2>2, StringsStep DEF WriteName
<1>4. ASSUME NEW k \in Keys, WriteKey(k) PROVE NamesIndexedOnce'
  <2>1. k \in Strings /\ FALSE \in BOOLEAN BY WriterAssumption
  <2> QED BY <1>4, <2>1, StringsStep DEF WriteKey
<1>5. ASSUME NEW o \in Obj, NEW tr \in Traits, WriteObject(o, tr)
      PROVE  NamesIndexedOnce'
  BY <1>5, TraitsStep DEF WriteObject
<1>6. ASSUME NEW o \in Obj, NEW len \in 0 .. MaxLen, WriteArrayCollection(o, len)
      PROVE  NamesIndexedOnce'
  BY <1>6, TraitsStep, StreamAssumption DEF WriteArrayCollection
<1>7. ASSUME \/ \E v \in Scalars : WriteScalar(v)
             \/ \E o \in Obj : WriteReference(o) \/ WriteLeaf(o)
             \/ \E o \in Obj, len \in 0 .. MaxLen : WriteArray(o, len)
             \/ WriteSourceHeader \/ CloseDynamic \/ Return
      PROVE  NamesIndexedOnce'
  BY <1>1, <1>7 DEF WriteScalar, WriteReference, WriteLeaf, WriteArray,
                    WriteSourceHeader, CloseDynamic, Return
<1>8. CASE UNCHANGED writerVars
  BY <1>1, <1>8 DEF writerVars
<1> QED
  BY <1>2, <1>3, <1>4, <1>5, <1>6, <1>7, <1>8 DEF WriterNext

\* An index stands for one string and one class name only, in any reachable
\* state.
THEOREM NamesStayIndexedOnce == WriterSpec => []NamesIndexedOnce
<1>1. WriterInit => NamesIndexedOnce
  BY DEF WriterInit, NamesIndexedOnce
<1>2. WriterTypeOK /\ NamesIndexedOnce /\ [WriterNext]_writerVars => NamesIndexedOnce'
  BY NamesStep
<1> QED
  BY <1>1, <1>2, WriterTypeCorrect, PTL DEF WriterSpec

HIDE DEF NotCached, Index

-----------------------------------------------------------------------------
(***************************************************************************)
(* Sequences.                                                              *)
(***************************************************************************)

LEMMA Elements ==
  ASSUME NEW S, NEW s \in Seq(S)
  PROVE  /\ Len(s) \in Nat /\ DOMAIN s = 1 .. Len(s)
         /\ \A i \in 1 .. Len(s) : s[i] \in S
         /\ s = <<>> <=> Len(s) = 0
OBVIOUS

LEMMA Appended ==
  ASSUME NEW S, NEW s \in Seq(S), NEW x \in S
  PROVE  /\ Append(s, x) \in Seq(S)
         /\ Len(Append(s, x)) = Len(s) + 1
         /\ Append(s, x)[Len(s) + 1] = x
         /\ \A i \in 1 .. Len(s) : Append(s, x)[i] = s[i]
OBVIOUS

LEMMA Beginning ==
  ASSUME NEW S, NEW s \in Seq(S), NEW k \in 0 .. Len(s)
  PROVE  /\ SubSeq(s, 1, k) \in Seq(S)
         /\ Len(SubSeq(s, 1, k)) = k
         /\ \A i \in 1 .. k : SubSeq(s, 1, k)[i] = s[i]
OBVIOUS

\* What follows when the last element of a stack is taken off.
LEMMA Popped ==
  ASSUME NEW S, NEW s \in Seq(S), s # <<>>
  PROVE  /\ SubSeq(s, 1, Len(s) - 1) \in Seq(S)
         /\ Len(SubSeq(s, 1, Len(s) - 1)) = Len(s) - 1
         /\ \A i \in 1 .. Len(s) - 1 : SubSeq(s, 1, Len(s) - 1)[i] = s[i]
         /\ Len(s) \in Nat \ {0} /\ s[Len(s)] \in S
<1>1. Len(s) \in Nat \ {0} /\ Len(s) - 1 \in 0 .. Len(s) BY Elements
<1>2. s[Len(s)] \in S BY <1>1, Elements
<1> QED BY <1>1, <1>2, Beginning

\* And when another one takes its place.
LEMMA Replaced ==
  ASSUME NEW S, NEW s \in Seq(S), s # <<>>, NEW x \in S
  PROVE  /\ Append(SubSeq(s, 1, Len(s) - 1), x) \in Seq(S)
         /\ Len(Append(SubSeq(s, 1, Len(s) - 1), x)) = Len(s)
         /\ Append(SubSeq(s, 1, Len(s) - 1), x)[Len(s)] = x
         /\ \A i \in 1 .. Len(s) - 1 : Append(SubSeq(s, 1, Len(s) - 1), x)[i] = s[i]
<1> DEFINE b == SubSeq(s, 1, Len(s) - 1)
<1>1. /\ b \in Seq(S) /\ Len(b) = Len(s) - 1 /\ Len(s) \in Nat \ {0}
      /\ \A i \in 1 .. Len(s) - 1 : b[i] = s[i]
  BY Popped
<1> HIDE DEF b
<1>2. /\ Append(b, x) \in Seq(S) /\ Len(Append(b, x)) = Len(b) + 1
      /\ Append(b, x)[Len(b) + 1] = x
      /\ \A i \in 1 .. Len(b) : Append(b, x)[i] = b[i]
  BY <1>1, Appended
<1>3. Len(b) + 1 = Len(s) BY <1>1
<1>4. /\ Append(b, x) \in Seq(S) /\ Len(Append(b, x)) = Len(s) /\ Append(b, x)[Len(s)] = x
      /\ \A i \in 1 .. Len(s) - 1 : Append(b, x)[i] = s[i]
  BY <1>1, <1>2, <1>3
<1> QED BY <1>4 DEF b

LEMMA Single == ASSUME NEW S, NEW x \in S PROVE <<x>> \in Seq(S)
OBVIOUS

LEMMA OneMore ==
  ASSUME NEW S, NEW s \in Seq(S), NEW x \in S
  PROVE  /\ s \o <<x>> \in Seq(S) /\ Len(s \o <<x>>) = Len(s) + 1
         /\ (s \o <<x>>)[Len(s) + 1] = x
         /\ \A i \in 1 .. Len(s) : (s \o <<x>>)[i] = s[i]
OBVIOUS

LEMMA TwoMore ==
  ASSUME NEW S, NEW s \in Seq(S), NEW x \in S, NEW y \in S
  PROVE  /\ s \o <<x, y>> \in Seq(S)
         /\ Len(s \o <<x, y>>) = Len(s) + 2
         /\ (s \o <<x, y>>)[Len(s) + 1] = x /\ (s \o <<x, y>>)[Len(s) + 2] = y
         /\ \A i \in 1 .. Len(s) : (s \o <<x, y>>)[i] = s[i]
OBVIOUS

LEMMA Changed ==
  ASSUME NEW S, NEW s \in Seq(S), NEW n, NEW x, n \in DOMAIN s => x \in S
  PROVE  /\ [s EXCEPT ![n] = x] \in Seq(S) /\ Len([s EXCEPT ![n] = x]) = Len(s)
         /\ \A i \in 1 .. Len(s) : [s EXCEPT ![n] = x][i] = IF i = n THEN x ELSE s[i]
<1>1. s \in [1 .. Len(s) -> S] /\ Len(s) \in Nat OBVIOUS
<1>2. [s EXCEPT ![n] = x] \in [1 .. Len(s) -> S] BY <1>1
<1>3. [s EXCEPT ![n] = x] \in Seq(S) /\ Len([s EXCEPT ![n] = x]) = Len(s) BY <1>1, <1>2
<1> QED BY <1>1, <1>2, <1>3

-----------------------------------------------------------------------------
(***************************************************************************)
(* The types of the writer when it may be a client.                        *)
(***************************************************************************)

LEMMA BeginType ==
  ASSUME WriterTypeOK, NEW o \in Obj, NEW kind \in Kinds, NEW tok \in Token,
         NEW frames, Begin(o, kind, tok, frames),
         \A s \in Seq(Frame) : s \o frames \in Seq(Frame)
  PROVE  WriterTypeOK'
<1>1. /\ FirstTime(o) /\ Emit(tok) /\ Remember(o, kind) /\ heap' = Meet(o, kind, None)
      /\ stack' = Append(Below, Served) \o frames
      /\ UNCHANGED <<strCache, strIndex, traitCache, traitIndex>>
  BY DEF Begin
<1>2. WantsValue /\ Busy /\ met' \in Nat
  BY <1>1 DEF FirstTime, WantsValue, WriterTypeOK
<1>3. heap' \in [Obj \cup {Root} -> Node] BY <1>1, <1>2, MeetType
<1>4. stack' \in Seq(Frame)
  <2>1. Append(Below, Served) \in Seq(Frame) BY <1>2, ServedType, StackType
  <2> QED BY <1>1, <2>1
<1>5. stream' \in Seq(Token) BY <1>1, EmitType
<1>6. objCache' \in [Obj -> Index] /\ objIndex' \in Nat BY <1>1, RememberType
<1> QED BY <1>1, <1>2, <1>3, <1>4, <1>5, <1>6 DEF WriterTypeOK

LEMMA ClientTypes == WriterTypeOK /\ ClientNext => WriterTypeOK'
<1> SUFFICES ASSUME WriterTypeOK, ClientNext PROVE WriterTypeOK'
  OBVIOUS
<1>0. Kinds = {"unmet", "root", "leaf", "array", "ac", "object", "hash", "dict", "vector"}
  BY DEF Kinds
<1>1. ASSUME WriterNext PROVE WriterTypeOK' BY <1>1, NextType
<1>2. ASSUME NEW k \in Keys \ {Empty}, WriteKey(k) PROVE WriterTypeOK'
  BY <1>1, <1>2 DEF WriterNext
<1>3. ASSUME NEW o \in Obj, NEW size \in XmlSizes, ClientXml(o, size) PROVE WriterTypeOK'
  <2>1. Begin(o, "leaf", XmlTok(size), <<>>) BY <1>3 DEF ClientXml
  <2>2. size \in Nat BY ClientAssumption
  <2>3. XmlTok(size) \in Token BY <2>2 DEF XmlTok, Token
  <2>4. \A s \in Seq(Frame) : s \o <<>> \in Seq(Frame) OBVIOUS
  <2> QED BY <1>0, <2>1, <2>3, <2>4, BeginType
<1>4. ASSUME NEW o \in Obj, NEW len \in 0 .. ClientLen PROVE len \in Nat /\ 2 * len \in Nat
  BY ClientAssumption
<1>n. ASSUME NEW o \in Obj, NEW names \in Seq(Strings), NEW len \in Nat, NEW dyn \in BOOLEAN
      PROVE  NewFrame(o, names, FALSE, len, <<>>, dyn) \in Frame
  <2>1. <<>> \in Seq(Strings) OBVIOUS
  <2> QED BY <2>1, NewFrameType
<1>e. <<>> \in Seq(Strings) /\ <<TypeName>> \in Seq(Strings) BY ClientAssumption
<1>5. ASSUME NEW o \in Obj, NEW len \in 0 .. ClientLen, ClientNamedArray(o, len)
      PROVE  WriterTypeOK'
  <2> DEFINE f == NewFrame(o, <<>>, FALSE, len, <<>>, FALSE)
             g == NewFrame(o, <<>>, FALSE, 0, <<>>, TRUE)
  <2>1. Begin(o, "hash", NamedArrayTok(len), <<f, g>>) BY <1>5 DEF ClientNamedArray
  <2>2. NamedArrayTok(len) \in Token BY <1>4 DEF NamedArrayTok, Token
  <2>3. f \in Frame /\ g \in Frame BY <1>4, <1>e, <1>n
  <2> HIDE DEF f, g
  <2>4. \A s \in Seq(Frame) : s \o <<f, g>> \in Seq(Frame) BY <2>3, TwoMore
  <2> QED BY <1>0, <2>1, <2>2, <2>4, BeginType
<1>6. ASSUME NEW o \in Obj, NEW len \in 0 .. ClientLen, ClientDict(o, len)
      PROVE  WriterTypeOK'
  <2> DEFINE f == NewFrame(o, <<>>, FALSE, 2 * len, <<>>, FALSE)
  <2>1. Begin(o, "dict", DictTok(len), <<f>>) BY <1>6 DEF ClientDict
  <2>2. DictTok(len) \in Token BY <1>4 DEF DictTok, Token
  <2>3. f \in Frame BY <1>4, <1>e, <1>n
  <2> HIDE DEF f
  <2>4. \A s \in Seq(Frame) : s \o <<f>> \in Seq(Frame) BY <2>3, OneMore
  <2> QED BY <1>0, <2>1, <2>2, <2>4, BeginType
<1>7. ASSUME NEW o \in Obj, NEW len \in 0 .. ClientLen, ClientVector(o, len)
      PROVE  WriterTypeOK'
  <2> DEFINE f == NewFrame(o, <<TypeName>>, FALSE, len, <<>>, FALSE)
  <2>1. Begin(o, "vector", VectorTok(len), <<f>>) BY <1>7 DEF ClientVector
  <2>2. VectorTok(len) \in Token BY <1>4 DEF VectorTok, Token
  <2>3. f \in Frame BY <1>4, <1>e, <1>n
  <2> HIDE DEF f
  <2>4. \A s \in Seq(Frame) : s \o <<f>> \in Seq(Frame) BY <2>3, OneMore
  <2> QED BY <1>0, <2>1, <2>2, <2>4, BeginType
<1> QED BY <1>1, <1>2, <1>3, <1>5, <1>6, <1>7 DEF ClientNext
-----------------------------------------------------------------------------
(***************************************************************************)
(* The types of the reader.  What makes them inductive is the shape of its *)
(* stack: a function that has called another one still owes the value it   *)
(* asked for, and only the entries before an array lie on a function that  *)
(* asked for nothing.                                                      *)
(***************************************************************************)
Owner == [key : Strings \cup {None}, val : ReaderValue]

Calls(f, g) == g.what # "entries" => f.left > 0 /\ f.what \notin {"names", "type"}
WellFormed(f) == /\ f.what = "entries" => f.dyn = TRUE
                 /\ f.what = "names" => f.hdr \in Traits
Shaped(frames) ==
  /\ frames # <<>> /\ frames[1].what = "values"
  /\ \A i \in 1 .. Len(frames) : WellFormed(frames[i])
  /\ \A i \in 1 .. Len(frames) - 1 : Calls(frames[i], frames[i + 1])
ReaderInv == ReaderTypeOK /\ Shaped(rstack)

LEMMA FieldTypes ==
  ASSUME NEW f \in ReadFrame
  PROVE  /\ f.what \in {"names", "inner", "values", "entries", "type"}
         /\ f.node \in ReaderValue /\ f.hdr \in Traits \cup {None}
         /\ f.names \in Seq(Strings \cup {None}) /\ f.left \in Nat
         /\ f.members \in Seq(Strings \cup {None}) /\ f.dyn \in BOOLEAN
         /\ f.key \in Strings \cup {None}
BY DEF ReadFrame

\* A value is returned to a function.
LEMMA TakenType ==
  ASSUME NEW f \in ReadFrame, f.left > 0, NEW v \in ReaderValue
  PROVE  /\ Taken(f, v) \in ReadFrame /\ Taken(f, v).what = f.what
         /\ Taken(f, v).members = f.members /\ Taken(f, v).dyn = f.dyn
         /\ Taken(f, v).hdr = f.hdr
         /\ f.what = "inner" => Taken(f, v).left = 0 /\ Taken(f, v).node = v
                                /\ Taken(f, v).key = f.key
         /\ f.what # "inner" => Taken(f, v).left = f.left - 1 /\ Taken(f, v).node = f.node
                                /\ Taken(f, v).key = None
<1>1. CASE f.what = "inner"
  <2>1. Taken(f, v) = [f EXCEPT !.left = 0, !.node = v] BY <1>1 DEF Taken
  <2>2. 0 \in Nat OBVIOUS
  <2> QED BY <1>1, <2>1, <2>2 DEF ReadFrame
<1>2. CASE f.what # "inner"
  <2>1. Taken(f, v) = [f EXCEPT !.left = f.left - 1, !.key = None] BY <1>2 DEF Taken
  <2>2. f.left - 1 \in Nat BY FieldTypes
  <2> QED BY <1>2, <2>1, <2>2 DEF ReadFrame
<1> QED BY <1>1, <1>2

\* What else a step changes in the frame of a read function.
LEMMA FrameSteps ==
  ASSUME NEW f \in ReadFrame
  PROVE  /\ LET g == [f EXCEPT !.what = "values"]
            IN  /\ g \in ReadFrame /\ g.what = "values" /\ g.node = f.node /\ g.left = f.left
                /\ g.members = f.members /\ g.dyn = f.dyn /\ g.key = f.key
         /\ LET g == [f EXCEPT !.dyn = FALSE]
            IN  /\ g \in ReadFrame /\ g.what = f.what /\ g.node = f.node /\ g.left = f.left
                /\ g.members = f.members /\ g.dyn = FALSE /\ g.key = f.key /\ g.hdr = f.hdr
         /\ \A k \in Strings :
              LET g == [f EXCEPT !.left = 1, !.key = k]
              IN  /\ g \in ReadFrame /\ g.what = f.what /\ g.node = f.node /\ g.left = 1
                  /\ g.members = f.members /\ g.dyn = f.dyn /\ g.key = k /\ g.hdr = f.hdr
         /\ f.left > 0 => \A names \in Seq(Strings \cup {None}) :
              LET g == [f EXCEPT !.names = names, !.left = @ - 1]
              IN  /\ g \in ReadFrame /\ g.what = f.what /\ g.node = f.node
                  /\ g.left = f.left - 1 /\ g.names = names /\ g.hdr = f.hdr
<1>1. LET g == [f EXCEPT !.what = "values"]
      IN  /\ g \in ReadFrame /\ g.what = "values" /\ g.node = f.node /\ g.left = f.left
          /\ g.members = f.members /\ g.dyn = f.dyn /\ g.key = f.key
  BY DEF ReadFrame
<1>2. LET g == [f EXCEPT !.dyn = FALSE]
      IN  /\ g \in ReadFrame /\ g.what = f.what /\ g.node = f.node /\ g.left = f.left
          /\ g.members = f.members /\ g.dyn = FALSE /\ g.key = f.key /\ g.hdr = f.hdr
  BY DEF ReadFrame
<1>3. ASSUME NEW k \in Strings
      PROVE  LET g == [f EXCEPT !.left = 1, !.key = k]
             IN  /\ g \in ReadFrame /\ g.what = f.what /\ g.node = f.node /\ g.left = 1
                 /\ g.members = f.members /\ g.dyn = f.dyn /\ g.key = k /\ g.hdr = f.hdr
  <2>1. k \in Strings \cup {None} /\ 1 \in Nat OBVIOUS
  <2> QED BY <2>1 DEF ReadFrame
<1>4. ASSUME f.left > 0, NEW names \in Seq(Strings \cup {None})
      PROVE  LET g == [f EXCEPT !.names = names, !.left = @ - 1]
             IN  /\ g \in ReadFrame /\ g.what = f.what /\ g.node = f.node
                 /\ g.left = f.left - 1 /\ g.names = names /\ g.hdr = f.hdr
  <2>1. f.left - 1 \in Nat BY <1>4, FieldTypes
  <2> QED BY <2>1 DEF ReadFrame
<1> QED BY <1>1, <1>2, <1>3, <1>4

\* The frames of functions that have just been called.
InnerFrame == [ValuesFrame(None, 1) EXCEPT !.what = "inner"]
TypeFrame(n, left) == [ValuesFrame(n, left) EXCEPT !.what = "type"]
EntriesFrame(n) == [ValuesFrame(n, 0) EXCEPT !.what = "entries", !.dyn = TRUE]
NamesFrame(tr, left) == [ValuesFrame(None, left) EXCEPT !.what = "names", !.hdr = tr]
ObjectFrame(n, left, ms, d) == [ValuesFrame(n, left) EXCEPT !.members = ms, !.dyn = d]

Called(g, what, n, left, ms, d) ==
  /\ g \in ReadFrame /\ g.what = what /\ g.node = n /\ g.left = left
  /\ g.members = ms /\ g.dyn = d /\ g.key = None /\ g.names = <<>>

LEMMA CalledType ==
  /\ \A n \in ReaderValue, left \in Nat :
       /\ Called(ValuesFrame(n, left), "values", n, left, <<>>, FALSE)
       /\ Called(TypeFrame(n, left), "type", n, left, <<>>, FALSE)
  /\ Called(InnerFrame, "inner", None, 1, <<>>, FALSE)
  /\ \A n \in ReaderValue : Called(EntriesFrame(n), "entries", n, 0, <<>>, TRUE)
  /\ \A tr \in Traits, left \in Nat :
       /\ Called(NamesFrame(tr, left), "names", None, left, <<>>, FALSE)
       /\ NamesFrame(tr, left).hdr = tr
  /\ \A n \in ReaderValue, left \in Nat, ms \in Seq(Strings \cup {None}), d \in BOOLEAN :
       Called(ObjectFrame(n, left, ms, d), "values", n, left, ms, d)
<1>1. ASSUME NEW n \in ReaderValue, NEW left \in Nat
      PROVE  Called(ValuesFrame(n, left), "values", n, left, <<>>, FALSE)
  <2>1. <<>> \in Seq(Strings \cup {None}) OBVIOUS
  <2> QED BY <2>1 DEF ValuesFrame, ReadFrame, Called
<1>2. ASSUME NEW n \in ReaderValue, NEW left \in Nat
      PROVE  Called(TypeFrame(n, left), "type", n, left, <<>>, FALSE)
  <2> DEFINE u == ValuesFrame(n, left)
  <2>1. Called(u, "values", n, left, <<>>, FALSE) BY <1>1
  <2>2. TypeFrame(n, left) = [u EXCEPT !.what = "type"] BY DEF TypeFrame
  <2> HIDE DEF u
  <2> QED BY <2>1, <2>2 DEF ReadFrame, Called
<1>3. Called(InnerFrame, "inner", None, 1, <<>>, FALSE)
  <2> DEFINE u == ValuesFrame(None, 1)
  <2>1. None \in ReaderValue /\ 1 \in Nat BY DEF ReaderValue
  <2>2. Called(u, "values", None, 1, <<>>, FALSE) BY <1>1, <2>1
  <2>3. InnerFrame = [u EXCEPT !.what = "inner"] BY DEF InnerFrame
  <2> HIDE DEF u
  <2> QED BY <2>2, <2>3 DEF ReadFrame, Called
<1>4. ASSUME NEW n \in ReaderValue PROVE Called(EntriesFrame(n), "entries", n, 0, <<>>, TRUE)
  <2> DEFINE u == ValuesFrame(n, 0)
  <2>1. Called(u, "values", n, 0, <<>>, FALSE) BY <1>1
  <2>2. EntriesFrame(n) = [u EXCEPT !.what = "entries", !.dyn = TRUE] BY DEF EntriesFrame
  <2> HIDE DEF u
  <2> QED BY <2>1, <2>2 DEF ReadFrame, Called
<1>5. ASSUME NEW tr \in Traits, NEW left \in Nat
      PROVE  /\ Called(NamesFrame(tr, left), "names", None, left, <<>>, FALSE)
             /\ NamesFrame(tr, left).hdr = tr
  <2> DEFINE u == ValuesFrame(None, left)
  <2>1. None \in ReaderValue BY DEF ReaderValue
  <2>2. Called(u, "values", None, left, <<>>, FALSE) BY <1>1, <2>1
  <2>3. NamesFrame(tr, left) = [u EXCEPT !.what = "names", !.hdr = tr] BY DEF NamesFrame
  <2> HIDE DEF u
  <2> QED BY <2>2, <2>3 DEF ReadFrame, Called
<1>6. ASSUME NEW n \in ReaderValue, NEW left \in Nat,
             NEW ms \in Seq(Strings \cup {None}), NEW d \in BOOLEAN
      PROVE  Called(ObjectFrame(n, left, ms, d), "values", n, left, ms, d)
  <2> DEFINE u == ValuesFrame(n, left)
  <2>1. Called(u, "values", n, left, <<>>, FALSE) BY <1>1
  <2>2. ObjectFrame(n, left, ms, d) = [u EXCEPT !.members = ms, !.dyn = d] BY DEF ObjectFrame
  <2> HIDE DEF u
  <2> QED BY <2>1, <2>2 DEF ReadFrame, Called
<1> QED BY <1>1, <1>2, <1>3, <1>4, <1>5, <1>6

\* What has been made, with one more value in the node being read.
LEMMA StoredType ==
  ASSUME made \in Seq(ReadNode), NEW f \in ReadFrame, NEW v \in ReaderValue
  PROVE  /\ Stored(f, v) \in Seq(ReadNode) /\ Len(Stored(f, v)) = Len(made)
         /\ f.what = "inner" => Stored(f, v) = made
         /\ \A i \in 1 .. Len(made) :
              /\ Stored(f, v)[i].kind = made[i].kind /\ Stored(f, v)[i].cls = made[i].cls
              /\ Stored(f, v)[i].kids =
                   IF f.what # "inner" /\ i = f.node
                   THEN Append(made[i].kids,
                               [key |-> KeyOf(f, Len(made[i].kids)), val |-> v])
                   ELSE made[i].kids
<1>1. CASE f.what = "inner"
  <2>1. Stored(f, v) = made BY <1>1 DEF Stored
  <2> QED BY <1>1, <2>1
<1>2. CASE f.what # "inner"
  <2> DEFINE k == [key |-> KeyOf(f, Len(made[f.node].kids)), val |-> v]
             x == [made[f.node] EXCEPT !.kids = Append(made[f.node].kids, k)]
  <2>1. \A n \in Nat : KeyOf(f, n) \in Strings \cup {None}
    <3> SUFFICES ASSUME NEW n \in Nat, f.key = None, n < Len(f.members)
                 PROVE  f.members[n + 1] \in Strings \cup {None}
      BY FieldTypes DEF KeyOf
    <3>1. f.members \in Seq(Strings \cup {None}) BY FieldTypes
    <3>2. n + 1 \in 1 .. Len(f.members) BY <3>1, Elements
    <3> QED BY <3>1, <3>2, Elements
  <2>2. Stored(f, v) = [made EXCEPT ![f.node] = x] BY <1>2 DEF Stored
  <2>3. ASSUME f.node \in DOMAIN made
        PROVE  /\ x \in ReadNode /\ x.kind = made[f.node].kind /\ x.cls = made[f.node].cls
               /\ x.kids = Append(made[f.node].kids, k)
    <3>1. made[f.node] \in ReadNode BY <2>3, Elements
    <3>2. made[f.node].kids \in Seq(Owner) BY <3>1 DEF ReadNode, Owner
    <3>3. k \in Owner BY <2>1, <3>2, Elements DEF Owner
    <3> HIDE DEF k
    <3>4. Append(made[f.node].kids, k) \in Seq(Owner) BY <3>2, <3>3, Appended
    <3> QED BY <3>1, <3>4 DEF ReadNode, Owner
  <2> HIDE DEF x
  <2>4. /\ Stored(f, v) \in Seq(ReadNode) /\ Len(Stored(f, v)) = Len(made)
        /\ \A i \in 1 .. Len(made) : Stored(f, v)[i] = IF i = f.node THEN x ELSE made[i]
    BY <2>2, <2>3, Changed
  <2>5. DOMAIN made = 1 .. Len(made) BY Elements
  <2> HIDE DEF k
  <2>6. \A i \in 1 .. Len(made) :
          /\ Stored(f, v)[i].kind = made[i].kind /\ Stored(f, v)[i].cls = made[i].cls
          /\ Stored(f, v)[i].kids = IF i = f.node THEN Append(made[i].kids, k)
                                    ELSE made[i].kids
    BY <2>3, <2>4, <2>5
  <2> QED BY <1>2, <2>4, <2>6 DEF k
<1> QED BY <1>1, <1>2

LEMMA TokenFields ==
  ASSUME NEW tok \in Token
  PROVE  /\ tok.n \in Nat
         /\ tok.t = "scalar" => tok.v \in Scalars
         /\ tok.t = "empty" => tok.v = Empty
         /\ tok.t = "str" => tok.v \in Strings
         /\ tok.t = "traits" => tok.v \in Traits
<1>1. CASE tok \in [t : {"scalar"}, n : {0}, v : Scalars, m : {TRUE}] BY <1>1
<1>2. CASE tok \in [t : {"empty"}, n : {0}, v : {Empty}, m : BOOLEAN] BY <1>2
<1>3. CASE tok \in [t : {"str"}, n : {0}, v : Strings \ {Empty}, m : BOOLEAN] BY <1>3
<1>4. CASE tok \in [t : {"strref"}, n : Nat, v : {None}, m : BOOLEAN] BY <1>4
<1>5. CASE tok \in [t : {"ref", "leaf", "array", "traitref", "xml", "named", "dict", "vector"},
                    n : Nat, v : {None}, m : {TRUE}]
  BY <1>5
<1>6. CASE tok \in [t : {"traits"}, n : Nat, v : Traits, m : {TRUE}] BY <1>6
<1> QED BY <1>1, <1>2, <1>3, <1>4, <1>5, <1>6 DEF Token

\* The token the reader is at.
LEMMA TokenAt ==
  ASSUME ReaderTypeOK, stream \in Seq(Token), More
  PROVE  /\ pos \in 1 .. Len(stream) /\ Tok \in Token /\ Tok.n \in Nat
         /\ Tok.t = "scalar" => Tok.v \in Scalars
         /\ Tok.t = "empty" => Tok.v = Empty
         /\ Tok.t = "str" => Tok.v \in Strings
         /\ Tok.t = "traits" => Tok.v \in Traits
<1>1. pos \in 1 .. Len(stream) BY Elements DEF ReaderTypeOK, More
<1>2. Tok \in Token BY <1>1, Elements DEF Tok
<1> QED BY <1>1, <1>2, TokenFields

\* des3_read_string returns a string, or nothing in Ruby.
LEMMA StringType ==
  ASSUME ReaderTypeOK, stream \in Seq(Token), More, IsString(Tok)
  PROVE  StringRead(Tok) \in Strings \cup {None} /\ StringTableAfter(Tok) \in Seq(Strings)
<1>1. strTab \in Seq(Strings) BY DEF ReaderTypeOK
<1>2. Empty \in Strings BY StreamAssumption
<1>3. CASE Tok.t = "strref"
  <2>1. Tok.n \in Nat BY TokenAt
  <2>2. Tok.n < Len(strTab) => strTab[Tok.n + 1] \in Strings BY <1>1, <2>1, Elements
  <2> QED BY <1>1, <1>3, <2>2 DEF StringRead, StringTableAfter
<1>4. CASE Tok.t = "str"
  <2>1. Tok.v \in Strings BY <1>4, TokenAt
  <2> QED BY <1>1, <1>4, <2>1, Appended DEF StringRead, StringTableAfter
<1>5. CASE Tok.t = "empty"
  BY <1>1, <1>2, <1>5, TokenAt DEF StringRead, StringTableAfter
<1> QED BY <1>3, <1>4, <1>5 DEF IsString

\* Taking off, replacing and adding a frame.
LEMMA ShapePopped ==
  ASSUME NEW frames \in Seq(ReadFrame), Len(frames) > 1, Shaped(frames)
  PROVE  Shaped(SubSeq(frames, 1, Len(frames) - 1))
<1> DEFINE b == SubSeq(frames, 1, Len(frames) - 1)
<1>1. /\ b \in Seq(ReadFrame) /\ Len(b) = Len(frames) - 1 /\ Len(frames) \in Nat \ {0}
      /\ \A i \in 1 .. Len(frames) - 1 : b[i] = frames[i]
  BY Popped, Elements
<1> HIDE DEF b
<1>2. b # <<>> /\ b[1] = frames[1] BY <1>1, Elements
<1>3. Shaped(b) BY <1>1, <1>2 DEF Shaped
<1> QED BY <1>3 DEF b

LEMMA ShapePushed ==
  ASSUME NEW frames \in Seq(ReadFrame), Shaped(frames),
         NEW g \in ReadFrame, WellFormed(g), Calls(frames[Len(frames)], g)
  PROVE  Shaped(Append(frames, g))
<1> DEFINE b == Append(frames, g)
<1>1. /\ b \in Seq(ReadFrame) /\ Len(b) = Len(frames) + 1 /\ Len(frames) \in Nat \ {0}
      /\ b[Len(frames) + 1] = g /\ \A i \in 1 .. Len(frames) : b[i] = frames[i]
  BY Appended, Elements DEF Shaped
<1> HIDE DEF b
<1>2. \A i \in 1 .. Len(b) : WellFormed(b[i]) BY <1>1 DEF Shaped
<1>3. ASSUME NEW i \in 1 .. Len(b) - 1 PROVE Calls(b[i], b[i + 1])
  <2>1. CASE i = Len(frames) BY <1>1, <2>1
  <2>2. CASE i # Len(frames)
    <3>1. i \in 1 .. Len(frames) - 1 /\ i + 1 \in 1 .. Len(frames) BY <1>1, <2>2
    <3> QED BY <1>1, <3>1 DEF Shaped
  <2> QED BY <2>1, <2>2
<1>4. b # <<>> /\ b[1] = frames[1] BY <1>1, Elements
<1>5. Shaped(b) BY <1>2, <1>3, <1>4 DEF Shaped
<1> QED BY <1>5 DEF b

LEMMA ShapeReplaced ==
  ASSUME NEW frames \in Seq(ReadFrame), Shaped(frames),
         NEW g \in ReadFrame, WellFormed(g),
         \/ g.what = frames[Len(frames)].what
         \/ frames[Len(frames)].what \in {"names", "type"}
  PROVE  Shaped(Append(SubSeq(frames, 1, Len(frames) - 1), g))
<1> DEFINE b == Append(SubSeq(frames, 1, Len(frames) - 1), g)
<1>1. /\ b \in Seq(ReadFrame) /\ Len(b) = Len(frames) /\ Len(frames) \in Nat \ {0}
      /\ b[Len(frames)] = g /\ \A i \in 1 .. Len(frames) - 1 : b[i] = frames[i]
  BY Replaced, Elements DEF Shaped
<1> HIDE DEF b
<1>2. \A i \in 1 .. Len(b) : WellFormed(b[i]) BY <1>1 DEF Shaped
<1>3. ASSUME NEW i \in 1 .. Len(b) - 1 PROVE Calls(b[i], b[i + 1])
  <2>0. Calls(frames[i], frames[i + 1]) BY <1>1 DEF Shaped
  <2>1. CASE i + 1 = Len(frames) BY <1>1, <2>0, <2>1 DEF Calls
  <2>2. CASE i + 1 # Len(frames)
    <3>1. i + 1 \in 1 .. Len(frames) - 1 BY <1>1, <2>2
    <3> QED BY <1>1, <2>0, <3>1
  <2> QED BY <2>1, <2>2
<1>4. b # <<>> BY <1>1, Elements
<1>5. b[1].what = "values"
  <2>1. CASE Len(frames) = 1 BY <1>1, <2>1 DEF Shaped
  <2>2. CASE Len(frames) # 1 BY <1>1, <2>2 DEF Shaped
  <2> QED BY <2>1, <2>2
<1>6. Shaped(b) BY <1>2, <1>3, <1>4, <1>5 DEF Shaped
<1> QED BY <1>6 DEF b

\* The two innermost functions are done with.
LEMMA TwoOff ==
  ASSUME NEW S, NEW s \in Seq(S), Len(s) > 1
  PROVE  LET b == SubSeq(s, 1, Len(s) - 1)
         IN  /\ b \in Seq(S) /\ b # <<>> /\ Len(b) = Len(s) - 1
             /\ b[Len(b)] = s[Len(s) - 1]
             /\ SubSeq(s, 1, Len(s) - 2) = SubSeq(b, 1, Len(b) - 1)
<1> DEFINE b == SubSeq(s, 1, Len(s) - 1)
<1>0. Len(s) \in Nat /\ s # <<>> BY Elements
<1>1. /\ b \in Seq(S) /\ Len(b) = Len(s) - 1
      /\ \A i \in 1 .. Len(s) - 1 : b[i] = s[i]
  BY <1>0, Popped
<1> HIDE DEF b
<1>2. b # <<>> BY <1>0, <1>1, Elements
<1>3. Len(s) - 2 \in 0 .. Len(b) /\ Len(s) - 2 \in 0 .. Len(s) BY <1>0, <1>1
<1>4. /\ SubSeq(s, 1, Len(s) - 2) \in Seq(S) /\ Len(SubSeq(s, 1, Len(s) - 2)) = Len(s) - 2
      /\ \A i \in 1 .. Len(s) - 2 : SubSeq(s, 1, Len(s) - 2)[i] = s[i]
  BY <1>3, Beginning
<1>5. /\ SubSeq(b, 1, Len(s) - 2) \in Seq(S) /\ Len(SubSeq(b, 1, Len(s) - 2)) = Len(s) - 2
      /\ \A i \in 1 .. Len(s) - 2 : SubSeq(b, 1, Len(s) - 2)[i] = b[i]
  BY <1>1, <1>3, Beginning
<1>6. SubSeq(s, 1, Len(s) - 2) = SubSeq(b, 1, Len(s) - 2)
  <2> DEFINE x == SubSeq(s, 1, Len(s) - 2)
             y == SubSeq(b, 1, Len(s) - 2)
  <2>1. \A i \in 1 .. Len(x) : x[i] = y[i] BY <1>0, <1>1, <1>4, <1>5
  <2>2. x \in Seq(S) /\ y \in Seq(S) /\ Len(x) = Len(y) BY <1>4, <1>5
  <2> HIDE DEF x, y
  <2>3. x = y BY <2>1, <2>2
  <2> QED BY <2>3 DEF x, y
<1>7. Len(b) - 1 = Len(s) - 2 /\ b[Len(b)] = s[Len(s) - 1] BY <1>0, <1>1
<1> QED BY <1>1, <1>2, <1>6, <1>7 DEF b

\* The function that has called for a value gets it, or calls another one.
LEMMA ReadTop ==
  ASSUME ReaderInv
  PROVE  /\ rstack \in Seq(ReadFrame) /\ Len(rstack) \in Nat \ {0} /\ rstack # <<>>
         /\ RTop \in ReadFrame /\ WellFormed(RTop)
         /\ \A f \in ReadFrame : Append(RBelow, f) \in Seq(ReadFrame)
         /\ Len(rstack) > 1 => /\ RBelow \in Seq(ReadFrame) /\ Shaped(RBelow)
                               /\ RBelow[Len(RBelow)] = rstack[Len(rstack) - 1]
                               /\ Calls(rstack[Len(rstack) - 1], RTop)
         /\ Len(rstack) = 1 => RTop.what = "values"
<1>1. rstack \in Seq(ReadFrame) /\ Shaped(rstack) /\ rstack # <<>>
  BY DEF ReaderInv, ReaderTypeOK, Shaped
<1>2. Len(rstack) \in Nat \ {0} /\ RTop \in ReadFrame BY <1>1, Popped DEF RTop
<1>3. WellFormed(RTop) BY <1>1, <1>2 DEF Shaped, RTop
<1>4. \A f \in ReadFrame : Append(RBelow, f) \in Seq(ReadFrame) BY <1>1, Replaced DEF RBelow
<1>5. ASSUME Len(rstack) > 1
      PROVE  /\ RBelow \in Seq(ReadFrame) /\ Shaped(RBelow)
             /\ RBelow[Len(RBelow)] = rstack[Len(rstack) - 1]
             /\ Calls(rstack[Len(rstack) - 1], RTop)
  <2>1. RBelow \in Seq(ReadFrame) /\ RBelow[Len(RBelow)] = rstack[Len(rstack) - 1]
    BY <1>1, <1>5, TwoOff DEF RBelow
  <2>2. Shaped(RBelow) BY <1>1, <1>5, ShapePopped DEF RBelow
  <2>3. Len(rstack) - 1 \in 1 .. Len(rstack) - 1 /\ (Len(rstack) - 1) + 1 = Len(rstack)
    BY <1>2, <1>5
  <2>4. Calls(rstack[Len(rstack) - 1], rstack[(Len(rstack) - 1) + 1]) BY <1>1, <2>3 DEF Shaped
  <2> QED BY <2>1, <2>2, <2>3, <2>4 DEF RTop
<1>6. Len(rstack) = 1 => RTop.what = "values" BY <1>1 DEF Shaped, RTop
<1> QED BY <1>1, <1>2, <1>3, <1>4, <1>5, <1>6

LEMMA TakenKeeps ==
  ASSUME ReaderInv, NEW frames \in Seq(ReadFrame), Shaped(frames),
         frames[Len(frames)].left > 0, NEW v \in ReaderValue
  PROVE  LET f == frames[Len(frames)]
             b == Append(SubSeq(frames, 1, Len(frames) - 1), Taken(f, v))
         IN  b \in Seq(ReadFrame) /\ Shaped(b)
<1> DEFINE f == frames[Len(frames)]
           g == Taken(f, v)
<1>1. frames # <<>> /\ f \in ReadFrame /\ WellFormed(f) /\ f.left > 0
  BY Popped DEF Shaped
<1>2. g \in ReadFrame /\ g.what = f.what /\ g.dyn = f.dyn /\ g.hdr = f.hdr
  BY <1>1, TakenType
<1>3. WellFormed(g) BY <1>1, <1>2 DEF WellFormed
<1> HIDE DEF g
<1>4. Append(SubSeq(frames, 1, Len(frames) - 1), g) \in Seq(ReadFrame)
  BY <1>1, <1>2, Replaced
<1>5. Shaped(Append(SubSeq(frames, 1, Len(frames) - 1), g)) BY <1>2, <1>3, ShapeReplaced
<1> QED BY <1>4, <1>5 DEF g

\* The tail of des3_read_object.
LEMMA BeginObjectType ==
  ASSUME ReaderInv, NEW tr \in TraitRecord, NEW below \in Seq(ReadFrame), Shaped(below),
         below[Len(below)].left > 0, below[Len(below)].what \notin {"names", "type"},
         BeginObject(tr, below)
  PROVE  /\ rstack' \in Seq(ReadFrame) /\ Shaped(rstack')
         /\ objTab' \in Seq(ReaderValue) /\ made' \in Seq(ReadNode)
<1>1. objTab \in Seq(ReaderValue) /\ made \in Seq(ReadNode) BY DEF ReaderInv, ReaderTypeOK
<1>2. \A g \in ReadFrame : Calls(below[Len(below)], g) BY DEF Calls
<1>3. ASSUME NEW g \in ReadFrame, WellFormed(g)
      PROVE  Append(below, g) \in Seq(ReadFrame) /\ Shaped(Append(below, g))
  BY <1>2, <1>3, Appended, ShapePushed
<1>4. None \in ReaderValue /\ 1 \in Nat BY DEF ReaderValue
<1>5. CASE tr.cls = ACName
  <2> DEFINE g == InnerFrame
  <2>1. rstack' = Append(below, g) /\ UNCHANGED <<objTab, made>>
    BY <1>5 DEF BeginObject, InnerFrame
  <2>2. g \in ReadFrame /\ g.what = "inner" BY CalledType DEF Called
  <2>3. WellFormed(g) BY <2>2 DEF WellFormed
  <2> HIDE DEF g
  <2> QED BY <1>1, <1>3, <2>1, <2>2, <2>3
<1>6. CASE tr.cls # ACName
  <2> DEFINE node == Len(made) + 1
             owed == IF ~tr.ext THEN Len(tr.members)
                     ELSE IF tr.cls \in Strings THEN ExtSize[tr.cls] ELSE 0
             ms == IF tr.ext THEN <<>> ELSE tr.members
             d == tr.dyn /\ ~tr.ext
             g == ObjectFrame(node, owed, ms, d)
  <2>1. /\ objTab' = Append(objTab, node)
        /\ made' = Append(made, MadeNode("object", tr.cls))
        /\ rstack' = Append(below, g)
    BY <1>6 DEF BeginObject, ObjectFrame
  <2>2. /\ tr.cls \in Strings \cup {None} /\ tr.members \in Seq(Strings \cup {None})
        /\ tr.dyn \in BOOLEAN /\ tr.ext \in BOOLEAN
    BY DEF TraitRecord
  <2>3. node \in Nat /\ node \in ReaderValue BY <1>1, Elements DEF ReaderValue
  <2>4. owed \in Nat
    <3>1. Len(tr.members) \in Nat BY <2>2, Elements
    <3> QED BY <3>1, StreamAssumption
  <2>5. ms \in Seq(Strings \cup {None}) /\ d \in BOOLEAN
    <3>1. <<>> \in Seq(Strings \cup {None}) OBVIOUS
    <3> QED BY <2>2, <3>1
  <2> HIDE DEF node, owed, ms, d
  <2>c. Called(g, "values", node, owed, ms, d) BY <2>3, <2>4, <2>5, CalledType
  <2>6. g \in ReadFrame /\ g.what = "values" BY <2>c DEF Called
  <2>7. WellFormed(g) BY <2>6 DEF WellFormed
  <2>8. MadeNode("object", tr.cls) \in ReadNode
    <3>1. \A S : <<>> \in Seq(S) OBVIOUS
    <3> QED BY <2>2, <3>1 DEF MadeNode, ReadNode
  <2> HIDE DEF g
  <2> QED BY <1>1, <1>3, <2>1, <2>3, <2>6, <2>7, <2>8, Appended
<1> QED BY <1>5, <1>6

\* A new array or dictionary.
LEMMA OpenType ==
  ASSUME ReaderInv, NEW kind \in {"array", "hash", "dict"}, NEW frames, Open(kind, frames),
         rstack \o frames \in Seq(ReadFrame), Shaped(rstack \o frames)
  PROVE  ReaderInv' /\ stream' = stream
<1>1. /\ objTab \in Seq(ReaderValue) /\ made \in Seq(ReadNode) /\ strTab \in Seq(Strings)
      /\ traitTab \in Seq(TraitRecord) /\ pos \in Nat \ {0}
      /\ rstat \in {"idle", "run", "done", "error"}
  BY DEF ReaderInv, ReaderTypeOK
<1>2. /\ objTab' = Append(objTab, NewNode) /\ made' = Append(made, MadeNode(kind, None))
      /\ rstack' = rstack \o frames /\ pos' = pos + 1
      /\ UNCHANGED <<stream, rstat, strTab, traitTab>>
  BY DEF Open, Advance
<1>3. NewNode \in ReaderValue BY <1>1, Elements DEF NewNode, ReaderValue
<1>4. MadeNode(kind, None) \in ReadNode
  <2>1. \A S : <<>> \in Seq(S) OBVIOUS
  <2> QED BY <2>1 DEF MadeNode, ReadNode
<1>5. objTab' \in Seq(ReaderValue) /\ made' \in Seq(ReadNode) BY <1>1, <1>2, <1>3, <1>4, Appended
<1>6. pos' \in Nat \ {0} BY <1>1, <1>2
<1> QED BY <1>1, <1>2, <1>5, <1>6 DEF ReaderInv, ReaderTypeOK

\* Every step of the reader keeps the types and the shape of the stack.
LEMMA ReaderSteps ==
  ReaderInv /\ stream \in Seq(Token) /\ ReaderNext => ReaderInv' /\ stream' = stream
<1> SUFFICES ASSUME ReaderInv, stream \in Seq(Token), ReaderNext
             PROVE  ReaderInv' /\ stream' = stream
  OBVIOUS
<1>0. /\ objTab \in Seq(ReaderValue) /\ made \in Seq(ReadNode) /\ strTab \in Seq(Strings)
      /\ traitTab \in Seq(TraitRecord) /\ pos \in Nat \ {0}
      /\ rstat \in {"idle", "run", "done", "error"} /\ Shaped(rstack) /\ ReaderTypeOK
  BY DEF ReaderInv, ReaderTypeOK
<1>q. ASSUME /\ objTab' \in Seq(ReaderValue) /\ made' \in Seq(ReadNode) /\ strTab' \in Seq(Strings)
             /\ traitTab' \in Seq(TraitRecord) /\ pos' \in Nat \ {0}
             /\ rstat' \in {"idle", "run", "done", "error"}
             /\ rstack' \in Seq(ReadFrame) /\ Shaped(rstack')
      PROVE  ReaderInv'
  BY <1>q DEF ReaderInv, ReaderTypeOK
<1>a. Advance => pos' \in Nat \ {0} /\ rstat' = rstat /\ stream' = stream
  BY <1>0 DEF Advance
<1>r. /\ rstack \in Seq(ReadFrame) /\ Len(rstack) \in Nat \ {0} /\ rstack # <<>>
      /\ RTop \in ReadFrame /\ WellFormed(RTop)
  BY ReadTop
<1>k. Len(rstack) = 1 => RTop.what = "values" BY ReadTop
<1>m. Len(rstack) = 1 \/ Len(rstack) > 1
  <2>1. \A n \in Nat \ {0} : n = 1 \/ n > 1 OBVIOUS
  <2> QED BY <1>r, <2>1
<1>l. RTop.what # "values" => Len(rstack) > 1 BY <1>k, <1>m
<1>v. ASSUME ExpectsValue
      PROVE  /\ More /\ RTop.what \notin {"names", "type"} /\ RTop.left > 0
             /\ \A v \in ReaderValue : /\ Append(RBelow, Taken(RTop, v)) \in Seq(ReadFrame)
                                       /\ Shaped(Append(RBelow, Taken(RTop, v)))
                                       /\ Stored(RTop, v) \in Seq(ReadNode)
             /\ \A g \in ReadFrame : WellFormed(g) => /\ Append(rstack, g) \in Seq(ReadFrame)
                                                      /\ Shaped(Append(rstack, g))
  <2>1. More /\ RTop.what \notin {"names", "type"} /\ RTop.left > 0 BY <1>v DEF ExpectsValue
  <2>2. \A v \in ReaderValue : /\ Append(RBelow, Taken(RTop, v)) \in Seq(ReadFrame)
                               /\ Shaped(Append(RBelow, Taken(RTop, v)))
    BY <1>0, <1>r, <2>1, TakenKeeps DEF RTop, RBelow
  <2>3. \A v \in ReaderValue : Stored(RTop, v) \in Seq(ReadNode) BY <1>0, <1>r, StoredType
  <2>4. \A g \in ReadFrame : Calls(RTop, g) BY <2>1 DEF Calls
  <2>5. ASSUME NEW g \in ReadFrame, WellFormed(g)
        PROVE  Append(rstack, g) \in Seq(ReadFrame) /\ Shaped(Append(rstack, g))
    BY <1>0, <1>r, <2>4, <2>5, ShapePushed, Appended DEF RTop
  <2> QED BY <2>1, <2>2, <2>3, <2>5
<1>f. ASSUME NEW v \in ReaderValue, ExpectsValue, Deliver(v), Advance, strTab' \in Seq(Strings),
             UNCHANGED <<objTab, traitTab>>
      PROVE  ReaderInv' /\ stream' = stream
  <2>1. rstack' = Append(RBelow, Taken(RTop, v)) /\ made' = Stored(RTop, v)
    BY <1>f DEF Deliver
  <2> QED BY <1>0, <1>a, <1>f, <1>q, <1>v, <2>1
<1>1. ASSUME ReadScalar PROVE ReaderInv' /\ stream' = stream
  <2>1. ExpectsValue /\ Tok.t = "scalar" /\ Deliver(Tok.v) /\ Advance /\ UNCHANGED tables
    BY <1>1 DEF ReadScalar
  <2>2. Tok.v \in ReaderValue BY <1>0, <1>v, <2>1, TokenAt DEF ReaderValue
  <2> QED BY <1>0, <1>f, <2>1, <2>2 DEF tables
<1>2. ASSUME ReadString PROVE ReaderInv' /\ stream' = stream
  <2>1. /\ ExpectsValue /\ IsString(Tok) /\ Deliver(StringRead(Tok)) /\ Advance
        /\ strTab' = StringTableAfter(Tok) /\ UNCHANGED <<objTab, traitTab>>
    BY <1>2 DEF ReadString
  <2>2. StringRead(Tok) \in Strings \cup {None} /\ strTab' \in Seq(Strings)
    BY <1>0, <1>v, <2>1, StringType
  <2>3. StringRead(Tok) \in ReaderValue BY <2>2 DEF ReaderValue
  <2> QED BY <1>f, <2>1, <2>2, <2>3
<1>3. ASSUME ReadReference PROVE ReaderInv' /\ stream' = stream
  <2>1. ExpectsValue /\ Deliver(ObjectAt(Tok.n)) /\ Advance /\ UNCHANGED tables
    BY <1>3 DEF ReadReference
  <2>2. Tok.n \in Nat BY <1>0, <1>v, <2>1, TokenAt
  <2>3. ObjectAt(Tok.n) \in ReaderValue
    <3>1. None \in ReaderValue BY DEF ReaderValue
    <3>2. Tok.n < Len(objTab) => objTab[Tok.n + 1] \in ReaderValue BY <1>0, <2>2, Elements
    <3> QED BY <3>1, <3>2 DEF ObjectAt
  <2> QED BY <1>0, <1>f, <2>1, <2>3 DEF tables
<1>4. ASSUME ReadLeaf PROVE ReaderInv' /\ stream' = stream
  <2> DEFINE node == Len(made) + 1
  <2>1. /\ ExpectsValue /\ Advance /\ UNCHANGED <<strTab, traitTab>>
        /\ objTab' = IF Entered(Tok) THEN Append(objTab, node) ELSE objTab
        /\ made' = Append(Stored(RTop, node), MadeNode("leaf", None))
        /\ rstack' = Append(RBelow, Taken(RTop, node))
    BY <1>4 DEF ReadLeaf
  <2>2. node \in ReaderValue BY <1>0, Elements DEF ReaderValue
  <2> HIDE DEF node
  <2>3. MadeNode("leaf", None) \in ReadNode
    <3>1. \A S : <<>> \in Seq(S) OBVIOUS
    <3> QED BY <3>1 DEF MadeNode, ReadNode
  <2>4. Stored(RTop, node) \in Seq(ReadNode) /\ rstack' \in Seq(ReadFrame) /\ Shaped(rstack')
    BY <1>v, <2>1, <2>2
  <2>5. made' \in Seq(ReadNode) /\ objTab' \in Seq(ReaderValue)
    BY <1>0, <2>1, <2>2, <2>3, <2>4, Appended
  <2> QED BY <1>0, <1>a, <1>q, <2>1, <2>4, <2>5
<1>n. NewNode \in ReaderValue BY <1>0, Elements DEF NewNode, ReaderValue
<1>o. ASSUME NEW g \in ReadFrame
      PROVE  rstack \o <<g>> = Append(rstack, g)
  BY <1>r
<1>5. ASSUME ReadArray PROVE ReaderInv' /\ stream' = stream
  <2> DEFINE g == ValuesFrame(NewNode, Tok.n)
  <2>1. ExpectsValue /\ Open("array", <<g>>) BY <1>5 DEF ReadArray
  <2>2. Tok.n \in Nat BY <1>0, <1>v, <2>1, TokenAt
  <2>3. g \in ReadFrame /\ g.what = "values" BY <1>n, <2>2, CalledType DEF Called
  <2> HIDE DEF g
  <2>4. WellFormed(g) BY <2>3 DEF WellFormed
  <2>5. rstack \o <<g>> \in Seq(ReadFrame) /\ Shaped(rstack \o <<g>>)
    BY <1>v, <1>o, <2>1, <2>3, <2>4
  <2> QED BY <2>1, <2>5, OpenType
<1>6. ASSUME ReadNamedArray PROVE ReaderInv' /\ stream' = stream
  <2> DEFINE g == ValuesFrame(NewNode, Tok.n)
             h == EntriesFrame(NewNode)
  <2>1. ExpectsValue /\ Open("hash", <<g, h>>) BY <1>6 DEF ReadNamedArray, EntriesFrame
  <2>2. Tok.n \in Nat BY <1>0, <1>v, <2>1, TokenAt
  <2>3. g \in ReadFrame /\ g.what = "values" BY <1>n, <2>2, CalledType DEF Called
  <2>4. h \in ReadFrame /\ h.what = "entries" /\ h.dyn = TRUE BY <1>n, CalledType DEF Called
  <2> HIDE DEF g, h
  <2>5. WellFormed(g) /\ WellFormed(h) /\ Calls(g, h) BY <2>3, <2>4 DEF WellFormed, Calls
  <2>6. Append(rstack, g) \in Seq(ReadFrame) /\ Shaped(Append(rstack, g))
    BY <1>v, <2>1, <2>3, <2>5
  <2>7. Append(rstack, g)[Len(Append(rstack, g))] = g BY <1>r, <2>3, Appended
  <2>8. /\ Append(Append(rstack, g), h) \in Seq(ReadFrame)
        /\ Shaped(Append(Append(rstack, g), h))
    BY <2>4, <2>5, <2>6, <2>7, ShapePushed, Appended
  <2>9. rstack \o <<g, h>> = Append(Append(rstack, g), h) BY <1>r, <2>3, <2>4
  <2> QED BY <2>1, <2>8, <2>9, OpenType
<1>7. ASSUME ReadDict PROVE ReaderInv' /\ stream' = stream
  <2> DEFINE g == ValuesFrame(NewNode, 2 * Tok.n)
  <2>1. ExpectsValue /\ Open("dict", <<g>>) BY <1>7 DEF ReadDict
  <2>2. 2 * Tok.n \in Nat BY <1>0, <1>v, <2>1, TokenAt
  <2>3. g \in ReadFrame /\ g.what = "values" BY <1>n, <2>2, CalledType DEF Called
  <2> HIDE DEF g
  <2>4. WellFormed(g) BY <2>3 DEF WellFormed
  <2>5. rstack \o <<g>> \in Seq(ReadFrame) /\ Shaped(rstack \o <<g>>)
    BY <1>v, <1>o, <2>1, <2>3, <2>4
  <2> QED BY <2>1, <2>5, OpenType
<1>8. ASSUME ReadVector PROVE ReaderInv' /\ stream' = stream
  <2> DEFINE g == TypeFrame(NewNode, Tok.n)
  <2>1. ExpectsValue /\ Open("array", <<g>>) BY <1>8 DEF ReadVector, TypeFrame
  <2>2. Tok.n \in Nat BY <1>0, <1>v, <2>1, TokenAt
  <2>3. g \in ReadFrame /\ g.what = "type" BY <1>n, <2>2, CalledType DEF Called
  <2> HIDE DEF g
  <2>4. WellFormed(g) BY <2>3 DEF WellFormed
  <2>5. rstack \o <<g>> \in Seq(ReadFrame) /\ Shaped(rstack \o <<g>>)
    BY <1>v, <1>o, <2>1, <2>3, <2>4
  <2> QED BY <2>1, <2>5, OpenType
<1>p. ASSUME NEW g \in ReadFrame, WellFormed(g),
             g.what = RTop.what \/ RTop.what \in {"names", "type"}
      PROVE  Append(RBelow, g) \in Seq(ReadFrame) /\ Shaped(Append(RBelow, g))
  BY <1>0, <1>p, <1>r, Replaced, ShapeReplaced DEF RTop, RBelow
<1>9. ASSUME ReadTypeName PROVE ReaderInv' /\ stream' = stream
  <2> DEFINE g == [RTop EXCEPT !.what = "values"]
  <2>1. /\ ExpectsType /\ IsString(Tok) /\ strTab' = StringTableAfter(Tok) /\ Advance
        /\ rstack' = Append(RBelow, g) /\ UNCHANGED <<objTab, traitTab, made>>
    BY <1>9 DEF ReadTypeName, TypeNameKept
  <2>2. g \in ReadFrame /\ g.what = "values" BY <1>r, FrameSteps
  <2> HIDE DEF g
  <2>3. RTop.what = "type" /\ More /\ WellFormed(g) BY <2>1, <2>2 DEF ExpectsType, WellFormed
  <2>4. strTab' \in Seq(Strings) BY <1>0, <2>1, <2>3, StringType
  <2> QED BY <1>0, <1>a, <1>p, <1>q, <2>1, <2>2, <2>3, <2>4
<1>10. ASSUME ReadTraitReference PROVE ReaderInv' /\ stream' = stream
  <2> DEFINE tr == traitTab[Tok.n + 1]
  <2>1. /\ ExpectsValue /\ Tok.n < Len(traitTab) /\ Advance /\ BeginObject(tr, rstack)
        /\ UNCHANGED <<strTab, traitTab>>
    BY <1>10 DEF ReadTraitReference
  <2>2. Tok.n \in Nat BY <1>0, <1>v, <2>1, TokenAt
  <2>3. tr \in TraitRecord BY <1>0, <2>1, <2>2, Elements
  <2> HIDE DEF tr
  <2>4. RTop.left > 0 /\ RTop.what \notin {"names", "type"} BY <1>v, <2>1
  <2>5. /\ rstack' \in Seq(ReadFrame) /\ Shaped(rstack')
        /\ objTab' \in Seq(ReaderValue) /\ made' \in Seq(ReadNode)
    BY <1>0, <1>r, <2>1, <2>3, <2>4, BeginObjectType DEF RTop
  <2> QED BY <1>0, <1>a, <1>q, <2>1, <2>5
<1>11. ASSUME ReadTraits PROVE ReaderInv' /\ stream' = stream
  <2> DEFINE g == NamesFrame(Tok.v, Tok.n + 1)
  <2>1. /\ ExpectsValue /\ Tok.t = "traits" /\ Advance /\ rstack' = Append(rstack, g)
        /\ UNCHANGED <<objTab, strTab, traitTab, made>>
    BY <1>11 DEF ReadTraits, NamesFrame, tables
  <2>2. Tok.n + 1 \in Nat /\ Tok.v \in Traits BY <1>0, <1>v, <2>1, TokenAt
  <2>3. g \in ReadFrame /\ g.what = "names" /\ g.hdr = Tok.v
    BY <2>2, CalledType DEF Called
  <2> HIDE DEF g
  <2>4. WellFormed(g) BY <2>2, <2>3 DEF WellFormed
  <2> QED BY <1>0, <1>a, <1>q, <1>v, <2>1, <2>3, <2>4
<1>12. ASSUME ReadName PROVE ReaderInv' /\ stream' = stream
  <2> DEFINE names == Append(RTop.names, StringRead(Tok))
             tr == [cls |-> Head(names), members |-> Tail(names),
                    dyn |-> Dynamic[RTop.hdr], ext |-> External[RTop.hdr]]
             g == [RTop EXCEPT !.names = names, !.left = @ - 1]
  <2>1. /\ ExpectsName /\ IsString(Tok) /\ strTab' = StringTableAfter(Tok) /\ Advance
        /\ IF RTop.left > 1
           THEN rstack' = Append(RBelow, g) /\ UNCHANGED <<objTab, traitTab, made>>
           ELSE traitTab' = Append(traitTab, tr) /\ BeginObject(tr, RBelow)
    BY <1>12 DEF ReadName
  <2>2. RTop.what = "names" /\ More /\ RTop.hdr \in Traits
    BY <1>r, <2>1 DEF ExpectsName, WellFormed
  <2>3. StringRead(Tok) \in Strings \cup {None} /\ strTab' \in Seq(Strings)
    BY <1>0, <2>1, <2>2, StringType
  <2>4. names \in Seq(Strings \cup {None}) /\ Len(names) > 0
    <3>1. RTop.names \in Seq(Strings \cup {None}) BY <1>r, FieldTypes
    <3>2. /\ names \in Seq(Strings \cup {None}) /\ Len(names) = Len(RTop.names) + 1
      BY <2>3, <3>1, Appended
    <3>3. Len(RTop.names) \in Nat BY <3>1, Elements
    <3> QED BY <3>2, <3>3
  <2> HIDE DEF names
  <2>5. CASE RTop.left > 1
    <3>1. rstack' = Append(RBelow, g) /\ UNCHANGED <<objTab, traitTab, made>> BY <2>1, <2>5
    <3>2. RTop.left > 0 BY <1>r, <2>5, FieldTypes
    <3>3. g \in ReadFrame /\ g.what = RTop.what /\ g.hdr = RTop.hdr
      BY <1>r, <2>4, <3>2, FrameSteps
    <3> HIDE DEF g
    <3>4. WellFormed(g) BY <2>2, <3>3 DEF WellFormed
    <3> QED BY <1>0, <1>a, <1>p, <1>q, <2>1, <2>3, <3>1, <3>3, <3>4
  <2>6. CASE ~(RTop.left > 1)
    <3>1. traitTab' = Append(traitTab, tr) /\ BeginObject(tr, RBelow) BY <2>1, <2>6
    <3>2. tr \in TraitRecord
      <4>1. Head(names) \in Strings \cup {None} /\ Tail(names) \in Seq(Strings \cup {None})
        BY <2>4
      <4>2. Dynamic[RTop.hdr] \in BOOLEAN /\ External[RTop.hdr] \in BOOLEAN
        BY <2>2, StreamAssumption
      <4> QED BY <4>1, <4>2 DEF TraitRecord
    <3> HIDE DEF tr
    <3>3. Len(rstack) > 1 BY <1>l, <2>2
    <3>4. /\ RBelow \in Seq(ReadFrame) /\ Shaped(RBelow)
          /\ RBelow[Len(RBelow)].left > 0 /\ RBelow[Len(RBelow)].what \notin {"names", "type"}
      BY <2>2, <3>3, ReadTop DEF Calls
    <3>5. /\ rstack' \in Seq(ReadFrame) /\ Shaped(rstack')
          /\ objTab' \in Seq(ReaderValue) /\ made' \in Seq(ReadNode)
      BY <3>1, <3>2, <3>4, BeginObjectType
    <3>6. traitTab' \in Seq(TraitRecord) BY <1>0, <3>1, <3>2, Appended
    <3> QED BY <1>0, <1>a, <1>q, <2>1, <2>3, <3>5, <3>6
  <2> QED BY <2>5, <2>6
<1>13. ASSUME ReadKey PROVE ReaderInv' /\ stream' = stream
  <2> DEFINE k == StringRead(Tok)
             g == [RTop EXCEPT !.left = 1, !.key = k]
             h == [RTop EXCEPT !.dyn = FALSE]
  <2>1. /\ ExpectsKey /\ IsString(Tok) /\ strTab' = StringTableAfter(Tok) /\ Advance
        /\ rstack' = IF k \in {Empty, None} THEN AfterKeys ELSE Append(RBelow, g)
        /\ UNCHANGED <<objTab, traitTab, made>>
    BY <1>13 DEF ReadKey
  <2>2. More /\ RTop.what \in {"values", "entries"} /\ RTop.dyn BY <2>1 DEF ExpectsKey
  <2>3. k \in Strings \cup {None} /\ strTab' \in Seq(Strings)
    BY <1>0, <2>1, <2>2, StringType
  <2> HIDE DEF k
  <2>4. CASE k \notin {Empty, None}
    <3>1. g \in ReadFrame /\ g.what = RTop.what /\ g.hdr = RTop.hdr /\ g.dyn = RTop.dyn
      BY <1>r, <2>3, <2>4, FrameSteps
    <3> HIDE DEF g
    <3>2. WellFormed(g) BY <1>r, <3>1 DEF WellFormed
    <3> QED BY <1>0, <1>a, <1>p, <1>q, <2>1, <2>3, <2>4, <3>1, <3>2
  <2>5. CASE k \in {Empty, None} /\ RTop.what = "entries"
    <3>1. Len(rstack) > 1 BY <1>l, <2>5
    <3>2. rstack' = RBelow BY <2>1, <2>5 DEF AfterKeys
    <3> QED BY <1>0, <1>a, <1>q, <2>1, <2>3, <3>1, <3>2, ReadTop
  <2>6. CASE k \in {Empty, None} /\ RTop.what # "entries"
    <3>1. rstack' = Append(RBelow, h) BY <2>1, <2>6 DEF AfterKeys
    <3>2. h \in ReadFrame /\ h.what = RTop.what /\ h.hdr = RTop.hdr BY <1>r, FrameSteps
    <3> HIDE DEF h
    <3>3. WellFormed(h) BY <1>r, <2>6, <3>2 DEF WellFormed
    <3> QED BY <1>0, <1>a, <1>p, <1>q, <2>1, <2>3, <3>1, <3>2, <3>3
  <2> QED BY <2>4, <2>5, <2>6
<1>14. ASSUME ReadReturn PROVE ReaderInv' /\ stream' = stream
  <2> DEFINE caller == rstack[Len(rstack) - 1]
  <2>1. /\ Len(rstack) > 1 /\ Complete(RTop) /\ objTab' = ObjTabAfterReturn(RTop)
        /\ made' = Stored(caller, RTop.node)
        /\ rstack' = Append(SubSeq(rstack, 1, Len(rstack) - 2), Taken(caller, RTop.node))
        /\ UNCHANGED <<pos, strTab, traitTab, stream, rstat>>
    BY <1>14 DEF ReadReturn
  <2>2. /\ RBelow \in Seq(ReadFrame) /\ Shaped(RBelow) /\ RBelow[Len(RBelow)] = caller
        /\ SubSeq(rstack, 1, Len(rstack) - 2) = SubSeq(RBelow, 1, Len(RBelow) - 1)
        /\ Calls(caller, RTop)
    BY <1>r, <2>1, ReadTop, TwoOff DEF RBelow
  <2>3. RTop.node \in ReaderValue BY <1>r, FieldTypes
  <2>4. RTop.what # "entries" BY <1>r, <2>1 DEF Complete, WellFormed
  <2>5. caller.left > 0 /\ caller \in ReadFrame
    <3>1. RBelow # <<>> BY <2>2 DEF Shaped
    <3> QED BY <2>2, <2>4, <3>1, Popped DEF Calls
  <2> HIDE DEF caller
  <2>6. rstack' \in Seq(ReadFrame) /\ Shaped(rstack') BY <2>1, <2>2, <2>3, <2>5, TakenKeeps
  <2>7. made' \in Seq(ReadNode) BY <1>0, <2>1, <2>3, <2>5, StoredType
  <2>8. objTab' \in Seq(ReaderValue) BY <1>0, <2>1, <2>3, Appended DEF ObjTabAfterReturn
  <2> QED BY <1>0, <1>q, <2>1, <2>6, <2>7, <2>8
<1>15. ASSUME ReadDone \/ ReadRaises \/ ReadPastEnd PROVE ReaderInv' /\ stream' = stream
  <2>1. /\ UNCHANGED <<pos, rstack, objTab, strTab, traitTab, made, stream>>
        /\ rstat' \in {"done", "error"}
    BY <1>15 DEF ReadDone, ReadRaises, ReadPastEnd, tables
  <2> QED BY <1>0, <1>q, <1>r, <2>1
<1> QED BY <1>1, <1>2, <1>3, <1>4, <1>5, <1>6, <1>7, <1>8, <1>9, <1>10, <1>11, <1>12,
           <1>13, <1>14, <1>15 DEF ReaderNext

-----------------------------------------------------------------------------
(***************************************************************************)
(* Every variable of both sides has its type, whichever implementation     *)
(* reads, whoever writes and wherever the string is cut: ser3_serialize    *)
(* and des3_deserialize.                                                   *)
(***************************************************************************)
TypeInv == TypeOK /\ Shaped(rstack)

LEMMA HandedType ==
  ASSUME stream \in Seq(Token), NEW kept \in 0 .. Len(stream) - 1, NEW s \in CutAfter(kept)
  PROVE  s \in Seq(Token)
<1> DEFINE tok == stream[kept + 1]
           rest == SubSeq(stream, 1, kept)
<1>1. Len(stream) \in Nat /\ kept + 1 \in 1 .. Len(stream) /\ kept \in 0 .. Len(stream)
  BY Elements
<1>2. tok \in Token /\ rest \in Seq(Token) BY <1>1, Elements, Beginning
<1>3. s = rest \/ (tok.t = "str" /\ \E v \in Strings \ {Empty} : s = Append(rest, [tok EXCEPT !.v = v]))
  BY DEF CutAfter
<1>4. ASSUME tok.t = "str", NEW v \in Strings \ {Empty}
      PROVE  [tok EXCEPT !.v = v] \in Token
  <2> HIDE DEF tok
  <2>1. tok \in [t : {"str"}, n : {0}, v : Strings \ {Empty}, m : BOOLEAN]
    BY <1>2, <1>4 DEF Token
  <2>2. [tok EXCEPT !.v = v] \in [t : {"str"}, n : {0}, v : Strings \ {Empty}, m : BOOLEAN]
    BY <2>1
  <2> QED BY <2>2 DEF Token
<1> HIDE DEF tok, rest
<1> QED BY <1>2, <1>3, <1>4, Appended

LEMMA TypesBegin == Init => TypeInv
<1> SUFFICES ASSUME Init PROVE TypeInv
  OBVIOUS
<1>1. WriterTypeOK BY InitType DEF Init
<1>2. 1 \in ReaderValue BY DEF ReaderValue
<1>3. ValuesFrame(1, 1) \in ReadFrame /\ ValuesFrame(1, 1).what = "values"
  BY <1>2, CalledType DEF Called
<1>4. MadeNode("root", None) \in ReadNode
  <2>1. \A S : <<>> \in Seq(S) OBVIOUS
  <2> QED BY <2>1 DEF MadeNode, ReadNode
<1>5. /\ rstack = <<ValuesFrame(1, 1)>> /\ made = <<MadeNode("root", None)>>
      /\ pos = 1 /\ rstat = "idle" /\ objTab = <<>> /\ strTab = <<>> /\ traitTab = <<>>
      /\ sent = <<>>
  BY DEF Init, ReaderInit
<1>6. rstack \in Seq(ReadFrame) /\ made \in Seq(ReadNode) BY <1>3, <1>4, <1>5, Single
<1>7. ReaderTypeOK /\ sent \in Seq(Token)
  <2>1. \A S : <<>> \in Seq(S) OBVIOUS
  <2> QED BY <1>5, <1>6, <2>1 DEF ReaderTypeOK
<1>8. Shaped(rstack)
  <2>1. Len(rstack) = 1 /\ rstack[1] = ValuesFrame(1, 1) /\ rstack # <<>> BY <1>5
  <2>2. WellFormed(rstack[1]) BY <1>3, <2>1 DEF WellFormed
  <2> QED BY <1>3, <2>1, <2>2 DEF Shaped
<1> QED BY <1>1, <1>7, <1>8 DEF TypeInv, TypeOK

LEMMA TypesKept == TypeInv /\ [Next]_vars => TypeInv'
<1> SUFFICES ASSUME TypeInv, [Next]_vars PROVE TypeInv'
  OBVIOUS
<1>0. /\ WriterTypeOK /\ ReaderTypeOK /\ sent \in Seq(Token) /\ stream \in Seq(Token)
      /\ Shaped(rstack)
  BY DEF TypeInv, TypeOK, WriterTypeOK
<1>1. CASE Write
  <2>1. /\ ClientNext
        /\ UNCHANGED <<pos, rstack, objTab, strTab, traitTab, made, rstat, sent>>
    BY <1>1 DEF Write, readerVars
  <2>2. WriterTypeOK' BY <1>0, <2>1, ClientTypes
  <2>3. ReaderTypeOK' BY <1>0, <2>1 DEF ReaderTypeOK
  <2> QED BY <1>0, <2>1, <2>2, <2>3 DEF TypeInv, TypeOK
<1>2. CASE Hand
  <2>1. /\ rstat' = "run" /\ sent' = stream
        /\ stream' = stream \/ \E kept \in 0 .. Len(stream) - 1 : stream' \in CutAfter(kept)
        /\ UNCHANGED <<objCache, objIndex, strCache, strIndex, traitCache, traitIndex,
                       stack, heap, met, pos, rstack, objTab, strTab, traitTab, made>>
    BY <1>2 DEF Hand, caches, tables
  <2>2. stream' \in Seq(Token) BY <1>0, <2>1, HandedType
  <2>3. WriterTypeOK' BY <1>0, <2>1, <2>2 DEF WriterTypeOK
  <2>4. ReaderTypeOK' BY <1>0, <2>1 DEF ReaderTypeOK
  <2> QED BY <1>0, <2>1, <2>3, <2>4 DEF TypeInv, TypeOK
<1>3. CASE Read
  <2>1. /\ ReaderNext
        /\ UNCHANGED <<objCache, objIndex, strCache, strIndex, traitCache, traitIndex,
                       stack, heap, met, sent>>
    BY <1>3 DEF Read, caches
  <2>2. ReaderInv' /\ stream' = stream BY <1>0, <2>1, ReaderSteps DEF ReaderInv
  <2>3. WriterTypeOK' BY <1>0, <2>1, <2>2 DEF WriterTypeOK
  <2> QED BY <1>0, <2>1, <2>2, <2>3 DEF TypeInv, TypeOK, ReaderInv
<1>4. CASE UNCHANGED vars
  BY <1>0, <1>4 DEF TypeInv, TypeOK, WriterTypeOK, ReaderTypeOK, vars, writerVars, readerVars
<1> QED BY <1>1, <1>2, <1>3, <1>4 DEF Next

THEOREM RoundTripTypes == Spec => []TypeOK
<1>1. TypeInv => TypeOK BY DEF TypeInv
<1> QED BY <1>1, TypesBegin, TypesKept, PTL DEF Spec

-----------------------------------------------------------------------------
(***************************************************************************)
(* What follows needs that the writer can be followed at all.  The         *)
(* conditions are those that the runs show to be needed: the string cache  *)
(* tells strings apart, the trait cache tells traits apart and has a place *)
(* for all of them, no dynamic property has the empty name that ends the   *)
(* list of them, no XML is empty, and it is the C extension that reads a   *)
(* string that was cut.                                                    *)
(***************************************************************************)
Faithful ==
  /\ \A x, y \in Strings : StrKey[x] = StrKey[y] => x = y
  /\ \A tr, u \in Traits : TraitKey(tr) = TraitKey(u) => tr = u
  /\ \A tr \in Traits : TraitKey(tr) # NoName
  /\ Empty \notin Keys /\ 0 \notin XmlSizes
  /\ MayCut => Native

(***************************************************************************)
(* The reader begins when the writer has finished.  Its step is compared   *)
(* with the one by which the writer wrote the same token, and that is a    *)
(* state of the past: snapshots are kept as values.                        *)
(***************************************************************************)
Holder == Obj \cup {Root}

Now == [stream |-> stream, objCache |-> objCache, objIndex |-> objIndex,
        strCache |-> strCache, strIndex |-> strIndex, traitCache |-> traitCache,
        traitIndex |-> traitIndex, stack |-> stack, heap |-> heap, met |-> met]

Typed(s) ==
  /\ s.stream \in Seq(Token)
  /\ s.objCache \in [Obj -> Index] /\ s.objIndex \in Nat
  /\ s.strCache \in [StrKeys -> Index] /\ s.strIndex \in Nat
  /\ s.traitCache \in [TraitKeys -> Index] /\ s.traitIndex \in Nat
  /\ s.stack \in Seq(Frame)
  /\ s.heap \in [Holder -> Node]
  /\ s.met \in Nat

\* What is written of traits, and what is owed to an object that has them.
Full(tr) == <<WireName(tr)>> \o Members[tr]
Sealed(tr) == IF External[tr] THEN <<>> ELSE Members[tr]
Owed(tr) == IF External[tr] THEN ExtSize[WireName(tr)] ELSE Len(Members[tr])
OpenEnded(tr) == Dynamic[tr] /\ ~External[tr]

TopOf(s) == s.stack[Len(s.stack)]
Met(s, o) == s.heap[o].kind # "unmet"
TrOf(s, o) == IF s.heap[o].kind = "ac" THEN ACTraits ELSE s.heap[o].tr
Extra(s, o) == IF s.heap[o].kind = "ac" THEN 1 ELSE 0

\* Two frames for an array with entries, the one for the entries above.
Pair(s, i) == s.stack[i].obj = s.stack[i + 1].obj

\* Inside how many collections the next value is.
Opened(s) ==
  IF s.stack = <<>> THEN 0 ELSE s.heap[TopOf(s).obj].depth + Extra(s, TopOf(s).obj)

\* The reader does not know of an object before the names of its traits and,
\* of a collection, the header of its source array.
Pending(s) ==
  /\ s.stack # <<>>
  /\ \/ TopOf(s).src = TRUE
     \/ TopOf(s).names # <<>> /\ s.heap[TopOf(s).obj].kind # "vector"
Pends(s, o) == Pending(s) /\ TopOf(s).obj = o
Naming(s) ==
  /\ s.stack # <<>> /\ TopOf(s).names # <<>>
  /\ s.heap[TopOf(s).obj].kind # "vector"
Waiting(s) == IF Pending(s) THEN 1 ELSE 0
Unnamed(s) == IF Naming(s) THEN 1 ELSE 0

\* How many entries the reader's object table has.
Known(s) == s.objIndex - Opened(s) - Waiting(s)

-----------------------------------------------------------------------------
(***************************************************************************)
(* The invariant of the snapshots.                                         *)
(***************************************************************************)
Numbered(s) ==
  /\ \A o \in Holder : IF Met(s, o) THEN s.heap[o].nth \in 1 .. s.met
                       ELSE s.heap[o].nth = 0 /\ s.heap[o].depth = 0
  /\ \A o, p \in Holder :
       Met(s, o) /\ Met(s, p) /\ s.heap[o].nth = s.heap[p].nth => o = p
  /\ s.heap[Root].kind = "root" /\ s.heap[Root].depth = 0 /\ s.heap[Root].nth = 1
  /\ \A o \in Obj : s.heap[o].kind # "root"

KidsMet(s) ==
  \A o \in Holder : \A i \in 1 .. Len(s.heap[o].kids) :
    s.heap[o].kids[i].val \in Obj => Met(s, s.heap[o].kids[i].val)

Cached(s) ==
  /\ \A o \in Obj : s.objCache[o] # NotCached <=> Met(s, o)
  /\ \A k \in StrKeys : s.strCache[k] < s.strIndex
  /\ \A k \in TraitKeys : s.traitCache[k] < s.traitIndex
  /\ \A o \in Obj : s.heap[o].kind \in {"object", "ac"} =>
       TrOf(s, o) \in Traits /\ s.traitCache[TraitKey(TrOf(s, o))] # NotCached
  /\ \A o \in Obj : s.heap[o].kind = "object" => TrOf(s, o) # ACTraits
  /\ s.strCache[StrKey[Empty]] = NotCached

\* The stack is a path through the graph.
Path(s) ==
  /\ s.stack # <<>> => s.stack[1].obj = Root
  /\ \A i \in 1 .. Len(s.stack) : Met(s, s.stack[i].obj) /\ s.heap[s.stack[i].obj].kind # "leaf"
  /\ \A i, j \in 1 .. Len(s.stack) : i < j /\ s.stack[i].obj = s.stack[j].obj =>
       j = i + 1 /\ s.heap[s.stack[i].obj].kind = "hash"
  /\ \A i, j \in 1 .. Len(s.stack) : i < j /\ s.stack[i].obj # s.stack[j].obj =>
       s.heap[s.stack[i].obj].depth + Extra(s, s.stack[i].obj) <= s.heap[s.stack[j].obj].depth
  /\ \A i \in 1 .. Len(s.stack) - 1 :
       /\ s.stack[i].names = <<>> /\ s.stack[i].src = FALSE /\ s.stack[i].key = None
       /\ ~Pair(s, i) =>
            LET o == s.stack[i].obj
                p == s.stack[i + 1].obj
            IN  /\ s.heap[p].depth = s.heap[o].depth + Extra(s, o)
                /\ s.heap[o].kids # <<>>
                /\ s.heap[o].kids[Len(s.heap[o].kids)].val = p
       /\ Pair(s, i) =>
            /\ s.stack[i + 1].names = <<>> /\ s.stack[i + 1].src = FALSE
            /\ s.stack[i + 1].dyn = TRUE \/ (i + 1 = Len(s.stack) /\ s.stack[i + 1].left = 0)

\* Of an object whose header is out, nothing else is written yet.
Suffix(u, v) ==
  Len(u) <= Len(v) /\ \A i \in 1 .. Len(u) : u[i] = v[Len(v) - Len(u) + i]
Begun(s) ==
  s.stack # <<>> =>
    LET f == TopOf(s)
        o == f.obj
        w == s.heap[o]
    IN  /\ f.src = TRUE => w.kind = "ac" /\ f.left = f.len /\ f.members = <<>> /\ f.dyn = FALSE
        /\ f.names # <<>> => w.kind \in {"ac", "object", "vector"}
        /\ Naming(s) =>
             /\ w.kind = "ac" => f.src = TRUE
             /\ Suffix(f.names, Full(TrOf(s, o)))
             /\ s.traitCache[TraitKey(TrOf(s, o))] = s.traitIndex - 1
             /\ \A k \in TraitKeys : k # TraitKey(TrOf(s, o)) => s.traitCache[k] < s.traitIndex - 1
        /\ w.kind = "object" /\ f.names # <<>> =>
             f.left = Owed(w.tr) /\ f.members = Sealed(w.tr) /\ f.dyn = OpenEnded(w.tr)
        /\ Pending(s) =>
             /\ f.key = None /\ w.kids = <<>> /\ w.nth = s.met /\ o \in Obj
             /\ s.objCache[o] + ObjSlots(w.kind) = s.objIndex
        /\ w.kind = "vector" /\ f.names # <<>> => Len(f.names) = 1

\* A collection that may hold nothing new leaves every object at depth 0.
FlatSnap(s) == \A o \in Obj : s.heap[o].depth = 0

WInv(s) ==
  /\ Typed(s) /\ Numbered(s) /\ KidsMet(s) /\ Cached(s) /\ Path(s) /\ Begun(s)
  /\ ~NestedInAC => FlatSnap(s)
-----------------------------------------------------------------------------
(***************************************************************************)
(* The steps of the writer, from one snapshot to the next.                 *)
(***************************************************************************)
Says(s, t, tok) == t.stream = Append(s.stream, tok)
SameBelow(s, t) == \A i \in 1 .. Len(s.stack) - 1 : t.stack[i] = s.stack[i]
SameObjects(s, t) == t.objCache = s.objCache /\ t.objIndex = s.objIndex
SameStrings(s, t) == t.strCache = s.strCache /\ t.strIndex = s.strIndex
SameTraits(s, t) == t.traitCache = s.traitCache /\ t.traitIndex = s.traitIndex
SameGraph(s, t) == t.heap = s.heap /\ t.met = s.met

\* A string is written.
Puts(s, t, x, m) ==
  \/ x = Empty /\ Says(s, t, EmptyTok(m)) /\ SameStrings(s, t)
  \/ /\ x # Empty /\ s.strCache[StrKey[x]] # NotCached
     /\ Says(s, t, StrRefTok(s.strCache[StrKey[x]], m)) /\ SameStrings(s, t)
  \/ /\ x # Empty /\ s.strCache[StrKey[x]] = NotCached /\ Says(s, t, StrTok(x, m))
     /\ t.strCache = [s.strCache EXCEPT ![StrKey[x]] = s.strIndex]
     /\ t.strIndex = s.strIndex + 1

\* The function at the top gets its value, and the object it writes holds it.
Wants(s) ==
  s.stack # <<>> /\ TopOf(s).names = <<>> /\ TopOf(s).src = FALSE /\ TopOf(s).left > 0
ServedOf(f) == [f EXCEPT !.left = f.left - 1, !.key = None]
Serves(s, t) ==
  /\ Wants(s) /\ SameBelow(s, t) /\ t.stack[Len(s.stack)] = ServedOf(TopOf(s))
KeyHere(s) == NextKey(TopOf(s), Len(s.heap[TopOf(s).obj].kids))
Stores(s, t, v, p) ==
  /\ t.heap[p].kind = s.heap[p].kind /\ t.heap[p].tr = s.heap[p].tr
  /\ t.heap[p].nth = s.heap[p].nth /\ t.heap[p].depth = s.heap[p].depth
  /\ t.heap[p].kids = IF p = TopOf(s).obj
                      THEN Append(s.heap[p].kids, [key |-> KeyHere(s), val |-> v])
                      ELSE s.heap[p].kids

GivesPlain(s, t, v) ==
  /\ Serves(s, t) /\ Len(t.stack) = Len(s.stack)
  /\ \A p \in Holder : Stores(s, t, v, p)
  /\ t.met = s.met /\ SameObjects(s, t) /\ SameTraits(s, t)
  /\ \/ v \in Scalars /\ Says(s, t, ScalarTok(v)) /\ SameStrings(s, t)
     \/ v \in Strings /\ Puts(s, t, v, TRUE)
     \/ /\ v \in Obj /\ s.objCache[v] # NotCached
        /\ Says(s, t, RefTok(s.objCache[v])) /\ SameStrings(s, t)

\* The value is an object that was not met before; frames write what it holds.
Meets(s, t, o) ==
  /\ Serves(s, t) /\ ~Met(s, o)
  /\ NestedInAC \/ s.heap[TopOf(s).obj].kind # "ac"
  /\ \A p \in Holder \ {o} : Stores(s, t, o, p)
  /\ t.heap[o].kids = <<>> /\ t.heap[o].nth = s.met + 1 /\ t.heap[o].depth = Opened(s)
  /\ t.heap[o].kind \notin {"unmet", "root"}
  /\ t.met = s.met + 1
  /\ t.objCache = [s.objCache EXCEPT ![o] = s.objIndex]
  /\ t.objIndex = s.objIndex + ObjSlots(t.heap[o].kind)
  /\ SameStrings(s, t)

GivesLeaf(s, t, o) ==
  /\ Meets(s, t, o) /\ Len(t.stack) = Len(s.stack) /\ t.heap[o].kind = "leaf"
  /\ Says(s, t, LeafTok) \/ \E n \in Nat \ {0} : Says(s, t, XmlTok(n))
  /\ SameTraits(s, t)

\* What is written with a header and one frame.
Filling(kind, n, left, names, tok) ==
  \/ kind = "array" /\ left = n /\ names = <<>> /\ tok = ArrayTok(n)
  \/ kind = "dict" /\ left = 2 * n /\ names = <<>> /\ tok = DictTok(n)
  \/ kind = "vector" /\ left = n /\ names = <<TypeName>> /\ tok = VectorTok(n)
Pushes(s, t, f) == Len(t.stack) = Len(s.stack) + 1 /\ t.stack[Len(s.stack) + 1] = f
GivesFilled(s, t, o, n, left, names, tok) ==
  /\ Meets(s, t, o) /\ Pushes(s, t, NewFrame(o, names, FALSE, left, <<>>, FALSE))
  /\ Filling(t.heap[o].kind, n, left, names, tok) /\ Says(s, t, tok)
  /\ SameTraits(s, t)

GivesNamed(s, t, o, len) ==
  /\ Meets(s, t, o) /\ t.heap[o].kind = "hash" /\ Len(t.stack) = Len(s.stack) + 2
  /\ t.stack[Len(s.stack) + 1] = NewFrame(o, <<>>, FALSE, len, <<>>, FALSE)
  /\ t.stack[Len(s.stack) + 2] = NewFrame(o, <<>>, FALSE, 0, <<>>, TRUE)
  /\ Says(s, t, NamedArrayTok(len)) /\ SameTraits(s, t)

\* Traits are a reference, or the header of a description whose names follow.
Knows(s, tr) == s.traitCache[TraitKey(tr)] # NotCached
Describes(s, t, tr) ==
  IF Knows(s, tr)
  THEN Says(s, t, TraitRefTok(s.traitCache[TraitKey(tr)])) /\ SameTraits(s, t)
  ELSE /\ Says(s, t, TraitsTok(tr))
       /\ t.traitCache = [s.traitCache EXCEPT ![TraitKey(tr)] = s.traitIndex]
       /\ t.traitIndex = s.traitIndex + 1
NamesOf(s, tr) == IF Knows(s, tr) THEN <<>> ELSE Full(tr)
DescribedFrame(s, o, tr, len) ==
  IF tr = ACTraits THEN NewFrame(o, NamesOf(s, tr), TRUE, len, <<>>, FALSE)
  ELSE NewFrame(o, NamesOf(s, tr), FALSE, Owed(tr), Sealed(tr), OpenEnded(tr))
GivesDescribed(s, t, o, tr, len) ==
  /\ Meets(s, t, o) /\ Describes(s, t, tr) /\ Pushes(s, t, DescribedFrame(s, o, tr, len))
  /\ IF tr = ACTraits THEN t.heap[o].kind = "ac"
     ELSE t.heap[o].kind = "object" /\ t.heap[o].tr = tr

\* The frame at the top is changed.
Turns(s, t, f) ==
  /\ s.stack # <<>> /\ Len(t.stack) = Len(s.stack) /\ SameBelow(s, t) /\ TopOf(t) = f
  /\ SameObjects(s, t) /\ SameTraits(s, t) /\ SameGraph(s, t)

Shorter(f) == [f EXCEPT !.names = Tail(f.names)]
SaysName(s, t) ==
  /\ Turns(s, t, Shorter(TopOf(s))) /\ TopOf(s).names # <<>>
  /\ Puts(s, t, Head(TopOf(s).names), FALSE)

SaysSource(s, t) ==
  /\ Turns(s, t, [TopOf(s) EXCEPT !.src = FALSE])
  /\ TopOf(s).names = <<>> /\ TopOf(s).src = TRUE
  /\ Says(s, t, ArrayTok(TopOf(s).len)) /\ SameStrings(s, t)

Open0(s) == TopOf(s).names = <<>> /\ TopOf(s).left = 0 /\ TopOf(s).dyn = TRUE
WritesKey(s, t, k) ==
  /\ Turns(s, t, [TopOf(s) EXCEPT !.left = 1, !.key = k]) /\ Open0(s)
  /\ Puts(s, t, k, FALSE)

Closes(s, t) ==
  /\ Turns(s, t, [TopOf(s) EXCEPT !.dyn = FALSE]) /\ Open0(s)
  /\ Says(s, t, EmptyTok(FALSE)) /\ SameStrings(s, t)

Returns(s, t) ==
  /\ s.stack # <<>> /\ TopOf(s).names = <<>> /\ TopOf(s).src = FALSE
  /\ TopOf(s).left = 0 /\ TopOf(s).dyn = FALSE
  /\ Len(t.stack) = Len(s.stack) - 1 /\ SameBelow(s, t) /\ t.stream = s.stream
  /\ SameObjects(s, t) /\ SameStrings(s, t) /\ SameTraits(s, t) /\ SameGraph(s, t)

GivesNew(s, t, o) ==
  \/ GivesLeaf(s, t, o)
  \/ \E n, left \in Nat, names \in Seq(Strings), tok \in Token :
       GivesFilled(s, t, o, n, left, names, tok)
  \/ \E len \in Nat : GivesNamed(s, t, o, len)
  \/ \E tr \in Traits, len \in Nat : GivesDescribed(s, t, o, tr, len)

WStep(s, t) ==
  \/ \E v \in Values : GivesPlain(s, t, v)
  \/ \E o \in Obj : GivesNew(s, t, o)
  \/ SaysName(s, t)
  \/ SaysSource(s, t)
  \/ \E k \in Keys \ {Empty} : WritesKey(s, t, k)
  \/ Closes(s, t)
  \/ Returns(s, t)

LEMMA NowIs ==
  /\ Now.stream = stream /\ Now.objCache = objCache /\ Now.objIndex = objIndex
  /\ Now.strCache = strCache /\ Now.strIndex = strIndex /\ Now.traitCache = traitCache
  /\ Now.traitIndex = traitIndex /\ Now.stack = stack /\ Now.heap = heap /\ Now.met = met
BY Zenon DEF Now

LEMMA NowTyped == WriterTypeOK => Typed(Now)
BY NowIs, Zenon DEF WriterTypeOK, Typed, Holder

\* The stack when the function at the top has got its value.
LEMMA ServedBelow ==
  ASSUME WriterTypeOK, WantsValue, NEW b, b = Append(Below, Served)
  PROVE  /\ b \in Seq(Frame) /\ Len(b) = Len(stack) /\ b[Len(stack)] = ServedOf(Top)
         /\ \A i \in 1 .. Len(stack) - 1 : b[i] = stack[i]
         /\ Len(stack) \in Nat \ {0} /\ stack # <<>>
<1>1. Served \in Frame /\ stack \in Seq(Frame) /\ stack # <<>>
  BY ServedType DEF WriterTypeOK, WantsValue, Busy
<1>2. Served = ServedOf(Top) BY DEF Served, ServedOf
<1> HIDE DEF Served
<1>3. /\ b \in Seq(Frame) /\ Len(b) = Len(stack) /\ b[Len(stack)] = Served
      /\ \A i \in 1 .. Len(stack) - 1 : b[i] = stack[i]
  BY <1>1, Replaced DEF Below
<1>4. Len(stack) \in Nat \ {0} BY <1>1, Elements
<1> QED BY <1>1, <1>2, <1>3, <1>4

LEMMA ServesNow ==
  ASSUME WriterTypeOK, WantsValue, NEW s, s.stack = stack, NEW t,
         NEW b, b = Append(Below, Served), \A i \in 1 .. Len(b) : t.stack[i] = b[i]
  PROVE  Serves(s, t)
<1>1. /\ Len(b) = Len(stack) /\ b[Len(stack)] = ServedOf(Top)
      /\ \A i \in 1 .. Len(stack) - 1 : b[i] = stack[i]
      /\ Len(stack) \in Nat \ {0} /\ stack # <<>>
  BY ServedBelow
<1>2. TopOf(s) = Top BY DEF TopOf, Top
<1>3. Wants(s)
  <2>1. Top.src \in BOOLEAN BY TopType DEF WantsValue, Frame
  <2> QED BY <1>1, <1>2, <2>1 DEF Wants, WantsValue
<1>4. SameBelow(s, t) /\ t.stack[Len(s.stack)] = ServedOf(TopOf(s))
  BY <1>1, <1>2 DEF SameBelow
<1> QED BY <1>3, <1>4 DEF Serves

\* The graph when the slot is found to hold v.
LEMMA HeldGraph ==
  ASSUME WriterTypeOK, WantsValue, NEW s, s.stack = stack, s.heap = heap,
         NEW v \in Values, NEW p \in Holder
  PROVE  LET g == Holding(v)[p]
         IN  /\ g.kind = heap[p].kind /\ g.tr = heap[p].tr /\ g.nth = heap[p].nth
             /\ g.depth = heap[p].depth
             /\ g.kids = IF p = TopOf(s).obj
                         THEN Append(heap[p].kids, [key |-> KeyHere(s), val |-> v])
                         ELSE heap[p].kids
<1>1. heap \in [Holder -> Node] /\ Top.obj \in Holder
  BY ServedType DEF WriterTypeOK, Holder
<1>2. TopOf(s) = Top /\ KeyHere(s) = NextKey(Top, Len(heap[Top.obj].kids))
  BY DEF TopOf, Top, KeyHere
<1> DEFINE k == [key |-> NextKey(Top, Len(heap[Top.obj].kids)), val |-> v]
<1>3. Holding(v) = [heap EXCEPT ![Top.obj].kids = Append(@, k)] BY DEF Holding
<1> HIDE DEF k
<1>4. /\ Holding(v)[p].kind = heap[p].kind /\ Holding(v)[p].tr = heap[p].tr
      /\ Holding(v)[p].nth = heap[p].nth /\ Holding(v)[p].depth = heap[p].depth
      /\ Holding(v)[p].kids = IF p = Top.obj THEN Append(heap[p].kids, k) ELSE heap[p].kids
  <2>1. heap[p] \in Node BY <1>1
  <2> QED BY <1>1, <1>3, <2>1 DEF Node
<1> QED BY <1>2, <1>4 DEF k

LEMMA MetGraph ==
  ASSUME WriterTypeOK, WantsValue, NEW o \in Obj, NEW kind \in Kinds,
         NEW tr \in Traits \cup {None}
  PROVE  /\ \A p \in Holder \ {o} : Meet(o, kind, tr)[p] = Holding(o)[p]
         /\ LET g == Meet(o, kind, tr)[o]
            IN  /\ g.kind = kind /\ g.tr = tr /\ g.kids = <<>> /\ g.nth = met + 1
                /\ g.depth = DepthHere
<1>1. Holding(o) \in [Holder -> Node] /\ o \in Holder
  BY HoldingType DEF Values, Holder
<1> HIDE DEF Holding
<1> QED BY <1>1 DEF Meet

\* A value that is no new object.
LEMMA PlainSteps ==
  ASSUME WriterTypeOK, WantsValue, NEW s, s = Now, NEW t, t = Now', NEW v \in Values,
         heap' = Holding(v), stack' = Append(Below, Served),
         UNCHANGED <<objCache, objIndex, traitCache, traitIndex, met>>,
         \/ v \in Scalars /\ Says(s, t, ScalarTok(v)) /\ SameStrings(s, t)
         \/ v \in Strings /\ Puts(s, t, v, TRUE)
         \/ /\ v \in Obj /\ s.objCache[v] # NotCached
            /\ Says(s, t, RefTok(s.objCache[v])) /\ SameStrings(s, t)
  PROVE  GivesPlain(s, t, v)
<1>s. /\ s.stack = stack /\ s.heap = heap /\ s.met = met /\ s.objCache = objCache
      /\ s.objIndex = objIndex /\ s.traitCache = traitCache /\ s.traitIndex = traitIndex
  BY NowIs
<1>t. /\ t.stack = stack' /\ t.heap = heap' /\ t.met = met' /\ t.objCache = objCache'
      /\ t.objIndex = objIndex' /\ t.traitCache = traitCache' /\ t.traitIndex = traitIndex'
  BY Zenon DEF Now
<1>1. Serves(s, t)
  <2>1. \A i \in 1 .. Len(stack') : t.stack[i] = stack'[i] BY <1>t
  <2> QED BY <1>s, <2>1, ServesNow
<1>2. Len(t.stack) = Len(s.stack) BY <1>s, <1>t, ServedBelow
<1>3. \A p \in Holder : Stores(s, t, v, p) BY <1>s, <1>t, HeldGraph DEF Stores
<1> QED BY <1>s, <1>t, <1>1, <1>2, <1>3 DEF GivesPlain, SameObjects, SameTraits

\* A new object.
LEMMA MeetSteps ==
  ASSUME WriterTypeOK, NEW s, s = Now, NEW t, t = Now', NEW o \in Obj,
         NEW kind \in Kinds \ {"unmet", "root"}, NEW tr \in Traits \cup {None},
         ~Met(s, o), FirstTime(o), Remember(o, kind), heap' = Meet(o, kind, tr),
         strCache' = strCache, strIndex' = strIndex,
         NEW b, b = Append(Below, Served), \A i \in 1 .. Len(b) : stack'[i] = b[i]
  PROVE  Meets(s, t, o) /\ t.heap[o].kind = kind /\ t.heap[o].tr = tr
<1>s. /\ s.stack = stack /\ s.heap = heap /\ s.met = met /\ s.objCache = objCache
      /\ s.objIndex = objIndex /\ s.strCache = strCache /\ s.strIndex = strIndex
  BY NowIs
<1>t. /\ t.stack = stack' /\ t.heap = heap' /\ t.met = met' /\ t.objCache = objCache'
      /\ t.objIndex = objIndex' /\ t.strCache = strCache' /\ t.strIndex = strIndex'
  BY Zenon DEF Now
<1>1. WantsValue /\ met' = met + 1 /\ (NestedInAC \/ heap[Top.obj].kind # "ac")
  BY DEF FirstTime
<1>2. Serves(s, t) BY <1>s, <1>t, <1>1, ServesNow
<1>3. TopOf(s) = Top /\ stack # <<>> BY <1>s, <1>1 DEF TopOf, Top, WantsValue, Busy
<1>4. /\ \A p \in Holder \ {o} : t.heap[p] = Holding(o)[p]
      /\ t.heap[o].kind = kind /\ t.heap[o].tr = tr /\ t.heap[o].kids = <<>>
      /\ t.heap[o].nth = met + 1 /\ t.heap[o].depth = DepthHere
  BY <1>t, <1>1, MetGraph
<1>5. \A p \in Holder \ {o} : Stores(s, t, o, p)
  <2>1. o \in Values BY DEF Values
  <2> QED BY <1>s, <1>1, <1>4, <2>1, HeldGraph DEF Stores
<1>6. DepthHere = Opened(s) BY <1>s, <1>3 DEF DepthHere, Opened, Extra
<1> QED BY <1>s, <1>t, <1>1, <1>2, <1>3, <1>4, <1>5, <1>6
    DEF Meets, Remember, SameStrings

\* What is said of a string.
LEMMA PutsNow ==
  ASSUME NEW s, s = Now, NEW t, t = Now', NEW x, NEW m, WriteUtf8vr(x, m)
  PROVE  Puts(s, t, x, m)
<1>s. s.stream = stream /\ s.strCache = strCache /\ s.strIndex = strIndex BY NowIs
<1>t. t.stream = stream' /\ t.strCache = strCache' /\ t.strIndex = strIndex' BY Zenon DEF Now
<1>1. CASE x = Empty /\ Emit(EmptyTok(m)) /\ UNCHANGED <<strCache, strIndex>>
  BY <1>s, <1>t, <1>1 DEF Puts, Says, Emit, SameStrings
<1>2. CASE /\ x # Empty /\ strCache[StrKey[x]] # NotCached
           /\ Emit(StrRefTok(strCache[StrKey[x]], m)) /\ UNCHANGED <<strCache, strIndex>>
  BY <1>s, <1>t, <1>2 DEF Puts, Says, Emit, SameStrings
<1>3. CASE /\ x # Empty /\ strCache[StrKey[x]] = NotCached /\ Emit(StrTok(x, m))
           /\ strCache' = [strCache EXCEPT ![StrKey[x]] = strIndex] /\ strIndex' = strIndex + 1
  BY <1>s, <1>t, <1>3 DEF Puts, Says, Emit
<1> QED BY <1>1, <1>2, <1>3 DEF WriteUtf8vr

\* A step that changes the frame at the top, and no table but that of strings.
LEMMA TurnSteps ==
  ASSUME WriterTypeOK, NEW s, s = Now, NEW t, t = Now', Busy, NEW f \in Frame,
         stack' = Append(Below, f),
         UNCHANGED <<objCache, objIndex, traitCache, traitIndex, heap, met>>
  PROVE  Turns(s, t, f)
<1>s. /\ s.stack = stack /\ s.heap = heap /\ s.met = met /\ s.objCache = objCache
      /\ s.objIndex = objIndex /\ s.traitCache = traitCache /\ s.traitIndex = traitIndex
  BY NowIs
<1>t. /\ t.stack = stack' /\ t.heap = heap' /\ t.met = met' /\ t.objCache = objCache'
      /\ t.objIndex = objIndex' /\ t.traitCache = traitCache' /\ t.traitIndex = traitIndex'
  BY Zenon DEF Now
<1>1. stack \in Seq(Frame) /\ stack # <<>> BY DEF WriterTypeOK, Busy
<1>2. /\ Len(stack') = Len(stack) /\ stack'[Len(stack)] = f
      /\ \A i \in 1 .. Len(stack) - 1 : stack'[i] = stack[i]
  BY <1>1, Replaced DEF Below
<1> QED BY <1>s, <1>t, <1>1, <1>2 DEF Turns, SameBelow, SameObjects, SameTraits, SameGraph, TopOf

\* A description is written.
LEMMA DescribesNow ==
  ASSUME Faithful, NEW s, s = Now, NEW t, t = Now', NEW tr \in Traits, WriteTraits(tr)
  PROVE  Describes(s, t, tr) /\ NamesOf(s, tr) = NamesToWrite(tr)
<1>s. s.stream = stream /\ s.traitCache = traitCache /\ s.traitIndex = traitIndex BY NowIs
<1>t. t.stream = stream' /\ t.traitCache = traitCache' /\ t.traitIndex = traitIndex' BY Zenon DEF Now
<1>1. TraitKey(tr) # NoName BY DEF Faithful
<1>2. CASE Knows(s, tr)
  <2>1. /\ Emit(TraitRefTok(traitCache[TraitKey(tr)])) /\ traitCache' = traitCache
        /\ traitIndex' = traitIndex /\ NamesToWrite(tr) = <<>>
    BY <1>s, <1>1, <1>2 DEF Knows, WriteTraits, NamesToWrite
  <2> QED BY <1>s, <1>t, <1>2, <2>1 DEF Describes, Says, Emit, SameTraits, NamesOf
<1>3. CASE ~Knows(s, tr)
  <2>1. /\ Emit(TraitsTok(tr)) /\ traitCache' = [traitCache EXCEPT ![TraitKey(tr)] = traitIndex]
        /\ traitIndex' = traitIndex + 1 /\ NamesToWrite(tr) = Full(tr)
    BY <1>s, <1>1, <1>3 DEF Knows, WriteTraits, NamesToWrite, Full
  <2> QED BY <1>s, <1>t, <1>3, <2>1 DEF Describes, Says, Emit, NamesOf
<1> QED BY <1>2, <1>3

\* A new object with one frame.
LEMMA PushSteps ==
  ASSUME WriterTypeOK, NEW s, s = Now, NEW t, t = Now', NEW o \in Obj,
         NEW kind \in Kinds \ {"unmet", "root"}, NEW tr \in Traits \cup {None},
         ~Met(s, o), FirstTime(o), Remember(o, kind), heap' = Meet(o, kind, tr),
         strCache' = strCache, strIndex' = strIndex, NEW f \in Frame,
         stack' = Append(Append(Below, Served), f) \/ stack' = Append(Below, Served) \o <<f>>
  PROVE  Meets(s, t, o) /\ Pushes(s, t, f) /\ t.heap[o].kind = kind /\ t.heap[o].tr = tr
<1>1. WantsValue BY DEF FirstTime
<1>2. PICK b : b = Append(Below, Served) OBVIOUS
<1>3. b \in Seq(Frame) /\ Len(b) = Len(stack) BY <1>1, <1>2, ServedBelow
<1>4. /\ Len(stack') = Len(b) + 1 /\ stack'[Len(b) + 1] = f
      /\ \A i \in 1 .. Len(b) : stack'[i] = b[i]
  <2>1. stack' = Append(b, f) \/ stack' = b \o <<f>> BY <1>2
  <2>2. CASE stack' = Append(b, f) BY <1>3, <2>2, Appended
  <2>3. CASE stack' = b \o <<f>>
    <3>1. PICK c : c = b \o <<f>> OBVIOUS
    <3>2. /\ Len(c) = Len(b) + 1 /\ c[Len(b) + 1] = f /\ \A i \in 1 .. Len(b) : c[i] = b[i]
      BY <1>3, <3>1, OneMore
    <3> QED BY <2>3, <3>1, <3>2
  <2> QED BY <2>1, <2>2, <2>3
<1>5. Meets(s, t, o) /\ t.heap[o].kind = kind /\ t.heap[o].tr = tr
  BY <1>2, <1>4, MeetSteps
<1>6. s.stack = stack /\ t.stack = stack' BY NowIs, Zenon DEF Now
<1> QED BY <1>3, <1>4, <1>5, <1>6 DEF Pushes

LEMMA FilledSteps ==
  ASSUME WriterTypeOK, NEW s, s = Now, NEW t, t = Now', NEW o \in Obj,
         NEW kind \in Kinds \ {"unmet", "root"}, ~Met(s, o), FirstTime(o), Remember(o, kind),
         heap' = Meet(o, kind, None), UNCHANGED <<strCache, strIndex, traitCache, traitIndex>>,
         NEW n \in Nat, NEW left \in Nat, NEW names \in Seq(Strings), NEW tok \in Token,
         Emit(tok), Filling(kind, n, left, names, tok),
         \/ stack' = Append(Append(Below, Served), NewFrame(o, names, FALSE, left, <<>>, FALSE))
         \/ stack' = Append(Below, Served) \o <<NewFrame(o, names, FALSE, left, <<>>, FALSE)>>
  PROVE  GivesNew(s, t, o)
<1> DEFINE f == NewFrame(o, names, FALSE, left, <<>>, FALSE)
<1>1. f \in Frame
  <2>1. <<>> \in Seq(Strings) OBVIOUS
  <2> QED BY <2>1, NewFrameType
<1> HIDE DEF f
<1>2. Meets(s, t, o) /\ Pushes(s, t, f) /\ t.heap[o].kind = kind
  <2>1. stack' = Append(Append(Below, Served), f) \/ stack' = Append(Below, Served) \o <<f>>
    BY DEF f
  <2>2. None \in Traits \cup {None} OBVIOUS
  <2>3. strCache' = strCache /\ strIndex' = strIndex OBVIOUS
  <2>4. \A tr \in Traits \cup {None} : heap' = Meet(o, kind, tr) =>
          Meets(s, t, o) /\ Pushes(s, t, f) /\ t.heap[o].kind = kind
    BY <1>1, <2>1, <2>3, PushSteps
  <2> QED BY <2>2, <2>4
<1>3. Says(s, t, tok) /\ SameTraits(s, t)
  <2>1. /\ s.stream = stream /\ s.traitCache = traitCache /\ s.traitIndex = traitIndex
    BY NowIs
  <2>2. /\ t.stream = stream' /\ t.traitCache = traitCache' /\ t.traitIndex = traitIndex'
    BY Zenon DEF Now
  <2> QED BY <2>1, <2>2 DEF Emit, Says, SameTraits
<1>4. GivesFilled(s, t, o, n, left, names, tok) BY <1>2, <1>3 DEF GivesFilled, f
<1> QED BY <1>4 DEF GivesNew

\* Every step of the writer is one of these.
LEMMA Steps ==
  ASSUME Faithful, WriterTypeOK, NEW s, s = Now, NEW t, t = Now', WInv(s), ClientNext
  PROVE  WStep(s, t)
<1>s. /\ s.stream = stream /\ s.objCache = objCache /\ s.objIndex = objIndex
      /\ s.strCache = strCache /\ s.strIndex = strIndex /\ s.traitCache = traitCache
      /\ s.traitIndex = traitIndex /\ s.stack = stack /\ s.heap = heap /\ s.met = met
  BY NowIs
<1>t. /\ t.stream = stream' /\ t.objCache = objCache' /\ t.objIndex = objIndex'
      /\ t.strCache = strCache' /\ t.strIndex = strIndex' /\ t.traitCache = traitCache'
      /\ t.traitIndex = traitIndex' /\ t.stack = stack' /\ t.heap = heap' /\ t.met = met'
  BY Zenon DEF Now
<1>0. /\ Kinds = {"unmet", "root", "leaf", "array", "ac", "object", "hash", "dict", "vector"}
      /\ Values = Obj \cup Strings \cup Scalars
  BY DEF Kinds, Values
<1>e. <<>> \in Seq(Strings) /\ None \in Traits \cup {None} OBVIOUS
<1>n. ASSUME NEW o \in Obj, FirstTime(o) PROVE ~Met(s, o) /\ WantsValue
  BY <1>s, <1>n DEF FirstTime, WInv, Cached
<1>b. Busy => TopOf(s) = Top /\ s.stack # <<>> /\ Top \in Frame
  BY <1>s, TopType DEF TopOf, Top, Busy
<1>1. ASSUME NEW v \in Scalars, WriteScalar(v) PROVE WStep(s, t)
  <2>1. /\ WantsValue /\ heap' = Holding(v) /\ stack' = Append(Below, Served)
        /\ UNCHANGED <<objCache, objIndex, traitCache, traitIndex, met>>
        /\ Says(s, t, ScalarTok(v)) /\ SameStrings(s, t)
    BY <1>s, <1>t, <1>1 DEF WriteScalar, caches, Emit, Says, SameStrings
  <2>2. GivesPlain(s, t, v) BY <1>0, <1>1, <2>1, PlainSteps
  <2> QED BY <1>0, <1>1, <2>2 DEF WStep
<1>2. ASSUME NEW x \in Texts, WriteString(x) PROVE WStep(s, t)
  <2>1. /\ WantsValue /\ heap' = Holding(x) /\ stack' = Append(Below, Served)
        /\ UNCHANGED <<objCache, objIndex, traitCache, traitIndex, met>>
        /\ WriteUtf8vr(x, TRUE)
    BY <1>2 DEF WriteString
  <2>2. Puts(s, t, x, TRUE) BY <2>1, PutsNow
  <2>3. x \in Strings BY StreamAssumption
  <2>4. GivesPlain(s, t, x) BY <1>0, <2>1, <2>2, <2>3, PlainSteps
  <2> QED BY <1>0, <2>3, <2>4 DEF WStep
<1>3. ASSUME NEW o \in Obj, WriteReference(o) PROVE WStep(s, t)
  <2>1. /\ WantsValue /\ heap' = Holding(o) /\ stack' = Append(Below, Served)
        /\ UNCHANGED <<objCache, objIndex, traitCache, traitIndex, met>>
        /\ Says(s, t, RefTok(s.objCache[o])) /\ SameStrings(s, t) /\ s.objCache[o] # NotCached
    BY <1>s, <1>t, <1>3 DEF WriteReference, caches, Emit, Says, SameStrings
  <2>2. GivesPlain(s, t, o) BY <1>0, <1>3, <2>1, PlainSteps
  <2> QED BY <1>0, <1>3, <2>2 DEF WStep
<1>l. ASSUME NEW o \in Obj, NEW tok, FirstTime(o), Emit(tok), Remember(o, "leaf"),
             heap' = Meet(o, "leaf", None), stack' = Append(Below, Served),
             UNCHANGED <<strCache, strIndex, traitCache, traitIndex>>,
             tok = LeafTok \/ \E n \in Nat \ {0} : tok = XmlTok(n)
      PROVE  WStep(s, t)
  <2>1. ~Met(s, o) /\ WantsValue BY <1>l, <1>n
  <2>2. PICK b : b = Append(Below, Served) OBVIOUS
  <2>3. \A i \in 1 .. Len(b) : stack'[i] = b[i] BY <1>l, <2>2
  <2>4. Meets(s, t, o) /\ t.heap[o].kind = "leaf"
    BY <1>0, <1>e, <1>l, <2>1, <2>2, <2>3, MeetSteps
  <2>5. Len(t.stack) = Len(s.stack) BY <1>s, <1>t, <1>l, <2>1, <2>2, ServedBelow
  <2>6. Says(s, t, tok) /\ SameTraits(s, t) BY <1>s, <1>t, <1>l DEF Emit, Says, SameTraits
  <2>7. GivesLeaf(s, t, o) BY <1>l, <2>4, <2>5, <2>6 DEF GivesLeaf
  <2> QED BY <1>l, <2>7 DEF WStep, GivesNew
<1>4. ASSUME NEW o \in Obj, WriteLeaf(o) PROVE WStep(s, t)
  BY <1>4, <1>l DEF WriteLeaf
<1>5. ASSUME NEW o \in Obj, NEW size \in XmlSizes, ClientXml(o, size) PROVE WStep(s, t)
  <2>1. size \in Nat \ {0} BY ClientAssumption DEF Faithful
  <2>2. /\ FirstTime(o) /\ Emit(XmlTok(size)) /\ Remember(o, "leaf")
        /\ heap' = Meet(o, "leaf", None) /\ stack' = Append(Below, Served) \o <<>>
        /\ UNCHANGED <<strCache, strIndex, traitCache, traitIndex>>
    BY <1>5 DEF ClientXml, Begin
  <2>3. Append(Below, Served) \in Seq(Frame) BY <1>n, <2>2, ServedBelow
  <2>4. stack' = Append(Below, Served) BY <2>2, <2>3
  <2> QED BY <1>l, <2>1, <2>2, <2>4
<1>6. ASSUME NEW o \in Obj, NEW len \in 0 .. MaxLen, WriteArray(o, len) PROVE WStep(s, t)
  <2>1. /\ FirstTime(o) /\ Emit(ArrayTok(len)) /\ Remember(o, "array")
        /\ heap' = Meet(o, "array", None)
        /\ stack' = Append(Append(Below, Served), NewFrame(o, <<>>, FALSE, len, <<>>, FALSE))
        /\ UNCHANGED <<strCache, strIndex, traitCache, traitIndex>>
    BY <1>6 DEF WriteArray
  <2>2. len \in Nat BY WriterAssumption
  <2>3. Filling("array", len, len, <<>>, ArrayTok(len)) BY DEF Filling
  <2>4. ArrayTok(len) \in Token BY <2>2 DEF ArrayTok, Token
  <2>5. GivesNew(s, t, o) BY <1>0, <1>e, <1>n, <2>1, <2>2, <2>3, <2>4, FilledSteps
  <2> QED BY <1>6, <2>5 DEF WStep
<1>7. ASSUME NEW o \in Obj, NEW len \in 0 .. ClientLen, ClientDict(o, len) PROVE WStep(s, t)
  <2>1. /\ FirstTime(o) /\ Emit(DictTok(len)) /\ Remember(o, "dict")
        /\ heap' = Meet(o, "dict", None)
        /\ stack' = Append(Below, Served) \o <<NewFrame(o, <<>>, FALSE, 2 * len, <<>>, FALSE)>>
        /\ UNCHANGED <<strCache, strIndex, traitCache, traitIndex>>
    BY <1>7 DEF ClientDict, Begin
  <2>2. len \in Nat /\ 2 * len \in Nat BY ClientAssumption
  <2>3. Filling("dict", len, 2 * len, <<>>, DictTok(len)) BY DEF Filling
  <2>4. DictTok(len) \in Token BY <2>2 DEF DictTok, Token
  <2>5. GivesNew(s, t, o) BY <1>0, <1>e, <1>n, <2>1, <2>2, <2>3, <2>4, FilledSteps
  <2> QED BY <1>7, <2>5 DEF WStep
<1>8. ASSUME NEW o \in Obj, NEW len \in 0 .. ClientLen, ClientVector(o, len) PROVE WStep(s, t)
  <2>1. /\ FirstTime(o) /\ Emit(VectorTok(len)) /\ Remember(o, "vector")
        /\ heap' = Meet(o, "vector", None)
        /\ stack' = Append(Below, Served)
                      \o <<NewFrame(o, <<TypeName>>, FALSE, len, <<>>, FALSE)>>
        /\ UNCHANGED <<strCache, strIndex, traitCache, traitIndex>>
    BY <1>8 DEF ClientVector, Begin
  <2>2. len \in Nat /\ <<TypeName>> \in Seq(Strings) BY ClientAssumption, Single
  <2>3. Filling("vector", len, len, <<TypeName>>, VectorTok(len)) BY DEF Filling
  <2>4. VectorTok(len) \in Token BY <2>2 DEF VectorTok, Token
  <2>5. GivesNew(s, t, o) BY <1>0, <1>n, <2>1, <2>2, <2>3, <2>4, FilledSteps
  <2> QED BY <1>8, <2>5 DEF WStep
<1>9. ASSUME NEW o \in Obj, NEW len \in 0 .. ClientLen, ClientNamedArray(o, len) PROVE WStep(s, t)
  <2> DEFINE f == NewFrame(o, <<>>, FALSE, len, <<>>, FALSE)
             g == NewFrame(o, <<>>, FALSE, 0, <<>>, TRUE)
  <2>1. /\ FirstTime(o) /\ Emit(NamedArrayTok(len)) /\ Remember(o, "hash")
        /\ heap' = Meet(o, "hash", None) /\ stack' = Append(Below, Served) \o <<f, g>>
        /\ UNCHANGED <<strCache, strIndex, traitCache, traitIndex>>
    BY <1>9 DEF ClientNamedArray, Begin
  <2>2. len \in Nat BY ClientAssumption
  <2>3. f \in Frame /\ g \in Frame BY <1>e, <2>2, NewFrameType
  <2> HIDE DEF f, g
  <2>4. PICK b : b = Append(Below, Served) OBVIOUS
  <2>5. ~Met(s, o) /\ b \in Seq(Frame) /\ Len(b) = Len(stack) BY <1>n, <2>1, <2>4, ServedBelow
  <2>6. PICK c : c = b \o <<f, g>> OBVIOUS
  <2>7. /\ Len(c) = Len(b) + 2 /\ c[Len(b) + 1] = f /\ c[Len(b) + 2] = g
        /\ \A i \in 1 .. Len(b) : c[i] = b[i]
    BY <2>3, <2>5, <2>6, TwoMore
  <2>8. stack' = c BY <2>1, <2>4, <2>6
  <2>9. Meets(s, t, o) /\ t.heap[o].kind = "hash"
    <3>1. \A i \in 1 .. Len(b) : stack'[i] = b[i] BY <2>7, <2>8
    <3>2. "hash" \in Kinds \ {"unmet", "root"} /\ None \in Traits \cup {None} BY <1>0
    <3>3. strCache' = strCache /\ strIndex' = strIndex BY <2>1
    <3>4. FirstTime(o) /\ Remember(o, "hash") /\ heap' = Meet(o, "hash", None) BY <2>1
    <3>5. ~Met(s, o) BY <2>5
    <3> QED BY <2>4, <3>1, <3>2, <3>3, <3>4, <3>5, MeetSteps
  <2>10. Says(s, t, NamedArrayTok(len)) /\ SameTraits(s, t)
    BY <1>s, <1>t, <2>1 DEF Emit, Says, SameTraits
  <2>11. GivesNamed(s, t, o, len)
    BY <1>s, <1>t, <2>5, <2>7, <2>8, <2>9, <2>10 DEF GivesNamed, f, g
  <2> QED BY <1>9, <2>2, <2>11 DEF WStep, GivesNew
<1>10. ASSUME NEW o \in Obj, NEW len \in 0 .. MaxLen, WriteArrayCollection(o, len)
       PROVE  WStep(s, t)
  <2> DEFINE f == NewFrame(o, NamesToWrite(ACTraits), TRUE, len, <<>>, FALSE)
  <2>1. /\ FirstTime(o) /\ WriteTraits(ACTraits) /\ Remember(o, "ac")
        /\ heap' = Meet(o, "ac", None) /\ stack' = Append(Append(Below, Served), f)
        /\ UNCHANGED <<strCache, strIndex>>
    BY <1>10 DEF WriteArrayCollection
  <2>2. ACTraits \in Traits /\ len \in Nat BY StreamAssumption, WriterAssumption
  <2>3. Describes(s, t, ACTraits) /\ NamesOf(s, ACTraits) = NamesToWrite(ACTraits)
    BY <2>1, <2>2, DescribesNow
  <2>4. NamesToWrite(ACTraits) \in Seq(Strings) BY <1>e, <2>2, TraitNames, OneMore, Single DEF NamesToWrite
  <2>5. f \in Frame BY <1>e, <2>2, <2>4, NewFrameType
  <2>6. f = DescribedFrame(s, o, ACTraits, len) BY <2>3 DEF DescribedFrame
  <2> HIDE DEF f
  <2>7. Meets(s, t, o) /\ Pushes(s, t, f) /\ t.heap[o].kind = "ac"
    BY <1>0, <1>e, <1>n, <2>1, <2>5, PushSteps
  <2>8. GivesDescribed(s, t, o, ACTraits, len) BY <2>3, <2>6, <2>7 DEF GivesDescribed
  <2> QED BY <1>10, <2>2, <2>8 DEF WStep, GivesNew
<1>11. ASSUME NEW o \in Obj, NEW tr \in Traits \ {ACTraits}, WriteObject(o, tr)
       PROVE  WStep(s, t)
  <2> DEFINE f == NewFrame(o, NamesToWrite(tr), FALSE, Owed(tr), Sealed(tr), OpenEnded(tr))
  <2>1. /\ FirstTime(o) /\ WriteTraits(tr) /\ Remember(o, "object")
        /\ heap' = Meet(o, "object", tr) /\ UNCHANGED <<strCache, strIndex>>
    BY <1>11 DEF WriteObject
  <2>2. stack' = Append(Append(Below, Served), f)
    BY <1>11 DEF WriteObject, Owed, Sealed, OpenEnded
  <2>3. Describes(s, t, tr) /\ NamesOf(s, tr) = NamesToWrite(tr)
    BY <1>11, <2>1, DescribesNow
  <2>4. /\ NamesToWrite(tr) \in Seq(Strings) /\ Owed(tr) \in Nat /\ Sealed(tr) \in Seq(Strings)
        /\ OpenEnded(tr) \in BOOLEAN
    <3>1. /\ WireName(tr) \in Strings /\ Members[tr] \in Seq(Strings) /\ Dynamic[tr] \in BOOLEAN
          /\ External[tr] \in BOOLEAN /\ ExtSize \in [Strings -> Nat]
      BY <1>11, TraitNames, StreamAssumption
    <3>2. NamesToWrite(tr) \in Seq(Strings) BY <1>e, <1>11, TraitNames DEF NamesToWrite
    <3> QED BY <1>e, <3>1, <3>2, Elements DEF Owed, Sealed, OpenEnded
  <2>5. f \in Frame BY <2>4, NewFrameType, Zenon DEF Holder
  <2>6. f = DescribedFrame(s, o, tr, 0) BY <1>11, <2>3 DEF DescribedFrame
  <2> HIDE DEF f
  <2>7. Meets(s, t, o) /\ Pushes(s, t, f) /\ t.heap[o].kind = "object" /\ t.heap[o].tr = tr
    <3>1. tr \in Traits \cup {None} /\ "object" \in Kinds \ {"unmet", "root"} BY <1>0, <1>11
    <3>2. ~Met(s, o) BY <1>n, <2>1
    <3> QED BY <2>1, <2>2, <2>5, <3>1, <3>2, PushSteps
  <2>8. GivesDescribed(s, t, o, tr, 0) BY <1>11, <2>3, <2>6, <2>7 DEF GivesDescribed
  <2>9. tr \in Traits /\ 0 \in Nat BY <1>11
  <2> QED BY <1>11, <2>8, <2>9 DEF WStep, GivesNew
<1>12. ASSUME WriteName PROVE WStep(s, t)
  <2>1. /\ Busy /\ Top.names # <<>> /\ WriteUtf8vr(Head(Top.names), FALSE)
        /\ stack' = Append(Below, Shorter(Top))
        /\ UNCHANGED <<objCache, objIndex, traitCache, traitIndex, heap, met>>
    BY <1>12 DEF WriteName, Shorter
  <2>2. Shorter(Top) \in Frame
    <3>1. Top.names \in Seq(Strings) /\ Top \in Frame BY <1>b, <2>1 DEF Frame
    <3>2. Tail(Top.names) \in Seq(Strings) BY <2>1, <3>1
    <3> QED BY <3>1, <3>2 DEF Shorter, Frame
  <2>3. Turns(s, t, Shorter(Top)) BY <2>1, <2>2, TurnSteps
  <2>4. Puts(s, t, Head(Top.names), FALSE) BY <2>1, PutsNow
  <2>5. SaysName(s, t) BY <1>b, <2>1, <2>3, <2>4 DEF SaysName
  <2> QED BY <2>5 DEF WStep
<1>13. ASSUME WriteSourceHeader PROVE WStep(s, t)
  <2> DEFINE f == [Top EXCEPT !.src = FALSE]
  <2>1. /\ Busy /\ Top.names = <<>> /\ Top.src /\ Emit(ArrayTok(Top.len))
        /\ stack' = Append(Below, f) /\ UNCHANGED <<caches, heap, met>>
    BY <1>13 DEF WriteSourceHeader
  <2>2. f \in Frame /\ Top.src \in BOOLEAN BY <1>b, <2>1 DEF Frame
  <2> HIDE DEF f
  <2>3. Turns(s, t, f) BY <2>1, <2>2, TurnSteps DEF caches
  <2>4. Says(s, t, ArrayTok(TopOf(s).len)) /\ SameStrings(s, t)
    BY <1>b, <1>s, <1>t, <2>1 DEF caches, Emit, Says, SameStrings
  <2>5. SaysSource(s, t) BY <1>b, <2>1, <2>2, <2>3, <2>4 DEF SaysSource, f
  <2> QED BY <2>5 DEF WStep
<1>14. ASSUME NEW k \in Keys, WriteKey(k) PROVE WStep(s, t)
  <2> DEFINE f == [Top EXCEPT !.left = 1, !.key = k]
  <2>1. /\ Busy /\ Top.names = <<>> /\ Top.left = 0 /\ Top.dyn /\ WriteUtf8vr(k, FALSE)
        /\ stack' = Append(Below, f)
        /\ UNCHANGED <<objCache, objIndex, traitCache, traitIndex, heap, met>>
    BY <1>14 DEF WriteKey, InDynamicPart
  <2>2. k \in Strings /\ k # Empty BY <1>14, WriterAssumption DEF Faithful
  <2>3. f \in Frame /\ Top.dyn \in BOOLEAN
    <3>1. k \in Strings \cup {None} /\ 1 \in Nat BY <2>2
    <3> QED BY <1>b, <2>1, <3>1 DEF Frame
  <2> HIDE DEF f
  <2>4. Turns(s, t, f) BY <2>1, <2>3, TurnSteps
  <2>5. Puts(s, t, k, FALSE) BY <2>1, PutsNow
  <2>6. WritesKey(s, t, k) BY <1>b, <2>1, <2>3, <2>4, <2>5 DEF WritesKey, Open0, f
  <2> QED BY <1>14, <2>2, <2>6 DEF WStep
<1>15. ASSUME CloseDynamic PROVE WStep(s, t)
  <2> DEFINE f == [Top EXCEPT !.dyn = FALSE]
  <2>1. /\ Busy /\ Top.names = <<>> /\ Top.left = 0 /\ Top.dyn /\ Emit(EmptyTok(FALSE))
        /\ stack' = Append(Below, f) /\ UNCHANGED <<caches, heap, met>>
    BY <1>15 DEF CloseDynamic, InDynamicPart
  <2>2. f \in Frame /\ Top.dyn \in BOOLEAN BY <1>b, <2>1 DEF Frame
  <2> HIDE DEF f
  <2>3. Turns(s, t, f) BY <2>1, <2>2, TurnSteps DEF caches
  <2>4. Says(s, t, EmptyTok(FALSE)) /\ SameStrings(s, t)
    BY <1>s, <1>t, <2>1 DEF caches, Emit, Says, SameStrings
  <2>5. Closes(s, t) BY <1>b, <2>1, <2>2, <2>3, <2>4 DEF Closes, Open0, f
  <2> QED BY <2>5 DEF WStep
<1>16. ASSUME Return PROVE WStep(s, t)
  <2>1. /\ Busy /\ Top.names = <<>> /\ ~Top.src /\ Top.left = 0 /\ ~Top.dyn
        /\ stack' = Below /\ UNCHANGED <<caches, heap, met, stream>>
    BY <1>16 DEF Return
  <2>2. Top.src \in BOOLEAN /\ Top.dyn \in BOOLEAN BY <1>b, <2>1 DEF Frame
  <2>3. /\ Len(Below) = Len(stack) - 1 /\ \A i \in 1 .. Len(stack) - 1 : Below[i] = stack[i]
    BY <2>1, Popped DEF Below, Busy, WriterTypeOK
  <2>4. SameBelow(s, t) /\ Len(t.stack) = Len(s.stack) - 1 BY <1>s, <1>t, <2>1, <2>3 DEF SameBelow
  <2>5. /\ SameObjects(s, t) /\ SameStrings(s, t) /\ SameTraits(s, t) /\ SameGraph(s, t)
        /\ t.stream = s.stream
    BY <1>s, <1>t, <2>1 DEF caches, SameObjects, SameStrings, SameTraits, SameGraph
  <2>6. Returns(s, t) BY <1>b, <2>1, <2>2, <2>4, <2>5 DEF Returns
  <2> QED BY <2>6 DEF WStep
<1>17. CASE WriterNext
  BY <1>1, <1>2, <1>3, <1>4, <1>6, <1>10, <1>11, <1>12, <1>13, <1>14, <1>15, <1>16, <1>17 DEF WriterNext
<1> QED BY <1>5, <1>7, <1>8, <1>9, <1>14, <1>17 DEF ClientNext

-----------------------------------------------------------------------------
(***************************************************************************)
(* Every step keeps the invariant of the snapshots.                        *)
(***************************************************************************)
LEMMA SnapshotTypes ==
  ASSUME NEW s, Typed(s)
  PROVE  /\ Len(s.stack) \in Nat /\ DOMAIN s.stack = 1 .. Len(s.stack)
         /\ \A i \in 1 .. Len(s.stack) :
              /\ s.stack[i] \in Frame /\ s.stack[i].obj \in Holder
              /\ s.stack[i].names \in Seq(Strings) /\ s.stack[i].src \in BOOLEAN
              /\ s.stack[i].len \in Nat /\ s.stack[i].left \in Nat
              /\ s.stack[i].members \in Seq(Strings) /\ s.stack[i].dyn \in BOOLEAN
              /\ s.stack[i].key \in Strings \cup {None}
         /\ s.stack # <<>> =>
              /\ Len(s.stack) \in 1 .. Len(s.stack) /\ TopOf(s) = s.stack[Len(s.stack)]
         /\ s.objIndex \in Nat /\ s.strIndex \in Nat /\ s.traitIndex \in Nat
         /\ \A o \in Obj : s.objCache[o] \in Index
         /\ \A k \in StrKeys : s.strCache[k] \in Index
         /\ \A k \in TraitKeys : s.traitCache[k] \in Index
         /\ \A o \in Holder :
              /\ s.heap[o] \in Node /\ s.heap[o].nth \in Nat /\ s.heap[o].depth \in Nat
              /\ s.heap[o].kids \in Seq(Kid) /\ Len(s.heap[o].kids) \in Nat
              /\ s.heap[o].kind \in Kinds /\ s.heap[o].tr \in Traits \cup {None}
         /\ s.met \in Nat /\ s.stream \in Seq(Token) /\ Len(s.stream) \in Nat
<1>1. /\ s.stack \in Seq(Frame) /\ s.objIndex \in Nat /\ s.strIndex \in Nat
      /\ s.traitIndex \in Nat /\ s.objCache \in [Obj -> Index]
      /\ s.strCache \in [StrKeys -> Index] /\ s.traitCache \in [TraitKeys -> Index]
      /\ s.heap \in [Holder -> Node] /\ s.met \in Nat /\ s.stream \in Seq(Token)
  BY Zenon DEF Typed
<1>2. /\ Len(s.stack) \in Nat /\ DOMAIN s.stack = 1 .. Len(s.stack)
      /\ \A i \in 1 .. Len(s.stack) : s.stack[i] \in Frame
      /\ s.stack # <<>> => Len(s.stack) \in 1 .. Len(s.stack)
  BY <1>1, Elements
<1>3. \A f \in Frame :
        /\ f.obj \in Holder /\ f.names \in Seq(Strings) /\ f.src \in BOOLEAN /\ f.len \in Nat
        /\ f.left \in Nat /\ f.members \in Seq(Strings) /\ f.dyn \in BOOLEAN
        /\ f.key \in Strings \cup {None}
  BY DEF Frame, Holder
<1>4. TopOf(s) = s.stack[Len(s.stack)] BY DEF TopOf
<1>5. /\ \A o \in Obj : s.objCache[o] \in Index /\ \A k \in StrKeys : s.strCache[k] \in Index
      /\ \A k \in TraitKeys : s.traitCache[k] \in Index
  BY <1>1
<1>6. \A o \in Holder :
        /\ s.heap[o] \in Node /\ s.heap[o].nth \in Nat /\ s.heap[o].depth \in Nat
        /\ s.heap[o].kids \in Seq(Kid)
        /\ s.heap[o].kind \in Kinds /\ s.heap[o].tr \in Traits \cup {None}
  BY <1>1 DEF Node
<1>7. \A o \in Holder : Len(s.heap[o].kids) \in Nat BY <1>6, Elements
<1>8. Len(s.stream) \in Nat BY <1>1, Elements
<1> QED BY <1>1, <1>2, <1>3, <1>4, <1>5, <1>6, <1>7, <1>8

\* The frame at the top.
LEMMA TopTypes ==
  ASSUME NEW s, Typed(s), s.stack # <<>>
  PROVE  /\ Len(s.stack) \in Nat \ {0} /\ Len(s.stack) \in 1 .. Len(s.stack)
         /\ TopOf(s) \in Frame /\ TopOf(s).obj \in Holder /\ TopOf(s) = s.stack[Len(s.stack)]
         /\ TopOf(s).names \in Seq(Strings) /\ TopOf(s).src \in BOOLEAN
         /\ TopOf(s).len \in Nat /\ TopOf(s).left \in Nat
         /\ TopOf(s).members \in Seq(Strings) /\ TopOf(s).dyn \in BOOLEAN
         /\ TopOf(s).key \in Strings \cup {None}
<1>1. Len(s.stack) \in 1 .. Len(s.stack) /\ TopOf(s) = s.stack[Len(s.stack)] /\ Len(s.stack) \in Nat
  BY SnapshotTypes
<1> QED BY <1>1, SnapshotTypes

\* An object that was met before may hold one more value.
Kept(s, t, p) ==
  /\ t.heap[p].kind = s.heap[p].kind /\ t.heap[p].tr = s.heap[p].tr
  /\ t.heap[p].nth = s.heap[p].nth /\ t.heap[p].depth = s.heap[p].depth
  /\ \/ t.heap[p].kids = s.heap[p].kids
     \/ \E v \in Values :
          /\ v \in Obj => Met(t, v)
          /\ Wants(s) /\ p = TopOf(s).obj
          /\ t.heap[p].kids = Append(s.heap[p].kids, [key |-> KeyHere(s), val |-> v])

\* The step turns or leaves a function, or ends a name.
Quiet(s, t) == SameGraph(s, t) /\ SameObjects(s, t)
LEMMA QuietSteps ==
  ASSUME NEW s, NEW t,
         \/ SaysName(s, t) \/ SaysSource(s, t) \/ (\E k \in Keys \ {Empty} : WritesKey(s, t, k))
         \/ Closes(s, t) \/ Returns(s, t)
  PROVE  Quiet(s, t) /\ s.stack # <<>>
BY DEF SaysName, SaysSource, WritesKey, Closes, Returns, Turns, Quiet

LEMMA NewMeets ==
  ASSUME NEW s, NEW t, NEW o \in Obj, GivesNew(s, t, o)
  PROVE  Meets(s, t, o)
BY DEF GivesNew, GivesLeaf, GivesFilled, GivesNamed, GivesDescribed

LEMMA Growth ==
  ASSUME NEW s, WInv(s), NEW t, WStep(s, t)
  PROVE  \/ /\ \A p \in Holder : Kept(s, t, p)
            /\ t.met = s.met /\ SameObjects(s, t)
         \/ \E o \in Obj : GivesNew(s, t, o) /\ Meets(s, t, o) /\ Met(t, o)
                           /\ \A p \in Holder \ {o} : Kept(s, t, p)
<1>1. ASSUME NEW v \in Values, GivesPlain(s, t, v), NEW p \in Holder PROVE Kept(s, t, p)
  <2>1. Stores(s, t, v, p) /\ Wants(s) BY <1>1 DEF GivesPlain, Serves
  <2>2. v \in Obj => Met(t, v)
    <3>1. ASSUME v \in Obj PROVE Met(t, v)
      <4>1. s.objCache[v] # NotCached BY <1>1, <3>1, StreamAssumption DEF GivesPlain
      <4>2. Met(s, v) BY <3>1, <4>1 DEF WInv, Cached
      <4>3. Stores(s, t, v, v) BY <1>1, <3>1 DEF GivesPlain, Holder
      <4> QED BY <4>2, <4>3 DEF Stores, Met
    <3> QED BY <3>1
  <2> QED BY <2>1, <2>2 DEF Stores, Kept
<1>2. ASSUME NEW v \in Values, GivesPlain(s, t, v) PROVE t.met = s.met /\ SameObjects(s, t)
  BY <1>2 DEF GivesPlain
<1>3. ASSUME NEW o \in Obj, GivesNew(s, t, o)
      PROVE  GivesNew(s, t, o) /\ Meets(s, t, o) /\ Met(t, o) /\ \A p \in Holder \ {o} : Kept(s, t, p)
  <2>1. Meets(s, t, o) BY <1>3, NewMeets
  <2>2. Met(t, o) /\ Wants(s) BY <2>1 DEF Meets, Met, Serves
  <2>3. o \in Values BY DEF Values
  <2>4. ASSUME NEW p \in Holder \ {o} PROVE Kept(s, t, p)
    <3>1. Stores(s, t, o, p) BY <2>1 DEF Meets
    <3> QED BY <2>2, <2>3, <3>1 DEF Stores, Kept
  <2> QED BY <1>3, <2>1, <2>2, <2>4
<1>4. Quiet(s, t) => (\A p \in Holder : Kept(s, t, p)) /\ t.met = s.met /\ SameObjects(s, t)
  BY DEF Quiet, SameGraph, Kept
<1> QED BY <1>1, <1>2, <1>3, <1>4, QuietSteps DEF WStep

LEMMA MetStays ==
  ASSUME NEW s, WInv(s), NEW t, WStep(s, t)
  PROVE  \A p \in Holder : Met(s, p) =>
           /\ Met(t, p) /\ t.heap[p].nth = s.heap[p].nth /\ t.heap[p].depth = s.heap[p].depth
           /\ t.heap[p].kind = s.heap[p].kind /\ t.heap[p].tr = s.heap[p].tr /\ Kept(s, t, p)
<1>1. CASE \A p \in Holder : Kept(s, t, p) BY <1>1 DEF Kept, Met
<1>2. CASE \E o \in Obj : Meets(s, t, o) /\ \A p \in Holder \ {o} : Kept(s, t, p)
  <2>1. PICK o \in Obj : ~Met(s, o) /\ \A p \in Holder \ {o} : Kept(s, t, p) BY <1>2 DEF Meets
  <2> QED BY <2>1 DEF Kept, Met
<1> QED BY <1>1, <1>2, Growth

LEMMA NumberedKept ==
  ASSUME NEW s, WInv(s), NEW t, Typed(t), WStep(s, t)
  PROVE  Numbered(t)
<1>0. Typed(s) /\ Numbered(s) BY DEF WInv
<1>1. s.met \in Nat BY <1>0, SnapshotTypes
<1>2. CASE (\A p \in Holder : Kept(s, t, p)) /\ t.met = s.met
  <2>1. \A p \in Holder : /\ t.heap[p].kind = s.heap[p].kind /\ t.heap[p].nth = s.heap[p].nth
                          /\ t.heap[p].depth = s.heap[p].depth
    BY <1>2 DEF Kept
  <2> QED BY <1>0, <1>2, <2>1 DEF Numbered, Met, Holder
<1>3. ASSUME NEW o \in Obj, Meets(s, t, o), Met(t, o), \A p \in Holder \ {o} : Kept(s, t, p)
      PROVE  Numbered(t)
  <2>1. \A p \in Holder \ {o} : /\ t.heap[p].kind = s.heap[p].kind /\ t.heap[p].nth = s.heap[p].nth
                                /\ t.heap[p].depth = s.heap[p].depth /\ (Met(t, p) <=> Met(s, p))
    BY <1>3 DEF Kept, Met
  <2>2. t.heap[o].nth = s.met + 1 /\ t.met = s.met + 1 /\ t.heap[o].kind # "root"
    BY <1>3 DEF Meets
  <2>3. \A p \in Holder : Met(s, p) => s.heap[p].nth \in 1 .. s.met BY <1>0 DEF Numbered
  <2>4. \A p \in Holder : IF Met(t, p) THEN t.heap[p].nth \in 1 .. t.met
                          ELSE t.heap[p].nth = 0 /\ t.heap[p].depth = 0
    BY <1>0, <1>1, <1>3, <2>1, <2>2, <2>3 DEF Numbered
  <2>5. ASSUME NEW p \in Holder, NEW q \in Holder, Met(t, p), Met(t, q),
               t.heap[p].nth = t.heap[q].nth
        PROVE  p = q
    <3>1. CASE p # o /\ q # o BY <1>0, <2>1, <2>5, <3>1 DEF Numbered
    <3>2. CASE p = o /\ q # o BY <1>1, <2>1, <2>2, <2>3, <2>5, <3>2
    <3>3. CASE p # o /\ q = o BY <1>1, <2>1, <2>2, <2>3, <2>5, <3>3
    <3> QED BY <3>1, <3>2, <3>3
  <2>6. Root # o /\ Root \in Holder BY WriterAssumption DEF Holder
  <2>7. \A p \in Obj : t.heap[p].kind # "root" BY <1>0, <2>1, <2>2 DEF Numbered, Holder
  <2>8. t.heap[Root].kind = "root" /\ t.heap[Root].depth = 0 /\ t.heap[Root].nth = 1
    BY <1>0, <2>1, <2>6 DEF Numbered
  <2> QED BY <2>4, <2>5, <2>7, <2>8 DEF Numbered
<1> QED BY <1>2, <1>3, Growth

LEMMA KidsMetKept ==
  ASSUME NEW s, WInv(s), NEW t, Typed(t), WStep(s, t)
  PROVE  KidsMet(t)
<1>0. Typed(s) /\ KidsMet(s) BY DEF WInv
<1>1. \A q \in Obj : Met(s, q) => Met(t, q) BY MetStays DEF Holder
<1>2. ASSUME NEW p \in Holder, Kept(s, t, p), NEW i \in 1 .. Len(t.heap[p].kids),
             t.heap[p].kids[i].val \in Obj
      PROVE  Met(t, t.heap[p].kids[i].val)
  <2> DEFINE kids == s.heap[p].kids
  <2>1. kids \in Seq(Kid) /\ Len(kids) \in Nat BY <1>0, SnapshotTypes
  <2>2. \A j \in 1 .. Len(kids) : kids[j].val \in Obj => Met(s, kids[j].val)
    BY <1>0 DEF KidsMet
  <2>3. CASE t.heap[p].kids = kids BY <1>1, <1>2, <2>2, <2>3
  <2>4. ASSUME NEW v \in Values, v \in Obj => Met(t, v),
               t.heap[p].kids = Append(kids, [key |-> KeyHere(s), val |-> v])
        PROVE  Met(t, t.heap[p].kids[i].val)
    <3> DEFINE k == [key |-> KeyHere(s), val |-> v]
    <3>1. k.val = v OBVIOUS
    <3> HIDE DEF k, kids
    <3>2. t.heap[p].kids = Append(kids, k) BY <2>4 DEF k
    <3>3. /\ Len(Append(kids, k)) = Len(kids) + 1 /\ Append(kids, k)[Len(kids) + 1] = k
          /\ \A j \in 1 .. Len(kids) : Append(kids, k)[j] = kids[j]
      <4>1. kids \in Seq(Kid \cup {k}) /\ k \in Kid \cup {k} BY <2>1
      <4> QED BY <4>1, Appended
    <3>4. CASE i = Len(kids) + 1 BY <1>2, <2>4, <3>1, <3>2, <3>3, <3>4
    <3>5. CASE i # Len(kids) + 1
      <4>1. i \in 1 .. Len(kids) BY <1>2, <2>1, <3>2, <3>3, <3>5
      <4> QED BY <1>1, <1>2, <2>2, <3>2, <3>3, <4>1
    <3> QED BY <3>4, <3>5
  <2> QED BY <1>2, <2>3, <2>4 DEF Kept
<1>3. ASSUME NEW o \in Obj, Meets(s, t, o) PROVE Len(t.heap[o].kids) = 0
  BY <1>3 DEF Meets
<1> QED BY <1>2, <1>3, Growth DEF KidsMet

LEMMA FlatKept ==
  ASSUME NEW s, WInv(s), NEW t, Typed(t), WStep(s, t), ~NestedInAC
  PROVE  FlatSnap(t)
<1>0. Typed(s) /\ FlatSnap(s) /\ Numbered(s) BY DEF WInv
<1>1. \A p \in Obj : Kept(s, t, p) => t.heap[p].depth = 0 BY <1>0 DEF Kept, FlatSnap
<1>2. ASSUME NEW o \in Obj, Meets(s, t, o) PROVE t.heap[o].depth = 0
  <2>1. t.heap[o].depth = Opened(s) /\ s.stack # <<>> /\ s.heap[TopOf(s).obj].kind # "ac"
    BY <1>2 DEF Meets, Serves, Wants
  <2>2. TopOf(s).obj \in Holder BY <1>0, <2>1, TopTypes
  <2>3. s.heap[TopOf(s).obj].depth = 0 BY <1>0, <2>2 DEF FlatSnap, Numbered, Holder
  <2> QED BY <2>1, <2>3 DEF Opened, Extra
<1> QED BY <1>1, <1>2, Growth DEF FlatSnap, Holder

\* The tables of names.
AddsString(s, t, x) ==
  /\ x # Empty /\ s.strCache[StrKey[x]] = NotCached
  /\ t.strCache = [s.strCache EXCEPT ![StrKey[x]] = s.strIndex] /\ t.strIndex = s.strIndex + 1
AddsTraits(s, t, tr) ==
  /\ ~Knows(s, tr) /\ t.traitCache = [s.traitCache EXCEPT ![TraitKey(tr)] = s.traitIndex]
  /\ t.traitIndex = s.traitIndex + 1

LEMMA StringMoves ==
  ASSUME NEW s, WInv(s), NEW t, WStep(s, t)
  PROVE  SameStrings(s, t) \/ \E x \in Strings : AddsString(s, t, x)
<1>0. Typed(s) BY DEF WInv
<1>1. ASSUME NEW x \in Strings, NEW m, Puts(s, t, x, m)
      PROVE  SameStrings(s, t) \/ AddsString(s, t, x)
  BY <1>1 DEF Puts, AddsString
<1>2. CASE \E v \in Values : GivesPlain(s, t, v)
  <2>1. PICK v \in Values : GivesPlain(s, t, v) BY <1>2
  <2>2. CASE v \in Strings /\ Puts(s, t, v, TRUE) BY <1>1, <2>2
  <2> QED BY <2>1, <2>2 DEF GivesPlain
<1>3. CASE \E o \in Obj : GivesNew(s, t, o) BY <1>3, NewMeets DEF Meets
<1>4. CASE SaysName(s, t)
  <2>1. TopOf(s).names # <<>> /\ s.stack # <<>> /\ Puts(s, t, Head(TopOf(s).names), FALSE)
    BY <1>4 DEF SaysName, Turns
  <2>2. TopOf(s).names \in Seq(Strings) BY <1>0, <2>1, TopTypes
  <2>3. Head(TopOf(s).names) \in Strings BY <2>1, <2>2
  <2> QED BY <1>1, <2>1, <2>3
<1>5. CASE \E k \in Keys \ {Empty} : WritesKey(s, t, k) BY <1>1, <1>5, WriterAssumption DEF WritesKey
<1>6. CASE SaysSource(s, t) \/ Closes(s, t) \/ Returns(s, t)
  BY <1>6 DEF SaysSource, Closes, Returns
<1> QED BY <1>2, <1>3, <1>4, <1>5, <1>6 DEF WStep

LEMMA TraitMoves ==
  ASSUME NEW s, NEW t, WStep(s, t)
  PROVE  \/ SameTraits(s, t)
         \/ \E tr \in Traits : AddsTraits(s, t, tr)
<1>1. ASSUME NEW o \in Obj, GivesNew(s, t, o)
      PROVE  SameTraits(s, t) \/ \E tr \in Traits : AddsTraits(s, t, tr)
  <2>1. ASSUME NEW tr \in Traits, NEW len, GivesDescribed(s, t, o, tr, len)
        PROVE  SameTraits(s, t) \/ AddsTraits(s, t, tr)
    BY <2>1 DEF GivesDescribed, Describes, AddsTraits
  <2> QED BY <1>1, <2>1 DEF GivesNew, GivesLeaf, GivesFilled, GivesNamed
<1>2. (\E v \in Values : GivesPlain(s, t, v)) => SameTraits(s, t) BY DEF GivesPlain
<1>3. SaysName(s, t) \/ SaysSource(s, t) \/ (\E k \in Keys \ {Empty} : WritesKey(s, t, k))
        \/ Closes(s, t) \/ Returns(s, t) => SameTraits(s, t)
  BY DEF SaysName, SaysSource, WritesKey, Closes, Returns, Turns
<1> QED BY <1>1, <1>2, <1>3 DEF WStep

LEMMA ObjectMoves ==
  ASSUME NEW s, WInv(s), NEW t, WStep(s, t)
  PROVE  \A o \in Obj : /\ t.objCache[o] # NotCached <=> Met(t, o)
                        /\ Met(s, o) => t.objCache[o] = s.objCache[o]
<1>0. Typed(s) /\ \A o \in Obj : s.objCache[o] # NotCached <=> Met(s, o) BY DEF WInv, Cached
<1>1. CASE (\A p \in Holder : Kept(s, t, p)) /\ SameObjects(s, t)
  BY <1>0, <1>1 DEF Kept, Met, SameObjects, Holder
<1>2. ASSUME NEW o \in Obj, Meets(s, t, o), Met(t, o), \A p \in Holder \ {o} : Kept(s, t, p)
      PROVE  \A p \in Obj : /\ t.objCache[p] # NotCached <=> Met(t, p)
                            /\ Met(s, p) => t.objCache[p] = s.objCache[p]
  <2>1. /\ t.objCache = [s.objCache EXCEPT ![o] = s.objIndex] /\ s.objIndex \in Nat /\ ~Met(s, o)
        /\ s.objCache \in [Obj -> Index]
    BY <1>0, <1>2, SnapshotTypes DEF Meets, Typed
  <2>2. t.objCache[o] # NotCached BY <2>1 DEF NotCached
  <2>3. \A p \in Obj \ {o} : t.objCache[p] = s.objCache[p] BY <2>1
  <2>4. \A p \in Obj \ {o} : Met(t, p) <=> Met(s, p) BY <1>2 DEF Kept, Met, Holder
  <2> QED BY <1>0, <1>2, <2>1, <2>2, <2>3, <2>4
<1> QED BY <1>1, <1>2, Growth

LEMMA TraitKeys0 ==
  ASSUME Faithful, NEW tr \in Traits
  PROVE  TraitKey(tr) \in TraitKeys /\ WireName(tr) \in Strings /\ Members[tr] \in Seq(Strings)
BY TraitNames

LEMMA CachedKept ==
  ASSUME Faithful, NEW s, WInv(s), NEW t, Typed(t), WStep(s, t)
  PROVE  Cached(t)
<1>0. Typed(s) /\ Cached(s) BY DEF WInv
<1>1. \A o \in Obj : t.objCache[o] # NotCached <=> Met(t, o) BY ObjectMoves
<1>2. (\A k \in StrKeys : t.strCache[k] < t.strIndex) /\ t.strCache[StrKey[Empty]] = NotCached
  <2>1. CASE SameStrings(s, t) BY <1>0, <2>1 DEF Cached, SameStrings
  <2>2. ASSUME NEW x \in Strings, AddsString(s, t, x)
        PROVE  (\A k \in StrKeys : t.strCache[k] < t.strIndex) /\ t.strCache[StrKey[Empty]] = NotCached
    <3>1. /\ s.strCache \in [StrKeys -> Index] /\ s.strIndex \in Nat
          /\ \A k \in StrKeys : s.strCache[k] < s.strIndex
      BY <1>0 DEF Typed, Cached
    <3>2. StrKey[Empty] # StrKey[x] BY <2>2, StreamAssumption DEF Faithful, AddsString
    <3>3. StrKey[Empty] \in StrKeys BY StreamAssumption, WriterAssumption
    <3>4. t.strCache[StrKey[Empty]] = NotCached
      BY <1>0, <2>2, <3>1, <3>2, <3>3 DEF AddsString, Cached
    <3>5. \A k \in StrKeys : t.strCache[k] = IF k = StrKey[x] THEN s.strIndex ELSE s.strCache[k]
      BY <2>2, <3>1 DEF AddsString
    <3>6. \A k \in StrKeys : s.strCache[k] \in Int BY <3>1 DEF Index, NotCached
    <3>7. t.strIndex = s.strIndex + 1 BY <2>2 DEF AddsString
    <3> QED BY <3>1, <3>4, <3>5, <3>6, <3>7
  <2> QED BY <2>1, <2>2, StringMoves
<1>3. /\ \A k \in TraitKeys : t.traitCache[k] < t.traitIndex
      /\ \A k \in TraitKeys : s.traitCache[k] # NotCached => t.traitCache[k] # NotCached
      /\ \A tr \in Traits : AddsTraits(s, t, tr) => t.traitCache[TraitKey(tr)] # NotCached
  <2>1. /\ s.traitCache \in [TraitKeys -> Index] /\ s.traitIndex \in Nat
        /\ \A k \in TraitKeys : s.traitCache[k] < s.traitIndex
    BY <1>0 DEF Typed, Cached
  <2>2. ASSUME NEW tr \in Traits, AddsTraits(s, t, tr)
        PROVE  /\ \A k \in TraitKeys : t.traitCache[k] = IF k = TraitKey(tr) THEN s.traitIndex
                                                         ELSE s.traitCache[k]
               /\ t.traitIndex = s.traitIndex + 1 /\ TraitKey(tr) \in TraitKeys
    BY <2>1, <2>2, TraitKeys0 DEF AddsTraits
  <2>3. \A k \in TraitKeys : s.traitCache[k] \in Int BY <2>1 DEF Index, NotCached
  <2>4. s.traitIndex # NotCached BY <2>1 DEF NotCached
  <2>5. CASE SameTraits(s, t)
    <3>1. ASSUME NEW tr \in Traits, AddsTraits(s, t, tr) PROVE FALSE
      <4>1. t.traitIndex = s.traitIndex /\ t.traitIndex = s.traitIndex + 1
        BY <2>5, <3>1 DEF AddsTraits, SameTraits
      <4> QED BY <2>1, <4>1
    <3> QED BY <2>1, <2>5, <3>1 DEF SameTraits
  <2>6. CASE \E tr \in Traits : AddsTraits(s, t, tr)
    <3>1. PICK tr \in Traits : AddsTraits(s, t, tr) BY <2>6
    <3>2. \A u \in Traits : AddsTraits(s, t, u) => t.traitCache[TraitKey(u)] # NotCached
      BY <2>2, <2>4
    <3>3. \A k \in TraitKeys : t.traitCache[k] < t.traitIndex BY <2>1, <2>2, <2>3, <3>1
    <3> QED BY <2>2, <2>4, <3>1, <3>2, <3>3
  <2> QED BY <2>5, <2>6, TraitMoves
<1>4. ASSUME NEW o \in Obj, Kept(s, t, o)
      PROVE  /\ t.heap[o].kind \in {"object", "ac"} =>
                  TrOf(t, o) \in Traits /\ t.traitCache[TraitKey(TrOf(t, o))] # NotCached
             /\ t.heap[o].kind = "object" => TrOf(t, o) # ACTraits
  <2>1. t.heap[o].kind = s.heap[o].kind /\ TrOf(t, o) = TrOf(s, o) BY <1>4 DEF Kept, TrOf
  <2>2. TrOf(s, o) \in Traits => TraitKey(TrOf(s, o)) \in TraitKeys BY TraitKeys0
  <2> QED BY <1>0, <1>3, <2>1, <2>2 DEF Cached
<1>5. ASSUME NEW o \in Obj, GivesNew(s, t, o)
      PROVE  /\ t.heap[o].kind \in {"object", "ac"} =>
                  TrOf(t, o) \in Traits /\ t.traitCache[TraitKey(TrOf(t, o))] # NotCached
             /\ t.heap[o].kind = "object" => TrOf(t, o) # ACTraits
  <2>1. CASE t.heap[o].kind \notin {"object", "ac"} BY <2>1
  <2>2. ASSUME NEW tr \in Traits, NEW len, GivesDescribed(s, t, o, tr, len)
        PROVE  /\ TrOf(t, o) = tr /\ t.traitCache[TraitKey(tr)] # NotCached
               /\ t.heap[o].kind = "object" => tr # ACTraits
    <3>1. TrOf(t, o) = tr /\ (t.heap[o].kind = "object" => tr # ACTraits)
      BY <2>2 DEF GivesDescribed, TrOf
    <3>2. t.traitCache[TraitKey(tr)] # NotCached
      <4>1. CASE Knows(s, tr) BY <2>2, <4>1, TraitKeys0, <1>3 DEF GivesDescribed, Describes, Knows
      <4>2. CASE ~Knows(s, tr) BY <2>2, <4>2, <1>3 DEF GivesDescribed, Describes, AddsTraits
      <4> QED BY <4>1, <4>2
    <3> QED BY <3>1, <3>2
  <2>3. CASE \E tr \in Traits, len \in Nat : GivesDescribed(s, t, o, tr, len) BY <2>2, <2>3
  <2>4. CASE \/ GivesLeaf(s, t, o) \/ \E len \in Nat : GivesNamed(s, t, o, len)
             \/ \E n, left \in Nat, names \in Seq(Strings), tok \in Token :
                  GivesFilled(s, t, o, n, left, names, tok)
    BY <2>4 DEF GivesLeaf, GivesNamed, GivesFilled, Filling
  <2> QED BY <1>5, <2>3, <2>4 DEF GivesNew
<1>6. \A o \in Obj : Kept(s, t, o) \/ GivesNew(s, t, o) BY Growth DEF Holder
<1> QED BY <1>1, <1>2, <1>3, <1>4, <1>5, <1>6 DEF Cached

LEMMA ServedIs ==
  ASSUME NEW f \in Frame
  PROVE  /\ ServedOf(f).obj = f.obj /\ ServedOf(f).names = f.names /\ ServedOf(f).src = f.src
         /\ ServedOf(f).left = f.left - 1 /\ ServedOf(f).members = f.members
         /\ ServedOf(f).dyn = f.dyn /\ ServedOf(f).key = None /\ ServedOf(f).len = f.len
BY DEF ServedOf, Frame

LEMMA NewFrameIs ==
  ASSUME NEW o, NEW names, NEW src, NEW len, NEW members, NEW dyn
  PROVE  LET f == NewFrame(o, names, src, len, members, dyn)
         IN  /\ f.obj = o /\ f.names = names /\ f.src = src /\ f.len = len /\ f.left = len
             /\ f.members = members /\ f.dyn = dyn /\ f.key = None
BY DEF NewFrame

\* What a frame that turns may become.
LEMMA TurnedIs ==
  ASSUME NEW s, Typed(s), s.stack # <<>>
  PROVE  LET f == TopOf(s)
         IN  /\ LET g == Shorter(f)
                IN  /\ g.obj = f.obj /\ g.names = Tail(f.names) /\ g.src = f.src /\ g.left = f.left
                    /\ g.members = f.members /\ g.dyn = f.dyn /\ g.key = f.key /\ g.len = f.len
             /\ LET g == [f EXCEPT !.src = FALSE]
                IN  /\ g.obj = f.obj /\ g.names = f.names /\ g.src = FALSE /\ g.left = f.left
                    /\ g.members = f.members /\ g.dyn = f.dyn /\ g.key = f.key /\ g.len = f.len
             /\ \A k : LET g == [f EXCEPT !.left = 1, !.key = k]
                       IN  /\ g.obj = f.obj /\ g.names = f.names /\ g.src = f.src /\ g.left = 1
                           /\ g.members = f.members /\ g.dyn = f.dyn /\ g.key = k /\ g.len = f.len
             /\ LET g == [f EXCEPT !.dyn = FALSE]
                IN  /\ g.obj = f.obj /\ g.names = f.names /\ g.src = f.src /\ g.left = f.left
                    /\ g.members = f.members /\ g.dyn = FALSE /\ g.key = f.key /\ g.len = f.len
<1>1. TopOf(s) \in Frame BY TopTypes
<1> QED BY <1>1 DEF Frame, Shorter

\* The frames of the functions that were active before the step.
Stands(s, t) ==
  /\ SameBelow(s, t) /\ t.stack[Len(s.stack)].obj = TopOf(s).obj
  /\ Len(s.stack) > 1 /\ Pair(s, Len(s.stack) - 1) =>
       LET g == t.stack[Len(s.stack)]
       IN  /\ g.names = <<>> /\ g.src = FALSE
           /\ g.dyn = TRUE \/ (Len(t.stack) = Len(s.stack) /\ g.left = 0)

LEMMA ServesStands ==
  ASSUME NEW s, WInv(s), NEW t, Serves(s, t)
  PROVE  Stands(s, t)
<1> DEFINE L == Len(s.stack)
<1>0. Typed(s) /\ Path(s) BY DEF WInv
<1>1. /\ s.stack # <<>> /\ TopOf(s).names = <<>> /\ TopOf(s).src = FALSE /\ TopOf(s).left > 0
      /\ SameBelow(s, t) /\ t.stack[L] = ServedOf(TopOf(s))
  BY DEF Serves, Wants
<1>2. TopOf(s) = s.stack[L] /\ TopOf(s) \in Frame /\ TopOf(s).left \in Nat /\ L \in Nat \ {0}
  BY <1>0, <1>1, TopTypes
<1>3. /\ t.stack[L].obj = TopOf(s).obj /\ t.stack[L].names = <<>> /\ t.stack[L].src = FALSE
      /\ t.stack[L].dyn = TopOf(s).dyn
  BY <1>1, <1>2, ServedIs
<1>4. L > 1 /\ Pair(s, L - 1) => TopOf(s).dyn = TRUE
  <2> SUFFICES ASSUME L > 1, Pair(s, L - 1) PROVE TopOf(s).dyn = TRUE
    OBVIOUS
  <2>1. L - 1 \in 1 .. L - 1 /\ (L - 1) + 1 = L BY <1>2
  <2>2. s.stack[L].dyn = TRUE \/ s.stack[L].left = 0 BY <1>0, <2>1 DEF Path
  <2> QED BY <1>1, <1>2, <2>2
<1> QED BY <1>1, <1>3, <1>4 DEF Stands

LEMMA TurnsStands ==
  ASSUME NEW s, WInv(s), NEW t,
         \/ SaysName(s, t) \/ SaysSource(s, t) \/ (\E k \in Keys \ {Empty} : WritesKey(s, t, k))
         \/ Closes(s, t)
  PROVE  Stands(s, t) /\ Len(t.stack) = Len(s.stack)
<1> DEFINE L == Len(s.stack)
<1>0. Typed(s) /\ Path(s) BY DEF WInv
<1>1. s.stack # <<>> /\ Len(t.stack) = L /\ SameBelow(s, t) /\ TopOf(t) = t.stack[L]
  BY DEF SaysName, SaysSource, WritesKey, Closes, Turns, TopOf
<1>2. TopOf(s) = s.stack[L] /\ L \in Nat \ {0} BY <1>0, <1>1, TopTypes
<1>3. L > 1 /\ Pair(s, L - 1) =>
        TopOf(s).names = <<>> /\ TopOf(s).src = FALSE /\ (TopOf(s).dyn = TRUE \/ TopOf(s).left = 0)
  <2> SUFFICES ASSUME L > 1, Pair(s, L - 1)
               PROVE  /\ TopOf(s).names = <<>> /\ TopOf(s).src = FALSE
                      /\ TopOf(s).dyn = TRUE \/ TopOf(s).left = 0
    OBVIOUS
  <2>1. L - 1 \in 1 .. L - 1 /\ (L - 1) + 1 = L BY <1>2
  <2> QED BY <1>0, <1>2, <2>1 DEF Path
<1>4. CASE SaysName(s, t)
  <2>1. TopOf(t) = Shorter(TopOf(s)) /\ TopOf(s).names # <<>> BY <1>4 DEF SaysName, Turns
  <2> QED BY <1>0, <1>1, <1>3, <2>1, TurnedIs DEF Stands
<1>5. CASE SaysSource(s, t)
  <2>1. TopOf(t) = [TopOf(s) EXCEPT !.src = FALSE] /\ TopOf(s).src = TRUE BY <1>5 DEF SaysSource, Turns
  <2> QED BY <1>0, <1>1, <1>3, <2>1, TurnedIs DEF Stands
<1>6. CASE \E k \in Keys \ {Empty} : WritesKey(s, t, k)
  <2>1. PICK k : /\ TopOf(t) = [TopOf(s) EXCEPT !.left = 1, !.key = k] /\ TopOf(s).dyn = TRUE
                 /\ TopOf(s).names = <<>>
    BY <1>6 DEF WritesKey, Turns, Open0
  <2> QED BY <1>0, <1>1, <1>3, <2>1, TurnedIs DEF Stands
<1>7. CASE Closes(s, t)
  <2>1. TopOf(t) = [TopOf(s) EXCEPT !.dyn = FALSE] /\ TopOf(s).left = 0 /\ TopOf(s).names = <<>>
    BY <1>7 DEF Closes, Turns, Open0
  <2> QED BY <1>0, <1>1, <1>3, <2>1, TurnedIs DEF Stands
<1> QED BY <1>1, <1>4, <1>5, <1>6, <1>7

\* Nothing is added to an object a function below the top writes.
LEMMA KidsBelow ==
  ASSUME NEW s, WInv(s), NEW t, WStep(s, t)
  PROVE  /\ \A p \in Holder : Met(s, p) /\ p # TopOf(s).obj => t.heap[p].kids = s.heap[p].kids
         /\ \A i \in 1 .. Len(s.stack) - 1 : ~Pair(s, i) =>
              s.stack[i].obj # TopOf(s).obj /\ t.heap[s.stack[i].obj].kids = s.heap[s.stack[i].obj].kids
<1>0. Typed(s) /\ Path(s) BY DEF WInv
<1>1. \A p \in Holder : Met(s, p) /\ p # TopOf(s).obj => t.heap[p].kids = s.heap[p].kids
  BY MetStays DEF Kept
<1> SUFFICES ASSUME NEW i \in 1 .. Len(s.stack) - 1, ~Pair(s, i)
             PROVE  /\ s.stack[i].obj # TopOf(s).obj
                    /\ t.heap[s.stack[i].obj].kids = s.heap[s.stack[i].obj].kids
  BY <1>1
<1>2. Len(s.stack) \in Nat BY <1>0, SnapshotTypes
<1>3. i \in 1 .. Len(s.stack) /\ Len(s.stack) \in 1 .. Len(s.stack) /\ i < Len(s.stack) BY <1>2
<1>4. s.stack[i].obj # TopOf(s).obj
  <2> SUFFICES ASSUME s.stack[i].obj = s.stack[Len(s.stack)].obj PROVE FALSE
    BY DEF TopOf
  <2>1. Len(s.stack) = i + 1 BY <1>0, <1>3 DEF Path
  <2> QED BY <2>1 DEF Pair
<1>5. s.stack[i].obj \in Holder /\ Met(s, s.stack[i].obj) BY <1>0, <1>3, SnapshotTypes DEF Path
<1> QED BY <1>1, <1>4, <1>5

\* The parts of Path that say how two frames lie on one another.
Linked(s, i) ==
  /\ s.stack[i].names = <<>> /\ s.stack[i].src = FALSE /\ s.stack[i].key = None
  /\ ~Pair(s, i) =>
       LET o == s.stack[i].obj
           p == s.stack[i + 1].obj
       IN  /\ s.heap[p].depth = s.heap[o].depth + Extra(s, o)
           /\ s.heap[o].kids # <<>>
           /\ s.heap[o].kids[Len(s.heap[o].kids)].val = p
  /\ Pair(s, i) =>
       /\ s.stack[i + 1].names = <<>> /\ s.stack[i + 1].src = FALSE
       /\ s.stack[i + 1].dyn = TRUE \/ (i + 1 = Len(s.stack) /\ s.stack[i + 1].left = 0)
Apart(s, i, j) ==
  IF s.stack[i].obj = s.stack[j].obj
  THEN j = i + 1 /\ s.heap[s.stack[i].obj].kind = "hash"
  ELSE s.heap[s.stack[i].obj].depth + Extra(s, s.stack[i].obj) <= s.heap[s.stack[j].obj].depth

LEMMA PathParts ==
  ASSUME NEW s
  PROVE  Path(s) <=>
           /\ s.stack # <<>> => s.stack[1].obj = Root
           /\ \A i \in 1 .. Len(s.stack) :
                Met(s, s.stack[i].obj) /\ s.heap[s.stack[i].obj].kind # "leaf"
           /\ \A i, j \in 1 .. Len(s.stack) : i < j => Apart(s, i, j)
           /\ \A i \in 1 .. Len(s.stack) - 1 : Linked(s, i)
BY DEF Path, Apart, Linked

\* What was below the top stays as it was.
LEMMA StandsLinked ==
  ASSUME NEW s, WInv(s), NEW t, Typed(t), WStep(s, t), Stands(s, t), s.stack # <<>>,
         Len(t.stack) >= Len(s.stack)
  PROVE  /\ \A i \in 1 .. Len(s.stack) :
              /\ t.stack[i].obj = s.stack[i].obj /\ Met(t, t.stack[i].obj)
              /\ t.heap[t.stack[i].obj].kind = s.heap[s.stack[i].obj].kind
              /\ t.heap[t.stack[i].obj].kind # "leaf"
              /\ t.heap[t.stack[i].obj].depth = s.heap[s.stack[i].obj].depth
              /\ Extra(t, t.stack[i].obj) = Extra(s, s.stack[i].obj)
              /\ t.stack[i].obj \in Holder
         /\ \A i, j \in 1 .. Len(s.stack) : i < j => Apart(t, i, j)
         /\ \A i \in 1 .. Len(s.stack) - 1 : Linked(t, i)
<1> DEFINE L == Len(s.stack)
<1>0. Typed(s) /\ Path(s) BY DEF WInv
<1>1. TopOf(s) = s.stack[L] /\ L \in Nat \ {0} /\ Len(t.stack) \in Nat
  BY <1>0, TopTypes, SnapshotTypes
<1>2. \A i \in 1 .. L : t.stack[i].obj = s.stack[i].obj
  BY <1>1 DEF Stands, SameBelow
<1>3. \A i \in 1 .. L : /\ s.stack[i].obj \in Holder /\ Met(s, s.stack[i].obj)
                        /\ s.heap[s.stack[i].obj].kind # "leaf"
  BY <1>0, SnapshotTypes DEF Path
<1>4. ASSUME NEW i \in 1 .. L
      PROVE  /\ t.stack[i].obj = s.stack[i].obj /\ Met(t, t.stack[i].obj)
             /\ t.heap[t.stack[i].obj].kind = s.heap[s.stack[i].obj].kind
             /\ t.heap[t.stack[i].obj].kind # "leaf"
             /\ t.heap[t.stack[i].obj].depth = s.heap[s.stack[i].obj].depth
             /\ Extra(t, t.stack[i].obj) = Extra(s, s.stack[i].obj)
             /\ t.stack[i].obj \in Holder
  <2> DEFINE o == s.stack[i].obj
  <2>1. /\ Met(t, o) /\ t.heap[o].depth = s.heap[o].depth /\ t.heap[o].kind = s.heap[o].kind
    BY <1>3, MetStays
  <2> QED BY <1>2, <1>3, <2>1 DEF Extra
<1>5. ASSUME NEW i \in 1 .. L, NEW j \in 1 .. L, i < j PROVE Apart(t, i, j)
  <2>1. Apart(s, i, j) BY <1>0, <1>5, PathParts
  <2>2. t.heap[t.stack[i].obj].depth = s.heap[s.stack[i].obj].depth
    BY <1>4
  <2>3. t.heap[t.stack[j].obj].depth = s.heap[s.stack[j].obj].depth /\ t.stack[j].obj = s.stack[j].obj
    BY <1>4
  <2>4. /\ Extra(t, t.stack[i].obj) = Extra(s, s.stack[i].obj) /\ t.stack[i].obj = s.stack[i].obj
        /\ t.heap[t.stack[i].obj].kind = s.heap[s.stack[i].obj].kind
    BY <1>4
  <2> QED BY <2>1, <2>2, <2>3, <2>4 DEF Apart
<1>6. ASSUME NEW i \in 1 .. L - 1 PROVE Linked(t, i)
  <2>1. Linked(s, i) /\ t.stack[i] = s.stack[i] BY <1>0, <1>6, PathParts DEF Stands, SameBelow
  <2>2. i \in 1 .. L /\ i + 1 \in 1 .. L BY <1>1
  <2>3. Pair(t, i) <=> Pair(s, i) BY <1>4, <2>2 DEF Pair
  <2>4. CASE ~Pair(s, i)
    <3> DEFINE o == s.stack[i].obj
               p == s.stack[i + 1].obj
    <3>1. /\ t.stack[i].obj = o /\ t.stack[i + 1].obj = p
          /\ t.heap[o].depth = s.heap[o].depth /\ Extra(t, o) = Extra(s, o)
          /\ t.heap[p].depth = s.heap[p].depth
      BY <1>4, <2>2
    <3>2. t.heap[o].kids = s.heap[o].kids BY <2>4, KidsBelow
    <3>3. /\ s.heap[p].depth = s.heap[o].depth + Extra(s, o) /\ s.heap[o].kids # <<>>
          /\ s.heap[o].kids[Len(s.heap[o].kids)].val = p
          /\ s.stack[i].names = <<>> /\ s.stack[i].src = FALSE /\ s.stack[i].key = None
      BY <2>1, <2>4 DEF Linked
    <3> HIDE DEF o, p
    <3> QED BY <2>1, <2>3, <2>4, <3>1, <3>2, <3>3 DEF Linked
  <2>5. CASE Pair(s, i)
    <3>1. /\ s.stack[i].names = <<>> /\ s.stack[i].src = FALSE /\ s.stack[i].key = None
          /\ s.stack[i + 1].names = <<>> /\ s.stack[i + 1].src = FALSE
          /\ s.stack[i + 1].dyn = TRUE \/ (i + 1 = L /\ s.stack[i + 1].left = 0)
      BY <2>1, <2>5 DEF Linked
    <3>2. CASE i + 1 < L
      <4>1. t.stack[i + 1] = s.stack[i + 1] BY <1>1, <3>2 DEF Stands, SameBelow
      <4>2. s.stack[i + 1].dyn = TRUE BY <3>1, <3>2
      <4> QED BY <2>1, <2>3, <2>5, <3>1, <4>1, <4>2 DEF Linked
    <3>3. CASE i + 1 = L
      <4>1. L > 1 /\ i = L - 1 BY <1>1, <3>3
      <4>2. LET g == t.stack[L]
            IN  /\ g.names = <<>> /\ g.src = FALSE
                /\ g.dyn = TRUE \/ (Len(t.stack) = L /\ g.left = 0)
        BY <2>5, <4>1 DEF Stands
      <4> QED BY <2>1, <2>3, <2>5, <3>1, <3>3, <4>2 DEF Linked
    <3> QED BY <1>1, <3>2, <3>3
  <2> QED BY <2>4, <2>5
<1> QED BY <1>4, <1>5, <1>6

LEMMA PathKeptHere ==
  ASSUME NEW s, WInv(s), NEW t, Typed(t), WStep(s, t), Stands(s, t), s.stack # <<>>,
         Len(t.stack) = Len(s.stack)
  PROVE  Path(t)
<1>1. Len(s.stack) \in Nat \ {0} /\ s.stack[1].obj = Root BY TopTypes DEF WInv, Path
<1>2. /\ \A i \in 1 .. Len(s.stack) : /\ t.stack[i].obj = s.stack[i].obj /\ Met(t, t.stack[i].obj)
                                      /\ t.heap[t.stack[i].obj].kind # "leaf"
      /\ \A i, j \in 1 .. Len(s.stack) : i < j => Apart(t, i, j)
      /\ \A i \in 1 .. Len(s.stack) - 1 : Linked(t, i)
  BY <1>1, StandsLinked
<1>3. t.stack[1].obj = Root BY <1>1, <1>2
<1> QED BY <1>2, <1>3, PathParts

\* A new object on top of the stack, with one frame or two.
LEMMA PathGrows ==
  ASSUME NEW s, WInv(s), NEW t, Typed(t), WStep(s, t), NEW o \in Obj, Meets(s, t, o), Met(t, o),
         t.heap[o].kind # "leaf", t.stack[Len(s.stack) + 1].obj = o,
         \/ Len(t.stack) = Len(s.stack) + 1
         \/ /\ Len(t.stack) = Len(s.stack) + 2 /\ t.heap[o].kind = "hash"
            /\ LET f == t.stack[Len(s.stack) + 1]
                   g == t.stack[Len(s.stack) + 2]
               IN  /\ f.names = <<>> /\ f.src = FALSE /\ f.key = None
                   /\ g.obj = o /\ g.names = <<>> /\ g.src = FALSE /\ g.dyn = TRUE
  PROVE  Path(t)
<1> DEFINE L == Len(s.stack)
           p == TopOf(s).obj
<1>0. Typed(s) /\ Path(s) /\ Serves(s, t) /\ ~Met(s, o) BY DEF WInv, Meets
<1>1. /\ s.stack # <<>> /\ TopOf(s).names = <<>> /\ TopOf(s).src = FALSE
      /\ t.stack[L] = ServedOf(TopOf(s))
  BY <1>0 DEF Serves, Wants
<1>2. TopOf(s) = s.stack[L] /\ L \in Nat \ {0} /\ TopOf(s) \in Frame /\ s.stack[1].obj = Root
  BY <1>0, <1>1, TopTypes DEF Path
<1>3. Stands(s, t) BY <1>0, ServesStands
<1>4. /\ \A i \in 1 .. L :
           /\ t.stack[i].obj = s.stack[i].obj /\ Met(t, t.stack[i].obj)
           /\ t.heap[t.stack[i].obj].kind = s.heap[s.stack[i].obj].kind
           /\ t.heap[t.stack[i].obj].kind # "leaf"
           /\ t.heap[t.stack[i].obj].depth = s.heap[s.stack[i].obj].depth
           /\ Extra(t, t.stack[i].obj) = Extra(s, s.stack[i].obj)
           /\ t.stack[i].obj \in Holder
      /\ \A i, j \in 1 .. L : i < j => Apart(t, i, j)
      /\ \A i \in 1 .. L - 1 : Linked(t, i)
  <2>1. Len(t.stack) >= L BY <1>2
  <2> QED BY <1>1, <1>3, <2>1, StandsLinked
<1>5. \A i \in 1 .. L : s.stack[i].obj # o BY <1>0 DEF Path
<1>6. t.heap[o].depth = s.heap[p].depth + Extra(s, p) BY <1>1 DEF Meets, Opened
<1>7. p \in Holder /\ s.heap[p].depth \in Nat BY <1>0, <1>1, TopTypes, SnapshotTypes
<1>8. \A i \in 1 .. L :
        t.heap[t.stack[i].obj].depth + Extra(t, t.stack[i].obj) <= t.heap[o].depth
  <2> TAKE i \in 1 .. L
  <2> DEFINE q == s.stack[i].obj
  <2>1. /\ t.heap[t.stack[i].obj].depth = s.heap[q].depth /\ Extra(t, t.stack[i].obj) = Extra(s, q)
    BY <1>4
  <2>2. q \in Holder /\ s.heap[q].depth \in Nat BY <1>0, SnapshotTypes
  <2>3. Extra(s, q) \in {0, 1} /\ Extra(s, p) \in {0, 1} BY DEF Extra
  <2>4. q = p \/ (i < L /\ Apart(s, i, L) /\ q # s.stack[L].obj)
    <3>1. i = L => q = p BY <1>2
    <3>2. i # L => i < L BY <1>2
    <3>3. i < L => Apart(s, i, L) BY <1>0, <1>2, PathParts
    <3> QED BY <1>2, <3>1, <3>2, <3>3
  <2>5. CASE q = p BY <1>6, <1>7, <2>1, <2>2, <2>3, <2>5
  <2>6. CASE i < L /\ Apart(s, i, L) /\ q # s.stack[L].obj
    <3>1. s.heap[q].depth + Extra(s, q) <= s.heap[p].depth BY <1>2, <2>6 DEF Apart
    <3> QED BY <1>6, <1>7, <2>1, <2>2, <2>3, <3>1
  <2> QED BY <2>4, <2>5, <2>6
<1>9. /\ t.stack[L].obj = p /\ t.stack[L].names = <<>> /\ t.stack[L].src = FALSE
      /\ t.stack[L].key = None
  BY <1>1, <1>2, ServedIs
<1>10. Linked(t, L)
  <2>1. ~Pair(t, L) /\ t.stack[L + 1].obj = o BY <1>2, <1>5, <1>9 DEF Pair
  <2>2. t.heap[o].depth = t.heap[p].depth + Extra(t, p)
    <3>1. L \in 1 .. L BY <1>2
    <3>2. t.stack[L].obj = p /\ s.stack[L].obj = p BY <1>2, <1>9
    <3>3. t.heap[p].depth = s.heap[p].depth /\ Extra(t, p) = Extra(s, p) BY <1>4, <3>1, <3>2
    <3> QED BY <1>6, <3>3
  <2>3. t.heap[p].kids # <<>> /\ t.heap[p].kids[Len(t.heap[p].kids)].val = o
    <3> DEFINE k == [key |-> KeyHere(s), val |-> o]
    <3>1. k.val = o OBVIOUS
    <3>2. p # o BY <1>2, <1>5
    <3>3. Stores(s, t, o, p) BY <1>7, <3>2 DEF Meets
    <3>4. t.heap[p].kids = Append(s.heap[p].kids, k) BY <3>3 DEF Stores
    <3> HIDE DEF k, p
    <3>5. s.heap[p].kids \in Seq(Kid) BY <1>0, <1>7, SnapshotTypes
    <3>6. s.heap[p].kids \in Seq(Kid \cup {k}) /\ k \in Kid \cup {k} BY <3>5
    <3>7. /\ Len(t.heap[p].kids) = Len(s.heap[p].kids) + 1
          /\ t.heap[p].kids[Len(s.heap[p].kids) + 1] = k
          /\ t.heap[p].kids \in Seq(Kid \cup {k}) /\ Len(s.heap[p].kids) \in Nat
      BY <3>4, <3>6, Appended, Elements
    <3>8. Len(t.heap[p].kids) # 0 BY <3>7
    <3> QED BY <3>1, <3>7, <3>8, Elements
  <2> QED BY <1>9, <2>1, <2>2, <2>3 DEF Linked
<1>11. t.stack[1].obj = Root BY <1>2, <1>4
<1>12. CASE Len(t.stack) = L + 1
  <2>1. \A i \in 1 .. Len(t.stack) : i \in 1 .. L \/ i = L + 1 BY <1>2, <1>12
  <2>2. \A i \in 1 .. Len(t.stack) : Met(t, t.stack[i].obj) /\ t.heap[t.stack[i].obj].kind # "leaf"
    BY <1>4, <2>1
  <2>3. ASSUME NEW i \in 1 .. Len(t.stack), NEW j \in 1 .. Len(t.stack), i < j PROVE Apart(t, i, j)
    <3>1. i \in 1 .. L BY <1>2, <1>12, <2>3
    <3>2. CASE j \in 1 .. L BY <1>4, <2>3, <3>1, <3>2
    <3>3. CASE j = L + 1
      <4>1. t.stack[j].obj = o BY <3>3
      <4>2. t.stack[i].obj # o BY <1>4, <1>5, <3>1
      <4>3. t.heap[t.stack[i].obj].depth + Extra(t, t.stack[i].obj) <= t.heap[o].depth BY <1>8, <3>1
      <4> HIDE DEF L, p
      <4> QED BY <4>1, <4>2, <4>3 DEF Apart
    <3> QED BY <2>1, <3>2, <3>3
  <2>4. ASSUME NEW i \in 1 .. Len(t.stack) - 1 PROVE Linked(t, i)
    <3>1. i \in 1 .. L - 1 \/ i = L BY <1>2, <1>12
    <3> QED BY <1>4, <1>10, <3>1
  <2> QED BY <1>11, <2>2, <2>3, <2>4, PathParts
<1>13. CASE /\ Len(t.stack) = Len(s.stack) + 2 /\ t.heap[o].kind = "hash"
            /\ LET f == t.stack[Len(s.stack) + 1]
                   g == t.stack[Len(s.stack) + 2]
               IN  /\ f.names = <<>> /\ f.src = FALSE /\ f.key = None
                   /\ g.obj = o /\ g.names = <<>> /\ g.src = FALSE /\ g.dyn = TRUE
  <2>1. \A i \in 1 .. Len(t.stack) : i \in 1 .. L \/ i = L + 1 \/ i = L + 2 BY <1>2, <1>13
  <2>2. \A i \in 1 .. Len(t.stack) : Met(t, t.stack[i].obj) /\ t.heap[t.stack[i].obj].kind # "leaf"
    BY <1>4, <1>13, <2>1
  <2>3. ASSUME NEW i \in 1 .. Len(t.stack), NEW j \in 1 .. Len(t.stack), i < j PROVE Apart(t, i, j)
    <3>1. i \in 1 .. L \/ (i = L + 1 /\ j = L + 2) BY <1>2, <1>13, <2>1, <2>3
    <3>2. CASE i \in 1 .. L /\ j \in 1 .. L BY <1>4, <2>3, <3>2
    <3>3. CASE i \in 1 .. L /\ (j = L + 1 \/ j = L + 2)
      <4>1. t.stack[j].obj = o BY <1>13, <3>3
      <4>2. t.stack[i].obj # o BY <1>4, <1>5, <3>3
      <4>3. t.heap[t.stack[i].obj].depth + Extra(t, t.stack[i].obj) <= t.heap[o].depth BY <1>8, <3>3
      <4> HIDE DEF L, p
      <4> QED BY <4>1, <4>2, <4>3 DEF Apart
    <3>4. CASE i = L + 1 /\ j = L + 2
      <4>1. t.stack[i].obj = o /\ t.stack[j].obj = o /\ j = i + 1 BY <1>2, <1>13, <3>4
      <4> QED BY <1>13, <4>1 DEF Apart
    <3> QED BY <2>1, <3>1, <3>2, <3>3, <3>4
  <2>4. Linked(t, L + 1)
    <3>1. (L + 1) + 1 = L + 2 /\ L + 2 = Len(t.stack) BY <1>2, <1>13
    <3>2. Pair(t, L + 1) BY <1>13, <3>1 DEF Pair
    <3> QED BY <1>13, <3>1, <3>2 DEF Linked
  <2>5. ASSUME NEW i \in 1 .. Len(t.stack) - 1 PROVE Linked(t, i)
    <3>1. i \in 1 .. L - 1 \/ i = L \/ i = L + 1 BY <1>2, <1>13
    <3> QED BY <1>4, <1>10, <2>4, <3>1
  <2> QED BY <1>11, <2>2, <2>3, <2>5, PathParts
<1> QED BY <1>12, <1>13

LEMMA PathShrinks ==
  ASSUME NEW s, WInv(s), NEW t, Typed(t), Returns(s, t)
  PROVE  Path(t)
<1> DEFINE L == Len(s.stack)
<1>0. Typed(s) /\ Path(s) /\ s.stack # <<>> /\ Len(t.stack) = L - 1 /\ SameBelow(s, t)
      /\ t.heap = s.heap
  BY DEF WInv, Returns, SameGraph
<1>1. L \in Nat \ {0} /\ t.stack \in Seq(Frame) BY <1>0, TopTypes DEF Typed
<1>2. \A i \in 1 .. L - 1 : t.stack[i] = s.stack[i] BY <1>0 DEF SameBelow
<1>3. /\ s.stack[1].obj = Root
      /\ \A i \in 1 .. L : Met(s, s.stack[i].obj) /\ s.heap[s.stack[i].obj].kind # "leaf"
      /\ \A i, j \in 1 .. L : i < j => Apart(s, i, j)
      /\ \A i \in 1 .. L - 1 : Linked(s, i)
  BY <1>0, PathParts
<1>4. t.stack # <<>> => t.stack[1].obj = Root
  <2>1. t.stack # <<>> => 1 \in 1 .. L - 1 BY <1>0, <1>1, Elements
  <2> QED BY <1>2, <1>3, <2>1
<1>5. \A i \in 1 .. Len(t.stack) : Met(t, t.stack[i].obj) /\ t.heap[t.stack[i].obj].kind # "leaf"
  BY <1>0, <1>1, <1>2, <1>3 DEF Met
<1>6. ASSUME NEW i \in 1 .. Len(t.stack), NEW j \in 1 .. Len(t.stack), i < j PROVE Apart(t, i, j)
  <2>1. Apart(s, i, j) /\ t.stack[i] = s.stack[i] /\ t.stack[j] = s.stack[j]
    BY <1>0, <1>1, <1>2, <1>3, <1>6
  <2> QED BY <1>0, <2>1 DEF Apart, Extra
<1>7. ASSUME NEW i \in 1 .. Len(t.stack) - 1 PROVE Linked(t, i)
  <2>1. /\ i \in 1 .. L - 1 /\ i + 1 \in 1 .. L - 1 /\ i + 1 # L BY <1>0, <1>1
  <2>2. t.stack[i] = s.stack[i] /\ t.stack[i + 1] = s.stack[i + 1] /\ Linked(s, i)
    BY <1>2, <1>3, <2>1
  <2> QED BY <1>0, <2>1, <2>2 DEF Linked, Pair, Extra
<1> QED BY <1>4, <1>5, <1>6, <1>7, PathParts

LEMMA PathKept ==
  ASSUME NEW s, WInv(s), NEW t, Typed(t), WStep(s, t)
  PROVE  Path(t)
<1>1. CASE \E v \in Values : GivesPlain(s, t, v)
  <2>1. Serves(s, t) /\ Len(t.stack) = Len(s.stack) BY <1>1 DEF GivesPlain
  <2>2. Stands(s, t) /\ s.stack # <<>> BY <2>1, ServesStands DEF Serves, Wants
  <2> QED BY <2>1, <2>2, PathKeptHere
<1>2. ASSUME NEW o \in Obj, GivesNew(s, t, o) PROVE Path(t)
  <2>1. Meets(s, t, o) BY <1>2, NewMeets
  <2>2. Met(t, o) /\ Serves(s, t) BY <2>1 DEF Meets, Met
  <2>3. CASE GivesLeaf(s, t, o)
    <3>1. Stands(s, t) /\ s.stack # <<>> BY <2>2, ServesStands DEF Serves, Wants
    <3>2. Len(t.stack) = Len(s.stack) BY <2>3 DEF GivesLeaf
    <3> QED BY <3>1, <3>2, PathKeptHere
  <2>4. ASSUME NEW f, Pushes(s, t, f), f.obj = o, t.heap[o].kind # "leaf" PROVE Path(t)
    BY <2>1, <2>2, <2>4, PathGrows DEF Pushes
  <2>5. CASE \E n, left \in Nat, names \in Seq(Strings), tok \in Token :
               GivesFilled(s, t, o, n, left, names, tok)
    <3>1. PICK n, left \in Nat, names \in Seq(Strings), tok \in Token :
            GivesFilled(s, t, o, n, left, names, tok)
      BY <2>5
    <3>2. /\ Pushes(s, t, NewFrame(o, names, FALSE, left, <<>>, FALSE)) /\ t.heap[o].kind # "leaf"
      BY <3>1 DEF GivesFilled, Filling
    <3>3. NewFrame(o, names, FALSE, left, <<>>, FALSE).obj = o BY DEF NewFrame
    <3> QED BY <2>4, <3>2, <3>3
  <2>6. CASE \E len \in Nat : GivesNamed(s, t, o, len)
    <3>1. PICK len \in Nat : GivesNamed(s, t, o, len) BY <2>6
    <3> DEFINE f == t.stack[Len(s.stack) + 1]
               g == t.stack[Len(s.stack) + 2]
    <3>2. /\ Len(t.stack) = Len(s.stack) + 2 /\ t.heap[o].kind = "hash"
          /\ f = NewFrame(o, <<>>, FALSE, len, <<>>, FALSE)
          /\ g = NewFrame(o, <<>>, FALSE, 0, <<>>, TRUE)
      BY <3>1 DEF GivesNamed
    <3>3. /\ f.obj = o /\ f.names = <<>> /\ f.src = FALSE /\ f.key = None
          /\ g.obj = o /\ g.names = <<>> /\ g.src = FALSE /\ g.dyn = TRUE
      BY <3>2 DEF NewFrame
    <3> QED BY <2>1, <2>2, <3>2, <3>3, PathGrows
  <2>7. CASE \E tr \in Traits, len \in Nat : GivesDescribed(s, t, o, tr, len)
    <3>1. PICK tr \in Traits, len \in Nat : GivesDescribed(s, t, o, tr, len) BY <2>7
    <3>2. Pushes(s, t, DescribedFrame(s, o, tr, len)) /\ t.heap[o].kind # "leaf"
      BY <3>1 DEF GivesDescribed
    <3>3. DescribedFrame(s, o, tr, len).obj = o BY DEF DescribedFrame, NewFrame
    <3> QED BY <2>4, <3>2, <3>3
  <2> QED BY <1>2, <2>3, <2>5, <2>6, <2>7 DEF GivesNew
<1>3. CASE \/ SaysName(s, t) \/ SaysSource(s, t) \/ (\E k \in Keys \ {Empty} : WritesKey(s, t, k))
           \/ Closes(s, t)
  <2>1. s.stack # <<>> BY <1>3, QuietSteps
  <2> QED BY <1>3, <2>1, TurnsStands, PathKeptHere
<1>4. CASE Returns(s, t) BY <1>4, PathShrinks
<1> QED BY <1>1, <1>2, <1>3, <1>4 DEF WStep

LEMMA Settled ==
  ASSUME NEW t, t.stack # <<>> => TopOf(t).names = <<>> /\ TopOf(t).src = FALSE
  PROVE  Begun(t)
BY DEF Begun, Naming, Pending

LEMMA BegunAnew ==
  ASSUME Faithful, NEW s, WInv(s), NEW t, Typed(t), WStep(s, t), NEW o \in Obj, NEW tr \in Traits,
         NEW len, GivesDescribed(s, t, o, tr, len)
  PROVE  Begun(t)
<1> DEFINE g == TopOf(t)
           w == t.heap[o]
<1>0. Typed(s) /\ Cached(s) BY DEF WInv
<1>1. /\ Meets(s, t, o) /\ Describes(s, t, tr) /\ Len(t.stack) = Len(s.stack) + 1
      /\ t.stack[Len(s.stack) + 1] = DescribedFrame(s, o, tr, len)
      /\ IF tr = ACTraits THEN w.kind = "ac" ELSE w.kind = "object" /\ w.tr = tr
  BY DEF GivesDescribed, Pushes
<1>2. g = DescribedFrame(s, o, tr, len) /\ t.stack # <<>> /\ TrOf(t, o) = tr
  <2>1. Len(s.stack) \in Nat /\ Len(t.stack) # 0 BY <1>0, <1>1, SnapshotTypes
  <2>2. t.stack # <<>> BY <2>1
  <2> QED BY <1>1, <2>2 DEF TopOf, TrOf
<1>3. /\ g.obj = o /\ g.names = NamesOf(s, tr) /\ g.key = None
      /\ tr = ACTraits => g.src = TRUE /\ g.left = g.len /\ g.members = <<>> /\ g.dyn = FALSE
      /\ tr # ACTraits => g.src = FALSE /\ g.left = Owed(tr) /\ g.members = Sealed(tr)
                          /\ g.dyn = OpenEnded(tr)
  BY <1>2 DEF DescribedFrame, NewFrame
<1> HIDE DEF g
<1>4. /\ w.kids = <<>> /\ w.nth = t.met /\ t.objCache[o] + ObjSlots(w.kind) = t.objIndex
  <2>1. /\ w.kids = <<>> /\ w.nth = s.met + 1 /\ t.met = s.met + 1
        /\ t.objCache = [s.objCache EXCEPT ![o] = s.objIndex]
        /\ t.objIndex = s.objIndex + ObjSlots(w.kind)
    BY <1>1 DEF Meets
  <2>2. s.objCache \in [Obj -> Index] BY <1>0 DEF Typed
  <2> QED BY <2>1, <2>2
<1>5. ASSUME g.names # <<>>
      PROVE  /\ Suffix(g.names, Full(tr)) /\ t.traitCache[TraitKey(tr)] = t.traitIndex - 1
             /\ \A k \in TraitKeys : k # TraitKey(tr) => t.traitCache[k] < t.traitIndex - 1
  <2>1. ~Knows(s, tr) /\ g.names = Full(tr) BY <1>3, <1>5 DEF NamesOf
  <2>2. /\ t.traitCache = [s.traitCache EXCEPT ![TraitKey(tr)] = s.traitIndex]
        /\ t.traitIndex = s.traitIndex + 1
    BY <1>1, <2>1 DEF Describes
  <2>3. /\ s.traitCache \in [TraitKeys -> Index] /\ s.traitIndex \in Nat
        /\ \A k \in TraitKeys : s.traitCache[k] < s.traitIndex
    BY <1>0 DEF Typed, Cached
  <2>4. TraitKey(tr) \in TraitKeys BY TraitKeys0
  <2>5. Suffix(Full(tr), Full(tr))
    <3>1. Full(tr) \in Seq(Strings) BY TraitNames DEF Full
    <3>2. Len(Full(tr)) \in Nat BY <3>1, Elements
    <3> QED BY <3>2 DEF Suffix
  <2> QED BY <2>1, <2>2, <2>3, <2>4, <2>5
<1>6. g.obj = TopOf(t).obj /\ TopOf(t) = g BY DEF g
<1>7. Naming(t) => g.names # <<>> BY <1>6 DEF Naming
<1> HIDE DEF w
<1>8. /\ g.src = TRUE => w.kind = "ac" /\ g.left = g.len /\ g.members = <<>> /\ g.dyn = FALSE
      /\ g.names # <<>> => w.kind \in {"ac", "object", "vector"}
      /\ w.kind = "object" /\ g.names # <<>> =>
           g.left = Owed(w.tr) /\ g.members = Sealed(w.tr) /\ g.dyn = OpenEnded(w.tr)
      /\ w.kind = "ac" => g.src = TRUE
      /\ w.kind # "vector"
  BY <1>1, <1>3 DEF w
<1> QED BY <1>2, <1>3, <1>4, <1>5, <1>6, <1>7, <1>8 DEF Begun, w

LEMMA BegunNamed ==
  ASSUME NEW s, WInv(s), NEW t, Typed(t), SaysName(s, t)
  PROVE  Begun(t)
<1> DEFINE f == TopOf(s)
           g == TopOf(t)
           o == f.obj
           w == s.heap[o]
<1>0. Typed(s) /\ Begun(s) /\ s.stack # <<>> /\ f.names # <<>> /\ g = Shorter(f)
      /\ SameObjects(s, t) /\ SameTraits(s, t) /\ SameGraph(s, t) /\ Len(t.stack) = Len(s.stack)
  BY DEF WInv, SaysName, Turns
<1>1. /\ g.obj = f.obj /\ g.names = Tail(f.names) /\ g.src = f.src /\ g.left = f.left
      /\ g.members = f.members /\ g.dyn = f.dyn /\ g.key = f.key /\ g.len = f.len
  BY <1>0, TurnedIs
<1>2. /\ f.src = TRUE => w.kind = "ac" /\ f.left = f.len /\ f.members = <<>> /\ f.dyn = FALSE
      /\ w.kind \in {"ac", "object", "vector"}
      /\ w.kind # "vector" =>
           /\ w.kind = "ac" => f.src = TRUE
           /\ Suffix(f.names, Full(TrOf(s, o)))
           /\ s.traitCache[TraitKey(TrOf(s, o))] = s.traitIndex - 1
           /\ \A k \in TraitKeys : k # TraitKey(TrOf(s, o)) => s.traitCache[k] < s.traitIndex - 1
           /\ f.key = None /\ w.kids = <<>> /\ w.nth = s.met /\ o \in Obj
           /\ s.objCache[o] + ObjSlots(w.kind) = s.objIndex
      /\ w.kind = "object" =>
           f.left = Owed(w.tr) /\ f.members = Sealed(w.tr) /\ f.dyn = OpenEnded(w.tr)
      /\ w.kind = "vector" => Len(f.names) = 1
  BY <1>0 DEF Begun, Naming, Pending
<1>3. f.names \in Seq(Strings) BY <1>0, TopTypes
<1>4. \A full : Suffix(f.names, full) => Suffix(Tail(f.names), full)
  <2> DEFINE u == f.names
             v == Tail(u)
  <2>1. /\ Len(u) \in Nat \ {0} /\ Len(v) = Len(u) - 1
        /\ \A i \in 1 .. Len(v) : v[i] = u[i + 1]
    BY <1>0, <1>3
  <2> HIDE DEF u, v
  <2> SUFFICES ASSUME NEW full, Suffix(u, full) PROVE Suffix(v, full)
    BY DEF u, v
  <2>2. Len(v) <= Len(full) BY <2>1 DEF Suffix
  <2>3. ASSUME NEW i \in 1 .. Len(v) PROVE v[i] = full[Len(full) - Len(v) + i]
    <3>1. i + 1 \in 1 .. Len(u) BY <2>1
    <3>2. u[i + 1] = full[Len(full) - Len(u) + (i + 1)] BY <3>1 DEF Suffix
    <3>3. Len(full) - Len(u) + (i + 1) = Len(full) - Len(v) + i BY <2>1
    <3> QED BY <2>1, <3>2, <3>3
  <2> QED BY <2>2, <2>3 DEF Suffix
<1>5. Len(f.names) = 1 => Tail(f.names) = <<>>
  <2> SUFFICES ASSUME Len(f.names) = 1 PROVE Tail(f.names) = <<>>
    OBVIOUS
  <2>1. Tail(f.names) \in Seq(Strings) /\ Len(Tail(f.names)) = 0 BY <1>0, <1>3
  <2> HIDE DEF f
  <2>2. PICK u : u = Tail(f.names) OBVIOUS
  <2>3. u \in Seq(Strings) /\ Len(u) = 0 BY <2>1, <2>2
  <2>4. u = <<>> BY <2>3, Elements
  <2> QED BY <2>2, <2>4
<1>6. t.heap = s.heap /\ t.met = s.met /\ t.objCache = s.objCache /\ t.objIndex = s.objIndex
      /\ t.traitCache = s.traitCache /\ t.traitIndex = s.traitIndex
  BY <1>0 DEF SameObjects, SameTraits, SameGraph
<1>7. TrOf(t, o) = TrOf(s, o) /\ t.heap[o] = w BY <1>6 DEF TrOf
<1>8. Naming(t) => w.kind # "vector" BY <1>1, <1>6 DEF Naming
<1>9. Pending(t) => w.kind # "vector" BY <1>1, <1>2, <1>6 DEF Pending
<1> HIDE DEF f, g, o, w
<1>10. TopOf(t) = g /\ g.obj = o BY <1>1 DEF g, o
<1> QED BY <1>1, <1>2, <1>4, <1>5, <1>6, <1>7, <1>8, <1>9, <1>10 DEF Begun

LEMMA BegunKept ==
  ASSUME Faithful, NEW s, WInv(s), NEW t, Typed(t), WStep(s, t)
  PROVE  Begun(t)
<1>0. Typed(s) /\ Begun(s) /\ Path(s) BY DEF WInv
<1>1. ASSUME Serves(s, t), Len(t.stack) = Len(s.stack) PROVE Begun(t)
  <2>1. /\ s.stack # <<>> /\ TopOf(s).names = <<>> /\ TopOf(s).src = FALSE
        /\ TopOf(t) = ServedOf(TopOf(s))
    BY <1>1 DEF Serves, Wants, TopOf
  <2>2. TopOf(s) \in Frame BY <1>0, <2>1, TopTypes
  <2>3. TopOf(t).names = <<>> /\ TopOf(t).src = FALSE BY <2>1, <2>2, ServedIs
  <2> QED BY <2>3, Settled
<1>2. ASSUME NEW v \in Values, GivesPlain(s, t, v) PROVE Begun(t)
  BY <1>1, <1>2 DEF GivesPlain
<1>3. ASSUME NEW o \in Obj, GivesNew(s, t, o) PROVE Begun(t)
  <2>0. Len(s.stack) \in Nat BY <1>0, SnapshotTypes
  <2>1. CASE GivesLeaf(s, t, o) BY <1>1, <2>1 DEF GivesLeaf, Meets
  <2>2. CASE \E n, left \in Nat, names \in Seq(Strings), tok \in Token :
               GivesFilled(s, t, o, n, left, names, tok)
    <3>1. PICK n, left \in Nat, names \in Seq(Strings), tok \in Token :
            GivesFilled(s, t, o, n, left, names, tok)
      BY <2>2
    <3>2. /\ TopOf(t) = NewFrame(o, names, FALSE, left, <<>>, FALSE)
          /\ names = <<>> \/ (names = <<TypeName>> /\ t.heap[o].kind = "vector")
      BY <3>1 DEF GivesFilled, Pushes, Filling, TopOf
    <3>3. TopOf(t).names = names /\ TopOf(t).src = FALSE /\ TopOf(t).obj = o
      BY <3>2 DEF NewFrame
    <3>4. CASE names = <<>> BY <3>3, <3>4, Settled
    <3>5. CASE names = <<TypeName>> /\ t.heap[o].kind = "vector"
      BY <3>3, <3>5 DEF Begun, Naming, Pending
    <3> QED BY <3>2, <3>4, <3>5
  <2>3. CASE \E len \in Nat : GivesNamed(s, t, o, len)
    <3>1. PICK len \in Nat : GivesNamed(s, t, o, len) BY <2>3
    <3>2. TopOf(t) = NewFrame(o, <<>>, FALSE, 0, <<>>, TRUE)
      BY <3>1 DEF GivesNamed, TopOf
    <3>3. TopOf(t).names = <<>> /\ TopOf(t).src = FALSE BY <3>2 DEF NewFrame
    <3> QED BY <3>3, Settled
  <2>4. CASE \E tr \in Traits, len \in Nat : GivesDescribed(s, t, o, tr, len)
    BY <2>4, BegunAnew
  <2> QED BY <1>3, <2>1, <2>2, <2>3, <2>4 DEF GivesNew
<1>4. CASE SaysName(s, t) BY <1>4, BegunNamed
<1>5. CASE SaysSource(s, t)
  <2>1. /\ s.stack # <<>> /\ TopOf(t) = [TopOf(s) EXCEPT !.src = FALSE] /\ TopOf(s).names = <<>>
    BY <1>5 DEF SaysSource, Turns
  <2>2. TopOf(t).names = <<>> /\ TopOf(t).src = FALSE BY <1>0, <2>1, TurnedIs
  <2> QED BY <2>2, Settled
<1>6. ASSUME s.stack # <<>>, Open0(s) PROVE TopOf(s).names = <<>> /\ TopOf(s).src = FALSE
  <2>1. TopOf(s).names = <<>> /\ TopOf(s).dyn = TRUE BY <1>6 DEF Open0
  <2>2. TopOf(s).src \in BOOLEAN BY <1>0, <1>6, TopTypes
  <2>3. TopOf(s).src # TRUE BY <1>0, <1>6, <2>1 DEF Begun
  <2> QED BY <2>1, <2>2, <2>3
<1>7. ASSUME NEW k, WritesKey(s, t, k) PROVE Begun(t)
  <2>1. s.stack # <<>> /\ Open0(s) /\ TopOf(t) = [TopOf(s) EXCEPT !.left = 1, !.key = k]
    BY <1>7 DEF WritesKey, Turns
  <2>2. TopOf(s) \in Frame /\ TopOf(s).names = <<>> /\ TopOf(s).src = FALSE
    BY <1>0, <1>6, <2>1, TopTypes
  <2>3. TopOf(t).names = <<>> /\ TopOf(t).src = FALSE BY <2>1, <2>2 DEF Frame
  <2> QED BY <2>3, Settled
<1>8. CASE Closes(s, t)
  <2>1. s.stack # <<>> /\ Open0(s) /\ TopOf(t) = [TopOf(s) EXCEPT !.dyn = FALSE]
    BY <1>8 DEF Closes, Turns
  <2>2. TopOf(t).names = <<>> /\ TopOf(t).src = FALSE BY <1>0, <1>6, <2>1, TurnedIs
  <2> QED BY <2>2, Settled
<1>9. CASE Returns(s, t)
  <2> DEFINE L == Len(s.stack)
  <2>1. s.stack # <<>> /\ Len(t.stack) = L - 1 /\ SameBelow(s, t) BY <1>9 DEF Returns
  <2>2. L \in Nat \ {0} /\ t.stack \in Seq(Frame) BY <1>0, <2>1, TopTypes DEF Typed
  <2>3. ASSUME t.stack # <<>> PROVE TopOf(t).names = <<>> /\ TopOf(t).src = FALSE
    <3>1. L - 1 \in 1 .. L - 1 BY <2>1, <2>2, <2>3, Elements
    <3>2. TopOf(t) = s.stack[L - 1] BY <2>1, <3>1 DEF TopOf, SameBelow
    <3> QED BY <1>0, <3>1, <3>2 DEF Path
  <2> QED BY <2>3, Settled
<1> QED BY <1>2, <1>3, <1>4, <1>5, <1>7, <1>8, <1>9 DEF WStep

LEMMA StepKeeps ==
  ASSUME Faithful, NEW s, WInv(s), NEW t, Typed(t), WStep(s, t)
  PROVE  WInv(t)
BY NumberedKept, KidsMetKept, CachedKept, PathKept, BegunKept, FlatKept DEF WInv

-----------------------------------------------------------------------------
(***************************************************************************)
(* How many objects the reader knows.                                      *)
(***************************************************************************)
Place(s, o) == s.objCache[o] - s.heap[o].depth

LEMMA KnownTypes ==
  ASSUME NEW s, Typed(s)
  PROVE  Opened(s) \in Nat /\ Waiting(s) \in {0, 1} /\ Unnamed(s) \in {0, 1} /\ Known(s) \in Int
<1>1. Opened(s) \in Nat
  <2>1. CASE s.stack = <<>> BY <2>1 DEF Opened
  <2>2. CASE s.stack # <<>>
    <3>1. TopOf(s).obj \in Holder BY <2>2, TopTypes
    <3>2. s.heap[TopOf(s).obj].depth \in Nat BY <3>1, SnapshotTypes
    <3> QED BY <2>2, <3>2 DEF Opened, Extra
  <2> QED BY <2>1, <2>2
<1>2. s.objIndex \in Nat BY SnapshotTypes
<1> QED BY <1>1, <1>2 DEF Waiting, Unnamed, Known

\* A function that wants a value waits for nothing else.
LEMMA NotWaiting ==
  ASSUME NEW s, s.stack # <<>> => TopOf(s).names = <<>> /\ TopOf(s).src = FALSE
  PROVE  Waiting(s) = 0 /\ Unnamed(s) = 0 /\ ~Pending(s) /\ ~Naming(s)
BY DEF Waiting, Unnamed, Pending, Naming

LEMMA ServedTop ==
  ASSUME NEW s, Typed(s), NEW t, Serves(s, t), Len(t.stack) = Len(s.stack)
  PROVE  /\ s.stack # <<>> /\ t.stack # <<>> /\ TopOf(t) = ServedOf(TopOf(s))
         /\ TopOf(t).obj = TopOf(s).obj /\ TopOf(t).names = <<>> /\ TopOf(t).src = FALSE
<1>1. /\ s.stack # <<>> /\ TopOf(s).names = <<>> /\ TopOf(s).src = FALSE
      /\ TopOf(t) = ServedOf(TopOf(s))
  BY DEF Serves, Wants, TopOf
<1>2. Len(s.stack) \in Nat \ {0} /\ TopOf(s) \in Frame BY <1>1, TopTypes
<1>3. t.stack # <<>> BY <1>2
<1> QED BY <1>1, <1>2, <1>3, ServedIs

\* A value that is not new makes nothing known.
LEMMA KnownGiven ==
  ASSUME NEW s, WInv(s), NEW t, Typed(t), NEW v \in Values, GivesPlain(s, t, v)
  PROVE  Known(t) = Known(s) /\ Waiting(s) = 0 /\ Waiting(t) = 0
<1>0. Typed(s) /\ WStep(s, t) /\ Path(s) /\ Serves(s, t) /\ Len(t.stack) = Len(s.stack)
  BY DEF WInv, WStep, GivesPlain
<1>1. /\ s.stack # <<>> /\ t.stack # <<>> /\ TopOf(t).obj = TopOf(s).obj
      /\ TopOf(t).names = <<>> /\ TopOf(t).src = FALSE
      /\ TopOf(s).names = <<>> /\ TopOf(s).src = FALSE
  BY <1>0, ServedTop DEF Serves, Wants
<1>2. Waiting(s) = 0 /\ Waiting(t) = 0 BY <1>1, NotWaiting
<1>3. TopOf(s).obj \in Holder BY <1>0, <1>1, TopTypes
<1>4. Stores(s, t, v, TopOf(s).obj) /\ t.objIndex = s.objIndex BY <1>3 DEF GivesPlain, SameObjects
<1>5. Opened(t) = Opened(s) BY <1>1, <1>4 DEF Opened, Extra, Stores
<1> QED BY <1>2, <1>4, <1>5 DEF Known

\* An object that is met has its place where the reader's table ends; it is
\* known at once unless something is waited for.
LEMMA KnownNew ==
  ASSUME NEW s, WInv(s), NEW t, Typed(t), NEW o \in Obj, GivesNew(s, t, o)
  PROVE  /\ Known(t) = Known(s) + 1 - Waiting(t) /\ Waiting(s) = 0 /\ Place(t, o) = Known(s)
         /\ t.heap[o].depth = Opened(s)
<1>m. Meets(s, t, o) BY NewMeets
<1>0. Typed(s) /\ WStep(s, t) /\ Path(s) /\ Meets(s, t, o) /\ Serves(s, t)
  <2>1. WStep(s, t) BY DEF WStep
  <2> QED BY <1>m, <2>1 DEF WInv, Meets
<1>1. s.stack # <<>> /\ TopOf(s).names = <<>> /\ TopOf(s).src = FALSE BY <1>0 DEF Serves, Wants
<1>2. Waiting(s) = 0 BY <1>1, NotWaiting
<1>3. /\ t.objIndex = s.objIndex + ObjSlots(t.heap[o].kind) /\ t.heap[o].depth = Opened(s)
      /\ t.objCache = [s.objCache EXCEPT ![o] = s.objIndex] /\ s.objCache \in [Obj -> Index]
  BY <1>0 DEF Meets, Typed
<1>4. Opened(s) \in Nat /\ s.objIndex \in Nat BY <1>0, KnownTypes, SnapshotTypes
<1>5. t.objCache[o] = s.objIndex BY <1>3
<1>6. Place(t, o) = Known(s) BY <1>2, <1>3, <1>4, <1>5 DEF Place, Known
<1>7. CASE GivesLeaf(s, t, o)
  <2>1. Len(t.stack) = Len(s.stack) /\ t.heap[o].kind = "leaf" BY <1>7 DEF GivesLeaf
  <2>2. /\ t.stack # <<>> /\ TopOf(t).obj = TopOf(s).obj
        /\ TopOf(t).names = <<>> /\ TopOf(t).src = FALSE
    BY <1>0, <2>1, ServedTop
  <2>3. Waiting(t) = 0 BY <2>2, NotWaiting
  <2>4. TopOf(s).obj \in Holder /\ Met(s, TopOf(s).obj)
    <3>1. Len(s.stack) \in 1 .. Len(s.stack) BY <1>0, <1>1, TopTypes
    <3> QED BY <1>0, <1>1, <3>1, TopTypes DEF Path, TopOf
  <2>5. /\ t.heap[TopOf(s).obj].depth = s.heap[TopOf(s).obj].depth
        /\ t.heap[TopOf(s).obj].kind = s.heap[TopOf(s).obj].kind
    BY <1>0, <2>4, MetStays
  <2>6. Opened(t) = Opened(s) BY <1>1, <2>2, <2>5 DEF Opened, Extra
  <2>7. t.objIndex = s.objIndex + 1 BY <1>3, <2>1 DEF ObjSlots
  <2>8. Known(t) = Known(s) + 1 - Waiting(t) BY <1>2, <1>4, <2>3, <2>6, <2>7 DEF Known
  <2> QED BY <1>2, <1>3, <1>6, <2>8
<1>8. CASE ~GivesLeaf(s, t, o)
  <2>1. t.stack # <<>> /\ TopOf(t).obj = o
    <3>0. Len(s.stack) \in Nat BY <1>0, SnapshotTypes
    <3>1. ASSUME NEW f, Pushes(s, t, f), f.obj = o PROVE t.stack # <<>> /\ TopOf(t).obj = o
      BY <3>0, <3>1 DEF Pushes, TopOf
    <3>2. ASSUME NEW len, GivesNamed(s, t, o, len) PROVE t.stack # <<>> /\ TopOf(t).obj = o
      <4>1. /\ Len(t.stack) = Len(s.stack) + 2
            /\ t.stack[Len(s.stack) + 2] = NewFrame(o, <<>>, FALSE, 0, <<>>, TRUE)
        BY <3>2 DEF GivesNamed
      <4>2. t.stack[Len(s.stack) + 2].obj = o BY <4>1 DEF NewFrame
      <4>3. Len(t.stack) # 0 /\ TopOf(t) = t.stack[Len(s.stack) + 2] BY <3>0, <4>1 DEF TopOf
      <4> QED BY <4>2, <4>3
    <3>3. ASSUME NEW n, NEW left, NEW names, NEW tok, GivesFilled(s, t, o, n, left, names, tok)
          PROVE  t.stack # <<>> /\ TopOf(t).obj = o
      <4>1. PICK f : Pushes(s, t, f) /\ f = NewFrame(o, names, FALSE, left, <<>>, FALSE)
        BY <3>3 DEF GivesFilled
      <4>2. f.obj = o BY <4>1 DEF NewFrame
      <4> QED BY <3>1, <4>1, <4>2
    <3>4. ASSUME NEW tr, NEW len, GivesDescribed(s, t, o, tr, len)
          PROVE  t.stack # <<>> /\ TopOf(t).obj = o
      <4>1. PICK f : Pushes(s, t, f) /\ f = DescribedFrame(s, o, tr, len)
        BY <3>4 DEF GivesDescribed
      <4>2. f.obj = o BY <4>1 DEF DescribedFrame, NewFrame
      <4> QED BY <3>1, <4>1, <4>2
    <3> QED BY <1>8, <3>2, <3>3, <3>4 DEF GivesNew
  <2>2. Opened(t) = Opened(s) + Extra(t, o) BY <1>3, <2>1 DEF Opened
  <2>3. ObjSlots(t.heap[o].kind) = 1 + Extra(t, o) BY DEF ObjSlots, Extra
  <2>4. Extra(t, o) \in Nat /\ Waiting(t) \in {0, 1} BY KnownTypes DEF Extra
  <2>5. Known(t) = Known(s) + 1 - Waiting(t)
    BY <1>2, <1>3, <1>4, <2>2, <2>3, <2>4 DEF Known
  <2> QED BY <1>2, <1>3, <1>6, <2>5
<1> QED BY <1>7, <1>8

\* What the function at the top waited for is known when it has come.
LEMMA KnownTurned ==
  ASSUME NEW s, WInv(s), NEW t, Typed(t), NEW f, Turns(s, t, f), f.obj = TopOf(s).obj
  PROVE  Known(t) = Known(s) + Waiting(s) - Waiting(t)
<1>0. Typed(s) BY DEF WInv
<1>1. /\ s.stack # <<>> /\ Len(t.stack) = Len(s.stack) /\ TopOf(t) = f
      /\ t.heap = s.heap /\ t.objIndex = s.objIndex
  BY DEF Turns, SameGraph, SameObjects
<1>2. Len(s.stack) \in Nat \ {0} BY <1>0, <1>1, TopTypes
<1>3. t.stack # <<>> BY <1>1, <1>2
<1>4. Opened(t) = Opened(s) BY <1>1, <1>3 DEF Opened, Extra
<1>5. /\ s.objIndex \in Nat /\ Opened(s) \in Nat /\ Waiting(s) \in {0, 1} /\ Waiting(t) \in {0, 1}
  BY <1>0, KnownTypes, SnapshotTypes
<1> QED BY <1>1, <1>4, <1>5 DEF Known

\* The inner array of a collection is entered a second time.
LEMMA KnownReturned ==
  ASSUME NEW s, WInv(s), NEW t, Typed(t), Returns(s, t)
  PROVE  /\ Known(t) = Known(s) + Extra(s, TopOf(s).obj) /\ Waiting(s) = 0 /\ Waiting(t) = 0
         /\ Unnamed(s) = 0 /\ Unnamed(t) = 0
<1> DEFINE L == Len(s.stack)
<1>0. Typed(s) /\ Path(s) /\ Numbered(s) BY DEF WInv
<1>1. /\ s.stack # <<>> /\ TopOf(s).names = <<>> /\ TopOf(s).src = FALSE
      /\ Len(t.stack) = L - 1 /\ SameBelow(s, t) /\ t.heap = s.heap /\ t.objIndex = s.objIndex
  BY DEF Returns, SameObjects, SameGraph
<1>2. L \in Nat \ {0} /\ TopOf(s) = s.stack[L] /\ TopOf(s).obj \in Holder
  BY <1>0, <1>1, TopTypes
<1>3. Waiting(s) = 0 /\ Unnamed(s) = 0 BY <1>1, NotWaiting
<1>4. s.objIndex \in Nat /\ \A o \in Holder : s.heap[o].depth \in Nat BY <1>0, SnapshotTypes
<1>5. CASE L = 1
  <2>1. t.stack \in Seq(Frame) /\ Len(t.stack) = 0 BY <1>1, <1>5 DEF Typed
  <2>2. t.stack = <<>> BY <2>1, Elements
  <2>3. TopOf(s).obj = Root BY <1>0, <1>1, <1>2, <1>5 DEF Path
  <2>4. Opened(s) = 0 /\ Extra(s, TopOf(s).obj) = 0 BY <1>0, <1>1, <2>3 DEF Opened, Extra, Numbered
  <2>5. Opened(t) = 0 /\ Waiting(t) = 0 /\ Unnamed(t) = 0
    BY <2>2 DEF Opened, Waiting, Pending, Unnamed, Naming
  <2> QED BY <1>1, <1>3, <1>4, <2>4, <2>5 DEF Known
<1>6. CASE L # 1
  <2>1. L - 1 \in 1 .. L - 1 /\ L - 1 \in 1 .. L /\ (L - 1) + 1 = L
    <3> HIDE DEF L
    <3> QED BY <1>2, <1>6
  <2>2. TopOf(t) = s.stack[L - 1] /\ t.stack # <<>>
    <3>1. Len(t.stack) # 0 BY <1>1, <1>2, <1>6
    <3> QED BY <1>1, <2>1, <3>1 DEF TopOf, SameBelow
  <2>3. TopOf(t).names = <<>> /\ TopOf(t).src = FALSE BY <1>0, <2>1, <2>2 DEF Path
  <2>4. Waiting(t) = 0 /\ Unnamed(t) = 0 BY <2>3, NotWaiting
  <2> DEFINE o == s.stack[L - 1].obj
             p == s.stack[L].obj
  <2>5. o \in Holder /\ p \in Holder BY <1>0, <1>2, <2>1, SnapshotTypes
  <2>6. s.heap[o].depth + Extra(s, o) = s.heap[p].depth \/ (o = p /\ Extra(s, p) = 0)
    <3>1. CASE ~Pair(s, L - 1) BY <1>0, <2>1, <3>1 DEF Path
    <3>2. CASE Pair(s, L - 1)
      <4>1. o = p BY <2>1, <3>2 DEF Pair
      <4>2. s.heap[o].kind = "hash" BY <1>0, <1>2, <2>1, <4>1 DEF Path
      <4> QED BY <4>1, <4>2 DEF Extra
    <3> QED BY <3>1, <3>2
  <2>7. Opened(t) = s.heap[o].depth + Extra(s, o) BY <1>1, <2>2 DEF Opened, Extra
  <2>8. Opened(s) = s.heap[p].depth + Extra(s, p) BY <1>1, <1>2 DEF Opened
  <2>9. Extra(s, o) \in Nat /\ Extra(s, p) \in Nat /\ s.heap[o].depth \in Nat /\ s.heap[p].depth \in Nat
    BY <1>4, <2>5 DEF Extra
  <2> HIDE DEF o
  <2>10. Known(t) = Known(s) + Extra(s, p)
    BY <1>1, <1>3, <1>4, <2>4, <2>6, <2>7, <2>8, <2>9 DEF Known
  <2> QED BY <1>2, <1>3, <2>4, <2>10
<1> QED BY <1>5, <1>6
-----------------------------------------------------------------------------
(***************************************************************************)
(* What a later snapshot has in common with an earlier one.                *)
(***************************************************************************)
Extends(u, v) == Len(u) <= Len(v) /\ \A i \in 1 .. Len(u) : v[i] = u[i]

Later(s, t, o) ==
  IF Met(s, o)
  THEN /\ t.heap[o].kind = s.heap[o].kind /\ t.heap[o].tr = s.heap[o].tr
       /\ t.heap[o].nth = s.heap[o].nth /\ t.heap[o].depth = s.heap[o].depth
       /\ o \in Obj => t.objCache[o] = s.objCache[o]
       /\ Extends(s.heap[o].kids, t.heap[o].kids)
  ELSE /\ t.heap[o].nth = 0 \/ t.heap[o].nth > s.met
       /\ o \in Obj => t.objCache[o] = NotCached \/ Place(t, o) >= Known(s)

\* c and d are what is cached of a name earlier and later.
LaterIndex(c, d, n) == IF c # NotCached THEN d = c ELSE d = NotCached \/ d >= n

Earlier(s, t) ==
  /\ Extends(s.stream, t.stream)
  /\ s.met <= t.met /\ Known(s) <= Known(t)
  /\ s.strIndex <= t.strIndex /\ s.traitIndex <= t.traitIndex
  /\ \A o \in Holder : Later(s, t, o)
  /\ \A k \in StrKeys : LaterIndex(s.strCache[k], t.strCache[k], s.strIndex)
  /\ \A k \in TraitKeys : LaterIndex(s.traitCache[k], t.traitCache[k], s.traitIndex)

LEMMA ExtendsTransitive ==
  ASSUME NEW S, NEW u \in Seq(S), NEW v \in Seq(S), NEW w \in Seq(S), Extends(u, v), Extends(v, w)
  PROVE  Extends(u, w)
<1>1. Len(u) \in Nat /\ Len(v) \in Nat /\ Len(w) \in Nat BY Elements
<1> QED BY <1>1 DEF Extends

LEMMA LaterIndexTransitive ==
  ASSUME NEW c \in Int, NEW d \in Int, NEW e \in Int, NEW m \in Nat, NEW n \in Nat, m <= n,
         LaterIndex(c, d, m), LaterIndex(d, e, n)
  PROVE  LaterIndex(c, e, m)
BY DEF LaterIndex

LEMMA EarlierTransitive ==
  ASSUME NEW s, NEW t, NEW u, Typed(s), Typed(t), Typed(u), Earlier(s, t), Earlier(t, u)
  PROVE  Earlier(s, u)
<1>1. Extends(s.stream, u.stream)
  <2>1. Extends(s.stream, t.stream) /\ Extends(t.stream, u.stream) BY DEF Earlier
  <2>2. s.stream \in Seq(Token) /\ t.stream \in Seq(Token) /\ u.stream \in Seq(Token)
    BY DEF Typed
  <2> QED BY <2>1, <2>2, ExtendsTransitive
<1>2. /\ s.met \in Nat /\ t.met \in Nat /\ u.met \in Nat
      /\ s.strIndex \in Nat /\ t.strIndex \in Nat /\ u.strIndex \in Nat
      /\ s.traitIndex \in Nat /\ t.traitIndex \in Nat /\ u.traitIndex \in Nat
  BY DEF Typed
<1>3. Known(s) \in Int /\ Known(t) \in Int /\ Known(u) \in Int BY KnownTypes
<1>e. /\ s.met <= t.met /\ Known(s) <= Known(t)
      /\ s.strIndex <= t.strIndex /\ s.traitIndex <= t.traitIndex
      /\ t.met <= u.met /\ Known(t) <= Known(u)
      /\ t.strIndex <= u.strIndex /\ t.traitIndex <= u.traitIndex
  BY DEF Earlier
<1>4. /\ s.met <= u.met /\ Known(s) <= Known(u)
      /\ s.strIndex <= u.strIndex /\ s.traitIndex <= u.traitIndex
  BY <1>2, <1>3, <1>e
<1>5. ASSUME NEW o \in Holder PROVE Later(s, u, o)
  <2>1. Later(s, t, o) /\ Later(t, u, o) BY DEF Earlier
  <2>2. /\ s.heap[o].kids \in Seq(Kid) /\ t.heap[o].kids \in Seq(Kid) /\ u.heap[o].kids \in Seq(Kid)
        /\ t.heap[o].nth \in Nat /\ u.heap[o].nth \in Nat
    BY SnapshotTypes
  <2>3. CASE Met(s, o)
    <3>1. Met(t, o) BY <2>1, <2>3 DEF Later, Met
    <3>2. Extends(s.heap[o].kids, t.heap[o].kids) /\ Extends(t.heap[o].kids, u.heap[o].kids)
      BY <2>1, <2>3, <3>1 DEF Later
    <3>3. Extends(s.heap[o].kids, u.heap[o].kids) BY <2>2, <3>2, ExtendsTransitive
    <3> QED BY <2>1, <2>3, <3>1, <3>3 DEF Later
  <2>4. CASE ~Met(s, o)
    <3>2. t.heap[o].nth = 0 \/ t.heap[o].nth > s.met BY <2>1, <2>4 DEF Later
    <3>3. u.heap[o].nth = t.heap[o].nth \/ u.heap[o].nth = 0 \/ u.heap[o].nth > t.met
      BY <2>1 DEF Later
    <3>4. u.heap[o].nth = 0 \/ u.heap[o].nth > s.met BY <1>2, <1>e, <2>2, <3>2, <3>3
    <3>5. ASSUME o \in Obj PROVE u.objCache[o] = NotCached \/ Place(u, o) >= Known(s)
      <4>1. t.objCache[o] = NotCached \/ Place(t, o) >= Known(s) BY <2>1, <2>4, <3>5 DEF Later
      <4>2. CASE Met(t, o)
        <5>1. u.objCache[o] = t.objCache[o] /\ u.heap[o].depth = t.heap[o].depth
          BY <2>1, <3>5, <4>2 DEF Later
        <5> QED BY <4>1, <5>1 DEF Place
      <4>3. CASE ~Met(t, o)
        <5>1. u.objCache[o] = NotCached \/ Place(u, o) >= Known(t) BY <2>1, <3>5, <4>3 DEF Later
        <5>2. u.objCache[o] \in Int /\ u.heap[o].depth \in Int
          BY <3>5, SnapshotTypes DEF Index, NotCached
        <5>3. Place(u, o) \in Int BY <5>2 DEF Place
        <5> QED BY <1>3, <1>e, <5>1, <5>3
      <4> QED BY <4>2, <4>3
    <3> QED BY <2>4, <3>4, <3>5 DEF Later
  <2> QED BY <2>3, <2>4
<1>6. ASSUME NEW k \in StrKeys PROVE LaterIndex(s.strCache[k], u.strCache[k], s.strIndex)
  <2>1. /\ LaterIndex(s.strCache[k], t.strCache[k], s.strIndex)
        /\ LaterIndex(t.strCache[k], u.strCache[k], t.strIndex)
    BY DEF Earlier
  <2>2. s.strCache[k] \in Int /\ t.strCache[k] \in Int /\ u.strCache[k] \in Int
    BY SnapshotTypes DEF Index, NotCached
  <2> QED BY <1>2, <1>e, <2>1, <2>2, LaterIndexTransitive
<1>7. ASSUME NEW k \in TraitKeys PROVE LaterIndex(s.traitCache[k], u.traitCache[k], s.traitIndex)
  <2>1. /\ LaterIndex(s.traitCache[k], t.traitCache[k], s.traitIndex)
        /\ LaterIndex(t.traitCache[k], u.traitCache[k], t.traitIndex)
    BY DEF Earlier
  <2>2. s.traitCache[k] \in Int /\ t.traitCache[k] \in Int /\ u.traitCache[k] \in Int
    BY SnapshotTypes DEF Index, NotCached
  <2> QED BY <1>2, <1>e, <2>1, <2>2, LaterIndexTransitive
<1> QED BY <1>1, <1>4, <1>5, <1>6, <1>7 DEF Earlier

LEMMA TokenTypes ==
  /\ \A v \in Scalars : ScalarTok(v) \in Token
  /\ \A m \in BOOLEAN : EmptyTok(m) \in Token
  /\ \A x \in Strings, m \in BOOLEAN : x # Empty => StrTok(x, m) \in Token
  /\ \A n \in Nat, m \in BOOLEAN : StrRefTok(n, m) \in Token
  /\ \A n \in Nat : /\ RefTok(n) \in Token /\ ArrayTok(n) \in Token /\ XmlTok(n) \in Token
                    /\ NamedArrayTok(n) \in Token /\ DictTok(n) \in Token
                    /\ VectorTok(n) \in Token /\ TraitRefTok(n) \in Token
  /\ LeafTok \in Token
  /\ \A tr \in Traits : TraitsTok(tr) \in Token
<1>1. \A v \in Scalars : ScalarTok(v) \in Token BY DEF ScalarTok, Token
<1>2. \A m \in BOOLEAN : EmptyTok(m) \in Token BY DEF EmptyTok, Token
<1>3. \A x \in Strings, m \in BOOLEAN : x # Empty => StrTok(x, m) \in Token BY DEF StrTok, Token
<1>4. \A n \in Nat, m \in BOOLEAN : StrRefTok(n, m) \in Token BY DEF StrRefTok, Token
<1>5. \A n \in Nat : /\ RefTok(n) \in Token /\ ArrayTok(n) \in Token /\ XmlTok(n) \in Token
                     /\ NamedArrayTok(n) \in Token /\ DictTok(n) \in Token
                     /\ VectorTok(n) \in Token /\ TraitRefTok(n) \in Token
  BY DEF RefTok, ArrayTok, XmlTok, NamedArrayTok, DictTok, VectorTok, TraitRefTok, Token
<1>6. LeafTok \in Token BY DEF LeafTok, Token
<1>7. ASSUME NEW tr \in Traits PROVE TraitsTok(tr) \in Token
  <2>1. Len(Members[tr]) \in Nat BY StreamAssumption
  <2> QED BY <2>1 DEF TraitsTok, Token
<1> QED BY <1>1, <1>2, <1>3, <1>4, <1>5, <1>6, <1>7

\* A step says one token, or none.
LEMMA SaysOne ==
  ASSUME Faithful, NEW s, WInv(s), NEW t, Typed(t), WStep(s, t)
  PROVE  t.stream = s.stream \/ \E tok \in Token : Says(s, t, tok)
<1>0. Typed(s) BY DEF WInv
<1>p. ASSUME NEW x \in Strings, NEW m \in BOOLEAN, Puts(s, t, x, m)
      PROVE  \E tok \in Token : Says(s, t, tok)
  <2>1. StrKey[x] \in StrKeys BY WriterAssumption
  <2>2. s.strCache[StrKey[x]] \in Index BY <1>0, <2>1, SnapshotTypes
  <2>3. CASE Says(s, t, EmptyTok(m))
    <3>1. EmptyTok(m) \in Token BY TokenTypes
    <3> QED BY <2>3, <3>1
  <2>4. CASE x # Empty /\ Says(s, t, StrTok(x, m))
    <3>1. StrTok(x, m) \in Token BY <2>4, TokenTypes
    <3> QED BY <2>4, <3>1
  <2>5. CASE s.strCache[StrKey[x]] # NotCached /\ Says(s, t, StrRefTok(s.strCache[StrKey[x]], m))
    <3>1. s.strCache[StrKey[x]] \in Nat BY <2>2, <2>5 DEF Index
    <3>2. StrRefTok(s.strCache[StrKey[x]], m) \in Token BY <3>1, TokenTypes
    <3> QED BY <2>5, <3>2
  <2> QED BY <1>p, <2>3, <2>4, <2>5 DEF Puts
<1>1. ASSUME NEW v \in Values, GivesPlain(s, t, v) PROVE \E tok \in Token : Says(s, t, tok)
  <2>1. CASE v \in Scalars /\ Says(s, t, ScalarTok(v))
    <3>1. ScalarTok(v) \in Token BY <2>1, TokenTypes
    <3> QED BY <2>1, <3>1
  <2>2. CASE v \in Strings /\ Puts(s, t, v, TRUE) BY <1>p, <2>2
  <2>3. CASE v \in Obj /\ s.objCache[v] # NotCached /\ Says(s, t, RefTok(s.objCache[v]))
    <3>1. s.objCache[v] \in Nat BY <1>0, <2>3, SnapshotTypes DEF Index
    <3>2. RefTok(s.objCache[v]) \in Token BY <3>1, TokenTypes
    <3> QED BY <2>3, <3>2
  <2> QED BY <1>1, <2>1, <2>2, <2>3 DEF GivesPlain
<1>2. ASSUME NEW o \in Obj, GivesNew(s, t, o) PROVE \E tok \in Token : Says(s, t, tok)
  <2>1. ASSUME GivesLeaf(s, t, o) PROVE \E tok \in Token : Says(s, t, tok)
    <3>1. LeafTok \in Token /\ \A n \in Nat : XmlTok(n) \in Token BY DEF LeafTok, XmlTok, Token
    <3> QED BY <2>1, <3>1 DEF GivesLeaf
  <2>2. ASSUME NEW n, NEW left, NEW names, NEW tok \in Token,
               GivesFilled(s, t, o, n, left, names, tok)
        PROVE  \E x \in Token : Says(s, t, x)
    BY <2>2 DEF GivesFilled
  <2>3. ASSUME NEW len \in Nat, GivesNamed(s, t, o, len) PROVE \E tok \in Token : Says(s, t, tok)
    <3>1. NamedArrayTok(len) \in Token BY DEF NamedArrayTok, Token
    <3> QED BY <2>3, <3>1 DEF GivesNamed
  <2>4. ASSUME NEW tr \in Traits, NEW len, GivesDescribed(s, t, o, tr, len)
        PROVE  \E tok \in Token : Says(s, t, tok)
    <3>1. Describes(s, t, tr) BY <2>4 DEF GivesDescribed
    <3>2. CASE Knows(s, tr)
      <4>1. s.traitCache[TraitKey(tr)] \in Nat
        <5>1. TraitKey(tr) \in TraitKeys BY TraitKeys0
        <5> QED BY <1>0, <3>2, <5>1, SnapshotTypes DEF Knows, Index
      <4>2. TraitRefTok(s.traitCache[TraitKey(tr)]) \in Token BY <4>1, TokenTypes
      <4> QED BY <3>1, <3>2, <4>2 DEF Describes
    <3>3. CASE ~Knows(s, tr)
      <4>1. TraitsTok(tr) \in Token BY TokenTypes
      <4> QED BY <3>1, <3>3, <4>1 DEF Describes
    <3> QED BY <3>2, <3>3
  <2> QED BY <1>2, <2>1, <2>2, <2>3, <2>4 DEF GivesNew
<1>3. CASE SaysName(s, t)
  <2>1. s.stack # <<>> /\ TopOf(s).names # <<>> /\ Puts(s, t, Head(TopOf(s).names), FALSE)
    BY <1>3 DEF SaysName, Turns
  <2>2. TopOf(s).names \in Seq(Strings) BY <1>0, <2>1, TopTypes
  <2>3. Head(TopOf(s).names) \in Strings BY <2>1, <2>2
  <2> QED BY <1>p, <2>1, <2>3
<1>4. CASE SaysSource(s, t)
  <2>1. s.stack # <<>> BY <1>4 DEF SaysSource, Turns
  <2>2. ArrayTok(TopOf(s).len) \in Token
    <3>1. TopOf(s).len \in Nat BY <1>0, <2>1, TopTypes
    <3> QED BY <3>1, TokenTypes
  <2> QED BY <1>4, <2>2 DEF SaysSource
<1>5. ASSUME NEW k \in Keys \ {Empty}, WritesKey(s, t, k) PROVE \E tok \in Token : Says(s, t, tok)
  <2>1. k \in Strings BY WriterAssumption
  <2> QED BY <1>5, <1>p, <2>1 DEF WritesKey
<1>6. CASE Closes(s, t)
  <2>1. EmptyTok(FALSE) \in Token BY TokenTypes
  <2> QED BY <1>6, <2>1 DEF Closes
<1>7. CASE Returns(s, t) BY <1>7 DEF Returns
<1> QED BY <1>1, <1>2, <1>3, <1>4, <1>5, <1>6, <1>7 DEF WStep
\* A function that turns waits for nothing new.
LEMMA Turning ==
  ASSUME NEW s, WInv(s), NEW t, Typed(t),
         \/ SaysName(s, t) \/ SaysSource(s, t) \/ (\E k \in Keys \ {Empty} : WritesKey(s, t, k))
         \/ Closes(s, t)
  PROVE  /\ \E f : Turns(s, t, f) /\ f.obj = TopOf(s).obj
         /\ TopOf(t).obj = TopOf(s).obj /\ s.stack # <<>> /\ t.stack # <<>>
         /\ Pending(t) => Pending(s)
         /\ Naming(t) => Naming(s)
<1>0. Typed(s) /\ Begun(s) BY DEF WInv
<1>1. ASSUME NEW f, Turns(s, t, f), f.obj = TopOf(s).obj,
             f.src = TRUE => TopOf(s).src = TRUE, f.names # <<>> => TopOf(s).names # <<>>
      PROVE  /\ \E g : Turns(s, t, g) /\ g.obj = TopOf(s).obj
             /\ TopOf(t).obj = TopOf(s).obj /\ s.stack # <<>> /\ t.stack # <<>>
             /\ Pending(t) => Pending(s)
             /\ Naming(t) => Naming(s)
  <2>1. s.stack # <<>> /\ Len(t.stack) = Len(s.stack) /\ TopOf(t) = f /\ t.heap = s.heap
    BY <1>1 DEF Turns, SameGraph
  <2>2. Len(s.stack) \in Nat \ {0} BY <1>0, <2>1, TopTypes
  <2>3. t.stack # <<>> BY <2>1, <2>2
  <2>4. Pending(t) => Pending(s) BY <1>1, <2>1 DEF Pending
  <2>5. Naming(t) => Naming(s) BY <1>1, <2>1 DEF Naming
  <2> QED BY <1>1, <2>1, <2>3, <2>4, <2>5
<1>2. CASE SaysName(s, t)
  <2>1. Turns(s, t, Shorter(TopOf(s))) /\ s.stack # <<>> /\ TopOf(s).names # <<>>
    BY <1>2 DEF SaysName, Turns
  <2>2. Shorter(TopOf(s)).obj = TopOf(s).obj /\ Shorter(TopOf(s)).src = TopOf(s).src
    BY <1>0, <2>1, TurnedIs
  <2> QED BY <1>1, <2>1, <2>2
<1>3. CASE SaysSource(s, t)
  <2> DEFINE f == [TopOf(s) EXCEPT !.src = FALSE]
  <2>1. Turns(s, t, f) /\ s.stack # <<>> BY <1>3 DEF SaysSource, Turns
  <2>2. f.obj = TopOf(s).obj /\ f.src = FALSE /\ f.names = TopOf(s).names
    BY <1>0, <2>1, TurnedIs
  <2> HIDE DEF f
  <2> QED BY <1>1, <2>1, <2>2
<1>4. ASSUME NEW k, WritesKey(s, t, k)
      PROVE  /\ \E g : Turns(s, t, g) /\ g.obj = TopOf(s).obj
             /\ TopOf(t).obj = TopOf(s).obj /\ s.stack # <<>> /\ t.stack # <<>>
             /\ Pending(t) => Pending(s)
             /\ Naming(t) => Naming(s)
  <2> DEFINE f == [TopOf(s) EXCEPT !.left = 1, !.key = k]
  <2>1. Turns(s, t, f) /\ s.stack # <<>> BY <1>4 DEF WritesKey, Turns
  <2>2. TopOf(s) \in Frame BY <1>0, <2>1, TopTypes
  <2>3. f.obj = TopOf(s).obj /\ f.src = TopOf(s).src /\ f.names = TopOf(s).names
    BY <2>2 DEF Frame
  <2> HIDE DEF f
  <2> QED BY <1>1, <2>1, <2>3
<1>5. CASE Closes(s, t)
  <2> DEFINE f == [TopOf(s) EXCEPT !.dyn = FALSE]
  <2>1. Turns(s, t, f) /\ s.stack # <<>> BY <1>5 DEF Closes, Turns
  <2>2. f.obj = TopOf(s).obj /\ f.src = TopOf(s).src /\ f.names = TopOf(s).names
    BY <1>0, <2>1, TurnedIs
  <2> HIDE DEF f
  <2> QED BY <1>1, <2>1, <2>2
<1> QED BY <1>2, <1>3, <1>4, <1>5

LEMMA KnownGrows ==
  ASSUME NEW s, WInv(s), NEW t, Typed(t), WStep(s, t)
  PROVE  Known(s) <= Known(t)
<1>0. Typed(s) BY DEF WInv
<1>1. /\ Known(s) \in Int /\ Known(t) \in Int /\ Waiting(s) \in {0, 1} /\ Waiting(t) \in {0, 1}
  BY <1>0, KnownTypes
<1>2. ASSUME NEW v \in Values, GivesPlain(s, t, v) PROVE Known(s) <= Known(t)
  <2>1. Known(t) = Known(s) BY <1>2, KnownGiven
  <2> QED BY <1>1, <2>1
<1>3. ASSUME NEW o \in Obj, GivesNew(s, t, o) PROVE Known(s) <= Known(t)
  <2>1. Known(t) = Known(s) + 1 - Waiting(t) BY <1>3, KnownNew
  <2> QED BY <1>1, <2>1
<1>4. CASE \/ SaysName(s, t) \/ SaysSource(s, t) \/ (\E k \in Keys \ {Empty} : WritesKey(s, t, k))
           \/ Closes(s, t)
  <2>1. Pending(t) => Pending(s) BY <1>4, Turning
  <2>2. PICK f : Turns(s, t, f) /\ f.obj = TopOf(s).obj BY <1>4, Turning
  <2>3. Known(t) = Known(s) + Waiting(s) - Waiting(t) BY <2>2, KnownTurned
  <2>4. Waiting(t) <= Waiting(s) BY <2>1 DEF Waiting
  <2> QED BY <1>1, <2>3, <2>4
<1>5. CASE Returns(s, t)
  <2>1. Known(t) = Known(s) + Extra(s, TopOf(s).obj) BY <1>5, KnownReturned
  <2>2. Extra(s, TopOf(s).obj) \in {0, 1} BY DEF Extra
  <2> QED BY <1>1, <2>1, <2>2
<1> QED BY <1>2, <1>3, <1>4, <1>5 DEF WStep

LEMMA StepEarlier ==
  ASSUME Faithful, NEW s, WInv(s), NEW t, Typed(t), WStep(s, t)
  PROVE  Earlier(s, t)
<1>0. Typed(s) /\ Numbered(s) /\ Cached(s) BY DEF WInv
<1>1. Extends(s.stream, t.stream)
  <2>1. s.stream \in Seq(Token) /\ Len(s.stream) \in Nat BY <1>0, SnapshotTypes
  <2>2. CASE \E tok \in Token : t.stream = Append(s.stream, tok)
    BY <2>1, <2>2, Appended DEF Extends
  <2>3. CASE t.stream = s.stream BY <2>1, <2>3 DEF Extends
  <2> QED BY <2>2, <2>3, SaysOne DEF Says
<1>2. s.met \in Nat /\ s.strIndex \in Nat /\ s.traitIndex \in Nat BY <1>0, SnapshotTypes
<1>3. s.met <= t.met
  <2>1. CASE t.met = s.met BY <1>2, <2>1
  <2>2. CASE \E o \in Obj : Meets(s, t, o)
    <3>1. PICK o \in Obj : Meets(s, t, o) BY <2>2
    <3>2. t.met = s.met + 1 BY <3>1 DEF Meets
    <3> QED BY <1>2, <3>2
  <2> QED BY <2>1, <2>2, Growth
<1>4. Known(s) <= Known(t) BY KnownGrows
<1>5. /\ s.strIndex <= t.strIndex
      /\ \A k \in StrKeys : LaterIndex(s.strCache[k], t.strCache[k], s.strIndex)
  <2>1. CASE SameStrings(s, t) BY <1>2, <2>1 DEF SameStrings, LaterIndex
  <2>2. CASE \E x \in Strings : AddsString(s, t, x)
    <3>1. PICK x \in Strings : AddsString(s, t, x) BY <2>2
    <3>2. StrKey[x] \in StrKeys /\ s.strCache \in [StrKeys -> Index]
      BY <1>0, WriterAssumption DEF Typed
    <3> QED BY <1>2, <3>1, <3>2 DEF AddsString, LaterIndex
  <2> QED BY <2>1, <2>2, StringMoves
<1>6. /\ s.traitIndex <= t.traitIndex
      /\ \A k \in TraitKeys : LaterIndex(s.traitCache[k], t.traitCache[k], s.traitIndex)
  <2>1. CASE SameTraits(s, t) BY <1>2, <2>1 DEF SameTraits, LaterIndex
  <2>2. CASE \E tr \in Traits : AddsTraits(s, t, tr)
    <3>1. PICK tr \in Traits : AddsTraits(s, t, tr) BY <2>2
    <3>2. TraitKey(tr) \in TraitKeys /\ s.traitCache \in [TraitKeys -> Index]
      BY <1>0, TraitKeys0 DEF Typed
    <3> QED BY <1>2, <3>1, <3>2 DEF AddsTraits, LaterIndex, Knows
  <2> QED BY <2>1, <2>2, TraitMoves
<1>7. ASSUME NEW o \in Holder PROVE Later(s, t, o)
  <2>1. CASE Met(s, o)
    <3>1. /\ t.heap[o].nth = s.heap[o].nth /\ t.heap[o].depth = s.heap[o].depth
          /\ t.heap[o].kind = s.heap[o].kind /\ t.heap[o].tr = s.heap[o].tr /\ Kept(s, t, o)
      BY <2>1, MetStays
    <3>2. o \in Obj => t.objCache[o] = s.objCache[o] BY <2>1, ObjectMoves
    <3>3. Extends(s.heap[o].kids, t.heap[o].kids)
      <4>1. s.heap[o].kids \in Seq(Kid) /\ Len(s.heap[o].kids) \in Nat BY <1>0, SnapshotTypes
      <4>2. CASE t.heap[o].kids = s.heap[o].kids BY <4>1, <4>2 DEF Extends
      <4>3. ASSUME NEW v, t.heap[o].kids = Append(s.heap[o].kids, v)
            PROVE  Extends(s.heap[o].kids, t.heap[o].kids)
        <5>1. s.heap[o].kids \in Seq(Kid \cup {v}) /\ v \in Kid \cup {v} BY <4>1
        <5> HIDE DEF Kid
        <5>2. PICK u : u = s.heap[o].kids OBVIOUS
        <5>3. /\ Len(Append(u, v)) = Len(u) + 1
              /\ \A i \in 1 .. Len(u) : Append(u, v)[i] = u[i]
          BY <5>1, <5>2, Appended
        <5> QED BY <4>1, <4>3, <5>2, <5>3 DEF Extends
      <4> QED BY <3>1, <4>2, <4>3 DEF Kept
    <3> QED BY <2>1, <3>1, <3>2, <3>3 DEF Later
  <2>2. CASE ~Met(s, o) /\ o \in Obj /\ GivesNew(s, t, o)
    <3>1. Meets(s, t, o) BY <2>2, NewMeets
    <3>2. t.heap[o].nth = s.met + 1 BY <3>1 DEF Meets
    <3>3. Place(t, o) = Known(s) /\ Known(s) \in Int BY <1>0, <2>2, KnownNew, KnownTypes
    <3> QED BY <1>2, <2>2, <3>2, <3>3 DEF Later
  <2>3. CASE ~Met(s, o) /\ ~(o \in Obj /\ GivesNew(s, t, o))
    <3>1. Kept(s, t, o) BY <2>3, Growth
    <3>2. t.heap[o].nth = 0 BY <1>0, <2>3, <3>1 DEF Kept, Numbered
    <3>3. o \in Obj => t.objCache[o] = NotCached BY <2>3, <3>1, ObjectMoves DEF Kept, Met
    <3> QED BY <2>3, <3>2, <3>3 DEF Later
  <2> QED BY <2>1, <2>2, <2>3
<1> QED BY <1>1, <1>3, <1>4, <1>5, <1>6, <1>7 DEF Earlier

LEMMA EarlierItself == ASSUME NEW s, WInv(s) PROVE Earlier(s, s)
<1>1. Typed(s) /\ Numbered(s) /\ Cached(s) BY DEF WInv
<1>2. /\ s.met \in Nat /\ Len(s.stream) \in Nat /\ s.strIndex \in Nat /\ s.traitIndex \in Nat
      /\ Known(s) \in Int /\ \A o \in Holder : Len(s.heap[o].kids) \in Nat
  BY <1>1, SnapshotTypes, KnownTypes
<1>3. ASSUME NEW o \in Holder PROVE Later(s, s, o)
  <2>1. Extends(s.heap[o].kids, s.heap[o].kids) BY <1>2 DEF Extends
  <2>2. ~Met(s, o) => s.heap[o].nth = 0 BY <1>1 DEF Numbered
  <2>3. ~Met(s, o) /\ o \in Obj => s.objCache[o] = NotCached BY <1>1 DEF Cached
  <2> QED BY <2>1, <2>2, <2>3 DEF Later
<1> QED BY <1>2, <1>3 DEF Earlier, Extends, LaterIndex

\* A graph that is flat in the end was always flat.
LEMMA FlatBefore ==
  ASSUME NEW s, NEW t, WInv(s), Earlier(s, t), FlatSnap(t)
  PROVE  FlatSnap(s)
<1>1. ASSUME NEW o \in Obj PROVE s.heap[o].depth = 0
  <2>1. Later(s, t, o) /\ o \in Holder BY DEF Earlier, Holder
  <2> QED BY <2>1 DEF Later, WInv, Numbered, FlatSnap
<1> QED BY <1>1 DEF FlatSnap

-----------------------------------------------------------------------------
(***************************************************************************)
(* A state of the reader matches the snapshot the writer left when it had  *)
(* written the tokens that are read by now.                                *)
(***************************************************************************)

\* The entries of an array are closed: the reader has left their function.
Closed(s) == Len(s.stack) > 1 /\ Pair(s, Len(s.stack) - 1) /\ TopOf(s).dyn = FALSE

\* The writer counts a value as written when it begins with it, the reader
\* stores it when it is complete.
Lags(s, i) == i < Len(s.stack) /\ ~Pair(s, i)
LagsOn(s, o) == \E i \in 1 .. Len(s.stack) - 1 : s.stack[i].obj = o /\ ~Pair(s, i)
Lag(s, o) == IF LagsOn(s, o) THEN 1 ELSE 0

Decode(s, v) == IF v \in Obj THEN s.heap[v].nth ELSE v

NodeMatches(s, o, r) ==
  LET w == s.heap[o]
  IN  /\ r.kind = ReadAs(w.kind)
      /\ w.kind = "object" => r.cls = WireName(w.tr)
      /\ Len(r.kids) = Len(w.kids) - Lag(s, o)
      /\ \A i \in 1 .. Len(r.kids) : /\ r.kids[i].key = w.kids[i].key
                                     /\ FlatSnap(s) => r.kids[i].val = Decode(s, w.kids[i].val)
MadeMatches(s, nodes) ==
  /\ Len(nodes) = s.met - Waiting(s)
  /\ \A o \in Holder : Met(s, o) /\ ~Pends(s, o) => NodeMatches(s, o, nodes[s.heap[o].nth])

StringsMatch(s, tab) ==
  /\ Len(tab) = s.strIndex
  /\ \A x \in Strings : s.strCache[StrKey[x]] # NotCached => tab[s.strCache[StrKey[x]] + 1] = x

Described(tr) ==
  [cls |-> WireName(tr), members |-> Members[tr], dyn |-> Dynamic[tr], ext |-> External[tr]]
TraitsMatch(s, tab) ==
  /\ Len(tab) = s.traitIndex - Unnamed(s)
  /\ \A tr \in Traits :
       s.traitCache[TraitKey(tr)] \in 0 .. Len(tab) - 1 =>
         tab[s.traitCache[TraitKey(tr)] + 1] = Described(tr)

ObjectsMatch(s, tab) ==
  /\ Len(tab) = Known(s)
  /\ \A o \in Obj : Met(s, o) /\ ~Pends(s, o) =>
       Place(s, o) \in 0 .. Len(tab) - 1 /\ tab[Place(s, o) + 1] = s.heap[o].nth

\* Where the function for the frame i is in the reader's stack: below it are
\* two functions for every collection, one of them for its inner array.
Ground(s, i) == i + s.heap[s.stack[i].obj].depth
Seat(s, i) == Ground(s, i) + Extra(s, s.stack[i].obj)
WhatOf(s, i) == IF i > 1 /\ s.stack[i - 1].obj = s.stack[i].obj THEN "entries" ELSE "values"
FrameMatches(s, i, what, r) ==
  LET f == s.stack[i]
      w == s.heap[f.obj]
  IN  /\ r.what = what /\ r.node = w.nth /\ r.members = f.members /\ r.dyn = f.dyn
      /\ IF Lags(s, i)
         THEN r.left = f.left + 1 /\ KeyOf(r, Len(w.kids) - 1) = w.kids[Len(w.kids)].key
         ELSE r.left = f.left /\ r.key = f.key
IsInner(r) == r.what = "inner" /\ r.left = 1 /\ r.dyn = FALSE
Held(s, i, u) ==
  /\ FrameMatches(s, i, WhatOf(s, i), u[Seat(s, i)])
  /\ s.heap[s.stack[i].obj].kind = "ac" => IsInner(u[Ground(s, i)])
BelowMatches(s, u) == \A i \in 1 .. Len(s.stack) - 1 : Held(s, i, u)

\* The function at the top: it reads names, or is about to read the source
\* array of a collection, or reads the type of a vector, or reads values, or
\* is about to hand on a collection that is complete.
AtNames(s, u) ==
  LET f == TopOf(s)
      tr == TrOf(s, f.obj)
      r == u[Len(u)]
  IN  /\ Naming(s) /\ Len(u) = Ground(s, Len(s.stack))
      /\ r.what = "names" /\ r.hdr = tr /\ r.left = Len(f.names)
      /\ Len(r.names) = Len(Full(tr)) - Len(f.names)
      /\ \A j \in 1 .. Len(r.names) : r.names[j] = Full(tr)[j]
AtSource(s, u) ==
  /\ TopOf(s).names = <<>> /\ TopOf(s).src = TRUE
  /\ Len(u) = Ground(s, Len(s.stack)) /\ IsInner(u[Len(u)])
AtType(s, u) ==
  /\ s.heap[TopOf(s).obj].kind = "vector" /\ TopOf(s).names # <<>>
  /\ Len(u) = Ground(s, Len(s.stack)) /\ FrameMatches(s, Len(s.stack), "type", u[Len(u)])
AtValues(s, u) ==
  /\ TopOf(s).names = <<>> /\ TopOf(s).src = FALSE
  /\ Len(u) = Seat(s, Len(s.stack)) /\ Held(s, Len(s.stack), u)
AtEnd(s, u) ==
  LET f == TopOf(s)
      r == u[Len(u)]
  IN  /\ s.heap[f.obj].kind = "ac" /\ f.names = <<>> /\ f.src = FALSE
      /\ f.left = 0 /\ f.dyn = FALSE
      /\ Len(u) = Ground(s, Len(s.stack))
      /\ r.what = "inner" /\ r.left = 0 /\ r.dyn = FALSE /\ r.node = s.heap[f.obj].nth
TopMatches(s, u) ==
  AtNames(s, u) \/ AtSource(s, u) \/ AtType(s, u) \/ AtValues(s, u) \/ AtEnd(s, u)

Matches(s) ==
  /\ s.stack # <<>> /\ ~Closed(s)
  /\ pos = Len(s.stream) + 1 /\ pos <= Len(stream) + 1
  /\ StringsMatch(s, strTab) /\ TraitsMatch(s, traitTab) /\ ObjectsMatch(s, objTab)
  /\ MadeMatches(s, made)
  /\ BelowMatches(s, rstack) /\ TopMatches(s, rstack)

LEMMA LagTypes ==
  ASSUME NEW s, NEW o
  PROVE  /\ LagsOn(s, o) => Lag(s, o) = 1
         /\ ~LagsOn(s, o) => Lag(s, o) = 0
         /\ Lag(s, o) \in {0, 1}
BY DEF Lag

\* The object at the top has all that was begun.
LEMMA TopNotLagging ==
  ASSUME NEW s, WInv(s), s.stack # <<>>
  PROVE  ~LagsOn(s, TopOf(s).obj)
<1> DEFINE L == Len(s.stack)
<1>0. Typed(s) /\ Path(s) BY DEF WInv
<1>1. L \in Nat /\ L \in 1 .. L /\ TopOf(s) = s.stack[L] BY <1>0, TopTypes
<1> SUFFICES ASSUME NEW i \in 1 .. L - 1, s.stack[i].obj = s.stack[L].obj, ~Pair(s, i) PROVE FALSE
  BY <1>1 DEF LagsOn
<1>2. i \in 1 .. L /\ i < L BY <1>1
<1>3. L = i + 1 BY <1>0, <1>1, <1>2 DEF Path
<1> QED BY <1>3 DEF Pair

LEMMA LagsStay ==
  ASSUME NEW s, Typed(s), NEW t, Len(t.stack) = Len(s.stack),
         \A i \in 1 .. Len(s.stack) : t.stack[i].obj = s.stack[i].obj
  PROVE  \A o : LagsOn(t, o) <=> LagsOn(s, o)
<1>1. Len(s.stack) \in Nat BY SnapshotTypes
<1>2. \A i \in 1 .. Len(s.stack) - 1 : Pair(t, i) <=> Pair(s, i)
  <2> TAKE i \in 1 .. Len(s.stack) - 1
  <2>1. i \in 1 .. Len(s.stack) /\ i + 1 \in 1 .. Len(s.stack) BY <1>1
  <2> QED BY <2>1 DEF Pair
<1> QED BY <1>1, <1>2 DEF LagsOn

\* A function that has called another one waits for its value.
LEMMA LagsGrow ==
  ASSUME NEW s, WInv(s), s.stack # <<>>, NEW t, Stands(s, t), NEW o \in Obj, ~Met(s, o),
         t.stack[Len(s.stack) + 1].obj = o,
         \/ Len(t.stack) = Len(s.stack) + 1
         \/ Len(t.stack) = Len(s.stack) + 2 /\ t.stack[Len(s.stack) + 2].obj = o
  PROVE  /\ \A p : LagsOn(t, p) <=> LagsOn(s, p) \/ p = TopOf(s).obj
         /\ ~Pair(t, Len(s.stack)) /\ TopOf(s).obj # o
         /\ Len(t.stack) = Len(s.stack) + 2 => Pair(t, Len(s.stack) + 1)
<1> DEFINE L == Len(s.stack)
<1>0. Typed(s) /\ Path(s) BY DEF WInv
<1>1. L \in Nat \ {0} /\ L \in 1 .. L /\ TopOf(s) = s.stack[L] BY <1>0, TopTypes
<1>2. \A i \in 1 .. L : t.stack[i].obj = s.stack[i].obj /\ Met(s, s.stack[i].obj)
  BY <1>0, <1>1 DEF Stands, SameBelow, Path
<1>3. TopOf(s).obj # o /\ t.stack[L].obj = TopOf(s).obj BY <1>1, <1>2
<1>4. ~Pair(t, L) BY <1>3 DEF Pair
<1>5. Len(t.stack) = L + 2 => Pair(t, L + 1)
  <2> HIDE DEF L
  <2>1. (L + 1) + 1 = L + 2 BY <1>1
  <2> QED BY <1>1, <2>1 DEF Pair, L
<1>6. \A i \in 1 .. L - 1 : Pair(t, i) <=> Pair(s, i)
  <2> TAKE i \in 1 .. L - 1
  <2>1. i \in 1 .. L /\ i + 1 \in 1 .. L BY <1>1
  <2> QED BY <1>2, <2>1 DEF Pair
<1>7. ASSUME NEW p, LagsOn(t, p) PROVE LagsOn(s, p) \/ p = TopOf(s).obj
  <2>1. PICK i \in 1 .. Len(t.stack) - 1 : t.stack[i].obj = p /\ ~Pair(t, i) BY <1>7 DEF LagsOn
  <2>2. i # L + 1 BY <1>5, <1>1, <2>1
  <2>3. i \in 1 .. L - 1 \/ i = L BY <1>1, <2>2
  <2>4. CASE i = L BY <1>3, <2>1, <2>4
  <2>5. CASE i \in 1 .. L - 1
    <3>1. s.stack[i].obj = p BY <1>1, <1>2, <2>1, <2>5
    <3> QED BY <1>6, <2>1, <2>5, <3>1 DEF LagsOn
  <2> QED BY <2>3, <2>4, <2>5
<1>8. ASSUME NEW p, LagsOn(s, p) \/ p = TopOf(s).obj PROVE LagsOn(t, p)
  <2>1. CASE p = TopOf(s).obj
    <3>1. L \in 1 .. Len(t.stack) - 1 BY <1>1
    <3> QED BY <1>3, <1>4, <2>1, <3>1 DEF LagsOn
  <2>2. CASE LagsOn(s, p)
    <3>1. PICK i \in 1 .. L - 1 : s.stack[i].obj = p /\ ~Pair(s, i) BY <2>2 DEF LagsOn
    <3>2. i \in 1 .. Len(t.stack) - 1 /\ i \in 1 .. L BY <1>1
    <3> QED BY <1>2, <1>6, <3>1, <3>2 DEF LagsOn
  <2> QED BY <1>8, <2>1, <2>2
<1> QED BY <1>3, <1>4, <1>5, <1>7, <1>8

\* The caller of a function that returns has its value.
LEMMA LagsShrink ==
  ASSUME NEW s, WInv(s), Len(s.stack) > 1, NEW t, Len(t.stack) = Len(s.stack) - 1, SameBelow(s, t)
  PROVE  \A p : LagsOn(s, p) <=> LagsOn(t, p) \/ (p = s.stack[Len(s.stack) - 1].obj
                                                  /\ ~Pair(s, Len(s.stack) - 1))
<1> DEFINE L == Len(s.stack)
<1>0. Typed(s) BY DEF WInv
<1>1. L \in Nat BY <1>0, SnapshotTypes
<1>2. \A i \in 1 .. L - 1 : t.stack[i] = s.stack[i] BY DEF SameBelow
<1>3. \A i \in 1 .. L - 2 : Pair(t, i) <=> Pair(s, i)
  <2> TAKE i \in 1 .. L - 2
  <2>1. i \in 1 .. L - 1 /\ i + 1 \in 1 .. L - 1 BY <1>1
  <2> QED BY <1>2, <2>1 DEF Pair
<1>4. ASSUME NEW p, LagsOn(s, p)
      PROVE  LagsOn(t, p) \/ (p = s.stack[L - 1].obj /\ ~Pair(s, L - 1))
  <2>1. PICK i \in 1 .. L - 1 : s.stack[i].obj = p /\ ~Pair(s, i) BY <1>4 DEF LagsOn
  <2>2. i = L - 1 \/ i \in 1 .. L - 2 BY <1>1
  <2>3. CASE i \in 1 .. L - 2
    <3>1. i \in 1 .. Len(t.stack) - 1 BY <1>1, <2>3
    <3> QED BY <1>2, <1>3, <2>1, <2>3, <3>1 DEF LagsOn
  <2> QED BY <2>1, <2>2, <2>3
<1>5. ASSUME NEW p, LagsOn(t, p) PROVE LagsOn(s, p)
  <2>1. PICK i \in 1 .. Len(t.stack) - 1 : t.stack[i].obj = p /\ ~Pair(t, i) BY <1>5 DEF LagsOn
  <2>2. i \in 1 .. L - 2 /\ i \in 1 .. L - 1 BY <1>1
  <2> QED BY <1>2, <1>3, <2>1, <2>2 DEF LagsOn
<1>6. ASSUME ~Pair(s, L - 1) PROVE LagsOn(s, s.stack[L - 1].obj)
  <2>1. L - 1 \in 1 .. L - 1 BY <1>1
  <2> QED BY <1>6, <2>1 DEF LagsOn
<1> QED BY <1>4, <1>5, <1>6

-----------------------------------------------------------------------------
(***************************************************************************)
(* The nodes the reader made.                                              *)
(***************************************************************************)
LEMMA NodeFollows ==
  ASSUME NEW s, WInv(s), NEW t, WInv(t), Earlier(s, t), NEW o \in Holder, Met(s, o),
         NEW a \in ReadNode, NodeMatches(s, o, a), NEW b, b.kind = a.kind, b.cls = a.cls,
         NEW k \in Kid, t.heap[o].kids \in {s.heap[o].kids, Append(s.heap[o].kids, k)},
         NEW x \in Owner, b.kids \in {a.kids, Append(a.kids, x)},
         Len(b.kids) = Len(t.heap[o].kids) - Lag(t, o),
         b.kids # a.kids =>
           LET k2 == t.heap[o].kids[Len(a.kids) + 1]
           IN  x.key = k2.key /\ (FlatSnap(t) => x.val = Decode(t, k2.val))
  PROVE  NodeMatches(t, o, b)
<1> DEFINE ks == s.heap[o].kids
           kt == t.heap[o].kids
<1>0. Typed(s) /\ Typed(t) /\ KidsMet(s) BY DEF WInv
<1>1. ks \in Seq(Kid) /\ Len(ks) \in Nat BY <1>0, SnapshotTypes
<1>2. a.kids \in Seq(Owner) BY DEF ReadNode, Owner
<1>3. /\ t.heap[o].kind = s.heap[o].kind /\ t.heap[o].tr = s.heap[o].tr
  BY DEF Earlier, Later
<1>4. /\ a.kind = ReadAs(s.heap[o].kind) /\ (s.heap[o].kind = "object" => a.cls = WireName(s.heap[o].tr))
      /\ Len(a.kids) = Len(ks) - Lag(s, o)
      /\ \A i \in 1 .. Len(a.kids) : /\ a.kids[i].key = ks[i].key
                                     /\ FlatSnap(s) => a.kids[i].val = Decode(s, ks[i].val)
  BY DEF NodeMatches
<1>5. Lag(s, o) \in {0, 1} BY LagTypes
<1>6. Len(a.kids) \in Nat /\ Len(a.kids) <= Len(ks) BY <1>1, <1>2, <1>4, <1>5, Elements
<1>7. \A i \in 1 .. Len(ks) : kt[i] = ks[i]
  <2> HIDE DEF ks, Kid
  <2>1. Len(Append(ks, k)) = Len(ks) + 1 /\ \A i \in 1 .. Len(ks) : Append(ks, k)[i] = ks[i]
    BY <1>1, Appended
  <2> QED BY <2>1 DEF ks
<1>8. /\ \A i \in 1 .. Len(a.kids) : b.kids[i] = a.kids[i]
      /\ b.kids # a.kids => Len(b.kids) = Len(a.kids) + 1 /\ b.kids[Len(a.kids) + 1] = x
  <2>1. PICK u : u = a.kids OBVIOUS
  <2>2. /\ Len(Append(u, x)) = Len(u) + 1 /\ Append(u, x)[Len(u) + 1] = x
        /\ \A i \in 1 .. Len(u) : Append(u, x)[i] = u[i]
    BY <1>2, <2>1, Appended
  <2> QED BY <2>1, <2>2
<1>9. FlatSnap(t) => FlatSnap(s) BY FlatBefore
<1>10. \A i \in 1 .. Len(ks) : Decode(t, ks[i].val) = Decode(s, ks[i].val)
  <2> TAKE i \in 1 .. Len(ks)
  <2>1. ks[i].val \in Obj => Met(s, ks[i].val) BY <1>0 DEF KidsMet
  <2>2. \A q \in Obj : Met(s, q) => t.heap[q].nth = s.heap[q].nth BY DEF Earlier, Later, Holder
  <2> QED BY <2>1, <2>2 DEF Decode
<1> HIDE DEF ks, kt
<1>11. ASSUME NEW i \in 1 .. Len(b.kids)
       PROVE  b.kids[i].key = kt[i].key /\ (FlatSnap(t) => b.kids[i].val = Decode(t, kt[i].val))
  <2>1. CASE i \in 1 .. Len(a.kids)
    <3>1. i \in 1 .. Len(ks) BY <1>1, <1>6, <2>1
    <3>2. b.kids[i] = a.kids[i] /\ kt[i] = ks[i] BY <1>7, <1>8, <2>1, <3>1
    <3> QED BY <1>4, <1>9, <1>10, <2>1, <3>1, <3>2
  <2>2. CASE i \notin 1 .. Len(a.kids)
    <3>1. b.kids # a.kids BY <2>2
    <3>2. i = Len(a.kids) + 1 /\ b.kids[i] = x BY <1>6, <1>8, <2>2, <3>1
    <3> QED BY <3>1, <3>2 DEF kt
  <2> QED BY <2>1, <2>2
<1> QED BY <1>3, <1>4, <1>11 DEF NodeMatches, kt

LEMMA NodeRange ==
  ASSUME NEW s, WInv(s), NEW a, MadeMatches(s, a), NEW o \in Holder, Met(s, o), ~Pends(s, o)
  PROVE  s.heap[o].nth \in 1 .. Len(a)
<1>0. Typed(s) /\ Numbered(s) /\ Begun(s) BY DEF WInv
<1>1. s.heap[o].nth \in 1 .. s.met /\ s.met \in Nat BY <1>0, SnapshotTypes DEF Numbered, Typed
<1>2. CASE ~Pending(s) BY <1>1, <1>2 DEF MadeMatches, Waiting
<1>3. CASE Pending(s)
  <2>1. s.stack # <<>> /\ TopOf(s).obj # o BY <1>3 DEF Pends, Pending
  <2>2. s.heap[TopOf(s).obj].nth = s.met BY <1>0, <1>3, <2>1 DEF Begun
  <2>3. TopOf(s).obj \in Holder /\ Met(s, TopOf(s).obj)
    <3>1. Len(s.stack) \in 1 .. Len(s.stack) BY <1>0, <2>1, TopTypes
    <3> QED BY <1>0, <2>1, <3>1, TopTypes DEF WInv, Path, TopOf
  <2>4. s.heap[o].nth # s.met BY <1>0, <2>1, <2>2, <2>3 DEF Numbered
  <2> QED BY <1>1, <1>3, <2>4 DEF MadeMatches, Waiting
<1> QED BY <1>2, <1>3

LEMMA KeyType ==
  ASSUME NEW s, Typed(s), s.stack # <<>>
  PROVE  /\ KeyHere(s) \in Strings \cup {None}
         /\ \A v \in Values : [key |-> KeyHere(s), val |-> v] \in Kid
<1>1. /\ TopOf(s).key \in Strings \cup {None} /\ TopOf(s).members \in Seq(Strings)
      /\ TopOf(s).obj \in Holder
  BY TopTypes
<1>2. PICK n : n = Len(s.heap[TopOf(s).obj].kids) OBVIOUS
<1>3. n \in Nat BY <1>1, <1>2, SnapshotTypes
<1>4. KeyHere(s) \in Strings \cup {None}
  <2>1. n < Len(TopOf(s).members) => TopOf(s).members[n + 1] \in Strings
    <3>1. PICK m : m = TopOf(s).members OBVIOUS
    <3>2. m \in Seq(Strings) BY <1>1, <3>1
    <3>3. Len(m) \in Nat /\ \A i \in 1 .. Len(m) : m[i] \in Strings BY <3>2, Elements
    <3>4. n < Len(m) => n + 1 \in 1 .. Len(m) BY <1>3, <3>3
    <3> QED BY <3>1, <3>3, <3>4
  <2>2. KeyHere(s) = NextKey(TopOf(s), n) BY <1>2 DEF KeyHere
  <2> QED BY <1>1, <2>1, <2>2 DEF NextKey
<1> QED BY <1>4 DEF Kid

\* Nothing is added to an object, and nothing to its node.
LEMMA NodeKept ==
  ASSUME NEW s, WInv(s), NEW t, WInv(t), Earlier(s, t), NEW o \in Holder, Met(s, o),
         NEW a \in ReadNode, NodeMatches(s, o, a), t.heap[o].kids = s.heap[o].kids,
         LagsOn(t, o) <=> LagsOn(s, o)
  PROVE  NodeMatches(t, o, a)
<1>1. PICK k : k = [key |-> None, val |-> Empty] OBVIOUS
<1>2. k \in Kid BY <1>1, StreamAssumption DEF Kid, Values
<1>3. k \in Owner BY <1>1, StreamAssumption DEF Owner, ReaderValue
<1>4. Lag(t, o) = Lag(s, o) BY DEF Lag
<1>5. Len(a.kids) = Len(t.heap[o].kids) - Lag(t, o) BY <1>4 DEF NodeMatches
<1> QED BY <1>2, <1>3, <1>5, NodeFollows

\* The writer begins with a value that the reader stores when it is complete.
LEMMA NodePushed ==
  ASSUME NEW s, WInv(s), NEW t, WInv(t), Earlier(s, t), s.stack # <<>>, NEW o \in Holder, Met(s, o),
         NEW a \in ReadNode, NodeMatches(s, o, a), NEW v \in Values, Stores(s, t, v, o),
         LagsOn(t, o) <=> LagsOn(s, o) \/ o = TopOf(s).obj
  PROVE  NodeMatches(t, o, a)
<1>0. Typed(s) BY DEF WInv
<1>1. CASE o # TopOf(s).obj
  <2>1. t.heap[o].kids = s.heap[o].kids BY <1>1 DEF Stores
  <2> QED BY <1>1, <2>1, NodeKept
<1>2. CASE o = TopOf(s).obj
  <2>1. PICK k : k = [key |-> KeyHere(s), val |-> v] OBVIOUS
  <2>2. k \in Kid BY <1>0, <2>1, KeyType
  <2>3. PICK x : x = [key |-> None, val |-> None] OBVIOUS
  <2>4. x \in Owner BY <2>3 DEF Owner, ReaderValue
  <2>5. t.heap[o].kids = Append(s.heap[o].kids, k) BY <1>2, <2>1 DEF Stores
  <2>6. Lag(s, o) = 0 /\ Lag(t, o) = 1 BY <1>2, TopNotLagging DEF Lag
  <2>7. s.heap[o].kids \in Seq(Kid) /\ Len(s.heap[o].kids) \in Nat BY <1>0, SnapshotTypes
  <2>8. Len(t.heap[o].kids) = Len(s.heap[o].kids) + 1
    <3> HIDE DEF Kid
    <3> QED BY <2>2, <2>5, <2>7, Appended
  <2>9. Len(a.kids) = Len(t.heap[o].kids) - Lag(t, o) BY <2>6, <2>7, <2>8 DEF NodeMatches
  <2> QED BY <2>2, <2>4, <2>5, <2>9, NodeFollows
<1> QED BY <1>1, <1>2

\* The value is stored in the node of the function at the top.
AtTop(s, f) ==
  /\ f.what # "inner" /\ f.node = s.heap[TopOf(s).obj].nth
  /\ f.key = TopOf(s).key /\ f.members = TopOf(s).members

LEMMA NodeServed ==
  ASSUME ReaderInv, NEW s, WInv(s), NEW t, WInv(t), Earlier(s, t), Wants(s), MadeMatches(s, made),
         NEW f \in ReadFrame, AtTop(s, f), NEW v \in Values, NEW x \in ReaderValue,
         FlatSnap(t) => x = Decode(t, v),
         NEW o \in Holder, Met(s, o), Stores(s, t, v, o), LagsOn(t, o) <=> LagsOn(s, o)
  PROVE  NodeMatches(t, o, Stored(f, x)[t.heap[o].nth])
<1> DEFINE n == s.heap[o].nth
           b == Stored(f, x)[n]
           p == TopOf(s).obj
<1>0. /\ Typed(s) /\ Numbered(s) /\ s.stack # <<>> /\ TopOf(s).names = <<>> /\ TopOf(s).src = FALSE
      /\ Path(s)
  BY DEF WInv, Wants
<1>1. ~Pends(s, o) /\ Waiting(s) = 0 BY <1>0, NotWaiting DEF Pends
<1>2. n \in 1 .. Len(made) /\ made \in Seq(ReadNode) BY <1>1, NodeRange DEF ReaderInv, ReaderTypeOK
<1>3. made[n] \in ReadNode BY <1>2, Elements
<1>4. NodeMatches(s, o, made[n]) BY <1>1 DEF MadeMatches
<1>5. /\ b.kind = made[n].kind /\ b.cls = made[n].cls
      /\ b.kids = IF n = f.node
                  THEN Append(made[n].kids, [key |-> KeyOf(f, Len(made[n].kids)), val |-> x])
                  ELSE made[n].kids
  BY <1>2, StoredType DEF AtTop
<1>6. p \in Holder /\ Met(s, p)
  <2>1. Len(s.stack) \in 1 .. Len(s.stack) BY <1>0, TopTypes
  <2> QED BY <1>0, <2>1, TopTypes DEF Path, TopOf
<1>7. n = f.node <=> o = p BY <1>0, <1>6 DEF Numbered, AtTop
<1>8. t.heap[o].nth = n BY DEF Stores
<1>9. PICK k : k = [key |-> KeyHere(s), val |-> v] OBVIOUS
<1>10. k \in Kid BY <1>0, <1>9, KeyType
<1>11. PICK y : y = [key |-> KeyHere(s), val |-> x] OBVIOUS
<1>12. y \in Owner BY <1>0, <1>11, KeyType DEF Owner
<1>13. Lag(t, o) = Lag(s, o) BY DEF Lag
<1>14. s.heap[o].kids \in Seq(Kid) /\ Len(s.heap[o].kids) \in Nat BY <1>0, SnapshotTypes
<1>15. made[n].kids \in Seq(Owner) BY <1>3 DEF ReadNode, Owner
<1>16. Len(made[n].kids) = Len(s.heap[o].kids) - Lag(s, o) BY <1>4 DEF NodeMatches
<1> HIDE DEF n, b, p
<1>17. CASE o # p
  <2>1. t.heap[o].kids = s.heap[o].kids /\ b.kids = made[n].kids
    BY <1>5, <1>7, <1>17 DEF Stores, p
  <2>2. Len(b.kids) = Len(t.heap[o].kids) - Lag(t, o) BY <1>13, <1>16, <2>1
  <2>3. NodeMatches(t, o, b) BY <1>3, <1>4, <1>5, <1>10, <1>12, <2>1, <2>2, NodeFollows
  <2> QED BY <1>8, <2>3 DEF b
<1>18. CASE o = p
  <2>1. Lag(s, o) = 0 BY <1>0, <1>18, TopNotLagging DEF Lag, p
  <2>2. t.heap[o].kids = Append(s.heap[o].kids, k) BY <1>9, <1>18 DEF Stores, p
  <2>3. KeyOf(f, Len(made[n].kids)) = KeyHere(s)
    BY <1>14, <1>16, <1>18, <2>1 DEF KeyOf, KeyHere, NextKey, AtTop, p
  <2>4. b.kids = Append(made[n].kids, y) BY <1>5, <1>7, <1>11, <1>18, <2>3
  <2>5. /\ Len(t.heap[o].kids) = Len(s.heap[o].kids) + 1
        /\ t.heap[o].kids[Len(s.heap[o].kids) + 1] = k
    <3> HIDE DEF Kid
    <3> QED BY <1>10, <1>14, <2>2, Appended
  <2>6. Len(b.kids) = Len(made[n].kids) + 1
    <3>1. PICK u : u = made[n].kids OBVIOUS
    <3>2. Len(Append(u, y)) = Len(u) + 1 BY <1>12, <1>15, <3>1, Appended
    <3> QED BY <2>4, <3>1, <3>2
  <2>7. Len(b.kids) = Len(t.heap[o].kids) - Lag(t, o) BY <1>13, <1>14, <1>16, <2>1, <2>5, <2>6
  <2>8. t.heap[o].kids[Len(made[n].kids) + 1] = k BY <1>14, <1>16, <2>1, <2>5
  <2>9. k.key = y.key /\ (FlatSnap(t) => y.val = Decode(t, k.val)) BY <1>9, <1>11
  <2>10. NodeMatches(t, o, b)
    BY <1>3, <1>4, <1>5, <1>10, <1>12, <2>2, <2>4, <2>7, <2>8, <2>9, NodeFollows
  <2> QED BY <1>8, <2>10 DEF b
<1> QED BY <1>17, <1>18

\* A function returns, and its caller stores what it has waited for.
LEMMA NodeReturned ==
  ASSUME ReaderInv, NEW s, WInv(s), NEW t, WInv(t), Earlier(s, t), Returns(s, t), Len(s.stack) > 1,
         ~Pair(s, Len(s.stack) - 1), MadeMatches(s, made),
         NEW f \in ReadFrame, f.what # "inner",
         LET q == s.stack[Len(s.stack) - 1].obj
             w == s.heap[q]
         IN  f.node = w.nth /\ KeyOf(f, Len(w.kids) - 1) = w.kids[Len(w.kids)].key,
         NEW x \in ReaderValue, FlatSnap(t) => x = s.heap[TopOf(s).obj].nth,
         NEW o \in Holder, Met(s, o)
  PROVE  NodeMatches(t, o, Stored(f, x)[t.heap[o].nth])
<1> DEFINE L == Len(s.stack)
           q == s.stack[L - 1].obj
           n == s.heap[o].nth
           b == Stored(f, x)[n]
           ks == s.heap[o].kids
<1>0. /\ Typed(s) /\ Numbered(s) /\ Path(s) /\ s.stack # <<>> /\ TopOf(s).names = <<>>
      /\ TopOf(s).src = FALSE /\ t.heap = s.heap /\ SameBelow(s, t) /\ Len(t.stack) = L - 1
  BY DEF WInv, Returns, SameGraph
<1>1. ~Pends(s, o) /\ Waiting(s) = 0 BY <1>0, NotWaiting DEF Pends
<1>2. n \in 1 .. Len(made) /\ made \in Seq(ReadNode) BY <1>1, NodeRange DEF ReaderInv, ReaderTypeOK
<1>3. made[n] \in ReadNode BY <1>2, Elements
<1>4. NodeMatches(s, o, made[n]) BY <1>1 DEF MadeMatches
<1>5. /\ b.kind = made[n].kind /\ b.cls = made[n].cls
      /\ b.kids = IF n = f.node
                  THEN Append(made[n].kids, [key |-> KeyOf(f, Len(made[n].kids)), val |-> x])
                  ELSE made[n].kids
  BY <1>2, StoredType
<1>L. L \in Nat /\ L - 1 \in 1 .. L - 1 /\ L - 1 \in 1 .. L /\ (L - 1) + 1 = L BY <1>0, SnapshotTypes
<1>6. q \in Holder /\ Met(s, q) BY <1>0, <1>L, SnapshotTypes DEF Path
<1>7. n = f.node <=> o = q BY <1>0, <1>6 DEF Numbered
<1>8. /\ s.heap[q].kids # <<>>
      /\ s.heap[q].kids[Len(s.heap[q].kids)].val = s.stack[L].obj
  BY <1>0, <1>L DEF Path
<1>9. ks \in Seq(Kid) /\ Len(ks) \in Nat BY <1>0, SnapshotTypes
<1>10. t.heap[o].nth = n /\ t.heap[o].kids = ks BY <1>0
<1>11. LagsOn(s, o) <=> LagsOn(t, o) \/ o = q BY <1>0, LagsShrink
<1>12. ~LagsOn(t, q)
  <2>1. t.stack # <<>> BY <1>0, <1>L
  <2>2. TopOf(t) = s.stack[L - 1] BY <1>0, <1>L DEF TopOf, SameBelow
  <2> QED BY <2>1, <2>2, TopNotLagging
<1>13. Len(made[n].kids) = Len(ks) - Lag(s, o) BY <1>4 DEF NodeMatches
<1>14. made[n].kids \in Seq(Owner) BY <1>3 DEF ReadNode, Owner
<1>15. PICK k : k = [key |-> None, val |-> Empty] OBVIOUS
<1>16. k \in Kid BY <1>15, StreamAssumption DEF Kid, Values
<1>17. CASE o # q
  <2>1. b.kids = made[n].kids BY <1>5, <1>7, <1>17
  <2>2. k \in Owner BY <1>15, StreamAssumption DEF Owner, ReaderValue
  <2>3. Lag(t, o) = Lag(s, o) BY <1>11, <1>17 DEF Lag
  <2>4. Len(b.kids) = Len(t.heap[o].kids) - Lag(t, o) BY <1>10, <1>13, <2>1, <2>3
  <2> HIDE DEF n, b, q, L, ks
  <2>5. NodeMatches(t, o, b)
    <3>1. t.heap[o].kids = s.heap[o].kids BY <1>10 DEF ks
    <3> QED BY <1>3, <1>4, <1>5, <1>16, <2>1, <2>2, <2>4, <3>1, NodeFollows
  <2> QED BY <1>10, <2>5 DEF b
<1>18. CASE o = q
  <2>1. Lag(s, o) = 1 /\ Lag(t, o) = 0 BY <1>11, <1>12, <1>18 DEF Lag
  <2>2. Len(ks) \in 1 .. Len(ks)
    <3>1. Len(ks) # 0 BY <1>8, <1>9, <1>18, Elements
    <3> QED BY <1>9, <3>1
  <2>3. Len(made[n].kids) = Len(ks) - 1 BY <1>13, <2>1
  <2>4. KeyOf(f, Len(made[n].kids)) = ks[Len(ks)].key BY <1>18, <2>3
  <2>5. ks[Len(ks)] \in Kid BY <1>9, <2>2, Elements
  <2>6. PICK y : y = [key |-> ks[Len(ks)].key, val |-> x] OBVIOUS
  <2>7. y \in Owner BY <2>5, <2>6 DEF Owner, Kid
  <2>8. b.kids = Append(made[n].kids, y) BY <1>5, <1>7, <1>18, <2>4, <2>6
  <2> HIDE DEF n, b, q, L, ks
  <2>9. Len(b.kids) = Len(made[n].kids) + 1
    <3>1. PICK u : u = made[n].kids OBVIOUS
    <3>2. Len(Append(u, y)) = Len(u) + 1 BY <1>14, <2>7, <3>1, Appended
    <3> QED BY <2>8, <3>1, <3>2
  <2>10. Len(b.kids) = Len(t.heap[o].kids) - Lag(t, o) BY <1>9, <1>10, <2>1, <2>3, <2>9
  <2>11. t.heap[o].kids[Len(made[n].kids) + 1] = ks[Len(ks)] BY <1>9, <1>10, <2>3
  <2>12. FlatSnap(t) => y.val = Decode(t, ks[Len(ks)].val)
    <3>1. ks[Len(ks)].val = TopOf(s).obj BY <1>8, <1>18 DEF ks, q, L, TopOf
    <3>2. TopOf(s).obj \in Obj
      <4>1. TopOf(s).obj \in Holder BY <1>0, TopTypes
      <4>2. TopOf(s).obj # Root
        <5>0. L > 1 BY DEF L
        <5>1. 1 \in 1 .. L /\ L \in 1 .. L /\ 1 < L /\ s.stack[1].obj = Root
          <6>1. s.stack[1].obj = Root BY <1>0 DEF Path
          <6> QED BY <1>L, <5>0, <6>1
        <5>2. ASSUME s.stack[1].obj = s.stack[L].obj PROVE FALSE
          <6>1. \A i, j \in 1 .. L : i < j /\ s.stack[i].obj = s.stack[j].obj =>
                  s.heap[s.stack[i].obj].kind = "hash"
            BY <1>0 DEF Path, L
          <6>2. s.heap[s.stack[1].obj].kind = "hash" BY <5>1, <5>2, <6>1
          <6> QED BY <1>0, <5>1, <6>2 DEF Numbered
        <5> QED BY <5>1, <5>2 DEF TopOf, L
      <4> QED BY <4>1, <4>2 DEF Holder
    <3> QED BY <1>0, <2>6, <3>1, <3>2 DEF Decode
  <2>13. NodeMatches(t, o, b)
    <3>1. t.heap[o].kids = s.heap[o].kids BY <1>10 DEF ks
    <3> QED BY <1>3, <1>4, <1>5, <1>16, <2>6, <2>7, <2>8, <2>10, <2>11, <2>12, <3>1, NodeFollows
  <2> QED BY <1>10, <2>13 DEF b
<1> QED BY <1>17, <1>18
-----------------------------------------------------------------------------
(***************************************************************************)
(* The functions of the reader.                                            *)
(***************************************************************************)
LEMMA SeatTypes ==
  ASSUME NEW s, Typed(s), NEW i \in 1 .. Len(s.stack)
  PROVE  /\ Ground(s, i) \in Nat \ {0} /\ Ground(s, i) >= i /\ Extra(s, s.stack[i].obj) \in {0, 1}
         /\ Seat(s, i) \in Nat \ {0} /\ Seat(s, i) \in {Ground(s, i), Ground(s, i) + 1}
         /\ s.heap[s.stack[i].obj].kind = "ac" => Seat(s, i) = Ground(s, i) + 1
         /\ s.heap[s.stack[i].obj].kind # "ac" => Seat(s, i) = Ground(s, i)
<1>1. s.heap[s.stack[i].obj].depth \in Nat /\ i \in Nat BY SnapshotTypes
<1>2. Ground(s, i) \in Nat \ {0} /\ Ground(s, i) >= i BY <1>1 DEF Ground
<1> QED BY <1>2 DEF Seat, Extra

\* Each has its place in the stack, further up than those that called it.
LEMMA SeatsApart ==
  ASSUME NEW s, WInv(s), NEW i \in 1 .. Len(s.stack) - 1
  PROVE  Seat(s, i) < Ground(s, Len(s.stack)) /\ Seat(s, i) < Seat(s, i + 1)
<1> DEFINE L == Len(s.stack)
<1>0. Typed(s) /\ Path(s) BY DEF WInv
<1>L. L \in Nat BY <1>0, SnapshotTypes
<1>1. ASSUME NEW j \in 1 .. L, i < j PROVE Seat(s, i) < Ground(s, j)
  <2>1. i \in 1 .. L BY <1>L
  <2>2. Apart(s, i, j) BY <1>0, <1>1, <2>1, PathParts
  <2>3. /\ s.heap[s.stack[i].obj].depth \in Nat /\ s.heap[s.stack[j].obj].depth \in Nat
        /\ Extra(s, s.stack[i].obj) \in Nat
    BY <1>0, <2>1, SnapshotTypes DEF Extra
  <2>4. CASE s.stack[i].obj = s.stack[j].obj
    <3>1. Extra(s, s.stack[i].obj) = 0 BY <2>2, <2>4 DEF Apart, Extra
    <3> QED BY <1>1, <2>3, <2>4, <3>1 DEF Seat, Ground
  <2>5. CASE s.stack[i].obj # s.stack[j].obj
    <3>1. s.heap[s.stack[i].obj].depth + Extra(s, s.stack[i].obj) <= s.heap[s.stack[j].obj].depth
      BY <2>2, <2>5 DEF Apart
    <3>2. PICK d, e, d2 : /\ d = s.heap[s.stack[i].obj].depth /\ e = Extra(s, s.stack[i].obj)
                          /\ d2 = s.heap[s.stack[j].obj].depth
      OBVIOUS
    <3>3. Seat(s, i) = i + d + e /\ Ground(s, j) = j + d2 BY <3>2 DEF Seat, Ground
    <3>4. d \in Nat /\ e \in Nat /\ d2 \in Nat /\ d + e <= d2 BY <2>3, <3>1, <3>2
    <3>5. i \in Nat /\ j \in Nat BY <1>L
    <3> HIDE DEF L
    <3> QED BY <1>1, <3>3, <3>4, <3>5
  <2> QED BY <2>4, <2>5
<1>2. L \in 1 .. L /\ i < L /\ i + 1 \in 1 .. L /\ i < i + 1 /\ i \in 1 .. L
  <2> HIDE DEF L
  <2>1. i \in 1 .. L - 1 BY DEF L
  <2> QED BY <1>L, <2>1
<1>3. Seat(s, i) < Ground(s, L) /\ Seat(s, i) < Ground(s, i + 1) BY <1>1, <1>2
<1>4. Ground(s, i + 1) <= Seat(s, i + 1) /\ Seat(s, i) \in Nat /\ Ground(s, i + 1) \in Nat
      /\ Seat(s, i + 1) \in Nat
  BY <1>0, <1>2, SeatTypes
<1> QED BY <1>3, <1>4

LEMMA HeldKept ==
  ASSUME NEW s, NEW t, NEW i, t.stack[i] = s.stack[i], WhatOf(t, i) = WhatOf(s, i),
         Lags(t, i) <=> Lags(s, i),
         LET o == s.stack[i].obj
         IN  /\ t.heap[o].nth = s.heap[o].nth /\ t.heap[o].kind = s.heap[o].kind
             /\ t.heap[o].depth = s.heap[o].depth
             /\ Lags(s, i) => t.heap[o].kids = s.heap[o].kids,
         NEW u, NEW v, Held(s, i, u), v[Seat(s, i)] = u[Seat(s, i)],
         s.heap[s.stack[i].obj].kind = "ac" => v[Ground(s, i)] = u[Ground(s, i)]
  PROVE  Held(t, i, v) /\ Seat(t, i) = Seat(s, i)
<1>1. Ground(t, i) = Ground(s, i) BY DEF Ground
<1>2. Seat(t, i) = Seat(s, i) BY <1>1 DEF Seat, Extra
<1>3. FrameMatches(s, i, WhatOf(s, i), u[Seat(s, i)]) BY DEF Held
<1>4. FrameMatches(t, i, WhatOf(t, i), v[Seat(t, i)]) BY <1>2, <1>3 DEF FrameMatches
<1>5. s.heap[s.stack[i].obj].kind = "ac" => IsInner(u[Ground(s, i)]) BY DEF Held
<1> QED BY <1>1, <1>2, <1>4, <1>5 DEF Held

\* What the function at the top does is nothing to those below it.
LEMMA BelowStands ==
  ASSUME NEW s, WInv(s), NEW t, Typed(t), WStep(s, t), Stands(s, t), s.stack # <<>>,
         Len(t.stack) >= Len(s.stack), NEW u, NEW v, BelowMatches(s, u),
         \A j \in 1 .. Ground(s, Len(s.stack)) - 1 : v[j] = u[j]
  PROVE  /\ \A i \in 1 .. Len(s.stack) - 1 : Held(t, i, v)
         /\ Ground(t, Len(s.stack)) = Ground(s, Len(s.stack))
         /\ Seat(t, Len(s.stack)) = Seat(s, Len(s.stack))
         /\ WhatOf(t, Len(s.stack)) = WhatOf(s, Len(s.stack))
<1> DEFINE L == Len(s.stack)
<1>0. Typed(s) /\ Path(s) BY DEF WInv
<1>1. L \in Nat \ {0} /\ L \in 1 .. L BY <1>0, TopTypes
<1>t. Len(t.stack) \in Nat BY SnapshotTypes
<1>2. \A i \in 1 .. L :
        /\ t.stack[i].obj = s.stack[i].obj
        /\ t.heap[s.stack[i].obj].kind = s.heap[s.stack[i].obj].kind
        /\ t.heap[s.stack[i].obj].depth = s.heap[s.stack[i].obj].depth
  BY StandsLinked
<1>3. \A i \in 1 .. L : t.heap[s.stack[i].obj].nth = s.heap[s.stack[i].obj].nth
  <2> TAKE i \in 1 .. L
  <2>1. s.stack[i].obj \in Holder /\ Met(s, s.stack[i].obj) BY <1>0, SnapshotTypes DEF Path
  <2> QED BY <2>1, MetStays
<1>4. ASSUME NEW i \in 1 .. L PROVE WhatOf(t, i) = WhatOf(s, i)
  <2>1. i > 1 => i - 1 \in 1 .. L BY <1>1
  <2> QED BY <1>2, <2>1 DEF WhatOf
<1>5. ASSUME NEW i \in 1 .. L PROVE Ground(t, i) = Ground(s, i) /\ Seat(t, i) = Seat(s, i)
  BY <1>2 DEF Ground, Seat, Extra
<1>6. ASSUME NEW i \in 1 .. L - 1 PROVE Held(t, i, v)
  <2>1. i \in 1 .. L /\ i + 1 \in 1 .. L /\ i < L BY <1>1
  <2>2. Pair(t, i) <=> Pair(s, i) BY <1>2, <2>1 DEF Pair
  <2>3. i < Len(t.stack) BY <1>1, <1>t, <2>1
  <2>4. Lags(t, i) <=> Lags(s, i) BY <2>1, <2>2, <2>3 DEF Lags
  <2>5. Lags(s, i) => t.heap[s.stack[i].obj].kids = s.heap[s.stack[i].obj].kids
    BY KidsBelow DEF Lags
  <2>6. t.stack[i] = s.stack[i] BY DEF Stands, SameBelow
  <2>7. Held(s, i, u) BY DEF BelowMatches
  <2>8. Seat(s, i) < Ground(s, L) BY SeatsApart
  <2>9. /\ Ground(s, i) \in Nat \ {0} /\ Seat(s, i) \in Nat \ {0} /\ Ground(s, L) \in Nat
        /\ s.heap[s.stack[i].obj].kind = "ac" => Seat(s, i) = Ground(s, i) + 1
    BY <1>0, <1>1, <2>1, SeatTypes
  <2>10. v[Seat(s, i)] = u[Seat(s, i)] BY <2>8, <2>9
  <2>11. s.heap[s.stack[i].obj].kind = "ac" => v[Ground(s, i)] = u[Ground(s, i)] BY <2>8, <2>9
  <2>12. WhatOf(t, i) = WhatOf(s, i) BY <1>4, <2>1
  <2> QED BY <1>2, <1>3, <2>1, <2>4, <2>5, <2>6, <2>7, <2>10, <2>11, <2>12, HeldKept
<1> QED BY <1>1, <1>4, <1>5, <1>6

\* The function at the top gets its value.
LEMMA HeldServed ==
  ASSUME NEW s, WInv(s), NEW t, WInv(t), WStep(s, t), Serves(s, t), Len(t.stack) = Len(s.stack),
         NEW u, NEW v, BelowMatches(s, u), AtValues(s, u), Len(v) = Len(u),
         \A j \in 1 .. Len(u) - 1 : v[j] = u[j],
         LET f == u[Len(u)]
             g == v[Len(u)]
         IN  /\ g.what = f.what /\ g.node = f.node /\ g.members = f.members /\ g.dyn = f.dyn
             /\ g.left = f.left - 1 /\ g.key = None
  PROVE  BelowMatches(t, v) /\ AtValues(t, v)
<1> DEFINE L == Len(s.stack)
<1>0. Typed(s) /\ Path(s) /\ Typed(t) BY DEF WInv
<1>1. /\ s.stack # <<>> /\ t.stack # <<>> /\ TopOf(t) = ServedOf(TopOf(s))
      /\ TopOf(t).names = <<>> /\ TopOf(t).src = FALSE
  BY <1>0, ServedTop
<1>2. L \in Nat \ {0} /\ L \in 1 .. L /\ TopOf(s) = s.stack[L] /\ TopOf(t) = t.stack[L] /\ TopOf(s) \in Frame
  BY <1>0, <1>1, TopTypes
<1>3. Stands(s, t) BY ServesStands
<1>4. Ground(s, L) \in Nat \ {0} /\ Seat(s, L) \in {Ground(s, L), Ground(s, L) + 1}
      /\ (s.heap[s.stack[L].obj].kind = "ac" => Seat(s, L) = Ground(s, L) + 1)
  BY <1>0, <1>2, SeatTypes
<1>5. Len(u) = Seat(s, L) /\ Held(s, L, u) BY DEF AtValues
<1>6. \A j \in 1 .. Ground(s, L) - 1 : v[j] = u[j] BY <1>4, <1>5
<1>7. /\ \A i \in 1 .. L - 1 : Held(t, i, v)
      /\ Ground(t, L) = Ground(s, L) /\ Seat(t, L) = Seat(s, L) /\ WhatOf(t, L) = WhatOf(s, L)
  <2>1. Len(t.stack) >= L BY <1>2
  <2> QED BY <1>0, <1>1, <1>3, <1>6, <2>1, BelowStands
<1>8. /\ t.heap[TopOf(s).obj].kind = s.heap[TopOf(s).obj].kind
      /\ t.heap[TopOf(s).obj].nth = s.heap[TopOf(s).obj].nth
  <2>1. TopOf(s).obj \in Holder /\ Met(s, TopOf(s).obj) BY <1>0, <1>1, <1>2, TopTypes DEF Path
  <2> QED BY <2>1, MetStays
<1>9. ~Lags(s, L) /\ ~Lags(t, L) BY <1>2 DEF Lags
<1>10. LET f == t.stack[L]
       IN  /\ f.obj = TopOf(s).obj /\ f.left = TopOf(s).left - 1 /\ f.members = TopOf(s).members
           /\ f.dyn = TopOf(s).dyn /\ f.key = None
  BY <1>1, <1>2, ServedIs
<1>11. FrameMatches(s, L, WhatOf(s, L), u[Len(u)]) BY <1>5 DEF Held
<1>12. FrameMatches(t, L, WhatOf(t, L), v[Len(u)])
  BY <1>2, <1>7, <1>8, <1>9, <1>10, <1>11 DEF FrameMatches
<1>13. t.heap[t.stack[L].obj].kind = "ac" => IsInner(v[Ground(t, L)])
  <2>1. ASSUME s.heap[s.stack[L].obj].kind = "ac" PROVE v[Ground(s, L)] = u[Ground(s, L)]
    BY <1>4, <1>5, <2>1
  <2> QED BY <1>2, <1>5, <1>7, <1>8, <1>10, <2>1 DEF Held
<1>14. Held(t, L, v) BY <1>5, <1>7, <1>12, <1>13 DEF Held
<1> QED BY <1>1, <1>2, <1>5, <1>7, <1>14 DEF BelowMatches, AtValues

\* It has called a function for a new object, and waits.
LEMMA HeldPushed ==
  ASSUME NEW s, WInv(s), NEW t, WInv(t), WStep(s, t), NEW o \in Obj, Meets(s, t, o),
         t.stack[Len(s.stack) + 1].obj = o, Len(t.stack) >= Len(s.stack) + 1,
         NEW u, NEW v, BelowMatches(s, u), AtValues(s, u),
         \A j \in 1 .. Len(u) : v[j] = u[j]
  PROVE  /\ \A i \in 1 .. Len(s.stack) : Held(t, i, v)
         /\ Ground(t, Len(s.stack) + 1) = Len(u) + 1
<1> DEFINE L == Len(s.stack)
           p == TopOf(s).obj
<1>0. Typed(s) /\ Path(s) /\ Typed(t) BY DEF WInv
<1>1. Serves(s, t) /\ s.stack # <<>> /\ ~Met(s, o) /\ t.heap[o].depth = Opened(s)
  BY DEF Meets, Serves, Wants
<1>2. L \in Nat \ {0} /\ L \in 1 .. L /\ TopOf(s) = s.stack[L] /\ TopOf(s) \in Frame
  BY <1>0, <1>1, TopTypes
<1>t. Len(t.stack) \in Nat BY <1>0, SnapshotTypes
<1>3. Stands(s, t) BY <1>1, ServesStands
<1>4. Ground(s, L) \in Nat \ {0} /\ Seat(s, L) \in {Ground(s, L), Ground(s, L) + 1}
      /\ (s.heap[s.stack[L].obj].kind = "ac" => Seat(s, L) = Ground(s, L) + 1)
  BY <1>0, <1>2, SeatTypes
<1>5. Len(u) = Seat(s, L) /\ Held(s, L, u) BY DEF AtValues
<1>6. \A j \in 1 .. Ground(s, L) - 1 : v[j] = u[j] BY <1>4, <1>5
<1>7. /\ \A i \in 1 .. L - 1 : Held(t, i, v)
      /\ Ground(t, L) = Ground(s, L) /\ Seat(t, L) = Seat(s, L) /\ WhatOf(t, L) = WhatOf(s, L)
  <2>1. Len(t.stack) >= L BY <1>2, <1>t
  <2> QED BY <1>0, <1>1, <1>3, <1>6, <2>1, BelowStands
<1>p. p \in Holder /\ Met(s, p) BY <1>0, <1>1, <1>2, TopTypes DEF Path
<1>8. /\ t.heap[p].kind = s.heap[p].kind /\ t.heap[p].nth = s.heap[p].nth
  BY <1>p, MetStays
<1>9. ~Lags(s, L) BY <1>2 DEF Lags
<1>10. t.stack[L].obj = p /\ p # o BY <1>1, <1>3, <1>p DEF Stands
<1>11. Lags(t, L) BY <1>2, <1>10, <1>t DEF Lags, Pair
<1>12. LET f == t.stack[L]
       IN  /\ f.left = TopOf(s).left - 1 /\ f.members = TopOf(s).members /\ f.dyn = TopOf(s).dyn
  BY <1>1, <1>2, ServedIs DEF Serves
<1>13. FrameMatches(s, L, WhatOf(s, L), u[Len(u)]) BY <1>5 DEF Held
<1>14. v[Len(u)] = u[Len(u)] BY <1>4, <1>5
<1>15. /\ Len(t.heap[p].kids) - 1 = Len(s.heap[p].kids)
       /\ t.heap[p].kids[Len(t.heap[p].kids)].key = KeyHere(s)
  <2>1. PICK k : k = [key |-> KeyHere(s), val |-> o] OBVIOUS
  <2>2. t.heap[p].kids = Append(s.heap[p].kids, k) BY <1>p, <1>10, <2>1 DEF Meets, Stores
  <2>3. k \in Kid
    <3>1. o \in Values BY DEF Values
    <3> QED BY <1>0, <1>1, <2>1, <3>1, KeyType
  <2>4. PICK w : w = s.heap[p].kids OBVIOUS
  <2>5. w \in Seq(Kid) BY <1>0, <1>p, <2>4, SnapshotTypes
  <2>6. Len(w) \in Nat BY <2>5, Elements
  <2>7. Len(Append(w, k)) = Len(w) + 1 /\ Append(w, k)[Len(w) + 1] = k
    <3> HIDE DEF Kid
    <3> QED BY <2>3, <2>5, Appended
  <2>8. k.key = KeyHere(s) BY <2>1
  <2> QED BY <2>2, <2>4, <2>6, <2>7, <2>8
<1>16. KeyOf(u[Len(u)], Len(s.heap[p].kids)) = KeyHere(s)
  BY <1>2, <1>9, <1>13 DEF FrameMatches, KeyOf, KeyHere, NextKey
<1>l. TopOf(s).left \in Nat BY <1>0, <1>1, TopTypes
<1>17. FrameMatches(t, L, WhatOf(t, L), v[Len(u)])
  <2> DEFINE r == u[Len(u)]
  <2>1. /\ r.what = WhatOf(s, L) /\ r.node = s.heap[p].nth /\ r.members = TopOf(s).members
        /\ r.dyn = TopOf(s).dyn /\ r.left = TopOf(s).left
    BY <1>2, <1>9, <1>13 DEF FrameMatches
  <2>2. r.left = t.stack[L].left + 1 BY <1>l, <1>12, <2>1
  <2>3. KeyOf(r, Len(t.heap[p].kids) - 1) = t.heap[p].kids[Len(t.heap[p].kids)].key
    BY <1>15, <1>16
  <2> HIDE DEF r
  <2>4. FrameMatches(t, L, WhatOf(t, L), r)
    BY <1>7, <1>8, <1>10, <1>11, <1>12, <2>1, <2>2, <2>3 DEF FrameMatches
  <2> QED BY <1>14, <2>4 DEF r
<1>18. t.heap[t.stack[L].obj].kind = "ac" => IsInner(v[Ground(t, L)])
  <2>1. ASSUME s.heap[s.stack[L].obj].kind = "ac" PROVE v[Ground(s, L)] = u[Ground(s, L)]
    BY <1>4, <1>5, <2>1
  <2> QED BY <1>2, <1>5, <1>7, <1>8, <1>10, <2>1 DEF Held
<1>19. Held(t, L, v) BY <1>5, <1>7, <1>17, <1>18 DEF Held
<1>20. Ground(t, L + 1) = Len(u) + 1
  <2>1. Opened(s) = s.heap[p].depth + Extra(s, p) BY <1>1 DEF Opened
  <2>2. s.heap[p].depth \in Nat /\ Extra(s, p) \in Nat BY <1>0, <1>p, SnapshotTypes DEF Extra
  <2>3. Seat(s, L) = L + s.heap[p].depth + Extra(s, p) BY <1>2 DEF Seat, Ground
  <2>4. Ground(t, L + 1) = L + 1 + Opened(s) BY <1>1 DEF Ground
  <2>5. PICK d, e : d = s.heap[p].depth /\ e = Extra(s, p) OBVIOUS
  <2>6. /\ d \in Nat /\ e \in Nat /\ L \in Nat
        /\ Len(u) = L + d + e /\ Ground(t, L + 1) = L + 1 + (d + e)
    BY <1>2, <1>5, <2>1, <2>2, <2>3, <2>4, <2>5
  <2> HIDE DEF L, p
  <2> QED BY <2>6
<1> QED
  <2>1. \A i \in 1 .. L : i \in 1 .. L - 1 \/ i = L BY <1>2
  <2> QED BY <1>7, <1>19, <1>20, <2>1

\* A function returns, and the one that called it has the value it waited for.
LEMMA HeldReturned ==
  ASSUME NEW s, WInv(s), NEW t, WInv(t), Returns(s, t), Len(s.stack) > 1,
         NEW u, NEW v, BelowMatches(s, u),
         Len(v) = Seat(s, Len(s.stack) - 1), \A j \in 1 .. Len(v) - 1 : v[j] = u[j],
         IF Pair(s, Len(s.stack) - 1) THEN v[Len(v)] = u[Len(v)]
         ELSE LET f == u[Len(v)]
                  g == v[Len(v)]
              IN  /\ g.what = f.what /\ g.node = f.node /\ g.members = f.members /\ g.dyn = f.dyn
                  /\ g.left = f.left - 1 /\ g.key = None
  PROVE  BelowMatches(t, v) /\ AtValues(t, v) /\ t.stack # <<>> /\ ~Closed(t)
<1> DEFINE L == Len(s.stack)
           M == L - 1
<1>0. /\ Typed(s) /\ Path(s) /\ Typed(t) /\ t.heap = s.heap /\ SameBelow(s, t) /\ Len(t.stack) = M
  BY DEF WInv, Returns, SameGraph
<1>1. L \in Nat /\ L > 1 BY <1>0, SnapshotTypes
<1>2. /\ M \in Nat \ {0} /\ M \in 1 .. M /\ M + 1 = L /\ M \in 1 .. L - 1 /\ M \in 1 .. L
      /\ \A i \in 1 .. M : i \in 1 .. L /\ (i \in 1 .. M - 1 \/ i = M)
      /\ \A i \in 1 .. M - 1 : i < M /\ i < L /\ i + 1 \in 1 .. M /\ i \in 1 .. M
  <2> HIDE DEF L
  <2> QED BY <1>1
<1>3. \A i \in 1 .. M : t.stack[i] = s.stack[i] BY <1>0 DEF SameBelow
<1>4. t.stack # <<>> /\ TopOf(t) = s.stack[M] BY <1>0, <1>2, <1>3 DEF TopOf
<1>5. /\ s.stack[M].names = <<>> /\ s.stack[M].src = FALSE /\ s.stack[M].key = None
  BY <1>0, <1>2 DEF Path
<1>6. \A i \in 1 .. M : WhatOf(t, i) = WhatOf(s, i)
  <2> TAKE i \in 1 .. M
  <2>1. i > 1 => i - 1 \in 1 .. M BY <1>2
  <2> QED BY <1>3, <2>1 DEF WhatOf
<1>7. \A i \in 1 .. M : Ground(t, i) = Ground(s, i) /\ Seat(t, i) = Seat(s, i)
  BY <1>0, <1>3 DEF Ground, Seat, Extra
<1>8. \A i \in 1 .. M - 1 : Lags(t, i) <=> Lags(s, i)
  <2> TAKE i \in 1 .. M - 1
  <2>1. Pair(t, i) <=> Pair(s, i) BY <1>2, <1>3 DEF Pair
  <2> QED BY <1>0, <1>2, <2>1 DEF Lags
<1>9. ~Lags(t, M) /\ (Lags(s, M) <=> ~Pair(s, M)) BY <1>0, <1>1, <1>2 DEF Lags
<1>10. \A i \in 1 .. M : Held(s, i, u) BY <1>2 DEF BelowMatches
<1>s. ASSUME NEW i \in 1 .. M
      PROVE  /\ Ground(s, i) \in Nat \ {0} /\ Seat(s, i) \in Nat \ {0}
             /\ s.heap[s.stack[i].obj].kind = "ac" => Seat(s, i) = Ground(s, i) + 1
  BY <1>0, <1>2, SeatTypes
<1>g. ASSUME NEW i \in 1 .. M, s.heap[s.stack[i].obj].kind = "ac", Seat(s, i) <= Len(v)
      PROVE  v[Ground(s, i)] = u[Ground(s, i)]
  BY <1>g, <1>s
<1>v. Len(v) = Seat(s, M) /\ \A j \in 1 .. Len(v) - 1 : v[j] = u[j] OBVIOUS
<1>11. ASSUME NEW i \in 1 .. M - 1 PROVE Held(t, i, v)
  <2>1. i \in 1 .. M /\ t.heap = s.heap BY <1>0, <1>2
  <2>2. Seat(s, i) < Seat(s, M)
    <3>1. Len(t.stack) = M /\ i \in 1 .. Len(t.stack) - 1 BY <1>0
    <3>2. Seat(t, i) < Ground(t, M) BY <3>1, SeatsApart
    <3>3. Ground(s, M) <= Seat(s, M) /\ Ground(s, M) \in Nat /\ Seat(s, i) \in Nat /\ Seat(s, M) \in Nat
      <4>1. Seat(s, M) \in {Ground(s, M), Ground(s, M) + 1} BY <1>0, <1>2, SeatTypes
      <4> HIDE DEF M
      <4> QED BY <1>2, <1>s, <2>1, <4>1
    <3>4. Seat(t, i) = Seat(s, i) /\ Ground(t, M) = Ground(s, M) BY <1>2, <1>7, <2>1
    <3> HIDE DEF M
    <3> QED BY <3>2, <3>3, <3>4
  <2>a. Seat(s, i) \in Nat \ {0} /\ Seat(s, M) \in Nat BY <1>s, <1>2, <2>1
  <2>3. v[Seat(s, i)] = u[Seat(s, i)]
    <3> HIDE DEF M
    <3> QED BY <1>v, <2>2, <2>a
  <2>4. Seat(s, i) <= Len(v)
    <3> HIDE DEF M
    <3> QED BY <1>v, <2>2, <2>a
  <2>5. s.heap[s.stack[i].obj].kind = "ac" => v[Ground(s, i)] = u[Ground(s, i)] BY <1>g, <2>1, <2>4
  <2>6. t.stack[i] = s.stack[i] /\ WhatOf(t, i) = WhatOf(s, i) /\ (Lags(t, i) <=> Lags(s, i)) /\ Held(s, i, u)
    BY <1>3, <1>6, <1>8, <1>10, <2>1
  <2> QED BY <2>1, <2>3, <2>5, <2>6, HeldKept
<1>12. Held(t, M, v)
  <2>1. /\ t.stack[M] = s.stack[M] /\ WhatOf(t, M) = WhatOf(s, M) /\ Held(s, M, u) /\ t.heap = s.heap
        /\ Ground(t, M) = Ground(s, M) /\ Seat(t, M) = Seat(s, M)
    BY <1>0, <1>2, <1>3, <1>6, <1>7, <1>10
  <2>2. Len(v) = Seat(s, M) /\ Seat(s, M) \in Nat BY <1>2, <1>s
  <2>3. s.heap[s.stack[M].obj].kind = "ac" => v[Ground(s, M)] = u[Ground(s, M)]
    <3>1. Seat(s, M) <= Len(v) /\ M \in 1 .. M BY <1>2, <2>2
    <3> HIDE DEF M
    <3> QED BY <1>g, <3>1
  <2>4. CASE Pair(s, M)
    <3>1. v[Seat(s, M)] = u[Seat(s, M)] BY <2>2, <2>4
    <3>2. Lags(t, M) <=> Lags(s, M) BY <1>9, <2>4
    <3> QED BY <2>1, <2>3, <2>4, <3>1, <3>2, HeldKept
  <2>5. CASE ~Pair(s, M)
    <3> DEFINE f == u[Seat(s, M)]
               g == v[Seat(s, M)]
    <3>1. /\ g.what = f.what /\ g.node = f.node /\ g.members = f.members /\ g.dyn = f.dyn
          /\ g.left = f.left - 1 /\ g.key = None
      BY <2>2, <2>5
    <3>2. FrameMatches(s, M, WhatOf(s, M), f) /\ Lags(s, M) BY <1>9, <2>1, <2>5 DEF Held
    <3>3. s.stack[M].left \in Nat BY <1>0, <1>2, SnapshotTypes
    <3> HIDE DEF f, g, M
    <3>4. FrameMatches(t, M, WhatOf(t, M), g)
      BY <1>5, <1>9, <2>1, <3>1, <3>2, <3>3 DEF FrameMatches
    <3>5. s.heap[s.stack[M].obj].kind = "ac" => IsInner(u[Ground(s, M)]) BY <2>1 DEF Held
    <3>6. FrameMatches(t, M, WhatOf(t, M), v[Seat(t, M)]) BY <2>1, <3>4 DEF g
    <3>7. t.heap[t.stack[M].obj].kind = "ac" => IsInner(v[Ground(t, M)]) BY <2>1, <2>3, <3>5
    <3> QED BY <3>6, <3>7 DEF Held
  <2> QED BY <2>4, <2>5
<1>13. AtValues(t, v)
  <2>1. Len(v) = Seat(t, Len(t.stack)) BY <1>0, <1>2, <1>7
  <2>2. Held(t, Len(t.stack), v) BY <1>0, <1>12
  <2> QED BY <1>4, <1>5, <2>1, <2>2 DEF AtValues
<1>14. ASSUME Closed(t) PROVE FALSE
  <2>1. M > 1 /\ Pair(t, M - 1) /\ TopOf(t).dyn = FALSE BY <1>0, <1>14 DEF Closed
  <2>2. M - 1 \in 1 .. M - 1 /\ (M - 1) + 1 = M /\ M - 1 \in 1 .. M /\ M - 1 \in 1 .. L - 1 /\ M # L
    <3> HIDE DEF L
    <3> QED BY <1>1, <2>1
  <2>3. Pair(s, M - 1)
    <3>1. t.stack[M - 1] = s.stack[M - 1] /\ t.stack[M] = s.stack[M] BY <1>2, <1>3, <2>2
    <3> HIDE DEF M
    <3> QED BY <2>1, <2>2, <3>1 DEF Pair
  <2>4. Linked(s, M - 1) BY <1>0, <2>2, PathParts
  <2> HIDE DEF M
  <2>5. s.stack[M].dyn = TRUE \/ (M = Len(s.stack) /\ s.stack[M].left = 0)
    BY <2>2, <2>3, <2>4 DEF Linked
  <2> QED BY <1>4, <2>1, <2>2, <2>5
<1> QED BY <1>0, <1>4, <1>11, <1>13, <1>14 DEF BelowMatches

-----------------------------------------------------------------------------
(***************************************************************************)
(* The tables of the reader.                                               *)
(***************************************************************************)
LEMMA ObjectsFollow ==
  ASSUME NEW s, WInv(s), NEW t, WInv(t), Earlier(s, t), NEW tab, NEW tab2, ObjectsMatch(s, tab),
         Len(tab2) = Known(t), Extends(tab, tab2),
         \A o \in Obj : Met(t, o) /\ ~Pends(t, o) /\ ~(Met(s, o) /\ ~Pends(s, o)) =>
           Place(t, o) \in 0 .. Len(tab2) - 1 /\ tab2[Place(t, o) + 1] = t.heap[o].nth
  PROVE  ObjectsMatch(t, tab2)
<1> SUFFICES ASSUME NEW o \in Obj, Met(t, o), ~Pends(t, o), Met(s, o), ~Pends(s, o)
             PROVE  Place(t, o) \in 0 .. Len(tab2) - 1 /\ tab2[Place(t, o) + 1] = t.heap[o].nth
  BY DEF ObjectsMatch
<1>0. Typed(s) /\ Typed(t) BY DEF WInv
<1>1. Known(s) \in Int /\ Known(t) \in Int BY <1>0, KnownTypes
<1>2. Place(s, o) \in 0 .. Len(tab) - 1 /\ tab[Place(s, o) + 1] = s.heap[o].nth /\ Len(tab) = Known(s)
  BY DEF ObjectsMatch
<1>3. Place(t, o) = Place(s, o) /\ t.heap[o].nth = s.heap[o].nth
  BY DEF Earlier, Later, Place, Holder
<1>4. Len(tab) <= Len(tab2) /\ \A i \in 1 .. Len(tab) : tab2[i] = tab[i] BY DEF Extends
<1>5. Place(s, o) \in 0 .. Len(tab2) - 1 /\ Place(s, o) + 1 \in 1 .. Len(tab)
  BY <1>1, <1>2, <1>4
<1> QED BY <1>2, <1>3, <1>4, <1>5

LEMMA StringsStay ==
  ASSUME NEW s, NEW t, SameStrings(s, t), NEW tab, StringsMatch(s, tab)
  PROVE  StringsMatch(t, tab)
BY DEF SameStrings, StringsMatch

\* The reader gets the string that was put.
StringComes(s, t, tok, x, m) ==
  /\ Says(s, t, tok) /\ IsString(tok) /\ tok.m = m /\ ~StringBeyondEnd(tok) /\ StringRead(tok) = x
  /\ StringsMatch(t, StringTableAfter(tok))

LEMMA StringGiven ==
  ASSUME Faithful, NEW s, WInv(s), NEW t, NEW x \in Strings, NEW m \in BOOLEAN, Puts(s, t, x, m),
         strTab \in Seq(Strings), StringsMatch(s, strTab)
  PROVE  \E tok \in Token : StringComes(s, t, tok, x, m)
<1>0. Typed(s) /\ Cached(s) BY DEF WInv
<1>1. /\ StrKey[x] \in StrKeys /\ s.strIndex \in Nat /\ s.strCache[StrKey[x]] \in Index
      /\ s.strCache[StrKey[x]] < s.strIndex /\ Len(strTab) = s.strIndex
  <2>1. StrKey[x] \in StrKeys BY WriterAssumption
  <2> QED BY <1>0, <2>1, SnapshotTypes DEF Cached, StringsMatch
<1>2. CASE x = Empty /\ Says(s, t, EmptyTok(m)) /\ SameStrings(s, t)
  <2> DEFINE tok == EmptyTok(m)
  <2>1. tok \in Token BY TokenTypes
  <2>2. tok.t = "empty" /\ tok.v = Empty /\ tok.m = m BY DEF EmptyTok
  <2>3. Says(s, t, tok) BY <1>2
  <2> HIDE DEF tok
  <2>4. StringTableAfter(tok) = strTab /\ StringRead(tok) = x /\ IsString(tok) /\ ~StringBeyondEnd(tok)
    BY <1>2, <2>2 DEF StringTableAfter, StringRead, IsString, StringBeyondEnd
  <2>5. StringsMatch(t, strTab) BY <1>2, StringsStay
  <2>6. StringComes(s, t, tok, x, m) BY <2>2, <2>3, <2>4, <2>5 DEF StringComes
  <2> QED BY <2>1, <2>6
<1>3. CASE x # Empty /\ s.strCache[StrKey[x]] # NotCached
           /\ Says(s, t, StrRefTok(s.strCache[StrKey[x]], m)) /\ SameStrings(s, t)
  <2> DEFINE n == s.strCache[StrKey[x]]
             tok == StrRefTok(n, m)
  <2>0. n \in Nat /\ n < Len(strTab) BY <1>1, <1>3 DEF Index
  <2>1. tok \in Token BY <2>0, TokenTypes
  <2>2. tok.t = "strref" /\ tok.n = n /\ tok.m = m BY DEF StrRefTok
  <2>3. Says(s, t, tok) BY <1>3
  <2>4. strTab[n + 1] = x BY <1>3 DEF StringsMatch
  <2> HIDE DEF tok, n
  <2>5. StringTableAfter(tok) = strTab /\ StringRead(tok) = x /\ IsString(tok) /\ ~StringBeyondEnd(tok)
    BY <1>1, <2>0, <2>2, <2>4 DEF StringTableAfter, StringRead, IsString, StringBeyondEnd
  <2>6. StringsMatch(t, strTab) BY <1>3, StringsStay
  <2>7. StringComes(s, t, tok, x, m) BY <2>2, <2>3, <2>5, <2>6 DEF StringComes
  <2> QED BY <2>1, <2>7
<1>4. CASE /\ x # Empty /\ s.strCache[StrKey[x]] = NotCached /\ Says(s, t, StrTok(x, m))
           /\ t.strCache = [s.strCache EXCEPT ![StrKey[x]] = s.strIndex]
           /\ t.strIndex = s.strIndex + 1
  <2> DEFINE tok == StrTok(x, m)
  <2>1. tok \in Token BY <1>4, TokenTypes
  <2>2. tok.t = "str" /\ tok.v = x /\ tok.m = m BY DEF StrTok
  <2>3. Says(s, t, tok) BY <1>4
  <2> HIDE DEF tok
  <2>5. StringTableAfter(tok) = Append(strTab, x) /\ StringRead(tok) = x /\ IsString(tok)
        /\ ~StringBeyondEnd(tok)
    BY <2>2 DEF StringTableAfter, StringRead, IsString, StringBeyondEnd
  <2>6. PICK tab : tab = Append(strTab, x) OBVIOUS
  <2>7. /\ Len(tab) = Len(strTab) + 1 /\ tab[Len(strTab) + 1] = x
        /\ \A i \in 1 .. Len(strTab) : tab[i] = strTab[i]
    BY <2>6, Appended
  <2>8. ASSUME NEW y \in Strings, t.strCache[StrKey[y]] # NotCached
        PROVE  tab[t.strCache[StrKey[y]] + 1] = y
    <3>1. StrKey[y] \in StrKeys /\ s.strCache \in [StrKeys -> Index] BY <1>0, WriterAssumption DEF Typed
    <3>2. CASE y = x BY <1>1, <1>4, <2>7, <3>1, <3>2
    <3>3. CASE y # x
      <4>1. StrKey[y] # StrKey[x] BY <3>3 DEF Faithful
      <4>2. t.strCache[StrKey[y]] = s.strCache[StrKey[y]] BY <1>4, <3>1, <4>1
      <4>3. s.strCache[StrKey[y]] \in Nat /\ s.strCache[StrKey[y]] < s.strIndex
        BY <1>0, <2>8, <3>1, <4>2 DEF Cached, Index
      <4>4. s.strCache[StrKey[y]] + 1 \in 1 .. Len(strTab) BY <1>1, <4>3
      <4>5. strTab[s.strCache[StrKey[y]] + 1] = y BY <2>8, <4>2 DEF StringsMatch
      <4> QED BY <2>7, <4>2, <4>4, <4>5
    <3> QED BY <3>2, <3>3
  <2>9. StringsMatch(t, tab) BY <1>1, <1>4, <2>7, <2>8 DEF StringsMatch
  <2>10. StringComes(s, t, tok, x, m) BY <2>2, <2>3, <2>5, <2>6, <2>9 DEF StringComes
  <2> QED BY <2>1, <2>10
<1> QED BY <1>2, <1>3, <1>4 DEF Puts

LEMMA TraitsStay ==
  ASSUME NEW s, NEW t, SameTraits(s, t), Unnamed(t) = Unnamed(s), NEW tab, TraitsMatch(s, tab)
  PROVE  TraitsMatch(t, tab)
BY DEF SameTraits, TraitsMatch

LEMMA TraitsKnown ==
  ASSUME Faithful, NEW s, WInv(s), Unnamed(s) = 0, NEW tr \in Traits, Knows(s, tr),
         NEW tab, TraitsMatch(s, tab)
  PROVE  LET n == s.traitCache[TraitKey(tr)]
         IN  n \in Nat /\ n < Len(tab) /\ tab[n + 1] = Described(tr)
<1> DEFINE n == s.traitCache[TraitKey(tr)]
<1>1. TraitKey(tr) \in TraitKeys BY TraitKeys0
<1>2. n \in Index /\ n < s.traitIndex /\ s.traitIndex \in Nat /\ n # NotCached
  BY <1>1, SnapshotTypes DEF WInv, Cached, Knows
<1>3. Len(tab) = s.traitIndex BY <1>2 DEF TraitsMatch
<1> HIDE DEF n
<1>4. n \in Nat /\ n < Len(tab) /\ n \in 0 .. Len(tab) - 1 BY <1>2, <1>3 DEF Index
<1>5. tab[n + 1] = Described(tr) BY <1>4 DEF TraitsMatch, n
<1> QED BY <1>4, <1>5 DEF n

\* A description has been announced, and its names are to come.
LEMMA TraitsAnnounced ==
  ASSUME Faithful, NEW s, WInv(s), NEW t, NEW tr \in Traits, AddsTraits(s, t, tr),
         Unnamed(s) = 0, Unnamed(t) = 1, NEW tab, TraitsMatch(s, tab)
  PROVE  TraitsMatch(t, tab)
<1>1. TraitKey(tr) \in TraitKeys /\ s.traitIndex \in Nat /\ s.traitCache \in [TraitKeys -> Index]
  BY TraitKeys0 DEF WInv, Typed
<1>2. Len(tab) = s.traitIndex /\ t.traitIndex = s.traitIndex + 1 BY <1>1 DEF TraitsMatch, AddsTraits
<1>3. t.traitCache = [s.traitCache EXCEPT ![TraitKey(tr)] = s.traitIndex] BY DEF AddsTraits
<1>4. ASSUME NEW x \in Traits, t.traitCache[TraitKey(x)] \in 0 .. Len(tab) - 1
      PROVE  tab[t.traitCache[TraitKey(x)] + 1] = Described(x)
  <2>1. TraitKey(x) \in TraitKeys BY TraitKeys0
  <2>2. TraitKey(x) # TraitKey(tr) BY <1>1, <1>2, <1>3, <1>4
  <2>3. t.traitCache[TraitKey(x)] = s.traitCache[TraitKey(x)] BY <1>1, <1>3, <2>1, <2>2
  <2> QED BY <1>4, <2>3 DEF TraitsMatch
<1>5. Len(tab) = t.traitIndex - Unnamed(t) BY <1>1, <1>2
<1> QED BY <1>4, <1>5 DEF TraitsMatch

\* The last of its names has come.
LEMMA TraitsNamed ==
  ASSUME Faithful, NEW s, WInv(s), Naming(s), NEW t, SameTraits(s, t), Unnamed(t) = 0,
         NEW tr \in Traits, tr = TrOf(s, TopOf(s).obj),
         NEW tab \in Seq(TraitRecord), Described(tr) \in TraitRecord, TraitsMatch(s, tab)
  PROVE  TraitsMatch(t, Append(tab, Described(tr)))
<1>0. s.stack # <<>> /\ Unnamed(s) = 1 BY DEF Naming, Unnamed
<1>1. TraitKey(tr) \in TraitKeys /\ s.traitIndex \in Nat /\ s.traitCache \in [TraitKeys -> Index]
  BY TraitKeys0 DEF WInv, Typed
<1>2. /\ s.traitCache[TraitKey(tr)] = s.traitIndex - 1
      /\ \A k \in TraitKeys : k # TraitKey(tr) => s.traitCache[k] < s.traitIndex - 1
  <2>1. Begun(s) BY DEF WInv
  <2> QED BY <1>0, <2>1 DEF Begun
<1>3. Len(tab) = s.traitIndex - 1 BY <1>0 DEF TraitsMatch
<1>4. PICK u : u = Append(tab, Described(tr)) OBVIOUS
<1>5. /\ Len(u) = Len(tab) + 1 /\ u[Len(tab) + 1] = Described(tr)
      /\ \A i \in 1 .. Len(tab) : u[i] = tab[i]
  <2> HIDE DEF TraitRecord
  <2> QED BY <1>4, Appended
<1>6. t.traitCache = s.traitCache /\ t.traitIndex = s.traitIndex BY DEF SameTraits
<1>7. ASSUME NEW x \in Traits, t.traitCache[TraitKey(x)] \in 0 .. Len(u) - 1
      PROVE  u[t.traitCache[TraitKey(x)] + 1] = Described(x)
  <2>1. CASE x = tr BY <1>1, <1>2, <1>3, <1>5, <1>6, <2>1
  <2>2. CASE x # tr
    <3>1. TraitKey(x) # TraitKey(tr) /\ TraitKey(x) \in TraitKeys BY <2>2, TraitKeys0 DEF Faithful
    <3>2. s.traitCache[TraitKey(x)] < s.traitIndex - 1 BY <1>2, <3>1
    <3>3. PICK n : n = s.traitCache[TraitKey(x)] OBVIOUS
    <3>4. n \in 0 .. Len(tab) - 1 /\ n + 1 \in 1 .. Len(tab)
      BY <1>1, <1>3, <1>6, <1>7, <3>2, <3>3
    <3>5. tab[n + 1] = Described(x) BY <3>3, <3>4 DEF TraitsMatch
    <3> QED BY <1>5, <1>6, <3>3, <3>4, <3>5
  <2> QED BY <2>1, <2>2
<1>8. Len(u) = t.traitIndex - Unnamed(t) BY <1>1, <1>3, <1>5, <1>6
<1> QED BY <1>4, <1>7, <1>8 DEF TraitsMatch
=============================================================================
