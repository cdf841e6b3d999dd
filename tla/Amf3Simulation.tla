--------------------------- MODULE Amf3Simulation ---------------------------
(***************************************************************************)
(* The reader of AMF3 follows the writer, token by token, whatever the     *)
(* graph: from that follow the theorems about the round trip, which are at *)
(* the end.  Amf3Proofs says when a state of the reader matches what the   *)
(* writer had done when it had written the tokens read so far; here every  *)
(* step of the reader is compared with the step that wrote its token.      *)
(***************************************************************************)
EXTENDS Amf3Proofs

-----------------------------------------------------------------------------
(***************************************************************************)
(* What the reader can do next.                                            *)
(***************************************************************************)
Failed == rstat' = "error" /\ UNCHANGED <<pos, rstack, tables, made, stream>>

LEMMA NextToken ==
  ASSUME NEW s, Typed(s), NEW t, NEW tok \in Token, Says(s, t, tok),
         NEW F \in Seq(Token), Extends(t.stream, F), stream \in Seq(Token), Extends(stream, F),
         pos = Len(s.stream) + 1, pos <= Len(stream) + 1
  PROVE  /\ pos = Len(t.stream) /\ pos \in Nat
         /\ pos <= Len(stream) => Tok = tok /\ pos + 1 <= Len(stream) + 1
         /\ ~(pos <= Len(stream)) => pos > Len(stream) /\ Len(stream) < Len(F)
<1>1. s.stream \in Seq(Token) BY DEF Typed
<1>2. PICK u, v : u = s.stream /\ v = t.stream OBVIOUS
<1>3. Len(u) \in Nat /\ Len(v) = Len(u) + 1 /\ v[Len(u) + 1] = tok
  BY <1>1, <1>2, Appended, Elements DEF Says
<1>4. Len(stream) \in Nat /\ Len(F) \in Nat BY Elements
<1>5. pos \in 1 .. Len(v) BY <1>2, <1>3
<1>6. F[pos] = tok /\ Len(v) <= Len(F) BY <1>2, <1>3, <1>5 DEF Extends
<1>7. pos <= Len(stream) => stream[pos] = F[pos] BY <1>3, <1>4, <1>5 DEF Extends
<1> QED BY <1>2, <1>3, <1>4, <1>6, <1>7 DEF Tok

LEMMA Missing ==
  ASSUME ReaderNext, rstat = "run", pos \in Nat, pos > Len(stream), Len(stream) \in Nat, ~Complete(RTop)
  PROVE  Failed
<1>1. ~More BY DEF More
<1> QED BY <1>1 DEF ReaderNext, ReadScalar, ReadString, ReadReference, ReadLeaf, ReadArray,
     ReadNamedArray, ReadDict, ReadVector, ReadTypeName, ReadTraitReference, ReadTraits, ReadName,
     ReadKey, ReadReturn, ReadDone, ReadRaises, ReadPastEnd, ExpectsValue, ExpectsName, ExpectsType,
     ExpectsKey, Failed

LEMMA ValueSteps ==
  ASSUME ReaderNext, rstat = "run", RTop.what \notin {"names", "type"}, RTop.left > 0, RTop.left \in Nat,
         pos <= Len(stream), pos \in Nat, Len(stream) \in Nat, rstack # <<>>
  PROVE  \/ ReadScalar \/ ReadString \/ ReadReference \/ ReadLeaf \/ ReadArray \/ ReadNamedArray
         \/ ReadDict \/ ReadVector \/ ReadTraitReference \/ ReadTraits
         \/ /\ Failed
            /\ \/ Tok.t = "ref" /\ Tok.n >= Len(objTab) /\ Native
               \/ Tok.t = "traitref" /\ Tok.n >= Len(traitTab)
               \/ Unusable(Tok) \/ (IsString(Tok) /\ ~Tok.m)
<1>1. ~(pos > Len(stream)) /\ RTop.left # 0 OBVIOUS
<1>2. ExpectsValue /\ ~ExpectsName /\ ~ExpectsType /\ ~ExpectsKey /\ ~Complete(RTop)
  BY <1>1 DEF ExpectsValue, ExpectsName, ExpectsType, ExpectsKey, Complete, More
<1>3. ReadRaises => /\ Failed
                    /\ \/ Tok.t = "ref" /\ Tok.n >= Len(objTab) /\ Native
                       \/ Tok.t = "traitref" /\ Tok.n >= Len(traitTab)
                       \/ Unusable(Tok) \/ (IsString(Tok) /\ ~Tok.m)
  BY <1>2 DEF ReadRaises, Failed, BeyondEnd, Misplaced
<1>4. ~ReadTypeName /\ ~ReadName /\ ~ReadKey /\ ~ReadReturn /\ ~ReadDone /\ ~ReadPastEnd
  BY <1>1, <1>2 DEF ReadTypeName, ReadName, ReadKey, ReadReturn, ReadDone, ReadPastEnd
<1> QED BY <1>3, <1>4 DEF ReaderNext

LEMMA NameSteps ==
  ASSUME ReaderNext, rstat = "run", RTop.what \in {"names", "type"},
         pos <= Len(stream), pos \in Nat, Len(stream) \in Nat, rstack # <<>>,
         IsString(Tok), Tok.m = FALSE, ~Unusable(Tok)
  PROVE  IF RTop.what = "names" THEN ReadName ELSE ReadTypeName
<1>1. ~(pos > Len(stream)) OBVIOUS
<1>2. ~ExpectsValue /\ ~ExpectsKey /\ ~Complete(RTop)
  BY <1>1 DEF ExpectsValue, ExpectsKey, Complete
<1>3. Tok.t \notin {"ref", "traitref"} BY DEF IsString
<1> QED BY <1>1, <1>2, <1>3 DEF ReaderNext, ReadScalar, ReadString, ReadReference, ReadLeaf, ReadArray,
     ReadNamedArray, ReadDict, ReadVector, ReadTypeName, ReadTraitReference, ReadTraits, ReadName,
     ReadKey, ReadReturn, ReadDone, ReadRaises, ReadPastEnd, ExpectsName, ExpectsType, BeyondEnd, Misplaced

LEMMA KeySteps ==
  ASSUME ReaderNext, rstat = "run", RTop.what \in {"values", "entries"}, RTop.left = 0, RTop.dyn = TRUE,
         pos <= Len(stream), pos \in Nat, Len(stream) \in Nat, rstack # <<>>,
         IsString(Tok), Tok.m = FALSE, ~Unusable(Tok), StringRead(Tok) # None
  PROVE  ReadKey
<1>1. ~(pos > Len(stream)) OBVIOUS
<1>2. ~ExpectsValue /\ ~ExpectsName /\ ~ExpectsType /\ ~Complete(RTop) /\ ~NotAName
  BY <1>1 DEF ExpectsValue, ExpectsName, ExpectsType, Complete, NotAName
<1>3. Tok.t \notin {"ref", "traitref"} BY DEF IsString
<1> QED BY <1>1, <1>2, <1>3 DEF ReaderNext, ReadScalar, ReadString, ReadReference, ReadLeaf, ReadArray,
     ReadNamedArray, ReadDict, ReadVector, ReadTypeName, ReadTraitReference, ReadTraits, ReadName,
     ReadReturn, ReadDone, ReadRaises, ReadPastEnd, BeyondEnd, Misplaced

LEMMA ReturnSteps ==
  ASSUME ReaderNext, rstat = "run", Complete(RTop)
  PROVE  IF Len(rstack) = 1 THEN ReadDone ELSE ReadReturn
<1>1. ~ExpectsValue /\ ~ExpectsName /\ ~ExpectsType /\ ~ExpectsKey
  BY DEF ExpectsValue, ExpectsName, ExpectsType, ExpectsKey, Complete
<1> QED BY <1>1 DEF ReaderNext, ReadScalar, ReadString, ReadReference, ReadLeaf, ReadArray,
     ReadNamedArray, ReadDict, ReadVector, ReadTypeName, ReadTraitReference, ReadTraits, ReadName,
     ReadKey, ReadReturn, ReadDone, ReadRaises, ReadPastEnd

-----------------------------------------------------------------------------
(***************************************************************************)
(* A step of the reader follows one of the writer.                         *)
(***************************************************************************)
LEMMA MatchesNext ==
  ASSUME NEW t, t.stack # <<>>, ~Closed(t), pos' = Len(t.stream) + 1, pos' <= Len(stream') + 1,
         StringsMatch(t, strTab'), TraitsMatch(t, traitTab'), ObjectsMatch(t, objTab'),
         MadeMatches(t, made'), BelowMatches(t, rstack'), TopMatches(t, rstack')
  PROVE  Matches(t)'
BY DEF Matches

\* A function of the writer that owes values or names of properties.
LEMMA OnlyValues ==
  ASSUME NEW s, s.stack # <<>>, TopOf(s).names = <<>>, TopOf(s).src = FALSE,
         TopOf(s).left # 0 \/ TopOf(s).dyn # FALSE, NEW u, TopMatches(s, u)
  PROVE  AtValues(s, u)
BY DEF TopMatches, AtNames, AtSource, AtType, AtEnd, Naming

LEMMA TopIs ==
  ASSUME NEW s, Typed(s), s.stack # <<>>, NEW u, AtValues(s, u)
  PROVE  LET f == u[Len(u)]
             i == Len(s.stack)
         IN  /\ AtTop(s, f) /\ f.left = TopOf(s).left /\ f.dyn = TopOf(s).dyn
             /\ f.what = WhatOf(s, i) /\ f.what \in {"values", "entries"}
             /\ f.what = "entries" => Len(s.stack) > 1 /\ Pair(s, i - 1)
<1>1. Len(s.stack) \in Nat \ {0} /\ TopOf(s) = s.stack[Len(s.stack)] BY TopTypes
<1>2. FrameMatches(s, Len(s.stack), WhatOf(s, Len(s.stack)), u[Len(u)]) /\ ~Lags(s, Len(s.stack))
  BY <1>1 DEF AtValues, Held, Lags
<1>3. WhatOf(s, Len(s.stack)) \in {"values", "entries"} BY DEF WhatOf
<1>4. WhatOf(s, Len(s.stack)) = "entries" => Len(s.stack) > 1 /\ Pair(s, Len(s.stack) - 1)
  BY <1>1 DEF WhatOf, Pair
<1> QED BY <1>1, <1>2, <1>3, <1>4 DEF FrameMatches, AtTop

\* Its value is not what closes a list of entries.
LEMMA ServedOpen ==
  ASSUME NEW s, Typed(s), NEW t, Serves(s, t), Len(t.stack) = Len(s.stack), ~Closed(s)
  PROVE  ~Closed(t)
<1>1. /\ s.stack # <<>> /\ TopOf(t) = ServedOf(TopOf(s)) /\ TopOf(t).obj = TopOf(s).obj
  BY ServedTop
<1>2. TopOf(s) \in Frame /\ Len(s.stack) \in Nat \ {0} BY <1>1, TopTypes
<1>3. TopOf(t).dyn = TopOf(s).dyn BY <1>1, <1>2, ServedIs
<1>4. \A i \in 1 .. Len(s.stack) - 1 : t.stack[i] = s.stack[i] BY DEF Serves, SameBelow
<1>5. t.stack[Len(s.stack)].obj = s.stack[Len(s.stack)].obj BY <1>1 DEF TopOf
<1> SUFFICES ASSUME Closed(t) PROVE Closed(s) OBVIOUS
<1>6. Len(s.stack) > 1 /\ Pair(t, Len(s.stack) - 1) /\ TopOf(t).dyn = FALSE BY DEF Closed
<1>7. Len(s.stack) - 1 \in 1 .. Len(s.stack) - 1 /\ (Len(s.stack) - 1) + 1 = Len(s.stack)
  BY <1>2, <1>6
<1>8. Pair(s, Len(s.stack) - 1) BY <1>4, <1>5, <1>6, <1>7 DEF Pair
<1> QED BY <1>3, <1>6, <1>8 DEF Closed

\* The function at the top gets a value that is not new.
LEMMA Delivered ==
  ASSUME Faithful, ReaderInv, NEW s, WInv(s), NEW t, WInv(t), WStep(s, t), Earlier(s, t), Matches(s),
         NEW v \in Values, GivesPlain(s, t, v),
         NEW x \in ReaderValue, FlatSnap(t) => x = Decode(t, v),
         Deliver(x), Advance, objTab' = objTab, traitTab' = traitTab, StringsMatch(t, strTab'),
         pos = Len(t.stream), pos + 1 <= Len(stream) + 1
  PROVE  Matches(t)'
<1>0. /\ Typed(s) /\ Typed(t) /\ Serves(s, t) /\ Len(t.stack) = Len(s.stack) /\ Wants(s)
      /\ \A p \in Holder : Stores(s, t, v, p)
      /\ t.met = s.met /\ SameObjects(s, t) /\ SameTraits(s, t) /\ s.stack # <<>>
  BY DEF WInv, GivesPlain, Serves, Wants
<1>1. /\ t.stack # <<>> /\ TopOf(t) = ServedOf(TopOf(s)) /\ TopOf(t).obj = TopOf(s).obj
      /\ TopOf(t).names = <<>> /\ TopOf(t).src = FALSE
  BY <1>0, ServedTop
<1>2. Known(t) = Known(s) /\ Waiting(s) = 0 /\ Waiting(t) = 0 BY <1>0, KnownGiven
<1>3. /\ ~Pending(s) /\ ~Pending(t) /\ Unnamed(s) = 0 /\ Unnamed(t) = 0
  BY <1>0, <1>1, NotWaiting DEF Wants
<1>4. TopOf(s) \in Frame /\ TopOf(s).left \in Nat BY <1>0, TopTypes
<1>5. AtValues(s, rstack)
  <2>1. /\ TopOf(s).names = <<>> /\ TopOf(s).src = FALSE /\ TopOf(s).left # 0
        /\ TopMatches(s, rstack)
    BY <1>0, <1>4 DEF Matches, Wants
  <2> QED BY <1>0, <2>1, OnlyValues
<1>6. /\ AtTop(s, RTop) /\ RTop.left = TopOf(s).left /\ RTop.what \in {"values", "entries"}
  BY <1>0, <1>5, TopIs DEF RTop
<1>7. /\ rstack \in Seq(ReadFrame) /\ rstack # <<>> /\ RTop \in ReadFrame /\ Len(rstack) \in Nat \ {0}
  BY ReadTop
<1>8. PICK g : g = Taken(RTop, x) OBVIOUS
<1>9. /\ g \in ReadFrame /\ g.what = RTop.what /\ g.members = RTop.members /\ g.dyn = RTop.dyn
      /\ g.left = RTop.left - 1 /\ g.node = RTop.node /\ g.key = None
  BY <1>0, <1>4, <1>6, <1>7, <1>8, TakenType DEF Wants
<1>10. PICK u : u = rstack' OBVIOUS
<1>11. Len(u) = Len(rstack) /\ u[Len(rstack)] = g /\ \A i \in 1 .. Len(rstack) - 1 : u[i] = rstack[i]
  <2>1. u = Append(SubSeq(rstack, 1, Len(rstack) - 1), g) BY <1>8, <1>10 DEF Deliver, RBelow
  <2> QED BY <1>7, <1>9, <2>1, Replaced
<1>12. BelowMatches(t, u) /\ AtValues(t, u)
  <2>1. BelowMatches(s, rstack) BY DEF Matches
  <2>2. RTop = rstack[Len(rstack)] BY DEF RTop
  <2> QED BY <1>0, <1>5, <1>9, <1>11, <2>1, <2>2, HeldServed
<1>13. ~Closed(t) BY <1>0, ServedOpen DEF Matches
<1>14. MadeMatches(t, made')
  <2>1. made' = Stored(RTop, x) /\ Len(made') = Len(made)
    BY <1>7, StoredType DEF Deliver, ReaderInv, ReaderTypeOK
  <2>2. MadeMatches(s, made) BY DEF Matches
  <2>3. Len(made') = t.met - Waiting(t) BY <1>0, <1>2, <2>1, <2>2 DEF MadeMatches
  <2>4. \A i \in 1 .. Len(s.stack) : t.stack[i].obj = s.stack[i].obj
    BY <1>0, <1>1, TopTypes DEF Serves, SameBelow, TopOf
  <2>5. ASSUME NEW o \in Holder, Met(t, o) PROVE NodeMatches(t, o, made'[t.heap[o].nth])
    <3>1. Met(s, o) /\ Stores(s, t, v, o) BY <1>0, <2>5 DEF Stores, Met
    <3>2. LagsOn(t, o) <=> LagsOn(s, o) BY <1>0, <2>4, LagsStay
    <3> QED BY <1>0, <1>6, <1>7, <2>1, <2>2, <3>1, <3>2, NodeServed
  <2> QED BY <2>3, <2>5 DEF MadeMatches
<1>15. ObjectsMatch(t, objTab')
  <2>1. ObjectsMatch(s, objTab) BY DEF Matches
  <2>2. Extends(objTab, objTab)
    <3>1. Len(objTab) \in Nat BY Elements DEF ReaderInv, ReaderTypeOK
    <3> QED BY <3>1 DEF Extends
  <2>3. Len(objTab) = Known(t) BY <1>2, <2>1 DEF ObjectsMatch
  <2>4. \A o \in Obj : Met(t, o) => Met(s, o) /\ ~Pends(s, o)
    BY <1>0, <1>3 DEF Stores, Met, Pends, Holder
  <2> QED BY <2>1, <2>2, <2>3, <2>4, ObjectsFollow
<1>16. TraitsMatch(t, traitTab') BY <1>0, <1>3, TraitsStay DEF Matches
<1>17. pos' = Len(t.stream) + 1 /\ pos' <= Len(stream') + 1 BY DEF Advance
<1>18. BelowMatches(t, rstack') /\ TopMatches(t, rstack') BY <1>10, <1>12 DEF TopMatches
<1> QED BY <1>1, <1>13, <1>14, <1>15, <1>16, <1>17, <1>18, MatchesNext

Facing(s, t, F) ==
  /\ WInv(s) /\ WInv(t) /\ WStep(s, t) /\ Earlier(s, t)
  /\ F \in Seq(Token) /\ Extends(t.stream, F)
  /\ ReaderInv /\ stream \in Seq(Token) /\ Extends(stream, F)
  /\ rstat = "run" /\ ReaderNext /\ Matches(s)

\* The reader is where the writer was after the next step or the one after
\* that, or still where it was; or it has raised, or returned.
Follows(s, t, F) ==
  \/ Failed /\ (Len(stream) < Len(F) \/ ~FlatSnap(t))
  \/ /\ rstat' = rstat /\ stream' = stream
     /\ \/ Matches(s)' \/ Matches(t)'
        \/ Closed(t) /\ \A u : WInv(u) /\ WStep(t, u) => Matches(u)'
  \/ /\ rstat' = "done" /\ UNCHANGED <<pos, rstack, tables, made, stream>>
     /\ Returns(s, t) /\ Len(s.stack) = 1

\* What is read when a value is expected.
ReadsValue ==
  /\ Tok.t = "scalar" => ReadScalar
  /\ IsString(Tok) /\ Tok.m = TRUE /\ ~StringBeyondEnd(Tok) => ReadString
  /\ Tok.t = "ref" => ReadReference \/ (Failed /\ Tok.n >= Len(objTab))
  /\ Tok.t \in {"leaf", "xml"} => ReadLeaf
  /\ Tok.t = "array" => ReadArray
  /\ Tok.t = "named" => ReadNamedArray
  /\ Tok.t = "dict" => ReadDict
  /\ Tok.t = "vector" => ReadVector
  /\ Tok.t = "traitref" /\ ~(Tok.n >= Len(traitTab)) => ReadTraitReference
  /\ Tok.t = "traits" => ReadTraits

LEMMA ValueRead ==
  ASSUME ReaderInv, ReaderNext, rstat = "run", RTop.what \notin {"names", "type"}, RTop.left > 0,
         pos <= Len(stream), stream \in Seq(Token)
  PROVE  ReadsValue
<1>1. RTop.left \in Nat /\ rstack # <<>> /\ pos \in Nat /\ Len(stream) \in Nat
  BY ReadTop, FieldTypes, Elements DEF ReaderInv, ReaderTypeOK
<1>2. \/ ReadScalar \/ ReadString \/ ReadReference \/ ReadLeaf \/ ReadArray \/ ReadNamedArray
      \/ ReadDict \/ ReadVector \/ ReadTraitReference \/ ReadTraits
      \/ /\ Failed
         /\ \/ Tok.t = "ref" /\ Tok.n >= Len(objTab) /\ Native
            \/ Tok.t = "traitref" /\ Tok.n >= Len(traitTab)
            \/ Unusable(Tok) \/ (IsString(Tok) /\ ~Tok.m)
  BY <1>1, ValueSteps
<1>3. /\ ReadScalar => Tok.t = "scalar"
      /\ ReadString => IsString(Tok)
      /\ ReadReference => Tok.t = "ref"
      /\ ReadLeaf => Tok.t \in {"leaf", "xml"}
      /\ ReadArray => Tok.t = "array"
      /\ ReadNamedArray => Tok.t = "named"
      /\ ReadDict => Tok.t = "dict"
      /\ ReadVector => Tok.t = "vector"
      /\ ReadTraitReference => Tok.t = "traitref"
      /\ ReadTraits => Tok.t = "traits"
      /\ Unusable(Tok) => IsString(Tok) /\ StringBeyondEnd(Tok)
      /\ IsString(Tok) <=> Tok.t \in {"empty", "str", "strref"}
  BY DEF ReadScalar, ReadString, ReadReference, ReadLeaf, ReadArray, ReadNamedArray, ReadDict,
     ReadVector, ReadTraitReference, ReadTraits, Unusable, IsString
<1> QED BY <1>2, <1>3 DEF ReadsValue

\* The writer's next value is what the reader comes to next.
LEMMA ValueComes ==
  ASSUME NEW s, NEW t, NEW F, Facing(s, t, F), Wants(s), NEW tok \in Token, Says(s, t, tok)
  PROVE  \/ Failed /\ Len(stream) < Len(F)
         \/ /\ Tok = tok /\ pos = Len(t.stream) /\ pos + 1 <= Len(stream) + 1
            /\ pos <= Len(stream) /\ ReadsValue
<1>1. Typed(s) /\ WInv(s) /\ WInv(t) /\ ReaderInv /\ ReaderNext /\ rstat = "run" BY DEF Facing, WInv
<1>2. /\ pos = Len(t.stream) /\ pos \in Nat
      /\ pos <= Len(stream) => Tok = tok /\ pos + 1 <= Len(stream) + 1
      /\ ~(pos <= Len(stream)) => pos > Len(stream) /\ Len(stream) < Len(F)
  <2>1. /\ F \in Seq(Token) /\ Extends(t.stream, F) /\ stream \in Seq(Token) /\ Extends(stream, F)
        /\ pos = Len(s.stream) + 1 /\ pos <= Len(stream) + 1
    BY DEF Facing, Matches
  <2> QED BY <1>1, <2>1, NextToken
<1>3. AtValues(s, rstack)
  <2>1. /\ s.stack # <<>> /\ TopOf(s).names = <<>> /\ TopOf(s).src = FALSE /\ TopOf(s).left > 0
        /\ TopMatches(s, rstack)
    BY DEF Facing, Matches, Wants
  <2>2. TopOf(s).left # 0 BY <1>1, <2>1, TopTypes
  <2>3. TopMatches(s, rstack) BY <2>1
  <2> QED BY <2>1, <2>2, <2>3, OnlyValues
<1>4. RTop.left > 0 /\ RTop.what \in {"values", "entries"}
  BY <1>1, <1>3, TopIs DEF RTop, Wants
<1>5. CASE pos <= Len(stream)
  <2>1. stream \in Seq(Token) BY DEF Facing
  <2>2. ReadsValue BY <1>1, <1>4, <1>5, <2>1, ValueRead
  <2> QED BY <1>2, <1>5, <2>2
<1>6. CASE ~(pos <= Len(stream))
  <2>1. RTop.left \in Nat BY <1>1, ReadTop, FieldTypes
  <2>2. ~Complete(RTop) BY <1>4, <2>1 DEF Complete
  <2>3. Len(stream) \in Nat BY Elements DEF Facing
  <2> QED BY <1>1, <1>2, <1>6, <2>2, <2>3, Missing
<1> QED BY <1>5, <1>6

LEMMA FollowsPlain ==
  ASSUME Faithful, NEW s, NEW t, NEW F, Facing(s, t, F), NEW v \in Values, GivesPlain(s, t, v)
  PROVE  Follows(s, t, F)
<1>1. /\ WInv(s) /\ WInv(t) /\ WStep(s, t) /\ Earlier(s, t) /\ Typed(s) /\ Typed(t)
      /\ ReaderInv /\ rstat = "run" /\ Matches(s) /\ stream \in Seq(Token)
  BY DEF Facing, WInv
<1>2. Wants(s) BY DEF GivesPlain, Serves
<1>3. ASSUME NEW x \in ReaderValue, FlatSnap(t) => x = Decode(t, v), Deliver(x), Advance,
             objTab' = objTab, traitTab' = traitTab, StringsMatch(t, strTab'),
             pos = Len(t.stream), pos + 1 <= Len(stream) + 1
      PROVE  Follows(s, t, F)
  <2>1. Matches(t)' BY <1>1, <1>3, Delivered
  <2>2. rstat' = rstat /\ stream' = stream BY <1>3 DEF Advance
  <2> QED BY <2>1, <2>2 DEF Follows
<1>4. strTab \in Seq(Strings) /\ StringsMatch(s, strTab)
  BY <1>1 DEF Matches, ReaderInv, ReaderTypeOK
<1>5. CASE v \in Scalars /\ Says(s, t, ScalarTok(v)) /\ SameStrings(s, t)
  <2>1. ScalarTok(v) \in Token BY <1>5, TokenTypes
  <2>2. CASE Failed /\ Len(stream) < Len(F) BY <2>2 DEF Follows
  <2>3. CASE /\ Tok = ScalarTok(v) /\ pos = Len(t.stream) /\ pos + 1 <= Len(stream) + 1
             /\ ReadsValue
    <3>1. Tok.t = "scalar" /\ Tok.v = v BY <2>3 DEF ScalarTok
    <3>2. ReadScalar BY <2>3, <3>1 DEF ReadsValue
    <3>3. Deliver(v) /\ Advance /\ UNCHANGED tables BY <3>1, <3>2 DEF ReadScalar
    <3>4. v \notin Obj /\ v \in ReaderValue BY <1>5, StreamAssumption DEF ReaderValue
    <3>5. StringsMatch(t, strTab') BY <1>4, <1>5, <3>3, StringsStay DEF tables
    <3> QED BY <1>3, <2>3, <3>3, <3>4, <3>5 DEF tables, Decode
  <2> QED BY <1>2, <1>5, <2>1, <2>2, <2>3, ValueComes
<1>6. CASE v \in Strings /\ Puts(s, t, v, TRUE)
  <2>1. PICK tok \in Token : StringComes(s, t, tok, v, TRUE)
    <3>1. TRUE \in BOOLEAN OBVIOUS
    <3> QED BY <1>1, <1>4, <1>6, <3>1, StringGiven
  <2>2. CASE Failed /\ Len(stream) < Len(F) BY <2>2 DEF Follows
  <2>3. CASE /\ Tok = tok /\ pos = Len(t.stream) /\ pos + 1 <= Len(stream) + 1
             /\ ReadsValue
    <3>1. ReadString BY <2>1, <2>3 DEF ReadsValue, StringComes
    <3>2. /\ strTab' = StringTableAfter(Tok) /\ Deliver(StringRead(Tok)) /\ Advance
          /\ UNCHANGED <<objTab, traitTab>>
      BY <3>1 DEF ReadString
    <3>3. v \notin Obj /\ v \in ReaderValue BY <1>6, StreamAssumption DEF ReaderValue
    <3>4. StringRead(Tok) = v /\ StringsMatch(t, strTab') BY <2>1, <2>3, <3>2 DEF StringComes
    <3> QED BY <1>3, <2>3, <3>2, <3>3, <3>4 DEF Decode
  <2>4. Says(s, t, tok) BY <2>1 DEF StringComes
  <2> QED BY <1>2, <2>2, <2>3, <2>4, ValueComes
<1>7. CASE /\ v \in Obj /\ s.objCache[v] # NotCached
           /\ Says(s, t, RefTok(s.objCache[v])) /\ SameStrings(s, t)
  <2> DEFINE n == s.objCache[v]
  <2>0. n \in Nat BY <1>1, <1>7, SnapshotTypes DEF Index
  <2>1. RefTok(n) \in Token BY <2>0, TokenTypes
  <2>2. CASE Failed /\ Len(stream) < Len(F) BY <2>2 DEF Follows
  <2>3. CASE /\ Tok = RefTok(n) /\ pos = Len(t.stream) /\ pos + 1 <= Len(stream) + 1
             /\ ReadsValue
    <3>1. Tok.t = "ref" /\ Tok.n = n BY <2>3 DEF RefTok
    <3>2. FlatSnap(t) => n < Len(objTab) /\ ObjectAt(n) = Decode(t, v)
      <4> SUFFICES ASSUME FlatSnap(t) PROVE n < Len(objTab) /\ ObjectAt(n) = Decode(t, v)
        OBVIOUS
      <4>1. Met(s, v) /\ v \in Holder BY <1>1, <1>7 DEF WInv, Cached, Holder
      <4>2. Stores(s, t, v, v) BY <4>1 DEF GivesPlain
      <4>3. s.heap[v].depth = 0 /\ t.heap[v].nth = s.heap[v].nth
        BY <1>7, <4>2 DEF Stores, FlatSnap
      <4>4. ~Pends(s, v) BY <1>2, NotWaiting DEF Pends, Wants
      <4>5. Place(s, v) = n BY <2>0, <4>3 DEF Place
      <4>6. n \in 0 .. Len(objTab) - 1 /\ objTab[n + 1] = s.heap[v].nth
        BY <1>1, <1>7, <4>1, <4>4, <4>5 DEF Matches, ObjectsMatch
      <4>7. Len(objTab) \in Nat BY <1>1, Elements DEF ReaderInv, ReaderTypeOK
      <4>8. n < Len(objTab) BY <2>0, <4>6, <4>7
      <4> HIDE DEF n
      <4> QED BY <1>7, <4>3, <4>6, <4>8 DEF ObjectAt, Decode
    <3>3. ObjectAt(n) \in ReaderValue
      <4>1. objTab \in Seq(ReaderValue) BY <1>1 DEF ReaderInv, ReaderTypeOK
      <4>2. n < Len(objTab) => n + 1 \in 1 .. Len(objTab) BY <2>0, <4>1, Elements
      <4>3. n < Len(objTab) => objTab[n + 1] \in ReaderValue BY <4>1, <4>2, Elements
      <4> HIDE DEF n
      <4> QED BY <4>3 DEF ObjectAt, ReaderValue
    <3>4. CASE ReadReference
      <4>1. Deliver(ObjectAt(n)) /\ Advance /\ UNCHANGED tables BY <3>1, <3>4 DEF ReadReference
      <4>2. StringsMatch(t, strTab') BY <1>4, <1>7, <4>1, StringsStay DEF tables
      <4> HIDE DEF n
      <4> QED BY <1>3, <2>3, <3>2, <3>3, <4>1, <4>2 DEF tables
    <3>5. CASE Failed /\ Tok.n >= Len(objTab)
      <4>1. Len(objTab) \in Nat BY <1>1, Elements DEF ReaderInv, ReaderTypeOK
      <4>2. ~FlatSnap(t) BY <2>0, <3>1, <3>2, <3>5, <4>1
      <4> QED BY <3>5, <4>2 DEF Follows
    <3> QED BY <2>3, <3>1, <3>4, <3>5 DEF ReadsValue
  <2> QED BY <1>2, <1>7, <2>1, <2>2, <2>3, ValueComes
<1> QED BY <1>5, <1>6, <1>7 DEF GivesPlain

\* The reader makes a node for an object that the writer has met.
LEMMA NodeArrives ==
  ASSUME NEW t, WInv(t), ~Pending(t), NEW o \in Obj, Met(t, o), t.heap[o].kids = <<>>, ~LagsOn(t, o),
         NEW a \in Seq(ReadNode), t.heap[o].nth = Len(a) + 1, t.met = Len(a) + 1,
         \A p \in Holder \ {o} : Met(t, p) => NodeMatches(t, p, a[t.heap[p].nth]),
         NEW kind \in {"root", "leaf", "array", "object", "hash", "dict"},
         kind = ReadAs(t.heap[o].kind), NEW cls \in Strings \cup {None},
         t.heap[o].kind = "object" => cls = WireName(t.heap[o].tr)
  PROVE  MadeMatches(t, Append(a, MadeNode(kind, cls)))
<1>0. Typed(t) /\ Numbered(t) /\ o \in Holder BY DEF WInv, Holder
<1>1. PICK r : r = MadeNode(kind, cls) OBVIOUS
<1>2. r \in ReadNode /\ r.kind = kind /\ r.cls = cls /\ r.kids = <<>> BY <1>1 DEF MadeNode, ReadNode
<1>3. PICK b : b = Append(a, r) OBVIOUS
<1>4. Len(b) = Len(a) + 1 /\ b[Len(a) + 1] = r /\ \A i \in 1 .. Len(a) : b[i] = a[i]
  <2> HIDE DEF ReadNode
  <2> QED BY <1>2, <1>3, Appended
<1>5. Len(a) \in Nat BY Elements
<1>6. Waiting(t) = 0 /\ \A p \in Holder : ~Pends(t, p) BY DEF Waiting, Pends
<1>7. NodeMatches(t, o, b[t.heap[o].nth])
  <2>1. Lag(t, o) = 0 BY LagTypes
  <2>2. Len(r.kids) = 0 /\ Len(t.heap[o].kids) = 0 BY <1>2
  <2>3. Len(r.kids) = Len(t.heap[o].kids) - Lag(t, o) BY <2>1, <2>2
  <2> QED BY <1>2, <1>4, <2>2, <2>3 DEF NodeMatches
<1>8. ASSUME NEW p \in Holder, Met(t, p) PROVE NodeMatches(t, p, b[t.heap[p].nth])
  <2>1. CASE p = o BY <1>7, <2>1
  <2>2. CASE p # o
    <3>1. t.heap[p].nth \in 1 .. t.met /\ t.heap[p].nth # t.heap[o].nth
      BY <1>0, <1>8, <2>2 DEF Numbered
    <3>2. t.heap[p].nth \in 1 .. Len(a) BY <1>5, <3>1
    <3> QED BY <1>4, <1>8, <2>2, <3>2
  <2> QED BY <2>1, <2>2
<1>9. Len(b) = t.met - Waiting(t) BY <1>4, <1>5, <1>6
<1> QED BY <1>1, <1>3, <1>8, <1>9 DEF MadeMatches

\* And enters it.
LEMMA ObjectArrives ==
  ASSUME NEW s, WInv(s), NEW t, WInv(t), Earlier(s, t), NEW o \in Obj,
         objTab \in Seq(ReaderValue), ObjectsMatch(s, objTab),
         NEW x \in ReaderValue, x = t.heap[o].nth,
         Place(t, o) = Known(s), Known(t) = Known(s) + 1,
         \A p \in Obj \ {o} : Met(t, p) => Met(s, p) /\ ~Pends(s, p)
  PROVE  ObjectsMatch(t, Append(objTab, x))
<1>1. PICK u : u = Append(objTab, x) OBVIOUS
<1>2. /\ Len(u) = Len(objTab) + 1 /\ u[Len(objTab) + 1] = x
      /\ \A i \in 1 .. Len(objTab) : u[i] = objTab[i]
  <2> HIDE DEF ReaderValue
  <2> QED BY <1>1, Appended
<1>3. Len(objTab) \in Nat /\ Len(objTab) = Known(s) BY Elements DEF ObjectsMatch
<1>4. Extends(objTab, u) /\ Len(u) = Known(t) BY <1>2, <1>3 DEF Extends
<1>5. Place(t, o) \in 0 .. Len(u) - 1 /\ u[Place(t, o) + 1] = t.heap[o].nth BY <1>2, <1>3
<1>6. ObjectsMatch(t, u) BY <1>4, <1>5, ObjectsFollow
<1> QED BY <1>1, <1>6

\* Of all the others nothing is new.
LEMMA OnlyOne ==
  ASSUME NEW s, WInv(s), NEW t, Typed(t), NEW o \in Obj, Meets(s, t, o)
  PROVE  /\ \A p \in Holder \ {o} : (Met(t, p) <=> Met(s, p)) /\ Stores(s, t, o, p)
         /\ ~Pending(s) /\ \A p \in Holder : ~Pends(s, p)
         /\ Met(t, o) /\ t.heap[o].kids = <<>> /\ Wants(s) /\ Serves(s, t)
         /\ Waiting(s) = 0 /\ Unnamed(s) = 0
<1>1. Serves(s, t) /\ Wants(s) BY DEF Meets, Serves
<1>2. ~Pending(s) /\ Waiting(s) = 0 /\ Unnamed(s) = 0 BY <1>1, NotWaiting DEF Wants
<1>3. \A p \in Holder \ {o} : (Met(t, p) <=> Met(s, p)) /\ Stores(s, t, o, p)
  BY DEF Meets, Stores, Met
<1>4. Met(t, o) /\ t.heap[o].kids = <<>> BY DEF Meets, Met
<1> QED BY <1>1, <1>2, <1>3, <1>4 DEF Pends

\* A date, a byte array or XML.
LEMMA FollowsLeaf ==
  ASSUME Faithful, NEW s, NEW t, NEW F, Facing(s, t, F), NEW o \in Obj, GivesLeaf(s, t, o)
  PROVE  Follows(s, t, F)
<1>1. /\ WInv(s) /\ WInv(t) /\ WStep(s, t) /\ Earlier(s, t) /\ Typed(s) /\ Typed(t)
      /\ ReaderInv /\ rstat = "run" /\ Matches(s) /\ stream \in Seq(Token)
      /\ Numbered(s) /\ Path(s)
  BY DEF Facing, WInv
<1>2. /\ Meets(s, t, o) /\ Len(t.stack) = Len(s.stack) /\ t.heap[o].kind = "leaf" /\ SameTraits(s, t)
      /\ t.met = s.met + 1 /\ t.heap[o].nth = s.met + 1 /\ ~Met(s, o)
  BY DEF GivesLeaf, Meets
<1>3. /\ \A p \in Holder \ {o} : (Met(t, p) <=> Met(s, p)) /\ Stores(s, t, o, p)
      /\ ~Pending(s) /\ \A p \in Holder : ~Pends(s, p)
      /\ Met(t, o) /\ t.heap[o].kids = <<>> /\ Wants(s) /\ Serves(s, t)
      /\ Waiting(s) = 0 /\ Unnamed(s) = 0
  BY <1>1, <1>2, OnlyOne
<1>4. PICK tok \in Token : /\ Says(s, t, tok) /\ tok.t \in {"leaf", "xml"}
                           /\ tok.t = "xml" => tok.n > 0
  <2>1. CASE Says(s, t, LeafTok) BY <2>1, TokenTypes DEF LeafTok
  <2>2. CASE \E n \in Nat \ {0} : Says(s, t, XmlTok(n)) BY <2>2, TokenTypes DEF XmlTok
  <2> QED BY <2>1, <2>2 DEF GivesLeaf
<1>5. CASE Failed /\ Len(stream) < Len(F) BY <1>5 DEF Follows
<1>6. CASE /\ Tok = tok /\ pos = Len(t.stream) /\ pos + 1 <= Len(stream) + 1 /\ ReadsValue
  <2> DEFINE n == Len(made) + 1
  <2>1. ReadLeaf /\ Entered(Tok) BY <1>4, <1>6 DEF ReadsValue, Entered
  <2>2. /\ objTab' = Append(objTab, n)
        /\ made' = Append(Stored(RTop, n), MadeNode("leaf", None))
        /\ rstack' = Append(RBelow, Taken(RTop, n))
        /\ Advance /\ strTab' = strTab /\ traitTab' = traitTab
    BY <2>1 DEF ReadLeaf
  <2>3. /\ made \in Seq(ReadNode) /\ objTab \in Seq(ReaderValue) /\ MadeMatches(s, made)
        /\ ObjectsMatch(s, objTab) /\ StringsMatch(s, strTab) /\ TraitsMatch(s, traitTab)
        /\ BelowMatches(s, rstack)
    BY <1>1 DEF Matches, ReaderInv, ReaderTypeOK
  <2>4. Len(made) \in Nat /\ Len(made) = s.met BY <1>1, <1>3, <2>3, Elements, SnapshotTypes DEF MadeMatches
  <2>5. n \in ReaderValue /\ n = t.heap[o].nth /\ n = Decode(t, o) /\ n = t.met
    BY <1>2, <2>4 DEF ReaderValue, Decode
  <2>6. /\ rstack \in Seq(ReadFrame) /\ rstack # <<>> /\ RTop \in ReadFrame
        /\ Len(rstack) \in Nat \ {0} /\ RTop = rstack[Len(rstack)]
    BY <1>1, ReadTop DEF RTop
  <2> HIDE DEF n
  <2>7. TopOf(s).left \in Nat /\ TopOf(s).left > 0 /\ s.stack # <<>> /\ TopOf(s) \in Frame
    BY <1>1, <1>3, TopTypes DEF Wants
  <2>8. AtValues(s, rstack)
    <3>1. TopMatches(s, rstack) /\ TopOf(s).left # 0 BY <1>1, <2>7 DEF Matches
    <3> QED BY <1>3, <2>7, <3>1, OnlyValues DEF Wants
  <2>9. AtTop(s, RTop) /\ RTop.left = TopOf(s).left BY <1>1, <2>6, <2>7, <2>8, TopIs
  <2>10. PICK g : g = Taken(RTop, n) OBVIOUS
  <2>11. /\ g \in ReadFrame /\ g.what = RTop.what /\ g.members = RTop.members /\ g.dyn = RTop.dyn
         /\ g.left = RTop.left - 1 /\ g.node = RTop.node /\ g.key = None
    BY <2>5, <2>6, <2>7, <2>9, <2>10, TakenType DEF AtTop
  <2>12. PICK u : u = rstack' OBVIOUS
  <2>13. Len(u) = Len(rstack) /\ u[Len(rstack)] = g /\ \A i \in 1 .. Len(rstack) - 1 : u[i] = rstack[i]
    <3>1. u = Append(SubSeq(rstack, 1, Len(rstack) - 1), g) BY <2>2, <2>10, <2>12 DEF RBelow
    <3> QED BY <2>6, <2>11, <3>1, Replaced
  <2>14. BelowMatches(t, u) /\ AtValues(t, u)
    BY <1>1, <1>2, <1>3, <2>3, <2>6, <2>8, <2>11, <2>13, HeldServed
  <2>15. /\ t.stack # <<>> /\ TopOf(t) = ServedOf(TopOf(s)) /\ TopOf(t).obj = TopOf(s).obj
         /\ TopOf(t).names = <<>> /\ TopOf(t).src = FALSE
    BY <1>1, <1>2, <1>3, ServedTop
  <2>16. ~Pending(t) /\ Waiting(t) = 0 /\ Unnamed(t) = 0 BY <2>15, NotWaiting
  <2>17. \A i \in 1 .. Len(s.stack) : t.stack[i].obj = s.stack[i].obj
    <3>1. Len(s.stack) \in Nat \ {0} BY <1>1, <2>7, TopTypes
    <3>2. SameBelow(s, t) /\ Len(t.stack) = Len(s.stack) BY <1>2, <1>3 DEF Serves
    <3>3. t.stack[Len(s.stack)].obj = s.stack[Len(s.stack)].obj BY <2>15, <3>2 DEF TopOf
    <3> QED BY <3>1, <3>2, <3>3 DEF SameBelow
  <2>18. \A p : LagsOn(t, p) <=> LagsOn(s, p) BY <1>1, <1>2, <2>17, LagsStay
  <2>19. MadeMatches(t, made')
    <3> DEFINE a == Stored(RTop, n)
    <3>1. a \in Seq(ReadNode) /\ Len(a) = Len(made) BY <2>3, <2>5, <2>6, StoredType
    <3>2. ASSUME NEW p \in Holder \ {o}, Met(t, p) PROVE NodeMatches(t, p, a[t.heap[p].nth])
      <4>1. p \in Holder /\ Met(s, p) /\ Stores(s, t, o, p) /\ o \in Values
        BY <1>3, <3>2 DEF Values
      <4> QED BY <1>1, <1>3, <2>3, <2>5, <2>6, <2>9, <2>18, <4>1, NodeServed
    <3>3. ~LagsOn(t, o)
      <4>1. \A i \in 1 .. Len(s.stack) : s.stack[i].obj # o BY <1>1, <1>2 DEF Path
      <4>2. Len(s.stack) \in Nat BY <1>1, SnapshotTypes
      <4>3. ~LagsOn(s, o) BY <4>1, <4>2 DEF LagsOn
      <4> QED BY <2>18, <4>3
    <3>4. t.heap[o].nth = Len(a) + 1 /\ t.met = Len(a) + 1 BY <1>2, <2>4, <3>1
    <3>5. "leaf" = ReadAs(t.heap[o].kind) /\ t.heap[o].kind # "object" BY <1>2 DEF ReadAs
    <3> HIDE DEF a
    <3>6. MadeMatches(t, Append(a, MadeNode("leaf", None)))
      BY <1>1, <1>3, <2>16, <3>1, <3>2, <3>3, <3>4, <3>5, NodeArrives
    <3> QED BY <2>2, <3>6 DEF a
  <2>20. ObjectsMatch(t, objTab')
    <3>1. GivesNew(s, t, o) BY DEF GivesNew
    <3>2. Known(t) = Known(s) + 1 - Waiting(t) /\ Place(t, o) = Known(s)
      BY <1>1, <3>1, KnownNew
    <3>3. Known(t) = Known(s) + 1 BY <1>1, <2>16, <3>2, KnownTypes
    <3>4. \A p \in Obj \ {o} : Met(t, p) => Met(s, p) /\ ~Pends(s, p) BY <1>3 DEF Holder
    <3>5. ObjectsMatch(t, Append(objTab, n))
      BY <1>1, <2>3, <2>5, <3>2, <3>3, <3>4, ObjectArrives
    <3> QED BY <2>2, <3>5
  <2>21. StringsMatch(t, strTab') BY <1>2, <2>2, <2>3, StringsStay DEF Meets
  <2>22. TraitsMatch(t, traitTab') BY <1>2, <1>3, <2>2, <2>3, <2>16, TraitsStay
  <2>23. ~Closed(t) BY <1>1, <1>2, <1>3, ServedOpen DEF Matches
  <2>24. pos' = Len(t.stream) + 1 /\ pos' <= Len(stream') + 1 /\ rstat' = rstat /\ stream' = stream
    BY <1>6, <2>2 DEF Advance
  <2>25. BelowMatches(t, rstack') /\ TopMatches(t, rstack') BY <2>12, <2>14 DEF TopMatches
  <2>26. Matches(t)' BY <2>15, <2>19, <2>20, <2>21, <2>22, <2>23, <2>24, <2>25, MatchesNext
  <2> QED BY <2>24, <2>26 DEF Follows
<1> QED BY <1>3, <1>4, <1>5, <1>6, ValueComes

\* The writer has gone on to the frames of a new object.
LEMMA Pushed ==
  ASSUME ReaderInv, NEW s, WInv(s), NEW t, WInv(t), WStep(s, t), Earlier(s, t), Matches(s),
         NEW o \in Obj, Meets(s, t, o), t.stack[Len(s.stack) + 1].obj = o,
         \/ Len(t.stack) = Len(s.stack) + 1
         \/ Len(t.stack) = Len(s.stack) + 2 /\ t.stack[Len(s.stack) + 2].obj = o,
         NEW v, \A j \in 1 .. Len(rstack) : v[j] = rstack[j]
  PROVE  /\ \A i \in 1 .. Len(s.stack) : Held(t, i, v)
         /\ Ground(t, Len(s.stack) + 1) = Len(rstack) + 1
         /\ \A p \in Holder \ {o} : Met(t, p) => NodeMatches(t, p, made[t.heap[p].nth])
         /\ ~LagsOn(t, o) /\ ~Pair(t, Len(s.stack)) /\ Len(s.stack) \in Nat \ {0}
         /\ Len(t.stack) = Len(s.stack) + 2 => Pair(t, Len(s.stack) + 1)
         /\ t.stack # <<>> /\ TopOf(t).obj = o
         /\ t.heap[o].nth = Len(made) + 1 /\ t.met = Len(made) + 1 /\ Len(made) = s.met
<1>1. /\ Typed(s) /\ Typed(t) /\ ~Met(s, o) /\ t.met = s.met + 1 /\ t.heap[o].nth = s.met + 1
      /\ made \in Seq(ReadNode) /\ MadeMatches(s, made) /\ BelowMatches(s, rstack)
      /\ TopMatches(s, rstack)
  BY DEF WInv, Meets, Matches, ReaderInv, ReaderTypeOK
<1>2. /\ \A p \in Holder \ {o} : (Met(t, p) <=> Met(s, p)) /\ Stores(s, t, o, p)
      /\ \A p \in Holder : ~Pends(s, p)
      /\ Wants(s) /\ Serves(s, t) /\ Waiting(s) = 0
  BY <1>1, OnlyOne
<1>3. s.stack # <<>> /\ TopOf(s).left > 0 /\ TopOf(s).names = <<>> /\ TopOf(s).src = FALSE
  BY <1>2 DEF Wants
<1>4. Len(s.stack) \in Nat \ {0} /\ TopOf(s).left # 0 BY <1>1, <1>3, TopTypes
<1>5. AtValues(s, rstack) BY <1>1, <1>3, <1>4, OnlyValues
<1>6. Stands(s, t) BY <1>2, ServesStands
<1>7. Len(t.stack) >= Len(s.stack) + 1 BY <1>4
<1>8. /\ \A i \in 1 .. Len(s.stack) : Held(t, i, v)
      /\ Ground(t, Len(s.stack) + 1) = Len(rstack) + 1
  BY <1>1, <1>5, <1>7, HeldPushed
<1>9. /\ \A p : LagsOn(t, p) <=> LagsOn(s, p) \/ p = TopOf(s).obj
      /\ ~Pair(t, Len(s.stack))
      /\ Len(t.stack) = Len(s.stack) + 2 => Pair(t, Len(s.stack) + 1)
  BY <1>1, <1>3, <1>6, LagsGrow
<1>10. ASSUME NEW p \in Holder \ {o}, Met(t, p) PROVE NodeMatches(t, p, made[t.heap[p].nth])
  <2>1. p \in Holder /\ Met(s, p) /\ Stores(s, t, o, p) /\ o \in Values BY <1>2, <1>10 DEF Values
  <2>2. s.heap[p].nth \in 1 .. Len(made) BY <1>1, <1>2, <2>1, NodeRange
  <2>3. made[s.heap[p].nth] \in ReadNode BY <1>1, <2>2, Elements
  <2>4. NodeMatches(s, p, made[s.heap[p].nth]) BY <1>1, <1>2, <2>1 DEF MadeMatches
  <2>5. t.heap[p].nth = s.heap[p].nth BY <2>1 DEF Stores
  <2>6. NodeMatches(t, p, made[s.heap[p].nth]) BY <1>3, <1>9, <2>1, <2>3, <2>4, NodePushed
  <2> QED BY <2>5, <2>6
<1>11. t.stack # <<>> /\ TopOf(t).obj = o BY <1>1, <1>4, <1>7, SnapshotTypes DEF TopOf
<1>12. ~LagsOn(t, o) BY <1>11, TopNotLagging
<1>13. Len(made) = s.met
  <2>1. Len(made) = s.met - Waiting(s) /\ s.met \in Nat BY <1>1, SnapshotTypes DEF MadeMatches
  <2> QED BY <1>2, <2>1
<1> QED BY <1>1, <1>4, <1>8, <1>9, <1>10, <1>11, <1>12, <1>13

\* And the reader has made a node for it.
LEMMA Opened1 ==
  ASSUME ReaderInv, NEW s, WInv(s), NEW t, WInv(t), WStep(s, t), Earlier(s, t), Matches(s),
         NEW o \in Obj, Meets(s, t, o), GivesNew(s, t, o), ~Pending(t), Unnamed(t) = 0,
         SameTraits(s, t), t.stack # <<>>, ~Closed(t), ~LagsOn(t, o),
         \A p \in Holder \ {o} : Met(t, p) => NodeMatches(t, p, made[t.heap[p].nth]),
         t.heap[o].nth = Len(made) + 1, t.met = Len(made) + 1,
         NEW kind \in {"root", "leaf", "array", "object", "hash", "dict"},
         kind = ReadAs(t.heap[o].kind), NEW cls \in Strings \cup {None},
         t.heap[o].kind = "object" => cls = WireName(t.heap[o].tr),
         objTab' = Append(objTab, Len(made) + 1), made' = Append(made, MadeNode(kind, cls)),
         strTab' = strTab, traitTab' = traitTab, Advance,
         pos = Len(t.stream), pos + 1 <= Len(stream) + 1,
         BelowMatches(t, rstack'), TopMatches(t, rstack')
  PROVE  Matches(t)'
<1>1. /\ Typed(s) /\ Typed(t) /\ made \in Seq(ReadNode) /\ objTab \in Seq(ReaderValue)
      /\ ObjectsMatch(s, objTab) /\ StringsMatch(s, strTab) /\ TraitsMatch(s, traitTab)
  BY DEF WInv, Matches, ReaderInv, ReaderTypeOK
<1>2. /\ \A p \in Holder \ {o} : Met(t, p) <=> Met(s, p)
      /\ \A p \in Holder : ~Pends(s, p)
      /\ Met(t, o) /\ t.heap[o].kids = <<>> /\ Unnamed(s) = 0
  BY <1>1, OnlyOne
<1>3. MadeMatches(t, made') BY <1>1, <1>2, NodeArrives
<1>4. ObjectsMatch(t, objTab')
  <2>1. Waiting(t) = 0 BY DEF Waiting
  <2>2. Known(t) = Known(s) + 1 - Waiting(t) /\ Place(t, o) = Known(s) /\ Known(s) \in Int
    BY <1>1, KnownNew, KnownTypes
  <2>3. Known(t) = Known(s) + 1 BY <2>1, <2>2
  <2>4. \A p \in Obj \ {o} : Met(t, p) => Met(s, p) /\ ~Pends(s, p) BY <1>2 DEF Holder
  <2>5. PICK n : n = Len(made) + 1 OBVIOUS
  <2>6. n \in ReaderValue BY <1>1, <2>5, Elements DEF ReaderValue
  <2>7. ObjectsMatch(t, Append(objTab, n))
    BY <1>1, <2>2, <2>3, <2>4, <2>5, <2>6, ObjectArrives
  <2> QED BY <2>5, <2>7
<1>5. StringsMatch(t, strTab') BY <1>1, StringsStay DEF Meets
<1>6. TraitsMatch(t, traitTab') BY <1>1, <1>2, TraitsStay
<1>7. pos' = Len(t.stream) + 1 /\ pos' <= Len(stream') + 1 BY DEF Advance
<1> QED BY <1>3, <1>4, <1>5, <1>6, <1>7, MatchesNext

\* The frames of the new object.
LEMMA NewTop ==
  ASSUME NEW t, Typed(t), NEW o \in Obj, Len(t.stack) >= 1, TopOf(t).obj = o,
         t.heap[o].kind # "ac", NEW u, Len(u) = Ground(t, Len(t.stack)),
         NEW what, TopOf(t).src = FALSE,
         u[Len(u)].what = what, u[Len(u)].node = t.heap[o].nth,
         u[Len(u)].left = TopOf(t).left, u[Len(u)].members = TopOf(t).members,
         u[Len(u)].dyn = TopOf(t).dyn, u[Len(u)].key = TopOf(t).key
  PROVE  /\ FrameMatches(t, Len(t.stack), what, u[Len(u)]) /\ Len(u) = Seat(t, Len(t.stack))
         /\ TopOf(t).names = <<>> /\ what = WhatOf(t, Len(t.stack)) => AtValues(t, u)
         /\ TopOf(t).names # <<>> /\ t.heap[o].kind = "vector" /\ what = "type" => AtType(t, u)
<1>1. Len(t.stack) \in Nat \ {0} /\ Len(t.stack) \in 1 .. Len(t.stack) /\ TopOf(t) = t.stack[Len(t.stack)]
  BY SnapshotTypes DEF TopOf
<1>2. ~Lags(t, Len(t.stack)) BY DEF Lags
<1>3. FrameMatches(t, Len(t.stack), what, u[Len(u)]) BY <1>1, <1>2 DEF FrameMatches
<1>4. Len(u) = Seat(t, Len(t.stack)) BY <1>1, SeatTypes
<1>5. what = WhatOf(t, Len(t.stack)) => Held(t, Len(t.stack), u) BY <1>1, <1>3, <1>4 DEF Held
<1> QED BY <1>1, <1>3, <1>4, <1>5 DEF AtValues, AtType

\* An array, a dictionary or a vector.
LEMMA FollowsFilled ==
  ASSUME Faithful, NEW s, NEW t, NEW F, Facing(s, t, F), NEW o \in Obj, NEW n \in Nat, NEW left \in Nat,
         NEW names \in Seq(Strings), NEW tok \in Token, GivesFilled(s, t, o, n, left, names, tok)
  PROVE  Follows(s, t, F)
<1> DEFINE L == Len(s.stack)
           f == NewFrame(o, names, FALSE, left, <<>>, FALSE)
<1>1. /\ WInv(s) /\ WInv(t) /\ WStep(s, t) /\ Earlier(s, t) /\ Typed(s) /\ Typed(t)
      /\ ReaderInv /\ rstat = "run" /\ Matches(s) /\ stream \in Seq(Token)
  BY DEF Facing, WInv
<1>2. /\ Meets(s, t, o) /\ Len(t.stack) = L + 1 /\ t.stack[L + 1] = f /\ Says(s, t, tok)
      /\ Filling(t.heap[o].kind, n, left, names, tok) /\ SameTraits(s, t) /\ Wants(s)
      /\ GivesNew(s, t, o)
  BY DEF GivesFilled, Pushes, Meets, Serves, GivesNew
<1>3. /\ f.obj = o /\ f.names = names /\ f.src = FALSE /\ f.left = left
      /\ f.members = <<>> /\ f.dyn = FALSE /\ f.key = None
  BY DEF NewFrame
<1> HIDE DEF f
<1>4. CASE Failed /\ Len(stream) < Len(F) BY <1>4 DEF Follows
<1>5. CASE /\ Tok = tok /\ pos = Len(t.stream) /\ pos + 1 <= Len(stream) + 1 /\ ReadsValue
  <2> DEFINE x == Len(made) + 1
  <2>1. PICK kind, r :
          /\ kind \in {"array", "dict"} /\ kind = ReadAs(t.heap[o].kind) /\ Open(kind, <<r>>)
          /\ t.heap[o].kind \in {"array", "dict", "vector"}
          /\ IF t.heap[o].kind = "vector" THEN r = TypeFrame(x, left) /\ names = <<TypeName>>
             ELSE r = ValuesFrame(x, left) /\ names = <<>>
    <3>1. CASE t.heap[o].kind = "array"
      <4>1. left = n /\ names = <<>> /\ tok.t = "array" /\ tok.n = n
        BY <1>2, <3>1 DEF Filling, ArrayTok
      <4>2. Open("array", <<ValuesFrame(x, left)>>) BY <1>5, <4>1 DEF ReadsValue, ReadArray, NewNode
      <4> QED BY <3>1, <4>1, <4>2 DEF ReadAs
    <3>2. CASE t.heap[o].kind = "dict"
      <4>1. left = 2 * n /\ names = <<>> /\ tok.t = "dict" /\ tok.n = n
        BY <1>2, <3>2 DEF Filling, DictTok
      <4>2. Open("dict", <<ValuesFrame(x, left)>>) BY <1>5, <4>1 DEF ReadsValue, ReadDict, NewNode
      <4> QED BY <3>2, <4>1, <4>2 DEF ReadAs
    <3>3. CASE t.heap[o].kind = "vector"
      <4>1. left = n /\ names = <<TypeName>> /\ tok.t = "vector" /\ tok.n = n
        BY <1>2, <3>3 DEF Filling, VectorTok
      <4>2. Open("array", <<TypeFrame(x, left)>>)
        BY <1>5, <4>1 DEF ReadsValue, ReadVector, NewNode, TypeFrame
      <4> QED BY <3>3, <4>1, <4>2 DEF ReadAs
    <3> QED BY <1>2, <3>1, <3>2, <3>3 DEF Filling
  <2>2. /\ objTab' = Append(objTab, x) /\ made' = Append(made, MadeNode(kind, None))
        /\ rstack' = rstack \o <<r>> /\ Advance /\ strTab' = strTab /\ traitTab' = traitTab
    BY <2>1 DEF Open, NewNode
  <2>3. /\ rstack \in Seq(ReadFrame) /\ Len(rstack) \in Nat /\ made \in Seq(ReadNode)
        /\ Len(made) \in Nat
    BY <1>1, Elements DEF ReaderInv, ReaderTypeOK
  <2>4. x \in ReaderValue BY <2>3 DEF ReaderValue
  <2>5. Called(r, IF t.heap[o].kind = "vector" THEN "type" ELSE "values", x, left, <<>>, FALSE)
    BY <2>1, <2>4, CalledType
  <2> DEFINE what == IF t.heap[o].kind = "vector" THEN "type" ELSE "values"
  <2>6. /\ r \in ReadFrame /\ r.what = what /\ r.node = x /\ r.left = left /\ r.members = <<>>
        /\ r.dyn = FALSE /\ r.key = None
    BY <2>5 DEF Called
  <2>7. PICK u : u = rstack \o <<r>> OBVIOUS
  <2>8. Len(u) = Len(rstack) + 1 /\ u[Len(u)] = r /\ \A j \in 1 .. Len(rstack) : u[j] = rstack[j]
    BY <2>3, <2>6, <2>7, OneMore
  <2>9. /\ \A i \in 1 .. Len(s.stack) : Held(t, i, u)
        /\ Ground(t, Len(s.stack) + 1) = Len(rstack) + 1
        /\ \A p \in Holder \ {o} : Met(t, p) => NodeMatches(t, p, made[t.heap[p].nth])
        /\ ~LagsOn(t, o) /\ ~Pair(t, Len(s.stack)) /\ Len(s.stack) \in Nat \ {0}
        /\ t.stack # <<>> /\ TopOf(t).obj = o
        /\ t.heap[o].nth = Len(made) + 1 /\ t.met = Len(made) + 1
    <3>1. Meets(s, t, o) /\ Len(t.stack) = Len(s.stack) + 1 /\ t.stack[Len(s.stack) + 1].obj = o
      BY <1>2, <1>3
    <3>2. /\ WInv(s) /\ WInv(t) /\ WStep(s, t) /\ Earlier(s, t) /\ ReaderInv /\ Matches(s)
          /\ \/ Len(t.stack) = Len(s.stack) + 1
             \/ Len(t.stack) = Len(s.stack) + 2 /\ t.stack[Len(s.stack) + 2].obj = o
          /\ \A j \in 1 .. Len(rstack) : u[j] = rstack[j]
      BY <1>1, <2>8, <3>1
    <3> QED BY <3>1, <3>2, Pushed
  <2>10. TopOf(t) = f BY <1>2 DEF TopOf
  <2>11. /\ ~Pending(t) /\ Unnamed(t) = 0
    BY <1>3, <2>1, <2>10 DEF Pending, Unnamed, Naming
  <2>12. ~Closed(t)
    <3>1. Len(t.stack) - 1 = Len(s.stack) BY <1>2, <2>9
    <3> QED BY <2>9, <3>1 DEF Closed
  <2>13. BelowMatches(t, u)
    <3>1. Len(t.stack) - 1 = Len(s.stack) BY <1>2, <2>9
    <3> QED BY <2>9, <3>1 DEF BelowMatches
  <2>14. TopMatches(t, u)
    <3>1. WhatOf(t, Len(t.stack)) = "values"
      <4>1. Len(t.stack) - 1 = Len(s.stack) /\ (Len(t.stack) - 1) + 1 = Len(t.stack) BY <1>2, <2>9
      <4> QED BY <2>9, <4>1 DEF WhatOf, Pair
    <3>2. Len(u) = Ground(t, Len(t.stack)) BY <1>2, <2>8, <2>9
    <3>3. Len(t.stack) >= 1 /\ t.heap[o].kind # "ac" BY <1>2, <2>1, <2>9
    <3>4. /\ u[Len(u)].what = what /\ u[Len(u)].node = t.heap[o].nth
          /\ u[Len(u)].left = TopOf(t).left /\ u[Len(u)].members = TopOf(t).members
          /\ u[Len(u)].dyn = TopOf(t).dyn /\ u[Len(u)].key = TopOf(t).key /\ TopOf(t).src = FALSE
      BY <1>3, <2>6, <2>8, <2>9, <2>10
    <3> HIDE DEF what
    <3>5. /\ TopOf(t).names = <<>> /\ what = WhatOf(t, Len(t.stack)) => AtValues(t, u)
          /\ TopOf(t).names # <<>> /\ t.heap[o].kind = "vector" /\ what = "type" => AtType(t, u)
      BY <1>1, <2>9, <3>2, <3>3, <3>4, NewTop
    <3>6. CASE t.heap[o].kind = "vector"
      <4>0. <<TypeName>> # <<>> OBVIOUS
      <4>1. names # <<>> /\ what = "type" BY <2>1, <3>6, <4>0 DEF what
      <4> QED BY <1>3, <2>10, <3>5, <3>6, <4>1 DEF TopMatches
    <3>7. CASE t.heap[o].kind # "vector"
      <4>1. names = <<>> /\ what = "values" BY <2>1, <3>7 DEF what
      <4> QED BY <1>3, <2>10, <3>1, <3>5, <4>1 DEF TopMatches
    <3> QED BY <3>6, <3>7
  <2>15. /\ kind \in {"root", "leaf", "array", "object", "hash", "dict"} /\ t.heap[o].kind # "object"
    BY <2>1
  <2>16. BelowMatches(t, rstack') /\ TopMatches(t, rstack') BY <2>2, <2>7, <2>13, <2>14
  <2>17. Matches(t)'
    BY <1>1, <1>2, <1>5, <2>1, <2>2, <2>9, <2>11, <2>12, <2>15, <2>16, Opened1
  <2>18. rstat' = rstat /\ stream' = stream BY <2>2 DEF Advance
  <2> QED BY <2>17, <2>18 DEF Follows
<1> QED BY <1>2, <1>4, <1>5, ValueComes

\* An array with entries before its values.
LEMMA FollowsNamed ==
  ASSUME Faithful, NEW s, NEW t, NEW F, Facing(s, t, F), NEW o \in Obj, NEW len \in Nat,
         GivesNamed(s, t, o, len)
  PROVE  Follows(s, t, F)
<1> DEFINE f == NewFrame(o, <<>>, FALSE, len, <<>>, FALSE)
           g == NewFrame(o, <<>>, FALSE, 0, <<>>, TRUE)
           tok == NamedArrayTok(len)
<1>1. /\ WInv(s) /\ WInv(t) /\ WStep(s, t) /\ Earlier(s, t) /\ Typed(s) /\ Typed(t)
      /\ ReaderInv /\ rstat = "run" /\ Matches(s) /\ stream \in Seq(Token)
  BY DEF Facing, WInv
<1>2. /\ Meets(s, t, o) /\ Len(t.stack) = Len(s.stack) + 2 /\ t.heap[o].kind = "hash"
      /\ t.stack[Len(s.stack) + 1] = f /\ t.stack[Len(s.stack) + 2] = g
      /\ Says(s, t, tok) /\ SameTraits(s, t) /\ Wants(s)
      /\ GivesNew(s, t, o)
  BY DEF GivesNamed, Meets, Serves, GivesNew
<1>3. /\ f.obj = o /\ f.left = len /\ f.members = <<>> /\ f.dyn = FALSE /\ f.key = None
      /\ g.obj = o /\ g.names = <<>> /\ g.src = FALSE /\ g.left = 0 /\ g.members = <<>>
      /\ g.dyn = TRUE /\ g.key = None
  BY DEF NewFrame
<1>4. tok \in Token /\ tok.t = "named" /\ tok.n = len BY TokenTypes DEF NamedArrayTok
<1> HIDE DEF f, g, tok
<1>5. CASE Failed /\ Len(stream) < Len(F) BY <1>5 DEF Follows
<1>6. CASE /\ Tok = tok /\ pos = Len(t.stream) /\ pos + 1 <= Len(stream) + 1 /\ ReadsValue
  <2> DEFINE x == Len(made) + 1
  <2>1. Open("hash", <<ValuesFrame(x, len), EntriesFrame(x)>>)
    BY <1>4, <1>6 DEF ReadsValue, ReadNamedArray, NewNode, EntriesFrame
  <2>2. /\ objTab' = Append(objTab, x) /\ made' = Append(made, MadeNode("hash", None))
        /\ rstack' = rstack \o <<ValuesFrame(x, len), EntriesFrame(x)>>
        /\ Advance /\ strTab' = strTab /\ traitTab' = traitTab
    BY <2>1 DEF Open, NewNode
  <2>3. /\ rstack \in Seq(ReadFrame) /\ Len(rstack) \in Nat /\ made \in Seq(ReadNode)
        /\ Len(made) \in Nat
    BY <1>1, Elements DEF ReaderInv, ReaderTypeOK
  <2>4. x \in ReaderValue BY <2>3 DEF ReaderValue
  <2>5. PICK p, q : p = ValuesFrame(x, len) /\ q = EntriesFrame(x) OBVIOUS
  <2>6. Called(p, "values", x, len, <<>>, FALSE) /\ Called(q, "entries", x, 0, <<>>, TRUE)
    BY <2>4, <2>5, CalledType
  <2>7. /\ p \in ReadFrame /\ p.what = "values" /\ p.node = x /\ p.left = len /\ p.members = <<>>
        /\ p.dyn = FALSE /\ p.key = None
        /\ q \in ReadFrame /\ q.what = "entries" /\ q.node = x /\ q.left = 0 /\ q.members = <<>>
        /\ q.dyn = TRUE /\ q.key = None
    BY <2>6 DEF Called
  <2>8. PICK u : u = rstack \o <<p, q>> OBVIOUS
  <2>9. /\ Len(u) = Len(rstack) + 2 /\ u[Len(rstack) + 1] = p /\ u[Len(rstack) + 2] = q
        /\ \A j \in 1 .. Len(rstack) : u[j] = rstack[j]
    BY <2>3, <2>7, <2>8, TwoMore
  <2>10. /\ \A i \in 1 .. Len(s.stack) : Held(t, i, u)
         /\ Ground(t, Len(s.stack) + 1) = Len(rstack) + 1
         /\ \A y \in Holder \ {o} : Met(t, y) => NodeMatches(t, y, made[t.heap[y].nth])
         /\ ~LagsOn(t, o) /\ ~Pair(t, Len(s.stack)) /\ Len(s.stack) \in Nat \ {0}
         /\ Len(t.stack) = Len(s.stack) + 2 => Pair(t, Len(s.stack) + 1)
         /\ t.stack # <<>> /\ TopOf(t).obj = o
         /\ t.heap[o].nth = Len(made) + 1 /\ t.met = Len(made) + 1
    <3>1. /\ Meets(s, t, o) /\ Len(t.stack) = Len(s.stack) + 2
          /\ t.stack[Len(s.stack) + 1].obj = o /\ t.stack[Len(s.stack) + 2].obj = o
      BY <1>2, <1>3
    <3>2. /\ WInv(s) /\ WInv(t) /\ WStep(s, t) /\ Earlier(s, t) /\ ReaderInv /\ Matches(s)
          /\ \/ Len(t.stack) = Len(s.stack) + 1
             \/ Len(t.stack) = Len(s.stack) + 2 /\ t.stack[Len(s.stack) + 2].obj = o
          /\ \A j \in 1 .. Len(rstack) : u[j] = rstack[j]
      BY <1>1, <2>9, <3>1
    <3> QED BY <3>1, <3>2, Pushed
  <2>11. TopOf(t) = g BY <1>2 DEF TopOf
  <2>12. ~Pending(t) /\ Unnamed(t) = 0 BY <1>3, <2>11 DEF Pending, Unnamed, Naming
  <2>13. ~Closed(t) BY <1>3, <2>11 DEF Closed
  <2>14. PICK M : M = Len(s.stack) + 1 OBVIOUS
  <2>15. /\ M \in 1 .. Len(t.stack) /\ M - 1 = Len(s.stack) /\ M > 1 /\ M < Len(t.stack)
         /\ Len(t.stack) = M + 1 /\ t.stack[M] = f /\ t.stack[M + 1] = g /\ (M - 1) + 1 = M
    BY <1>2, <2>10, <2>14
  <2>16. Pair(t, M) /\ ~Pair(t, M - 1) BY <1>2, <2>10, <2>14, <2>15
  <2>17. Ground(t, M) = Len(rstack) + 1 /\ Ground(t, M + 1) = Len(rstack) + 2
    <3>1. t.heap[o].depth \in Nat BY <1>1, SnapshotTypes DEF Holder
    <3>2. Ground(t, M) = M + t.heap[o].depth /\ Ground(t, M + 1) = M + 1 + t.heap[o].depth
      BY <1>3, <2>15 DEF Ground
    <3>3. PICK l, d : l = Len(rstack) /\ d = t.heap[o].depth OBVIOUS
    <3>4. l \in Nat /\ d \in Nat /\ M \in Nat BY <2>3, <2>10, <2>14, <3>1, <3>3
    <3>5. Ground(t, M) = l + 1 BY <2>10, <2>14, <3>3
    <3>6. M + d = l + 1 BY <3>2, <3>3, <3>5
    <3>7. M + 1 + d = l + 2 BY <3>4, <3>6
    <3> QED BY <3>2, <3>3, <3>5, <3>7
  <2>18. Held(t, M, u)
    <3>1. Seat(t, M) = Len(rstack) + 1 BY <1>1, <1>2, <1>3, <2>15, <2>17, SeatTypes
    <3>2. ~Lags(t, M) BY <2>16 DEF Lags
    <3>3. WhatOf(t, M) = "values" BY <2>15, <2>16 DEF WhatOf, Pair
    <3>4. FrameMatches(t, M, "values", p) BY <1>3, <2>7, <2>10, <2>15, <3>2 DEF FrameMatches
    <3> QED BY <1>2, <1>3, <2>9, <2>15, <3>1, <3>3, <3>4 DEF Held
  <2>19. BelowMatches(t, u)
    <3>1. Len(t.stack) - 1 = M BY <2>15
    <3>2. \A i \in 1 .. M : i = M \/ i \in 1 .. Len(s.stack) BY <2>10, <2>14
    <3> QED BY <2>10, <2>18, <3>1, <3>2 DEF BelowMatches
  <2>20. TopMatches(t, u)
    <3>1. WhatOf(t, Len(t.stack)) = "entries"
      <4>1. Len(t.stack) - 1 = M /\ Len(t.stack) > 1 BY <2>15
      <4> QED BY <1>3, <2>15, <4>1 DEF WhatOf
    <3>2. Len(u) = Ground(t, Len(t.stack)) BY <2>9, <2>15, <2>17
    <3>3. Len(t.stack) >= 1 /\ t.heap[o].kind # "ac" BY <1>2, <2>15
    <3>4. /\ u[Len(u)].what = "entries" /\ u[Len(u)].node = t.heap[o].nth
          /\ u[Len(u)].left = TopOf(t).left /\ u[Len(u)].members = TopOf(t).members
          /\ u[Len(u)].dyn = TopOf(t).dyn /\ u[Len(u)].key = TopOf(t).key /\ TopOf(t).src = FALSE
          /\ TopOf(t).names = <<>>
      BY <1>3, <2>7, <2>9, <2>10, <2>11
    <3>5. AtValues(t, u) BY <1>1, <2>10, <3>1, <3>2, <3>3, <3>4, NewTop
    <3> QED BY <3>5 DEF TopMatches
  <2>21. /\ "hash" \in {"root", "leaf", "array", "object", "hash", "dict"} /\ t.heap[o].kind # "object"
         /\ "hash" = ReadAs(t.heap[o].kind)
    BY <1>2 DEF ReadAs
  <2>22. BelowMatches(t, rstack') /\ TopMatches(t, rstack') BY <2>2, <2>5, <2>8, <2>19, <2>20
  <2>23. Matches(t)'
    BY <1>1, <1>2, <1>6, <2>2, <2>10, <2>12, <2>13, <2>21, <2>22, Opened1
  <2>24. rstat' = rstat /\ stream' = stream BY <2>2 DEF Advance
  <2> QED BY <2>23, <2>24 DEF Follows
<1> QED BY <1>2, <1>4, <1>5, <1>6, ValueComes

\* One frame on each side.
LEMMA PushedOne ==
  ASSUME ReaderInv, NEW s, WInv(s), NEW t, WInv(t), WStep(s, t), Earlier(s, t), Matches(s),
         NEW o \in Obj, Meets(s, t, o), NEW f, Pushes(s, t, f), f.obj = o,
         NEW r \in ReadFrame, NEW u, u = Append(rstack, r)
  PROVE  /\ Len(u) = Ground(t, Len(t.stack)) /\ u[Len(u)] = r /\ BelowMatches(t, u)
         /\ ~Closed(t) /\ WhatOf(t, Len(t.stack)) = "values" /\ TopOf(t) = f
         /\ Len(t.stack) >= 1 /\ t.stack # <<>>
         /\ \A p \in Holder \ {o} : Met(t, p) => NodeMatches(t, p, made[t.heap[p].nth])
         /\ ~LagsOn(t, o)
         /\ t.heap[o].nth = Len(made) + 1 /\ t.met = Len(made) + 1 /\ Len(made) = s.met
<1>1. rstack \in Seq(ReadFrame) /\ Len(rstack) \in Nat BY Elements DEF ReaderInv, ReaderTypeOK
<1>2. Len(u) = Len(rstack) + 1 /\ u[Len(u)] = r /\ \A j \in 1 .. Len(rstack) : u[j] = rstack[j]
  <2> HIDE DEF ReadFrame
  <2> QED BY <1>1, Appended
<1>3. Len(t.stack) = Len(s.stack) + 1 /\ t.stack[Len(s.stack) + 1] = f BY DEF Pushes
<1>4. /\ \A i \in 1 .. Len(s.stack) : Held(t, i, u)
      /\ Ground(t, Len(s.stack) + 1) = Len(rstack) + 1
      /\ \A p \in Holder \ {o} : Met(t, p) => NodeMatches(t, p, made[t.heap[p].nth])
      /\ ~LagsOn(t, o) /\ ~Pair(t, Len(s.stack)) /\ Len(s.stack) \in Nat \ {0}
      /\ t.stack # <<>> /\ TopOf(t).obj = o
      /\ t.heap[o].nth = Len(made) + 1 /\ t.met = Len(made) + 1 /\ Len(made) = s.met
  <2>1. Len(t.stack) = Len(s.stack) + 1 /\ t.stack[Len(s.stack) + 1].obj = o BY <1>3
  <2>2. /\ \/ Len(t.stack) = Len(s.stack) + 1
           \/ Len(t.stack) = Len(s.stack) + 2 /\ t.stack[Len(s.stack) + 2].obj = o
        /\ \A j \in 1 .. Len(rstack) : u[j] = rstack[j]
    BY <1>2, <2>1
  <2> QED BY <2>1, <2>2, Pushed
<1>5. Len(t.stack) - 1 = Len(s.stack) /\ (Len(t.stack) - 1) + 1 = Len(t.stack) BY <1>3, <1>4
<1>6. ~Closed(t) BY <1>4, <1>5 DEF Closed
<1>7. BelowMatches(t, u) BY <1>4, <1>5 DEF BelowMatches
<1>8. WhatOf(t, Len(t.stack)) = "values" BY <1>4, <1>5 DEF WhatOf, Pair
<1>9. TopOf(t) = f BY <1>3 DEF TopOf
<1> QED BY <1>2, <1>3, <1>4, <1>6, <1>7, <1>8, <1>9

\* The reader knows of the new object when more has come.
LEMMA Waits ==
  ASSUME ReaderInv, NEW s, WInv(s), NEW t, WInv(t), WStep(s, t), Earlier(s, t), Matches(s),
         NEW o \in Obj, Meets(s, t, o), GivesNew(s, t, o), Pending(t), TopOf(t).obj = o,
         t.stack # <<>>, ~Closed(t),
         \A p \in Holder \ {o} : Met(t, p) => NodeMatches(t, p, made[t.heap[p].nth]),
         t.met = Len(made) + 1, TraitsMatch(t, traitTab'),
         objTab' = objTab, made' = made, strTab' = strTab, Advance,
         pos = Len(t.stream), pos + 1 <= Len(stream) + 1,
         BelowMatches(t, rstack'), TopMatches(t, rstack')
  PROVE  Matches(t)'
<1>1. /\ Typed(s) /\ Typed(t) /\ made \in Seq(ReadNode) /\ objTab \in Seq(ReaderValue)
      /\ ObjectsMatch(s, objTab) /\ StringsMatch(s, strTab)
  BY DEF WInv, Matches, ReaderInv, ReaderTypeOK
<1>2. /\ \A p \in Holder \ {o} : Met(t, p) <=> Met(s, p)
      /\ \A p \in Holder : ~Pends(s, p)
  BY <1>1, OnlyOne
<1>3. Waiting(t) = 1 /\ Pends(t, o) BY DEF Waiting, Pends
<1>4. Len(made) \in Nat /\ Len(objTab) \in Nat BY <1>1, Elements
<1>5. MadeMatches(t, made')
  <2>1. Len(made) = t.met - Waiting(t) BY <1>3, <1>4
  <2>2. ASSUME NEW p \in Holder, Met(t, p), ~Pends(t, p) PROVE NodeMatches(t, p, made[t.heap[p].nth])
    BY <1>3, <2>2
  <2> QED BY <2>1, <2>2 DEF MadeMatches
<1>6. ObjectsMatch(t, objTab')
  <2>1. Known(t) = Known(s) + 1 - Waiting(t) /\ Known(s) \in Int BY <1>1, KnownNew, KnownTypes
  <2>2. Len(objTab) = Known(t) BY <1>1, <1>3, <2>1 DEF ObjectsMatch
  <2>3. Extends(objTab, objTab) BY <1>4 DEF Extends
  <2>4. \A p \in Obj : Met(t, p) /\ ~Pends(t, p) => Met(s, p) /\ ~Pends(s, p)
    BY <1>2, <1>3 DEF Holder
  <2> QED BY <1>1, <2>2, <2>3, <2>4, ObjectsFollow
<1>7. StringsMatch(t, strTab') BY <1>1, StringsStay DEF Meets
<1>8. pos' = Len(t.stream) + 1 /\ pos' <= Len(stream') + 1 BY DEF Advance
<1> QED BY <1>5, <1>6, <1>7, <1>8, MatchesNext

\* Only the traits of a collection have the name that des3_read_object looks for.
LEMMA NotCollection ==
  ASSUME Faithful, NEW tr \in Traits, tr # ACTraits
  PROVE  WireName(tr) # ACName
<1>1. /\ ACName # Empty /\ ACTraits \in Traits /\ ClassName[ACTraits] = ACName
      /\ ClassName[Default] = NoName /\ ACName # NoName
  BY StreamAssumption
<1>2. ACTraits # Default BY <1>1
<1>3. SUFFICES ASSUME WireName(tr) = ACName PROVE FALSE OBVIOUS
<1>4. ClassName[tr] = ACName BY <1>1, <1>3 DEF WireName
<1>5. tr # Default BY <1>1, <1>4
<1>6. TraitKey(tr) = TraitKey(ACTraits) BY <1>1, <1>2, <1>4, <1>5 DEF TraitKey
<1> QED BY <1>1, <1>6 DEF Faithful

LEMMA DescribedType ==
  ASSUME Faithful, NEW tr \in Traits
  PROVE  /\ Described(tr) \in TraitRecord /\ Described(tr).cls = WireName(tr)
         /\ Described(tr).members = Members[tr] /\ Described(tr).dyn = Dynamic[tr]
         /\ Described(tr).ext = External[tr]
<1>1. /\ WireName(tr) \in Strings /\ Members[tr] \in Seq(Strings)
      /\ Dynamic[tr] \in BOOLEAN /\ External[tr] \in BOOLEAN
  BY TraitKeys0, StreamAssumption
<1>2. Members[tr] \in Seq(Strings \cup {None}) BY <1>1
<1>3. /\ Described(tr).cls = WireName(tr)
      /\ Described(tr).members = Members[tr] /\ Described(tr).dyn = Dynamic[tr]
      /\ Described(tr).ext = External[tr]
  BY Zenon DEF Described
<1>4. Described(tr) \in TraitRecord BY <1>1, <1>2, Zenon DEF Described, TraitRecord
<1> QED BY <1>3, <1>4

LEMMA CollectionBegins ==
  ASSUME NEW below, BeginObject(Described(ACTraits), below)
  PROVE  rstack' = Append(below, InnerFrame) /\ objTab' = objTab /\ made' = made
<1>1. Described(ACTraits).cls = ACName
  BY StreamAssumption DEF Described, WireName
<1> QED BY <1>1 DEF BeginObject, InnerFrame

LEMMA ObjectBegins ==
  ASSUME Faithful, NEW tr \in Traits, tr # ACTraits, NEW below, BeginObject(Described(tr), below),
         made \in Seq(ReadNode)
  PROVE  \E r \in ReadFrame :
           /\ rstack' = Append(below, r)
           /\ objTab' = Append(objTab, Len(made) + 1)
           /\ made' = Append(made, MadeNode("object", WireName(tr)))
           /\ Called(r, "values", Len(made) + 1, Owed(tr), Sealed(tr), OpenEnded(tr))
<1>1. /\ Described(tr).cls = WireName(tr)
      /\ Described(tr).members = Members[tr] /\ Described(tr).dyn = Dynamic[tr]
      /\ Described(tr).ext = External[tr]
  BY DescribedType
<1>2. WireName(tr) # ACName BY NotCollection
<1>3. /\ WireName(tr) \in Strings /\ Members[tr] \in Seq(Strings) /\ ExtSize \in [Strings -> Nat]
      /\ Dynamic[tr] \in BOOLEAN /\ External[tr] \in BOOLEAN
  BY TraitKeys0, StreamAssumption
<1>4. /\ Owed(tr) \in Nat /\ Sealed(tr) \in Seq(Strings \cup {None}) /\ OpenEnded(tr) \in BOOLEAN
  <2>1. Members[tr] \in Seq(Strings \cup {None}) /\ Len(Members[tr]) \in Nat BY <1>3, Elements
  <2> QED BY <1>3, <2>1 DEF Owed, Sealed, OpenEnded
<1>5. PICK n : n = Len(made) + 1 OBVIOUS
<1>6. n \in ReaderValue BY <1>5, Elements DEF ReaderValue
<1>7. PICK r : r = ObjectFrame(n, Owed(tr), Sealed(tr), OpenEnded(tr)) OBVIOUS
<1>8. Called(r, "values", n, Owed(tr), Sealed(tr), OpenEnded(tr)) BY <1>4, <1>6, <1>7, CalledType
<1>9. r \in ReadFrame BY <1>8 DEF Called
<1>10. /\ rstack' = Append(below, r)
       /\ objTab' = Append(objTab, n) /\ made' = Append(made, MadeNode("object", WireName(tr)))
  BY <1>1, <1>2, <1>3, <1>5, <1>7, Zenon
     DEF BeginObject, ObjectFrame, Owed, Sealed, OpenEnded
<1> QED BY <1>5, <1>8, <1>9, <1>10

\* An object or a collection whose traits the reader has.
LEMMA FollowsKnown ==
  ASSUME Faithful, NEW s, NEW t, NEW F, Facing(s, t, F), NEW o \in Obj, NEW tr \in Traits, NEW len \in Nat,
         GivesDescribed(s, t, o, tr, len), Knows(s, tr)
  PROVE  Follows(s, t, F)
<1> DEFINE f == DescribedFrame(s, o, tr, len)
           n == s.traitCache[TraitKey(tr)]
           tok == TraitRefTok(n)
<1>1. /\ WInv(s) /\ WInv(t) /\ WStep(s, t) /\ Earlier(s, t) /\ Typed(s) /\ Typed(t)
      /\ ReaderInv /\ rstat = "run" /\ Matches(s) /\ stream \in Seq(Token)
  BY DEF Facing, WInv
<1>2. /\ Meets(s, t, o) /\ Pushes(s, t, f) /\ Says(s, t, tok) /\ SameTraits(s, t) /\ Wants(s)
      /\ GivesNew(s, t, o)
  BY DEF GivesDescribed, Describes, Meets, Serves, GivesNew
<1>3. /\ f.obj = o /\ f.names = <<>> /\ f.key = None
      /\ IF tr = ACTraits THEN f.src = TRUE
         ELSE f.src = FALSE /\ f.left = Owed(tr) /\ f.members = Sealed(tr) /\ f.dyn = OpenEnded(tr)
  BY DEF DescribedFrame, NamesOf, NewFrame
<1>4. Unnamed(s) = 0 /\ TraitsMatch(s, traitTab) BY <1>1, <1>2, OnlyOne DEF Matches
<1>5. n \in Nat /\ n < Len(traitTab) /\ traitTab[n + 1] = Described(tr) BY <1>1, <1>4, TraitsKnown
<1>6. tok \in Token /\ tok.t = "traitref" /\ tok.n = n BY <1>5, TokenTypes DEF TraitRefTok
<1> HIDE DEF f, n, tok
<1>7. CASE Failed /\ Len(stream) < Len(F) BY <1>7 DEF Follows
<1>8. CASE /\ Tok = tok /\ pos = Len(t.stream) /\ pos + 1 <= Len(stream) + 1 /\ ReadsValue
  <2>1. ReadTraitReference
    <3>1. Len(traitTab) \in Nat BY <1>1, Elements DEF ReaderInv, ReaderTypeOK
    <3>2. ~(Tok.n >= Len(traitTab)) BY <1>5, <1>6, <1>8, <3>1
    <3> QED BY <1>6, <1>8, <3>2 DEF ReadsValue
  <2>2. BeginObject(Described(tr), rstack) /\ Advance /\ strTab' = strTab /\ traitTab' = traitTab
    BY <1>5, <1>6, <1>8, <2>1 DEF ReadTraitReference
  <2>3. rstat' = rstat /\ stream' = stream BY <2>2 DEF Advance
  <2>4. made \in Seq(ReadNode) BY <1>1 DEF ReaderInv, ReaderTypeOK
  <2>5. CASE tr = ACTraits
    <3>1. rstack' = Append(rstack, InnerFrame) /\ objTab' = objTab /\ made' = made
      BY <2>2, <2>5, CollectionBegins
    <3>2. Called(InnerFrame, "inner", None, 1, <<>>, FALSE) BY CalledType
    <3>3. PICK r : r = InnerFrame OBVIOUS
    <3>4. r \in ReadFrame /\ r.what = "inner" /\ r.left = 1 /\ r.dyn = FALSE BY <3>2, <3>3 DEF Called
    <3>5. PICK u : u = Append(rstack, r) OBVIOUS
    <3>6. /\ Len(u) = Ground(t, Len(t.stack)) /\ u[Len(u)] = r /\ BelowMatches(t, u)
          /\ ~Closed(t) /\ TopOf(t) = f /\ t.stack # <<>>
          /\ \A p \in Holder \ {o} : Met(t, p) => NodeMatches(t, p, made[t.heap[p].nth])
          /\ t.met = Len(made) + 1
      <4>1. /\ WInv(s) /\ WInv(t) /\ WStep(s, t) /\ Earlier(s, t) /\ ReaderInv /\ Matches(s)
            /\ Meets(s, t, o) /\ Pushes(s, t, f) /\ f.obj = o
        BY <1>1, <1>2, <1>3
      <4>2. r \in ReadFrame BY <3>4
      <4> QED BY <3>5, <4>1, <4>2, PushedOne
    <3>7. TopMatches(t, u) BY <1>3, <2>5, <3>4, <3>6 DEF TopMatches, AtSource, IsInner
    <3>8. Pending(t) /\ TopOf(t).obj = o BY <1>3, <2>5, <3>6 DEF Pending
    <3>9. Unnamed(t) = 0 BY <1>3, <3>6 DEF Unnamed, Naming
    <3>10. TraitsMatch(t, traitTab') BY <1>2, <1>4, <2>2, <3>9, TraitsStay
    <3>11. BelowMatches(t, rstack') /\ TopMatches(t, rstack') BY <3>1, <3>3, <3>5, <3>6, <3>7
    <3>12. Matches(t)' BY <1>1, <1>2, <1>8, <2>2, <3>1, <3>6, <3>8, <3>10, <3>11, Waits
    <3> QED BY <2>3, <3>12 DEF Follows
  <2>6. CASE tr # ACTraits
    <3>1. PICK r \in ReadFrame :
            /\ rstack' = Append(rstack, r)
            /\ objTab' = Append(objTab, Len(made) + 1)
            /\ made' = Append(made, MadeNode("object", WireName(tr)))
            /\ Called(r, "values", Len(made) + 1, Owed(tr), Sealed(tr), OpenEnded(tr))
      BY <2>2, <2>4, <2>6, ObjectBegins
    <3>2. /\ r.what = "values" /\ r.node = Len(made) + 1 /\ r.left = Owed(tr)
          /\ r.members = Sealed(tr) /\ r.dyn = OpenEnded(tr) /\ r.key = None
      BY <3>1 DEF Called
    <3>3. PICK u : u = Append(rstack, r) OBVIOUS
    <3>4. /\ Len(u) = Ground(t, Len(t.stack)) /\ u[Len(u)] = r /\ BelowMatches(t, u)
          /\ ~Closed(t) /\ WhatOf(t, Len(t.stack)) = "values" /\ TopOf(t) = f
          /\ Len(t.stack) >= 1 /\ t.stack # <<>>
          /\ \A p \in Holder \ {o} : Met(t, p) => NodeMatches(t, p, made[t.heap[p].nth])
          /\ ~LagsOn(t, o)
          /\ t.heap[o].nth = Len(made) + 1 /\ t.met = Len(made) + 1
      <4>1. /\ WInv(s) /\ WInv(t) /\ WStep(s, t) /\ Earlier(s, t) /\ ReaderInv /\ Matches(s)
            /\ Meets(s, t, o) /\ Pushes(s, t, f) /\ f.obj = o
        BY <1>1, <1>2, <1>3
      <4>2. r \in ReadFrame BY <3>1
      <4>3. /\ Len(u) = Ground(t, Len(t.stack)) /\ u[Len(u)] = r /\ BelowMatches(t, u)
            /\ ~Closed(t) /\ WhatOf(t, Len(t.stack)) = "values" /\ TopOf(t) = f
        BY <3>3, <4>1, <4>2, PushedOne
      <4>4. /\ Len(t.stack) >= 1 /\ t.stack # <<>> /\ ~LagsOn(t, o)
            /\ t.heap[o].nth = Len(made) + 1 /\ t.met = Len(made) + 1
        BY <3>3, <4>1, <4>2, PushedOne
      <4>5. \A p \in Holder \ {o} : Met(t, p) => NodeMatches(t, p, made[t.heap[p].nth])
        BY <3>3, <4>1, <4>2, PushedOne
      <4> QED BY <4>3, <4>4, <4>5
    <3>5. t.heap[o].kind = "object" /\ t.heap[o].tr = tr BY <2>6 DEF GivesDescribed
    <3>6. AtValues(t, u)
      <4>1. /\ u[Len(u)].what = "values" /\ u[Len(u)].node = t.heap[o].nth
            /\ u[Len(u)].left = TopOf(t).left /\ u[Len(u)].members = TopOf(t).members
            /\ u[Len(u)].dyn = TopOf(t).dyn /\ u[Len(u)].key = TopOf(t).key /\ TopOf(t).src = FALSE
            /\ TopOf(t).names = <<>> /\ TopOf(t).obj = o /\ t.heap[o].kind # "ac"
        BY <1>3, <2>6, <3>2, <3>4, <3>5
      <4> QED BY <1>1, <3>4, <4>1, NewTop
    <3>7. ~Pending(t) /\ Unnamed(t) = 0 BY <1>3, <2>6, <3>4 DEF Pending, Unnamed, Naming
    <3>8. /\ WireName(tr) \in Strings \cup {None} /\ "object" = ReadAs(t.heap[o].kind)
          /\ t.heap[o].kind = "object" => WireName(tr) = WireName(t.heap[o].tr)
      BY <3>5, TraitKeys0 DEF ReadAs
    <3>9. BelowMatches(t, rstack') /\ TopMatches(t, rstack') BY <3>1, <3>3, <3>4, <3>6 DEF TopMatches
    <3>10. Matches(t)'
      BY <1>1, <1>2, <1>8, <2>2, <3>1, <3>4, <3>7, <3>8, <3>9, Opened1
    <3> QED BY <2>3, <3>10 DEF Follows
  <2> QED BY <2>5, <2>6
<1> QED BY <1>2, <1>6, <1>7, <1>8, ValueComes

\* Traits whose names are to come.
LEMMA FollowsUnknown ==
  ASSUME Faithful, NEW s, NEW t, NEW F, Facing(s, t, F), NEW o \in Obj, NEW tr \in Traits, NEW len \in Nat,
         GivesDescribed(s, t, o, tr, len), ~Knows(s, tr)
  PROVE  Follows(s, t, F)
<1> DEFINE f == DescribedFrame(s, o, tr, len)
           tok == TraitsTok(tr)
           r == NamesFrame(tr, Len(Members[tr]) + 1)
<1>1. /\ WInv(s) /\ WInv(t) /\ WStep(s, t) /\ Earlier(s, t) /\ Typed(s) /\ Typed(t)
      /\ ReaderInv /\ rstat = "run" /\ Matches(s) /\ stream \in Seq(Token)
  BY DEF Facing, WInv
<1>2. /\ Meets(s, t, o) /\ Pushes(s, t, f) /\ Says(s, t, tok) /\ Wants(s)
      /\ AddsTraits(s, t, tr) /\ GivesNew(s, t, o)
  BY DEF GivesDescribed, Describes, Meets, Serves, GivesNew, AddsTraits
<1>3. f.obj = o /\ f.names = Full(tr) BY DEF DescribedFrame, NamesOf, NewFrame
<1>4. Unnamed(s) = 0 /\ TraitsMatch(s, traitTab) BY <1>1, <1>2, OnlyOne DEF Matches
<1>5. /\ Members[tr] \in Seq(Strings) /\ Len(Members[tr]) \in Nat /\ WireName(tr) \in Strings
  BY TraitKeys0, Elements
<1>6. Len(Full(tr)) = Len(Members[tr]) + 1 /\ Full(tr) # <<>>
  <2>1. PICK ms : ms = Members[tr] OBVIOUS
  <2>2. ms \in Seq(Strings) /\ Len(ms) \in Nat BY <1>5, <2>1
  <2>3. Len(<<WireName(tr)>> \o ms) = 1 + Len(ms) BY <1>5, <2>2
  <2>4. Len(Full(tr)) = Len(Members[tr]) + 1 BY <2>1, <2>2, <2>3 DEF Full
  <2> QED BY <1>5, <2>4
<1>7. tok \in Token /\ tok.t = "traits" /\ tok.n = Len(Members[tr]) /\ tok.v = tr
  BY TokenTypes DEF TraitsTok
<1>8. /\ r \in ReadFrame /\ r.what = "names" /\ r.left = Len(Members[tr]) + 1 /\ r.hdr = tr
      /\ r.names = <<>>
  <2>1. Len(Members[tr]) + 1 \in Nat BY <1>5
  <2>2. Called(r, "names", None, Len(Members[tr]) + 1, <<>>, FALSE) /\ r.hdr = tr BY <2>1, CalledType
  <2> QED BY <2>2 DEF Called
<1> HIDE DEF f, tok, r
<1>9. CASE Failed /\ Len(stream) < Len(F) BY <1>9 DEF Follows
<1>10. CASE /\ Tok = tok /\ pos = Len(t.stream) /\ pos + 1 <= Len(stream) + 1 /\ ReadsValue
  <2>1. ReadTraits BY <1>7, <1>10 DEF ReadsValue
  <2>2. /\ rstack' = Append(rstack, r) /\ Advance
        /\ objTab' = objTab /\ strTab' = strTab /\ traitTab' = traitTab /\ made' = made
    BY <1>7, <1>10, <2>1 DEF ReadTraits, NamesFrame, r, tables
  <2>3. PICK u : u = Append(rstack, r) OBVIOUS
  <2>4. /\ Len(u) = Ground(t, Len(t.stack)) /\ u[Len(u)] = r /\ BelowMatches(t, u)
        /\ ~Closed(t) /\ TopOf(t) = f /\ t.stack # <<>>
        /\ \A p \in Holder \ {o} : Met(t, p) => NodeMatches(t, p, made[t.heap[p].nth])
        /\ t.met = Len(made) + 1
    <3>1. /\ WInv(s) /\ WInv(t) /\ WStep(s, t) /\ Earlier(s, t) /\ ReaderInv /\ Matches(s)
          /\ Meets(s, t, o) /\ Pushes(s, t, f) /\ f.obj = o
      BY <1>1, <1>2, <1>3
    <3>2. r \in ReadFrame BY <1>8
    <3> QED BY <2>3, <3>1, <3>2, PushedOne
  <2>5. /\ t.heap[o].kind # "vector" /\ TrOf(t, o) = tr BY DEF GivesDescribed, TrOf
  <2>6. Naming(t) /\ Pending(t) /\ Unnamed(t) = 1
    BY <1>3, <1>6, <2>4, <2>5 DEF Naming, Pending, Unnamed
  <2>7. TopMatches(t, u)
    <3>1. Len(<<>>) = 0 /\ 1 .. 0 = {} OBVIOUS
    <3>2. Len(r.names) = Len(Full(tr)) - Len(f.names) /\ \A j \in 1 .. Len(r.names) : r.names[j] = Full(tr)[j]
      BY <1>3, <1>5, <1>6, <1>8
    <3> QED BY <1>3, <1>6, <1>8, <2>4, <2>5, <2>6, <3>2 DEF TopMatches, AtNames
  <2>8. TraitsMatch(t, traitTab') BY <1>1, <1>2, <1>4, <2>2, <2>6, TraitsAnnounced
  <2>9. BelowMatches(t, rstack') /\ TopMatches(t, rstack') BY <2>2, <2>3, <2>4, <2>7
  <2>10. TopOf(t).obj = o BY <1>3, <2>4
  <2>11. Matches(t)' BY <1>1, <1>2, <1>10, <2>2, <2>4, <2>6, <2>8, <2>9, <2>10, Waits
  <2>12. rstat' = rstat /\ stream' = stream BY <2>2 DEF Advance
  <2> QED BY <2>11, <2>12 DEF Follows
<1> QED BY <1>2, <1>7, <1>9, <1>10, ValueComes

\* The function at the top goes on with the object it writes.
LEMMA StillMatches ==
  ASSUME NEW s, WInv(s), NEW t, WInv(t), NEW f, Turns(s, t, f), f.obj = TopOf(s).obj,
         Pending(t) <=> Pending(s), NEW a, MadeMatches(s, a), NEW tab, ObjectsMatch(s, tab)
  PROVE  MadeMatches(t, a) /\ ObjectsMatch(t, tab)
<1>1. /\ t.heap = s.heap /\ t.met = s.met /\ t.objCache = s.objCache
      /\ Len(t.stack) = Len(s.stack) /\ SameBelow(s, t) /\ TopOf(t) = f /\ s.stack # <<>>
      /\ Typed(s) /\ Typed(t)
  BY DEF Turns, SameGraph, SameObjects, WInv
<1>2. Len(s.stack) \in Nat \ {0} /\ TopOf(s) = s.stack[Len(s.stack)] BY <1>1, TopTypes
<1>3. \A i \in 1 .. Len(s.stack) : t.stack[i].obj = s.stack[i].obj
  BY <1>1, <1>2 DEF SameBelow, TopOf
<1>4. \A o : LagsOn(t, o) <=> LagsOn(s, o) BY <1>1, <1>3, LagsStay
<1>5. TopOf(t).obj = TopOf(s).obj /\ Waiting(t) = Waiting(s) BY <1>1 DEF Waiting
<1>6. \A o : Pends(t, o) <=> Pends(s, o) BY <1>5 DEF Pends
<1>7. Known(t) = Known(s)
  <2>1. Known(t) = Known(s) + Waiting(s) - Waiting(t) BY <1>1, KnownTurned
  <2>2. Known(s) \in Int /\ Waiting(s) \in {0, 1} BY <1>1, KnownTypes
  <2> QED BY <1>5, <2>1, <2>2
<1>8. \A o, r : NodeMatches(s, o, r) => NodeMatches(t, o, r)
  BY <1>1, <1>4 DEF NodeMatches, Lag, FlatSnap, Decode
<1>9. MadeMatches(t, a) BY <1>1, <1>5, <1>6, <1>8 DEF MadeMatches, Met
<1>10. ObjectsMatch(t, tab) BY <1>1, <1>6, <1>7 DEF ObjectsMatch, Met, Place
<1> QED BY <1>9, <1>10

\* What the reader was waiting for has come.
LEMMA Arrives ==
  ASSUME NEW s, WInv(s), NEW t, WInv(t), Earlier(s, t), NEW f, Turns(s, t, f), f.obj = TopOf(s).obj,
         Pending(s), ~Pending(t), made \in Seq(ReadNode), MadeMatches(s, made),
         objTab \in Seq(ReaderValue), ObjectsMatch(s, objTab),
         NEW o, o = TopOf(s).obj,
         NEW kind \in {"root", "leaf", "array", "object", "hash", "dict"},
         kind = ReadAs(t.heap[o].kind), NEW cls \in Strings \cup {None},
         t.heap[o].kind = "object" => cls = WireName(t.heap[o].tr)
  PROVE  /\ MadeMatches(t, Append(made, MadeNode(kind, cls)))
         /\ ObjectsMatch(t, Append(objTab, Len(made) + 1))
         /\ t.heap[o].nth = Len(made) + 1 /\ o \in Obj
<1>1. /\ t.heap = s.heap /\ t.met = s.met /\ t.objCache = s.objCache
      /\ Len(t.stack) = Len(s.stack) /\ SameBelow(s, t) /\ TopOf(t) = f /\ s.stack # <<>>
      /\ Typed(s) /\ Typed(t)
  BY DEF Turns, SameGraph, SameObjects, WInv
<1>2. Len(s.stack) \in Nat \ {0} /\ TopOf(s) = s.stack[Len(s.stack)] BY <1>1, TopTypes
<1>3. \A i \in 1 .. Len(s.stack) : t.stack[i].obj = s.stack[i].obj
  BY <1>1, <1>2 DEF SameBelow, TopOf
<1>4. \A p : LagsOn(t, p) <=> LagsOn(s, p) BY <1>1, <1>3, LagsStay
<1>5. Waiting(s) = 1 /\ Waiting(t) = 0 BY DEF Waiting
<1>6. /\ s.heap[o].kids = <<>> /\ s.heap[o].nth = s.met /\ o \in Obj
      /\ s.objCache[o] + ObjSlots(s.heap[o].kind) = s.objIndex
  <2>1. Begun(s) BY DEF WInv
  <2> QED BY <1>1, <2>1 DEF Begun
<1>7. Known(t) = Known(s) + 1 /\ Known(s) \in Int
  <2>1. Known(t) = Known(s) + Waiting(s) - Waiting(t) BY <1>1, KnownTurned
  <2>2. Known(s) \in Int BY <1>1, KnownTypes
  <2> QED BY <1>5, <2>1, <2>2
<1>8. Place(t, o) = Known(s)
  <2>1. /\ s.objCache[o] \in Int /\ s.heap[o].depth \in Nat /\ s.objIndex \in Nat
    BY <1>1, <1>6, SnapshotTypes DEF Index, Holder, NotCached
  <2>2. Known(s) = s.objIndex - (s.heap[o].depth + Extra(s, o)) - 1
    BY <1>1, <1>5 DEF Known, Opened
  <2>3. ObjSlots(s.heap[o].kind) = 1 + Extra(s, o) /\ Extra(s, o) \in {0, 1} BY DEF ObjSlots, Extra
  <2>4. Place(t, o) = s.objCache[o] - s.heap[o].depth BY <1>1 DEF Place
  <2> QED BY <1>6, <2>1, <2>2, <2>3, <2>4
<1>9. Met(t, o) /\ o \in Holder
  <2>1. Met(s, TopOf(s).obj) BY <1>1, <1>2, SnapshotTypes DEF WInv, Path
  <2> QED BY <1>1, <1>6, <2>1 DEF Met, Holder
<1>10. Len(made) = s.met - 1 /\ Len(made) \in Nat /\ s.met \in Nat
  BY <1>1, <1>5, Elements, SnapshotTypes DEF MadeMatches
<1>11. \A p \in Holder \ {o} : Met(t, p) => NodeMatches(t, p, made[t.heap[p].nth])
  <2>1. \A q, r : NodeMatches(s, q, r) => NodeMatches(t, q, r)
    BY <1>1, <1>4 DEF NodeMatches, Lag, FlatSnap, Decode
  <2>2. \A p \in Holder \ {o} : ~Pends(s, p) BY DEF Pends
  <2> QED BY <1>1, <2>1, <2>2 DEF MadeMatches, Met
<1>12. MadeMatches(t, Append(made, MadeNode(kind, cls)))
  <2>1. ~LagsOn(t, o)
    <3>1. t.stack # <<>> /\ TopOf(t).obj = o BY <1>1, <1>2, SnapshotTypes
    <3> QED BY <3>1, TopNotLagging
  <2>2. t.heap[o].kids = <<>> /\ t.heap[o].nth = Len(made) + 1 /\ t.met = Len(made) + 1
    BY <1>1, <1>6, <1>10
  <2> QED BY <1>6, <1>9, <1>11, <2>1, <2>2, NodeArrives
<1>13. ObjectsMatch(t, Append(objTab, Len(made) + 1))
  <2>1. PICK x : x = Len(made) + 1 OBVIOUS
  <2>2. x \in ReaderValue /\ x = t.heap[o].nth BY <1>1, <1>6, <1>10, <2>1 DEF ReaderValue
  <2>3. \A p \in Obj \ {o} : Met(t, p) => Met(s, p) /\ ~Pends(s, p) BY <1>1 DEF Met, Pends
  <2>4. ObjectsMatch(t, Append(objTab, x)) BY <1>6, <1>7, <1>8, <2>2, <2>3, ObjectArrives
  <2> QED BY <2>1, <2>4
<1> QED BY <1>1, <1>6, <1>10, <1>12, <1>13

\* The same function stays at the top, and the frame it has there is another one.
LEMMA TopTurned ==
  ASSUME ReaderInv, NEW s, WInv(s), NEW t, WInv(t), WStep(s, t), Matches(s), NEW f, Turns(s, t, f),
         f.obj = TopOf(s).obj, NEW u, \A j \in 1 .. Ground(s, Len(s.stack)) - 1 : u[j] = rstack[j],
         \/ SaysName(s, t) \/ SaysSource(s, t) \/ (\E k \in Keys \ {Empty} : WritesKey(s, t, k))
         \/ Closes(s, t)
  PROVE  /\ BelowMatches(t, u) /\ t.stack # <<>> /\ TopOf(t) = f /\ Len(t.stack) = Len(s.stack)
         /\ Len(s.stack) \in Nat \ {0} /\ Len(s.stack) \in 1 .. Len(t.stack)
         /\ Ground(t, Len(s.stack)) = Ground(s, Len(s.stack))
         /\ Seat(t, Len(s.stack)) = Seat(s, Len(s.stack))
         /\ WhatOf(t, Len(s.stack)) = WhatOf(s, Len(s.stack))
         /\ ~Lags(t, Len(s.stack)) /\ t.heap = s.heap /\ t.stack[Len(s.stack)] = f
<1>1. Stands(s, t) /\ Len(t.stack) = Len(s.stack) BY TurnsStands
<1>2. s.stack # <<>> /\ TopOf(t) = f /\ t.heap = s.heap /\ Typed(s) /\ Typed(t)
  BY DEF Turns, SameGraph, WInv
<1>3. Len(s.stack) \in Nat \ {0} BY <1>2, TopTypes
<1>4. t.stack # <<>> BY <1>1, <1>2, <1>3, SnapshotTypes
<1>5. /\ \A i \in 1 .. Len(s.stack) - 1 : Held(t, i, u)
      /\ Ground(t, Len(s.stack)) = Ground(s, Len(s.stack))
      /\ Seat(t, Len(s.stack)) = Seat(s, Len(s.stack))
      /\ WhatOf(t, Len(s.stack)) = WhatOf(s, Len(s.stack))
  <2>1. BelowMatches(s, rstack) BY DEF Matches
  <2>2. Len(t.stack) >= Len(s.stack) BY <1>1, <1>3
  <2> QED BY <1>1, <1>2, <2>1, <2>2, BelowStands
<1>6. BelowMatches(t, u) BY <1>1, <1>5 DEF BelowMatches
<1>7. ~Lags(t, Len(s.stack)) BY <1>1, <1>3 DEF Lags
<1>8. t.stack[Len(s.stack)] = f BY <1>1, <1>2 DEF TopOf
<1> QED BY <1>1, <1>2, <1>3, <1>4, <1>5, <1>6, <1>7, <1>8

\* The name the writer has put is what the reader comes to next.
LEMMA NameComes ==
  ASSUME Faithful, NEW s, NEW t, NEW F, Facing(s, t, F), NEW x \in Strings, Puts(s, t, x, FALSE),
         \/ RTop.what \in {"names", "type"}
         \/ RTop.what \in {"values", "entries"} /\ RTop.left = 0 /\ RTop.dyn = TRUE
  PROVE  \/ Failed /\ Len(stream) < Len(F)
         \/ /\ pos = Len(t.stream) /\ pos + 1 <= Len(stream) + 1
            /\ StringRead(Tok) = x /\ StringsMatch(t, StringTableAfter(Tok))
            /\ IF RTop.what = "names" THEN ReadName
               ELSE IF RTop.what = "type" THEN ReadTypeName ELSE ReadKey
<1>1. /\ Typed(s) /\ WInv(s) /\ WInv(t) /\ ReaderInv /\ ReaderNext /\ rstat = "run"
      /\ F \in Seq(Token) /\ Extends(t.stream, F) /\ stream \in Seq(Token) /\ Extends(stream, F)
      /\ pos = Len(s.stream) + 1 /\ pos <= Len(stream) + 1 /\ StringsMatch(s, strTab)
      /\ strTab \in Seq(Strings)
  BY DEF Facing, WInv, Matches, ReaderInv, ReaderTypeOK
<1>2. PICK tok \in Token : StringComes(s, t, tok, x, FALSE)
  <2>1. FALSE \in BOOLEAN OBVIOUS
  <2> QED BY <1>1, <2>1, StringGiven
<1>3. /\ Says(s, t, tok) /\ IsString(tok) /\ tok.m = FALSE /\ ~StringBeyondEnd(tok)
      /\ StringRead(tok) = x /\ StringsMatch(t, StringTableAfter(tok))
  BY <1>2 DEF StringComes
<1>4. /\ pos = Len(t.stream) /\ pos \in Nat
      /\ pos <= Len(stream) => Tok = tok /\ pos + 1 <= Len(stream) + 1
      /\ ~(pos <= Len(stream)) => pos > Len(stream) /\ Len(stream) < Len(F)
  BY <1>1, <1>3, NextToken
<1>5. rstack # <<>> /\ Len(stream) \in Nat BY <1>1, ReadTop, Elements
<1>6. CASE pos <= Len(stream)
  <2>1. Tok = tok BY <1>4, <1>6
  <2>2. /\ IsString(Tok) /\ Tok.m = FALSE /\ ~Unusable(Tok) /\ StringRead(Tok) # None
    <3>1. x # None BY StreamAssumption
    <3> QED BY <1>3, <2>1, <3>1 DEF Unusable
  <2>3. CASE RTop.what \in {"names", "type"}
    <3>1. IF RTop.what = "names" THEN ReadName ELSE ReadTypeName
      BY <1>1, <1>4, <1>5, <1>6, <2>2, <2>3, NameSteps
    <3> QED BY <1>3, <1>4, <1>6, <2>1, <2>3, <3>1
  <2>4. CASE RTop.what \in {"values", "entries"} /\ RTop.left = 0 /\ RTop.dyn = TRUE
    <3>1. ReadKey BY <1>1, <1>4, <1>5, <1>6, <2>2, <2>4, KeySteps
    <3> QED BY <1>3, <1>4, <1>6, <2>1, <2>4, <3>1
  <2> QED BY <2>3, <2>4
<1>7. CASE ~(pos <= Len(stream))
  <2>1. ~Complete(RTop) BY DEF Complete
  <2> QED BY <1>1, <1>4, <1>5, <1>7, <2>1, Missing
<1> QED BY <1>6, <1>7

\* A function that writes the header of an object is no list of entries.
LEMMA HeaderAlone ==
  ASSUME NEW s, WInv(s), s.stack # <<>>, TopOf(s).names # <<>> \/ TopOf(s).src = TRUE,
         NEW t, NEW f, Turns(s, t, f), f.obj = TopOf(s).obj
  PROVE  WhatOf(s, Len(s.stack)) = "values" /\ ~Closed(t)
<1>1. Len(s.stack) \in Nat \ {0} /\ TopOf(s) = s.stack[Len(s.stack)] BY TopTypes DEF WInv
<1>2. (Len(s.stack) - 1) + 1 = Len(s.stack) BY <1>1
<1>3. ASSUME Len(s.stack) > 1 PROVE s.stack[Len(s.stack) - 1].obj # s.stack[Len(s.stack)].obj
  <2>1. Len(s.stack) - 1 \in 1 .. Len(s.stack) - 1 BY <1>1, <1>3
  <2>2. Linked(s, Len(s.stack) - 1) BY <2>1, PathParts DEF WInv
  <2>3. Pair(s, Len(s.stack) - 1) => TopOf(s).names = <<>> /\ TopOf(s).src = FALSE
    BY <1>1, <1>2, <2>2 DEF Linked
  <2> QED BY <1>2, <2>3 DEF Pair
<1>4. WhatOf(s, Len(s.stack)) = "values" BY <1>1, <1>3 DEF WhatOf
<1>5. Len(t.stack) = Len(s.stack) /\ SameBelow(s, t) /\ t.stack[Len(s.stack)] = f
  BY DEF Turns, TopOf
<1>6. ~Closed(t)
  <2>1. SUFFICES ASSUME Len(s.stack) > 1 PROVE ~Pair(t, Len(s.stack) - 1) BY <1>5 DEF Closed
  <2>2. t.stack[Len(s.stack) - 1] = s.stack[Len(s.stack) - 1] BY <1>1, <1>5, <2>1 DEF SameBelow
  <2> QED BY <1>1, <1>2, <1>3, <1>5, <2>1, <2>2 DEF Pair
<1> QED BY <1>4, <1>6

\* Neither side has a new object.
LEMMA TurnedMatches ==
  ASSUME ReaderInv, NEW s, WInv(s), NEW t, WInv(t), Matches(s), NEW f, Turns(s, t, f),
         f.obj = TopOf(s).obj, Pending(t) <=> Pending(s), t.stack # <<>>, ~Closed(t),
         StringsMatch(t, strTab'), TraitsMatch(t, traitTab'), objTab' = objTab, made' = made,
         pos = Len(t.stream), pos + 1 <= Len(stream) + 1, Advance,
         BelowMatches(t, rstack'), TopMatches(t, rstack')
  PROVE  Matches(t)'
<1>1. MadeMatches(s, made) /\ ObjectsMatch(s, objTab) BY DEF Matches
<1>2. MadeMatches(t, made) /\ ObjectsMatch(t, objTab) BY <1>1, StillMatches
<1>3. MadeMatches(t, made') /\ ObjectsMatch(t, objTab') BY <1>2
<1>4. pos' = Len(t.stream) + 1 /\ pos' <= Len(stream') + 1 BY DEF Advance
<1> QED BY <1>3, <1>4, MatchesNext

\* The reader has made the node that it was waiting to make.
LEMMA ArrivedMatches ==
  ASSUME ReaderInv, NEW s, WInv(s), NEW t, WInv(t), Earlier(s, t), Matches(s), NEW f, Turns(s, t, f),
         f.obj = TopOf(s).obj, Pending(s), ~Pending(t), t.stack # <<>>, ~Closed(t),
         StringsMatch(t, strTab'), TraitsMatch(t, traitTab'),
         NEW o, o = TopOf(s).obj,
         NEW kind \in {"root", "leaf", "array", "object", "hash", "dict"},
         kind = ReadAs(t.heap[o].kind), NEW cls \in Strings \cup {None},
         t.heap[o].kind = "object" => cls = WireName(t.heap[o].tr),
         objTab' = Append(objTab, Len(made) + 1), made' = Append(made, MadeNode(kind, cls)),
         pos = Len(t.stream), pos + 1 <= Len(stream) + 1, Advance,
         BelowMatches(t, rstack'), TopMatches(t, rstack')
  PROVE  Matches(t)'
<1>1. /\ MadeMatches(s, made) /\ ObjectsMatch(s, objTab)
      /\ made \in Seq(ReadNode) /\ objTab \in Seq(ReaderValue)
  BY DEF Matches, ReaderInv, ReaderTypeOK
<1>2. /\ MadeMatches(t, Append(made, MadeNode(kind, cls)))
      /\ ObjectsMatch(t, Append(objTab, Len(made) + 1))
  BY <1>1, Arrives
<1>3. MadeMatches(t, made') /\ ObjectsMatch(t, objTab') BY <1>2
<1>4. pos' = Len(t.stream) + 1 /\ pos' <= Len(stream') + 1 BY DEF Advance
<1> QED BY <1>3, <1>4, MatchesNext

\* The name of a class, a member or a type is written.
NextName(s, t, g) ==
  /\ s.stack # <<>> /\ TopOf(s).names \in Seq(Strings) /\ TopOf(s).names # <<>>
  /\ g = Shorter(TopOf(s)) /\ Turns(s, t, g) /\ Head(TopOf(s).names) \in Strings
  /\ Puts(s, t, Head(TopOf(s).names), FALSE)
  /\ g.obj = TopOf(s).obj /\ g.names = Tail(TopOf(s).names) /\ g.src = TopOf(s).src
  /\ g.left = TopOf(s).left /\ g.members = TopOf(s).members /\ g.dyn = TopOf(s).dyn
  /\ g.key = TopOf(s).key
  /\ Len(TopOf(s).names) \in Nat \ {0} /\ Len(Tail(TopOf(s).names)) = Len(TopOf(s).names) - 1
  /\ TopOf(t) = g /\ t.heap = s.heap /\ Len(t.stack) = Len(s.stack) /\ t.stack # <<>>
  /\ WhatOf(s, Len(s.stack)) = "values" /\ ~Closed(t) /\ TopOf(s).src \in BOOLEAN
LEMMA NamePut ==
  ASSUME NEW s, WInv(s), NEW t, WInv(t), SaysName(s, t)
  PROVE  \E g : NextName(s, t, g)
<1>1. /\ s.stack # <<>> /\ Typed(s) /\ Typed(t) /\ TopOf(s).names # <<>>
      /\ Turns(s, t, Shorter(TopOf(s))) /\ Puts(s, t, Head(TopOf(s).names), FALSE)
  BY DEF SaysName, Turns, WInv
<1>2. PICK g : g = Shorter(TopOf(s)) OBVIOUS
<1>3. TopOf(s).names \in Seq(Strings) /\ Len(s.stack) \in Nat \ {0} /\ TopOf(s).src \in BOOLEAN
  BY <1>1, TopTypes
<1>4. PICK ns : ns = TopOf(s).names OBVIOUS
<1>5. Head(ns) \in Strings /\ Len(ns) \in Nat \ {0} /\ Len(Tail(ns)) = Len(ns) - 1
  <2>1. ns \in Seq(Strings) /\ ns # <<>> BY <1>1, <1>3, <1>4
  <2> QED BY <2>1
<1>6. /\ g.obj = TopOf(s).obj /\ g.names = Tail(TopOf(s).names) /\ g.src = TopOf(s).src
      /\ g.left = TopOf(s).left /\ g.members = TopOf(s).members /\ g.dyn = TopOf(s).dyn
      /\ g.key = TopOf(s).key
  BY <1>1, <1>2, TurnedIs
<1>7. Turns(s, t, g) BY <1>1, <1>2
<1>8. TopOf(t) = g /\ t.heap = s.heap /\ Len(t.stack) = Len(s.stack) BY <1>7 DEF Turns, SameGraph
<1>9. t.stack # <<>> BY <1>1, <1>3, <1>8, SnapshotTypes
<1>10. WhatOf(s, Len(s.stack)) = "values" /\ ~Closed(t) BY <1>1, <1>6, <1>7, HeaderAlone
<1>11. NextName(s, t, g)
  BY <1>1, <1>2, <1>3, <1>4, <1>5, <1>6, <1>7, <1>8, <1>9, <1>10 DEF NextName
<1> QED BY <1>11

\* The frame at the top of the reader's stack is another one.
LEMMA RTurned ==
  ASSUME ReaderInv, NEW r \in ReadFrame, NEW u, u = Append(RBelow, r)
  PROVE  /\ Len(u) = Len(rstack) /\ u[Len(u)] = r /\ Len(rstack) \in Nat \ {0}
         /\ \A j \in 1 .. Len(rstack) - 1 : u[j] = rstack[j]
<1>1. rstack \in Seq(ReadFrame) /\ rstack # <<>> /\ Len(rstack) \in Nat \ {0} BY ReadTop
<1>2. u = Append(SubSeq(rstack, 1, Len(rstack) - 1), r) BY DEF RBelow
<1> HIDE DEF ReadFrame
<1> QED BY <1>1, <1>2, Replaced

\* The type of a vector, which is read and dropped.
LEMMA FollowsType ==
  ASSUME Faithful, NEW s, NEW t, NEW F, Facing(s, t, F), SaysName(s, t),
         s.heap[TopOf(s).obj].kind = "vector"
  PROVE  Follows(s, t, F)
<1>1. /\ WInv(s) /\ WInv(t) /\ WStep(s, t) /\ Earlier(s, t) /\ Typed(s) /\ Typed(t)
      /\ ReaderInv /\ rstat = "run" /\ Matches(s) /\ stream \in Seq(Token) /\ TopMatches(s, rstack)
  BY DEF Facing, WInv, Matches
<1>2. PICK g : NextName(s, t, g) BY <1>1, NamePut
<1>3. /\ s.stack # <<>> /\ TopOf(s).names # <<>> /\ Turns(s, t, g) /\ g.obj = TopOf(s).obj
      /\ Head(TopOf(s).names) \in Strings /\ Puts(s, t, Head(TopOf(s).names), FALSE)
      /\ g.names = Tail(TopOf(s).names) /\ g.src = TopOf(s).src /\ g.left = TopOf(s).left
      /\ g.members = TopOf(s).members /\ g.dyn = TopOf(s).dyn /\ g.key = TopOf(s).key
      /\ TopOf(t) = g /\ t.heap = s.heap /\ Len(t.stack) = Len(s.stack) /\ t.stack # <<>>
      /\ WhatOf(s, Len(s.stack)) = "values" /\ ~Closed(t)
  BY <1>2 DEF NextName
<1>4. TopOf(s).src = FALSE /\ g.names = <<>>
  <2>1. Begun(s) BY <1>1 DEF WInv
  <2>2. TopOf(s).src # TRUE /\ Len(TopOf(s).names) = 1 BY <1>3, <2>1 DEF Begun
  <2>3. PICK ns : ns = Tail(TopOf(s).names) OBVIOUS
  <2>4. Len(ns) = 0 /\ ns \in Seq(Strings) BY <1>2, <2>2, <2>3 DEF NextName
  <2>5. ns = <<>> BY <2>4
  <2> QED BY <1>2, <1>3, <2>2, <2>3, <2>5 DEF NextName
<1>5. /\ Len(rstack) = Ground(s, Len(s.stack)) /\ FrameMatches(s, Len(s.stack), "type", RTop)
  BY <1>1, <1>3 DEF TopMatches, AtNames, AtSource, AtType, AtValues, AtEnd, Naming, RTop
<1>6. RTop.what = "type" BY <1>5 DEF FrameMatches
<1>7. CASE Failed /\ Len(stream) < Len(F) BY <1>7 DEF Follows
<1>8. CASE /\ pos = Len(t.stream) /\ pos + 1 <= Len(stream) + 1
           /\ StringsMatch(t, StringTableAfter(Tok)) /\ ReadTypeName
  <2>1. PICK r : r = [RTop EXCEPT !.what = "values"] OBVIOUS
  <2>2. /\ rstack' = Append(RBelow, r) /\ Advance /\ strTab' = StringTableAfter(Tok)
        /\ objTab' = objTab /\ traitTab' = traitTab /\ made' = made
    BY <1>8, <2>1 DEF ReadTypeName, TypeNameKept
  <2>3. /\ r \in ReadFrame /\ r.what = "values" /\ r.node = RTop.node /\ r.left = RTop.left
        /\ r.members = RTop.members /\ r.dyn = RTop.dyn /\ r.key = RTop.key
    <3>1. RTop \in ReadFrame BY <1>1, ReadTop
    <3> QED BY <2>1, <3>1, FrameSteps
  <2>4. PICK u : u = Append(RBelow, r) OBVIOUS
  <2>5. /\ Len(u) = Len(rstack) /\ u[Len(u)] = r /\ Len(rstack) \in Nat \ {0}
        /\ \A j \in 1 .. Len(rstack) - 1 : u[j] = rstack[j]
    BY <1>1, <2>3, <2>4, RTurned
  <2>6. /\ BelowMatches(t, u) /\ Len(s.stack) \in Nat \ {0} /\ Len(s.stack) \in 1 .. Len(t.stack)
        /\ Ground(t, Len(s.stack)) = Ground(s, Len(s.stack))
        /\ Seat(t, Len(s.stack)) = Seat(s, Len(s.stack))
        /\ WhatOf(t, Len(s.stack)) = WhatOf(s, Len(s.stack))
        /\ ~Lags(t, Len(s.stack)) /\ t.stack[Len(s.stack)] = g
    <3>1. /\ \A j \in 1 .. Ground(s, Len(s.stack)) - 1 : u[j] = rstack[j]
          /\ WInv(s) /\ WInv(t) /\ WStep(s, t) /\ Matches(s) /\ Turns(s, t, g)
          /\ g.obj = TopOf(s).obj /\ SaysName(s, t)
      BY <1>1, <1>3, <1>5, <2>5
    <3>2. ReaderInv BY <1>1
    <3> QED BY <3>1, <3>2, TopTurned
  <2>7. AtValues(t, u)
    <3>1. PICK n : n = Len(s.stack) OBVIOUS
    <3>2. s.heap[s.stack[n].obj].kind = "vector" /\ g.obj = s.stack[n].obj BY <1>3, <3>1 DEF TopOf
    <3>3. Seat(s, n) = Ground(s, n) BY <1>1, <2>6, <3>1, <3>2, SeatTypes, <1>3
    <3>4. ~Lags(s, n) BY <2>6, <3>1 DEF Lags
    <3>5. /\ r.what = "values" /\ r.node = s.heap[g.obj].nth /\ r.members = g.members
          /\ r.dyn = g.dyn /\ r.left = g.left /\ r.key = g.key
      BY <1>3, <1>5, <2>3, <3>1, <3>2, <3>4 DEF FrameMatches, TopOf
    <3>6. FrameMatches(t, n, "values", r) BY <1>3, <2>6, <3>1, <3>5 DEF FrameMatches
    <3>7. Len(u) = Seat(t, n) /\ WhatOf(t, n) = "values" /\ t.heap[t.stack[n].obj].kind # "ac"
      BY <1>3, <1>5, <2>5, <2>6, <3>1, <3>2, <3>3
    <3>8. Held(t, n, u) BY <2>5, <3>6, <3>7 DEF Held
    <3>9. n = Len(t.stack) BY <1>3, <3>1
    <3> QED BY <1>3, <1>4, <3>7, <3>8, <3>9 DEF AtValues
  <2>8. (Pending(t) <=> Pending(s)) /\ Unnamed(t) = Unnamed(s)
    BY <1>3, <1>4 DEF Pending, Unnamed, Naming
  <2>9. TraitsMatch(t, traitTab') BY <1>1, <1>3, <2>2, <2>8, TraitsStay DEF Turns, Matches
  <2>10. BelowMatches(t, rstack') /\ TopMatches(t, rstack') /\ StringsMatch(t, strTab')
    BY <1>8, <2>2, <2>4, <2>6, <2>7 DEF TopMatches
  <2>11. Matches(t)' BY <1>1, <1>3, <1>8, <2>2, <2>8, <2>9, <2>10, TurnedMatches
  <2>12. rstat' = rstat /\ stream' = stream BY <2>2 DEF Advance
  <2> QED BY <2>11, <2>12 DEF Follows
<1> QED BY <1>3, <1>6, <1>7, <1>8, NameComes

\* The reader has read the names before this one.
LEMMA NamesRead ==
  ASSUME NEW s, WInv(s), s.stack # <<>>, TopOf(s).names # <<>>, s.heap[TopOf(s).obj].kind # "vector",
         TopMatches(s, rstack)
  PROVE  /\ AtNames(s, rstack) /\ Naming(s) /\ Pending(s)
         /\ Suffix(TopOf(s).names, Full(TrOf(s, TopOf(s).obj)))
         /\ TopOf(s).obj \in Obj /\ TrOf(s, TopOf(s).obj) \in Traits
         /\ TopOf(s).key = None
         /\ IF TrOf(s, TopOf(s).obj) = ACTraits
            THEN s.heap[TopOf(s).obj].kind = "ac" /\ TopOf(s).src = TRUE
            ELSE /\ s.heap[TopOf(s).obj].kind = "object" /\ TopOf(s).src = FALSE
                 /\ TopOf(s).left = Owed(TrOf(s, TopOf(s).obj))
                 /\ TopOf(s).members = Sealed(TrOf(s, TopOf(s).obj))
                 /\ TopOf(s).dyn = OpenEnded(TrOf(s, TopOf(s).obj))
                 /\ s.heap[TopOf(s).obj].tr = TrOf(s, TopOf(s).obj)
<1> DEFINE f == TopOf(s)
           o == f.obj
           tr == TrOf(s, o)
<1>1. AtNames(s, rstack) /\ Naming(s) /\ Pending(s)
  BY DEF TopMatches, AtNames, AtSource, AtType, AtValues, AtEnd, Naming, Pending
<1>2. f.src \in BOOLEAN BY TopTypes DEF WInv
<1>3. /\ f.names # <<>> => s.heap[o].kind \in {"ac", "object", "vector"}
      /\ s.heap[o].kind = "ac" => f.src = TRUE
      /\ f.src = TRUE => s.heap[o].kind = "ac"
      /\ Suffix(f.names, Full(tr)) /\ f.key = None /\ o \in Obj
      /\ s.heap[o].kind = "object" =>
           f.left = Owed(s.heap[o].tr) /\ f.members = Sealed(s.heap[o].tr) /\ f.dyn = OpenEnded(s.heap[o].tr)
  <2>1. Begun(s) BY DEF WInv
  <2> QED BY <1>1, <2>1 DEF Begun
<1>4. s.heap[o].kind \in {"ac", "object"} BY <1>3
<1>5. tr \in Traits /\ (s.heap[o].kind = "object" => tr # ACTraits)
  <2>1. Cached(s) BY DEF WInv
  <2> QED BY <1>3, <1>4, <2>1 DEF Cached
<1>6. s.heap[o].kind = "ac" => tr = ACTraits BY DEF TrOf
<1>7. s.heap[o].kind = "object" => tr = s.heap[o].tr BY DEF TrOf
<1> QED BY <1>1, <1>2, <1>3, <1>4, <1>5, <1>6, <1>7

\* There are more names to come.
LEMMA FollowsEarlyName ==
  ASSUME Faithful, NEW s, NEW t, NEW F, Facing(s, t, F), SaysName(s, t),
         s.heap[TopOf(s).obj].kind # "vector", Len(TopOf(s).names) # 1
  PROVE  Follows(s, t, F)
<1>1. /\ WInv(s) /\ WInv(t) /\ WStep(s, t) /\ Earlier(s, t) /\ Typed(s) /\ Typed(t)
      /\ ReaderInv /\ rstat = "run" /\ Matches(s) /\ stream \in Seq(Token) /\ TopMatches(s, rstack)
  BY DEF Facing, WInv, Matches
<1>2. PICK g : NextName(s, t, g) BY <1>1, NamePut
<1>3. /\ s.stack # <<>> /\ TopOf(s).names # <<>> /\ Turns(s, t, g) /\ g.obj = TopOf(s).obj
      /\ Head(TopOf(s).names) \in Strings /\ Puts(s, t, Head(TopOf(s).names), FALSE)
      /\ g.names = Tail(TopOf(s).names) /\ g.src = TopOf(s).src
      /\ TopOf(t) = g /\ t.heap = s.heap /\ Len(t.stack) = Len(s.stack) /\ t.stack # <<>>
      /\ ~Closed(t) /\ TopOf(s).names \in Seq(Strings) /\ Len(TopOf(s).names) \in Nat \ {0}
      /\ Len(Tail(TopOf(s).names)) = Len(TopOf(s).names) - 1
  BY <1>2 DEF NextName
<1> DEFINE f == TopOf(s)
           tr == TrOf(s, f.obj)
<1>4. /\ AtNames(s, rstack) /\ Naming(s) /\ Pending(s) /\ Suffix(f.names, Full(tr))
      /\ f.obj \in Obj /\ tr \in Traits
  BY <1>1, <1>3, NamesRead
<1>5. /\ Len(rstack) = Ground(s, Len(s.stack)) /\ RTop.what = "names" /\ RTop.hdr = tr
      /\ RTop.left = Len(f.names) /\ Len(RTop.names) = Len(Full(tr)) - Len(f.names)
      /\ \A j \in 1 .. Len(RTop.names) : RTop.names[j] = Full(tr)[j]
  BY <1>4 DEF AtNames, RTop
<1>6. RTop.left > 1 /\ RTop.left > 0 /\ g.names # <<>>
  <2>0. PICK m : m = Len(f.names) OBVIOUS
  <2>a. m \in Nat \ {0} /\ m # 1 BY <1>3, <2>0
  <2>b. m > 1 /\ m \in Nat BY <2>a
  <2>1. Len(f.names) > 1 /\ Len(f.names) \in Nat BY <2>0, <2>b
  <2>2. PICK ns : ns = Tail(f.names) OBVIOUS
  <2>3. Len(ns) # 0 BY <1>3, <2>1, <2>2
  <2>4. Len(<<>>) = 0 OBVIOUS
  <2>5. ns # <<>> BY <2>3, <2>4
  <2> QED BY <1>3, <1>5, <2>1, <2>2, <2>5
<1>7. CASE Failed /\ Len(stream) < Len(F) BY <1>7 DEF Follows
<1>8. CASE /\ pos = Len(t.stream) /\ pos + 1 <= Len(stream) + 1
           /\ StringRead(Tok) = Head(f.names)
           /\ StringsMatch(t, StringTableAfter(Tok)) /\ ReadName
  <2>1. PICK ns : ns = Append(RTop.names, Head(f.names)) OBVIOUS
  <2>2. PICK r : r = [RTop EXCEPT !.names = ns, !.left = @ - 1] OBVIOUS
  <2>3. /\ rstack' = Append(RBelow, r) /\ Advance /\ strTab' = StringTableAfter(Tok)
        /\ objTab' = objTab /\ traitTab' = traitTab /\ made' = made
    BY <1>6, <1>8, <2>1, <2>2 DEF ReadName
  <2>4. RTop \in ReadFrame /\ RTop.names \in Seq(Strings \cup {None}) BY <1>1, ReadTop, FieldTypes
  <2>5. /\ ns \in Seq(Strings \cup {None}) /\ Len(ns) = Len(RTop.names) + 1 /\ Len(RTop.names) \in Nat
        /\ ns[Len(RTop.names) + 1] = Head(f.names)
        /\ \A j \in 1 .. Len(RTop.names) : ns[j] = RTop.names[j]
    <3>1. Head(f.names) \in Strings \cup {None} BY <1>3
    <3> QED BY <2>1, <2>4, <3>1, Appended, Elements
  <2>6. /\ r \in ReadFrame /\ r.what = "names" /\ r.left = RTop.left - 1 /\ r.names = ns /\ r.hdr = tr
    BY <1>5, <1>6, <2>2, <2>4, <2>5, FrameSteps
  <2>7. PICK u : u = Append(RBelow, r) OBVIOUS
  <2>8. /\ Len(u) = Len(rstack) /\ u[Len(u)] = r /\ Len(rstack) \in Nat \ {0}
        /\ \A j \in 1 .. Len(rstack) - 1 : u[j] = rstack[j]
    BY <1>1, <2>6, <2>7, RTurned
  <2>9. BelowMatches(t, u) /\ Ground(t, Len(s.stack)) = Ground(s, Len(s.stack))
    <3>1. /\ \A j \in 1 .. Ground(s, Len(s.stack)) - 1 : u[j] = rstack[j]
          /\ WInv(s) /\ WInv(t) /\ WStep(s, t) /\ Matches(s) /\ Turns(s, t, g)
          /\ g.obj = TopOf(s).obj /\ SaysName(s, t)
      BY <1>1, <1>3, <1>5, <2>8
    <3>2. ReaderInv BY <1>1
    <3> QED BY <3>1, <3>2, TopTurned
  <2>10. /\ (Pending(t) <=> Pending(s)) /\ Unnamed(t) = Unnamed(s) /\ Naming(t) /\ TrOf(t, g.obj) = tr
    BY <1>3, <1>4, <1>6 DEF Pending, Unnamed, Naming, TrOf
  <2>11. AtNames(t, u)
    <3>1. Len(Full(tr)) \in Nat
      <4>1. WireName(tr) \in Strings /\ Members[tr] \in Seq(Strings) BY <1>4, TraitKeys0
      <4>2. Full(tr) \in Seq(Strings) BY <4>1 DEF Full
      <4> QED BY <4>2, Elements
    <3>2. PICK m, n, k : m = Len(f.names) /\ n = Len(Full(tr)) /\ k = Len(RTop.names) OBVIOUS
    <3>3. m \in Nat \ {0} /\ n \in Nat /\ k \in Nat /\ k = n - m BY <1>3, <1>5, <2>5, <3>1, <3>2
    <3>4. f.names[1] = Full(tr)[n - m + 1]
      <4>1. 1 \in 1 .. m BY <3>3
      <4> QED BY <1>4, <3>2, <4>1 DEF Suffix
    <3>5. Head(f.names) = f.names[1] OBVIOUS
    <3>6. ASSUME NEW j \in 1 .. Len(ns) PROVE ns[j] = Full(tr)[j]
      <4>1. CASE j \in 1 .. k BY <1>5, <2>5, <3>2, <4>1
      <4>2. CASE j = k + 1 BY <2>5, <3>2, <3>3, <3>4, <3>5, <4>2
      <4>3. Len(ns) = k + 1 BY <2>5, <3>2
      <4>4. j \in 1 .. k \/ j = k + 1 BY <3>3, <3>6, <4>3
      <4> QED BY <4>1, <4>2, <4>4
    <3>7. Len(ns) = n - Len(g.names) /\ r.left = Len(g.names)
      <4>1. Len(g.names) = m - 1 BY <1>3, <3>2
      <4>2. Len(ns) = k + 1 BY <2>5, <3>2
      <4>3. r.left = m - 1 BY <1>5, <2>6, <3>2
      <4> QED BY <3>3, <4>1, <4>2, <4>3
    <3>8. Len(u) = Ground(t, Len(t.stack)) BY <1>3, <1>5, <2>8, <2>9
    <3> QED BY <1>3, <2>6, <2>8, <2>10, <3>2, <3>6, <3>7, <3>8 DEF AtNames
  <2>12. TraitsMatch(t, traitTab') BY <1>1, <1>3, <2>3, <2>10, TraitsStay DEF Turns, Matches
  <2>13. BelowMatches(t, rstack') /\ TopMatches(t, rstack') /\ StringsMatch(t, strTab')
    BY <1>8, <2>3, <2>7, <2>9, <2>11 DEF TopMatches
  <2>14. Matches(t)' BY <1>1, <1>3, <1>8, <2>3, <2>10, <2>12, <2>13, TurnedMatches
  <2>15. rstat' = rstat /\ stream' = stream BY <2>3 DEF Advance
  <2> QED BY <2>14, <2>15 DEF Follows
<1> QED BY <1>3, <1>5, <1>7, <1>8, NameComes

LEMMA SameSequence ==
  ASSUME NEW S, NEW u \in Seq(S), NEW v \in Seq(S), Len(u) = Len(v),
         \A i \in 1 .. Len(u) : u[i] = v[i]
  PROVE  u = v
  OBVIOUS

LEMMA FirstAndRest ==
  ASSUME NEW S, NEW x \in S, NEW ms \in Seq(S)
  PROVE  /\ <<x>> \o ms \in Seq(S) /\ Head(<<x>> \o ms) = x /\ Tail(<<x>> \o ms) = ms
         /\ Len(<<x>> \o ms) = Len(ms) + 1 /\ <<x>> \o ms # <<>>
<1>1. PICK a : a = <<x>> \o ms OBVIOUS
<1>2. /\ a \in Seq(S) /\ Len(a) = Len(ms) + 1 /\ Len(ms) \in Nat /\ a[1] = x
      /\ \A i \in 1 .. Len(ms) : a[i + 1] = ms[i]
  BY <1>1
<1>3. a # <<>>
  <2>1. Len(<<>>) = 0 OBVIOUS
  <2>2. Len(a) # 0 BY <1>2
  <2> QED BY <2>1, <2>2
<1>4. Head(a) = x BY <1>2
<1>5. Tail(a) \in Seq(S) /\ Len(Tail(a)) = Len(ms) /\ \A i \in 1 .. Len(ms) : Tail(a)[i] = a[i + 1]
  BY <1>2, <1>3
<1>6. Tail(a) = ms
  <2>1. PICK b : b = Tail(a) OBVIOUS
  <2>2. b \in Seq(S) /\ Len(b) = Len(ms) /\ \A i \in 1 .. Len(b) : b[i] = ms[i] BY <1>2, <1>5, <2>1
  <2>3. b = ms BY <2>2, SameSequence
  <2> QED BY <2>1, <2>3
<1> QED BY <1>1, <1>2, <1>3, <1>4, <1>6

\* The last name completes the description.
LEMMA LastName ==
  ASSUME Faithful, ReaderInv, NEW tr \in Traits, ReadName, RTop.what = "names", RTop.hdr = tr,
         RTop.left = 1, Len(RTop.names) = Len(Full(tr)) - 1,
         \A j \in 1 .. Len(RTop.names) : RTop.names[j] = Full(tr)[j],
         StringRead(Tok) = Full(tr)[Len(Full(tr))]
  PROVE  /\ traitTab' = Append(traitTab, Described(tr)) /\ BeginObject(Described(tr), RBelow)
         /\ strTab' = StringTableAfter(Tok) /\ Advance
<1>1. /\ WireName(tr) \in Strings /\ Members[tr] \in Seq(Strings) BY TraitKeys0
<1>2. PICK S : S = Strings \cup {None} OBVIOUS
<1>3. WireName(tr) \in S /\ Members[tr] \in Seq(S) /\ RTop.names \in Seq(S)
  <2>1. RTop.names \in Seq(S) BY <1>2, ReadTop, FieldTypes
  <2>2. Members[tr] \in Seq(S) BY <1>1, <1>2
  <2> QED BY <1>1, <1>2, <2>1, <2>2
<1>4. /\ Full(tr) \in Seq(S) /\ Head(Full(tr)) = WireName(tr) /\ Tail(Full(tr)) = Members[tr]
      /\ Len(Full(tr)) \in Nat /\ Full(tr) # <<>>
  <2>1. /\ Full(tr) \in Seq(S) /\ Head(Full(tr)) = WireName(tr) /\ Tail(Full(tr)) = Members[tr]
        /\ Full(tr) # <<>>
    BY <1>3, FirstAndRest DEF Full
  <2> QED BY <2>1, Elements
<1>5. PICK u : u = Full(tr) OBVIOUS
<1>6. Len(u) \in Nat \ {0} /\ u \in Seq(S)
  <2>1. u \in Seq(S) /\ u # <<>> BY <1>4, <1>5
  <2>2. Len(u) \in Nat /\ Len(u) # 0 BY <2>1, Elements
  <2> QED BY <2>1, <2>2
<1>7. PICK ns : ns = Append(RTop.names, StringRead(Tok)) OBVIOUS
<1>8. ns = Full(tr)
  <2>1. u[Len(u)] \in S
    <3>1. Len(u) \in 1 .. Len(u) BY <1>6
    <3> QED BY <1>6, <3>1, Elements
  <2>2. StringRead(Tok) \in S BY <1>5, <2>1
  <2>3. /\ ns \in Seq(S) /\ Len(ns) = Len(RTop.names) + 1
        /\ ns[Len(RTop.names) + 1] = StringRead(Tok)
        /\ \A i \in 1 .. Len(RTop.names) : ns[i] = RTop.names[i]
    BY <1>3, <1>7, <2>2, Appended
  <2>4. Len(RTop.names) = Len(u) - 1 BY <1>5
  <2>5. Len(ns) = Len(u) BY <1>6, <2>3, <2>4
  <2>6. ASSUME NEW i \in 1 .. Len(ns) PROVE ns[i] = u[i]
    <3>1. CASE i \in 1 .. Len(u) - 1 BY <1>5, <2>3, <2>4, <3>1
    <3>2. CASE i = Len(u)
      <4>1. Len(RTop.names) + 1 = Len(u) BY <1>6, <2>4
      <4> QED BY <1>5, <2>3, <3>2, <4>1
    <3>3. i \in 1 .. Len(u) - 1 \/ i = Len(u) BY <1>6, <2>5, <2>6
    <3> QED BY <3>1, <3>2, <3>3
  <2> QED BY <1>5, <1>6, <2>3, <2>5, <2>6, SameSequence
<1>9. ~(RTop.left > 1) OBVIOUS
<1>10. PICK d : d = [cls |-> Head(ns), members |-> Tail(ns), dyn |-> Dynamic[tr], ext |-> External[tr]]
  OBVIOUS
<1>11. d = Described(tr) BY <1>4, <1>8, <1>10, Zenon DEF Described
<1>12. /\ traitTab' = Append(traitTab, d) /\ BeginObject(d, RBelow)
       /\ strTab' = StringTableAfter(Tok) /\ Advance
  BY <1>7, <1>9, <1>10, Zenon DEF ReadName
<1> QED BY <1>11, <1>12

\* The last of the names: the reader makes the object, or comes to the source
\* array of a collection.
LEMMA FollowsLastName ==
  ASSUME Faithful, NEW s, NEW t, NEW F, Facing(s, t, F), SaysName(s, t),
         s.heap[TopOf(s).obj].kind # "vector", Len(TopOf(s).names) = 1
  PROVE  Follows(s, t, F)
<1>1. /\ WInv(s) /\ WInv(t) /\ WStep(s, t) /\ Earlier(s, t) /\ Typed(s) /\ Typed(t)
      /\ ReaderInv /\ rstat = "run" /\ Matches(s) /\ stream \in Seq(Token) /\ TopMatches(s, rstack)
  BY DEF Facing, WInv, Matches
<1>2. PICK g : NextName(s, t, g) BY <1>1, NamePut
<1>3. /\ s.stack # <<>> /\ TopOf(s).names # <<>> /\ Turns(s, t, g) /\ g.obj = TopOf(s).obj
      /\ Head(TopOf(s).names) \in Strings /\ Puts(s, t, Head(TopOf(s).names), FALSE)
      /\ g.names = Tail(TopOf(s).names) /\ g.src = TopOf(s).src /\ g.left = TopOf(s).left
      /\ g.members = TopOf(s).members /\ g.dyn = TopOf(s).dyn /\ g.key = TopOf(s).key
      /\ TopOf(t) = g /\ t.heap = s.heap /\ Len(t.stack) = Len(s.stack) /\ t.stack # <<>>
      /\ WhatOf(s, Len(s.stack)) = "values" /\ ~Closed(t)
  BY <1>2 DEF NextName
<1>4. g.names = <<>>
  <2>1. PICK ns : ns = Tail(TopOf(s).names) OBVIOUS
  <2>2. Len(ns) = 0 /\ ns \in Seq(Strings) BY <1>2, <2>1 DEF NextName
  <2>3. ns = <<>> BY <2>2
  <2> QED BY <1>3, <2>1, <2>3
<1>5. PICK o, tr : o = TopOf(s).obj /\ tr = TrOf(s, o) OBVIOUS
<1>6. /\ AtNames(s, rstack) /\ Naming(s) /\ Pending(s) /\ Suffix(TopOf(s).names, Full(tr))
      /\ o \in Obj /\ tr \in Traits /\ TopOf(s).key = None
      /\ tr = ACTraits => s.heap[o].kind = "ac" /\ TopOf(s).src = TRUE
      /\ tr # ACTraits => /\ s.heap[o].kind = "object" /\ TopOf(s).src = FALSE
                          /\ TopOf(s).left = Owed(tr) /\ TopOf(s).members = Sealed(tr)
                          /\ TopOf(s).dyn = OpenEnded(tr) /\ s.heap[o].tr = tr
  BY <1>1, <1>3, <1>5, NamesRead
<1>7. /\ Len(rstack) = Ground(s, Len(s.stack)) /\ RTop.what = "names" /\ RTop.hdr = tr
      /\ RTop.left = 1 /\ Len(RTop.names) = Len(Full(tr)) - 1
      /\ \A j \in 1 .. Len(RTop.names) : RTop.names[j] = Full(tr)[j]
  BY <1>5, <1>6 DEF AtNames, RTop
<1>8. Head(TopOf(s).names) = Full(tr)[Len(Full(tr))]
  <2>1. PICK ns, v : ns = TopOf(s).names /\ v = Full(tr) OBVIOUS
  <2>2. ns \in Seq(Strings) /\ Len(ns) = 1 BY <1>2, <2>1 DEF NextName
  <2>3. Len(v) \in Nat
    <3>1. WireName(tr) \in Strings /\ Members[tr] \in Seq(Strings) BY <1>6, TraitKeys0
    <3>2. Full(tr) \in Seq(Strings) BY <3>1 DEF Full
    <3> QED BY <2>1, <3>2, Elements
  <2>4. ns[1] = v[Len(v) - 1 + 1] BY <1>6, <2>1, <2>2 DEF Suffix
  <2>5. Len(v) - 1 + 1 = Len(v) BY <2>3
  <2> QED BY <2>1, <2>2, <2>4, <2>5
<1>9. Unnamed(t) = 0 BY <1>3, <1>4 DEF Unnamed, Naming
<1>10. CASE Failed /\ Len(stream) < Len(F) BY <1>10 DEF Follows
<1>11. CASE /\ pos = Len(t.stream) /\ pos + 1 <= Len(stream) + 1
            /\ StringRead(Tok) = Head(TopOf(s).names)
            /\ StringsMatch(t, StringTableAfter(Tok)) /\ ReadName
  <2>1. /\ traitTab' = Append(traitTab, Described(tr)) /\ BeginObject(Described(tr), RBelow)
        /\ strTab' = StringTableAfter(Tok) /\ Advance
    <3>1. StringRead(Tok) = Full(tr)[Len(Full(tr))] BY <1>8, <1>11
    <3> QED BY <1>1, <1>6, <1>7, <1>11, <3>1, LastName
  <2>2. rstat' = rstat /\ stream' = stream /\ StringsMatch(t, strTab') BY <1>11, <2>1 DEF Advance
  <2>3. TraitsMatch(t, traitTab')
    <3>1. traitTab \in Seq(TraitRecord) /\ TraitsMatch(s, traitTab) /\ SameTraits(s, t)
      BY <1>1, <1>3 DEF Matches, ReaderInv, ReaderTypeOK, Turns
    <3>2. Described(tr) \in TraitRecord BY <1>6, DescribedType
    <3> QED BY <1>1, <1>5, <1>6, <1>9, <2>1, <3>1, <3>2, TraitsNamed
  <2>4. made \in Seq(ReadNode) BY <1>1 DEF ReaderInv, ReaderTypeOK
  <2>5. ASSUME NEW r \in ReadFrame, NEW u, u = Append(RBelow, r)
        PROVE  /\ Len(u) = Ground(t, Len(t.stack)) /\ u[Len(u)] = r /\ BelowMatches(t, u)
               /\ WhatOf(t, Len(t.stack)) = "values" /\ Len(t.stack) >= 1
    <3>1. /\ Len(u) = Len(rstack) /\ u[Len(u)] = r /\ Len(rstack) \in Nat \ {0}
          /\ \A j \in 1 .. Len(rstack) - 1 : u[j] = rstack[j]
      BY <1>1, <2>5, RTurned
    <3>2. /\ BelowMatches(t, u) /\ Len(s.stack) \in Nat \ {0}
          /\ Ground(t, Len(s.stack)) = Ground(s, Len(s.stack))
          /\ WhatOf(t, Len(s.stack)) = WhatOf(s, Len(s.stack))
      <4>1. /\ \A j \in 1 .. Ground(s, Len(s.stack)) - 1 : u[j] = rstack[j]
            /\ WInv(s) /\ WInv(t) /\ WStep(s, t) /\ Matches(s) /\ Turns(s, t, g)
            /\ g.obj = TopOf(s).obj /\ SaysName(s, t)
        BY <1>1, <1>3, <1>7, <3>1
      <4>2. ReaderInv BY <1>1
      <4> QED BY <4>1, <4>2, TopTurned
    <3> QED BY <1>3, <1>7, <3>1, <3>2
  <2>6. CASE tr = ACTraits
    <3>1. PICK r : r = InnerFrame OBVIOUS
    <3>2. rstack' = Append(RBelow, r) /\ objTab' = objTab /\ made' = made
      BY <2>1, <2>6, <3>1, CollectionBegins
    <3>3. r \in ReadFrame /\ r.what = "inner" /\ r.left = 1 /\ r.dyn = FALSE
      <4>1. Called(InnerFrame, "inner", None, 1, <<>>, FALSE) BY CalledType
      <4> QED BY <3>1, <4>1 DEF Called
    <3>4. PICK u : u = Append(RBelow, r) OBVIOUS
    <3>5. Len(u) = Ground(t, Len(t.stack)) /\ u[Len(u)] = r /\ BelowMatches(t, u)
      BY <2>5, <3>3, <3>4
    <3>6. TopMatches(t, u) BY <1>3, <1>4, <1>6, <2>6, <3>3, <3>5 DEF TopMatches, AtSource, IsInner
    <3>7. Pending(t) <=> Pending(s) BY <1>3, <1>6, <2>6 DEF Pending
    <3>8. BelowMatches(t, rstack') /\ TopMatches(t, rstack') BY <3>2, <3>4, <3>5, <3>6
    <3>9. Matches(t)' BY <1>1, <1>3, <1>11, <2>1, <2>2, <2>3, <3>2, <3>7, <3>8, TurnedMatches
    <3> QED BY <2>2, <3>9 DEF Follows
  <2>7. CASE tr # ACTraits
    <3>1. PICK r \in ReadFrame :
            /\ rstack' = Append(RBelow, r)
            /\ objTab' = Append(objTab, Len(made) + 1)
            /\ made' = Append(made, MadeNode("object", WireName(tr)))
            /\ Called(r, "values", Len(made) + 1, Owed(tr), Sealed(tr), OpenEnded(tr))
      BY <1>6, <2>1, <2>4, <2>7, ObjectBegins
    <3>2. /\ r.what = "values" /\ r.node = Len(made) + 1 /\ r.left = Owed(tr)
          /\ r.members = Sealed(tr) /\ r.dyn = OpenEnded(tr) /\ r.key = None
      BY <3>1 DEF Called
    <3>3. PICK u : u = Append(RBelow, r) OBVIOUS
    <3>4. /\ Len(u) = Ground(t, Len(t.stack)) /\ u[Len(u)] = r /\ BelowMatches(t, u)
          /\ WhatOf(t, Len(t.stack)) = "values" /\ Len(t.stack) >= 1
      BY <2>5, <3>3
    <3>5. Pending(s) /\ ~Pending(t) BY <1>3, <1>4, <1>6, <2>7 DEF Pending
    <3>6. /\ t.heap[o].kind = "object" /\ t.heap[o].tr = tr /\ WireName(tr) \in Strings \cup {None}
          /\ "object" = ReadAs(t.heap[o].kind)
      BY <1>3, <1>6, <2>7, TraitKeys0 DEF ReadAs
    <3>7. t.heap[o].nth = Len(made) + 1
      <4>0. Begun(s) BY <1>1 DEF WInv
      <4>1. s.heap[o].nth = s.met BY <1>3, <1>5, <1>6, <4>0 DEF Begun
      <4>2. Len(made) = s.met - 1 /\ s.met \in Nat
        BY <1>1, <3>5, SnapshotTypes DEF Matches, MadeMatches, Waiting
      <4> QED BY <1>3, <4>1, <4>2
    <3>8. AtValues(t, u)
      <4>1. /\ u[Len(u)].what = "values" /\ u[Len(u)].node = t.heap[o].nth
            /\ u[Len(u)].left = TopOf(t).left /\ u[Len(u)].members = TopOf(t).members
            /\ u[Len(u)].dyn = TopOf(t).dyn /\ u[Len(u)].key = TopOf(t).key /\ TopOf(t).src = FALSE
            /\ TopOf(t).names = <<>> /\ TopOf(t).obj = o /\ t.heap[o].kind # "ac"
        BY <1>3, <1>4, <1>5, <1>6, <2>7, <3>2, <3>4, <3>6, <3>7
      <4> QED BY <1>1, <1>6, <3>4, <4>1, NewTop
    <3>9. BelowMatches(t, rstack') /\ TopMatches(t, rstack') BY <3>1, <3>3, <3>4, <3>8 DEF TopMatches
    <3>10. t.heap[o].kind = "object" => WireName(tr) = WireName(t.heap[o].tr) BY <3>6
    <3>11. Matches(t)'
      BY <1>1, <1>3, <1>5, <1>11, <2>1, <2>2, <2>3, <3>1, <3>5, <3>6, <3>9, <3>10, ArrivedMatches
    <3> QED BY <2>2, <3>11 DEF Follows
  <2> QED BY <2>6, <2>7
<1> QED BY <1>3, <1>7, <1>10, <1>11, NameComes

LEMMA FollowsName ==
  ASSUME Faithful, NEW s, NEW t, NEW F, Facing(s, t, F), SaysName(s, t)
  PROVE  Follows(s, t, F)
BY FollowsType, FollowsEarlyName, FollowsLastName

\* The header the writer has put is what the reader comes to next.
LEMMA HeaderComes ==
  ASSUME NEW s, NEW t, NEW F, Facing(s, t, F), RTop.what \notin {"names", "type"}, RTop.left > 0,
         NEW tok \in Token, Says(s, t, tok)
  PROVE  \/ Failed /\ Len(stream) < Len(F)
         \/ /\ Tok = tok /\ pos = Len(t.stream) /\ pos + 1 <= Len(stream) + 1 /\ ReadsValue
<1>1. Typed(s) /\ WInv(s) /\ WInv(t) /\ ReaderInv /\ ReaderNext /\ rstat = "run" BY DEF Facing, WInv
<1>2. /\ pos = Len(t.stream) /\ pos \in Nat
      /\ pos <= Len(stream) => Tok = tok /\ pos + 1 <= Len(stream) + 1
      /\ ~(pos <= Len(stream)) => pos > Len(stream) /\ Len(stream) < Len(F)
  <2>1. /\ F \in Seq(Token) /\ Extends(t.stream, F) /\ stream \in Seq(Token) /\ Extends(stream, F)
        /\ pos = Len(s.stream) + 1 /\ pos <= Len(stream) + 1
    BY DEF Facing, Matches
  <2> QED BY <1>1, <2>1, NextToken
<1>3. CASE pos <= Len(stream)
  <2>1. stream \in Seq(Token) BY DEF Facing
  <2>2. ReadsValue BY <1>1, <1>3, <2>1, ValueRead
  <2> QED BY <1>2, <1>3, <2>2
<1>4. CASE ~(pos <= Len(stream))
  <2>1. RTop.left \in Nat BY <1>1, ReadTop, FieldTypes
  <2>2. ~Complete(RTop) BY <2>1 DEF Complete
  <2>3. Len(stream) \in Nat BY Elements DEF Facing
  <2> QED BY <1>1, <1>2, <1>4, <2>2, <2>3, Missing
<1> QED BY <1>3, <1>4

\* The source array of a collection.
LEMMA FollowsSource ==
  ASSUME Faithful, NEW s, NEW t, NEW F, Facing(s, t, F), SaysSource(s, t)
  PROVE  Follows(s, t, F)
<1>1. /\ WInv(s) /\ WInv(t) /\ WStep(s, t) /\ Earlier(s, t) /\ Typed(s) /\ Typed(t)
      /\ ReaderInv /\ rstat = "run" /\ Matches(s) /\ stream \in Seq(Token) /\ TopMatches(s, rstack)
  BY DEF Facing, WInv, Matches
<1>2. PICK o, len, g : o = TopOf(s).obj /\ len = TopOf(s).len /\ g = [TopOf(s) EXCEPT !.src = FALSE]
  OBVIOUS
<1>3. /\ s.stack # <<>> /\ TopOf(s).names = <<>> /\ TopOf(s).src = TRUE /\ Turns(s, t, g)
      /\ Says(s, t, ArrayTok(len)) /\ SameStrings(s, t)
  BY <1>2 DEF SaysSource, Turns
<1>4. /\ g.obj = o /\ g.names = <<>> /\ g.src = FALSE /\ g.left = TopOf(s).left
      /\ g.members = TopOf(s).members /\ g.dyn = TopOf(s).dyn /\ g.key = TopOf(s).key
  BY <1>1, <1>2, <1>3, TurnedIs
<1>5. TopOf(t) = g /\ t.heap = s.heap /\ Len(t.stack) = Len(s.stack)
  BY <1>3 DEF Turns, SameGraph
<1>6. /\ Len(s.stack) \in Nat \ {0} /\ len \in Nat BY <1>1, <1>2, <1>3, TopTypes
<1>7. t.stack # <<>> BY <1>1, <1>5, <1>6, SnapshotTypes
<1>8. WhatOf(s, Len(s.stack)) = "values" /\ ~Closed(t)
  <2>1. g.obj = TopOf(s).obj BY <1>2, <1>4
  <2> QED BY <1>1, <1>3, <2>1, HeaderAlone
<1>9. Pending(s) /\ ~Pending(t) BY <1>3, <1>4, <1>5 DEF Pending
<1>10. /\ s.heap[o].kind = "ac" /\ TopOf(s).left = len /\ TopOf(s).members = <<>>
       /\ TopOf(s).dyn = FALSE /\ TopOf(s).key = None /\ o \in Obj /\ s.heap[o].nth = s.met
  <2>1. Begun(s) BY <1>1 DEF WInv
  <2> QED BY <1>2, <1>3, <1>9, <2>1 DEF Begun
<1>11. Len(rstack) = Ground(s, Len(s.stack)) /\ IsInner(RTop)
  BY <1>1, <1>3 DEF TopMatches, AtNames, AtSource, AtType, AtValues, AtEnd, Naming, RTop
<1>12. RTop.what = "inner" /\ RTop.left = 1 BY <1>11 DEF IsInner
<1>13. ArrayTok(len) \in Token BY <1>6, TokenTypes
<1>14. CASE Failed /\ Len(stream) < Len(F) BY <1>14 DEF Follows
<1>15. CASE Tok = ArrayTok(len) /\ pos = Len(t.stream) /\ pos + 1 <= Len(stream) + 1 /\ ReadsValue
  <2>1. Tok.t = "array" /\ Tok.n = len BY <1>15 DEF ArrayTok
  <2>2. ReadArray BY <1>15, <2>1 DEF ReadsValue
  <2>3. PICK n : n = Len(made) + 1 OBVIOUS
  <2>4. PICK r : r = ValuesFrame(n, len) OBVIOUS
  <2>5. /\ rstack' = rstack \o <<r>> /\ objTab' = Append(objTab, Len(made) + 1)
        /\ made' = Append(made, MadeNode("array", None)) /\ Advance
        /\ strTab' = strTab /\ traitTab' = traitTab
    BY <2>1, <2>2, <2>3, <2>4 DEF ReadArray, Open, NewNode
  <2>6. rstat' = rstat /\ stream' = stream BY <2>5 DEF Advance
  <2>7. Len(made) = s.met - 1 /\ s.met \in Nat
    BY <1>1, <1>9, SnapshotTypes DEF Matches, MadeMatches, Waiting
  <2>8. n \in ReaderValue /\ t.heap[o].nth = n
    <3>1. Len(made) \in Nat BY <1>1, Elements DEF ReaderInv, ReaderTypeOK
    <3>2. t.heap[o].nth = s.met BY <1>5, <1>10
    <3> QED BY <2>3, <2>7, <3>1, <3>2 DEF ReaderValue
  <2>9. /\ r \in ReadFrame /\ r.what = "values" /\ r.node = n /\ r.left = len
        /\ r.members = <<>> /\ r.dyn = FALSE /\ r.key = None
    BY <1>6, <2>4, <2>8, CalledType DEF Called
  <2>10. PICK u : u = rstack \o <<r>> OBVIOUS
  <2>11. /\ Len(u) = Len(rstack) + 1 /\ u[Len(rstack) + 1] = r /\ Len(rstack) \in Nat \ {0}
         /\ \A j \in 1 .. Len(rstack) : u[j] = rstack[j]
    <3>1. rstack \in Seq(ReadFrame) /\ Len(rstack) \in Nat \ {0} BY <1>1, ReadTop
    <3> HIDE DEF ReadFrame
    <3> QED BY <2>9, <2>10, <3>1, OneMore
  <2>12. /\ BelowMatches(t, u) /\ Len(s.stack) \in 1 .. Len(t.stack)
         /\ Ground(t, Len(s.stack)) = Ground(s, Len(s.stack))
         /\ Seat(t, Len(s.stack)) = Seat(s, Len(s.stack))
         /\ WhatOf(t, Len(s.stack)) = WhatOf(s, Len(s.stack))
         /\ ~Lags(t, Len(s.stack)) /\ t.stack[Len(s.stack)] = g
    <3>1. /\ \A j \in 1 .. Ground(s, Len(s.stack)) - 1 : u[j] = rstack[j]
          /\ WInv(s) /\ WInv(t) /\ WStep(s, t) /\ Matches(s) /\ Turns(s, t, g)
          /\ g.obj = TopOf(s).obj /\ SaysSource(s, t)
      BY <1>1, <1>2, <1>3, <1>4, <1>11, <2>11
    <3>2. ReaderInv BY <1>1
    <3> QED BY <3>1, <3>2, TopTurned
  <2>13. AtValues(t, u)
    <3>1. PICK m : m = Len(s.stack) OBVIOUS
    <3>2. Seat(t, m) = Ground(t, m) + 1 /\ Ground(t, m) = Len(rstack)
      BY <1>4, <1>5, <1>10, <1>11, <2>12, <3>1 DEF Seat, Extra
    <3>3. u[Seat(t, m)] = r /\ u[Ground(t, m)] = RTop /\ Len(u) = Seat(t, m)
      BY <2>11, <3>2 DEF RTop
    <3>4. FrameMatches(t, m, "values", r)
      BY <1>4, <1>10, <2>8, <2>9, <2>12, <3>1 DEF FrameMatches
    <3>5. Held(t, m, u) BY <1>8, <1>11, <2>12, <3>1, <3>3, <3>4 DEF Held
    <3>6. m = Len(t.stack) BY <1>5, <3>1
    <3> QED BY <1>4, <1>5, <3>3, <3>5, <3>6 DEF AtValues
  <2>14. Unnamed(t) = 0 /\ Unnamed(s) = 0 BY <1>3, <1>4, <1>5 DEF Unnamed, Naming
  <2>15. TraitsMatch(t, traitTab') BY <1>1, <1>3, <2>5, <2>14, TraitsStay DEF Turns, Matches
  <2>16. StringsMatch(t, strTab') BY <1>1, <1>3, <2>5, StringsStay DEF Matches
  <2>17. BelowMatches(t, rstack') /\ TopMatches(t, rstack') BY <2>5, <2>10, <2>12, <2>13 DEF TopMatches
  <2>18. "array" = ReadAs(t.heap[o].kind) /\ t.heap[o].kind # "object" BY <1>5, <1>10 DEF ReadAs
  <2>19. Matches(t)'
    BY <1>1, <1>2, <1>3, <1>4, <1>7, <1>8, <1>9, <1>15, <2>5, <2>15, <2>16, <2>17, <2>18, ArrivedMatches
  <2> QED BY <2>6, <2>19 DEF Follows
<1> QED BY <1>3, <1>12, <1>13, <1>14, <1>15, HeaderComes

\* The frame of a function that reads values or names of properties.
LEMMA TurnedValues ==
  ASSUME ReaderInv, NEW s, WInv(s), NEW t, WInv(t), WStep(s, t), Matches(s), NEW g, Turns(s, t, g),
         g.obj = TopOf(s).obj, g.names = <<>>, g.src = FALSE, g.members = TopOf(s).members,
         (\E k \in Keys \ {Empty} : WritesKey(s, t, k)) \/ Closes(s, t),
         AtValues(s, rstack), NEW r \in ReadFrame, r.what = RTop.what, r.node = RTop.node,
         r.members = RTop.members, r.left = g.left, r.dyn = g.dyn, r.key = g.key,
         NEW u, u = Append(RBelow, r)
  PROVE  BelowMatches(t, u) /\ AtValues(t, u)
<1>1. s.stack # <<>> /\ Typed(s) /\ Len(t.stack) = Len(s.stack) BY DEF Turns, WInv
<1>2. PICK n : n = Len(s.stack) OBVIOUS
<1>3. n \in Nat \ {0} /\ n \in 1 .. n /\ TopOf(s) = s.stack[n] BY <1>1, <1>2, TopTypes
<1>4. Len(rstack) = Seat(s, n) /\ Held(s, n, rstack) BY <1>2 DEF AtValues
<1>5. /\ Len(u) = Len(rstack) /\ u[Len(u)] = r /\ Len(rstack) \in Nat \ {0}
      /\ \A j \in 1 .. Len(rstack) - 1 : u[j] = rstack[j]
  BY RTurned
<1>6. /\ Ground(s, n) \in Nat \ {0} /\ Seat(s, n) \in {Ground(s, n), Ground(s, n) + 1}
      /\ s.heap[s.stack[n].obj].kind = "ac" => Seat(s, n) = Ground(s, n) + 1
  BY <1>1, <1>2, <1>3, SeatTypes
<1>7. \A j \in 1 .. Ground(s, n) - 1 : u[j] = rstack[j] BY <1>4, <1>5, <1>6
<1>8. /\ BelowMatches(t, u) /\ TopOf(t) = g
      /\ Ground(t, n) = Ground(s, n) /\ Seat(t, n) = Seat(s, n) /\ WhatOf(t, n) = WhatOf(s, n)
      /\ ~Lags(t, n) /\ t.heap = s.heap /\ t.stack[n] = g
  BY <1>2, <1>7, TopTurned
<1>9. RTop = rstack[Seat(s, n)] BY <1>4 DEF RTop
<1>10. r.what = WhatOf(s, n) /\ r.node = s.heap[g.obj].nth /\ r.members = g.members
  BY <1>3, <1>4, <1>9 DEF Held, FrameMatches
<1>11. FrameMatches(t, n, WhatOf(t, n), u[Seat(t, n)])
  BY <1>4, <1>5, <1>8, <1>10 DEF FrameMatches
<1>12. ASSUME t.heap[t.stack[n].obj].kind = "ac" PROVE IsInner(u[Ground(t, n)])
  <2>1. s.heap[s.stack[n].obj].kind = "ac" BY <1>3, <1>8, <1>12
  <2>2. IsInner(rstack[Ground(s, n)]) BY <1>4, <2>1 DEF Held
  <2>3. Ground(s, n) \in 1 .. Len(rstack) - 1 BY <1>4, <1>5, <1>6, <2>1
  <2> QED BY <1>5, <1>8, <2>2, <2>3
<1>13. Held(t, n, u) BY <1>11, <1>12 DEF Held
<1> QED BY <1>1, <1>2, <1>4, <1>5, <1>8, <1>13 DEF AtValues

\* The function at the top is in its dynamic part, on both sides.
LEMMA InDynamic ==
  ASSUME ReaderInv, NEW s, WInv(s), s.stack # <<>>, Open0(s), Matches(s)
  PROVE  /\ TopOf(s).src = FALSE /\ AtValues(s, rstack) /\ AtTop(s, RTop)
         /\ RTop.left = 0 /\ RTop.dyn = TRUE /\ RTop.what \in {"values", "entries"}
         /\ RTop.what = WhatOf(s, Len(s.stack)) /\ RTop \in ReadFrame
         /\ RTop.what = "entries" => Len(s.stack) > 1 /\ Pair(s, Len(s.stack) - 1)
         /\ ~Pending(s) /\ Unnamed(s) = 0
<1>1. Typed(s) /\ Begun(s) /\ TopMatches(s, rstack) BY DEF WInv, Matches
<1>2. TopOf(s).names = <<>> /\ TopOf(s).left = 0 /\ TopOf(s).dyn = TRUE BY DEF Open0
<1>3. TopOf(s).src = FALSE
  <2>1. TopOf(s).src \in BOOLEAN BY <1>1, TopTypes
  <2> QED BY <1>1, <1>2, <2>1 DEF Begun
<1>4. AtValues(s, rstack) BY <1>1, <1>2, <1>3, OnlyValues
<1>5. ~Pending(s) /\ Unnamed(s) = 0 BY <1>2, <1>3 DEF Pending, Unnamed, Naming
<1>6. RTop \in ReadFrame BY ReadTop
<1> QED BY <1>1, <1>2, <1>3, <1>4, <1>5, <1>6, TopIs DEF RTop

\* The name of a property.
LEMMA FollowsKey ==
  ASSUME Faithful, NEW s, NEW t, NEW F, Facing(s, t, F), NEW k \in Keys \ {Empty}, WritesKey(s, t, k)
  PROVE  Follows(s, t, F)
<1>1. /\ WInv(s) /\ WInv(t) /\ WStep(s, t) /\ Earlier(s, t) /\ Typed(s) /\ Typed(t)
      /\ ReaderInv /\ rstat = "run" /\ Matches(s) /\ stream \in Seq(Token)
  BY DEF Facing, WInv
<1>2. PICK g : g = [TopOf(s) EXCEPT !.left = 1, !.key = k] OBVIOUS
<1>3. /\ s.stack # <<>> /\ Turns(s, t, g) /\ Open0(s) /\ Puts(s, t, k, FALSE)
  BY <1>2 DEF WritesKey, Turns
<1>4. /\ TopOf(s).src = FALSE /\ AtValues(s, rstack)
      /\ RTop.left = 0 /\ RTop.dyn = TRUE /\ RTop.what \in {"values", "entries"}
      /\ RTop \in ReadFrame /\ ~Pending(s) /\ Unnamed(s) = 0
  BY <1>1, <1>3, InDynamic
<1>5. /\ g.obj = TopOf(s).obj /\ g.names = <<>> /\ g.src = FALSE /\ g.left = 1
      /\ g.members = TopOf(s).members /\ g.dyn = TRUE /\ g.key = k
  BY <1>1, <1>2, <1>3, <1>4, TurnedIs DEF Open0
<1>6. TopOf(t) = g /\ t.heap = s.heap /\ Len(t.stack) = Len(s.stack)
  BY <1>3 DEF Turns, SameGraph
<1>7. t.stack # <<>> /\ ~Closed(t)
  <2>1. Len(s.stack) \in Nat \ {0} BY <1>1, <1>3, TopTypes
  <2>2. t.stack # <<>> BY <1>1, <1>6, <2>1, SnapshotTypes
  <2> QED BY <1>5, <1>6, <2>2 DEF Closed
<1>8. ~Pending(t) /\ Unnamed(t) = 0 BY <1>5, <1>6 DEF Pending, Unnamed, Naming
<1>9. k \in Strings /\ k # Empty /\ k # None BY WriterAssumption, StreamAssumption
<1>10. CASE Failed /\ Len(stream) < Len(F) BY <1>10 DEF Follows
<1>11. CASE /\ pos = Len(t.stream) /\ pos + 1 <= Len(stream) + 1
            /\ StringRead(Tok) = k /\ StringsMatch(t, StringTableAfter(Tok)) /\ ReadKey
  <2>1. PICK r : r = [RTop EXCEPT !.left = 1, !.key = k] OBVIOUS
  <2>2. /\ rstack' = Append(RBelow, r) /\ Advance /\ strTab' = StringTableAfter(Tok)
        /\ objTab' = objTab /\ traitTab' = traitTab /\ made' = made
    BY <1>9, <1>11, <2>1 DEF ReadKey
  <2>3. /\ r \in ReadFrame /\ r.what = RTop.what /\ r.node = RTop.node /\ r.left = 1
        /\ r.members = RTop.members /\ r.dyn = RTop.dyn /\ r.key = k
    <3>1. PICK f : f = RTop OBVIOUS
    <3>2. f \in ReadFrame /\ k \in Strings BY <1>4, <1>9, <3>1
    <3>3. LET h == [f EXCEPT !.left = 1, !.key = k]
          IN  /\ h \in ReadFrame /\ h.what = f.what /\ h.node = f.node /\ h.left = 1
              /\ h.members = f.members /\ h.dyn = f.dyn /\ h.key = k
      <4> HIDE DEF ReadFrame
      <4> QED BY <3>2, FrameSteps
    <3> QED BY <2>1, <3>1, <3>3
  <2>4. PICK u : u = Append(RBelow, r) OBVIOUS
  <2>5. BelowMatches(t, u) /\ AtValues(t, u)
    <3>1. /\ r.left = g.left /\ r.dyn = g.dyn /\ r.key = g.key BY <1>4, <1>5, <2>3
    <3>2. \E k1 \in Keys \ {Empty} : WritesKey(s, t, k1) OBVIOUS
    <3> QED BY <1>1, <1>3, <1>4, <1>5, <2>3, <2>4, <3>1, <3>2, TurnedValues
  <2>6. rstat' = rstat /\ stream' = stream BY <2>2 DEF Advance
  <2>7. TraitsMatch(t, traitTab') BY <1>1, <1>3, <1>4, <1>8, <2>2, TraitsStay DEF Turns, Matches
  <2>8. BelowMatches(t, rstack') /\ TopMatches(t, rstack') /\ StringsMatch(t, strTab')
    BY <1>11, <2>2, <2>4, <2>5 DEF TopMatches
  <2>9. Matches(t)'
    BY <1>1, <1>3, <1>4, <1>5, <1>7, <1>8, <1>11, <2>2, <2>7, <2>8, TurnedMatches
  <2> QED BY <2>6, <2>9 DEF Follows
<1> QED BY <1>3, <1>4, <1>9, <1>10, <1>11, NameComes

\* The entries of an array are closed, and the writer has to leave their function.
LEMMA ClosedReturns ==
  ASSUME NEW t, NEW u, WStep(t, u), TopOf(t).names = <<>>, TopOf(t).src = FALSE, TopOf(t).left = 0,
         TopOf(t).dyn = FALSE
  PROVE  Returns(t, u)
<1>1. ~Wants(t) BY DEF Wants
<1>2. \A v \in Values : ~GivesPlain(t, u, v) BY <1>1 DEF GivesPlain, Serves
<1>3. \A o \in Obj : ~GivesNew(t, u, o) BY <1>1, NewMeets DEF Meets, Serves
<1>4. ~SaysName(t, u) /\ ~SaysSource(t, u) BY DEF SaysName, SaysSource
<1>5. ~Closes(t, u) /\ \A k : ~WritesKey(t, u, k) BY DEF Closes, WritesKey, Open0
<1> QED BY <1>2, <1>3, <1>4, <1>5 DEF WStep

LEMMA EntriesLeft ==
  ASSUME ReaderInv, NEW s, WInv(s), NEW t, WInv(t), Matches(s), NEW g, Turns(s, t, g),
         g.obj = TopOf(s).obj, ~Pending(s), ~Pending(t), Unnamed(t) = 0, Len(s.stack) > 1,
         Pair(t, Len(t.stack) - 1), WStep(s, t), Closes(s, t), AtValues(s, rstack),
         rstack' = RBelow, StringsMatch(t, strTab'), TraitsMatch(t, traitTab'),
         objTab' = objTab, made' = made, pos = Len(t.stream), pos + 1 <= Len(stream) + 1, Advance,
         NEW u, WInv(u), Returns(t, u)
  PROVE  Matches(u)'
<1>1. /\ Typed(s) /\ Typed(t) /\ Typed(u) /\ s.stack # <<>> /\ Len(t.stack) = Len(s.stack)
      /\ TopOf(t) = g
  BY DEF Turns, WInv
<1>2. PICK n : n = Len(s.stack) OBVIOUS
<1>3. n \in Nat /\ n > 1 /\ n - 1 \in 1 .. n - 1 /\ n \in 1 .. n /\ (n - 1) + 1 = n
  BY <1>1, <1>2, TopTypes
<1>4. rstack \in Seq(ReadFrame) /\ Len(rstack) = Seat(s, n) /\ rstack # <<>>
  BY <1>2, ReadTop DEF AtValues
<1>5. PICK v : v = RBelow OBVIOUS
<1>6. Len(v) = Len(rstack) - 1 /\ \A j \in 1 .. Len(rstack) - 1 : v[j] = rstack[j]
  <2> HIDE DEF ReadFrame
  <2> QED BY <1>4, <1>5, Popped DEF RBelow
<1>7. Ground(s, n) \in Nat \ {0} /\ Seat(s, n) \in {Ground(s, n), Ground(s, n) + 1} /\ Ground(s, n) >= n
  BY <1>1, <1>2, <1>3, SeatTypes
<1>8. BelowMatches(t, v) /\ Ground(t, n) = Ground(s, n) /\ Seat(t, n) = Seat(s, n)
  <2>1. \A j \in 1 .. Ground(s, n) - 1 : v[j] = rstack[j] BY <1>4, <1>6, <1>7
  <2> QED BY <1>2, <2>1, TopTurned
<1>9. /\ t.stack[n - 1].obj = t.stack[n].obj /\ t.heap[t.stack[n].obj].kind = "hash"
  <2>1. t.stack[n - 1].obj = t.stack[n].obj BY <1>1, <1>2, <1>3 DEF Pair
  <2>2. Apart(t, n - 1, n)
    <3>1. n - 1 \in 1 .. Len(t.stack) /\ n \in 1 .. Len(t.stack) /\ n - 1 < n BY <1>1, <1>2, <1>3
    <3> QED BY <3>1, PathParts DEF WInv
  <2> QED BY <2>1, <2>2 DEF Apart
<1>10. Len(v) = Seat(t, n - 1)
  <2>1. t.heap[t.stack[n].obj].depth \in Nat /\ Extra(t, t.stack[n].obj) = 0
    BY <1>1, <1>2, <1>3, <1>9, SnapshotTypes DEF Extra
  <2>2. PICK d, q : d = t.heap[t.stack[n].obj].depth /\ q = t.stack[n].obj OBVIOUS
  <2>3. d \in Nat /\ Extra(t, q) = 0 /\ d = t.heap[q].depth BY <2>1, <2>2
  <2>4. Seat(t, n) = (n + d) + 0 BY <2>2, <2>3 DEF Seat, Ground
  <2>5. Seat(t, n - 1) = ((n - 1) + d) + 0 BY <1>9, <2>2, <2>3 DEF Seat, Ground
  <2>6. Len(v) = Seat(t, n) - 1 BY <1>4, <1>6, <1>8
  <2>7. PICK a, b, c : a = Seat(t, n) /\ b = Seat(t, n - 1) /\ c = Len(v) OBVIOUS
  <2>8. n \in Nat /\ d \in Nat /\ a = (n + d) + 0 /\ b = ((n - 1) + d) + 0 /\ c = a - 1
    BY <1>3, <2>3, <2>4, <2>5, <2>6, <2>7
  <2>9. c = b BY <2>8
  <2> QED BY <2>7, <2>9
<1>11. BelowMatches(u, v) /\ AtValues(u, v) /\ u.stack # <<>> /\ ~Closed(u)
  <2>1. /\ Len(t.stack) > 1 /\ Len(v) = Seat(t, Len(t.stack) - 1) /\ Pair(t, Len(t.stack) - 1)
    BY <1>1, <1>2, <1>3, <1>10
  <2> QED BY <1>8, <2>1, HeldReturned
<1>12. /\ Known(u) = Known(t) /\ Waiting(u) = 0 /\ Waiting(t) = 0 /\ Unnamed(u) = 0
  <2>1. /\ Known(u) = Known(t) + Extra(t, TopOf(t).obj) /\ Waiting(u) = 0 /\ Waiting(t) = 0
        /\ Unnamed(u) = 0
    BY <1>1, KnownReturned
  <2>2. Known(t) \in Int BY <1>1, KnownTypes
  <2>3. Extra(t, TopOf(t).obj) = 0 BY <1>1, <1>2, <1>9 DEF Extra, TopOf
  <2> QED BY <2>1, <2>2, <2>3
<1>13. MadeMatches(t, made) /\ ObjectsMatch(t, objTab)
  <2>1. MadeMatches(s, made) /\ ObjectsMatch(s, objTab) BY DEF Matches
  <2> QED BY <2>1, StillMatches
<1>14. /\ u.heap = t.heap /\ u.met = t.met /\ u.objCache = t.objCache /\ u.stream = t.stream
       /\ SameStrings(t, u) /\ SameTraits(t, u) /\ Len(u.stack) = Len(t.stack) - 1 /\ SameBelow(t, u)
  BY DEF Returns, SameGraph, SameObjects
<1>15. \A p : LagsOn(u, p) <=> LagsOn(t, p)
  <2>1. Len(t.stack) > 1 BY <1>1, <1>2, <1>3
  <2>2. \A p : LagsOn(t, p) <=> LagsOn(u, p) \/ (p = t.stack[Len(t.stack) - 1].obj
                                                /\ ~Pair(t, Len(t.stack) - 1))
    BY <1>14, <2>1, LagsShrink
  <2> QED BY <2>2
<1>16. ~Pending(u) /\ (\A p : ~Pends(u, p)) BY <1>12 DEF Waiting, Pends
<1>17. MadeMatches(u, made')
  <2>1. \A o, r : NodeMatches(t, o, r) => NodeMatches(u, o, r)
    BY <1>14, <1>15 DEF NodeMatches, Lag, FlatSnap, Decode
  <2>2. \A p : ~Pends(t, p) BY DEF Pends
  <2> QED BY <1>12, <1>13, <1>14, <1>16, <2>1, <2>2 DEF MadeMatches, Met
<1>18. ObjectsMatch(u, objTab')
  <2>1. \A p : ~Pends(t, p) BY DEF Pends
  <2> QED BY <1>12, <1>13, <1>14, <1>16, <2>1 DEF ObjectsMatch, Met, Place
<1>19. StringsMatch(u, strTab') /\ TraitsMatch(u, traitTab')
  BY <1>12, <1>14, StringsStay, TraitsStay
<1>20. pos' = Len(u.stream) + 1 /\ pos' <= Len(stream') + 1 BY <1>14 DEF Advance
<1>21. BelowMatches(u, rstack') /\ TopMatches(u, rstack') BY <1>5, <1>11 DEF TopMatches
<1> QED BY <1>11, <1>17, <1>18, <1>19, <1>20, <1>21, MatchesNext

\* An empty name closes the properties of an object, or the entries of an array.
LEMMA FollowsClose ==
  ASSUME Faithful, NEW s, NEW t, NEW F, Facing(s, t, F), Closes(s, t)
  PROVE  Follows(s, t, F)
<1>1. /\ WInv(s) /\ WInv(t) /\ WStep(s, t) /\ Earlier(s, t) /\ Typed(s) /\ Typed(t)
      /\ ReaderInv /\ rstat = "run" /\ Matches(s) /\ stream \in Seq(Token)
  BY DEF Facing, WInv
<1>2. PICK g : g = [TopOf(s) EXCEPT !.dyn = FALSE] OBVIOUS
<1>3. /\ s.stack # <<>> /\ Turns(s, t, g) /\ Open0(s) /\ Puts(s, t, Empty, FALSE)
  BY <1>2 DEF Closes, Turns, Puts
<1>4. /\ TopOf(s).src = FALSE /\ AtValues(s, rstack)
      /\ RTop.left = 0 /\ RTop.dyn = TRUE /\ RTop.what \in {"values", "entries"}
      /\ RTop.what = WhatOf(s, Len(s.stack)) /\ AtTop(s, RTop)
      /\ RTop \in ReadFrame /\ ~Pending(s) /\ Unnamed(s) = 0
  BY <1>1, <1>3, InDynamic
<1>5. /\ g.obj = TopOf(s).obj /\ g.names = <<>> /\ g.src = FALSE /\ g.left = 0
      /\ g.members = TopOf(s).members /\ g.dyn = FALSE /\ g.key = TopOf(s).key
  BY <1>1, <1>2, <1>3, <1>4, TurnedIs DEF Open0
<1>6. TopOf(t) = g /\ t.heap = s.heap /\ Len(t.stack) = Len(s.stack) /\ SameBelow(s, t)
  BY <1>3 DEF Turns, SameGraph
<1>7. Len(s.stack) \in Nat \ {0} /\ TopOf(s) = s.stack[Len(s.stack)] BY <1>1, <1>3, TopTypes
<1>8. t.stack # <<>> BY <1>1, <1>6, <1>7, SnapshotTypes
<1>9. ~Pending(t) /\ Unnamed(t) = 0 BY <1>5, <1>6 DEF Pending, Unnamed, Naming
<1>10. Len(s.stack) > 1 =>
         (Pair(t, Len(t.stack) - 1) <=> s.stack[Len(s.stack) - 1].obj = s.stack[Len(s.stack)].obj)
  <2>1. SUFFICES ASSUME Len(s.stack) > 1
                 PROVE  Pair(t, Len(t.stack) - 1) <=>
                          s.stack[Len(s.stack) - 1].obj = s.stack[Len(s.stack)].obj
    OBVIOUS
  <2>2. (Len(s.stack) - 1) + 1 = Len(s.stack) /\ Len(s.stack) - 1 \in 1 .. Len(s.stack) - 1
    BY <1>7, <2>1
  <2>3. t.stack[Len(s.stack) - 1] = s.stack[Len(s.stack) - 1] BY <1>6, <2>2 DEF SameBelow
  <2>4. t.stack[Len(s.stack)].obj = s.stack[Len(s.stack)].obj BY <1>5, <1>6, <1>7 DEF TopOf
  <2> QED BY <1>6, <2>2, <2>3, <2>4 DEF Pair
<1>11. Empty \in Strings BY StreamAssumption
<1>12. CASE Failed /\ Len(stream) < Len(F) BY <1>12 DEF Follows
<1>13. CASE /\ pos = Len(t.stream) /\ pos + 1 <= Len(stream) + 1
            /\ StringRead(Tok) = Empty /\ StringsMatch(t, StringTableAfter(Tok)) /\ ReadKey
  <2>1. /\ rstack' = AfterKeys /\ Advance /\ strTab' = StringTableAfter(Tok)
        /\ objTab' = objTab /\ traitTab' = traitTab /\ made' = made
    BY <1>13 DEF ReadKey
  <2>2. rstat' = rstat /\ stream' = stream BY <2>1 DEF Advance
  <2>3. TraitsMatch(t, traitTab') BY <1>1, <1>3, <1>4, <1>9, <2>1, TraitsStay DEF Turns, Matches
  <2>4. StringsMatch(t, strTab') BY <1>13, <2>1
  <2>5. CASE RTop.what = "values"
    <3>1. PICK r : r = [RTop EXCEPT !.dyn = FALSE] OBVIOUS
    <3>2. rstack' = Append(RBelow, r) BY <2>1, <2>5, <3>1 DEF AfterKeys
    <3>3. /\ r \in ReadFrame /\ r.what = RTop.what /\ r.node = RTop.node /\ r.left = RTop.left
          /\ r.members = RTop.members /\ r.dyn = FALSE /\ r.key = RTop.key
      BY <1>4, <3>1, FrameSteps
    <3>4. PICK u : u = Append(RBelow, r) OBVIOUS
    <3>5. BelowMatches(t, u) /\ AtValues(t, u)
      <4>1. /\ r.left = g.left /\ r.dyn = g.dyn /\ r.key = g.key BY <1>4, <1>5, <3>3 DEF AtTop
      <4> QED BY <1>1, <1>3, <1>4, <1>5, <3>3, <3>4, <4>1, TurnedValues
    <3>6. ~Closed(t)
      <4>1. SUFFICES ASSUME Len(s.stack) > 1 PROVE ~Pair(t, Len(t.stack) - 1) BY <1>6 DEF Closed
      <4>2. s.stack[Len(s.stack) - 1].obj # s.stack[Len(s.stack)].obj
        BY <1>4, <2>5, <4>1 DEF WhatOf
      <4> QED BY <1>10, <4>1, <4>2
    <3>7. BelowMatches(t, rstack') /\ TopMatches(t, rstack') BY <3>2, <3>4, <3>5 DEF TopMatches
    <3>8. Matches(t)'
      BY <1>1, <1>3, <1>4, <1>5, <1>8, <1>9, <1>13, <2>1, <2>3, <2>4, <3>6, <3>7, TurnedMatches
    <3> QED BY <2>2, <3>8 DEF Follows
  <2>6. CASE RTop.what = "entries"
    <3>1. rstack' = RBelow BY <2>1, <2>6 DEF AfterKeys
    <3>2. Len(s.stack) > 1 /\ Pair(t, Len(t.stack) - 1)
      BY <1>4, <1>7, <1>10, <2>6 DEF WhatOf
    <3>3. Closed(t) BY <1>5, <1>6, <3>2 DEF Closed
    <3>4. ASSUME NEW u, WInv(u), WStep(t, u) PROVE Matches(u)'
      <4>1. Returns(t, u) BY <1>5, <1>6, <3>4, ClosedReturns
      <4>2. /\ g.obj = TopOf(s).obj /\ ~Pending(s) /\ ~Pending(t) /\ Unnamed(t) = 0
            /\ AtValues(s, rstack)
        BY <1>4, <1>5, <1>9
      <4> QED BY <1>1, <1>3, <1>13, <2>1, <2>3, <2>4, <3>1, <3>2, <3>4, <4>1, <4>2, EntriesLeft
    <3> QED BY <2>2, <3>3, <3>4 DEF Follows
  <2> QED BY <1>4, <2>5, <2>6
<1> QED BY <1>3, <1>4, <1>11, <1>12, <1>13, NameComes

LEMMA HeldReturnedTo ==
  ASSUME NEW s, WInv(s), NEW t, WInv(t), Returns(s, t), Len(s.stack) > 1, ~Pair(s, Len(s.stack) - 1),
         NEW u, NEW v, BelowMatches(s, u),
         Len(v) = Seat(s, Len(s.stack) - 1), \A j \in 1 .. Len(v) - 1 : v[j] = u[j],
         NEW a, a = u[Len(v)], NEW b, b = v[Len(v)],
         b.what = a.what, b.node = a.node, b.members = a.members, b.dyn = a.dyn,
         b.left = a.left - 1, b.key = None
  PROVE  BelowMatches(t, v) /\ AtValues(t, v) /\ t.stack # <<>> /\ ~Closed(t)
BY HeldReturned

\* A function returns, and its caller has the value it waited for.
LEMMA ReturnMatches ==
  ASSUME ReaderInv, NEW s, WInv(s), NEW t, WInv(t), Earlier(s, t), Matches(s), Returns(s, t),
         Len(s.stack) > 1, ~Pair(s, Len(s.stack) - 1),
         NEW n, n = Len(s.stack), Len(rstack) = Seat(s, n - 1) + 1,
         RTop.node = s.heap[TopOf(s).obj].nth,
         objTab' = IF s.heap[TopOf(s).obj].kind = "ac" THEN Append(objTab, RTop.node) ELSE objTab,
         made' = Stored(rstack[Len(rstack) - 1], RTop.node),
         rstack' = Append(SubSeq(rstack, 1, Len(rstack) - 2),
                          Taken(rstack[Len(rstack) - 1], RTop.node)),
         pos' = pos, strTab' = strTab, traitTab' = traitTab, stream' = stream
  PROVE  Matches(t)'
<1>1. Typed(s) /\ Typed(t) /\ s.stack # <<>> /\ BelowMatches(s, rstack) BY DEF Returns, WInv, Matches
<1>2. n \in Nat /\ n > 1 /\ n - 1 \in 1 .. n - 1 /\ n - 1 \in 1 .. Len(s.stack) /\ (n - 1) + 1 = n
  BY <1>1, TopTypes
<1>3. PICK k : k = Seat(s, n - 1) OBVIOUS
<1>4. k \in Nat \ {0} /\ Len(rstack) - 1 = k BY <1>1, <1>2, <1>3, SeatTypes
<1>5. PICK f, x : f = rstack[k] /\ x = RTop.node OBVIOUS
<1>6. Held(s, n - 1, rstack) BY <1>1, <1>2 DEF BelowMatches
<1>7. Lags(s, n - 1) BY <1>2 DEF Lags
<1> DEFINE q == s.stack[n - 1].obj
           w == s.heap[q]
<1>8. /\ f.what \in {"values", "entries"} /\ f.node = w.nth /\ f.left = s.stack[n - 1].left + 1
      /\ KeyOf(f, Len(w.kids) - 1) = w.kids[Len(w.kids)].key
  BY <1>3, <1>5, <1>6, <1>7 DEF Held, FrameMatches, WhatOf
<1>9. s.stack[n - 1].left \in Nat BY <1>1, <1>2, SnapshotTypes
<1>10. f \in ReadFrame /\ x \in ReaderValue /\ f.left > 0
  <2>1. rstack \in Seq(ReadFrame) /\ RTop \in ReadFrame BY ReadTop
  <2>2. k \in 1 .. Len(rstack) BY <1>2, <1>3, <1>4
  <2>3. f \in ReadFrame BY <1>5, <2>1, <2>2, Elements
  <2>4. x \in ReaderValue BY <1>5, <2>1, FieldTypes
  <2> QED BY <1>8, <1>9, <2>3, <2>4
<1>11. PICK r : r = Taken(f, x) OBVIOUS
<1>12. /\ r \in ReadFrame /\ r.what = f.what /\ r.members = f.members /\ r.dyn = f.dyn
       /\ r.left = f.left - 1 /\ r.node = f.node /\ r.key = None
  BY <1>8, <1>10, <1>11, TakenType
<1>13. rstack' = Append(SubSeq(rstack, 1, k - 1), r)
  <2>1. Len(rstack) - 2 = k - 1 BY <1>2, <1>3, <1>4
  <2> QED BY <1>4, <1>5, <1>11, <2>1
<1>14. PICK v : v = Append(SubSeq(rstack, 1, k - 1), r) OBVIOUS
<1>15. Len(v) = k /\ v[k] = r /\ \A j \in 1 .. k - 1 : v[j] = rstack[j]
  <2>1. rstack \in Seq(ReadFrame) /\ Len(rstack) \in Nat BY ReadTop
  <2>2. k - 1 \in 0 .. Len(rstack) BY <1>4, <2>1
  <2>3. PICK b : b = SubSeq(rstack, 1, k - 1) OBVIOUS
  <2> HIDE DEF ReadFrame
  <2>4. b \in Seq(ReadFrame) /\ Len(b) = k - 1 /\ \A j \in 1 .. k - 1 : b[j] = rstack[j]
    BY <2>1, <2>2, <2>3, Beginning
  <2>5. /\ Len(Append(b, r)) = Len(b) + 1 /\ Append(b, r)[Len(b) + 1] = r
        /\ \A j \in 1 .. Len(b) : Append(b, r)[j] = b[j]
    BY <1>12, <2>4, Appended
  <2>6. (k - 1) + 1 = k BY <1>4
  <2> QED BY <1>14, <2>3, <2>4, <2>5, <2>6
<1>16. BelowMatches(t, v) /\ AtValues(t, v) /\ t.stack # <<>> /\ ~Closed(t)
  <2>1. /\ Len(v) = Seat(s, Len(s.stack) - 1) /\ \A j \in 1 .. Len(v) - 1 : v[j] = rstack[j]
    BY <1>3, <1>15
  <2>2. rstack[Len(v)] = f /\ v[Len(v)] = r BY <1>5, <1>15
  <2>3. f = rstack[Len(v)] /\ r = v[Len(v)] BY <2>2
  <2> QED BY <1>1, <1>12, <2>1, <2>3, HeldReturnedTo
<1>17. /\ Known(t) = Known(s) + Extra(s, TopOf(s).obj) /\ Waiting(s) = 0 /\ Waiting(t) = 0
       /\ Unnamed(s) = 0 /\ Unnamed(t) = 0
  BY <1>1, KnownReturned
<1>18. ~Pending(s) /\ ~Pending(t) /\ (\A p : ~Pends(s, p)) /\ (\A p : ~Pends(t, p))
  BY <1>17 DEF Waiting, Pends
<1>19. /\ t.heap = s.heap /\ t.met = s.met /\ t.objCache = s.objCache /\ t.stream = s.stream
       /\ SameStrings(s, t) /\ SameTraits(s, t)
  BY DEF Returns, SameGraph, SameObjects
<1>20. MadeMatches(t, made')
  <2>1. made' = Stored(f, x) BY <1>4, <1>5
  <2>2. MadeMatches(s, made) /\ made \in Seq(ReadNode) BY DEF Matches, ReaderInv, ReaderTypeOK
  <2>3. Len(made') = Len(made) BY <1>10, <2>1, <2>2, StoredType
  <2>4. Len(made') = t.met - Waiting(t) BY <1>17, <1>19, <2>2, <2>3 DEF MadeMatches
  <2>5. ASSUME NEW o \in Holder, Met(t, o) PROVE NodeMatches(t, o, made'[t.heap[o].nth])
    <3>1. Met(s, o) /\ f.what # "inner" /\ (FlatSnap(t) => x = s.heap[TopOf(s).obj].nth)
      BY <1>5, <1>8, <1>19, <2>5 DEF Met
    <3>2. /\ f.node = s.heap[s.stack[Len(s.stack) - 1].obj].nth
          /\ KeyOf(f, Len(s.heap[s.stack[Len(s.stack) - 1].obj].kids) - 1) =
               s.heap[s.stack[Len(s.stack) - 1].obj].kids[Len(s.heap[s.stack[Len(s.stack) - 1].obj].kids)].key
      BY <1>8
    <3>3. /\ ReaderInv /\ WInv(s) /\ WInv(t) /\ Earlier(s, t) /\ Returns(s, t) /\ Len(s.stack) > 1
          /\ ~Pair(s, Len(s.stack) - 1) /\ MadeMatches(s, made) /\ f \in ReadFrame /\ x \in ReaderValue
      BY <1>10, <2>2
    <3> QED BY <2>1, <3>1, <3>2, <3>3, NodeReturned
  <2> QED BY <2>4, <2>5 DEF MadeMatches
<1>21. ObjectsMatch(t, objTab')
  <2>1. ObjectsMatch(s, objTab) /\ objTab \in Seq(ReaderValue)
    BY DEF Matches, ReaderInv, ReaderTypeOK
  <2>2. Len(objTab) = Known(s) /\ Len(objTab) \in Nat BY <2>1, Elements DEF ObjectsMatch
  <2>3. Extends(objTab, objTab') /\ Len(objTab') = Len(objTab) + Extra(s, TopOf(s).obj)
    <3>1. CASE s.heap[TopOf(s).obj].kind = "ac"
      <4>1. objTab' = Append(objTab, x) /\ Extra(s, TopOf(s).obj) = 1 BY <1>5, <3>1 DEF Extra
      <4>2. PICK b : b = Append(objTab, x) OBVIOUS
      <4>3. Len(b) = Len(objTab) + 1 /\ \A i \in 1 .. Len(objTab) : b[i] = objTab[i]
        BY <1>10, <2>1, <4>2, Appended
      <4> QED BY <2>2, <4>1, <4>2, <4>3 DEF Extends
    <3>2. CASE s.heap[TopOf(s).obj].kind # "ac"
      <4>1. objTab' = objTab /\ Extra(s, TopOf(s).obj) = 0 BY <3>2 DEF Extra
      <4> QED BY <2>2, <4>1 DEF Extends
    <3> QED BY <3>1, <3>2
  <2>4. Len(objTab') = Known(t) BY <1>17, <2>2, <2>3
  <2>5. \A o \in Obj : Met(t, o) /\ ~Pends(t, o) => Met(s, o) /\ ~Pends(s, o)
    BY <1>18, <1>19 DEF Met
  <2> QED BY <2>1, <2>3, <2>4, <2>5, ObjectsFollow
<1>22. StringsMatch(t, strTab') /\ TraitsMatch(t, traitTab')
  BY <1>17, <1>19, StringsStay, TraitsStay DEF Matches
<1>23. pos' = Len(t.stream) + 1 /\ pos' <= Len(stream') + 1 BY <1>19 DEF Matches
<1>24. BelowMatches(t, rstack') /\ TopMatches(t, rstack') BY <1>13, <1>14, <1>16 DEF TopMatches
<1> QED BY <1>16, <1>20, <1>21, <1>22, <1>23, <1>24, MatchesNext

\* The contents of a collection have come, and become its inner array.
LEMMA ContentsReturn ==
  ASSUME ReaderInv, NEW s, WInv(s), Matches(s), s.stack # <<>>, TopOf(s).names = <<>>,
         TopOf(s).src = FALSE, TopOf(s).left = 0, TopOf(s).dyn = FALSE,
         AtValues(s, rstack), s.heap[TopOf(s).obj].kind = "ac", ReadReturn,
         WhatOf(s, Len(s.stack)) = "values"
  PROVE  Matches(s)'
<1>1. Typed(s) BY DEF WInv
<1>2. PICK n : n = Len(s.stack) OBVIOUS
<1>3. n \in Nat \ {0} /\ n \in 1 .. Len(s.stack) /\ TopOf(s) = s.stack[n] BY <1>1, <1>2, TopTypes
<1>4. PICK k : k = Ground(s, n) OBVIOUS
<1>5. k \in Nat \ {0} /\ Seat(s, n) = k + 1 BY <1>1, <1>3, <1>4, SeatTypes
<1>6. Len(rstack) = k + 1 /\ Held(s, n, rstack) BY <1>2, <1>5 DEF AtValues
<1>7. /\ RTop.what = "values" /\ RTop.node = s.heap[TopOf(s).obj].nth
  <2>1. RTop = rstack[Seat(s, n)] BY <1>5, <1>6 DEF RTop
  <2> QED BY <1>2, <1>3, <1>6, <2>1 DEF Held, FrameMatches
<1>8. PICK f, x : f = rstack[k] /\ x = RTop.node OBVIOUS
<1>9. f.what = "inner" /\ f.left = 1 /\ f.dyn = FALSE BY <1>3, <1>4, <1>6, <1>8 DEF Held, IsInner
<1>10. f \in ReadFrame /\ x \in ReaderValue
  <2>1. rstack \in Seq(ReadFrame) /\ RTop \in ReadFrame BY ReadTop
  <2>2. k \in 1 .. Len(rstack) BY <1>5, <1>6
  <2> QED BY <1>8, <2>1, <2>2, Elements, FieldTypes
<1>11. PICK r : r = Taken(f, x) OBVIOUS
<1>12. /\ r \in ReadFrame /\ r.what = "inner" /\ r.dyn = FALSE /\ r.left = 0 /\ r.node = x
  <2>1. f.left > 0 BY <1>9
  <2> QED BY <1>9, <1>10, <1>11, <2>1, TakenType
<1>13. Len(rstack) - 1 = k /\ Len(rstack) - 2 = k - 1 BY <1>5, <1>6
<1>14. /\ rstack' = Append(SubSeq(rstack, 1, k - 1), r) /\ made' = made /\ objTab' = objTab
       /\ pos' = pos /\ strTab' = strTab /\ traitTab' = traitTab /\ stream' = stream
  <2>1. /\ rstack' = Append(SubSeq(rstack, 1, Len(rstack) - 2), Taken(rstack[Len(rstack) - 1], RTop.node))
        /\ made' = Stored(rstack[Len(rstack) - 1], RTop.node)
        /\ objTab' = ObjTabAfterReturn(RTop)
        /\ UNCHANGED <<pos, strTab, traitTab, stream, rstat>>
    BY DEF ReadReturn
  <2>2. rstack' = Append(SubSeq(rstack, 1, k - 1), r) BY <1>8, <1>11, <1>13, <2>1
  <2>3. made' = made BY <1>8, <1>9, <1>13, <2>1 DEF Stored
  <2>4. objTab' = objTab BY <1>7, <2>1 DEF ObjTabAfterReturn
  <2> QED BY <2>1, <2>2, <2>3, <2>4
<1>15. PICK v : v = Append(SubSeq(rstack, 1, k - 1), r) OBVIOUS
<1>16. Len(v) = k /\ v[k] = r /\ \A j \in 1 .. k - 1 : v[j] = rstack[j]
  <2>1. rstack \in Seq(ReadFrame) /\ Len(rstack) \in Nat BY ReadTop
  <2>2. k - 1 \in 0 .. Len(rstack) BY <1>5, <1>6, <2>1
  <2>3. PICK b : b = SubSeq(rstack, 1, k - 1) OBVIOUS
  <2> HIDE DEF ReadFrame
  <2>4. b \in Seq(ReadFrame) /\ Len(b) = k - 1 /\ \A j \in 1 .. k - 1 : b[j] = rstack[j]
    BY <2>1, <2>2, <2>3, Beginning
  <2>5. /\ Len(Append(b, r)) = Len(b) + 1 /\ Append(b, r)[Len(b) + 1] = r
        /\ \A j \in 1 .. Len(b) : Append(b, r)[j] = b[j]
    BY <1>12, <2>4, Appended
  <2>6. (k - 1) + 1 = k BY <1>5
  <2> QED BY <1>15, <2>3, <2>4, <2>5, <2>6
<1>17. BelowMatches(s, v)
  <2>1. ASSUME NEW i \in 1 .. Len(s.stack) - 1 PROVE Held(s, i, v)
    <3>1. Held(s, i, rstack) BY <2>1 DEF Matches, BelowMatches
    <3>2. Seat(s, i) < Ground(s, Len(s.stack)) BY <2>1, SeatsApart
    <3>3. i \in 1 .. Len(s.stack) BY <1>2, <1>3, <2>1
    <3>4. Seat(s, i) \in Nat \ {0} /\ Ground(s, i) \in Nat \ {0} /\ Seat(s, i) \in {Ground(s, i), Ground(s, i) + 1}
      BY <1>1, <3>3, SeatTypes
    <3>5. Seat(s, i) \in 1 .. k - 1 /\ Ground(s, i) \in 1 .. k - 1 BY <1>2, <1>4, <1>5, <3>2, <3>4
    <3>6. v[Seat(s, i)] = rstack[Seat(s, i)] /\ v[Ground(s, i)] = rstack[Ground(s, i)]
      BY <1>16, <3>5
    <3> QED BY <3>1, <3>6 DEF Held
  <2> QED BY <2>1 DEF BelowMatches
<1>18. AtEnd(s, v) BY <1>2, <1>4, <1>7, <1>8, <1>12, <1>16 DEF AtEnd
<1>19. BelowMatches(s, rstack') /\ TopMatches(s, rstack') BY <1>14, <1>15, <1>17, <1>18 DEF TopMatches
<1>20. /\ ~Closed(s) /\ pos' = Len(s.stream) + 1 /\ pos' <= Len(stream') + 1
       /\ StringsMatch(s, strTab') /\ TraitsMatch(s, traitTab') /\ ObjectsMatch(s, objTab')
       /\ MadeMatches(s, made')
  BY <1>14 DEF Matches
<1> QED BY <1>19, <1>20, MatchesNext

\* A function returns.
LEMMA FollowsReturn ==
  ASSUME Faithful, NEW s, NEW t, NEW F, Facing(s, t, F), Returns(s, t)
  PROVE  Follows(s, t, F)
<1>1. /\ WInv(s) /\ WInv(t) /\ WStep(s, t) /\ Earlier(s, t) /\ Typed(s) /\ Typed(t)
      /\ ReaderInv /\ rstat = "run" /\ Matches(s) /\ ReaderNext /\ TopMatches(s, rstack) /\ ~Closed(s)
  BY DEF Facing, WInv, Matches
<1>2. /\ s.stack # <<>> /\ TopOf(s).names = <<>> /\ TopOf(s).src = FALSE
      /\ TopOf(s).left = 0 /\ TopOf(s).dyn = FALSE
  BY DEF Returns
<1>3. PICK n : n = Len(s.stack) OBVIOUS
<1>4. n \in Nat \ {0} /\ n \in 1 .. Len(s.stack) /\ TopOf(s) = s.stack[n] BY <1>1, <1>2, <1>3, TopTypes
<1>5. AtValues(s, rstack) \/ AtEnd(s, rstack)
  BY <1>1, <1>2 DEF TopMatches, AtNames, AtSource, AtType, Naming
<1>6. Complete(RTop)
  <2>1. CASE AtValues(s, rstack)
    <3>1. RTop.left = 0 /\ RTop.dyn = FALSE /\ RTop.what \in {"values", "entries"}
      BY <1>1, <1>2, <2>1, TopIs DEF RTop
    <3> QED BY <3>1 DEF Complete
  <2>2. CASE AtEnd(s, rstack) BY <2>2 DEF AtEnd, RTop, Complete
  <2> QED BY <1>5, <2>1, <2>2
<1>7. IF Len(rstack) = 1 THEN ReadDone ELSE ReadReturn BY <1>1, <1>6, ReturnSteps
<1>8. CASE n = 1
  <2>1. s.stack[1].obj = Root /\ s.heap[Root].kind = "root" /\ s.heap[Root].depth = 0
    BY <1>1, <1>2 DEF WInv, Path, Numbered
  <2>2. AtValues(s, rstack) BY <1>4, <1>5, <1>8, <2>1 DEF AtEnd
  <2>3. Len(rstack) = 1
    <3>1. Extra(s, Root) = 0 BY <2>1 DEF Extra
    <3>2. Ground(s, 1) = 1 BY <2>1 DEF Ground
    <3>3. Seat(s, 1) = 1 BY <2>1, <3>1, <3>2 DEF Seat
    <3> QED BY <1>3, <1>8, <2>2, <3>3 DEF AtValues
  <2>4. ReadDone BY <1>7, <2>3
  <2>5. rstat' = "done" /\ UNCHANGED <<pos, rstack, tables, made, stream>> BY <2>4 DEF ReadDone
  <2> QED BY <1>3, <1>8, <2>5 DEF Follows
<1>9. CASE n # 1
  <2>a. n \in Nat \ {0} /\ n # 1 BY <1>4, <1>9
  <2>1. n > 1 /\ n - 1 \in 1 .. n - 1 /\ n - 1 \in 1 .. Len(s.stack) /\ (n - 1) + 1 = n
    <3>1. n > 1 BY <2>a
    <3>2. n - 1 \in Nat /\ n - 1 >= 1 /\ n - 1 <= n - 1 /\ n - 1 <= n /\ (n - 1) + 1 = n BY <2>a, <3>1
    <3>3. n - 1 \in 1 .. n - 1 /\ n - 1 \in 1 .. n BY <3>2, <2>a
    <3> QED BY <1>3, <3>1, <3>2, <3>3
  <2>2. ~Pair(s, n - 1) BY <1>1, <1>2, <1>3, <2>1 DEF Closed
  <2>3. Ground(s, n) = Seat(s, n - 1) + 1 /\ WhatOf(s, n) = "values"
    <3>1. Linked(s, n - 1) BY <1>1, <1>3, <2>1, PathParts DEF WInv
    <3>2. s.heap[s.stack[n].obj].depth = s.heap[s.stack[n - 1].obj].depth + Extra(s, s.stack[n - 1].obj)
      BY <2>1, <2>2, <3>1 DEF Linked
    <3>3. /\ s.heap[s.stack[n - 1].obj].depth \in Nat /\ Extra(s, s.stack[n - 1].obj) \in {0, 1}
      BY <1>1, <2>1, SnapshotTypes DEF Extra
    <3>4. PICK d, e : d = s.heap[s.stack[n - 1].obj].depth /\ e = Extra(s, s.stack[n - 1].obj) OBVIOUS
    <3>5. Ground(s, n) = n + (d + e) /\ Seat(s, n - 1) = ((n - 1) + d) + e
      BY <3>2, <3>4 DEF Ground, Seat
    <3>6. n + (d + e) = (((n - 1) + d) + e) + 1 BY <1>4, <3>3, <3>4
    <3>7. WhatOf(s, n) = "values" BY <2>1, <2>2 DEF WhatOf, Pair
    <3> QED BY <3>5, <3>6, <3>7
  <2>4. Seat(s, n - 1) \in Nat \ {0} BY <1>1, <2>1, SeatTypes
  <2>5. Len(rstack) > 1 /\ Len(rstack) # 1
    <3>1. Seat(s, n) \in {Ground(s, n), Ground(s, n) + 1} BY <1>1, <1>4, SeatTypes
    <3>2. Len(rstack) \in {Ground(s, n), Ground(s, n) + 1} BY <1>3, <1>5, <3>1 DEF AtValues, AtEnd
    <3>3. PICK g, c, l : g = Ground(s, n) /\ c = Seat(s, n - 1) /\ l = Len(rstack) OBVIOUS
    <3>4. c \in Nat \ {0} /\ g = c + 1 /\ l \in {g, g + 1} BY <2>3, <2>4, <3>2, <3>3
    <3>5. l > 1 /\ l # 1 BY <3>4
    <3> QED BY <3>3, <3>5
  <2>6. ReadReturn BY <1>7, <2>5
  <2>7. /\ rstack' = Append(SubSeq(rstack, 1, Len(rstack) - 2), Taken(rstack[Len(rstack) - 1], RTop.node))
        /\ made' = Stored(rstack[Len(rstack) - 1], RTop.node)
        /\ objTab' = ObjTabAfterReturn(RTop)
        /\ UNCHANGED <<pos, strTab, traitTab, stream, rstat>>
    BY <2>6 DEF ReadReturn
  <2>8. CASE AtValues(s, rstack) /\ s.heap[TopOf(s).obj].kind = "ac"
    <3>1. Matches(s)' BY <1>1, <1>2, <1>3, <2>3, <2>6, <2>8, ContentsReturn
    <3> QED BY <2>7, <3>1 DEF Follows
  <2>9. CASE ~(AtValues(s, rstack) /\ s.heap[TopOf(s).obj].kind = "ac")
    <3>1. /\ Len(rstack) = Ground(s, n) /\ RTop.node = s.heap[TopOf(s).obj].nth
          /\ RTop.what = "inner" <=> s.heap[TopOf(s).obj].kind = "ac"
      <4>1. CASE AtValues(s, rstack)
        <5>1. Seat(s, n) = Ground(s, n) BY <1>1, <1>4, <2>9, <4>1, SeatTypes
        <5>2. AtTop(s, RTop) BY <1>1, <1>2, <4>1, TopIs DEF RTop
        <5> QED BY <1>3, <2>9, <4>1, <5>1, <5>2 DEF AtValues, AtTop
      <4>2. CASE AtEnd(s, rstack) BY <1>3, <4>2 DEF AtEnd, RTop
      <4> QED BY <1>5, <4>1, <4>2
    <3>2. Len(rstack) = Seat(s, n - 1) + 1 BY <2>3, <3>1
    <3>3. objTab' = IF s.heap[TopOf(s).obj].kind = "ac" THEN Append(objTab, RTop.node) ELSE objTab
      BY <2>7, <3>1 DEF ObjTabAfterReturn
    <3>4. Len(s.stack) > 1 /\ ~Pair(s, Len(s.stack) - 1) BY <1>3, <2>1, <2>2
    <3>5. Matches(t)' BY <1>1, <1>3, <2>7, <3>1, <3>2, <3>3, <3>4, ReturnMatches
    <3> QED BY <2>7, <3>5 DEF Follows
  <2> QED BY <2>8, <2>9
<1> QED BY <1>8, <1>9

\* Whatever the writer did next, the reader follows.
LEMMA Follow ==
  ASSUME Faithful, NEW s, NEW t, NEW F, Facing(s, t, F)
  PROVE  Follows(s, t, F)
<1>1. WStep(s, t) BY DEF Facing
<1>2. CASE \E v \in Values : GivesPlain(s, t, v) BY <1>2, FollowsPlain
<1>3. ASSUME NEW o \in Obj, GivesNew(s, t, o) PROVE Follows(s, t, F)
  <2>1. CASE GivesLeaf(s, t, o) BY <2>1, FollowsLeaf
  <2>2. CASE \E n, left \in Nat, names \in Seq(Strings), tok \in Token :
               GivesFilled(s, t, o, n, left, names, tok)
    BY <2>2, FollowsFilled
  <2>3. CASE \E len \in Nat : GivesNamed(s, t, o, len) BY <2>3, FollowsNamed
  <2>4. CASE \E tr \in Traits, len \in Nat : GivesDescribed(s, t, o, tr, len)
    <3>1. PICK tr \in Traits, len \in Nat : GivesDescribed(s, t, o, tr, len) BY <2>4
    <3> QED BY <3>1, FollowsKnown, FollowsUnknown
  <2> QED BY <1>3, <2>1, <2>2, <2>3, <2>4 DEF GivesNew
<1>4. CASE SaysName(s, t) BY <1>4, FollowsName
<1>5. CASE SaysSource(s, t) BY <1>5, FollowsSource
<1>6. CASE \E k \in Keys \ {Empty} : WritesKey(s, t, k) BY <1>6, FollowsKey
<1>7. CASE Closes(s, t) BY <1>7, FollowsClose
<1>8. CASE Returns(s, t) BY <1>8, FollowsReturn
<1> QED BY <1>1, <1>2, <1>3, <1>4, <1>5, <1>6, <1>7, <1>8 DEF WStep

-----------------------------------------------------------------------------
(***************************************************************************)
(* The story of a message: the snapshots of the writer from the first to   *)
(* the last, and the one the reader has come to.                           *)
(***************************************************************************)
Fresh(s) ==
  /\ s.stream = <<>> /\ s.met = 1 /\ s.objIndex = 0 /\ s.strIndex = 0 /\ s.traitIndex = 0
  /\ Len(s.stack) = 1
  /\ LET f == s.stack[1]
     IN  /\ f.obj = Root /\ f.names = <<>> /\ f.src = FALSE /\ f.left = 1 /\ f.members = <<>>
         /\ f.dyn = FALSE /\ f.key = None
  /\ \A o \in Obj : s.objCache[o] = NotCached
  /\ \A k \in StrKeys : s.strCache[k] = NotCached
  /\ \A k \in TraitKeys : s.traitCache[k] = NotCached
  /\ s.heap[Root].kind = "root" /\ s.heap[Root].depth = 0
  /\ s.heap[Root].nth = 1 /\ s.heap[Root].kids = <<>>
  /\ \A o \in Obj : /\ s.heap[o].kind = "unmet" /\ s.heap[o].nth = 0
                    /\ s.heap[o].kids = <<>> /\ s.heap[o].depth = 0

Told(H, n) ==
  /\ n \in Nat \ {0}
  /\ Fresh(H[1])
  /\ \A i \in 1 .. n : WInv(H[i]) /\ Earlier(H[i], H[n])
  /\ \A i \in 1 .. n - 1 : WStep(H[i], H[i + 1])

Ready ==
  /\ pos = 1 /\ rstack = <<ValuesFrame(1, 1)>>
  /\ objTab = <<>> /\ strTab = <<>> /\ traitTab = <<>> /\ made = <<MadeNode("root", None)>>

Writing(s) == s = Now /\ Ready

Ended(s) ==
  /\ s.stack = <<>> /\ s.objCache = objCache /\ s.objIndex = objIndex
  /\ s.strCache = strCache /\ s.strIndex = strIndex
  /\ s.traitCache = traitCache /\ s.traitIndex = traitIndex
  /\ s.heap = heap /\ s.met = met
  /\ Extends(stream, s.stream) /\ sent = s.stream

\* The reader raises only because the end is missing, or because a collection
\* has put its indexes out of step.
Reading(H, n) ==
  /\ Ended(H[n])
  /\ \E k \in 1 .. n :
       /\ Matches(H[k])
       /\ rstat = "done" => Returns(H[k], H[n])
       /\ rstat = "error" => Len(stream) < Len(sent) \/ ~FlatSnap(H[n])

Story(H, n) ==
  /\ Told(H, n)
  /\ rstat = "idle" => Writing(H[n])
  /\ rstat # "idle" => Reading(H, n)

StoryInv == TypeInv /\ \E H, n : Story(H, n)

\* What the first snapshot satisfies.
LEMMA FreshTop ==
  ASSUME NEW s, Typed(s), Fresh(s)
  PROVE  /\ s.stack # <<>> /\ TopOf(s) = s.stack[1] /\ ~Pending(s) /\ ~Naming(s)
         /\ Opened(s) = 0 /\ Waiting(s) = 0 /\ Unnamed(s) = 0 /\ Known(s) = 0
<1>1. s.stack # <<>>
  <2>1. Len(s.stack) = 1 BY DEF Fresh
  <2>2. s.stack \in Seq(Frame) BY DEF Typed
  <2> QED BY <2>1, <2>2, Elements
<1>2. TopOf(s) = s.stack[1] BY DEF Fresh, TopOf
<1>3. TopOf(s).names = <<>> /\ TopOf(s).src = FALSE /\ TopOf(s).obj = Root BY <1>2 DEF Fresh
<1>4. Waiting(s) = 0 /\ Unnamed(s) = 0 /\ ~Pending(s) /\ ~Naming(s) BY <1>3, NotWaiting
<1>5. Opened(s) = 0
  <2>1. s.heap[Root].depth = 0 /\ s.heap[Root].kind = "root" BY DEF Fresh
  <2>2. Extra(s, Root) = 0 BY <2>1 DEF Extra
  <2> QED BY <1>1, <1>3, <2>1, <2>2 DEF Opened
<1>6. Known(s) = 0
  <2>1. s.objIndex = 0 BY DEF Fresh
  <2> QED BY <1>4, <1>5, <2>1 DEF Known
<1> QED BY <1>1, <1>2, <1>4, <1>5, <1>6

LEMMA FreshInv == ASSUME NEW s, Typed(s), Fresh(s) PROVE WInv(s)
<1>1. Numbered(s)
  <2>1. Met(s, Root) BY DEF Fresh, Met
  <2>2. \A o \in Obj : ~Met(s, o) /\ s.heap[o].kind # "root" BY DEF Fresh, Met
  <2>3. \A o \in Holder : Met(s, o) => o = Root BY <2>2 DEF Holder
  <2>4. s.heap[Root].nth = 1 /\ s.met = 1 /\ s.heap[Root].kind = "root" /\ s.heap[Root].depth = 0
    BY DEF Fresh
  <2>5. \A o \in Obj : s.heap[o].nth = 0 /\ s.heap[o].depth = 0 BY DEF Fresh
  <2>6. s.heap[Root].nth \in 1 .. s.met BY <2>4
  <2>7. \A o \in Holder : IF Met(s, o) THEN s.heap[o].nth \in 1 .. s.met
                          ELSE s.heap[o].nth = 0 /\ s.heap[o].depth = 0
    BY <2>1, <2>3, <2>5, <2>6 DEF Holder
  <2> QED BY <2>2, <2>3, <2>4, <2>7 DEF Numbered
<1>2. KidsMet(s)
  <2>0. \A o \in Holder : s.heap[o].kids = <<>> BY DEF Fresh, Holder
  <2>1. \A o \in Holder : Len(s.heap[o].kids) = 0 BY <2>0
  <2> QED BY <2>1 DEF KidsMet
<1>3. Cached(s)
  <2>1. /\ \A o \in Obj : s.objCache[o] = NotCached /\ s.heap[o].kind = "unmet"
        /\ \A k \in StrKeys : s.strCache[k] = NotCached
        /\ \A k \in TraitKeys : s.traitCache[k] = NotCached
        /\ s.strIndex = 0 /\ s.traitIndex = 0
    BY DEF Fresh
  <2>2. StrKey[Empty] \in StrKeys BY StreamAssumption, WriterAssumption
  <2>3. NotCached < 0 BY DEF NotCached
  <2> QED BY <2>1, <2>2, <2>3 DEF Cached, Met
<1>4. Path(s)
  <2>1. /\ Len(s.stack) = 1 /\ s.stack[1].obj = Root /\ s.heap[Root].kind = "root"
    BY DEF Fresh
  <2>2. \A i \in 1 .. Len(s.stack) : i = 1 BY <2>1
  <2>3. 1 .. Len(s.stack) - 1 = {} BY <2>1
  <2>4. \A i \in 1 .. Len(s.stack) : Met(s, s.stack[i].obj) /\ s.heap[s.stack[i].obj].kind # "leaf"
    BY <2>1, <2>2 DEF Met
  <2>5. \A i, j \in 1 .. Len(s.stack) : i < j => Apart(s, i, j) BY <2>2
  <2>6. \A i \in 1 .. Len(s.stack) - 1 : Linked(s, i) BY <2>3
  <2> QED BY <2>1, <2>4, <2>5, <2>6, PathParts
<1>5. Begun(s)
  <2>1. TopOf(s).names = <<>> /\ TopOf(s).src = FALSE BY FreshTop DEF Fresh
  <2> QED BY <2>1, Settled
<1>6. FlatSnap(s) BY DEF Fresh, FlatSnap
<1> QED BY <1>1, <1>2, <1>3, <1>4, <1>5, <1>6 DEF WInv

\* It is what a reader that has not begun matches.
LEMMA FreshMatches ==
  ASSUME NEW s, Typed(s), Fresh(s), Ready
  PROVE  /\ s.stack # <<>> /\ ~Closed(s) /\ pos = Len(s.stream) + 1
         /\ StringsMatch(s, strTab) /\ TraitsMatch(s, traitTab) /\ ObjectsMatch(s, objTab)
         /\ MadeMatches(s, made) /\ BelowMatches(s, rstack) /\ TopMatches(s, rstack)
<1>1. s.stack # <<>> /\ ~Closed(s) BY FreshTop DEF Closed, Fresh
<1>2. pos = Len(s.stream) + 1
  <2>1. s.stream = <<>> /\ pos = 1 BY DEF Fresh, Ready
  <2> QED BY <2>1
<1>3. StringsMatch(s, strTab)
  <2>1. Len(strTab) = 0 /\ s.strIndex = 0 BY DEF Ready, Fresh
  <2>2. \A x \in Strings : s.strCache[StrKey[x]] = NotCached BY WriterAssumption DEF Fresh
  <2> QED BY <2>1, <2>2 DEF StringsMatch
<1>4. TraitsMatch(s, traitTab)
  <2>1. Len(traitTab) = 0 /\ s.traitIndex = 0 BY DEF Ready, Fresh
  <2>2. Unnamed(s) = 0 BY FreshTop
  <2>3. 0 .. Len(traitTab) - 1 = {} BY <2>1
  <2> QED BY <2>1, <2>2, <2>3 DEF TraitsMatch
<1>5. ObjectsMatch(s, objTab)
  <2>1. Len(objTab) = 0 BY DEF Ready
  <2>2. \A o \in Obj : ~Met(s, o) BY DEF Met, Fresh
  <2> QED BY <2>1, <2>2, FreshTop DEF ObjectsMatch
<1>6. MadeMatches(s, made)
  <2>1. PICK x : x = MadeNode("root", None) OBVIOUS
  <2>2. x.kind = "root" /\ x.cls = None /\ x.kids = <<>> BY <2>1 DEF MadeNode
  <2>3. made = <<x>> BY <2>1 DEF Ready
  <2>4. Len(made) = 1 /\ made[1] = x BY <2>3
  <2>5. \A o \in Holder : Met(s, o) => o = Root BY DEF Fresh, Met, Holder
  <2>6. s.heap[Root].kind = "root" /\ s.heap[Root].kids = <<>> /\ s.heap[Root].nth = 1 /\ s.met = 1
    BY DEF Fresh
  <2>7. Lag(s, Root) = 0
    <3>1. 1 .. Len(s.stack) - 1 = {} BY DEF Fresh
    <3>2. ~LagsOn(s, Root) BY <3>1 DEF LagsOn
    <3> QED BY <3>2, LagTypes
  <2>8. Len(x.kids) = 0 /\ Len(s.heap[Root].kids) = 0 BY <2>2, <2>6
  <2>9. NodeMatches(s, Root, x) BY <2>2, <2>6, <2>7, <2>8 DEF NodeMatches, ReadAs
  <2> QED BY <2>4, <2>5, <2>6, <2>9, FreshTop DEF MadeMatches
<1>7. BelowMatches(s, rstack)
  <2>1. 1 .. Len(s.stack) - 1 = {} BY DEF Fresh
  <2> QED BY <2>1 DEF BelowMatches
<1>8. TopMatches(s, rstack)
  <2>1. PICK r : r = ValuesFrame(1, 1) OBVIOUS
  <2>2. r.what = "values" /\ r.node = 1 /\ r.left = 1 /\ r.members = <<>> /\ r.dyn = FALSE /\ r.key = None
    BY <2>1 DEF ValuesFrame
  <2>3. rstack = <<r>> BY <2>1 DEF Ready
  <2>4. Len(rstack) = 1 /\ rstack[1] = r BY <2>3
  <2>5. Len(s.stack) = 1 /\ s.heap[Root].kind = "root" /\ s.heap[Root].depth = 0 /\ s.heap[Root].nth = 1
    BY DEF Fresh
  <2>6. /\ s.stack[1].obj = Root /\ s.stack[1].left = 1 /\ s.stack[1].members = <<>>
        /\ s.stack[1].dyn = FALSE /\ s.stack[1].key = None
    BY DEF Fresh
  <2>7. Extra(s, Root) = 0 BY <2>5 DEF Extra
  <2>8. Ground(s, 1) = 1 BY <2>5, <2>6 DEF Ground
  <2>9. Seat(s, 1) = 1 BY <2>6, <2>7, <2>8 DEF Seat
  <2>10. WhatOf(s, 1) = "values" BY DEF WhatOf
  <2>11. ~Lags(s, 1) BY <2>5 DEF Lags
  <2>12. FrameMatches(s, 1, "values", r) BY <2>2, <2>5, <2>6, <2>11 DEF FrameMatches
  <2>13. Held(s, 1, rstack) BY <2>4, <2>5, <2>6, <2>9, <2>10, <2>12 DEF Held
  <2>14. TopOf(s).names = <<>> /\ TopOf(s).src = FALSE BY FreshTop DEF Fresh
  <2>15. AtValues(s, rstack) BY <2>4, <2>5, <2>9, <2>13, <2>14 DEF AtValues
  <2> QED BY <2>15 DEF TopMatches
<1> QED BY <1>1, <1>2, <1>3, <1>4, <1>5, <1>6, <1>7, <1>8

\* The writer goes on only while some function is active.
LEMMA Moves == ASSUME NEW s, NEW t, WStep(s, t) PROVE s.stack # <<>>
<1>1. CASE \E v \in Values : GivesPlain(s, t, v) BY <1>1 DEF GivesPlain, Serves, Wants
<1>2. CASE \E o \in Obj : GivesNew(s, t, o) BY <1>2, NewMeets DEF Meets, Serves, Wants
<1>3. CASE \/ SaysName(s, t) \/ SaysSource(s, t) \/ (\E k \in Keys \ {Empty} : WritesKey(s, t, k))
           \/ Closes(s, t) \/ Returns(s, t)
  BY <1>3, QuietSteps
<1> QED BY <1>1, <1>2, <1>3 DEF WStep

LEMMA ToldMore ==
  ASSUME Faithful, NEW H, NEW n, Told(H, n), NEW t, Typed(t), WStep(H[n], t)
  PROVE  \E G : Told(G, n + 1) /\ G[n + 1] = t
<1> DEFINE G == [i \in 1 .. n + 1 |-> IF i <= n THEN H[i] ELSE t]
<1>0. n \in Nat \ {0} /\ n \in 1 .. n BY DEF Told
<1>1. G[n + 1] = t /\ \A i \in 1 .. n : G[i] = H[i] BY <1>0
<1> HIDE DEF G
<1>2. WInv(H[n]) /\ Typed(H[n]) BY <1>0 DEF Told, WInv
<1>3. WInv(t) BY <1>2, StepKeeps
<1>4. Earlier(H[n], t) BY <1>2, StepEarlier
<1>5. Earlier(t, t) BY <1>3, EarlierItself
<1>6. ASSUME NEW i \in 1 .. n + 1 PROVE WInv(G[i]) /\ Earlier(G[i], t)
  <2>1. CASE i \in 1 .. n
    <3>1. WInv(H[i]) /\ Earlier(H[i], H[n]) /\ Typed(H[i]) BY <2>1 DEF Told, WInv
    <3>2. Earlier(H[i], t) BY <1>2, <1>4, <3>1, EarlierTransitive
    <3> QED BY <1>1, <2>1, <3>1, <3>2
  <2>2. CASE i = n + 1 BY <1>1, <1>3, <1>5, <2>2
  <2> QED BY <1>0, <2>1, <2>2
<1>7. ASSUME NEW i \in 1 .. n + 1 - 1 PROVE WStep(G[i], G[i + 1])
  <2>1. CASE i = n BY <1>0, <1>1, <2>1
  <2>2. CASE i # n
    <3>1. i \in 1 .. n - 1 /\ i \in 1 .. n /\ i + 1 \in 1 .. n BY <1>0, <2>2
    <3> QED BY <1>1, <3>1 DEF Told
  <2> QED BY <2>1, <2>2
<1>8. Fresh(G[1])
  <2>1. 1 \in 1 .. n BY <1>0
  <2> QED BY <1>1, <2>1 DEF Told
<1>9. n + 1 \in Nat \ {0} BY <1>0
<1>10. Told(G, n + 1) BY <1>1, <1>6, <1>7, <1>8, <1>9 DEF Told
<1> QED BY <1>1, <1>10

LEMMA StoryBegins == Init => StoryInv
<1> SUFFICES ASSUME Init PROVE StoryInv
  OBVIOUS
<1>0. TypeInv BY TypesBegin
<1>1. PICK s : s = Now OBVIOUS
<1>2. /\ s.stream = stream /\ s.objCache = objCache /\ s.objIndex = objIndex
      /\ s.strCache = strCache /\ s.strIndex = strIndex /\ s.traitCache = traitCache
      /\ s.traitIndex = traitIndex /\ s.stack = stack /\ s.heap = heap /\ s.met = met
  BY <1>1, NowIs
<1>3. Typed(s) BY <1>0, <1>1, NowTyped DEF TypeInv, TypeOK
<1>4. Fresh(s)
  <2>1. PICK f : f = NewFrame(Root, <<>>, FALSE, 1, <<>>, FALSE) OBVIOUS
  <2>2. /\ f.obj = Root /\ f.names = <<>> /\ f.src = FALSE /\ f.left = 1 /\ f.members = <<>>
        /\ f.dyn = FALSE /\ f.key = None
    BY <2>1 DEF NewFrame
  <2>3. stack = <<f>> BY <2>1 DEF Init, WriterInit
  <2>4. Len(stack) = 1 /\ stack[1] = f BY <2>3
  <2>5. /\ stream = <<>> /\ met = 1 /\ objIndex = 0 /\ strIndex = 0 /\ traitIndex = 0
        /\ \A o \in Obj : objCache[o] = NotCached
        /\ \A k \in StrKeys : strCache[k] = NotCached
        /\ \A k \in TraitKeys : traitCache[k] = NotCached
    BY DEF Init, WriterInit
  <2>6. /\ heap[Root].kind = "root" /\ heap[Root].depth = 0
        /\ heap[Root].nth = 1 /\ heap[Root].kids = <<>>
    BY DEF Init, WriterInit, Unmet
  <2>7. \A o \in Obj : /\ heap[o].kind = "unmet" /\ heap[o].nth = 0
                       /\ heap[o].kids = <<>> /\ heap[o].depth = 0
    BY WriterAssumption DEF Init, WriterInit, Unmet
  <2> QED BY <1>2, <2>2, <2>4, <2>5, <2>6, <2>7 DEF Fresh
<1>5. WInv(s) BY <1>3, <1>4, FreshInv
<1> DEFINE H == [i \in {1} |-> s]
<1>6. H[1] = s OBVIOUS
<1> HIDE DEF H
<1>7. Told(H, 1)
  <2>1. Earlier(s, s) BY <1>5, EarlierItself
  <2>2. \A i \in 1 .. 1 : i = 1 OBVIOUS
  <2>3. 1 .. 1 - 1 = {} OBVIOUS
  <2> QED BY <1>4, <1>5, <1>6, <2>1, <2>2, <2>3 DEF Told
<1>8. Writing(H[1]) /\ rstat = "idle"
  BY <1>1, <1>6 DEF Writing, Ready, Init, ReaderInit
<1>9. Story(H, 1) BY <1>7, <1>8 DEF Story
<1> QED BY <1>0, <1>9 DEF StoryInv

\* The reader's step, against the writer's.
LEMMA ReadGoesOn ==
  ASSUME Faithful, TypeInv, Read, NEW H, NEW n, Story(H, n)
  PROVE  Story(H, n)'
<1>1. /\ ReaderNext
      /\ UNCHANGED <<objCache, objIndex, strCache, strIndex, traitCache, traitIndex, stack, heap,
                     met, sent>>
  BY DEF Read, caches
<1>2. rstat = "run"
  BY <1>1 DEF ReaderNext, ReadScalar, ReadString, ReadReference, ReadLeaf, ReadArray,
              ReadNamedArray, ReadDict, ReadVector, ReadTypeName, ReadTraitReference, ReadTraits,
              ReadName, ReadKey, ReadReturn, ReadDone, ReadRaises, ReadPastEnd,
              ExpectsValue, ExpectsName, ExpectsType, ExpectsKey, More
<1>3. Told(H, n) /\ Reading(H, n) BY <1>2 DEF Story
<1>4. PICK k \in 1 .. n : Matches(H[k]) BY <1>3 DEF Reading
<1>5. n \in Nat \ {0} /\ k \in Nat /\ Ended(H[n]) BY <1>3 DEF Told, Reading
<1>6. k # n BY <1>4, <1>5 DEF Ended, Matches
<1>7. k \in 1 .. n - 1 /\ k + 1 \in 1 .. n /\ n \in 1 .. n BY <1>5, <1>6
<1>8. PICK s, t, F : s = H[k] /\ t = H[k + 1] /\ F = H[n].stream OBVIOUS
<1>9. WInv(s) /\ WInv(t) /\ WStep(s, t) BY <1>3, <1>7, <1>8 DEF Told
<1>10. Earlier(t, H[n]) /\ WInv(H[n]) /\ Typed(H[n]) BY <1>3, <1>7, <1>8 DEF Told, WInv
<1>11. F \in Seq(Token) /\ Extends(t.stream, F) /\ Extends(stream, F) /\ sent = F
  BY <1>5, <1>8, <1>10 DEF Typed, Earlier, Ended
<1>12. ReaderInv /\ stream \in Seq(Token) BY DEF TypeInv, TypeOK, WriterTypeOK, ReaderInv
<1>13. Matches(s) BY <1>4, <1>8
<1>14. Facing(s, t, F)
  <2>1. Earlier(s, t)
    <3>1. Typed(t) BY <1>9 DEF WInv
    <3> QED BY <1>9, <3>1, StepEarlier
  <2> QED BY <1>1, <1>2, <1>9, <1>11, <1>12, <1>13, <2>1 DEF Facing
<1>15. Follows(s, t, F) BY <1>14, Follow
<1>16. Told(H, n)' BY <1>3
<1>17. ASSUME stream' = stream PROVE Ended(H[n])'
  BY <1>1, <1>5, <1>17 DEF Ended
<1>18. ASSUME UNCHANGED <<pos, rstack, tables, made, stream>> PROVE Matches(s)'
  <2>1. UNCHANGED <<pos, rstack, objTab, strTab, traitTab, made, stream>> BY <1>18 DEF tables
  <2> QED BY <1>13, <2>1 DEF Matches
<1>19. CASE Failed /\ (Len(stream) < Len(F) \/ ~FlatSnap(t))
  <2>1. rstat' = "error" /\ UNCHANGED <<pos, rstack, tables, made, stream>> BY <1>19 DEF Failed
  <2>2. Matches(H[k])' /\ Ended(H[n])' BY <1>8, <1>17, <1>18, <2>1
  <2>3. FlatSnap(H[n]) => FlatSnap(t) BY <1>9, <1>10, FlatBefore
  <2>4. Len(stream') < Len(sent') \/ ~FlatSnap(H[n]) BY <1>1, <1>11, <1>19, <2>1, <2>3
  <2>5. Reading(H, n)' BY <2>1, <2>2, <2>4 DEF Reading
  <2> QED BY <1>16, <2>1, <2>5 DEF Story
<1>20. CASE /\ rstat' = rstat /\ stream' = stream
            /\ \/ Matches(s)' \/ Matches(t)'
               \/ Closed(t) /\ \A u : WInv(u) /\ WStep(t, u) => Matches(u)'
  <2>1. Ended(H[n])' /\ rstat' = "run" BY <1>2, <1>17, <1>20
  <2>2. \E j \in 1 .. n : Matches(H[j])'
    <3>1. CASE Matches(s)' BY <1>8, <3>1
    <3>2. CASE Matches(t)' BY <1>7, <1>8, <3>2
    <3>3. CASE Closed(t) /\ \A u : WInv(u) /\ WStep(t, u) => Matches(u)'
      <4>1. t.stack # <<>>
        <5>1. Len(t.stack) > 1 BY <3>3 DEF Closed
        <5> QED BY <5>1
      <4>2. k + 1 # n BY <1>5, <1>8, <4>1 DEF Ended
      <4>3. k + 1 \in 1 .. n - 1 /\ k + 1 + 1 \in 1 .. n BY <1>5, <1>7, <4>2
      <4>4. WInv(H[k + 1 + 1]) /\ WStep(t, H[k + 1 + 1]) BY <1>3, <1>8, <4>3 DEF Told
      <4> QED BY <3>3, <4>3, <4>4
    <3> QED BY <1>20, <3>1, <3>2, <3>3
  <2>3. Reading(H, n)' BY <2>1, <2>2 DEF Reading
  <2> QED BY <1>16, <2>1, <2>3 DEF Story
<1>21. CASE /\ rstat' = "done" /\ UNCHANGED <<pos, rstack, tables, made, stream>>
            /\ Returns(s, t) /\ Len(s.stack) = 1
  <2>1. Matches(H[k])' /\ Ended(H[n])' BY <1>8, <1>17, <1>18, <1>21
  <2>2. t.stack = <<>>
    <3>1. Len(t.stack) = 0 BY <1>21 DEF Returns
    <3>2. t.stack \in Seq(Frame) BY <1>9 DEF WInv, Typed
    <3> QED BY <3>1, <3>2, Elements
  <2>3. k + 1 = n
    <3> SUFFICES ASSUME k + 1 # n PROVE FALSE
      OBVIOUS
    <3>1. k + 1 \in 1 .. n - 1 BY <1>5, <1>7
    <3>2. WStep(t, H[k + 1 + 1]) BY <1>3, <1>8, <3>1 DEF Told
    <3>3. t.stack # <<>> BY <1>9, <3>2, Moves
    <3> QED BY <2>2, <3>3
  <2>4. Returns(H[k], H[n]) BY <1>8, <1>21, <2>3
  <2>5. Reading(H, n)' BY <1>21, <2>1, <2>4 DEF Reading
  <2> QED BY <1>16, <1>21, <2>5 DEF Story
<1> QED BY <1>15, <1>19, <1>20, <1>21 DEF Follows

LEMMA StoryKept ==
  ASSUME Faithful, TypeInv, TypeInv', [Next]_vars, \E H, n : Story(H, n)
  PROVE  \E H, n : Story(H, n)'
<1>1. PICK H, n : Story(H, n) OBVIOUS
<1>2. Told(H, n) /\ n \in Nat \ {0} /\ n \in 1 .. n BY <1>1 DEF Story, Told
<1>3. WInv(H[n]) BY <1>2 DEF Told
<1>4. CASE Write
  <2>1. /\ rstat = "idle" /\ ClientNext
        /\ UNCHANGED <<pos, rstack, objTab, strTab, traitTab, made, rstat, sent>>
    BY <1>4 DEF Write, readerVars
  <2>2. H[n] = Now /\ Ready BY <1>1, <2>1 DEF Story, Writing
  <2>3. PICK t : t = Now' OBVIOUS
  <2>4. Ready' /\ rstat' = "idle" BY <2>1, <2>2 DEF Ready
  <2>5. WriterTypeOK /\ WriterTypeOK' BY DEF TypeInv, TypeOK
  <2>6. WStep(H[n], t) BY <1>3, <2>1, <2>2, <2>3, <2>5, Steps
  <2>7. Typed(t)
    <3>1. /\ t.stream = stream' /\ t.objCache = objCache' /\ t.objIndex = objIndex'
          /\ t.strCache = strCache' /\ t.strIndex = strIndex' /\ t.traitCache = traitCache'
          /\ t.traitIndex = traitIndex' /\ t.stack = stack' /\ t.heap = heap' /\ t.met = met'
      BY <2>3, Zenon DEF Now
    <3> QED BY <2>5, <3>1, Zenon DEF WriterTypeOK, Typed, Holder
  <2>8. PICK G : Told(G, n + 1) /\ G[n + 1] = t BY <1>2, <2>6, <2>7, ToldMore
  <2>9. Writing(G[n + 1])' BY <2>3, <2>4, <2>8 DEF Writing
  <2>10. Story(G, n + 1)' BY <2>4, <2>8, <2>9 DEF Story
  <2> QED BY <2>10
<1>5. CASE Hand
  <2>1. /\ rstat = "idle" /\ stack = <<>> /\ rstat' = "run" /\ sent' = stream
        /\ UNCHANGED <<objCache, objIndex, strCache, strIndex, traitCache, traitIndex, stack, heap,
                       met, pos, rstack, objTab, strTab, traitTab, made>>
    BY <1>5 DEF Hand, caches, tables, Busy
  <2>2. H[n] = Now /\ Ready BY <1>1, <2>1 DEF Story, Writing
  <2>3. /\ H[n].stream = stream /\ H[n].objCache = objCache /\ H[n].objIndex = objIndex
        /\ H[n].strCache = strCache /\ H[n].strIndex = strIndex /\ H[n].traitCache = traitCache
        /\ H[n].traitIndex = traitIndex /\ H[n].stack = stack /\ H[n].heap = heap /\ H[n].met = met
    BY <2>2, NowIs
  <2>4. stream \in Seq(Token) /\ stream' \in Seq(Token) BY DEF TypeInv, TypeOK, WriterTypeOK
  <2>5. Len(stream) \in Nat /\ Len(stream') \in Nat BY <2>4, Elements
  <2>6. Extends(stream', stream)
    <3>1. CASE stream' = stream BY <2>5, <3>1 DEF Extends
    <3>2. CASE MayCut /\ \E kept \in 0 .. Len(stream) - 1 : stream' \in CutAfter(kept)
      <4>1. PICK kept \in 0 .. Len(stream) - 1 : stream' \in CutAfter(kept) BY <3>2
      <4>2. Native BY <3>2 DEF Faithful
      <4>3. stream' = SubSeq(stream, 1, kept) BY <4>1, <4>2 DEF CutAfter
      <4>4. kept \in 0 .. Len(stream) BY <2>5
      <4> QED BY <2>4, <2>5, <4>3, <4>4, Beginning DEF Extends
    <3> QED BY <1>5, <3>1, <3>2 DEF Hand
  <2>7. Ended(H[n])' BY <2>1, <2>3, <2>6 DEF Ended
  <2>8. 1 \in 1 .. n /\ Fresh(H[1]) /\ WInv(H[1]) /\ Typed(H[1]) BY <1>2 DEF Told, WInv
  <2>9. Matches(H[1])'
    <3>1. /\ H[1].stack # <<>> /\ ~Closed(H[1]) /\ pos = Len(H[1].stream) + 1
          /\ StringsMatch(H[1], strTab) /\ TraitsMatch(H[1], traitTab)
          /\ ObjectsMatch(H[1], objTab) /\ MadeMatches(H[1], made)
          /\ BelowMatches(H[1], rstack) /\ TopMatches(H[1], rstack)
      BY <2>2, <2>8, FreshMatches
    <3>2. pos' <= Len(stream') + 1
      <4>1. pos' = 1 BY <2>1, <2>2 DEF Ready
      <4> QED BY <2>5, <4>1
    <3> QED BY <2>1, <3>1, <3>2 DEF Matches
  <2>10. Reading(H, n)' BY <2>1, <2>7, <2>8, <2>9 DEF Reading
  <2>11. Story(H, n)' BY <1>2, <2>1, <2>10 DEF Story
  <2> QED BY <2>11
<1>6. CASE Read
  <2>1. Story(H, n)' BY <1>1, <1>6, ReadGoesOn
  <2> QED BY <2>1
<1>7. CASE UNCHANGED vars
  <2>1. UNCHANGED <<stream, objCache, objIndex, strCache, strIndex, traitCache, traitIndex, stack,
                    heap, met, pos, rstack, objTab, strTab, traitTab, made, rstat, sent>>
    BY <1>7 DEF vars, writerVars, readerVars
  <2>2. Now' = Now BY <2>1 DEF Now
  <2>3. Writing(H[n]) => Writing(H[n])' BY <2>1, <2>2 DEF Writing, Ready
  <2>4. \A k : Matches(H[k]) => Matches(H[k])' BY <2>1 DEF Matches
  <2>5. Ended(H[n]) => Ended(H[n])' BY <2>1 DEF Ended
  <2>6. Reading(H, n) => Reading(H, n)' BY <2>1, <2>4, <2>5 DEF Reading
  <2>7. rstat' = rstat BY <2>1
  <2>8. Story(H, n)' BY <1>1, <1>2, <2>3, <2>6, <2>7 DEF Story
  <2> QED BY <2>8
<1> QED BY <1>4, <1>5, <1>6, <1>7 DEF Next

\* Whatever the reader has come to, the writer was there.
LEMMA StoryHolds == Faithful => (Spec => []StoryInv)
<1> SUFFICES ASSUME Faithful PROVE Spec => []StoryInv
  OBVIOUS
<1>1. Init => StoryInv BY StoryBegins
<1>2. StoryInv /\ [Next]_vars => StoryInv'
  <2> SUFFICES ASSUME StoryInv, [Next]_vars PROVE StoryInv'
    OBVIOUS
  <2>1. TypeInv /\ TypeInv' BY TypesKept DEF StoryInv
  <2> QED BY <2>1, StoryKept DEF StoryInv
<1> QED BY <1>1, <1>2, PTL DEF Spec

\* What a message that is handed over tells.
LEMMA Come ==
  ASSUME StoryInv, rstat # "idle"
  PROVE  \E s, f : /\ WInv(s) /\ WInv(f) /\ Earlier(s, f) /\ Matches(s) /\ Ended(f)
                   /\ rstat = "done" => Returns(s, f)
                   /\ rstat = "error" => Len(stream) < Len(sent) \/ ~FlatSnap(f)
<1>1. PICK H, n : Story(H, n) BY DEF StoryInv
<1>2. Told(H, n) /\ Reading(H, n) BY <1>1 DEF Story
<1>3. PICK k \in 1 .. n : /\ Matches(H[k])
                          /\ rstat = "done" => Returns(H[k], H[n])
                          /\ rstat = "error" => Len(stream) < Len(sent) \/ ~FlatSnap(H[n])
  BY <1>2 DEF Reading
<1>4. n \in 1 .. n BY <1>2 DEF Told
<1>5. WInv(H[k]) /\ WInv(H[n]) /\ Earlier(H[k], H[n]) /\ Ended(H[n])
  BY <1>2, <1>4 DEF Told, Reading
<1> QED BY <1>3, <1>5

\* What was met keeps its number, and nothing else gets it.
LEMMA LaterNumbers ==
  ASSUME NEW s, NEW f, WInv(s), WInv(f), Earlier(s, f), NEW o \in Holder
  PROVE  /\ Met(s, o) => f.heap[o].nth = s.heap[o].nth /\ s.heap[o].nth \in 1 .. s.met
         /\ f.heap[o].nth \in 1 .. s.met => Met(s, o)
<1>1. Later(s, f, o) /\ Numbered(s) BY DEF Earlier, WInv
<1>2. f.heap[o].nth \in Nat /\ s.met \in Nat BY SnapshotTypes DEF WInv
<1> QED BY <1>1, <1>2 DEF Later, Numbered

\* What is still waited for has the last number.
LEMMA PendsLast ==
  ASSUME NEW s, WInv(s), NEW o \in Holder, Met(s, o), s.heap[o].nth <= s.met - Waiting(s)
  PROVE  ~Pends(s, o)
<1> SUFFICES ASSUME Pends(s, o) PROVE FALSE
  OBVIOUS
<1>1. Pending(s) /\ TopOf(s).obj = o BY DEF Pends
<1>2. s.stack # <<>> BY <1>1 DEF Pending
<1>3. Begun(s) BY DEF WInv
<1>4. s.heap[o].nth = s.met BY <1>1, <1>2, <1>3 DEF Begun
<1>5. s.met \in Nat BY SnapshotTypes DEF WInv
<1>6. Waiting(s) = 1 BY <1>1 DEF Waiting
<1> QED BY <1>4, <1>5, <1>6

\* What the reader has made of an object.
LEMMA NodeCome ==
  ASSUME StoryInv, NEW s, NEW f, WInv(s), WInv(f), Earlier(s, f), Matches(s), Ended(f),
         NEW o \in Holder, heap[o].nth \in DOMAIN made
  PROVE  /\ Met(s, o) /\ s.heap[o].nth = heap[o].nth /\ NodeMatches(s, o, made[heap[o].nth])
         /\ made[heap[o].nth] \in ReadNode
<1>1. heap = f.heap BY DEF Ended
<1>2. made \in Seq(ReadNode) BY DEF StoryInv, TypeInv, TypeOK, ReaderTypeOK
<1>3. MadeMatches(s, made) BY DEF Matches
<1>4. PICK m, w, n : m = s.met /\ w = Waiting(s) /\ n = heap[o].nth OBVIOUS
<1>5. Typed(s) BY DEF WInv
<1>6. m \in Nat /\ w \in {0, 1} BY <1>4, <1>5, SnapshotTypes, KnownTypes
<1>7. n \in 1 .. Len(made) /\ Len(made) = m - w BY <1>2, <1>3, <1>4, Elements DEF MadeMatches
<1>8. n \in 1 .. m /\ n <= m - w BY <1>6, <1>7
<1>9. Met(s, o) /\ s.heap[o].nth = n BY <1>1, <1>4, <1>8, LaterNumbers
<1>10. ~Pends(s, o) BY <1>4, <1>8, <1>9, PendsLast
<1>11. NodeMatches(s, o, made[n]) BY <1>3, <1>9, <1>10 DEF MadeMatches
<1>12. made[n] \in ReadNode BY <1>2, <1>7, Elements
<1> QED BY <1>4, <1>9, <1>11, <1>12

LEMMA ReadsRight == StoryInv => NoMisread
<1> SUFFICES ASSUME StoryInv, rstat # "idle", Flat, NEW o \in Obj \cup {Root},
                    heap[o].nth \in DOMAIN made
             PROVE  NoMisreadOf(o)
  BY DEF NoMisread
<1>1. PICK s, f : WInv(s) /\ WInv(f) /\ Earlier(s, f) /\ Matches(s) /\ Ended(f) BY Come
<1>2. heap = f.heap BY <1>1 DEF Ended
<1>3. o \in Holder BY DEF Holder
<1>4. /\ Met(s, o) /\ s.heap[o].nth = heap[o].nth /\ NodeMatches(s, o, made[heap[o].nth])
      /\ made[heap[o].nth] \in ReadNode
  BY <1>1, <1>3, NodeCome
<1>5. FlatSnap(s)
  <2>1. FlatSnap(f) BY <1>2 DEF Flat, FlatSnap
  <2> QED BY <1>1, <2>1, FlatBefore
<1>6. Later(s, f, o) BY <1>1, <1>3 DEF Earlier
<1>7. /\ heap[o].kind = s.heap[o].kind /\ heap[o].tr = s.heap[o].tr
      /\ Extends(s.heap[o].kids, heap[o].kids)
  BY <1>2, <1>4, <1>6 DEF Later
<1>8. PICK r : r = made[heap[o].nth] OBVIOUS
<1>9. DOMAIN r.kids = 1 .. Len(r.kids) /\ Len(r.kids) \in Nat
  <2>1. r.kids \in Seq([key : Strings \cup {None}, val : ReaderValue]) BY <1>4, <1>8 DEF ReadNode
  <2> QED BY <2>1, Elements
<1>10. Len(r.kids) <= Len(s.heap[o].kids)
  <2>1. Len(r.kids) = Len(s.heap[o].kids) - Lag(s, o) BY <1>4, <1>8 DEF NodeMatches
  <2>2. Lag(s, o) \in {0, 1} BY LagTypes
  <2>3. Len(s.heap[o].kids) \in Nat
    <3>1. s.heap[o].kids \in Seq(Kid) BY <1>1, <1>3, SnapshotTypes DEF WInv
    <3> QED BY <3>1, Elements
  <2>4. PICK a, b, c : a = Len(r.kids) /\ b = Len(s.heap[o].kids) /\ c = Lag(s, o) OBVIOUS
  <2> QED BY <2>1, <2>2, <2>3, <2>4
<1>11. ASSUME NEW i \in DOMAIN r.kids
       PROVE  r.kids[i].key = heap[o].kids[i].key /\ r.kids[i].val = Decoded(heap[o].kids[i].val)
  <2>0. Len(s.heap[o].kids) \in Nat
    <3>1. s.heap[o].kids \in Seq(Kid) BY <1>1, <1>3, SnapshotTypes DEF WInv
    <3> QED BY <3>1, Elements
  <2>1. i \in 1 .. Len(r.kids) /\ i \in 1 .. Len(s.heap[o].kids) BY <1>9, <1>10, <1>11, <2>0
  <2>2. heap[o].kids[i] = s.heap[o].kids[i] BY <1>7, <2>1 DEF Extends
  <2>3. r.kids[i].key = s.heap[o].kids[i].key /\ r.kids[i].val = Decode(s, s.heap[o].kids[i].val)
    BY <1>4, <1>5, <1>8, <2>1 DEF NodeMatches
  <2>4. PICK v : v = s.heap[o].kids[i].val OBVIOUS
  <2>5. v \in Obj => Met(s, v) BY <1>1, <1>3, <2>1, <2>4 DEF WInv, KidsMet
  <2>6. v \in Obj => heap[v].nth = s.heap[v].nth
    BY <1>1, <1>2, <2>5, LaterNumbers DEF Holder
  <2>7. Decoded(v) = Decode(s, v) BY <2>6 DEF Decoded, Decode
  <2> QED BY <2>2, <2>3, <2>4, <2>7
<1>12. heap[o].kind = "object" => r.cls = WireName(heap[o].tr)
  BY <1>4, <1>7, <1>8 DEF NodeMatches
<1>13. Len(r.kids) <= Len(heap[o].kids)
  <2>1. Len(s.heap[o].kids) <= Len(heap[o].kids) BY <1>7 DEF Extends
  <2>2. s.heap[o].kids \in Seq(Kid) /\ heap[o].kids \in Seq(Kid)
    BY <1>1, <1>2, <1>3, SnapshotTypes DEF WInv
  <2>3. Len(s.heap[o].kids) \in Nat /\ Len(heap[o].kids) \in Nat BY <2>2, Elements
  <2> QED BY <1>9, <1>10, <2>1, <2>3
<1>14. r.kind = ReadAs(heap[o].kind) BY <1>4, <1>7, <1>8 DEF NodeMatches
<1> QED BY <1>8, <1>11, <1>12, <1>13, <1>14 DEF NoMisreadOf

LEMMA NoticesCut == StoryInv => CutIsNoticed
<1> SUFFICES ASSUME StoryInv, rstat = "done" PROVE ~Cut
  BY DEF CutIsNoticed
<1>1. PICK s, f : /\ WInv(s) /\ WInv(f) /\ Matches(s) /\ Ended(f) /\ Returns(s, f)
  BY Come
<1>2. sent = s.stream /\ Extends(stream, s.stream) BY <1>1 DEF Returns, Ended
<1>3. pos = Len(s.stream) + 1 /\ pos <= Len(stream) + 1 BY <1>1 DEF Matches
<1>4. stream \in Seq(Token) /\ s.stream \in Seq(Token)
  BY <1>1 DEF WInv, Typed, StoryInv, TypeInv, TypeOK, WriterTypeOK
<1>5. Len(s.stream) \in Nat /\ Len(stream) \in Nat BY <1>4, Elements
<1>6. Len(stream) = Len(s.stream) BY <1>2, <1>3, <1>5 DEF Extends
<1>7. \A i \in 1 .. Len(stream) : stream[i] = s.stream[i] BY <1>2 DEF Extends
<1>8. stream = s.stream BY <1>4, <1>6, <1>7, SameSequence
<1> QED BY <1>2, <1>8 DEF Cut

LEMMA WholeWhenDone ==
  ASSUME StoryInv, rstat = "done"
  PROVE  /\ Len(made) = met
         /\ \A o \in Obj \cup {Root} : heap[o].nth \in DOMAIN made =>
              Len(made[heap[o].nth].kids) = Len(heap[o].kids)
         /\ pos = Len(stream) + 1
         /\ Len(objTab) = objIndex /\ Len(strTab) = strIndex /\ Len(traitTab) = traitIndex
<1>1. PICK s, f : WInv(s) /\ WInv(f) /\ Earlier(s, f) /\ Matches(s) /\ Ended(f) /\ Returns(s, f)
  BY Come
<1>2. /\ heap = s.heap /\ met = s.met /\ sent = s.stream /\ Extends(stream, s.stream)
      /\ objIndex = s.objIndex /\ strIndex = s.strIndex /\ traitIndex = s.traitIndex
  BY <1>1 DEF Returns, Ended, SameGraph, SameObjects, SameStrings, SameTraits
<1>3. Typed(s) /\ Typed(f) /\ Path(s) /\ Numbered(s) BY <1>1 DEF WInv
<1>4. Waiting(s) = 0 /\ Unnamed(s) = 0 BY <1>1, NotWaiting DEF Returns
<1>5. Len(s.stack) = 1
  <2>1. Len(f.stack) = 0 BY <1>1 DEF Ended
  <2>2. Len(f.stack) = Len(s.stack) - 1 BY <1>1 DEF Returns
  <2>3. Len(s.stack) \in Nat BY <1>3, SnapshotTypes
  <2>4. PICK a : a = Len(s.stack) OBVIOUS
  <2>5. a \in Nat /\ 0 = a - 1 BY <2>1, <2>2, <2>3, <2>4
  <2>6. a = 1 BY <2>5
  <2> QED BY <2>4, <2>6
<1>6. Len(made) = met
  <2>1. Len(made) = s.met - Waiting(s) BY <1>1 DEF Matches, MadeMatches
  <2>2. s.met \in Nat BY <1>3, SnapshotTypes
  <2> QED BY <1>2, <1>4, <2>1, <2>2
<1>7. pos = Len(stream) + 1
  <2>1. pos = Len(s.stream) + 1 /\ pos <= Len(stream) + 1 BY <1>1 DEF Matches
  <2>2. stream \in Seq(Token) /\ s.stream \in Seq(Token)
    BY <1>3 DEF Typed, StoryInv, TypeInv, TypeOK, WriterTypeOK
  <2>3. Len(s.stream) \in Nat /\ Len(stream) \in Nat BY <2>2, Elements
  <2>4. Len(stream) <= Len(s.stream) BY <1>2 DEF Extends
  <2> QED BY <2>1, <2>3, <2>4
<1>8. ASSUME NEW o \in Obj \cup {Root}, heap[o].nth \in DOMAIN made
      PROVE  Len(made[heap[o].nth].kids) = Len(heap[o].kids)
  <2>1. o \in Holder BY DEF Holder
  <2>2. NodeMatches(s, o, made[heap[o].nth]) BY <1>1, <1>8, <2>1, NodeCome
  <2>3. Len(made[heap[o].nth].kids) = Len(heap[o].kids) - Lag(s, o)
    BY <1>2, <2>2 DEF NodeMatches
  <2>4. Lag(s, o) = 0
    <3>1. 1 .. Len(s.stack) - 1 = {} BY <1>5
    <3>2. ~LagsOn(s, o) BY <3>1 DEF LagsOn
    <3> QED BY <3>2, LagTypes
  <2>5. heap[o].kids \in Seq(Kid) BY <1>2, <1>3, <2>1, SnapshotTypes
  <2>6. Len(heap[o].kids) \in Nat BY <2>5, Elements
  <2> QED BY <2>3, <2>4, <2>6
<1>9. Len(objTab) = objIndex
  <2>1. Len(objTab) = Known(s) BY <1>1 DEF Matches, ObjectsMatch
  <2>2. s.stack # <<>> BY <1>1 DEF Returns
  <2>3. TopOf(s).obj = Root BY <1>3, <1>5, <2>2 DEF Path, TopOf
  <2>4. s.heap[Root].depth = 0 /\ s.heap[Root].kind = "root" BY <1>3 DEF Numbered
  <2>5. Extra(s, Root) = 0 BY <2>4 DEF Extra
  <2>6. Opened(s) = 0 BY <2>2, <2>3, <2>4, <2>5 DEF Opened
  <2>7. s.objIndex \in Nat BY <1>3, SnapshotTypes
  <2> QED BY <1>2, <1>4, <2>1, <2>6, <2>7 DEF Known
<1>10. Len(strTab) = strIndex BY <1>1, <1>2 DEF Matches, StringsMatch
<1>11. Len(traitTab) = traitIndex
  <2>1. Len(traitTab) = s.traitIndex - Unnamed(s) BY <1>1 DEF Matches, TraitsMatch
  <2>2. s.traitIndex \in Nat BY <1>3, SnapshotTypes
  <2> QED BY <1>2, <1>4, <2>1, <2>2
<1> QED BY <1>6, <1>7, <1>8, <1>9, <1>10, <1>11

LEMMA RaisedFor ==
  ASSUME StoryInv, rstat = "error"
  PROVE  Cut \/ (~Flat /\ NestedInAC)
<1>1. PICK f : WInv(f) /\ (Len(stream) < Len(sent) \/ ~FlatSnap(f)) /\ Ended(f) BY Come
<1>2. CASE Len(stream) < Len(sent)
  <2>1. stream \in Seq(Token) BY DEF StoryInv, TypeInv, TypeOK, WriterTypeOK
  <2>2. Len(stream) \in Nat BY <2>1, Elements
  <2>3. stream # sent BY <1>2, <2>2
  <2> QED BY <2>3 DEF Cut
<1>3. CASE ~FlatSnap(f)
  <2>1. ~Flat BY <1>1, <1>3 DEF Ended, Flat, FlatSnap
  <2>2. NestedInAC BY <1>1, <1>3 DEF WInv
  <2> QED BY <2>1, <2>2
<1> QED BY <1>1, <1>2, <1>3

LEMMA RebuildsWhole ==
  ASSUME StoryInv
  PROVE  RebuiltWhole \/ (rstat = "error" /\ ~Flat /\ NestedInAC)
BY WholeWhenDone, RaisedFor DEF RebuiltWhole

\* The tables of a reader that has not begun are empty.
LEMMA TablesBegin ==
  ASSUME StoryInv, rstat = "idle"
  PROVE  Len(objTab) = 0 /\ Len(strTab) = 0 /\ Len(traitTab) = 0
<1>1. Ready BY DEF StoryInv, Story, Writing
<1> QED BY <1>1 DEF Ready

LEMMA AgreesOnStrings == StoryInv => StringIndexesAgree
<1> SUFFICES ASSUME StoryInv, NEW x \in Strings \ {Empty},
                    strCache[StrKey[x]] \in 0 .. Len(strTab) - 1
             PROVE  strTab[strCache[StrKey[x]] + 1] = x
  BY DEF StringIndexesAgree
<1>1. strTab \in Seq(Strings) BY DEF StoryInv, TypeInv, TypeOK, ReaderTypeOK
<1>2. Len(strTab) \in Nat BY <1>1, Elements
<1>3. rstat # "idle" BY <1>2, TablesBegin
<1>4. PICK s, f : WInv(s) /\ WInv(f) /\ Earlier(s, f) /\ Matches(s) /\ Ended(f)
  BY <1>3, Come
<1>5. StrKey[x] \in StrKeys BY WriterAssumption
<1>6. PICK c, d : c = s.strCache[StrKey[x]] /\ d = strCache[StrKey[x]] OBVIOUS
<1>7. LaterIndex(c, d, s.strIndex) BY <1>4, <1>5, <1>6 DEF Earlier, Ended
<1>8. StringsMatch(s, strTab) BY <1>4 DEF Matches
<1>9. Len(strTab) = s.strIndex BY <1>8 DEF StringsMatch
<1>10. d \in 0 .. s.strIndex - 1 /\ s.strIndex \in Nat /\ d # NotCached
  BY <1>2, <1>6, <1>9 DEF NotCached
<1>11. c # NotCached /\ d = c BY <1>7, <1>10 DEF LaterIndex
<1> QED BY <1>6, <1>8, <1>11 DEF StringsMatch

LEMMA AgreesOnTraits ==
  ASSUME Faithful, StoryInv, NEW o \in Obj, heap[o].kind = "object"
  PROVE  TraitsFound(heap[o].tr)
<1> SUFFICES ASSUME traitCache[TraitKey(heap[o].tr)] \in 0 .. Len(traitTab) - 1
             PROVE  traitTab[traitCache[TraitKey(heap[o].tr)] + 1] = Described(heap[o].tr)
  BY DEF TraitsFound, Described
<1>1. traitTab \in Seq(TraitRecord) BY DEF StoryInv, TypeInv, TypeOK, ReaderTypeOK
<1>2. Len(traitTab) \in Nat BY <1>1, Elements
<1>3. rstat # "idle" BY <1>2, TablesBegin
<1>4. PICK s, f : WInv(s) /\ WInv(f) /\ Earlier(s, f) /\ Matches(s) /\ Ended(f)
  BY <1>3, Come
<1>5. PICK tr : tr = heap[o].tr OBVIOUS
<1>6. tr \in Traits
  <2>1. heap = f.heap BY <1>4 DEF Ended
  <2>2. TrOf(f, o) = tr BY <1>5, <2>1 DEF TrOf
  <2>3. TrOf(f, o) \in Traits BY <1>4, <2>1 DEF WInv, Cached
  <2> QED BY <2>2, <2>3
<1>7. TraitKey(tr) \in TraitKeys BY <1>6, TraitKeys0
<1>8. PICK c, d : c = s.traitCache[TraitKey(tr)] /\ d = traitCache[TraitKey(tr)] OBVIOUS
<1>9. LaterIndex(c, d, s.traitIndex) BY <1>4, <1>7, <1>8 DEF Earlier, Ended
<1>10. TraitsMatch(s, traitTab) BY <1>4 DEF Matches
<1>11. Len(traitTab) = s.traitIndex - Unnamed(s) BY <1>10 DEF TraitsMatch
<1>12. s.traitIndex \in Nat /\ Unnamed(s) \in {0, 1} BY <1>4, SnapshotTypes, KnownTypes DEF WInv
<1>13. d \in 0 .. Len(traitTab) - 1 /\ d # NotCached /\ d < s.traitIndex
  <2>1. d \in 0 .. Len(traitTab) - 1 BY <1>5, <1>8
  <2>2. PICK l, i, u : l = Len(traitTab) /\ i = s.traitIndex /\ u = Unnamed(s) OBVIOUS
  <2> QED BY <1>2, <1>11, <1>12, <2>1, <2>2 DEF NotCached
<1>14. c # NotCached /\ d = c BY <1>9, <1>12, <1>13 DEF LaterIndex
<1>15. traitTab[d + 1] = Described(tr) BY <1>6, <1>8, <1>10, <1>13, <1>14 DEF TraitsMatch
<1> QED BY <1>5, <1>8, <1>15

\* The index of an object that is still waited for is where the table ends.
LEMMA PendsAtEnd ==
  ASSUME NEW s, WInv(s), NEW o \in Obj, Pends(s, o)
  PROVE  Place(s, o) = Known(s)
<1>1. Pending(s) /\ TopOf(s).obj = o /\ Typed(s) BY DEF Pends, WInv
<1>2. s.stack # <<>> BY <1>1 DEF Pending
<1>3. Begun(s) BY DEF WInv
<1>4. s.objCache[o] + ObjSlots(s.heap[o].kind) = s.objIndex BY <1>1, <1>2, <1>3 DEF Begun
<1>5. Opened(s) = s.heap[o].depth + Extra(s, o) BY <1>1, <1>2 DEF Opened
<1>6. Waiting(s) = 1 BY <1>1 DEF Waiting
<1>7. ObjSlots(s.heap[o].kind) = 1 + Extra(s, o) BY DEF ObjSlots, Extra
<1>8. /\ s.objCache[o] \in Index /\ s.objIndex \in Nat /\ s.heap[o].depth \in Nat
      /\ Extra(s, o) \in {0, 1}
  BY <1>1, SnapshotTypes DEF Holder, Extra
<1>9. PICK c, n, d, e : c = s.objCache[o] /\ n = s.objIndex /\ d = s.heap[o].depth /\ e = Extra(s, o)
  OBVIOUS
<1>10. c + (1 + e) = n /\ c \in Int /\ n \in Int /\ d \in Int /\ e \in Int
  BY <1>4, <1>7, <1>8, <1>9 DEF Index, NotCached
<1>11. c - d = (n - (d + e)) - 1 BY <1>10
<1>12. Place(s, o) = c - d BY <1>9 DEF Place
<1>13. Known(s) = (n - (d + e)) - 1 BY <1>5, <1>6, <1>9 DEF Known
<1> QED BY <1>11, <1>12, <1>13

LEMMA ShiftsIndexes == StoryInv => ObjectIndexesShifted
<1> SUFFICES ASSUME StoryInv, NEW o \in Obj, objCache[o] # NotCached,
                    objCache[o] - heap[o].depth \in 0 .. Len(objTab) - 1
             PROVE  objTab[objCache[o] - heap[o].depth + 1] = heap[o].nth
  BY DEF ObjectIndexesShifted
<1>1. objTab \in Seq(ReaderValue) BY DEF StoryInv, TypeInv, TypeOK, ReaderTypeOK
<1>2. Len(objTab) \in Nat BY <1>1, Elements
<1>3. rstat # "idle" BY <1>2, TablesBegin
<1>4. PICK s, f : WInv(s) /\ WInv(f) /\ Earlier(s, f) /\ Matches(s) /\ Ended(f)
  BY <1>3, Come
<1>5. f.objCache = objCache /\ f.heap = heap BY <1>4 DEF Ended
<1>6. Later(s, f, o) BY <1>4 DEF Earlier, Holder
<1>7. ObjectsMatch(s, objTab) BY <1>4 DEF Matches
<1>8. Place(f, o) = objCache[o] - heap[o].depth BY <1>5 DEF Place
<1>9. Len(objTab) = Known(s) BY <1>7 DEF ObjectsMatch
<1>10. Place(f, o) \in 0 .. Known(s) - 1 /\ Known(s) \in Nat BY <1>2, <1>8, <1>9
<1>11. Met(s, o) BY <1>5, <1>6, <1>10 DEF Later
<1>12. Place(s, o) = Place(f, o) /\ s.heap[o].nth = heap[o].nth
  BY <1>5, <1>6, <1>11 DEF Later, Place
<1>13. ~Pends(s, o)
  <2>1. Pends(s, o) => Place(s, o) = Known(s) BY <1>4, PendsAtEnd
  <2> QED BY <1>10, <1>12, <2>1
<1>14. objTab[Place(s, o) + 1] = s.heap[o].nth BY <1>7, <1>11, <1>13 DEF ObjectsMatch
<1> QED BY <1>8, <1>12, <1>14

\* What the reader has rebuilt of an object is at any moment a beginning of
\* what the writer found in it, with the right names and objects: whatever the
\* graph, if no collection holds an object that was not written before.
THEOREM GraphNotMisread == Faithful => (Spec => []NoMisread)
<1>1. Faithful => (Spec => []StoryInv) BY StoryHolds
<1>2. StoryInv => NoMisread BY ReadsRight
<1> QED BY <1>1, <1>2, PTL

\* deserialize returns every object with all it holds, after it has read to the
\* end and counted as many objects, strings and traits as the writer; or it
\* raises, and then the string was cut or an ArrayCollection holds an object.
THEOREM GraphRebuiltOrRaised ==
  Faithful => (Spec => [](RebuiltWhole \/ (rstat = "error" /\ ~Flat)))
<1>1. Faithful => (Spec => []StoryInv) BY StoryHolds
<1>2. StoryInv => RebuiltWhole \/ (rstat = "error" /\ ~Flat) BY RebuildsWhole
<1> QED BY <1>1, <1>2, PTL

\* Without objects in an ArrayCollection it raises only when the string was cut.
THEOREM GraphRebuilt == Faithful /\ ~NestedInAC => (Spec => []RebuiltWhole)
<1> SUFFICES ASSUME Faithful, ~NestedInAC PROVE Spec => []RebuiltWhole
  OBVIOUS
<1>1. Faithful => (Spec => []StoryInv) BY StoryHolds
<1>2. StoryInv => RebuiltWhole BY RebuildsWhole
<1> QED BY <1>1, <1>2, PTL

\* Under every index the writer gave to a string or to the traits of a class,
\* the reader finds that string and those traits.
THEOREM GraphNamesAgree == Faithful => (Spec => []NameIndexesAgree)
<1> SUFFICES ASSUME Faithful PROVE Spec => []NameIndexesAgree
  OBVIOUS
<1>1. Faithful => (Spec => []StoryInv) BY StoryHolds
<1>2. StoryInv => NameIndexesAgree BY AgreesOnStrings, AgreesOnTraits DEF NameIndexesAgree
<1> QED BY <1>1, <1>2, PTL

\* The reader finds every object under its index less the number of
\* ArrayCollections around it: by so much, and never by more, the two tables
\* are out of step.
THEOREM GraphIndexesShifted == Faithful => (Spec => []ObjectIndexesShifted)
<1>1. Faithful => (Spec => []StoryInv) BY StoryHolds
<1>2. StoryInv => ObjectIndexesShifted BY ShiftsIndexes
<1> QED BY <1>1, <1>2, PTL

\* A string that lost its end is not taken for a whole value, nested
\* collections included.
THEOREM GraphCutNoticed == Faithful => (Spec => []CutIsNoticed)
<1>1. Faithful => (Spec => []StoryInv) BY StoryHolds
<1>2. StoryInv => CutIsNoticed BY NoticesCut
<1> QED BY <1>1, <1>2, PTL
=============================================================================
