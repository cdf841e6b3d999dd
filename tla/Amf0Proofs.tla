----------------------------- MODULE Amf0Proofs -----------------------------
(***************************************************************************)
(* Theorems about Amf0RoundTrip, for any number of objects, names and      *)
(* classes and for graphs of any size and shape.                           *)
(***************************************************************************)
EXTENDS Amf0RoundTrip, FiniteSetTheorems, TLAPS

USE DEF NotCached, Index

Holder == Obj \cup {Root}

-----------------------------------------------------------------------------
(***************************************************************************)
(* Sequences.                                                              *)
(***************************************************************************)

LEMMA Elements ==
  ASSUME NEW S, NEW s \in Seq(S)
  PROVE  /\ Len(s) \in Nat /\ DOMAIN s = 1 .. Len(s)
         /\ \A i \in 1 .. Len(s) : s[i] \in S
         /\ s = <<>> <=> Len(s) = 0
OBVIOUS

LEMMA Appended ==
  ASSUME NEW S, NEW s \in Seq(S), NEW x \in S
  PROVE  /\ Append(s, x) \in Seq(S)
         /\ Len(Append(s, x)) = Len(s) + 1
         /\ Append(s, x)[Len(s) + 1] = x
         /\ \A i \in 1 .. Len(s) : Append(s, x)[i] = s[i]
OBVIOUS

LEMMA Beginning ==
  ASSUME NEW S, NEW s \in Seq(S), NEW k \in 0 .. Len(s)
  PROVE  /\ SubSeq(s, 1, k) \in Seq(S)
         /\ Len(SubSeq(s, 1, k)) = k
         /\ \A i \in 1 .. k : SubSeq(s, 1, k)[i] = s[i]
OBVIOUS

\* What follows when the last element of a stack is taken off.
LEMMA Popped ==
  ASSUME NEW S, NEW s \in Seq(S), s # <<>>
  PROVE  /\ SubSeq(s, 1, Len(s) - 1) \in Seq(S)
         /\ Len(SubSeq(s, 1, Len(s) - 1)) = Len(s) - 1
         /\ \A i \in 1 .. Len(s) - 1 : SubSeq(s, 1, Len(s) - 1)[i] = s[i]
         /\ Len(s) \in Nat \ {0} /\ s[Len(s)] \in S
<1>1. Len(s) \in Nat \ {0} /\ Len(s) - 1 \in 0 .. Len(s) BY Elements
<1>2. s[Len(s)] \in S BY <1>1, Elements
<1> QED BY <1>1, <1>2, Beginning

\* And when another one takes its place.
LEMMA Replaced ==
  ASSUME NEW S, NEW s \in Seq(S), s # <<>>, NEW x \in S
  PROVE  /\ Append(SubSeq(s, 1, Len(s) - 1), x) \in Seq(S)
         /\ Len(Append(SubSeq(s, 1, Len(s) - 1), x)) = Len(s)
         /\ Append(SubSeq(s, 1, Len(s) - 1), x)[Len(s)] = x
         /\ \A i \in 1 .. Len(s) - 1 : Append(SubSeq(s, 1, Len(s) - 1), x)[i] = s[i]
<1> DEFINE b == SubSeq(s, 1, Len(s) - 1)
<1>1. /\ b \in Seq(S) /\ Len(b) = Len(s) - 1 /\ Len(s) \in Nat \ {0}
      /\ \A i \in 1 .. Len(s) - 1 : b[i] = s[i]
  BY Popped
<1> HIDE DEF b
<1>2. /\ Append(b, x) \in Seq(S) /\ Len(Append(b, x)) = Len(b) + 1
      /\ Append(b, x)[Len(b) + 1] = x
      /\ \A i \in 1 .. Len(b) : Append(b, x)[i] = b[i]
  BY <1>1, Appended
<1>3. Len(b) + 1 = Len(s) BY <1>1
<1>4. /\ Append(b, x) \in Seq(S) /\ Len(Append(b, x)) = Len(s) /\ Append(b, x)[Len(s)] = x
      /\ \A i \in 1 .. Len(s) - 1 : Append(b, x)[i] = s[i]
  BY <1>1, <1>2, <1>3
<1> QED BY <1>4 DEF b

\* A value is served, and a function for what it holds is begun.
LEMMA Pushed ==
  ASSUME NEW S, NEW s \in Seq(S), s # <<>>, NEW x \in S, NEW y \in S
  PROVE  /\ Append(Append(SubSeq(s, 1, Len(s) - 1), x), y) \in Seq(S)
         /\ Len(Append(Append(SubSeq(s, 1, Len(s) - 1), x), y)) = Len(s) + 1
         /\ Append(Append(SubSeq(s, 1, Len(s) - 1), x), y)[Len(s) + 1] = y
         /\ Append(Append(SubSeq(s, 1, Len(s) - 1), x), y)[Len(s)] = x
         /\ \A i \in 1 .. Len(s) - 1 : Append(Append(SubSeq(s, 1, Len(s) - 1), x), y)[i] = s[i]
<1> DEFINE b == Append(SubSeq(s, 1, Len(s) - 1), x)
<1>1. /\ b \in Seq(S) /\ Len(b) = Len(s) /\ b[Len(s)] = x
      /\ \A i \in 1 .. Len(s) - 1 : b[i] = s[i]
  BY Replaced
<1>2. Len(s) \in Nat \ {0} BY Elements
<1> HIDE DEF b
<1>3. /\ Append(b, y) \in Seq(S) /\ Len(Append(b, y)) = Len(b) + 1
      /\ Append(b, y)[Len(b) + 1] = y
      /\ \A i \in 1 .. Len(b) : Append(b, y)[i] = b[i]
  BY <1>1, Appended
<1>4. /\ Append(b, y) \in Seq(S) /\ Len(Append(b, y)) = Len(s) + 1
      /\ Append(b, y)[Len(s) + 1] = y /\ Append(b, y)[Len(s)] = x
      /\ \A i \in 1 .. Len(s) - 1 : Append(b, y)[i] = s[i]
  BY <1>1, <1>2, <1>3
<1> QED BY <1>4 DEF b

LEMMA Single == ASSUME NEW S, NEW x \in S PROVE <<x>> \in Seq(S)
OBVIOUS

LEMMA TwoMore ==
  ASSUME NEW S, NEW s \in Seq(S), NEW x \in S, NEW y \in S
  PROVE  /\ s \o <<x, y>> \in Seq(S)
         /\ Len(s \o <<x, y>>) = Len(s) + 2
         /\ (s \o <<x, y>>)[Len(s) + 1] = x /\ (s \o <<x, y>>)[Len(s) + 2] = y
         /\ \A i \in 1 .. Len(s) : (s \o <<x, y>>)[i] = s[i]
OBVIOUS

-----------------------------------------------------------------------------
(***************************************************************************)
(* The types of the writer.                                                *)
(***************************************************************************)

LEMMA TokenTypes ==
  /\ \A m \in {0, 3}, v \in Scalars : ScalarTok(m, v) \in Token
  /\ \A m \in {0, 3}, n \in Nat : RefTok(m, n) \in Token /\ ArrayTok(m, n) \in Token
  /\ \A c \in ClassNames \cup {None} : ObjectTok(c) \in Token
  /\ \A k \in Names : KeyTok(k) \in Token
  /\ HashTok \in Token /\ EndTok \in Token /\ SwitchTok \in Token
BY DEF Token, ScalarTok, RefTok, ArrayTok, ObjectTok, KeyTok, HashTok, EndTok, SwitchTok

LEMMA FrameTypes ==
  /\ \A o \in Obj, m \in {0, 3}, left \in Nat, props \in BOOLEAN :
       NewFrame(o, m, left, props) \in Frame
  /\ NewFrame(Root, 0, 1, FALSE) \in Frame
BY DEF NewFrame, Frame

\* What a step changes in the frame of a write function.
LEMMA FrameChanges ==
  ASSUME NEW f \in Frame
  PROVE  /\ f.obj \in Holder /\ f.m \in {0, 3} /\ f.left \in Nat /\ f.props \in BOOLEAN
         /\ f.key \in Names \cup {None}
         /\ \A m \in {0, 3} :
              LET g == [f EXCEPT !.left = @ - 1, !.key = None, !.m = m]
              IN  /\ f.left > 0 => g \in Frame
                  /\ g.obj = f.obj /\ g.m = m /\ g.left = f.left - 1
                  /\ g.props = f.props /\ g.key = None
         /\ LET g == [f EXCEPT !.m = 3]
            IN  /\ g \in Frame /\ g.obj = f.obj /\ g.m = 3 /\ g.left = f.left
                /\ g.props = f.props /\ g.key = f.key
         /\ LET g == [f EXCEPT !.props = FALSE]
            IN  /\ g \in Frame /\ g.obj = f.obj /\ g.m = f.m /\ g.left = f.left
                /\ g.props = FALSE /\ g.key = f.key
         /\ \A k \in Names :
              LET g == [f EXCEPT !.left = 1, !.key = k]
              IN  /\ g \in Frame /\ g.obj = f.obj /\ g.m = f.m /\ g.left = 1
                  /\ g.props = f.props /\ g.key = k
<1>1. ASSUME NEW m \in {0, 3}, f.left > 0
      PROVE  [f EXCEPT !.left = @ - 1, !.key = None, !.m = m] \in Frame
  <2>1. f.left - 1 \in Nat BY <1>1 DEF Frame
  <2> QED BY <2>1 DEF Frame
<1>2. \A m \in {0, 3} :
        LET g == [f EXCEPT !.left = @ - 1, !.key = None, !.m = m]
        IN  /\ g.obj = f.obj /\ g.m = m /\ g.left = f.left - 1
            /\ g.props = f.props /\ g.key = None
  BY DEF Frame
<1>3. [f EXCEPT !.m = 3] \in Frame /\ [f EXCEPT !.props = FALSE] \in Frame
  BY DEF Frame
<1>4. LET g == [f EXCEPT !.m = 3]
      IN  g.obj = f.obj /\ g.m = 3 /\ g.left = f.left /\ g.props = f.props /\ g.key = f.key
  BY DEF Frame
<1>5. LET g == [f EXCEPT !.props = FALSE]
      IN  g.obj = f.obj /\ g.m = f.m /\ g.left = f.left /\ g.props = FALSE /\ g.key = f.key
  BY DEF Frame
<1>6. ASSUME NEW k \in Names PROVE [f EXCEPT !.left = 1, !.key = k] \in Frame
  <2>1. k \in Names \cup {None} /\ 1 \in Nat OBVIOUS
  <2> QED BY <2>1 DEF Frame
<1>7. \A k \in Names :
        LET g == [f EXCEPT !.left = 1, !.key = k]
        IN  g.obj = f.obj /\ g.m = f.m /\ g.left = 1 /\ g.props = f.props /\ g.key = k
  BY DEF Frame
<1>8. /\ f.obj \in Holder /\ f.m \in {0, 3} /\ f.left \in Nat /\ f.props \in BOOLEAN
      /\ f.key \in Names \cup {None}
  BY DEF Frame, Holder
<1> QED BY <1>1, <1>2, <1>3, <1>4, <1>5, <1>6, <1>7, <1>8

\* The function that wanted a value, and got one.
LEMMA ServedType ==
  ASSUME WriterTypeOK, stack # <<>>
  PROVE  /\ Top \in Frame /\ Own(Top) \in {0, 3}
         /\ Top.left > 0 => Served \in Frame
         /\ Served.obj = Top.obj /\ Served.left = Top.left - 1 /\ Served.props = Top.props
         /\ Served.key = None /\ Served.m = Own(Top)
<1>1. Top \in Frame BY Popped DEF WriterTypeOK, Top
<1>2. Own(Top) \in {0, 3} BY DEF Own
<1> DEFINE g == [Top EXCEPT !.left = @ - 1, !.key = None, !.m = Own(Top)]
<1>3. /\ Top.left > 0 => g \in Frame
      /\ g.obj = Top.obj /\ g.m = Own(Top) /\ g.left = Top.left - 1
      /\ g.props = Top.props /\ g.key = None
  BY <1>1, <1>2, FrameChanges
<1>4. Served = g BY DEF Served
<1> HIDE DEF g
<1> QED BY <1>1, <1>2, <1>3, <1>4

\* The object graph with one more value in the object being written.
LEMMA HoldingType ==
  ASSUME WriterTypeOK, stack # <<>>, NEW v \in Obj \cup Scalars
  PROVE  /\ Holding(v) \in [Holder -> Node]
         /\ \A o \in Holder :
              /\ Holding(v)[o].kind = heap[o].kind /\ Holding(v)[o].cls = heap[o].cls
              /\ Holding(v)[o].nth = heap[o].nth
              /\ Holding(v)[o].kids = IF o = Top.obj
                                      THEN Append(heap[o].kids, [key |-> Top.key, val |-> v])
                                      ELSE heap[o].kids
<1>1. Top \in Frame BY ServedType
<1>2. Top.obj \in Holder /\ [key |-> Top.key, val |-> v] \in Kid BY <1>1 DEF Frame, Kid, Holder
<1> DEFINE k == [key |-> Top.key, val |-> v]
<1> HIDE DEF k
<1>3. k \in Kid BY <1>2 DEF k
<1>4. heap \in [Holder -> Node] BY DEF WriterTypeOK, Holder
<1>5. heap[Top.obj] \in Node /\ heap[Top.obj].kids \in Seq(Kid) BY <1>2, <1>4 DEF Node
<1>6. Append(heap[Top.obj].kids, k) \in Seq(Kid) BY <1>3, <1>5, Appended
<1> DEFINE n == [heap[Top.obj] EXCEPT !.kids = Append(heap[Top.obj].kids, k)]
<1>7. /\ n \in Node /\ n.kind = heap[Top.obj].kind /\ n.cls = heap[Top.obj].cls
      /\ n.nth = heap[Top.obj].nth /\ n.kids = Append(heap[Top.obj].kids, k)
  BY <1>5, <1>6 DEF Node
<1>8. Holding(v) = [heap EXCEPT ![Top.obj] = n] BY DEF Holding, k
<1> HIDE DEF n
<1>9. Holding(v) \in [Holder -> Node] /\ \A o \in Holder : Holding(v)[o] = IF o = Top.obj THEN n ELSE heap[o]
  BY <1>2, <1>4, <1>7, <1>8
<1> QED BY <1>7, <1>9 DEF k

\* And with one more object.
LEMMA MeetType ==
  ASSUME WriterTypeOK, stack # <<>>, NEW o \in Obj, NEW kind \in Kinds, NEW cls \in ClassNames \cup {None}
  PROVE  /\ Meet(o, kind, cls) \in [Holder -> Node]
         /\ Meet(o, kind, cls)[o].kind = kind /\ Meet(o, kind, cls)[o].cls = cls
         /\ Meet(o, kind, cls)[o].kids = <<>> /\ Meet(o, kind, cls)[o].nth = met + 1
         /\ \A p \in Holder \ {o} : Meet(o, kind, cls)[p] = Holding(o)[p]
<1> DEFINE n == [kind |-> kind, cls |-> cls, kids |-> <<>>, nth |-> met + 1]
<1>1. <<>> \in Seq(Kid) /\ met + 1 \in Nat BY DEF WriterTypeOK
<1>2. n \in Node /\ n.kind = kind /\ n.cls = cls /\ n.kids = <<>> /\ n.nth = met + 1
  BY <1>1 DEF Node
<1> HIDE DEF n
<1>3. Meet(o, kind, cls) = [Holding(o) EXCEPT ![o] = n] BY DEF Meet, n
<1>4. Holding(o) \in [Holder -> Node] /\ o \in Holder BY HoldingType DEF Holder
<1> QED BY <1>2, <1>3, <1>4

LEMMA CacheType ==
  ASSUME WriterTypeOK, stack # <<>>, NEW o \in Obj, Remember(o)
  PROVE  /\ cache' \in [{0, 3} -> [Obj -> Index]] /\ index' \in [{0, 3} -> Nat]
         /\ Top.m \in {0, 3}
         /\ \A m \in {0, 3}, p \in Obj :
              cache'[m][p] = IF m = Top.m /\ p = o THEN index[m] ELSE cache[m][p]
         /\ \A m \in {0, 3} : index'[m] = IF m = Top.m THEN index[m] + 1 ELSE index[m]
<1>1. Top.m \in {0, 3} BY ServedType DEF Frame
<1>2. cache \in [{0, 3} -> [Obj -> Index]] /\ index \in [{0, 3} -> Nat] BY DEF WriterTypeOK
<1>3. cache' = [cache EXCEPT ![Top.m][o] = index[Top.m]] /\ index' = [index EXCEPT ![Top.m] = @ + 1]
  BY DEF Remember
<1> QED BY <1>1, <1>2, <1>3


\* The array, hash or object that is written for the first time.
LEMMA EnterType ==
  ASSUME WriterTypeOK, NEW o \in Obj, NEW kind \in Kinds, NEW cls \in ClassNames \cup {None},
         NEW frame \in Frame, Enter(o, kind, cls, frame), stream' \in Seq(Token)
  PROVE  WriterTypeOK'
<1>1. /\ stack # <<>> /\ Top.left > 0 /\ Remember(o) /\ heap' = Meet(o, kind, cls)
      /\ met' = met + 1 /\ switched' = switched /\ wstat' = wstat
      /\ stack' = Append(Append(Below, Served), frame)
  BY DEF Enter, WantsValue, Busy
<1>2. stack' \in Seq(Frame) BY <1>1, ServedType, Pushed DEF Below, WriterTypeOK
<1>3. heap' \in [Obj \cup {Root} -> Node] BY <1>1, MeetType DEF Holder
<1>4. cache' \in [{0, 3} -> [Obj -> Index]] /\ index' \in [{0, 3} -> Nat] BY <1>1, CacheType
<1>5. met' \in Nat /\ switched' \in BOOLEAN /\ wstat' \in {"ok", "error"}
  BY <1>1 DEF WriterTypeOK
<1> QED BY <1>2, <1>3, <1>4, <1>5 DEF WriterTypeOK

LEMMA WriterTypes == WriterTypeOK /\ WriterNext => WriterTypeOK'
<1> SUFFICES ASSUME WriterTypeOK, WriterNext PROVE WriterTypeOK'
  OBVIOUS
<1>0. /\ stream \in Seq(Token) /\ stack \in Seq(Frame) /\ met \in Nat
      /\ heap \in [Obj \cup {Root} -> Node]
      /\ cache \in [{0, 3} -> [Obj -> Index]] /\ index \in [{0, 3} -> Nat]
      /\ switched \in BOOLEAN /\ wstat \in {"ok", "error"}
  BY DEF WriterTypeOK
<1>s. \A tok \in Token : Append(stream, tok) \in Seq(Token) BY <1>0, Appended
<1>t. stack # <<>> => \A f \in Frame : Append(Below, f) \in Seq(Frame)
  BY <1>0, Replaced DEF Below
<1>1. ASSUME NEW v \in Scalars, WriteScalar(v) PROVE WriterTypeOK'
  <2>1. /\ stack # <<>> /\ Top.left > 0 /\ stream' = Append(stream, ScalarTok(Top.m, v))
        /\ heap' = Holding(v) /\ stack' = Append(Below, Served)
        /\ UNCHANGED <<cache, index, met, switched, wstat>>
    BY <1>1 DEF WriteScalar, WantsValue, Busy, Emit
  <2>2. Top.m \in {0, 3} BY <2>1, ServedType, FrameChanges
  <2>3. stream' \in Seq(Token) BY <2>1, <2>2, <1>s, TokenTypes
  <2>4. stack' \in Seq(Frame) BY <2>1, <1>t, ServedType
  <2>5. heap' \in [Obj \cup {Root} -> Node] BY <2>1, HoldingType DEF Holder
  <2> QED BY <1>0, <2>1, <2>3, <2>4, <2>5 DEF WriterTypeOK
<1>2. ASSUME NEW o \in Obj, WriteReference(o) PROVE WriterTypeOK'
  <2>1. /\ stack # <<>> /\ Top.left > 0 /\ stream' = Append(stream, RefTok(Top.m, IndexWritten(o)))
        /\ heap' = Holding(o) /\ stack' = Append(Below, Served)
        /\ cache[Top.m][o] # NotCached
        /\ UNCHANGED <<cache, index, met, switched, wstat>>
    BY <1>2 DEF WriteReference, WantsValue, Busy, Emit
  <2>2. Top.m \in {0, 3} BY <2>1, ServedType, FrameChanges
  <2>3. IndexWritten(o) \in Nat
    <3>1. cache[Top.m][o] \in Nat BY <1>0, <2>1, <2>2
    <3>2. RefLimit \in Nat BY StreamAssumption
    <3>3. cache[0][o] \in Int BY <1>0
    <3> QED BY <2>2, <3>1, <3>2, <3>3 DEF IndexWritten
  <2>4. stream' \in Seq(Token) BY <2>1, <2>2, <2>3, <1>s, TokenTypes
  <2>5. stack' \in Seq(Frame) BY <2>1, <1>t, ServedType
  <2>6. heap' \in [Obj \cup {Root} -> Node] BY <2>1, HoldingType DEF Holder
  <2> QED BY <1>0, <2>1, <2>4, <2>5, <2>6 DEF WriterTypeOK
<1>3. ASSUME WriteRaises PROVE WriterTypeOK'
  BY <1>0, <1>3 DEF WriteRaises, WriterTypeOK
<1>4. ASSUME NEW o \in Obj, NEW len \in 0 .. MaxLen, WriteArray(o, len) PROVE WriterTypeOK'
  <2>1. /\ Enter(o, "array", None, NewFrame(o, Top.m, len, FALSE))
        /\ stream' = Append(stream, ArrayTok(Top.m, len)) /\ stack # <<>> /\ len \in Nat
    BY <1>4, WriterAssumption DEF WriteArray, Enter, WantsValue, Busy, Emit
  <2>2. Top.m \in {0, 3} BY <2>1, ServedType, FrameChanges
  <2>3. NewFrame(o, Top.m, len, FALSE) \in Frame BY <2>1, <2>2, FrameTypes
  <2>4. stream' \in Seq(Token) BY <2>1, <2>2, <1>s, TokenTypes
  <2> QED BY <2>1, <2>3, <2>4, EnterType DEF Kinds
<1>5. ASSUME NEW o \in Obj, NEW cls \in ClassNames \cup {None}, WriteObject(o, cls)
      PROVE  WriterTypeOK'
  <2>1. /\ Enter(o, "object", cls, NewFrame(o, 0, 0, TRUE))
        /\ stream' = Append(stream, ObjectTok(cls))
    BY <1>5 DEF WriteObject, Emit
  <2>2. NewFrame(o, 0, 0, TRUE) \in Frame BY FrameTypes
  <2>3. stream' \in Seq(Token) BY <2>1, <1>s, TokenTypes
  <2> QED BY <2>1, <2>2, <2>3, EnterType DEF Kinds
<1>6. ASSUME NEW o \in Obj, WriteHash(o) PROVE WriterTypeOK'
  <2>1. Enter(o, "hash", None, NewFrame(o, 0, 0, TRUE)) /\ stream' = Append(stream, HashTok)
    BY <1>6 DEF WriteHash, Emit
  <2>2. NewFrame(o, 0, 0, TRUE) \in Frame BY FrameTypes
  <2>3. stream' \in Seq(Token) BY <2>1, <1>s, TokenTypes
  <2> QED BY <2>1, <2>2, <2>3, EnterType DEF Kinds
<1>7. ASSUME WriteSwitch PROVE WriterTypeOK'
  <2>1. /\ stack # <<>> /\ switched' = TRUE /\ stack' = Append(Below, [Top EXCEPT !.m = 3])
        /\ stream' = Append(stream, SwitchTok)
        /\ UNCHANGED <<cache, index, heap, met, wstat>>
    BY <1>7 DEF WriteSwitch, WantsValue, Busy, Emit
  <2>2. stack' \in Seq(Frame) BY <2>1, <1>t, ServedType, FrameChanges
  <2>3. stream' \in Seq(Token) BY <2>1, <1>s, TokenTypes
  <2> QED BY <1>0, <2>1, <2>2, <2>3 DEF WriterTypeOK
<1>8. ASSUME NEW k \in Names, WriteKey(k) PROVE WriterTypeOK'
  <2>1. /\ stack # <<>> /\ stack' = Append(Below, [Top EXCEPT !.left = 1, !.key = k])
        /\ stream' = Append(stream, KeyTok(k))
        /\ UNCHANGED <<cache, index, heap, met, switched, wstat>>
    BY <1>8 DEF WriteKey, InProps, Busy, Emit
  <2>2. stack' \in Seq(Frame) BY <2>1, <1>t, ServedType, FrameChanges
  <2>3. stream' \in Seq(Token) BY <2>1, <1>s, TokenTypes
  <2> QED BY <1>0, <2>1, <2>2, <2>3 DEF WriterTypeOK
<1>9. ASSUME WriteEnd PROVE WriterTypeOK'
  <2>1. /\ stack # <<>> /\ stack' = Append(Below, [Top EXCEPT !.props = FALSE])
        /\ stream' = stream \o <<KeyTok(Empty), EndTok>>
        /\ UNCHANGED <<cache, index, heap, met, switched, wstat>>
    BY <1>9 DEF WriteEnd, InProps, Busy
  <2>2. stack' \in Seq(Frame) BY <2>1, <1>t, ServedType, FrameChanges
  <2>3. KeyTok(Empty) \in Token /\ EndTok \in Token BY TokenTypes, StreamAssumption
  <2>4. stream' \in Seq(Token) BY <1>0, <2>1, <2>3, TwoMore
  <2> QED BY <1>0, <2>1, <2>2, <2>4 DEF WriterTypeOK
<1>10. ASSUME Return PROVE WriterTypeOK'
  <2>1. stack # <<>> /\ stack' = Below /\ UNCHANGED <<cache, index, heap, met, switched, wstat, stream>>
    BY <1>10 DEF Return, Busy
  <2>2. stack' \in Seq(Frame) BY <1>0, <2>1, Popped DEF Below
  <2> QED BY <1>0, <2>1, <2>2 DEF WriterTypeOK
<1> QED BY <1>1, <1>2, <1>3, <1>4, <1>5, <1>6, <1>7, <1>8, <1>9, <1>10 DEF WriterNext

-----------------------------------------------------------------------------
(***************************************************************************)
(* The types of the reader.                                                *)
(***************************************************************************)
ReadKid == [key : Names \cup {None}, val : ReaderValue]
ReadNode == [kind : {"root", "array", "object", "hash"}, cls : ClassNames \cup {None},
             kids : Seq(ReadKid)]

LEMMA Changed ==
  ASSUME NEW S, NEW s \in Seq(S), NEW n, NEW x, n \in DOMAIN s => x \in S
  PROVE  /\ [s EXCEPT ![n] = x] \in Seq(S) /\ Len([s EXCEPT ![n] = x]) = Len(s)
         /\ \A i \in 1 .. Len(s) : [s EXCEPT ![n] = x][i] = IF i = n THEN x ELSE s[i]
<1>1. s \in [1 .. Len(s) -> S] /\ Len(s) \in Nat OBVIOUS
<1>2. [s EXCEPT ![n] = x] \in [1 .. Len(s) -> S] BY <1>1
<1>3. [s EXCEPT ![n] = x] \in Seq(S) /\ Len([s EXCEPT ![n] = x]) = Len(s) BY <1>1, <1>2
<1> QED BY <1>1, <1>2, <1>3

LEMMA ReadFrameChanges ==
  ASSUME NEW f \in ReadFrame
  PROVE  /\ f.node \in Nat /\ f.m \in {0, 3} /\ f.left \in Nat /\ f.props \in BOOLEAN
         /\ f.switched \in BOOLEAN /\ f.key \in Names \cup {None}
         /\ /\ f.left > 0 => Taken(f) \in ReadFrame
            /\ Taken(f).node = f.node /\ Taken(f).m = f.m /\ Taken(f).left = f.left - 1
            /\ Taken(f).props = f.props /\ Taken(f).key = None /\ Taken(f).switched = FALSE
         /\ LET g == [f EXCEPT !.switched = TRUE]
            IN  /\ g \in ReadFrame /\ g.node = f.node /\ g.m = f.m /\ g.left = f.left
                /\ g.props = f.props /\ g.key = f.key /\ g.switched = TRUE
         /\ LET g == [f EXCEPT !.props = FALSE]
            IN  /\ g \in ReadFrame /\ g.node = f.node /\ g.m = f.m /\ g.left = f.left
                /\ g.props = FALSE /\ g.key = f.key /\ g.switched = f.switched
         /\ \A k \in Names :
              LET g == [f EXCEPT !.left = 1, !.key = k]
              IN  /\ g \in ReadFrame /\ g.node = f.node /\ g.m = f.m /\ g.left = 1
                  /\ g.props = f.props /\ g.key = k /\ g.switched = f.switched
         /\ \A n \in Nat :
              LET g == [f EXCEPT !.node = n]
              IN  /\ g \in ReadFrame /\ g.node = n /\ g.m = f.m /\ g.left = f.left
                  /\ g.props = f.props /\ g.key = f.key /\ g.switched = f.switched
<1>1. f.left > 0 => Taken(f) \in ReadFrame
  <2> SUFFICES ASSUME f.left > 0 PROVE Taken(f) \in ReadFrame
    OBVIOUS
  <2>1. f.left - 1 \in Nat BY DEF ReadFrame
  <2> QED BY <2>1 DEF ReadFrame, Taken
<1>2. /\ Taken(f).node = f.node /\ Taken(f).m = f.m /\ Taken(f).left = f.left - 1
      /\ Taken(f).props = f.props /\ Taken(f).key = None /\ Taken(f).switched = FALSE
  BY DEF ReadFrame, Taken
<1>3. [f EXCEPT !.switched = TRUE] \in ReadFrame /\ [f EXCEPT !.props = FALSE] \in ReadFrame
  BY DEF ReadFrame
<1>4. LET g == [f EXCEPT !.switched = TRUE]
      IN  /\ g.node = f.node /\ g.m = f.m /\ g.left = f.left
          /\ g.props = f.props /\ g.key = f.key /\ g.switched = TRUE
  BY DEF ReadFrame
<1>5. LET g == [f EXCEPT !.props = FALSE]
      IN  /\ g.node = f.node /\ g.m = f.m /\ g.left = f.left
          /\ g.props = FALSE /\ g.key = f.key /\ g.switched = f.switched
  BY DEF ReadFrame
<1>6. ASSUME NEW k \in Names PROVE [f EXCEPT !.left = 1, !.key = k] \in ReadFrame
  <2>1. k \in Names \cup {None} /\ 1 \in Nat OBVIOUS
  <2> QED BY <2>1 DEF ReadFrame
<1>7. \A k \in Names :
        LET g == [f EXCEPT !.left = 1, !.key = k]
        IN  /\ g.node = f.node /\ g.m = f.m /\ g.left = 1
            /\ g.props = f.props /\ g.key = k /\ g.switched = f.switched
  BY DEF ReadFrame
<1>8. ASSUME NEW n \in Nat PROVE [f EXCEPT !.node = n] \in ReadFrame
  BY DEF ReadFrame
<1>9. \A n \in Nat :
        LET g == [f EXCEPT !.node = n]
        IN  /\ g.node = n /\ g.m = f.m /\ g.left = f.left
            /\ g.props = f.props /\ g.key = f.key /\ g.switched = f.switched
  BY DEF ReadFrame
<1>10. /\ f.node \in Nat /\ f.m \in {0, 3} /\ f.left \in Nat /\ f.props \in BOOLEAN
       /\ f.switched \in BOOLEAN /\ f.key \in Names \cup {None}
  BY DEF ReadFrame
<1> QED BY <1>1, <1>2, <1>3, <1>4, <1>5, <1>6, <1>7, <1>8, <1>9, <1>10

LEMMA NewReadFrameType ==
  ASSUME NEW n \in Nat, NEW m \in {0, 3}, NEW left \in Nat, NEW props \in BOOLEAN
  PROVE  /\ NewReadFrame(n, m, left, props) \in ReadFrame
         /\ LET g == NewReadFrame(n, m, left, props)
            IN  /\ g.node = n /\ g.m = m /\ g.left = left /\ g.props = props
                /\ g.key = None /\ g.switched = FALSE
<1>1. NewReadFrame(n, m, left, props) \in ReadFrame BY DEF NewReadFrame, ReadFrame
<1> QED BY <1>1 DEF NewReadFrame

\* What has been made, with one more value in the node being read.
LEMMA StoredType ==
  ASSUME made \in Seq(ReadNode), NEW f \in ReadFrame, NEW v \in ReaderValue
  PROVE  /\ Stored(f, v) \in Seq(ReadNode) /\ Len(Stored(f, v)) = Len(made)
         /\ \A i \in 1 .. Len(made) :
              /\ Stored(f, v)[i].kind = made[i].kind /\ Stored(f, v)[i].cls = made[i].cls
              /\ Stored(f, v)[i].kids = IF i = f.node
                                        THEN Append(made[i].kids, [key |-> f.key, val |-> v])
                                        ELSE made[i].kids
<1> DEFINE k == [key |-> f.key, val |-> v]
<1>1. k \in ReadKid BY ReadFrameChanges DEF ReadKid
<1> HIDE DEF k
<1> DEFINE x == [made[f.node] EXCEPT !.kids = Append(made[f.node].kids, k)]
<1>2. ASSUME f.node \in DOMAIN made
      PROVE  /\ x \in ReadNode /\ x.kind = made[f.node].kind /\ x.cls = made[f.node].cls
             /\ x.kids = Append(made[f.node].kids, k)
  <2>1. made[f.node] \in ReadNode BY <1>2, Elements
  <2>2. made[f.node].kids \in Seq(ReadKid) BY <2>1 DEF ReadNode
  <2>3. Append(made[f.node].kids, k) \in Seq(ReadKid) BY <1>1, <2>2, Appended
  <2> QED BY <2>1, <2>3 DEF ReadNode
<1>3. Stored(f, v) = [made EXCEPT ![f.node] = x] BY DEF Stored, k
<1> HIDE DEF x
<1>4. /\ Stored(f, v) \in Seq(ReadNode) /\ Len(Stored(f, v)) = Len(made)
      /\ \A i \in 1 .. Len(made) : Stored(f, v)[i] = IF i = f.node THEN x ELSE made[i]
  <2>1. f.node \in DOMAIN made => x \in ReadNode BY <1>2
  <2> QED BY <1>3, <2>1, Changed
<1>5. DOMAIN made = 1 .. Len(made) BY Elements
<1> QED BY <1>2, <1>4, <1>5 DEF k

\* The token the reader is at, and the function that wants it.
LEMMA TokenAt ==
  ASSUME ReaderTypeOK, stream \in Seq(Token), More
  PROVE  /\ pos \in 1 .. Len(stream) /\ Tok \in Token
         /\ Tok.t = "scalar" => Tok.v \in Scalars
         /\ Tok.t \in {"ref", "array"} => Tok.n \in Nat
         /\ Tok.t = "object" => Tok.v \in ClassNames \cup {None}
         /\ Tok.t = "key" => Tok.v \in Names
<1>1. pos \in 1 .. Len(stream) BY Elements DEF ReaderTypeOK, More
<1>2. Tok \in Token BY <1>1, Elements DEF Tok
<1> QED BY <1>1, <1>2 DEF Token

LEMMA ReadTopType ==
  ASSUME ReaderTypeOK, rstack # <<>>
  PROVE  RTop \in ReadFrame /\ RMode \in {0, 3} /\ RTop.left \in Nat
<1>1. RTop \in ReadFrame BY Popped DEF ReaderTypeOK, RTop
<1> QED BY <1>1, ReadFrameChanges DEF RMode

LEMMA BeginType ==
  ASSUME ReaderTypeOK, rstack # <<>>, RTop.left > 0,
         NEW kind \in {"array", "object", "hash"}, NEW cls \in ClassNames \cup {None},
         NEW frame \in ReadFrame, Begin(kind, cls, frame)
  PROVE  /\ rstack' \in Seq(ReadFrame) /\ objTab' \in [{"refs", "objects"} -> Seq(Nat)]
         /\ made' \in Seq(ReadNode)
<1> DEFINE node == Len(made) + 1
           f == [frame EXCEPT !.node = node]
<1>1. /\ made \in Seq(ReadNode) /\ rstack \in Seq(ReadFrame)
      /\ objTab \in [{"refs", "objects"} -> Seq(Nat)]
  BY DEF ReaderTypeOK, ReadNode, ReadKid
<1>2. node \in Nat /\ RTop \in ReadFrame BY <1>1, Elements, ReadTopType
<1>3. /\ objTab' = [objTab EXCEPT ![TableFor(RMode)] = Append(@, node)]
      /\ made' = Append(Stored(RTop, node), MadeNode(kind, cls))
      /\ rstack' = Append(Append(RBelow, Taken(RTop)), f)
  BY DEF Begin
<1>4. f \in ReadFrame /\ Taken(RTop) \in ReadFrame BY <1>2, ReadFrameChanges
<1> HIDE DEF f, node
<1>5. rstack' \in Seq(ReadFrame) BY <1>1, <1>3, <1>4, Pushed DEF RBelow
<1>6. TableFor(RMode) \in {"refs", "objects"} BY DEF TableFor
<1>7. objTab[TableFor(RMode)] \in Seq(Nat) BY <1>1, <1>6
<1>8. Append(objTab[TableFor(RMode)], node) \in Seq(Nat) BY <1>2, <1>7, Appended
<1>9. objTab' \in [{"refs", "objects"} -> Seq(Nat)] BY <1>1, <1>3, <1>6, <1>8
<1>10. node \in ReaderValue BY <1>2 DEF ReaderValue
<1>11. Stored(RTop, node) \in Seq(ReadNode) BY <1>1, <1>2, <1>10, StoredType
<1>12. MadeNode(kind, cls) \in ReadNode BY DEF MadeNode, ReadNode
<1> QED BY <1>3, <1>5, <1>9, <1>11, <1>12, Appended

LEMMA ReaderTypes ==
  ReaderTypeOK /\ stream \in Seq(Token) /\ ReaderNext => ReaderTypeOK' /\ stream' = stream
<1> SUFFICES ASSUME ReaderTypeOK, stream \in Seq(Token), ReaderNext
             PROVE  ReaderTypeOK' /\ stream' = stream
  OBVIOUS
<1>0. /\ made \in Seq(ReadNode) /\ rstack \in Seq(ReadFrame) /\ pos \in Nat \ {0}
      /\ objTab \in [{"refs", "objects"} -> Seq(Nat)]
      /\ rstat \in {"idle", "run", "done", "error"}
  BY DEF ReaderTypeOK, ReadNode, ReadKid
<1>q. ASSUME /\ made' \in Seq(ReadNode) /\ rstack' \in Seq(ReadFrame) /\ pos' \in Nat \ {0}
             /\ objTab' \in [{"refs", "objects"} -> Seq(Nat)]
             /\ rstat' \in {"idle", "run", "done", "error"}
      PROVE  ReaderTypeOK'
  BY <1>q DEF ReaderTypeOK, ReadNode, ReadKid
<1>a. Advance => pos' \in Nat \ {0} /\ rstat' = rstat /\ stream' = stream
  BY <1>0 DEF Advance
<1>t. rstack # <<>> => \A f \in ReadFrame : Append(RBelow, f) \in Seq(ReadFrame)
  BY <1>0, Replaced DEF RBelow
<1>v. ASSUME ExpectsValue
      PROVE  /\ More /\ rstack # <<>> /\ RTop \in ReadFrame /\ RTop.left > 0
             /\ RMode \in {0, 3} /\ Append(RBelow, Taken(RTop)) \in Seq(ReadFrame)
  <2>1. More /\ rstack # <<>> /\ RTop.left > 0 BY <1>v DEF ExpectsValue
  <2>2. RTop \in ReadFrame /\ RMode \in {0, 3} BY <2>1, ReadTopType
  <2>3. Taken(RTop) \in ReadFrame BY <2>1, <2>2, ReadFrameChanges
  <2> QED BY <1>t, <2>1, <2>2, <2>3
<1>1. ASSUME ReadScalar PROVE ReaderTypeOK' /\ stream' = stream
  <2>1. /\ ExpectsValue /\ Tok.t = "scalar" /\ made' = Stored(RTop, Tok.v)
        /\ rstack' = Append(RBelow, Taken(RTop)) /\ Advance /\ objTab' = objTab
    BY <1>1 DEF ReadScalar
  <2>2. Tok.v \in ReaderValue BY <1>v, <2>1, TokenAt DEF ReaderValue
  <2>3. made' \in Seq(ReadNode) BY <1>0, <1>v, <2>1, <2>2, StoredType
  <2> QED BY <1>0, <1>a, <1>q, <1>v, <2>1, <2>3
<1>2. ASSUME ReadReference PROVE ReaderTypeOK' /\ stream' = stream
  <2> DEFINE x == IF Tok.n < Len(Table) THEN Table[Tok.n + 1] ELSE None
  <2>1. /\ ExpectsValue /\ Tok.t = "ref" /\ made' = Stored(RTop, x)
        /\ rstack' = Append(RBelow, Taken(RTop)) /\ Advance /\ objTab' = objTab
    BY <1>2 DEF ReadReference
  <2>2. x \in ReaderValue
    <3>1. Tok.n \in Nat BY <1>v, <2>1, TokenAt
    <3>2. Table \in Seq(Nat) BY <1>0 DEF Table, TableFor
    <3>3. Tok.n < Len(Table) => Table[Tok.n + 1] \in Nat BY <3>1, <3>2, Elements
    <3> QED BY <3>3 DEF ReaderValue
  <2> HIDE DEF x
  <2>3. made' \in Seq(ReadNode) BY <1>0, <1>v, <2>1, <2>2, StoredType
  <2> QED BY <1>0, <1>a, <1>q, <1>v, <2>1, <2>3
<1>3. ASSUME ReadArray PROVE ReaderTypeOK' /\ stream' = stream
  <2>1. /\ ExpectsValue /\ Tok.t = "array" /\ Advance
        /\ Begin("array", None, NewReadFrame(0, RMode, Tok.n, FALSE))
    BY <1>3 DEF ReadArray
  <2>2. Tok.n \in Nat /\ RMode \in {0, 3} BY <1>v, <2>1, TokenAt
  <2>3. NewReadFrame(0, RMode, Tok.n, FALSE) \in ReadFrame BY <2>2, NewReadFrameType
  <2>4. /\ rstack' \in Seq(ReadFrame) /\ objTab' \in [{"refs", "objects"} -> Seq(Nat)]
        /\ made' \in Seq(ReadNode)
    BY <1>v, <2>1, <2>3, BeginType
  <2> QED BY <1>0, <1>a, <1>q, <2>1, <2>4
<1>4. ASSUME ReadObject PROVE ReaderTypeOK' /\ stream' = stream
  <2>1. /\ ExpectsValue /\ Tok.t = "object" /\ Advance
        /\ Begin("object", Tok.v, NewReadFrame(0, 0, 0, TRUE))
    BY <1>4 DEF ReadObject
  <2>2. Tok.v \in ClassNames \cup {None} BY <1>v, <2>1, TokenAt
  <2>3. NewReadFrame(0, 0, 0, TRUE) \in ReadFrame BY NewReadFrameType
  <2>4. /\ rstack' \in Seq(ReadFrame) /\ objTab' \in [{"refs", "objects"} -> Seq(Nat)]
        /\ made' \in Seq(ReadNode)
    BY <1>v, <2>1, <2>2, <2>3, BeginType
  <2> QED BY <1>0, <1>a, <1>q, <2>1, <2>4
<1>5. ASSUME ReadHash PROVE ReaderTypeOK' /\ stream' = stream
  <2>1. /\ ExpectsValue /\ Advance /\ Begin("hash", None, NewReadFrame(0, 0, 0, TRUE))
    BY <1>5 DEF ReadHash
  <2>3. NewReadFrame(0, 0, 0, TRUE) \in ReadFrame BY NewReadFrameType
  <2>4. /\ rstack' \in Seq(ReadFrame) /\ objTab' \in [{"refs", "objects"} -> Seq(Nat)]
        /\ made' \in Seq(ReadNode)
    BY <1>v, <2>1, <2>3, BeginType
  <2> QED BY <1>0, <1>a, <1>q, <2>1, <2>4
<1>6. ASSUME ReadSwitch PROVE ReaderTypeOK' /\ stream' = stream
  <2>1. /\ ExpectsValue /\ Advance /\ made' = made
        /\ objTab' = IF Native THEN objTab ELSE [objTab EXCEPT !["objects"] = <<>>]
        /\ rstack' = Append(RBelow, [RTop EXCEPT !.switched = TRUE])
    BY <1>6 DEF ReadSwitch
  <2>2. objTab' \in [{"refs", "objects"} -> Seq(Nat)] BY <1>0, <2>1
  <2>3. rstack' \in Seq(ReadFrame) BY <1>t, <1>v, <2>1, ReadFrameChanges
  <2> QED BY <1>0, <1>a, <1>q, <2>1, <2>2, <2>3
<1>7. ASSUME ReadProps PROVE ReaderTypeOK' /\ stream' = stream
  <2>1. /\ ExpectsKey /\ Tok.t = "key" /\ UNCHANGED <<objTab, made, stream, rstat>>
        /\ \/ rstack' = Append(RBelow, [RTop EXCEPT !.props = FALSE]) /\ pos' = pos + 2
           \/ rstack' = Append(RBelow, [RTop EXCEPT !.left = 1, !.key = Tok.v]) /\ pos' = pos + 1
    BY <1>7 DEF ReadProps
  <2>2. More /\ rstack # <<>> BY <2>1 DEF ExpectsKey
  <2>3. Tok.v \in Names /\ RTop \in ReadFrame BY <2>1, <2>2, TokenAt, ReadTopType
  <2> DEFINE k == Tok.v
             g == [RTop EXCEPT !.left = 1, !.key = k]
             h == [RTop EXCEPT !.props = FALSE]
  <2>6. k \in Names BY <2>3
  <2>7. rstack' = Append(RBelow, g) \/ rstack' = Append(RBelow, h) BY <2>1
  <2> HIDE DEF k
  <2>8. g \in ReadFrame /\ h \in ReadFrame BY <2>3, <2>6, ReadFrameChanges
  <2> HIDE DEF g, h
  <2>4. rstack' \in Seq(ReadFrame) BY <1>t, <2>2, <2>7, <2>8
  <2>5. pos' \in Nat \ {0} BY <1>0, <2>1
  <2> QED BY <1>0, <1>q, <2>1, <2>4, <2>5
<1>8. ASSUME ReadReturn PROVE ReaderTypeOK' /\ stream' = stream
  <2>1. /\ Len(rstack) > 1 /\ rstack' = RBelow /\ UNCHANGED <<pos, objTab, made, stream, rstat>>
    BY <1>8 DEF ReadReturn
  <2>2. rstack # <<>> BY <1>0, <2>1, Elements
  <2>3. rstack' \in Seq(ReadFrame) BY <1>0, <2>1, <2>2, Popped DEF RBelow
  <2> QED BY <1>0, <1>q, <2>1, <2>3
<1>9. ASSUME ReadDone PROVE ReaderTypeOK' /\ stream' = stream
  BY <1>0, <1>9, <1>q DEF ReadDone
<1>10. ASSUME ReadRaises PROVE ReaderTypeOK' /\ stream' = stream
  BY <1>0, <1>10, <1>q DEF ReadRaises
<1> QED BY <1>1, <1>2, <1>3, <1>4, <1>5, <1>6, <1>7, <1>8, <1>9, <1>10 DEF ReaderNext

-----------------------------------------------------------------------------
(***************************************************************************)
(* Every variable of both sides has its type, whichever implementation     *)
(* reads and whoever writes: ser0_serialize and des0_deserialize.          *)
(***************************************************************************)
THEOREM RoundTripTypes == Spec => []TypeOK
<1>1. Init => TypeOK
  <2> SUFFICES ASSUME Init PROVE TypeOK
    OBVIOUS
  <2> DEFINE u == [Unmet EXCEPT !.kind = "root", !.nth = 1]
  <2>1. <<>> \in Seq(Kid) OBVIOUS
  <2>2. Unmet \in Node /\ u \in Node BY <2>1 DEF Unmet, Node, Kinds
  <2>3. heap = [o \in Obj \cup {Root} |-> IF o = Root THEN u ELSE Unmet]
    BY DEF Init, WriterInit
  <2> HIDE DEF u
  <2>4. heap \in [Obj \cup {Root} -> Node] BY <2>2, <2>3
  <2>5. stack \in Seq(Frame) BY FrameTypes, Single DEF Init, WriterInit
  <2>i. stream = <<>> /\ met = 1 /\ switched = FALSE /\ wstat = "ok" BY DEF Init, WriterInit
  <2>j. stream \in Seq(Token) /\ met \in Nat BY <2>i
  <2>s. switched \in BOOLEAN /\ wstat \in {"ok", "error"} BY <2>i, Zenon
  <2>c. cache \in [{0, 3} -> [Obj -> Index]] /\ index \in [{0, 3} -> Nat]
    BY DEF Init, WriterInit
  <2>6. WriterTypeOK BY <2>4, <2>5, <2>j, <2>s, <2>c DEF WriterTypeOK
  <2>7. NewReadFrame(1, 0, 1, FALSE) \in ReadFrame BY NewReadFrameType
  <2>8. MadeNode("root", None) \in ReadNode BY DEF MadeNode, ReadNode
  <2>9. rstack \in Seq(ReadFrame) BY <2>7, Single DEF Init, ReaderInit
  <2>10. made \in Seq(ReadNode) BY <2>8 DEF Init, ReaderInit
  <2>11. objTab \in [{"refs", "objects"} -> Seq(Nat)] /\ pos \in Nat \ {0} /\ rstat = "idle"
    BY DEF Init, ReaderInit
  <2>12. ReaderTypeOK BY <2>9, <2>10, <2>11 DEF ReaderTypeOK, ReadNode, ReadKid
  <2> QED BY <2>6, <2>12 DEF Init, TypeOK
<1>2. TypeOK /\ [Next]_vars => TypeOK'
  <2> SUFFICES ASSUME TypeOK, [Next]_vars PROVE TypeOK'
    OBVIOUS
  <2>0. WriterTypeOK /\ ReaderTypeOK /\ sent \in Nat /\ stream \in Seq(Token)
    BY DEF TypeOK, WriterTypeOK
  <2>1. CASE Write
    <3>1. WriterNext /\ UNCHANGED <<pos, rstack, objTab, made, rstat, sent>>
      BY <2>1 DEF Write, readerVars
    <3>2. WriterTypeOK' BY <2>0, <3>1, WriterTypes
    <3>3. ReaderTypeOK' BY <2>0, <3>1 DEF ReaderTypeOK
    <3> QED BY <2>0, <3>1, <3>2, <3>3 DEF TypeOK
  <2>2. CASE Hand
    <3>1. PICK kept \in (IF MayCut THEN 0 .. Len(stream) ELSE {Len(stream)}) :
            stream' = SubSeq(stream, 1, kept)
      BY <2>2 DEF Hand
    <3>2. /\ rstat' = "run" /\ sent' = Len(stream)
          /\ UNCHANGED <<cache, index, stack, heap, met, switched, wstat, pos, rstack, objTab, made>>
      BY <2>2 DEF Hand, writerState
    <3>3. Len(stream) \in Nat BY <2>0, Elements
    <3>4. kept \in 0 .. Len(stream) BY <3>1, <3>3
    <3>5. stream' \in Seq(Token) BY <2>0, <3>1, <3>4, Beginning
    <3>6. WriterTypeOK' BY <2>0, <3>2, <3>5 DEF WriterTypeOK
    <3>7. ReaderTypeOK' BY <2>0, <3>2 DEF ReaderTypeOK
    <3> QED BY <3>2, <3>3, <3>6, <3>7 DEF TypeOK
  <2>3. CASE Read
    <3>1. ReaderNext /\ UNCHANGED <<cache, index, stack, heap, met, switched, wstat, sent>>
      BY <2>3 DEF Read, writerState
    <3>2. ReaderTypeOK' /\ stream' = stream BY <2>0, <3>1, ReaderTypes
    <3>3. WriterTypeOK' BY <2>0, <3>1, <3>2 DEF WriterTypeOK
    <3> QED BY <2>0, <3>1, <3>2, <3>3 DEF TypeOK
  <2>4. CASE UNCHANGED vars
    BY <2>0, <2>4 DEF TypeOK, WriterTypeOK, ReaderTypeOK, vars, writerVars, readerVars
  <2> QED BY <2>1, <2>2, <2>3, <2>4 DEF Next
<1> QED BY <1>1, <1>2, PTL DEF Spec

-----------------------------------------------------------------------------
(***************************************************************************)
(* What follows needs two conditions, and the runs show that it fails      *)
(* without them (PartStandsAlone, IndexesFit): C only reads what RocketAMF *)
(* wrote, and Ruby has no more objects than a reference can number.        *)
(***************************************************************************)
Faithful ==
  /\ Native => ~Flash
  /\ ~Native => IsFiniteSet(Obj) /\ Cardinality(Obj) <= RefLimit + 1

(***************************************************************************)
(* The reader begins when the writer has finished.  Its step is compared   *)
(* with the one by which the writer wrote the same token, and that is a    *)
(* state of the past: snapshots are kept as values.                        *)
(***************************************************************************)
Now == [stream |-> stream, cache |-> cache, index |-> index, stack |-> stack,
        heap |-> heap, met |-> met, switched |-> switched]

Typed(s) ==
  /\ s.stream \in Seq(Token)
  /\ s.cache \in [{0, 3} -> [Obj -> Index]] /\ s.index \in [{0, 3} -> Nat]
  /\ s.stack \in Seq(Frame)
  /\ s.heap \in [Holder -> Node]
  /\ s.met \in Nat
  /\ s.switched \in BOOLEAN

TopOf(s) == s.stack[Len(s.stack)]
OwnOf(s, f) == IF f.obj # Root /\ s.cache[3][f.obj] # NotCached THEN 3 ELSE 0
Met(s, o) == s.heap[o].kind # "unmet"

\* Objects are numbered in the order in which they are met.
Numbered(s) ==
  /\ \A o \in Holder : IF Met(s, o) THEN s.heap[o].nth \in 1 .. s.met ELSE s.heap[o].nth = 0
  /\ \A o, p \in Holder :
       Met(s, o) /\ Met(s, p) /\ s.heap[o].nth = s.heap[p].nth => o = p
  /\ Met(s, Root)

KidsMet(s) ==
  \A o \in Holder : \A i \in 1 .. Len(s.heap[o].kids) :
    s.heap[o].kids[i].val \in Obj => Met(s, s.heap[o].kids[i].val)

CachedMet(s) ==
  \A m \in {0, 3}, o \in Obj :
    s.cache[m][o] # NotCached => Met(s, o) /\ s.cache[m][o] < s.index[m]

Framed(s) ==
  \A i \in 1 .. Len(s.stack) :
    Met(s, s.stack[i].obj) /\ (s.stack[i].m = 3 => s.switched = TRUE)

\* The caller wants one value, before anything is cached.
RootOnce(s) ==
  \A i \in 1 .. Len(s.stack) : s.stack[i].obj = Root =>
    /\ i = 1 /\ s.stack[i].props = FALSE /\ s.stack[i].left <= 1
    /\ s.stack[i].left > 0 => Len(s.stack) = 1 /\ s.index[0] = 0 /\ s.index[3] = 0

\* Nothing is cached for AMF3 before the switch; RocketAMF itself switches
\* before everything else, and then writes nothing in AMF0 any more.
Active(f) == f.left > 0 \/ f.props = TRUE
InPart(s) ==
  /\ s.switched = FALSE => s.index[3] = 0
  /\ Native /\ s.switched = TRUE =>
       /\ s.index[0] = 0
       /\ \A i \in 1 .. Len(s.stack) : Active(s.stack[i]) =>
            /\ s.stack[i].m = 3
            /\ s.stack[i].obj # Root => OwnOf(s, s.stack[i]) = 3

Counted(s) == ~Native => s.index[0] <= Cardinality({o \in Obj : Met(s, o)})

WInv(s) ==
  /\ Typed(s) /\ Numbered(s) /\ KidsMet(s) /\ CachedMet(s)
  /\ Framed(s) /\ RootOnce(s) /\ InPart(s) /\ Counted(s)

-----------------------------------------------------------------------------
(***************************************************************************)
(* The steps of the writer, from one snapshot to the next.                 *)
(***************************************************************************)
Says(s, t, tok) == t.stream = Append(s.stream, tok)
SameBelow(s, t) == \A i \in 1 .. Len(s.stack) - 1 : t.stack[i] = s.stack[i]
SameTables(s, t) == t.cache = s.cache /\ t.index = s.index
SameGraph(s, t) == t.heap = s.heap /\ t.met = s.met

\* The function at the top got its value, and may go on.
Served1(s, f, g) ==
  /\ g.obj = f.obj /\ g.left = f.left - 1 /\ g.props = f.props /\ g.key = None
  /\ g.m = OwnOf(s, f)
Serves(s, t) ==
  /\ s.stack # <<>> /\ TopOf(s).left > 0
  /\ SameBelow(s, t)
  /\ Served1(s, TopOf(s), t.stack[Len(s.stack)])

Stores(s, t, v, p) ==
  /\ t.heap[p].kind = s.heap[p].kind /\ t.heap[p].cls = s.heap[p].cls
  /\ t.heap[p].nth = s.heap[p].nth
  /\ t.heap[p].kids = IF p = TopOf(s).obj
                      THEN Append(s.heap[p].kids, [key |-> TopOf(s).key, val |-> v])
                      ELSE s.heap[p].kids

GivesScalar(s, t, v) ==
  /\ Serves(s, t) /\ Len(t.stack) = Len(s.stack)
  /\ Says(s, t, ScalarTok(TopOf(s).m, v))
  /\ \A p \in Holder : Stores(s, t, v, p)
  /\ SameTables(s, t) /\ t.met = s.met /\ t.switched = s.switched

GivesReference(s, t, o) ==
  /\ Serves(s, t) /\ Len(t.stack) = Len(s.stack)
  /\ s.cache[TopOf(s).m][o] # NotCached
  /\ Says(s, t, RefTok(TopOf(s).m, s.cache[TopOf(s).m][o]))
  /\ \A p \in Holder : Stores(s, t, o, p)
  /\ SameTables(s, t) /\ t.met = s.met /\ t.switched = s.switched

\* The token that begins an array, a hash or an object, and the frame of the
\* function that writes what it holds.
Announces(tok, m, kind, cls, left, props) ==
  \/ tok = ArrayTok(m, left) /\ kind = "array" /\ cls = None /\ props = FALSE
  \/ m = 0 /\ tok = ObjectTok(cls) /\ kind = "object" /\ left = 0 /\ props = TRUE
  \/ m = 0 /\ tok = HashTok /\ kind = "hash" /\ cls = None /\ left = 0 /\ props = TRUE

GivesNew(s, t, o, tok) ==
  /\ Serves(s, t) /\ Len(t.stack) = Len(s.stack) + 1
  /\ ~Met(s, o)
  /\ Says(s, t, tok)
  /\ LET f == t.stack[Len(s.stack) + 1]
     IN  /\ f.obj = o /\ f.m = TopOf(s).m /\ f.key = None
         /\ Announces(tok, f.m, t.heap[o].kind, t.heap[o].cls, f.left, f.props)
  /\ \A p \in Holder \ {o} : Stores(s, t, o, p)
  /\ t.heap[o].kind # "unmet" /\ t.heap[o].kids = <<>> /\ t.heap[o].nth = s.met + 1
  /\ \A m \in {0, 3}, p \in Obj :
       t.cache[m][p] = IF m = TopOf(s).m /\ p = o THEN s.index[m] ELSE s.cache[m][p]
  /\ \A m \in {0, 3} : t.index[m] = IF m = TopOf(s).m THEN s.index[m] + 1 ELSE s.index[m]
  /\ t.met = s.met + 1 /\ t.switched = s.switched

\* The frame at the top is changed, and nothing else but the stream.
Turns(s, t) ==
  /\ s.stack # <<>> /\ Len(t.stack) = Len(s.stack) /\ SameBelow(s, t)
  /\ TopOf(t).obj = TopOf(s).obj
  /\ SameTables(s, t) /\ SameGraph(s, t)

Switches(s, t) ==
  /\ Turns(s, t)
  /\ TopOf(s).left > 0 /\ TopOf(s).m = 0 /\ s.switched = FALSE
  /\ Flash \/ TopOf(s).obj = Root
  /\ Says(s, t, SwitchTok)
  /\ TopOf(t).m = 3 /\ TopOf(t).left = TopOf(s).left /\ TopOf(t).props = TopOf(s).props
  /\ TopOf(t).key = TopOf(s).key
  /\ t.switched = TRUE

WritesKey(s, t, k) ==
  /\ Turns(s, t)
  /\ TopOf(s).left = 0 /\ TopOf(s).props = TRUE
  /\ Says(s, t, KeyTok(k))
  /\ TopOf(t).m = TopOf(s).m /\ TopOf(t).left = 1 /\ TopOf(t).props = TopOf(s).props
  /\ TopOf(t).key = k
  /\ t.switched = s.switched

Ends(s, t) ==
  /\ Turns(s, t)
  /\ TopOf(s).left = 0 /\ TopOf(s).props = TRUE
  /\ t.stream = s.stream \o <<KeyTok(Empty), EndTok>>
  /\ TopOf(t).m = TopOf(s).m /\ TopOf(t).left = 0 /\ TopOf(t).props = FALSE
  /\ TopOf(t).key = TopOf(s).key
  /\ t.switched = s.switched

Returns(s, t) ==
  /\ s.stack # <<>> /\ TopOf(s).left = 0 /\ TopOf(s).props = FALSE
  /\ Len(t.stack) = Len(s.stack) - 1 /\ SameBelow(s, t)
  /\ t.stream = s.stream
  /\ SameTables(s, t) /\ SameGraph(s, t) /\ t.switched = s.switched

WStep(s, t) ==
  \/ \E v \in Scalars : GivesScalar(s, t, v)
  \/ \E o \in Obj : GivesReference(s, t, o)
  \/ \E o \in Obj, tok \in Token : GivesNew(s, t, o, tok)
  \/ Switches(s, t)
  \/ \E k \in Names : WritesKey(s, t, k)
  \/ Ends(s, t)
  \/ Returns(s, t)

\* Ruby does not run out of indexes.
LEMMA IndexFits ==
  ASSUME Faithful, ~Native, NEW s, WInv(s)
  PROVE  \A o \in Obj : s.cache[0][o] # NotCached => s.cache[0][o] <= RefLimit
<1> DEFINE K == {o \in Obj : Met(s, o)}
<1>1. IsFiniteSet(Obj) /\ Cardinality(Obj) <= RefLimit + 1 BY DEF Faithful
<1>2. IsFiniteSet(K) /\ Cardinality(K) <= Cardinality(Obj)
  <2>1. K \subseteq Obj OBVIOUS
  <2> HIDE DEF K
  <2> QED BY <1>1, <2>1, FS_Subset
<1>3. Cardinality(K) \in Nat /\ Cardinality(Obj) \in Nat BY <1>1, <1>2, FS_CardinalityType
<1>4. s.index[0] <= Cardinality(K) BY DEF WInv, Counted
<1> HIDE DEF K
<1>5. \A o \in Obj : s.cache[0][o] # NotCached => s.cache[0][o] < s.index[0]
  BY DEF WInv, CachedMet
<1>6. s.cache \in [{0, 3} -> [Obj -> Index]] /\ s.index \in [{0, 3} -> Nat] BY DEF WInv, Typed
<1>7. s.index[0] \in Nat /\ \A o \in Obj : s.cache[0][o] \in Int BY <1>6
<1> QED BY <1>1, <1>2, <1>3, <1>4, <1>5, <1>7, StreamAssumption

LEMMA NowTyped == WriterTypeOK => Typed(Now)
<1>1. /\ Now.stream = stream /\ Now.cache = cache /\ Now.index = index /\ Now.stack = stack
      /\ Now.heap = heap /\ Now.met = met /\ Now.switched = switched
  BY Zenon DEF Now
<1> QED BY <1>1, Zenon DEF WriterTypeOK, Typed, Holder

\* What the stack of the writer is after a value.
LEMMA ServedStack ==
  ASSUME WriterTypeOK, NEW s, s = Now, NEW t, stack # <<>>, Top.left > 0,
         \/ t.stack = Append(Below, Served)
         \/ \E f \in Frame : t.stack = Append(Append(Below, Served), f)
  PROVE  Serves(s, t)
<1>1. s.stack = stack /\ s.cache = cache BY Zenon DEF Now
<1>2. stack \in Seq(Frame) /\ Len(stack) \in Nat BY Elements DEF WriterTypeOK
<1>3. Served \in Frame BY ServedType
<1>4. /\ \A i \in 1 .. Len(stack) - 1 : t.stack[i] = stack[i]
      /\ t.stack[Len(stack)] = Served
  <2>1. CASE t.stack = Append(Below, Served)
    BY <1>2, <1>3, <2>1, Replaced DEF Below
  <2>2. CASE \E f \in Frame : t.stack = Append(Append(Below, Served), f)
    <3>1. PICK f \in Frame : t.stack = Append(Append(Below, Served), f) BY <2>2
    <3> DEFINE u == Append(Append(Below, Served), f)
    <3> DEFINE b == Append(Below, Served)
    <3>4. b \in Seq(Frame) /\ Len(b) = Len(stack) /\ b[Len(stack)] = Served
      BY <1>2, <1>3, Replaced DEF Below
    <3>5. Len(stack) \in 1 .. Len(stack) BY <1>2, Elements
    <3>6. \A i \in 1 .. Len(b) : Append(b, f)[i] = b[i]
      <4> HIDE DEF b
      <4> QED BY <3>4, Appended
    <3>2. u[Len(stack)] = Served BY <3>4, <3>5, <3>6
    <3>3. \A i \in 1 .. Len(stack) - 1 : u[i] = stack[i] BY <1>2, <1>3, Pushed DEF Below
    <3> HIDE DEF u
    <3> QED BY <3>1, <3>2, <3>3 DEF u
  <2> QED BY <2>1, <2>2
<1>5. TopOf(s) = Top BY <1>1 DEF TopOf, Top
<1>6. OwnOf(s, TopOf(s)) = Own(Top) BY <1>1, <1>5 DEF OwnOf, Own
<1>7. Served1(s, TopOf(s), t.stack[Len(s.stack)])
  BY <1>1, <1>4, <1>5, <1>6, ServedType DEF Served1
<1> QED BY <1>1, <1>4, <1>5, <1>7 DEF Serves, SameBelow

\* What a step of Enter adds.
LEMMA EnterSteps ==
  ASSUME WriterTypeOK, NEW s, s = Now, NEW t, t = Now', NEW o \in Obj, NEW kind \in Kinds \ {"unmet"},
         NEW cls \in ClassNames \cup {None}, NEW frame \in Frame, NEW tok \in Token,
         Enter(o, kind, cls, frame), stream' = Append(stream, tok),
         frame.obj = o, frame.m = Top.m, frame.key = None,
         Announces(tok, Top.m, kind, cls, frame.left, frame.props)
  PROVE  GivesNew(s, t, o, tok)
<1>s. /\ s.stream = stream /\ s.cache = cache /\ s.index = index /\ s.stack = stack
      /\ s.heap = heap /\ s.met = met /\ s.switched = switched
  BY Zenon DEF Now
<1>t. /\ t.stream = stream' /\ t.cache = cache' /\ t.index = index' /\ t.stack = stack'
      /\ t.heap = heap' /\ t.met = met' /\ t.switched = switched'
  BY Zenon DEF Now
<1>1. /\ stack # <<>> /\ Top.left > 0 /\ Remember(o) /\ heap' = Meet(o, kind, cls)
      /\ met' = met + 1 /\ switched' = switched /\ heap[o].kind = "unmet"
      /\ stack' = Append(Append(Below, Served), frame)
  BY DEF Enter, WantsValue, Busy
<1>2. Serves(s, t) BY <1>t, <1>1, ServedStack
<1>3. Served \in Frame /\ stack \in Seq(Frame) BY <1>1, ServedType DEF WriterTypeOK
<1>4. Len(t.stack) = Len(s.stack) + 1 /\ t.stack[Len(s.stack) + 1] = frame
  <2> DEFINE u == Append(Append(Below, Served), frame)
  <2>1. Len(u) = Len(stack) + 1 /\ u[Len(stack) + 1] = frame BY <1>1, <1>3, Pushed DEF Below
  <2> HIDE DEF u
  <2>2. stack' = u BY <1>1 DEF u
  <2> QED BY <1>s, <1>t, <2>1, <2>2
<1>5. TopOf(s) = Top BY <1>s DEF TopOf, Top
<1>6. /\ t.heap[o].kind = kind /\ t.heap[o].cls = cls /\ t.heap[o].kids = <<>>
      /\ t.heap[o].nth = s.met + 1
  BY <1>s, <1>t, <1>1, MeetType
<1>7. ASSUME NEW p \in Holder \ {o} PROVE Stores(s, t, o, p)
  <2>1. t.heap[p] = Holding(o)[p] BY <1>t, <1>1, MeetType
  <2>2. o \in Obj \cup Scalars OBVIOUS
  <2>3. /\ Holding(o)[p].kind = heap[p].kind /\ Holding(o)[p].cls = heap[p].cls
        /\ Holding(o)[p].nth = heap[p].nth
        /\ Holding(o)[p].kids = IF p = Top.obj
                                THEN Append(heap[p].kids, [key |-> Top.key, val |-> o])
                                ELSE heap[p].kids
    BY <1>1, <2>2, HoldingType
  <2> QED BY <1>s, <1>5, <2>1, <2>3 DEF Stores
<1>8. /\ \A m \in {0, 3}, p \in Obj :
           t.cache[m][p] = IF m = TopOf(s).m /\ p = o THEN s.index[m] ELSE s.cache[m][p]
      /\ \A m \in {0, 3} : t.index[m] = IF m = TopOf(s).m THEN s.index[m] + 1 ELSE s.index[m]
  BY <1>s, <1>t, <1>1, <1>5, CacheType
<1>9. ~Met(s, o) /\ Says(s, t, tok) BY <1>s, <1>t, <1>1 DEF Met, Says
<1>10. t.met = s.met + 1 /\ t.switched = s.switched BY <1>s, <1>t, <1>1
<1>11. LET f == t.stack[Len(s.stack) + 1]
       IN  /\ f.obj = o /\ f.m = TopOf(s).m /\ f.key = None
           /\ Announces(tok, f.m, t.heap[o].kind, t.heap[o].cls, f.left, f.props)
  BY <1>4, <1>5, <1>6
<1>12. t.heap[o].kind # "unmet" BY <1>6
<1> QED BY <1>2, <1>4, <1>6, <1>7, <1>8, <1>9, <1>10, <1>11, <1>12 DEF GivesNew

\* A step that only turns the frame at the top.
LEMMA TurnSteps ==
  ASSUME WriterTypeOK, NEW s, s = Now, NEW t, t = Now', stack # <<>>, NEW f \in Frame,
         f.obj = Top.obj, stack' = Append(Below, f), UNCHANGED <<cache, index, heap, met>>
  PROVE  Turns(s, t) /\ TopOf(t) = f /\ TopOf(s) = Top
<1>s. s.cache = cache /\ s.index = index /\ s.stack = stack /\ s.heap = heap /\ s.met = met
  BY Zenon DEF Now
<1>t. t.cache = cache' /\ t.index = index' /\ t.stack = stack' /\ t.heap = heap' /\ t.met = met'
  BY Zenon DEF Now
<1>1. stack \in Seq(Frame) BY DEF WriterTypeOK
<1>2. /\ Len(stack') = Len(stack) /\ stack'[Len(stack)] = f
      /\ \A i \in 1 .. Len(stack) - 1 : stack'[i] = stack[i]
  BY <1>1, Replaced DEF Below
<1>3. TopOf(s) = Top /\ TopOf(t) = f BY <1>s, <1>t, <1>2 DEF TopOf, Top
<1> QED BY <1>s, <1>t, <1>2, <1>3 DEF Turns, SameBelow, SameTables, SameGraph

\* Every step of the writer is one of these, unless the writer raises.
LEMMA Steps ==
  ASSUME Faithful, WriterTypeOK, NEW s, s = Now, NEW t, t = Now', WInv(s), WriterNext
  PROVE  WStep(s, t) \/ s = t
<1>s. /\ s.stream = stream /\ s.cache = cache /\ s.index = index /\ s.stack = stack
      /\ s.heap = heap /\ s.met = met /\ s.switched = switched
  BY Zenon DEF Now
<1>t. /\ t.stream = stream' /\ t.cache = cache' /\ t.index = index' /\ t.stack = stack'
      /\ t.heap = heap' /\ t.met = met' /\ t.switched = switched'
  BY Zenon DEF Now
<1>0. stack \in Seq(Frame) /\ TopOf(s) = Top BY <1>s DEF WriterTypeOK, TopOf, Top
<1>a. stack # <<>> => /\ Top \in Frame /\ Top.m \in {0, 3}
                      /\ Top.left > 0 => Served \in Frame
  BY ServedType, FrameChanges
<1>b. ASSUME stack # <<>>, Top.left > 0, stack' = Append(Below, Served)
      PROVE  Len(t.stack) = Len(s.stack) /\ Serves(s, t)
  <2>1. Serves(s, t) BY <1>t, <1>b, ServedStack
  <2>2. Served \in Frame BY <1>b, ServedType
  <2> QED BY <1>0, <1>b, <1>s, <1>t, <2>1, <2>2, Replaced DEF Below
<1>c. ASSUME stack # <<>>, NEW v \in Obj \cup Scalars, heap' = Holding(v), NEW p \in Holder
      PROVE  Stores(s, t, v, p)
  BY <1>0, <1>c, <1>s, <1>t, HoldingType DEF Stores
<1>1. ASSUME NEW v \in Scalars, WriteScalar(v) PROVE WStep(s, t)
  <2>1. /\ stack # <<>> /\ Top.left > 0 /\ stream' = Append(stream, ScalarTok(Top.m, v))
        /\ heap' = Holding(v) /\ stack' = Append(Below, Served)
        /\ UNCHANGED <<cache, index, met, switched, wstat>>
    BY <1>1 DEF WriteScalar, WantsValue, Busy, Emit
  <2>2. \A p \in Holder : Stores(s, t, v, p) BY <1>c, <2>1
  <2>3. GivesScalar(s, t, v)
    BY <1>0, <1>b, <1>s, <1>t, <2>1, <2>2 DEF GivesScalar, Says, SameTables
  <2> QED BY <2>3 DEF WStep
<1>2. ASSUME NEW o \in Obj, WriteReference(o) PROVE WStep(s, t)
  <2>1. /\ stack # <<>> /\ Top.left > 0 /\ stream' = Append(stream, RefTok(Top.m, IndexWritten(o)))
        /\ heap' = Holding(o) /\ stack' = Append(Below, Served)
        /\ cache[Top.m][o] # NotCached /\ ~Unwritable(o)
        /\ UNCHANGED <<cache, index, met, switched, wstat>>
    BY <1>2 DEF WriteReference, WantsValue, Busy, Emit
  <2>2. \A p \in Holder : Stores(s, t, o, p) BY <1>c, <2>1
  <2>3. IndexWritten(o) = cache[Top.m][o]
    <3>1. Top.m \in {0, 3} BY <2>1, ServedType, FrameChanges
    <3>2. CASE Top.m = 0
      <4>1. cache[0][o] \in Nat BY <2>1, <3>2 DEF WriterTypeOK
      <4>2. cache[0][o] <= RefLimit
        <5>1. CASE Native BY <2>1, <3>2, <4>1, <5>1, StreamAssumption DEF Unwritable
        <5>2. CASE ~Native BY <1>s, <2>1, <3>2, <5>2, IndexFits
        <5> QED BY <5>1, <5>2
      <4>3. cache[0][o] % (RefLimit + 1) = cache[0][o] BY <4>1, <4>2, StreamAssumption
      <4> QED BY <3>2, <4>3 DEF IndexWritten
    <3>3. CASE Top.m = 3 BY <3>3 DEF IndexWritten
    <3> QED BY <3>1, <3>2, <3>3
  <2>4. GivesReference(s, t, o)
    BY <1>0, <1>b, <1>s, <1>t, <2>1, <2>2, <2>3 DEF GivesReference, Says, SameTables
  <2> QED BY <2>4 DEF WStep
<1>3. ASSUME WriteRaises PROVE s = t
  BY <1>3, Zenon DEF WriteRaises, Now
<1>4. ASSUME NEW o \in Obj, NEW len \in 0 .. MaxLen, WriteArray(o, len) PROVE WStep(s, t)
  <2> DEFINE f == NewFrame(o, Top.m, len, FALSE)
             tok == ArrayTok(Top.m, len)
  <2>1. /\ Enter(o, "array", None, f)
        /\ stream' = Append(stream, tok) /\ stack # <<>> /\ len \in Nat
    BY <1>4, WriterAssumption DEF WriteArray, Enter, WantsValue, Busy, Emit
  <2>2. Top.m \in {0, 3} BY <2>1, ServedType, FrameChanges
  <2>3. f \in Frame BY <2>1, <2>2, FrameTypes
  <2>4. tok \in Token BY <2>1, <2>2, TokenTypes
  <2>5. f.obj = o /\ f.m = Top.m /\ f.key = None /\ f.left = len /\ f.props = FALSE
    BY DEF NewFrame
  <2>6. Announces(tok, Top.m, "array", None, f.left, f.props) BY <2>5 DEF Announces
  <2> HIDE DEF f, tok
  <2>7. GivesNew(s, t, o, tok) BY <2>1, <2>3, <2>4, <2>5, <2>6, EnterSteps DEF Kinds
  <2> QED BY <2>4, <2>7 DEF WStep
<1>5. ASSUME NEW o \in Obj, NEW cls \in ClassNames \cup {None}, WriteObject(o, cls)
      PROVE  WStep(s, t)
  <2> DEFINE f == NewFrame(o, 0, 0, TRUE)
             tok == ObjectTok(cls)
  <2>1. /\ Enter(o, "object", cls, f) /\ stream' = Append(stream, tok) /\ Top.m = 0
    BY <1>5 DEF WriteObject, Emit
  <2>2. f \in Frame /\ tok \in Token BY FrameTypes, TokenTypes
  <2>5. f.obj = o /\ f.m = Top.m /\ f.key = None /\ f.left = 0 /\ f.props = TRUE
    BY <2>1 DEF NewFrame
  <2>6. Announces(tok, Top.m, "object", cls, f.left, f.props) BY <2>1, <2>5 DEF Announces
  <2> HIDE DEF f, tok
  <2>7. GivesNew(s, t, o, tok) BY <2>1, <2>2, <2>5, <2>6, EnterSteps DEF Kinds
  <2> QED BY <2>2, <2>7 DEF WStep
<1>6. ASSUME NEW o \in Obj, WriteHash(o) PROVE WStep(s, t)
  <2> DEFINE f == NewFrame(o, 0, 0, TRUE)
             tok == HashTok
  <2>1. /\ Enter(o, "hash", None, f) /\ stream' = Append(stream, tok) /\ Top.m = 0
    BY <1>6 DEF WriteHash, Emit
  <2>2. f \in Frame /\ tok \in Token BY FrameTypes, TokenTypes
  <2>5. f.obj = o /\ f.m = Top.m /\ f.key = None /\ f.left = 0 /\ f.props = TRUE
    BY <2>1 DEF NewFrame
  <2>6. Announces(tok, Top.m, "hash", None, f.left, f.props) BY <2>1, <2>5 DEF Announces
  <2> HIDE DEF f, tok
  <2>7. GivesNew(s, t, o, tok) BY <2>1, <2>2, <2>5, <2>6, EnterSteps DEF Kinds
  <2> QED BY <2>2, <2>7 DEF WStep
<1>7. ASSUME WriteSwitch PROVE WStep(s, t)
  <2> DEFINE f == [Top EXCEPT !.m = 3]
  <2>1. /\ stack # <<>> /\ Top.left > 0 /\ Top.m = 0 /\ ~switched /\ (Flash \/ Top.obj = Root)
        /\ switched' = TRUE /\ stack' = Append(Below, f) /\ stream' = Append(stream, SwitchTok)
        /\ UNCHANGED <<cache, index, heap, met>>
    BY <1>7 DEF WriteSwitch, WantsValue, Busy, Emit
  <2>2. /\ f \in Frame /\ f.obj = Top.obj /\ f.m = 3 /\ f.left = Top.left
        /\ f.props = Top.props /\ f.key = Top.key
    BY <2>1, ServedType, FrameChanges
  <2> HIDE DEF f
  <2>3. Turns(s, t) /\ TopOf(t) = f /\ TopOf(s) = Top BY <2>1, <2>2, TurnSteps
  <2>4. s.switched = FALSE /\ t.switched = TRUE BY <1>s, <1>t, <2>1, Zenon DEF WriterTypeOK
  <2>5. Says(s, t, SwitchTok) BY <1>s, <1>t, <2>1 DEF Says
  <2>6. Switches(s, t) BY <2>1, <2>2, <2>3, <2>4, <2>5 DEF Switches
  <2> QED BY <2>6 DEF WStep
<1>8. ASSUME NEW k \in Names, WriteKey(k) PROVE WStep(s, t)
  <2> DEFINE f == [Top EXCEPT !.left = 1, !.key = k]
  <2>1. /\ stack # <<>> /\ Top.left = 0 /\ Top.props
        /\ stack' = Append(Below, f) /\ stream' = Append(stream, KeyTok(k))
        /\ UNCHANGED <<cache, index, heap, met>> /\ switched' = switched
    BY <1>8 DEF WriteKey, InProps, Busy, Emit
  <2>t. Top \in Frame BY <2>1, ServedType
  <2>2. f \in Frame /\ f.obj = Top.obj /\ f.m = Top.m /\ f.left = 1 /\ f.props = Top.props /\ f.key = k
    BY <2>t, FrameChanges
  <2> HIDE DEF f
  <2>3. Turns(s, t) /\ TopOf(t) = f /\ TopOf(s) = Top BY <2>1, <2>2, TurnSteps
  <2>4. t.switched = s.switched BY <1>s, <1>t, <2>1, Zenon
  <2>5. Says(s, t, KeyTok(k)) BY <1>s, <1>t, <2>1 DEF Says
  <2>7. TopOf(s).props = TRUE BY <2>1, <2>3, <2>t, FrameChanges, Zenon
  <2>6. WritesKey(s, t, k) BY <2>1, <2>2, <2>3, <2>4, <2>5, <2>7 DEF WritesKey
  <2> QED BY <2>6 DEF WStep
<1>9. ASSUME WriteEnd PROVE WStep(s, t)
  <2> DEFINE f == [Top EXCEPT !.props = FALSE]
  <2>1. /\ stack # <<>> /\ Top.left = 0 /\ Top.props
        /\ stack' = Append(Below, f) /\ stream' = stream \o <<KeyTok(Empty), EndTok>>
        /\ UNCHANGED <<cache, index, heap, met>> /\ switched' = switched
    BY <1>9 DEF WriteEnd, InProps, Busy
  <2>t. Top \in Frame BY <2>1, ServedType
  <2>2. f \in Frame /\ f.obj = Top.obj /\ f.m = Top.m /\ f.left = Top.left /\ f.props = FALSE /\ f.key = Top.key
    BY <2>t, FrameChanges
  <2> HIDE DEF f
  <2>3. Turns(s, t) /\ TopOf(t) = f /\ TopOf(s) = Top BY <2>1, <2>2, TurnSteps
  <2>4. t.switched = s.switched BY <1>s, <1>t, <2>1, Zenon
  <2>5. t.stream = s.stream \o <<KeyTok(Empty), EndTok>> BY <1>s, <1>t, <2>1
  <2>7. TopOf(s).props = TRUE BY <2>1, <2>3, <2>t, FrameChanges, Zenon
  <2>6. Ends(s, t) BY <2>1, <2>2, <2>3, <2>4, <2>5, <2>7 DEF Ends
  <2> QED BY <2>6 DEF WStep
<1>10. ASSUME Return PROVE WStep(s, t)
  <2>1. /\ stack # <<>> /\ Top.left = 0 /\ ~Top.props /\ stack' = Below
        /\ UNCHANGED <<cache, index, heap, met>> /\ switched' = switched /\ stream' = stream
    BY <1>10 DEF Return, Busy
  <2>2. Len(Below) = Len(stack) - 1 /\ \A i \in 1 .. Len(stack) - 1 : Below[i] = stack[i]
    BY <1>0, <2>1, Popped DEF Below
  <2>3. t.switched = s.switched BY <1>s, <1>t, <2>1, Zenon
  <2>t. Top \in Frame BY <2>1, ServedType
  <2>5. TopOf(s).props = FALSE BY <1>0, <2>1, <2>t, FrameChanges, Zenon
  <2>4. Returns(s, t)
    BY <1>0, <1>s, <1>t, <2>1, <2>2, <2>3, <2>5 DEF Returns, SameBelow, SameTables, SameGraph
  <2> QED BY <2>4 DEF WStep
<1> QED BY <1>1, <1>2, <1>3, <1>4, <1>5, <1>6, <1>7, <1>8, <1>9, <1>10 DEF WriterNext

-----------------------------------------------------------------------------
(***************************************************************************)
(* The invariant of the snapshots.                                         *)
(***************************************************************************)

LEMMA SnapshotTypes ==
  ASSUME NEW s, Typed(s)
  PROVE  /\ Len(s.stack) \in Nat /\ DOMAIN s.stack = 1 .. Len(s.stack)
         /\ \A i \in 1 .. Len(s.stack) :
              /\ s.stack[i] \in Frame /\ s.stack[i].obj \in Holder /\ s.stack[i].m \in {0, 3}
              /\ s.stack[i].left \in Nat /\ s.stack[i].props \in BOOLEAN
              /\ s.stack[i].key \in Names \cup {None}
         /\ s.stack # <<>> =>
              /\ Len(s.stack) \in 1 .. Len(s.stack) /\ TopOf(s) \in Frame
              /\ TopOf(s).obj \in Holder /\ TopOf(s).m \in {0, 3}
              /\ TopOf(s).left \in Nat /\ TopOf(s).props \in BOOLEAN
              /\ TopOf(s).key \in Names \cup {None}
         /\ \A m \in {0, 3} : s.index[m] \in Nat
         /\ \A m \in {0, 3}, o \in Obj : s.cache[m][o] \in Index
         /\ \A o \in Holder :
              /\ s.heap[o] \in Node /\ s.heap[o].nth \in Nat /\ s.heap[o].kids \in Seq(Kid)
              /\ s.heap[o].kind \in Kinds /\ s.heap[o].cls \in ClassNames \cup {None}
              /\ Len(s.heap[o].kids) \in Nat
         /\ s.met \in Nat /\ s.stream \in Seq(Token) /\ Len(s.stream) \in Nat
<1>1. /\ s.stack \in Seq(Frame) /\ s.index \in [{0, 3} -> Nat]
      /\ s.cache \in [{0, 3} -> [Obj -> Index]] /\ s.heap \in [Holder -> Node]
      /\ s.met \in Nat /\ s.stream \in Seq(Token)
  BY Zenon DEF Typed
<1>2. /\ Len(s.stack) \in Nat /\ DOMAIN s.stack = 1 .. Len(s.stack)
      /\ \A i \in 1 .. Len(s.stack) : s.stack[i] \in Frame
      /\ s.stack # <<>> => Len(s.stack) \in 1 .. Len(s.stack)
  BY <1>1, Elements
<1>3. \A f \in Frame :
        /\ f.obj \in Holder /\ f.m \in {0, 3} /\ f.left \in Nat /\ f.props \in BOOLEAN
        /\ f.key \in Names \cup {None}
  BY FrameChanges
<1>4. s.stack # <<>> => TopOf(s) \in Frame BY <1>2 DEF TopOf
<1>5. \A m \in {0, 3}, o \in Obj : s.cache[m][o] \in Index BY <1>1
<1>6. \A o \in Holder :
        /\ s.heap[o] \in Node /\ s.heap[o].nth \in Nat /\ s.heap[o].kids \in Seq(Kid)
        /\ s.heap[o].kind \in Kinds /\ s.heap[o].cls \in ClassNames \cup {None}
  BY <1>1 DEF Node
<1>7. \A o \in Holder : Len(s.heap[o].kids) \in Nat BY <1>6, Elements
<1>8. Len(s.stream) \in Nat BY <1>1, Elements
<1> QED BY <1>1, <1>2, <1>3, <1>4, <1>5, <1>6, <1>7, <1>8

\* The object o is met in this step.
News(s, t, o) == \E tok \in Token : GivesNew(s, t, o, tok)

\* An object that was met before may hold one more value.
Kept(s, t, p) ==
  /\ t.heap[p].kind = s.heap[p].kind /\ t.heap[p].cls = s.heap[p].cls
  /\ t.heap[p].nth = s.heap[p].nth
  /\ \/ t.heap[p].kids = s.heap[p].kids
     \/ \E v \in Obj \cup Scalars :
          /\ v \in Obj => Met(t, v)
          /\ s.stack # <<>> /\ p = TopOf(s).obj
          /\ t.heap[p].kids = Append(s.heap[p].kids, [key |-> TopOf(s).key, val |-> v])

\* What a step does to the objects that were met before.
LEMMA GraphGrows ==
  ASSUME NEW s, WInv(s), NEW t, Typed(t), WStep(s, t)
  PROVE  \A p \in Holder :
           IF p \in Obj /\ News(s, t, p)
           THEN /\ ~Met(s, p) /\ Met(t, p) /\ t.heap[p].nth = s.met + 1 /\ t.heap[p].kids = <<>>
                /\ t.met = s.met + 1
           ELSE Kept(s, t, p)
<1> TAKE p \in Holder
<1>0. CachedMet(s) /\ Typed(s) BY DEF WInv
<1>1. ASSUME NEW v \in Scalars, GivesScalar(s, t, v), ~(p \in Obj /\ News(s, t, p))
      PROVE  Kept(s, t, p)
  <2>1. Stores(s, t, v, p) /\ s.stack # <<>> BY <1>1 DEF GivesScalar, Serves
  <2>2. v \notin Obj BY StreamAssumption
  <2> QED BY <2>1, <2>2 DEF Stores, Kept
<1>2. ASSUME NEW o \in Obj, GivesReference(s, t, o)
      PROVE  Kept(s, t, p)
  <2>1. Stores(s, t, o, p) /\ s.stack # <<>> BY <1>2 DEF GivesReference, Serves
  <2>2. TopOf(s).m \in {0, 3} BY <1>0, <2>1, SnapshotTypes
  <2>3. Met(s, o) BY <1>0, <1>2, <2>2 DEF CachedMet, GivesReference
  <2>4. Stores(s, t, o, o) BY <1>2 DEF GivesReference, Holder
  <2>5. Met(t, o) BY <2>3, <2>4 DEF Stores, Met
  <2> QED BY <2>1, <2>5 DEF Stores, Kept
<1>3. ASSUME NEW o \in Obj, NEW tok \in Token, GivesNew(s, t, o, tok)
      PROVE  IF p = o
             THEN /\ ~Met(s, p) /\ Met(t, p) /\ t.heap[p].nth = s.met + 1 /\ t.heap[p].kids = <<>>
                  /\ t.met = s.met + 1
             ELSE Kept(s, t, p)
  <2>1. Met(t, o) /\ s.stack # <<>> BY <1>3 DEF GivesNew, Serves, Met
  <2>2. CASE p = o BY <1>3, <2>1, <2>2 DEF GivesNew
  <2>3. CASE p # o
    <3>1. Stores(s, t, o, p) BY <1>3, <2>3 DEF GivesNew
    <3> QED BY <2>1, <2>3, <3>1 DEF Stores, Kept
  <2> QED BY <2>2, <2>3
<1>4. ASSUME SameGraph(s, t)
      PROVE  Kept(s, t, p)
  BY <1>4 DEF SameGraph, Kept
<1>5. ASSUME p \in Obj, News(s, t, p)
      PROVE  /\ ~Met(s, p) /\ Met(t, p) /\ t.heap[p].nth = s.met + 1 /\ t.heap[p].kids = <<>>
             /\ t.met = s.met + 1
  BY <1>3, <1>5 DEF News
<1>6. ASSUME ~(p \in Obj /\ News(s, t, p))
      PROVE  Kept(s, t, p)
  <2>1. CASE \E v \in Scalars : GivesScalar(s, t, v) BY <1>1, <1>6, <2>1
  <2>2. CASE \E o \in Obj : GivesReference(s, t, o) BY <1>2, <2>2
  <2>3. CASE \E o \in Obj, tok \in Token : GivesNew(s, t, o, tok)
    <3>1. PICK o \in Obj, tok \in Token : GivesNew(s, t, o, tok) BY <2>3
    <3>2. p # o BY <1>6, <3>1 DEF News
    <3> QED BY <1>3, <3>1, <3>2
  <2>4. CASE Switches(s, t) BY <1>4, <2>4 DEF Switches, Turns
  <2>5. CASE \E k \in Names : WritesKey(s, t, k) BY <1>4, <2>5 DEF WritesKey, Turns
  <2>6. CASE Ends(s, t) BY <1>4, <2>6 DEF Ends, Turns
  <2>7. CASE Returns(s, t) BY <1>4, <2>7 DEF Returns
  <2> QED BY <2>1, <2>2, <2>3, <2>4, <2>5, <2>6, <2>7 DEF WStep
<1> QED BY <1>5, <1>6

\* At most one object is met in a step, and it is cached and gets a number.
LEMMA NewsOnce ==
  ASSUME NEW s, WInv(s), NEW t, Typed(t), WStep(s, t)
  PROVE  \/ /\ t.met = s.met /\ SameTables(s, t)
            /\ \A o \in Obj : ~News(s, t, o)
         \/ \E o \in Obj :
              /\ News(s, t, o) /\ \A p \in Obj : News(s, t, p) => p = o
              /\ t.met = s.met + 1 /\ t.switched = s.switched
              /\ s.stack # <<>> /\ TopOf(s).left > 0 /\ TopOf(s).m \in {0, 3}
              /\ \A m \in {0, 3}, p \in Obj :
                   t.cache[m][p] = IF m = TopOf(s).m /\ p = o THEN s.index[m] ELSE s.cache[m][p]
              /\ \A m \in {0, 3} :
                   t.index[m] = IF m = TopOf(s).m THEN s.index[m] + 1 ELSE s.index[m]
<1>0. Typed(s) BY DEF WInv
<1>1. ASSUME NEW o \in Obj, NEW tok \in Token, GivesNew(s, t, o, tok)
      PROVE  /\ News(s, t, o) /\ \A p \in Obj : News(s, t, p) => p = o
             /\ t.met = s.met + 1 /\ t.switched = s.switched
             /\ s.stack # <<>> /\ TopOf(s).left > 0 /\ TopOf(s).m \in {0, 3}
             /\ \A m \in {0, 3}, p \in Obj :
                  t.cache[m][p] = IF m = TopOf(s).m /\ p = o THEN s.index[m] ELSE s.cache[m][p]
             /\ \A m \in {0, 3} :
                  t.index[m] = IF m = TopOf(s).m THEN s.index[m] + 1 ELSE s.index[m]
  <2>1. News(s, t, o) BY <1>1 DEF News
  <2>2. ASSUME NEW p \in Obj, News(s, t, p), p # o PROVE FALSE
    <3>1. ~Met(s, p) /\ t.heap[p].kind # "unmet" BY <2>2 DEF News, GivesNew
    <3>2. Stores(s, t, o, p) BY <1>1, <2>2 DEF GivesNew, Holder
    <3> QED BY <3>1, <3>2 DEF Stores, Met
  <2>3. s.stack # <<>> /\ TopOf(s).left > 0 BY <1>1 DEF GivesNew, Serves
  <2>4. TopOf(s).m \in {0, 3} BY <1>0, <2>3, SnapshotTypes
  <2>5. /\ t.met = s.met + 1 /\ t.switched = s.switched
        /\ \A m \in {0, 3}, p \in Obj :
             t.cache[m][p] = IF m = TopOf(s).m /\ p = o THEN s.index[m] ELSE s.cache[m][p]
        /\ \A m \in {0, 3} :
             t.index[m] = IF m = TopOf(s).m THEN s.index[m] + 1 ELSE s.index[m]
    BY <1>1 DEF GivesNew
  <2> QED BY <2>1, <2>2, <2>3, <2>4, <2>5
<1>2. ASSUME t.met = s.met, NEW o \in Obj PROVE ~News(s, t, o)
  <2>1. s.met \in Nat BY <1>0 DEF Typed
  <2> QED BY <1>2, <2>1 DEF News, GivesNew
<1>3. CASE \E v \in Scalars : GivesScalar(s, t, v) BY <1>2, <1>3 DEF GivesScalar
<1>4. CASE \E o \in Obj : GivesReference(s, t, o) BY <1>2, <1>4 DEF GivesReference
<1>5. CASE \E o \in Obj, tok \in Token : GivesNew(s, t, o, tok) BY <1>1, <1>5
<1>6. CASE Switches(s, t) BY <1>2, <1>6 DEF Switches, Turns, SameGraph
<1>7. CASE \E k \in Names : WritesKey(s, t, k) BY <1>2, <1>7 DEF WritesKey, Turns, SameGraph
<1>8. CASE Ends(s, t) BY <1>2, <1>8 DEF Ends, Turns, SameGraph
<1>9. CASE Returns(s, t) BY <1>2, <1>9 DEF Returns, SameGraph
<1> QED BY <1>3, <1>4, <1>5, <1>6, <1>7, <1>8, <1>9 DEF WStep

LEMMA MetStays ==
  ASSUME NEW s, WInv(s), NEW t, Typed(t), WStep(s, t)
  PROVE  /\ \A p \in Holder : Met(s, p) => Met(t, p) /\ t.heap[p].nth = s.heap[p].nth
         /\ \A m \in {0, 3}, o \in Obj : Met(s, o) => t.cache[m][o] = s.cache[m][o]
         /\ s.switched = TRUE => t.switched = TRUE
<1>1. \A p \in Holder : Met(s, p) => Met(t, p) /\ t.heap[p].nth = s.heap[p].nth
  BY GraphGrows DEF Met, Kept
<1>2. \A o \in Obj : News(s, t, o) => ~Met(s, o) BY DEF News, GivesNew
<1>3. \A m \in {0, 3}, o \in Obj : Met(s, o) => t.cache[m][o] = s.cache[m][o]
  BY <1>2, NewsOnce DEF SameTables
<1>4. s.switched = TRUE => t.switched = TRUE
  BY Zenon DEF WStep, GivesScalar, GivesReference, GivesNew, Switches, WritesKey, Ends, Returns
<1> QED BY <1>1, <1>3, <1>4

LEMMA NumberStays ==
  ASSUME NEW s, WInv(s), NEW t, Typed(t), WStep(s, t), NEW p \in Holder, Met(s, p)
  PROVE  t.heap[p].nth = s.heap[p].nth
<1>1. ~(p \in Obj /\ News(s, t, p)) BY GraphGrows
<1>2. Kept(s, t, p) BY <1>1, GraphGrows
<1> QED BY <1>2 DEF Kept

LEMMA NumberedKept ==
  ASSUME NEW s, WInv(s), NEW t, Typed(t), WStep(s, t)
  PROVE  Numbered(t)
<1>0. Typed(s) /\ Numbered(s) BY DEF WInv
<1>a. s.met \in Nat /\ t.met \in Nat BY <1>0, SnapshotTypes
<1>b. t.met = s.met \/ t.met = s.met + 1 BY NewsOnce
<1>1. s.met \in Nat /\ t.met \in Nat /\ s.met <= t.met BY <1>a, <1>b
<1>2. \A p \in Holder : IF p \in Obj /\ News(s, t, p)
        THEN ~Met(s, p) /\ Met(t, p) /\ t.heap[p].nth = s.met + 1 /\ t.met = s.met + 1
        ELSE (Met(t, p) <=> Met(s, p)) /\ t.heap[p].nth = s.heap[p].nth
  BY GraphGrows DEF Met, Kept
<1>3. ASSUME NEW o \in Holder
      PROVE  IF Met(t, o) THEN t.heap[o].nth \in 1 .. t.met ELSE t.heap[o].nth = 0
  <2>1. CASE o \in Obj /\ News(s, t, o) BY <1>1, <1>2, <2>1
  <2>2. CASE ~(o \in Obj /\ News(s, t, o))
    <3>1. (Met(t, o) <=> Met(s, o)) /\ t.heap[o].nth = s.heap[o].nth BY <1>2, <2>2
    <3>2. IF Met(s, o) THEN s.heap[o].nth \in 1 .. s.met ELSE s.heap[o].nth = 0
      BY <1>0 DEF Numbered
    <3> QED BY <1>1, <3>1, <3>2
  <2> QED BY <2>1, <2>2
<1>4. ASSUME NEW o \in Holder, NEW p \in Holder, Met(t, o), Met(t, p), t.heap[o].nth = t.heap[p].nth
      PROVE  o = p
  <2>1. \A q \in Holder : Met(s, q) => s.heap[q].nth \in 1 .. s.met BY <1>0 DEF Numbered
  <2>2. \A q, r \in Obj : News(s, t, q) /\ News(s, t, r) => q = r BY NewsOnce
  <2>3. Met(s, o) /\ Met(s, p) /\ s.heap[o].nth = s.heap[p].nth => o = p BY <1>0 DEF Numbered
  <2>4. CASE o \in Obj /\ News(s, t, o)
    <3>1. CASE p \in Obj /\ News(s, t, p) BY <2>2, <2>4, <3>1
    <3>2. CASE ~(p \in Obj /\ News(s, t, p))
      <4>1. t.heap[p].nth \in 1 .. s.met BY <1>2, <1>4, <2>1, <3>2
      <4>2. t.heap[o].nth = s.met + 1 BY <1>2, <2>4
      <4> QED BY <1>1, <1>4, <4>1, <4>2
    <3> QED BY <3>1, <3>2
  <2>5. CASE ~(o \in Obj /\ News(s, t, o))
    <3>1. CASE p \in Obj /\ News(s, t, p)
      <4>1. t.heap[o].nth \in 1 .. s.met BY <1>2, <1>4, <2>1, <2>5
      <4>2. t.heap[p].nth = s.met + 1 BY <1>2, <3>1
      <4> QED BY <1>1, <1>4, <4>1, <4>2
    <3>2. CASE ~(p \in Obj /\ News(s, t, p)) BY <1>2, <1>4, <2>3, <2>5, <3>2
    <3> QED BY <3>1, <3>2
  <2> QED BY <2>4, <2>5
<1>5. Met(t, Root) BY <1>0, MetStays DEF Numbered, Holder
<1> QED BY <1>3, <1>4, <1>5 DEF Numbered

LEMMA KidsMetKept ==
  ASSUME NEW s, WInv(s), NEW t, Typed(t), WStep(s, t)
  PROVE  KidsMet(t)
<1>0. Typed(s) /\ KidsMet(s) BY DEF WInv
<1> SUFFICES ASSUME NEW o \in Holder, NEW i \in 1 .. Len(t.heap[o].kids),
                    t.heap[o].kids[i].val \in Obj
             PROVE  Met(t, t.heap[o].kids[i].val)
  BY DEF KidsMet
<1> DEFINE kids == s.heap[o].kids
<1>1. kids \in Seq(Kid) /\ Len(kids) \in Nat BY <1>0, SnapshotTypes
<1>2. \A q \in Obj : Met(s, q) => Met(t, q) BY MetStays DEF Holder
<1>3. \A j \in 1 .. Len(kids) : kids[j].val \in Obj => Met(s, kids[j].val)
  BY <1>0 DEF KidsMet
<1>4. CASE t.heap[o].kids = kids BY <1>2, <1>3, <1>4
<1>5. ASSUME NEW v \in Obj \cup Scalars, v \in Obj => Met(t, v), s.stack # <<>>,
             t.heap[o].kids = Append(kids, [key |-> TopOf(s).key, val |-> v])
      PROVE  Met(t, t.heap[o].kids[i].val)
  <2> DEFINE k == [key |-> TopOf(s).key, val |-> v]
  <2>1. TopOf(s).key \in Names \cup {None} BY <1>0, <1>5, SnapshotTypes
  <2>2. k \in Kid /\ k.val = v BY <2>1 DEF Kid
  <2> HIDE DEF k, kids
  <2>3. /\ Len(Append(kids, k)) = Len(kids) + 1 /\ Append(kids, k)[Len(kids) + 1] = k
        /\ \A j \in 1 .. Len(kids) : Append(kids, k)[j] = kids[j]
    BY <1>1, <2>2, Appended
  <2>4. t.heap[o].kids = Append(kids, k) BY <1>5 DEF k, kids
  <2>5. i \in 1 .. Len(kids) \/ i = Len(kids) + 1 BY <1>1, <2>3, <2>4
  <2>6. CASE i \in 1 .. Len(kids)
    <3>1. t.heap[o].kids[i] = kids[i] BY <2>3, <2>4, <2>6
    <3> QED BY <1>2, <1>3, <2>6, <3>1
  <2>7. CASE i = Len(kids) + 1
    <3>1. t.heap[o].kids[i] = k BY <2>3, <2>4, <2>7
    <3> QED BY <1>5, <2>2, <3>1
  <2> QED BY <2>5, <2>6, <2>7
<1>6. CASE o \in Obj /\ News(s, t, o)
  <2>1. t.heap[o].kids = <<>> BY <1>6, GraphGrows
  <2> QED BY <2>1
<1>7. CASE ~(o \in Obj /\ News(s, t, o))
  <2>1. Kept(s, t, o) BY <1>7, GraphGrows
  <2> QED BY <1>4, <1>5, <2>1 DEF Kept
<1> QED BY <1>6, <1>7

LEMMA CachedMetKept ==
  ASSUME NEW s, WInv(s), NEW t, Typed(t), WStep(s, t)
  PROVE  CachedMet(t)
<1>0. Typed(s) /\ CachedMet(s) BY DEF WInv
<1> SUFFICES ASSUME NEW m \in {0, 3}, NEW o \in Obj, t.cache[m][o] # NotCached
             PROVE  Met(t, o) /\ t.cache[m][o] < t.index[m]
  BY DEF CachedMet
<1>1. s.index[m] \in Nat /\ t.index[m] \in Nat BY <1>0, SnapshotTypes
<1>2. s.cache[m][o] # NotCached => Met(s, o) /\ s.cache[m][o] < s.index[m] BY <1>0 DEF CachedMet
<1>3. Met(s, o) => Met(t, o) BY MetStays DEF Holder
<1>4. News(s, t, o) => Met(t, o) BY GraphGrows DEF Holder
<1>5. s.cache[m][o] \in Int /\ t.cache[m][o] \in Int BY <1>0, SnapshotTypes
<1>6. CASE SameTables(s, t) BY <1>2, <1>3, <1>6 DEF SameTables
<1>7. CASE \E p \in Obj :
             /\ News(s, t, p) /\ TopOf(s).m \in {0, 3}
             /\ \A n \in {0, 3}, q \in Obj :
                  t.cache[n][q] = IF n = TopOf(s).m /\ q = p THEN s.index[n] ELSE s.cache[n][q]
             /\ \A n \in {0, 3} :
                  t.index[n] = IF n = TopOf(s).m THEN s.index[n] + 1 ELSE s.index[n]
  <2>1. PICK p \in Obj :
             /\ News(s, t, p) /\ TopOf(s).m \in {0, 3}
             /\ \A n \in {0, 3}, q \in Obj :
                  t.cache[n][q] = IF n = TopOf(s).m /\ q = p THEN s.index[n] ELSE s.cache[n][q]
             /\ \A n \in {0, 3} :
                  t.index[n] = IF n = TopOf(s).m THEN s.index[n] + 1 ELSE s.index[n]
    BY <1>7
  <2>2. CASE m = TopOf(s).m /\ o = p BY <1>1, <1>4, <2>1, <2>2
  <2>3. CASE ~(m = TopOf(s).m /\ o = p)
    <3>1. t.cache[m][o] = s.cache[m][o] /\ s.index[m] <= t.index[m] BY <1>1, <2>1, <2>3
    <3> QED BY <1>1, <1>2, <1>3, <1>5, <3>1
  <2> QED BY <2>2, <2>3
<1> QED BY <1>6, <1>7, NewsOnce

LEMMA CountedKept ==
  ASSUME Faithful, NEW s, WInv(s), NEW t, Typed(t), WStep(s, t)
  PROVE  Counted(t)
<1> SUFFICES ASSUME ~Native PROVE t.index[0] <= Cardinality({o \in Obj : Met(t, o)})
  BY DEF Counted
<1> DEFINE K(x) == {o \in Obj : Met(x, o)}
<1>0. Typed(s) /\ s.index[0] <= Cardinality(K(s)) BY DEF WInv, Counted
<1>1. IsFiniteSet(Obj) BY DEF Faithful
<1>2. K(s) \subseteq Obj /\ K(t) \subseteq Obj OBVIOUS
<1>3. IsFiniteSet(K(s)) /\ IsFiniteSet(K(t))
  <2> HIDE DEF K
  <2> QED BY <1>1, <1>2, FS_Subset
<1>4. Cardinality(K(s)) \in Nat /\ Cardinality(K(t)) \in Nat
  <2> HIDE DEF K
  <2> QED BY <1>3, FS_CardinalityType
<1>5. K(s) \subseteq K(t) BY MetStays DEF Holder
<1>6. Cardinality(K(s)) <= Cardinality(K(t))
  <2> HIDE DEF K
  <2> QED BY <1>3, <1>5, FS_Subset
<1>7. s.index[0] \in Nat /\ t.index[0] \in Nat BY <1>0, SnapshotTypes
<1>8. CASE t.index[0] = s.index[0]
  <2> HIDE DEF K
  <2>1. t.index[0] <= Cardinality(K(t)) BY <1>0, <1>4, <1>6, <1>7, <1>8
  <2> QED BY <2>1 DEF K
<1>9. CASE t.index[0] # s.index[0]
  <2>1. PICK o \in Obj : News(s, t, o) /\ t.index[0] = s.index[0] + 1
    BY <1>9, NewsOnce DEF SameTables
  <2>2. o \in K(t) /\ o \notin K(s) BY <2>1, GraphGrows DEF Holder
  <2>3. Cardinality(K(s) \cup {o}) = Cardinality(K(s)) + 1
    <3> HIDE DEF K
    <3> QED BY <1>3, <2>2, FS_AddElement
  <2>4. K(s) \cup {o} \subseteq K(t) BY <1>5, <2>2
  <2>5. /\ Cardinality(K(s) \cup {o}) <= Cardinality(K(t))
    <3> HIDE DEF K
    <3> QED BY <1>3, <2>4, FS_Subset
  <2> HIDE DEF K
  <2>6. t.index[0] <= Cardinality(K(t)) BY <1>0, <1>4, <1>7, <2>1, <2>3, <2>5
  <2> QED BY <2>6 DEF K
<1> QED BY <1>8, <1>9

\* What a step does to the frame at the top, and above it.
LEMMA StackMoves ==
  ASSUME NEW s, WInv(s), NEW t, Typed(t), WStep(s, t)
  PROVE  /\ s.stack # <<>> /\ SameBelow(s, t)
         /\ \/ Serves(s, t) /\ Len(t.stack) = Len(s.stack) /\ SameTables(s, t) /\ t.switched = s.switched
            \/ /\ Serves(s, t) /\ Len(t.stack) = Len(s.stack) + 1 /\ t.switched = s.switched
               /\ LET f == t.stack[Len(s.stack) + 1]
                  IN  f.obj \in Obj /\ News(s, t, f.obj) /\ f.m = TopOf(s).m
            \/ Turns(s, t) /\ (Switches(s, t) \/ (\E k \in Names : WritesKey(s, t, k)) \/ Ends(s, t))
            \/ Len(t.stack) = Len(s.stack) - 1 /\ SameTables(s, t) /\ t.switched = s.switched
<1>1. CASE \E v \in Scalars : GivesScalar(s, t, v) BY <1>1, Zenon DEF GivesScalar, Serves
<1>2. CASE \E o \in Obj : GivesReference(s, t, o) BY <1>2, Zenon DEF GivesReference, Serves
<1>3. CASE \E o \in Obj, tok \in Token : GivesNew(s, t, o, tok)
  <2>1. PICK o \in Obj, tok \in Token : GivesNew(s, t, o, tok) BY <1>3
  <2>2. /\ Serves(s, t) /\ Len(t.stack) = Len(s.stack) + 1 /\ t.switched = s.switched
        /\ t.stack[Len(s.stack) + 1].obj = o /\ t.stack[Len(s.stack) + 1].m = TopOf(s).m
    BY <2>1, Zenon DEF GivesNew
  <2>3. News(s, t, o) BY <2>1 DEF News
  <2>4. s.stack # <<>> /\ SameBelow(s, t) BY <2>2, Zenon DEF Serves
  <2> QED BY <2>2, <2>3, <2>4
<1>4. CASE Switches(s, t) BY <1>4, Zenon DEF Switches, Turns
<1>5. CASE \E k \in Names : WritesKey(s, t, k) BY <1>5, Zenon DEF WritesKey, Turns
<1>6. CASE Ends(s, t) BY <1>6, Zenon DEF Ends, Turns
<1>7. CASE Returns(s, t) BY <1>7, Zenon DEF Returns
<1> QED BY <1>1, <1>2, <1>3, <1>4, <1>5, <1>6, <1>7 DEF WStep

LEMMA FramedKept ==
  ASSUME NEW s, WInv(s), NEW t, Typed(t), WStep(s, t)
  PROVE  Framed(t)
<1>0. Typed(s) /\ Framed(s) /\ InPart(s) /\ CachedMet(s) BY DEF WInv
<1> SUFFICES ASSUME NEW i \in 1 .. Len(t.stack)
             PROVE  Met(t, t.stack[i].obj) /\ (t.stack[i].m = 3 => t.switched = TRUE)
  BY DEF Framed
<1> DEFINE L == Len(s.stack)
<1>1. s.stack # <<>> /\ SameBelow(s, t) BY StackMoves
<1>2. L \in Nat \ {0} /\ Len(t.stack) \in Nat /\ L \in 1 .. L BY <1>0, <1>1, SnapshotTypes
<1>3. \A p \in Holder : Met(s, p) => Met(t, p) BY MetStays
<1>4. s.switched = TRUE => t.switched = TRUE BY MetStays
<1>5. \A j \in 1 .. L : /\ s.stack[j].obj \in Holder /\ Met(s, s.stack[j].obj)
                        /\ s.stack[j].m = 3 => s.switched = TRUE
  BY <1>0, SnapshotTypes DEF Framed
<1>6. CASE i < L
  <2>1. t.stack[i] = s.stack[i] /\ i \in 1 .. L BY <1>1, <1>2, <1>6 DEF SameBelow
  <2> QED BY <1>3, <1>4, <1>5, <2>1
<1>7. CASE i = L
  <2>1. TopOf(s) = s.stack[L] BY DEF TopOf
  <2>2. CASE Serves(s, t)
    <3>1. t.stack[L].obj = TopOf(s).obj /\ t.stack[L].m = OwnOf(s, TopOf(s))
      BY <2>2 DEF Serves, Served1
    <3>2. TopOf(s).obj \in Holder /\ s.index[3] \in Nat BY <1>0, <1>1, SnapshotTypes
    <3>3. OwnOf(s, TopOf(s)) = 3 => s.switched = TRUE
      <4> SUFFICES ASSUME OwnOf(s, TopOf(s)) = 3 PROVE s.switched = TRUE
        OBVIOUS
      <4>1. TopOf(s).obj \in Obj /\ s.cache[3][TopOf(s).obj] # NotCached
        BY <3>2 DEF OwnOf, Holder
      <4>2. s.cache[3][TopOf(s).obj] < s.index[3] BY <1>0, <4>1 DEF CachedMet
      <4>3. s.cache[3][TopOf(s).obj] \in Nat BY <1>0, <4>1, SnapshotTypes
      <4>4. s.index[3] # 0 BY <3>2, <4>2, <4>3
      <4> QED BY <1>0, <4>4 DEF InPart, Typed
    <3> QED BY <1>2, <1>3, <1>4, <1>5, <1>7, <2>1, <3>1, <3>3
  <2>3. CASE Turns(s, t) /\ (Switches(s, t) \/ (\E k \in Names : WritesKey(s, t, k)) \/ Ends(s, t))
    <3>1. TopOf(t) = t.stack[L] /\ TopOf(t).obj = TopOf(s).obj BY <2>3 DEF Turns, TopOf
    <3>2. CASE Switches(s, t) BY <1>2, <1>3, <1>5, <1>7, <2>1, <3>1, <3>2 DEF Switches
    <3>3. CASE (\E k \in Names : WritesKey(s, t, k)) \/ Ends(s, t)
      <4>1. TopOf(t).m = TopOf(s).m BY <3>3 DEF WritesKey, Ends
      <4> QED BY <1>2, <1>3, <1>4, <1>5, <1>7, <2>1, <3>1, <4>1
    <3> QED BY <2>3, <3>2, <3>3
  <2>4. CASE Len(t.stack) = L - 1 BY <1>2, <1>7, <2>4
  <2> QED BY <2>2, <2>3, <2>4, StackMoves
<1>8. CASE i > L
  <2>1. Len(t.stack) = L + 1 /\ i = L + 1 BY <1>2, <1>8, StackMoves DEF Turns
  <2>2. /\ t.stack[i].obj \in Obj /\ News(s, t, t.stack[i].obj) /\ t.stack[i].m = TopOf(s).m
    BY <1>2, <2>1, StackMoves DEF Turns
  <2>3. Met(t, t.stack[i].obj) BY <2>2, GraphGrows DEF Holder
  <2>4. TopOf(s).m = 3 => s.switched = TRUE BY <1>2, <1>5 DEF TopOf
  <2> QED BY <1>4, <2>2, <2>3, <2>4
<1>9. i < L \/ i = L \/ i > L BY <1>2
<1> QED BY <1>6, <1>7, <1>8, <1>9

LEMMA RootOnceKept ==
  ASSUME NEW s, WInv(s), NEW t, Typed(t), WStep(s, t)
  PROVE  RootOnce(t)
<1>0. Typed(s) /\ RootOnce(s) BY DEF WInv
<1> SUFFICES ASSUME NEW i \in 1 .. Len(t.stack), t.stack[i].obj = Root
             PROVE  /\ i = 1 /\ t.stack[i].props = FALSE /\ t.stack[i].left <= 1
                    /\ t.stack[i].left > 0 =>
                         Len(t.stack) = 1 /\ t.index[0] = 0 /\ t.index[3] = 0
  BY DEF RootOnce
<1> DEFINE L == Len(s.stack)
<1>1. s.stack # <<>> /\ SameBelow(s, t) BY StackMoves
<1>2. L \in Nat \ {0} /\ Len(t.stack) \in Nat /\ L \in 1 .. L BY <1>0, <1>1, SnapshotTypes
<1>3. \A j \in 1 .. L : s.stack[j].left \in Nat BY <1>0, SnapshotTypes
<1>4. \A j \in 1 .. L : s.stack[j].obj = Root =>
        /\ j = 1 /\ s.stack[j].props = FALSE /\ s.stack[j].left <= 1
        /\ s.stack[j].left > 0 => L = 1 /\ s.index[0] = 0 /\ s.index[3] = 0
  BY <1>0 DEF RootOnce
<1>5. CASE i < L
  <2>1. t.stack[i] = s.stack[i] /\ i \in 1 .. L BY <1>1, <1>2, <1>5 DEF SameBelow
  <2>2. s.stack[i].left = 0 BY <1>2, <1>3, <1>4, <1>5, <2>1
  <2> QED BY <1>4, <2>1, <2>2
<1>6. CASE i = L
  <2>1. TopOf(s) = s.stack[L] BY DEF TopOf
  <2>2. CASE Serves(s, t)
    <3>1. /\ TopOf(s).left > 0 /\ t.stack[L].obj = TopOf(s).obj
          /\ t.stack[L].left = TopOf(s).left - 1 /\ t.stack[L].props = TopOf(s).props
      BY <2>2 DEF Serves, Served1
    <3>2. s.stack[L].obj = Root BY <1>6, <2>1, <3>1
    <3>3. L = 1 /\ s.stack[L].props = FALSE /\ s.stack[L].left <= 1 /\ s.stack[L].left \in Nat
      BY <1>2, <1>3, <1>4, <3>2
    <3>4. t.stack[L].left = 0 BY <2>1, <3>1, <3>3
    <3>5. t.stack[L].props = FALSE BY <2>1, <3>1, <3>3, Zenon
    <3> QED BY <1>6, <3>3, <3>4, <3>5
  <2>3. CASE Turns(s, t) /\ (Switches(s, t) \/ (\E k \in Names : WritesKey(s, t, k)) \/ Ends(s, t))
    <3>1. TopOf(t) = t.stack[L] /\ TopOf(t).obj = TopOf(s).obj /\ SameTables(s, t) /\ Len(t.stack) = L
      BY <2>3 DEF Turns, TopOf
    <3>2. s.stack[L].obj = Root BY <1>6, <2>1, <3>1
    <3>3. /\ L = 1 /\ s.stack[L].props = FALSE /\ s.stack[L].left <= 1
          /\ s.stack[L].left > 0 => s.index[0] = 0 /\ s.index[3] = 0
      BY <1>2, <1>4, <3>2
    <3>4. CASE Switches(s, t)
      <4>1. t.stack[L].left = s.stack[L].left BY <2>1, <3>1, <3>4 DEF Switches
      <4>2. t.stack[L].props = FALSE BY <2>1, <3>1, <3>3, <3>4, Zenon DEF Switches
      <4>3. t.index = s.index BY <3>1 DEF SameTables
      <4> QED BY <1>6, <3>1, <3>3, <4>1, <4>2, <4>3
    <3>5. ~(\E k \in Names : WritesKey(s, t, k)) /\ ~Ends(s, t)
      BY <2>1, <3>3, Zenon DEF WritesKey, Ends
    <3> QED BY <2>3, <3>4, <3>5
  <2>4. CASE Len(t.stack) = L - 1 BY <1>2, <1>6, <2>4
  <2> QED BY <2>2, <2>3, <2>4, StackMoves
<1>7. CASE i > L
  <2>1. Len(t.stack) = L + 1 /\ i = L + 1 BY <1>2, <1>7, StackMoves DEF Turns
  <2>2. t.stack[i].obj \in Obj BY <1>2, <2>1, StackMoves DEF Turns
  <2> QED BY <2>2, WriterAssumption
<1>8. i < L \/ i = L \/ i > L BY <1>2
<1> QED BY <1>5, <1>6, <1>7, <1>8

LEMMA InPartKept ==
  ASSUME Faithful, NEW s, WInv(s), NEW t, Typed(t), WStep(s, t)
  PROVE  InPart(t)
<1>0. Typed(s) /\ Framed(s) /\ InPart(s) /\ CachedMet(s) /\ RootOnce(s) BY DEF WInv
<1> DEFINE L == Len(s.stack)
<1>1. s.stack # <<>> /\ SameBelow(s, t) /\ TopOf(s) = s.stack[L] BY StackMoves DEF TopOf
<1>2. /\ L \in Nat \ {0} /\ Len(t.stack) \in Nat /\ L \in 1 .. L
      /\ s.index[0] \in Nat /\ s.index[3] \in Nat
  BY <1>0, <1>1, SnapshotTypes
<1>3. s.switched \in BOOLEAN /\ t.switched \in BOOLEAN BY <1>0 DEF Typed
<1>4. s.switched = TRUE => t.switched = TRUE BY MetStays
<1>5. \/ SameTables(s, t)
      \/ /\ t.switched = s.switched /\ TopOf(s).left > 0 /\ TopOf(s).m \in {0, 3}
         /\ \A m \in {0, 3} : t.index[m] = IF m = TopOf(s).m THEN s.index[m] + 1 ELSE s.index[m]
  BY NewsOnce
<1>6. ASSUME t.switched = FALSE PROVE t.index[3] = 0
  <2>1. s.switched = FALSE BY <1>3, <1>4, <1>6
  <2>2. s.index[3] = 0 BY <1>0, <2>1 DEF InPart
  <2>3. TopOf(s).m # 3 BY <1>0, <1>1, <1>2, <2>1 DEF Framed
  <2> QED BY <1>5, <2>2, <2>3 DEF SameTables
<1>7. ASSUME Native, t.switched = TRUE, s.switched = TRUE
      PROVE  /\ t.index[0] = 0
             /\ \A i \in 1 .. Len(t.stack) : Active(t.stack[i]) =>
                  /\ t.stack[i].m = 3
                  /\ t.stack[i].obj # Root => OwnOf(t, t.stack[i]) = 3
  <2>1. /\ s.index[0] = 0
        /\ \A i \in 1 .. L : Active(s.stack[i]) =>
             /\ s.stack[i].m = 3
             /\ s.stack[i].obj # Root => OwnOf(s, s.stack[i]) = 3
    BY <1>0, <1>7 DEF InPart
  <2>2. TopOf(s).left > 0 => TopOf(s).m = 3 BY <1>1, <1>2, <2>1 DEF Active
  <2>3. t.index[0] = 0 BY <1>5, <2>1, <2>2 DEF SameTables
  <2>4. \A i \in 1 .. L : Met(s, s.stack[i].obj) /\ s.stack[i].obj \in Holder
    BY <1>0, SnapshotTypes DEF Framed
  <2>5. ASSUME NEW f, NEW g, f.obj \in Holder, Met(s, f.obj), g.obj = f.obj
        PROVE  OwnOf(t, g) = OwnOf(s, f)
    <3>0. \A o \in Obj : Met(s, o) => t.cache[3][o] = s.cache[3][o] BY MetStays
    <3>1. f.obj \in Obj => t.cache[3][f.obj] = s.cache[3][f.obj] BY <2>5, <3>0
    <3> QED BY <2>5, <3>1 DEF OwnOf, Holder
  <2>6. ASSUME NEW i \in 1 .. Len(t.stack), Active(t.stack[i])
        PROVE  /\ t.stack[i].m = 3
               /\ t.stack[i].obj # Root => OwnOf(t, t.stack[i]) = 3
    <3>1. CASE i < L
      <4>1. i \in 1 .. L /\ t.stack[i] = s.stack[i] BY <1>1, <1>2, <3>1 DEF SameBelow
      <4>2. Active(s.stack[i]) BY <2>6, <4>1
      <4>3. OwnOf(t, t.stack[i]) = OwnOf(s, s.stack[i]) BY <2>4, <2>5, <4>1
      <4> QED BY <2>1, <4>1, <4>2, <4>3
    <3>2. CASE i = L
      <4>1. CASE Serves(s, t)
        <5>1. /\ TopOf(s).left > 0 /\ t.stack[L].obj = TopOf(s).obj
              /\ t.stack[L].left = TopOf(s).left - 1 /\ t.stack[L].props = TopOf(s).props
              /\ t.stack[L].m = OwnOf(s, TopOf(s))
          BY <4>1 DEF Serves, Served1
        <5>2. OwnOf(t, t.stack[L]) = OwnOf(s, s.stack[L]) BY <1>1, <1>2, <2>4, <2>5, <5>1
        <5>3. Active(s.stack[L]) BY <1>1, <5>1 DEF Active
        <5>4. s.stack[L].obj # Root
          <6> SUFFICES ASSUME s.stack[L].obj = Root PROVE FALSE
            OBVIOUS
          <6>1. s.stack[L].props = FALSE /\ s.stack[L].left <= 1 /\ s.stack[L].left \in Nat
            BY <1>0, <1>2, SnapshotTypes DEF RootOnce
          <6>2. t.stack[L].props = FALSE /\ ~(t.stack[L].left > 0) BY <1>1, <5>1, <6>1
          <6> QED BY <2>6, <3>2, <6>2 DEF Active
        <5>5. OwnOf(s, s.stack[L]) = 3 BY <1>2, <2>1, <5>3, <5>4
        <5> QED BY <1>1, <3>2, <5>1, <5>2, <5>5
      <4>2. CASE Turns(s, t) /\ (Switches(s, t) \/ (\E k \in Names : WritesKey(s, t, k)) \/ Ends(s, t))
        <5>1. TopOf(t) = t.stack[L] /\ TopOf(t).obj = TopOf(s).obj BY <4>2 DEF Turns, TopOf
        <5>2. ~Switches(s, t) BY <1>7 DEF Switches
        <5>3. ~Ends(s, t)
          <6> SUFFICES ASSUME Ends(s, t) PROVE FALSE
            OBVIOUS
          <6>1. t.stack[L].left = 0 /\ t.stack[L].props = FALSE BY <5>1 DEF Ends
          <6> QED BY <2>6, <3>2, <6>1 DEF Active
        <5>4. PICK k \in Names : WritesKey(s, t, k) BY <4>2, <5>2, <5>3
        <5>5. s.stack[L].props = TRUE /\ t.stack[L].m = s.stack[L].m
          BY <1>1, <5>1, <5>4 DEF WritesKey
        <5>6. Active(s.stack[L]) BY <5>5 DEF Active
        <5>7. OwnOf(t, t.stack[L]) = OwnOf(s, s.stack[L]) BY <1>1, <1>2, <2>4, <2>5, <5>1
        <5> QED BY <1>1, <1>2, <2>1, <3>2, <5>1, <5>5, <5>6, <5>7
      <4>3. CASE Len(t.stack) = L - 1 BY <1>2, <3>2, <4>3
      <4> QED BY <4>1, <4>2, <4>3, StackMoves
    <3>3. CASE i > L
      <4>1. Len(t.stack) = L + 1 /\ i = L + 1 /\ Serves(s, t)
        BY <1>2, <3>3, StackMoves DEF Turns
      <4>2. t.stack[i].obj \in Obj /\ News(s, t, t.stack[i].obj) /\ t.stack[i].m = TopOf(s).m
        BY <1>2, <4>1, StackMoves DEF Turns
      <4>3. t.stack[i].m = 3 BY <2>2, <4>1, <4>2 DEF Serves
      <4>4. t.cache[3][t.stack[i].obj] = s.index[3] BY <4>2, <4>3 DEF News, GivesNew
      <4>5. OwnOf(t, t.stack[i]) = 3 BY <1>2, <4>2, <4>4, WriterAssumption DEF OwnOf
      <4> QED BY <4>3, <4>5
    <3>4. i < L \/ i = L \/ i > L BY <1>2
    <3> QED BY <3>1, <3>2, <3>3, <3>4
  <2> QED BY <2>3, <2>6
<1>8. ASSUME Native, t.switched = TRUE, s.switched = FALSE
      PROVE  /\ t.index[0] = 0
             /\ \A i \in 1 .. Len(t.stack) : Active(t.stack[i]) =>
                  /\ t.stack[i].m = 3
                  /\ t.stack[i].obj # Root => OwnOf(t, t.stack[i]) = 3
  <2>1. Switches(s, t)
    <3>1. t.switched # s.switched BY <1>8
    <3> QED BY <3>1, Zenon
            DEF WStep, GivesScalar, GivesReference, GivesNew, WritesKey, Ends, Returns
  <2>2. TopOf(s).obj = Root /\ TopOf(s).left > 0 BY <1>8, <2>1 DEF Switches, Faithful
  <2>3. L = 1 /\ s.index[0] = 0 BY <1>0, <1>1, <1>2, <2>2 DEF RootOnce
  <2>4. /\ Len(t.stack) = 1 /\ TopOf(t).obj = Root /\ TopOf(t).m = 3 /\ TopOf(t) = t.stack[1]
        /\ t.index = s.index
    BY <2>1, <2>2, <2>3 DEF Switches, Turns, TopOf, SameTables
  <2> QED BY <2>3, <2>4
<1> QED BY <1>3, <1>6, <1>7, <1>8 DEF InPart

LEMMA StepKeeps ==
  ASSUME Faithful, NEW s, WInv(s), NEW t, Typed(t), WStep(s, t)
  PROVE  WInv(t)
BY NumberedKept, KidsMetKept, CachedMetKept, FramedKept, RootOnceKept, InPartKept, CountedKept
   DEF WInv

-----------------------------------------------------------------------------
(***************************************************************************)
(* What a later snapshot has in common with an earlier one.                *)
(***************************************************************************)
Extends(u, v) == Len(u) <= Len(v) /\ \A i \in 1 .. Len(u) : v[i] = u[i]

Later(s, t, o) ==
  IF Met(s, o)
  THEN /\ t.heap[o].kind = s.heap[o].kind /\ t.heap[o].cls = s.heap[o].cls
       /\ t.heap[o].nth = s.heap[o].nth
       /\ Extends(s.heap[o].kids, t.heap[o].kids)
  ELSE t.heap[o].nth = 0 \/ t.heap[o].nth > s.met

LaterIndex(s, t, m, o) ==
  IF s.cache[m][o] # NotCached
  THEN t.cache[m][o] = s.cache[m][o]
  ELSE t.cache[m][o] = NotCached \/ t.cache[m][o] >= s.index[m]

Earlier(s, t) ==
  /\ Extends(s.stream, t.stream)
  /\ s.met <= t.met /\ \A m \in {0, 3} : s.index[m] <= t.index[m]
  /\ \A o \in Holder : Later(s, t, o)
  /\ \A m \in {0, 3}, o \in Obj : LaterIndex(s, t, m, o)

LEMMA ExtendsTransitive ==
  ASSUME NEW S, NEW u \in Seq(S), NEW v \in Seq(S), NEW w \in Seq(S), Extends(u, v), Extends(v, w)
  PROVE  Extends(u, w)
<1>1. Len(u) \in Nat /\ Len(v) \in Nat /\ Len(w) \in Nat BY Elements
<1> QED BY <1>1 DEF Extends

LEMMA EarlierTransitive ==
  ASSUME NEW s, NEW t, NEW u, Typed(s), Typed(t), Typed(u), Earlier(s, t), Earlier(t, u)
  PROVE  Earlier(s, u)
<1>1. Extends(s.stream, u.stream)
  <2>1. Extends(s.stream, t.stream) /\ Extends(t.stream, u.stream) BY DEF Earlier
  <2>2. s.stream \in Seq(Token) /\ t.stream \in Seq(Token) /\ u.stream \in Seq(Token)
    BY DEF Typed
  <2> QED BY <2>1, <2>2, ExtendsTransitive
<1>2. s.met \in Nat /\ t.met \in Nat /\ u.met \in Nat BY DEF Typed
<1>3. s.met <= u.met BY <1>2 DEF Earlier
<1>4. ASSUME NEW m \in {0, 3} PROVE s.index[m] <= u.index[m]
  <2>1. s.index[m] \in Nat /\ t.index[m] \in Nat /\ u.index[m] \in Nat BY SnapshotTypes
  <2> QED BY <2>1 DEF Earlier
<1>5. ASSUME NEW o \in Holder PROVE Later(s, u, o)
  <2>1. Later(s, t, o) /\ Later(t, u, o) BY DEF Earlier
  <2>2. /\ s.heap[o].kids \in Seq(Kid) /\ t.heap[o].kids \in Seq(Kid) /\ u.heap[o].kids \in Seq(Kid)
        /\ t.heap[o].nth \in Nat /\ u.heap[o].nth \in Nat
    BY SnapshotTypes
  <2>3. CASE Met(s, o)
    <3>1. Met(t, o) BY <2>1, <2>3 DEF Later, Met
    <3>2. Extends(s.heap[o].kids, t.heap[o].kids) /\ Extends(t.heap[o].kids, u.heap[o].kids)
      BY <2>1, <2>3, <3>1 DEF Later
    <3>3. Extends(s.heap[o].kids, u.heap[o].kids) BY <2>2, <3>2, ExtendsTransitive
    <3> QED BY <2>1, <2>3, <3>1, <3>3 DEF Later
  <2>4. CASE ~Met(s, o)
    <3>1. s.met <= t.met BY DEF Earlier
    <3>2. t.heap[o].nth = 0 \/ t.heap[o].nth > s.met BY <2>1, <2>4 DEF Later
    <3>3. u.heap[o].nth = t.heap[o].nth \/ u.heap[o].nth = 0 \/ u.heap[o].nth > t.met
      BY <2>1 DEF Later
    <3>4. u.heap[o].nth = 0 \/ u.heap[o].nth > s.met BY <1>2, <2>2, <3>1, <3>2, <3>3
    <3> QED BY <2>4, <3>4 DEF Later
  <2> QED BY <2>3, <2>4
<1>6. ASSUME NEW m \in {0, 3}, NEW o \in Obj PROVE LaterIndex(s, u, m, o)
  <2>1. LaterIndex(s, t, m, o) /\ LaterIndex(t, u, m, o) /\ s.index[m] <= t.index[m] BY DEF Earlier
  <2>2. /\ s.index[m] \in Nat /\ t.index[m] \in Nat
        /\ s.cache[m][o] \in Int /\ t.cache[m][o] \in Int /\ u.cache[m][o] \in Int
    BY SnapshotTypes
  <2> QED BY <2>1, <2>2 DEF LaterIndex
<1> QED BY <1>1, <1>3, <1>4, <1>5, <1>6 DEF Earlier

LEMMA StepEarlier ==
  ASSUME NEW s, WInv(s), NEW t, Typed(t), WStep(s, t)
  PROVE  Earlier(s, t)
<1>0. Typed(s) /\ Numbered(s) /\ CachedMet(s) BY DEF WInv
<1>1. Extends(s.stream, t.stream)
  <2>1. s.stream \in Seq(Token) /\ Len(s.stream) \in Nat BY <1>0, SnapshotTypes
  <2>2. \/ \E tok \in Token : t.stream = Append(s.stream, tok)
        \/ t.stream = s.stream \o <<KeyTok(Empty), EndTok>>
        \/ t.stream = s.stream
    <3>1. CASE \E v \in Scalars : GivesScalar(s, t, v)
      <4>1. PICK v \in Scalars : GivesScalar(s, t, v) BY <3>1
      <4>2. TopOf(s).m \in {0, 3} BY <1>0, <4>1, SnapshotTypes DEF GivesScalar, Serves
      <4> QED BY <4>1, <4>2, TokenTypes DEF GivesScalar, Says
    <3>2. CASE \E o \in Obj : GivesReference(s, t, o)
      <4>1. PICK o \in Obj : GivesReference(s, t, o) BY <3>2
      <4>2. TopOf(s).m \in {0, 3} BY <1>0, <4>1, SnapshotTypes DEF GivesReference, Serves
      <4>3. s.cache[TopOf(s).m][o] \in Nat BY <1>0, <4>1, <4>2, SnapshotTypes DEF GivesReference
      <4> QED BY <4>1, <4>2, <4>3, TokenTypes DEF GivesReference, Says
    <3>3. CASE \E o \in Obj, tok \in Token : GivesNew(s, t, o, tok) BY <3>3 DEF GivesNew, Says
    <3>4. CASE Switches(s, t) BY <3>4, TokenTypes DEF Switches, Says
    <3>5. CASE \E k \in Names : WritesKey(s, t, k) BY <3>5, TokenTypes DEF WritesKey, Says
    <3>6. CASE Ends(s, t) BY <3>6 DEF Ends
    <3>7. CASE Returns(s, t) BY <3>7 DEF Returns
    <3> QED BY <3>1, <3>2, <3>3, <3>4, <3>5, <3>6, <3>7 DEF WStep
  <2>3. CASE \E tok \in Token : t.stream = Append(s.stream, tok)
    BY <2>1, <2>3, Appended DEF Extends
  <2>4. CASE t.stream = s.stream \o <<KeyTok(Empty), EndTok>>
    <3>1. KeyTok(Empty) \in Token /\ EndTok \in Token BY TokenTypes, StreamAssumption
    <3> QED BY <2>1, <2>4, <3>1, TwoMore DEF Extends
  <2>5. CASE t.stream = s.stream BY <2>1, <2>5 DEF Extends
  <2> QED BY <2>2, <2>3, <2>4, <2>5
<1>2. s.met \in Nat /\ \A m \in {0, 3} : s.index[m] \in Nat BY <1>0, SnapshotTypes
<1>3. s.met <= t.met BY <1>2, NewsOnce
<1>4. \A m \in {0, 3} : s.index[m] <= t.index[m] BY <1>2, NewsOnce DEF SameTables
<1>5. ASSUME NEW o \in Holder PROVE Later(s, t, o)
  <2>1. CASE o \in Obj /\ News(s, t, o)
    <3>1. ~Met(s, o) /\ t.heap[o].nth = s.met + 1 BY <2>1, GraphGrows
    <3> QED BY <1>2, <3>1 DEF Later
  <2>2. CASE ~(o \in Obj /\ News(s, t, o))
    <3>1. Kept(s, t, o) BY <2>2, GraphGrows
    <3>2. Extends(s.heap[o].kids, t.heap[o].kids)
      <4>1. s.heap[o].kids \in Seq(Kid) /\ Len(s.heap[o].kids) \in Nat BY <1>0, SnapshotTypes
      <4>2. CASE t.heap[o].kids = s.heap[o].kids BY <4>1, <4>2 DEF Extends
      <4>3. ASSUME NEW v \in Obj \cup Scalars, s.stack # <<>>,
                   t.heap[o].kids = Append(s.heap[o].kids, [key |-> TopOf(s).key, val |-> v])
            PROVE  Extends(s.heap[o].kids, t.heap[o].kids)
        <5> DEFINE k == [key |-> TopOf(s).key, val |-> v]
        <5>1. TopOf(s).key \in Names \cup {None} BY <1>0, <4>3, SnapshotTypes
        <5>2. k \in Kid BY <5>1 DEF Kid
        <5>3. t.heap[o].kids = Append(s.heap[o].kids, k) BY <4>3
        <5> HIDE DEF k
        <5> QED BY <4>1, <5>2, <5>3, Appended DEF Extends
      <4> QED BY <3>1, <4>2, <4>3 DEF Kept
    <3>3. ~Met(s, o) => s.heap[o].nth = 0 BY <1>0 DEF Numbered
    <3> QED BY <3>1, <3>2, <3>3 DEF Later, Kept
  <2> QED BY <2>1, <2>2
<1>6. ASSUME NEW m \in {0, 3}, NEW o \in Obj PROVE LaterIndex(s, t, m, o)
  <2>1. s.cache[m][o] # NotCached => t.cache[m][o] = s.cache[m][o]
    BY <1>0, MetStays DEF CachedMet
  <2>2. s.cache[m][o] = NotCached => t.cache[m][o] = NotCached \/ t.cache[m][o] = s.index[m]
    BY NewsOnce DEF SameTables
  <2> QED BY <1>2, <2>1, <2>2 DEF LaterIndex
<1> QED BY <1>1, <1>3, <1>4, <1>5, <1>6 DEF Earlier

LEMMA EarlierItself == ASSUME NEW s, WInv(s) PROVE Earlier(s, s)
<1>1. Typed(s) /\ Numbered(s) BY DEF WInv
<1>2. /\ s.met \in Nat /\ Len(s.stream) \in Nat /\ \A m \in {0, 3} : s.index[m] \in Nat
      /\ \A o \in Holder : Len(s.heap[o].kids) \in Nat
  BY <1>1, SnapshotTypes
<1>3. \A o \in Holder : Later(s, s, o) BY <1>1, <1>2 DEF Later, Numbered, Extends
<1> QED BY <1>2, <1>3 DEF Earlier, Extends, LaterIndex

-----------------------------------------------------------------------------
(***************************************************************************)
(* A state of the reader matches the snapshot the writer left when it had  *)
(* written the tokens that are read by now.                                *)
(***************************************************************************)
Decode(s, v) == IF v \in Obj THEN s.heap[v].nth ELSE v

\* What the reader made of an object.
NodeMatches(s, w, r) ==
  /\ r.kind = w.kind /\ r.cls = w.cls
  /\ Len(r.kids) = Len(w.kids)
  /\ \A i \in 1 .. Len(w.kids) :
       r.kids[i].key = w.kids[i].key /\ r.kids[i].val = Decode(s, w.kids[i].val)
MadeMatches(s, nodes) ==
  /\ Len(nodes) = s.met
  /\ \A o \in Holder : Met(s, o) => NodeMatches(s, s.heap[o], nodes[s.heap[o].nth])

\* A read function and the write function of the same object.
FrameMatches(s, f, r) ==
  /\ r.node = s.heap[f.obj].nth
  /\ r.m = OwnOf(s, f) /\ f.m = IF r.switched = TRUE THEN 3 ELSE r.m
  /\ r.left = f.left /\ r.props = f.props /\ r.key = f.key
FramesMatch(s, frames) ==
  /\ Len(frames) = Len(s.stack)
  /\ \A i \in 1 .. Len(s.stack) : FrameMatches(s, s.stack[i], frames[i])

\* The tables have as many entries as the writer gave indexes, and under an
\* index the same object.
LengthsMatch(s, tabs) ==
  IF Native
  THEN Len(tabs["objects"]) = s.index[0] + s.index[3]
  ELSE Len(tabs["refs"]) = s.index[0] /\ Len(tabs["objects"]) = s.index[3]
EntryMatches(s, tabs, m, o) ==
  s.cache[m][o] # NotCached =>
    /\ s.cache[m][o] + 1 \in 1 .. Len(tabs[TableFor(m)])
    /\ tabs[TableFor(m)][s.cache[m][o] + 1] = s.heap[o].nth
TablesMatch(s, tabs) ==
  LengthsMatch(s, tabs) /\ \A m \in {0, 3}, o \in Obj : EntryMatches(s, tabs, m, o)

Matches(s) ==
  /\ pos = Len(s.stream) + 1 /\ pos <= Len(stream) + 1
  /\ FramesMatch(s, rstack)
  /\ MadeMatches(s, made)
  /\ TablesMatch(s, objTab)

Tables == [{"refs", "objects"} -> Seq(Nat)]
Nodes == Seq(ReadNode)

LEMMA OwnStays ==
  ASSUME NEW s, WInv(s), NEW t, Typed(t), WStep(s, t)
  PROVE  \A f \in Frame, g \in Frame :
           Met(s, f.obj) /\ g.obj = f.obj => OwnOf(t, g) = OwnOf(s, f)
<1> TAKE f \in Frame, g \in Frame
<1>0. \A o \in Obj : Met(s, o) => t.cache[3][o] = s.cache[3][o] BY MetStays
<1>1. f.obj \in Holder BY FrameChanges
<1> QED BY <1>0, <1>1 DEF OwnOf, Holder

\* A function below the top goes on as if nothing had happened.
LEMMA FrameStays ==
  ASSUME NEW s, WInv(s), NEW t, Typed(t), WStep(s, t), NEW f \in Frame, Met(s, f.obj),
         NEW r, FrameMatches(s, f, r)
  PROVE  FrameMatches(t, f, r)
<1>1. OwnOf(t, f) = OwnOf(s, f) BY OwnStays
<1>2. f.obj \in Holder BY FrameChanges
<1>3. t.heap[f.obj].nth = s.heap[f.obj].nth BY <1>2, NumberStays
<1> QED BY <1>1, <1>3 DEF FrameMatches

\* The table of a version has as many entries as the writer gave indexes in it.
LEMMA TableLength ==
  ASSUME Faithful, NEW s, WInv(s), s.stack # <<>>, TopOf(s).left > 0,
         NEW tabs \in Tables, LengthsMatch(s, tabs)
  PROVE  /\ Len(tabs[TableFor(TopOf(s).m)]) = s.index[TopOf(s).m]
         /\ Native => s.index[3 - TopOf(s).m] = 0
<1> DEFINE f == TopOf(s)
<1>1. /\ f.m \in {0, 3} /\ Len(s.stack) \in 1 .. Len(s.stack) /\ f = s.stack[Len(s.stack)]
      /\ s.index[0] \in Nat /\ s.index[3] \in Nat
  BY SnapshotTypes DEF WInv, TopOf
<1>2. Active(f) BY DEF Active
<1>3. /\ f.m = 3 => s.switched = TRUE
      /\ Native /\ s.switched = TRUE => s.index[0] = 0 /\ f.m = 3
  BY <1>1, <1>2 DEF WInv, Framed, InPart
<1>4. s.switched \in BOOLEAN /\ (s.switched = FALSE => s.index[3] = 0) BY DEF WInv, InPart, Typed
<1> HIDE DEF f
<1>5. CASE f.m = 3
  <2>1. TableFor(f.m) = "objects" BY <1>5 DEF TableFor
  <2>2. Native => s.index[0] = 0 BY <1>3, <1>5
  <2>3. Len(tabs[TableFor(f.m)]) = s.index[f.m] /\ (Native => s.index[3 - f.m] = 0)
    BY <1>1, <1>5, <2>1, <2>2 DEF LengthsMatch
  <2> QED BY <2>3 DEF f
<1>6. CASE f.m = 0
  <2>1. TableFor(f.m) = IF Native THEN "objects" ELSE "refs" BY <1>6 DEF TableFor
  <2>2. Native => s.index[3] = 0 BY <1>3, <1>4, <1>6
  <2>3. Len(tabs[TableFor(f.m)]) = s.index[f.m] /\ (Native => s.index[3 - f.m] = 0)
    BY <1>1, <1>6, <2>1, <2>2 DEF LengthsMatch
  <2> QED BY <2>3 DEF f
<1> QED BY <1>1, <1>5, <1>6

-----------------------------------------------------------------------------
(***************************************************************************)
(* The parts of a step of the reader.                                      *)
(***************************************************************************)

\* b is a with the value v in the node of the function f.
StoredIn(a, b, f, v) ==
  \A i \in 1 .. Len(a) :
    /\ b[i].kind = a[i].kind /\ b[i].cls = a[i].cls
    /\ b[i].kids = IF i = f.node THEN Append(a[i].kids, [key |-> f.key, val |-> v])
                                 ELSE a[i].kids

LEMMA NodeGrows ==
  ASSUME NEW s, WInv(s), NEW t, WInv(t), WStep(s, t), s.stack # <<>>,
         NEW a \in Nodes, MadeMatches(s, a), NEW b,
         NEW f \in ReadFrame, FrameMatches(s, TopOf(s), f),
         NEW v \in Obj \cup Scalars, StoredIn(a, b, f, Decode(t, v)), Decode(t, v) \in ReaderValue,
         NEW o \in Holder, Met(s, o), Stores(s, t, v, o)
  PROVE  NodeMatches(t, t.heap[o], b[t.heap[o].nth])
<1>0. Typed(s) /\ Numbered(s) /\ KidsMet(s) /\ Framed(s) /\ Typed(t) BY DEF WInv
<1> DEFINE n == s.heap[o].nth
           p == TopOf(s).obj
<1>1. n \in 1 .. Len(a) BY <1>0 DEF Numbered, MadeMatches
<1>2. p \in Holder /\ Met(s, p) /\ TopOf(s).key \in Names \cup {None}
  BY <1>0, SnapshotTypes DEF Framed, TopOf
<1>3. n = f.node <=> o = p BY <1>0, <1>2 DEF Numbered, FrameMatches
<1>4. a[n] \in ReadNode BY <1>1, Elements DEF Nodes
<1>5. a[n].kids \in Seq(ReadKid) /\ s.heap[o].kids \in Seq(Kid) /\ Len(s.heap[o].kids) \in Nat
  BY <1>0, <1>4, SnapshotTypes DEF ReadNode
<1>6. /\ a[n].kind = s.heap[o].kind /\ a[n].cls = s.heap[o].cls /\ Len(a[n].kids) = Len(s.heap[o].kids)
      /\ \A i \in 1 .. Len(s.heap[o].kids) :
           /\ a[n].kids[i].key = s.heap[o].kids[i].key
           /\ a[n].kids[i].val = Decode(s, s.heap[o].kids[i].val)
  BY DEF MadeMatches, NodeMatches
<1>7. \A i \in 1 .. Len(s.heap[o].kids) :
        Decode(t, s.heap[o].kids[i].val) = Decode(s, s.heap[o].kids[i].val)
  <2> TAKE i \in 1 .. Len(s.heap[o].kids)
  <2>1. s.heap[o].kids[i].val \in Obj => Met(s, s.heap[o].kids[i].val) BY <1>0 DEF KidsMet
  <2>2. \A q \in Obj : Met(s, q) => t.heap[q].nth = s.heap[q].nth BY <1>0, NumberStays DEF Holder
  <2> QED BY <2>1, <2>2 DEF Decode
<1>8. /\ t.heap[o].kind = s.heap[o].kind /\ t.heap[o].cls = s.heap[o].cls /\ t.heap[o].nth = n
      /\ b[n].kind = a[n].kind /\ b[n].cls = a[n].cls
  BY <1>1 DEF Stores, StoredIn
<1>9. CASE o = p
  <2> DEFINE k == [key |-> TopOf(s).key, val |-> v]
             r == [key |-> f.key, val |-> Decode(t, v)]
  <2>1. t.heap[o].kids = Append(s.heap[o].kids, k) /\ b[n].kids = Append(a[n].kids, r)
    BY <1>1, <1>3, <1>9 DEF Stores, StoredIn
  <2>2. k \in Kid /\ k.key = TopOf(s).key /\ k.val = v BY <1>2 DEF Kid
  <2>3. r \in ReadKid /\ r.key = TopOf(s).key /\ r.val = Decode(t, v)
    BY ReadFrameChanges DEF ReadKid, FrameMatches
  <2> HIDE DEF k, r, n
  <2>4. /\ Len(t.heap[o].kids) = Len(s.heap[o].kids) + 1
        /\ t.heap[o].kids[Len(s.heap[o].kids) + 1] = k
        /\ \A i \in 1 .. Len(s.heap[o].kids) : t.heap[o].kids[i] = s.heap[o].kids[i]
    BY <1>5, <2>1, <2>2, Appended
  <2>5. /\ Len(b[n].kids) = Len(a[n].kids) + 1 /\ b[n].kids[Len(a[n].kids) + 1] = r
        /\ \A i \in 1 .. Len(a[n].kids) : b[n].kids[i] = a[n].kids[i]
    BY <1>5, <2>1, <2>3, Appended
  <2>6. ASSUME NEW i \in 1 .. Len(t.heap[o].kids)
        PROVE  /\ b[n].kids[i].key = t.heap[o].kids[i].key
               /\ b[n].kids[i].val = Decode(t, t.heap[o].kids[i].val)
    <3>1. CASE i \in 1 .. Len(s.heap[o].kids)
      BY <1>6, <1>7, <2>4, <2>5, <3>1
    <3>2. CASE i = Len(s.heap[o].kids) + 1
      BY <1>6, <2>2, <2>3, <2>4, <2>5, <3>2
    <3> QED BY <1>5, <2>4, <3>1, <3>2
  <2> QED BY <1>6, <1>8, <2>4, <2>5, <2>6 DEF NodeMatches
<1>10. CASE o # p
  <2>1. t.heap[o].kids = s.heap[o].kids /\ b[n].kids = a[n].kids
    BY <1>1, <1>3, <1>10 DEF Stores, StoredIn
  <2> QED BY <1>6, <1>7, <1>8, <2>1 DEF NodeMatches
<1> QED BY <1>9, <1>10

\* The node of the function that got its value may be any of the functions'.
LEMMA FramesServed ==
  ASSUME NEW s, WInv(s), NEW t, WInv(t), WStep(s, t), Serves(s, t),
         Len(t.stack) >= Len(s.stack), NEW u \in Seq(ReadFrame), FramesMatch(s, u), NEW w,
         \A i \in 1 .. Len(u) - 1 : w[i] = u[i], w[Len(u)] = Taken(u[Len(u)])
  PROVE  \A i \in 1 .. Len(s.stack) : FrameMatches(t, t.stack[i], w[i])
<1> DEFINE L == Len(s.stack)
<1>0. Typed(s) /\ Framed(s) /\ Typed(t) BY DEF WInv
<1>1. /\ s.stack # <<>> /\ SameBelow(s, t) /\ TopOf(s) = s.stack[L]
      /\ Served1(s, TopOf(s), t.stack[L])
  BY DEF Serves, TopOf
<1>2. /\ L \in Nat \ {0} /\ L \in 1 .. L /\ Len(u) = L /\ Len(t.stack) \in Nat
  BY <1>0, <1>1, SnapshotTypes DEF FramesMatch
<1>3. u[L] \in ReadFrame BY <1>2, Elements
<1>4. \A i \in 1 .. L : s.stack[i] \in Frame /\ Met(s, s.stack[i].obj) /\ s.stack[i].obj \in Holder
  BY <1>0, SnapshotTypes DEF Framed
<1>5. Len(t.stack) >= L OBVIOUS
<1>6. t.stack[L] \in Frame BY <1>0, <1>2, <1>5, SnapshotTypes
<1> SUFFICES ASSUME NEW i \in 1 .. L PROVE FrameMatches(t, t.stack[i], w[i])
  OBVIOUS
<1>7. CASE i < L
  <2>1. t.stack[i] = s.stack[i] /\ w[i] = u[i] BY <1>1, <1>2, <1>7 DEF SameBelow
  <2>2. FrameMatches(s, s.stack[i], u[i]) BY DEF FramesMatch
  <2> QED BY <1>0, <1>4, <2>1, <2>2, FrameStays
<1>8. CASE i = L
  <2> DEFINE f == s.stack[L]
             g == t.stack[L]
             r == u[L]
  <2>1. FrameMatches(s, f, r) BY <1>2 DEF FramesMatch
  <2>2. g.obj = f.obj /\ g.left = f.left - 1 /\ g.props = f.props /\ g.key = None /\ g.m = OwnOf(s, f)
    BY <1>1 DEF Served1
  <2>3. OwnOf(t, g) = OwnOf(s, f) BY <1>0, <1>2, <1>4, <1>6, <2>2, OwnStays
  <2>4. t.heap[f.obj].nth = s.heap[f.obj].nth BY <1>0, <1>2, <1>4, NumberStays
  <2>5. /\ Taken(r).node = r.node /\ Taken(r).m = r.m /\ Taken(r).left = r.left - 1
        /\ Taken(r).props = r.props /\ Taken(r).key = None /\ Taken(r).switched = FALSE
    BY <1>3, ReadFrameChanges
  <2>6. w[L] = Taken(r) BY <1>2
  <2> HIDE DEF f, g, r
  <2>7. FrameMatches(t, g, Taken(r)) BY <2>1, <2>2, <2>3, <2>4, <2>5 DEF FrameMatches
  <2> QED BY <1>8, <2>6, <2>7 DEF g
<1> QED BY <1>2, <1>7, <1>8

\* No table changed, and no index was given.
LEMMA TablesStay ==
  ASSUME NEW s, WInv(s), NEW t, Typed(t), WStep(s, t), SameTables(s, t),
         NEW tabs, TablesMatch(s, tabs)
  PROVE  TablesMatch(t, tabs)
<1>1. \A o \in Obj : Met(s, o) => t.heap[o].nth = s.heap[o].nth BY NumberStays DEF Holder
<1>2. t.cache = s.cache /\ t.index = s.index BY DEF SameTables
<1>3. LengthsMatch(t, tabs) BY <1>2 DEF TablesMatch, LengthsMatch
<1>4. ASSUME NEW m \in {0, 3}, NEW o \in Obj PROVE EntryMatches(t, tabs, m, o)
  <2>1. EntryMatches(s, tabs, m, o) BY DEF TablesMatch
  <2>2. s.cache[m][o] # NotCached => Met(s, o) BY DEF WInv, CachedMet
  <2> QED BY <1>1, <1>2, <2>1, <2>2 DEF EntryMatches
<1> QED BY <1>3, <1>4 DEF TablesMatch

\* The object that is met gets the next index in both.
LEMMA TablesGrow ==
  ASSUME Faithful, NEW s, WInv(s), NEW t, WInv(t), NEW o \in Obj, NEW tok \in Token,
         GivesNew(s, t, o, tok), NEW tabs \in Tables, TablesMatch(s, tabs),
         NEW u, u = [tabs EXCEPT ![TableFor(TopOf(s).m)] = Append(@, s.met + 1)]
  PROVE  TablesMatch(t, u)
<1> DEFINE m == TopOf(s).m
           T == TableFor(m)
           node == s.met + 1
<1>0. Typed(s) /\ Typed(t) /\ s.stack # <<>> /\ TopOf(s).left > 0 BY DEF WInv, GivesNew, Serves
<1>1. m \in {0, 3} /\ node \in Nat /\ s.index[0] \in Nat /\ s.index[3] \in Nat
  BY <1>0, SnapshotTypes
<1>2. T \in {"refs", "objects"} /\ tabs[T] \in Seq(Nat) BY DEF TableFor, Tables
<1>3. Len(tabs[T]) = s.index[m] /\ (Native => s.index[3 - m] = 0)
  BY <1>0, TableLength DEF TablesMatch
<1>w. WStep(s, t) BY DEF WStep
<1>4. /\ \A x \in {0, 3}, p \in Obj :
           t.cache[x][p] = IF x = m /\ p = o THEN s.index[x] ELSE s.cache[x][p]
      /\ \A x \in {0, 3} : t.index[x] = IF x = m THEN s.index[x] + 1 ELSE s.index[x]
      /\ t.heap[o].nth = node
  BY DEF GivesNew
<1> HIDE DEF m, T, node
<1>5. /\ u \in Tables /\ u[T] = Append(tabs[T], node)
      /\ \A x \in {"refs", "objects"} \ {T} : u[x] = tabs[x]
  <2>1. u = [tabs EXCEPT ![T] = Append(tabs[T], node)] BY DEF T, m, node
  <2>2. Append(tabs[T], node) \in Seq(Nat) BY <1>1, <1>2, Appended
  <2> QED BY <1>2, <2>1, <2>2 DEF Tables
<1>6. /\ Len(u[T]) = Len(tabs[T]) + 1 /\ u[T][Len(tabs[T]) + 1] = node
      /\ \A i \in 1 .. Len(tabs[T]) : u[T][i] = tabs[T][i]
      /\ Len(tabs[T]) \in Nat
  BY <1>1, <1>2, <1>5, Appended, Elements
<1>7. LengthsMatch(t, u)
  <2>1. LengthsMatch(s, tabs) BY DEF TablesMatch
  <2>2. CASE Native
    <3>1. T = "objects" BY <2>2 DEF T, TableFor
    <3>2. t.index[0] + t.index[3] = s.index[0] + s.index[3] + 1
      <4>1. CASE m = 0
        <5>1. t.index[0] = s.index[0] + 1 /\ t.index[3] = s.index[3] BY <1>4, <4>1
        <5> QED BY <1>1, <5>1
      <4>2. CASE m = 3
        <5>1. t.index[0] = s.index[0] /\ t.index[3] = s.index[3] + 1 BY <1>4, <4>2
        <5> QED BY <1>1, <5>1
      <4> QED BY <1>1, <4>1, <4>2
    <3> QED BY <1>6, <2>1, <2>2, <3>1, <3>2 DEF LengthsMatch
  <2>3. CASE ~Native
    <3>1. CASE m = 3
      <4>1. T = "objects" BY <3>1 DEF T, TableFor
      <4> QED BY <1>4, <1>5, <1>6, <2>1, <2>3, <3>1, <4>1 DEF LengthsMatch
    <3>2. CASE m = 0
      <4>1. T = "refs" BY <2>3, <3>2 DEF T, TableFor
      <4> QED BY <1>4, <1>5, <1>6, <2>1, <2>3, <3>2, <4>1 DEF LengthsMatch
    <3> QED BY <1>1, <3>1, <3>2
  <2> QED BY <2>2, <2>3
<1>8. ASSUME NEW x \in {0, 3}, NEW p \in Obj PROVE EntryMatches(t, u, x, p)
  <2>1. CASE x = m /\ p = o
    <3>1. t.cache[x][p] = Len(tabs[T]) BY <1>1, <1>3, <1>4, <2>1
    <3>2. TableFor(x) = T BY <2>1 DEF T
    <3> QED BY <1>4, <1>6, <2>1, <3>1, <3>2 DEF EntryMatches
  <2>2. CASE ~(x = m /\ p = o)
    <3> SUFFICES ASSUME t.cache[x][p] # NotCached
                 PROVE  /\ t.cache[x][p] + 1 \in 1 .. Len(u[TableFor(x)])
                        /\ u[TableFor(x)][t.cache[x][p] + 1] = t.heap[p].nth
      BY DEF EntryMatches
    <3>1. t.cache[x][p] = s.cache[x][p] BY <1>4, <2>2
    <3>2. EntryMatches(s, tabs, x, p) BY DEF TablesMatch
    <3>3. /\ s.cache[x][p] + 1 \in 1 .. Len(tabs[TableFor(x)])
          /\ tabs[TableFor(x)][s.cache[x][p] + 1] = s.heap[p].nth
      BY <3>1, <3>2 DEF EntryMatches
    <3>4. Met(s, p) BY <3>1 DEF WInv, CachedMet
    <3>5. t.heap[p].nth = s.heap[p].nth BY <1>0, <1>w, <3>4, NumberStays DEF Holder
    <3>6. TableFor(x) \in {"refs", "objects"} BY DEF TableFor
    <3>7. CASE TableFor(x) = T BY <1>6, <3>1, <3>3, <3>5, <3>7
    <3>8. CASE TableFor(x) # T
      <4>1. u[TableFor(x)] = tabs[TableFor(x)] BY <1>5, <3>6, <3>8
      <4> QED BY <3>1, <3>3, <3>5, <4>1
    <3> QED BY <3>7, <3>8
  <2> QED BY <2>1, <2>2
<1> QED BY <1>7, <1>8 DEF TablesMatch

-----------------------------------------------------------------------------
(***************************************************************************)
(* A step of the reader, and the step of the writer that it follows.       *)
(***************************************************************************)
Failed == rstat' = "error" /\ UNCHANGED <<pos, rstack, objTab, made, stream>>

LEMMA TopMatches ==
  ASSUME ReaderTypeOK, NEW s, Typed(s), Matches(s), s.stack # <<>>
  PROVE  /\ rstack \in Seq(ReadFrame) /\ rstack # <<>> /\ Len(rstack) = Len(s.stack)
         /\ RTop \in ReadFrame /\ FrameMatches(s, TopOf(s), RTop) /\ RMode = TopOf(s).m
         /\ RTop = rstack[Len(rstack)]
<1>1. Len(s.stack) \in 1 .. Len(s.stack) /\ Len(rstack) = Len(s.stack)
  BY SnapshotTypes DEF Matches, FramesMatch
<1>2. rstack \in Seq(ReadFrame) BY DEF ReaderTypeOK
<1>3. rstack # <<>> BY <1>1, <1>2, Elements
<1>4. RTop \in ReadFrame BY <1>3, ReadTopType
<1>5. FrameMatches(s, TopOf(s), RTop) BY <1>1 DEF Matches, FramesMatch, TopOf, RTop
<1>6. RTop.switched \in BOOLEAN BY <1>4, ReadFrameChanges
<1>7. ASSUME RTop.switched = TRUE PROVE RMode = TopOf(s).m
  <2>1. TopOf(s).m = 3 BY <1>5, <1>7 DEF FrameMatches
  <2>2. RMode = 3 BY <1>7, Zenon DEF RMode
  <2> QED BY <2>1, <2>2
<1>8. ASSUME RTop.switched = FALSE PROVE RMode = TopOf(s).m
  <2>1. TopOf(s).m = RTop.m BY <1>5, <1>8 DEF FrameMatches
  <2>2. RMode = RTop.m BY <1>8, Zenon DEF RMode
  <2> QED BY <2>1, <2>2
<1> QED BY <1>1, <1>2, <1>3, <1>4, <1>5, <1>6, <1>7, <1>8 DEF RTop

\* A function that wants a value reads the token the writer gave it, unless
\* the token is missing.
LEMMA ReadsToken ==
  ASSUME ReaderTypeOK, stream \in Seq(Token), NEW F \in Seq(Token), Extends(stream, F),
         NEW s, Typed(s), Matches(s), s.stack # <<>>, TopOf(s).left > 0,
         NEW tok \in Token, Extends(Append(s.stream, tok), F),
         tok.m = TopOf(s).m, tok.t \notin {"key", "end"}, tok.t = "ref" => tok.n < Len(Table),
         ReaderNext
  PROVE  \/ Failed /\ Len(stream) < Len(F)
         \/ /\ ExpectsValue /\ Tok = tok /\ pos <= Len(stream)
            /\ \/ ReadScalar \/ ReadReference \/ ReadArray \/ ReadObject \/ ReadHash \/ ReadSwitch
<1>1. /\ rstack # <<>> /\ RTop \in ReadFrame /\ RMode = TopOf(s).m
      /\ FrameMatches(s, TopOf(s), RTop)
  BY TopMatches
<1>2. RTop.left > 0 BY <1>1 DEF FrameMatches
<1>3. /\ pos = Len(s.stream) + 1 /\ Len(s.stream) \in Nat /\ Len(stream) \in Nat /\ Len(F) \in Nat
      /\ s.stream \in Seq(Token)
  BY SnapshotTypes, Elements DEF Matches
<1>4. Len(Append(s.stream, tok)) = pos /\ Append(s.stream, tok)[pos] = tok
  BY <1>3, Appended
<1>5. pos <= Len(F) /\ F[pos] = tok BY <1>3, <1>4 DEF Extends
<1>6. ~ExpectsKey BY <1>2 DEF ExpectsKey
<1>7. ~Complete(RTop) BY <1>2 DEF Complete
<1>8. ~ReadProps /\ ~ReadReturn /\ ~ReadDone BY <1>6, <1>7 DEF ReadProps, ReadReturn, ReadDone
<1>9. CASE pos > Len(stream)
  <2>1. ~More BY <1>3, <1>9 DEF More
  <2>2. ~ExpectsValue BY <2>1 DEF ExpectsValue
  <2>3. ReadRaises
    BY <1>8, <2>2
       DEF ReaderNext, ReadScalar, ReadReference, ReadArray, ReadObject, ReadHash, ReadSwitch
  <2> QED BY <1>3, <1>5, <1>9, <2>3 DEF ReadRaises, Failed
<1>10. CASE pos <= Len(stream)
  <2>1. Tok = tok BY <1>3, <1>5, <1>10 DEF Extends, Tok
  <2>2. ~AtEnd BY <1>3, <1>6, <1>10 DEF AtEnd
  <2>3. ~BeyondEnd
    <3>1. tok.t = "ref" => tok.n \in Nat BY DEF Token
    <3>2. Table = objTab[TableFor(RMode)] /\ TableFor(RMode) \in {"refs", "objects"}
      BY DEF Table, TableFor
    <3>3. Table \in Seq(Nat) BY <3>2 DEF ReaderTypeOK
    <3>4. Len(Table) \in Nat BY <3>3, Elements
    <3> QED BY <2>1, <3>1, <3>4 DEF BeyondEnd
  <2>4. ~Misplaced BY <1>1, <1>6, <2>1 DEF Misplaced
  <2>5. ~ReadRaises BY <2>2, <2>3, <2>4 DEF ReadRaises
  <2>6. ReadScalar \/ ReadReference \/ ReadArray \/ ReadObject \/ ReadHash \/ ReadSwitch
    BY <1>8, <2>5 DEF ReaderNext
  <2>7. ExpectsValue
    BY <2>6 DEF ReadScalar, ReadReference, ReadArray, ReadObject, ReadHash, ReadSwitch
  <2> QED BY <1>10, <2>1, <2>6, <2>7
<1> QED BY <1>3, <1>9, <1>10

\* The stack of the reader after a value.
LEMMA TakenStack ==
  ASSUME ReaderTypeOK, NEW s, WInv(s), NEW t, WInv(t), WStep(s, t), Serves(s, t), Matches(s),
         NEW w \in Seq(ReadFrame), Len(t.stack) >= Len(s.stack),
         \/ w = Append(RBelow, Taken(RTop))
         \/ \E f \in ReadFrame : w = Append(Append(RBelow, Taken(RTop)), f)
  PROVE  \A i \in 1 .. Len(s.stack) : FrameMatches(t, t.stack[i], w[i])
<1>1. s.stack # <<>> /\ TopOf(s).left > 0 /\ Typed(s) BY DEF Serves, WInv
<1>2. /\ rstack \in Seq(ReadFrame) /\ rstack # <<>> /\ RTop \in ReadFrame
      /\ RTop = rstack[Len(rstack)] /\ FrameMatches(s, TopOf(s), RTop)
  BY <1>1, TopMatches
<1>3. RTop.left > 0 BY <1>1, <1>2 DEF FrameMatches
<1>4. Taken(RTop) \in ReadFrame BY <1>2, <1>3, ReadFrameChanges
<1> DEFINE b == Append(RBelow, Taken(RTop))
<1>5. /\ b \in Seq(ReadFrame) /\ Len(b) = Len(rstack) /\ b[Len(rstack)] = Taken(RTop)
      /\ \A i \in 1 .. Len(rstack) - 1 : b[i] = rstack[i]
  BY <1>2, <1>4, Replaced DEF RBelow
<1>6. Len(rstack) \in Nat \ {0} BY <1>2, Elements
<1>7. /\ w[Len(rstack)] = Taken(RTop)
      /\ \A i \in 1 .. Len(rstack) - 1 : w[i] = rstack[i]
  <2>1. CASE w = b BY <1>5, <2>1
  <2>2. CASE \E f \in ReadFrame : w = Append(b, f)
    <3>1. PICK f \in ReadFrame : w = Append(b, f) BY <2>2
    <3> HIDE DEF b
    <3>2. \A i \in 1 .. Len(b) : w[i] = b[i] BY <1>5, <3>1, Appended
    <3> QED BY <1>5, <1>6, <3>2
  <2> QED BY <2>1, <2>2
<1>8. FramesMatch(s, rstack) BY DEF Matches
<1>9. w[Len(rstack)] = Taken(rstack[Len(rstack)]) BY <1>2, <1>7
<1> QED BY <1>2, <1>7, <1>8, <1>9, FramesServed

\* What was made, after a value that is not new.
LEMMA StoredMatches ==
  ASSUME ReaderTypeOK, NEW s, WInv(s), NEW t, WInv(t), WStep(s, t), Matches(s), s.stack # <<>>,
         NEW v \in Obj \cup Scalars, \A p \in Holder : Stores(s, t, v, p), t.met = s.met
  PROVE  MadeMatches(t, Stored(RTop, Decode(t, v)))
<1> DEFINE n == Decode(t, v)
           b == Stored(RTop, n)
<1>0. Typed(s) /\ Typed(t) BY DEF WInv
<1>1. made \in Seq(ReadNode) BY DEF ReaderTypeOK, ReadNode, ReadKid
<1>2. RTop \in ReadFrame /\ FrameMatches(s, TopOf(s), RTop) BY <1>0, TopMatches
<1>3. n \in ReaderValue
  <2>1. v \in Obj => t.heap[v].nth \in Nat BY <1>0, SnapshotTypes DEF Holder
  <2> QED BY <2>1 DEF Decode, ReaderValue
<1> HIDE DEF n
<1>4. /\ Len(b) = Len(made)
      /\ \A i \in 1 .. Len(made) :
           /\ b[i].kind = made[i].kind /\ b[i].cls = made[i].cls
           /\ b[i].kids = IF i = RTop.node THEN Append(made[i].kids, [key |-> RTop.key, val |-> n])
                                           ELSE made[i].kids
  BY <1>1, <1>2, <1>3, StoredType
<1> HIDE DEF b
<1>5. StoredIn(made, b, RTop, n) BY <1>4 DEF StoredIn
<1>6. MadeMatches(s, made) /\ Len(b) = t.met BY <1>4 DEF Matches, MadeMatches
<1>7. ASSUME NEW o \in Holder, Met(t, o) PROVE NodeMatches(t, t.heap[o], b[t.heap[o].nth])
  <2>1. Stores(s, t, v, o) OBVIOUS
  <2>2. Met(s, o) BY <1>7, <2>1 DEF Stores, Met
  <2> QED BY <1>1, <1>2, <1>3, <1>5, <1>6, <2>1, <2>2, NodeGrows DEF n, Nodes
<1>8. MadeMatches(t, b) BY <1>6, <1>7 DEF MadeMatches
<1> QED BY <1>8 DEF b, n

\* A scalar, or a reference.
LEMMA ReadsKnown ==
  ASSUME ReaderTypeOK, ReaderTypeOK', NEW s, WInv(s), NEW t, WInv(t), WStep(s, t), Matches(s),
         Serves(s, t), Len(t.stack) = Len(s.stack), SameTables(s, t), t.met = s.met,
         Len(t.stream) = Len(s.stream) + 1, pos <= Len(stream),
         NEW v \in Obj \cup Scalars, \A p \in Holder : Stores(s, t, v, p),
         made' = Stored(RTop, Decode(t, v)), rstack' = Append(RBelow, Taken(RTop)),
         pos' = pos + 1, stream' = stream, objTab' = objTab
  PROVE  Matches(t)'
<1>1. s.stack # <<>> /\ Typed(t) BY DEF Serves, WInv
<1>2. MadeMatches(t, made') BY <1>1, StoredMatches
<1>3. TablesMatch(t, objTab') BY <1>1, TablesStay DEF Matches
<1>4. rstack' \in Seq(ReadFrame) BY DEF ReaderTypeOK
<1>5. \A i \in 1 .. Len(s.stack) : FrameMatches(t, t.stack[i], rstack'[i])
  <2>1. Len(t.stack) >= Len(s.stack) BY <1>1, SnapshotTypes DEF WInv
  <2> QED BY <1>4, <2>1, TakenStack
<1>6. Len(rstack') = Len(t.stack)
  <2>1. /\ rstack \in Seq(ReadFrame) /\ rstack # <<>> /\ Len(rstack) = Len(s.stack)
        /\ RTop \in ReadFrame /\ FrameMatches(s, TopOf(s), RTop)
    BY <1>1, TopMatches DEF WInv
  <2>2. RTop.left > 0 BY <2>1 DEF FrameMatches, Serves
  <2>3. Taken(RTop) \in ReadFrame BY <2>1, <2>2, ReadFrameChanges
  <2> QED BY <2>1, <2>3, Replaced DEF RBelow
<1>7. FramesMatch(t, rstack') BY <1>5, <1>6 DEF FramesMatch
<1>8. pos' = Len(t.stream) + 1 /\ pos' <= Len(stream') + 1
  <2>1. /\ pos = Len(s.stream) + 1 /\ Len(s.stream) \in Nat /\ pos \in Nat
    BY SnapshotTypes DEF Matches, WInv
  <2>2. stream' = stream OBVIOUS
  <2> QED BY <2>1, <2>2
<1> QED BY <1>2, <1>3, <1>7, <1>8 DEF Matches

\* An array, a hash or an object that is met for the first time.
LEMMA ReadsNew ==
  ASSUME Faithful, ReaderTypeOK, ReaderTypeOK', NEW s, WInv(s), NEW t, WInv(t), Matches(s),
         NEW o \in Obj, NEW tok \in Token, GivesNew(s, t, o, tok), pos <= Len(stream),
         NEW kind \in {"array", "object", "hash"}, NEW cls \in ClassNames \cup {None},
         NEW frame \in ReadFrame, Begin(kind, cls, frame), pos' = pos + 1, stream' = stream,
         t.heap[o].kind = kind, t.heap[o].cls = cls, frame.m = TopOf(s).m,
         frame.left = t.stack[Len(s.stack) + 1].left, frame.props = t.stack[Len(s.stack) + 1].props,
         frame.key = None, frame.switched = FALSE
  PROVE  Matches(t)'
<1> DEFINE L == Len(s.stack)
           node == Len(made) + 1
           g == t.stack[L + 1]
           r == [frame EXCEPT !.node = node]
<1>0. /\ Typed(s) /\ Typed(t) /\ s.stack # <<>> /\ Serves(s, t) /\ WStep(s, t)
      /\ Numbered(s) /\ CachedMet(s) /\ Framed(s)
  BY DEF WInv, GivesNew, Serves, WStep
<1>1. /\ rstack \in Seq(ReadFrame) /\ rstack # <<>> /\ Len(rstack) = L
      /\ RTop \in ReadFrame /\ FrameMatches(s, TopOf(s), RTop) /\ RMode = TopOf(s).m
  BY <1>0, TopMatches
<1>2. /\ objTab' = [objTab EXCEPT ![TableFor(RMode)] = Append(@, node)]
      /\ made' = Append(Stored(RTop, node), MadeNode(kind, cls))
      /\ rstack' = Append(Append(RBelow, Taken(RTop)), r)
  BY DEF Begin
<1>3. Len(made) = s.met /\ made \in Seq(ReadNode) /\ s.met \in Nat
  BY <1>0 DEF Matches, MadeMatches, ReaderTypeOK, ReadNode, ReadKid, Typed
<1>4. /\ g.obj = o /\ g.m = TopOf(s).m /\ g.key = None
      /\ t.heap[o].nth = s.met + 1 /\ t.heap[o].kids = <<>> /\ t.met = s.met + 1
      /\ ~Met(s, o) /\ Len(t.stack) = L + 1 /\ t.stream = Append(s.stream, tok)
      /\ \A p \in Holder \ {o} : Stores(s, t, o, p)
      /\ \A m \in {0, 3}, p \in Obj :
           t.cache[m][p] = IF m = TopOf(s).m /\ p = o THEN s.index[m] ELSE s.cache[m][p]
  BY DEF GivesNew, Says
<1>5. node \in Nat /\ node = t.heap[o].nth /\ node = s.met + 1 BY <1>3, <1>4
<1>6. TablesMatch(t, objTab')
  <2>1. objTab \in Tables /\ TablesMatch(s, objTab) BY DEF ReaderTypeOK, Tables, Matches
  <2>2. objTab' = [objTab EXCEPT ![TableFor(TopOf(s).m)] = Append(@, s.met + 1)]
    BY <1>1, <1>2, <1>5
  <2> QED BY <2>1, <2>2, TablesGrow
<1>7. r \in ReadFrame /\ r.node = node /\ r.m = frame.m /\ r.left = frame.left
      /\ r.props = frame.props /\ r.key = None /\ r.switched = FALSE
  <2>1. \A n \in Nat :
          LET h == [frame EXCEPT !.node = n]
          IN  /\ h \in ReadFrame /\ h.node = n /\ h.m = frame.m /\ h.left = frame.left
              /\ h.props = frame.props /\ h.key = frame.key /\ h.switched = frame.switched
    BY ReadFrameChanges
  <2> HIDE DEF node
  <2> QED BY <1>5, <2>1 DEF r
<1>8. Taken(RTop) \in ReadFrame
  <2>1. RTop.left > 0 BY <1>0, <1>1 DEF FrameMatches, Serves
  <2> QED BY <1>1, <2>1, ReadFrameChanges
<1>9. FrameMatches(t, g, r)
  <2>1. s.index[3] \in Nat /\ TopOf(s).m \in {0, 3} BY <1>0, SnapshotTypes
  <2>2. s.cache[3][o] = NotCached BY <1>0, <1>4 DEF CachedMet
  <2>3. OwnOf(t, g) = TopOf(s).m
    <3>1. CASE TopOf(s).m = 3
      <4>1. t.cache[3][o] = s.index[3] BY <1>4, <3>1
      <4>2. t.cache[3][o] # NotCached BY <2>1, <4>1
      <4> QED BY <1>4, <3>1, <4>2, WriterAssumption DEF OwnOf
    <3>2. CASE TopOf(s).m = 0
      <4>1. t.cache[3][o] = NotCached BY <1>4, <2>2, <3>2
      <4> QED BY <1>4, <3>2, <4>1 DEF OwnOf
    <3> QED BY <2>1, <3>1, <3>2
  <2>4. frame.left = g.left /\ frame.props = g.props OBVIOUS
  <2> HIDE DEF g, r, node
  <2> QED BY <1>4, <1>5, <1>7, <2>3, <2>4 DEF FrameMatches
<1>10. FramesMatch(t, rstack')
  <2>1. rstack' \in Seq(ReadFrame) BY DEF ReaderTypeOK
  <2> HIDE DEF r
  <2>2. Len(rstack') = L + 1 /\ rstack'[L + 1] = r
    BY <1>1, <1>2, <1>7, <1>8, Pushed DEF RBelow
  <2>3. Len(t.stack) >= L /\ L \in Nat BY <1>0, <1>4, SnapshotTypes
  <2>4. \A i \in 1 .. L : FrameMatches(t, t.stack[i], rstack'[i])
    BY <1>0, <1>2, <1>7, <2>1, <2>3, TakenStack
  <2>5. FrameMatches(t, t.stack[L + 1], rstack'[L + 1]) BY <1>9, <2>2
  <2>6. \A i \in 1 .. Len(t.stack) : i \in 1 .. L \/ i = L + 1 BY <1>4, <2>3
  <2> QED BY <1>4, <2>2, <2>4, <2>5, <2>6 DEF FramesMatch
<1>11. MadeMatches(t, made')
  <2> DEFINE b == Stored(RTop, node)
             x == MadeNode(kind, cls)
  <2>1. node \in ReaderValue BY <1>5 DEF ReaderValue
  <2>2. /\ b \in Seq(ReadNode) /\ Len(b) = Len(made)
        /\ \A i \in 1 .. Len(made) :
             /\ b[i].kind = made[i].kind /\ b[i].cls = made[i].cls
             /\ b[i].kids = IF i = RTop.node THEN Append(made[i].kids, [key |-> RTop.key, val |-> node])
                                             ELSE made[i].kids
    BY <1>1, <1>3, <2>1, StoredType
  <2>3. x \in ReadNode /\ x.kind = kind /\ x.cls = cls /\ x.kids = <<>> BY DEF MadeNode, ReadNode
  <2> HIDE DEF b, x
  <2>4. StoredIn(made, b, RTop, node) BY <2>2 DEF StoredIn
  <2>5. made' = Append(b, x) BY <1>2 DEF b, x
  <2> HIDE DEF node
  <2>6. Len(made') = t.met /\ made'[node] = x /\ \A i \in 1 .. Len(made) : made'[i] = b[i]
    <3>1. /\ Len(Append(b, x)) = Len(b) + 1 /\ Append(b, x)[Len(b) + 1] = x
          /\ \A i \in 1 .. Len(b) : Append(b, x)[i] = b[i]
      BY <2>2, <2>3, Appended
    <3>2. Len(b) + 1 = node /\ Len(b) + 1 = t.met BY <1>3, <1>4, <1>5, <2>2
    <3> QED BY <2>2, <2>5, <3>1, <3>2
  <2>7. Decode(t, o) = node BY <1>5 DEF Decode
  <2>8. ASSUME NEW p \in Holder, Met(t, p) PROVE NodeMatches(t, t.heap[p], made'[t.heap[p].nth])
    <3>1. CASE p = o
      <4>1. made'[t.heap[p].nth] = x BY <1>5, <2>6, <3>1
      <4>2. t.heap[p].kids = <<>> /\ t.heap[p].kind = kind /\ t.heap[p].cls = cls BY <1>4, <3>1
      <4> QED BY <2>3, <4>1, <4>2 DEF NodeMatches
    <3>2. CASE p # o
      <4>1. Stores(s, t, o, p) BY <1>4, <3>2
      <4>2. Met(s, p) BY <2>8, <4>1 DEF Stores, Met
      <4>3. MadeMatches(s, made) /\ o \in Obj \cup Scalars BY DEF Matches
      <4>4. NodeMatches(t, t.heap[p], b[t.heap[p].nth])
        BY <1>0, <1>1, <1>3, <2>1, <2>4, <2>7, <4>1, <4>2, <4>3, NodeGrows DEF Nodes
      <4>5. t.heap[p].nth \in 1 .. Len(made)
        BY <1>0, <1>3, <4>1, <4>2 DEF Stores, Numbered
      <4> QED BY <2>6, <4>4, <4>5
    <3> QED BY <3>1, <3>2
  <2> QED BY <2>6, <2>8 DEF MadeMatches
<1>12. pos' = Len(t.stream) + 1 /\ pos' <= Len(stream') + 1
  <2>1. pos = Len(s.stream) + 1 /\ Len(s.stream) \in Nat /\ s.stream \in Seq(Token)
    BY <1>0, SnapshotTypes DEF Matches
  <2>2. Len(t.stream) = Len(s.stream) + 1 BY <1>4, <2>1, Appended
  <2>3. stream' = stream OBVIOUS
  <2> QED BY <2>1, <2>2, <2>3
<1> QED BY <1>6, <1>10, <1>11, <1>12 DEF Matches
(***************************************************************************)
(* The steps of the reader that change the function at the top, and its    *)
(* return.                                                                 *)
(***************************************************************************)

\* Nothing is made.
LEMMA MadeStays ==
  ASSUME NEW s, NEW t, SameGraph(s, t), NEW nodes, MadeMatches(s, nodes)
  PROVE  MadeMatches(t, nodes)
<1>1. t.heap = s.heap /\ t.met = s.met BY DEF SameGraph
<1>2. \A v : Decode(t, v) = Decode(s, v) BY <1>1 DEF Decode
<1> QED BY <1>1, <1>2 DEF MadeMatches, NodeMatches, Met

LEMMA TablesSame ==
  ASSUME NEW s, NEW t, SameGraph(s, t), SameTables(s, t), NEW tabs, TablesMatch(s, tabs)
  PROVE  TablesMatch(t, tabs)
BY DEF SameGraph, SameTables, TablesMatch, LengthsMatch, EntryMatches

LEMMA ReadsTurn ==
  ASSUME ReaderTypeOK, NEW s, WInv(s), NEW t, WInv(t), WStep(s, t), Turns(s, t), Matches(s),
         NEW r \in ReadFrame, rstack' = Append(RBelow, r), FrameMatches(t, TopOf(t), r),
         made' = made, TablesMatch(t, objTab'),
         pos' = Len(t.stream) + 1, pos' <= Len(stream) + 1, stream' = stream
  PROVE  Matches(t)'
<1>0. Typed(s) /\ Typed(t) /\ s.stack # <<>> /\ Framed(s) BY DEF WInv, Turns
<1>1. rstack \in Seq(ReadFrame) /\ rstack # <<>> /\ Len(rstack) = Len(s.stack)
  BY <1>0, TopMatches
<1>2. /\ Len(rstack') = Len(rstack) /\ rstack'[Len(rstack)] = r
      /\ \A i \in 1 .. Len(rstack) - 1 : rstack'[i] = rstack[i]
  BY <1>1, Replaced DEF RBelow
<1>3. Len(t.stack) = Len(s.stack) /\ SameBelow(s, t) /\ SameGraph(s, t) BY DEF Turns
<1>4. Len(s.stack) \in Nat BY <1>0, SnapshotTypes
<1>5. ASSUME NEW i \in 1 .. Len(t.stack) PROVE FrameMatches(t, t.stack[i], rstack'[i])
  <2>1. CASE i = Len(s.stack) BY <1>1, <1>2, <1>3, <2>1 DEF TopOf
  <2>2. CASE i # Len(s.stack)
    <3>1. i \in 1 .. Len(s.stack) - 1 /\ i \in 1 .. Len(s.stack) BY <1>3, <1>4, <2>2
    <3>2. t.stack[i] = s.stack[i] /\ rstack'[i] = rstack[i]
      BY <1>1, <1>2, <1>3, <3>1 DEF SameBelow
    <3>3. s.stack[i] \in Frame /\ Met(s, s.stack[i].obj) BY <1>0, <3>1, SnapshotTypes DEF Framed
    <3>4. FrameMatches(s, s.stack[i], rstack[i]) BY <3>1 DEF Matches, FramesMatch
    <3> QED BY <1>0, <3>2, <3>3, <3>4, FrameStays
  <2> QED BY <2>1, <2>2
<1>6. FramesMatch(t, rstack') BY <1>1, <1>2, <1>3, <1>5 DEF FramesMatch
<1>7. MadeMatches(t, made') BY <1>3, MadeStays DEF Matches
<1> QED BY <1>6, <1>7 DEF Matches

\* The switch: whichever table the AMF3 part starts with, the writer has not
\* used it yet.
LEMMA ReadsSwitch ==
  ASSUME ReaderTypeOK, NEW s, WInv(s), NEW t, WInv(t), Switches(s, t), Matches(s),
         ReadSwitch, pos <= Len(stream)
  PROVE  Matches(t)'
<1>0. Typed(s) /\ Typed(t) /\ s.stack # <<>> /\ WStep(s, t) /\ Turns(s, t)
  BY DEF WInv, Switches, Turns, WStep
<1> DEFINE r == [RTop EXCEPT !.switched = TRUE]
<1>1. RTop \in ReadFrame /\ FrameMatches(s, TopOf(s), RTop) BY <1>0, TopMatches
<1>2. /\ r \in ReadFrame /\ r.node = RTop.node /\ r.m = RTop.m /\ r.left = RTop.left
      /\ r.props = RTop.props /\ r.key = RTop.key /\ r.switched = TRUE
  BY <1>1, ReadFrameChanges
<1>3. /\ rstack' = Append(RBelow, r) /\ made' = made /\ pos' = pos + 1 /\ stream' = stream
      /\ objTab' = IF Native THEN objTab ELSE [objTab EXCEPT !["objects"] = <<>>]
  BY DEF ReadSwitch, Advance
<1> HIDE DEF r
<1>4. FrameMatches(t, TopOf(t), r)
  <2>1. OwnOf(t, TopOf(t)) = OwnOf(s, TopOf(s))
    BY <1>0 DEF OwnOf, Turns, SameTables
  <2>2. t.heap = s.heap /\ TopOf(t).obj = TopOf(s).obj BY <1>0 DEF Turns, SameGraph
  <2>3. /\ TopOf(t).m = 3 /\ TopOf(t).left = TopOf(s).left /\ TopOf(t).props = TopOf(s).props
        /\ TopOf(t).key = TopOf(s).key
    BY DEF Switches
  <2>4. /\ RTop.node = s.heap[TopOf(s).obj].nth /\ RTop.m = OwnOf(s, TopOf(s))
        /\ RTop.left = TopOf(s).left /\ RTop.props = TopOf(s).props /\ RTop.key = TopOf(s).key
    BY <1>1 DEF FrameMatches
  <2> QED BY <1>2, <2>1, <2>2, <2>3, <2>4 DEF FrameMatches
<1>5. TablesMatch(s, objTab')
  <2>1. TablesMatch(s, objTab) BY DEF Matches
  <2>2. CASE Native BY <1>3, <2>1, <2>2
  <2>3. CASE ~Native
    <3>1. s.index[3] = 0 BY DEF Switches, WInv, InPart
    <3>2. objTab' = [objTab EXCEPT !["objects"] = <<>>] BY <1>3, <2>3
    <3>3. objTab'["objects"] = <<>> /\ objTab'["refs"] = objTab["refs"]
      BY <3>2 DEF ReaderTypeOK
    <3>4. LengthsMatch(s, objTab') BY <2>1, <2>3, <3>1, <3>3 DEF TablesMatch, LengthsMatch
    <3>5. ASSUME NEW o \in Obj PROVE EntryMatches(s, objTab', 3, o)
      <4>1. s.cache[3][o] \in Index BY <1>0, SnapshotTypes
      <4>2. s.cache[3][o] # NotCached => s.cache[3][o] < 0 BY <3>1 DEF WInv, CachedMet
      <4>3. s.cache[3][o] = NotCached BY <4>1, <4>2 DEF Index, NotCached
      <4> QED BY <4>3 DEF EntryMatches
    <3>6. ASSUME NEW o \in Obj PROVE EntryMatches(s, objTab', 0, o)
      <4>1. TableFor(0) = "refs" BY <2>3 DEF TableFor
      <4>2. EntryMatches(s, objTab, 0, o) BY <2>1 DEF TablesMatch
      <4> QED BY <3>3, <4>1, <4>2 DEF EntryMatches
    <3> QED BY <3>4, <3>5, <3>6 DEF TablesMatch
  <2> QED BY <2>2, <2>3
<1>6. TablesMatch(t, objTab') BY <1>0, <1>5, TablesSame DEF Turns
<1>7. pos' = Len(t.stream) + 1 /\ pos' <= Len(stream) + 1
  <2>1. pos = Len(s.stream) + 1 /\ Len(s.stream) \in Nat /\ s.stream \in Seq(Token)
    BY <1>0, SnapshotTypes DEF Matches
  <2>2. t.stream = Append(s.stream, SwitchTok) BY DEF Switches, Says
  <2>3. Len(t.stream) = Len(s.stream) + 1 BY <2>1, <2>2, TokenTypes, Appended
  <2> QED BY <1>3, <2>1, <2>3
<1> QED BY <1>0, <1>2, <1>3, <1>4, <1>6, <1>7, ReadsTurn
\* A name, and the value follows.
LEMMA ReadsKey ==
  ASSUME ReaderTypeOK, NEW s, WInv(s), NEW t, WInv(t), NEW k \in Names, WritesKey(s, t, k),
         Matches(s), rstack' = Append(RBelow, [RTop EXCEPT !.left = 1, !.key = k]),
         pos' = pos + 1, UNCHANGED <<objTab, made, stream>>, pos <= Len(stream)
  PROVE  Matches(t)'
<1>0. Typed(s) /\ Typed(t) /\ s.stack # <<>> /\ WStep(s, t) /\ Turns(s, t)
  BY DEF WInv, WritesKey, Turns, WStep
<1> DEFINE r == [RTop EXCEPT !.left = 1, !.key = k]
<1>1. RTop \in ReadFrame /\ FrameMatches(s, TopOf(s), RTop) BY <1>0, TopMatches
<1>2. \A n \in Names :
        LET g == [RTop EXCEPT !.left = 1, !.key = n]
        IN  /\ g \in ReadFrame /\ g.node = RTop.node /\ g.m = RTop.m /\ g.left = 1
            /\ g.props = RTop.props /\ g.key = n /\ g.switched = RTop.switched
  BY <1>1, ReadFrameChanges
<1>3. /\ r \in ReadFrame /\ r.node = RTop.node /\ r.m = RTop.m /\ r.left = 1
      /\ r.props = RTop.props /\ r.key = k /\ r.switched = RTop.switched
  BY <1>2
<1>4. rstack' = Append(RBelow, r) OBVIOUS
<1> HIDE DEF r
<1>5. FrameMatches(t, TopOf(t), r)
  <2>1. OwnOf(t, TopOf(t)) = OwnOf(s, TopOf(s))
    BY <1>0 DEF OwnOf, Turns, SameTables
  <2>2. t.heap = s.heap /\ TopOf(t).obj = TopOf(s).obj BY <1>0 DEF Turns, SameGraph
  <2>3. /\ TopOf(t).m = TopOf(s).m /\ TopOf(t).left = 1 /\ TopOf(t).props = TopOf(s).props
        /\ TopOf(t).key = k
    BY DEF WritesKey
  <2>4. /\ RTop.node = s.heap[TopOf(s).obj].nth /\ RTop.m = OwnOf(s, TopOf(s))
        /\ TopOf(s).m = IF RTop.switched = TRUE THEN 3 ELSE RTop.m
        /\ RTop.props = TopOf(s).props
    BY <1>1 DEF FrameMatches
  <2> QED BY <1>3, <2>1, <2>2, <2>3, <2>4 DEF FrameMatches
<1>6. TablesMatch(t, objTab') BY <1>0, TablesSame DEF Turns, Matches
<1>7. pos' = Len(t.stream) + 1 /\ pos' <= Len(stream) + 1
  <2>1. pos = Len(s.stream) + 1 /\ Len(s.stream) \in Nat /\ s.stream \in Seq(Token)
    BY <1>0, SnapshotTypes DEF Matches
  <2>2. t.stream = Append(s.stream, KeyTok(k)) BY DEF WritesKey, Says
  <2>3. Len(t.stream) = Len(s.stream) + 1 BY <2>1, <2>2, TokenTypes, Appended
  <2> QED BY <2>1, <2>3
<1> QED BY <1>0, <1>3, <1>4, <1>5, <1>6, <1>7, ReadsTurn

\* The empty name and the end marker.
LEMMA ReadsEnd ==
  ASSUME ReaderTypeOK, NEW s, WInv(s), NEW t, WInv(t), Ends(s, t),
         Matches(s), rstack' = Append(RBelow, [RTop EXCEPT !.props = FALSE]),
         pos' = pos + 2, UNCHANGED <<objTab, made, stream>>, pos < Len(stream)
  PROVE  Matches(t)'
<1>0. Typed(s) /\ Typed(t) /\ s.stack # <<>> /\ WStep(s, t) /\ Turns(s, t)
  BY DEF WInv, Ends, Turns, WStep
<1> DEFINE r == [RTop EXCEPT !.props = FALSE]
<1>1. RTop \in ReadFrame /\ FrameMatches(s, TopOf(s), RTop) BY <1>0, TopMatches
<1>3. /\ r \in ReadFrame /\ r.node = RTop.node /\ r.m = RTop.m /\ r.left = RTop.left
      /\ r.props = FALSE /\ r.key = RTop.key /\ r.switched = RTop.switched
  BY <1>1, ReadFrameChanges
<1>4. rstack' = Append(RBelow, r) OBVIOUS
<1> HIDE DEF r
<1>5. FrameMatches(t, TopOf(t), r)
  <2>1. OwnOf(t, TopOf(t)) = OwnOf(s, TopOf(s))
    BY <1>0 DEF OwnOf, Turns, SameTables
  <2>2. t.heap = s.heap /\ TopOf(t).obj = TopOf(s).obj BY <1>0 DEF Turns, SameGraph
  <2>3. /\ TopOf(t).m = TopOf(s).m /\ TopOf(t).left = TopOf(s).left /\ TopOf(t).props = FALSE
        /\ TopOf(t).key = TopOf(s).key
    BY DEF Ends
  <2>4. /\ RTop.node = s.heap[TopOf(s).obj].nth /\ RTop.m = OwnOf(s, TopOf(s))
        /\ TopOf(s).m = IF RTop.switched = TRUE THEN 3 ELSE RTop.m
        /\ RTop.left = TopOf(s).left /\ RTop.key = TopOf(s).key
    BY <1>1 DEF FrameMatches
  <2> QED BY <1>3, <2>1, <2>2, <2>3, <2>4 DEF FrameMatches
<1>6. TablesMatch(t, objTab') BY <1>0, TablesSame DEF Turns, Matches
<1>7. pos' = Len(t.stream) + 1 /\ pos' <= Len(stream) + 1
  <2>1. pos = Len(s.stream) + 1 /\ Len(s.stream) \in Nat /\ s.stream \in Seq(Token)
    BY <1>0, SnapshotTypes DEF Matches
  <2>2. t.stream = s.stream \o <<KeyTok(Empty), EndTok>> BY DEF Ends
  <2>3. KeyTok(Empty) \in Token /\ EndTok \in Token BY TokenTypes, StreamAssumption
  <2>4. Len(t.stream) = Len(s.stream) + 2 BY <2>1, <2>2, <2>3, TwoMore
  <2>5. pos \in Nat /\ Len(stream) \in Nat /\ pos + 2 <= Len(stream) + 1
    BY <2>1, Z3
  <2> QED BY <2>1, <2>4, <2>5
<1> QED BY <1>0, <1>3, <1>4, <1>5, <1>6, <1>7, ReadsTurn

\* Both functions return.
LEMMA ReadsReturn ==
  ASSUME ReaderTypeOK, NEW s, WInv(s), NEW t, WInv(t), Returns(s, t), Matches(s),
         rstack' = RBelow, UNCHANGED <<pos, objTab, made, stream>>
  PROVE  Matches(t)'
<1>0. Typed(s) /\ Typed(t) /\ s.stack # <<>> /\ WStep(s, t) /\ Framed(s)
  BY DEF WInv, Returns, WStep
<1>1. rstack \in Seq(ReadFrame) /\ rstack # <<>> /\ Len(rstack) = Len(s.stack)
  BY <1>0, TopMatches
<1>2. /\ Len(RBelow) = Len(rstack) - 1
      /\ \A i \in 1 .. Len(rstack) - 1 : RBelow[i] = rstack[i]
  BY <1>1, Popped DEF RBelow
<1>3. Len(t.stack) = Len(s.stack) - 1 /\ SameBelow(s, t) BY DEF Returns
<1>4. Len(s.stack) \in Nat BY <1>0, SnapshotTypes
<1>5. ASSUME NEW i \in 1 .. Len(t.stack) PROVE FrameMatches(t, t.stack[i], rstack'[i])
  <2>1. i \in 1 .. Len(s.stack) - 1 /\ i \in 1 .. Len(s.stack) BY <1>3, <1>4
  <2>2. t.stack[i] = s.stack[i] /\ rstack'[i] = rstack[i]
    BY <1>1, <1>2, <1>3, <2>1 DEF SameBelow
  <2>3. s.stack[i] \in Frame /\ Met(s, s.stack[i].obj) BY <1>0, <2>1, SnapshotTypes DEF Framed
  <2>4. FrameMatches(s, s.stack[i], rstack[i]) BY <2>1 DEF Matches, FramesMatch
  <2> QED BY <1>0, <2>2, <2>3, <2>4, FrameStays
<1>6. FramesMatch(t, rstack') BY <1>1, <1>2, <1>3, <1>5 DEF FramesMatch
<1>7. MadeMatches(t, made') BY MadeStays DEF Matches, Returns
<1>8. TablesMatch(t, objTab') BY TablesSame DEF Matches, Returns
<1> QED BY <1>6, <1>7, <1>8 DEF Matches, Returns
-----------------------------------------------------------------------------
(***************************************************************************)
(* A step of the reader simulates the step by which the writer wrote the   *)
(* token: the writer's tables and graph at that moment are the reader's    *)
(* now.  F is everything that was written.                                 *)
(***************************************************************************)

\* A write function that owes a value says one token, in its version.
LEMMA Speaks ==
  ASSUME NEW s, WInv(s), NEW t, WStep(s, t), s.stack # <<>>, TopOf(s).left > 0
  PROVE  \E tok \in Token : /\ Says(s, t, tok) /\ tok.t \notin {"key", "end"}
                            /\ tok.m = TopOf(s).m
<1>0. Typed(s) BY DEF WInv
<1>1. TopOf(s).m \in {0, 3} /\ TopOf(s).left \in Nat BY <1>0, SnapshotTypes
<1>2. CASE \E v \in Scalars : GivesScalar(s, t, v)
  <2>1. PICK v \in Scalars : GivesScalar(s, t, v) BY <1>2
  <2> DEFINE tok == ScalarTok(TopOf(s).m, v)
  <2>2. tok \in Token BY <1>1, TokenTypes
  <2>3. tok.t = "scalar" /\ tok.m = TopOf(s).m BY DEF ScalarTok
  <2>4. Says(s, t, tok) BY <2>1 DEF GivesScalar
  <2> QED BY <2>2, <2>3, <2>4
<1>3. CASE \E o \in Obj : GivesReference(s, t, o)
  <2>1. PICK o \in Obj : GivesReference(s, t, o) BY <1>3
  <2> DEFINE tok == RefTok(TopOf(s).m, s.cache[TopOf(s).m][o])
  <2>2. s.cache[TopOf(s).m][o] \in Index /\ s.cache[TopOf(s).m][o] # NotCached
    BY <1>0, <1>1, <2>1, SnapshotTypes DEF GivesReference
  <2>3. tok \in Token BY <1>1, <2>2, TokenTypes DEF Index
  <2>4. tok.t = "ref" /\ tok.m = TopOf(s).m BY DEF RefTok
  <2>5. Says(s, t, tok) BY <2>1 DEF GivesReference
  <2> QED BY <2>3, <2>4, <2>5
<1>4. CASE \E o \in Obj, tok \in Token : GivesNew(s, t, o, tok)
  <2>1. PICK o \in Obj, tok \in Token : GivesNew(s, t, o, tok) BY <1>4
  <2> DEFINE f == t.stack[Len(s.stack) + 1]
  <2>2. /\ Says(s, t, tok) /\ f.m = TopOf(s).m
        /\ Announces(tok, f.m, t.heap[o].kind, t.heap[o].cls, f.left, f.props)
    BY <2>1 DEF GivesNew
  <2> HIDE DEF f
  <2>3. tok.t \in {"array", "object", "hash"} /\ tok.m = f.m
    BY <2>2 DEF Announces, ArrayTok, ObjectTok, HashTok
  <2> QED BY <2>2, <2>3
<1>5. CASE Switches(s, t)
  <2>1. Says(s, t, SwitchTok) /\ TopOf(s).m = 0 BY <1>5 DEF Switches
  <2>2. SwitchTok \in Token BY TokenTypes
  <2>3. SwitchTok.t = "avmplus" /\ SwitchTok.m = 0 BY DEF SwitchTok
  <2> QED BY <2>1, <2>2, <2>3
<1>6. CASE \E k \in Names : WritesKey(s, t, k) BY <1>6 DEF WritesKey
<1>7. CASE Ends(s, t) BY <1>7 DEF Ends
<1>8. CASE Returns(s, t) BY <1>8 DEF Returns
<1> QED BY <1>2, <1>3, <1>4, <1>5, <1>6, <1>7, <1>8 DEF WStep

\* What the reader does follows the writer: it goes on in step, it finds that
\* the end is missing, or it is done where the writer was.
Follows(s, t, F) ==
  \/ rstat' = "run" /\ stream' = stream /\ Matches(t)'
  \/ Failed /\ Len(stream) < Len(F)
  \/ /\ rstat' = "done" /\ UNCHANGED <<pos, rstack, objTab, made, stream>>
     /\ Returns(s, t) /\ Len(s.stack) = 1

\* The token that comes after a name is the one a value begins with.
GoesOn(t, F) ==
  t.stack # <<>> /\ TopOf(t).left > 0 =>
    Len(t.stream) < Len(F) /\ F[Len(t.stream) + 1].t \notin {"key", "end"}

\* Where in the stream a step of one token is.
LEMMA NextToken ==
  ASSUME ReaderTypeOK, NEW s, Typed(s), Matches(s), NEW t, NEW tok \in Token, Says(s, t, tok),
         NEW F \in Seq(Token), Extends(t.stream, F), Extends(stream, F), stream \in Seq(Token)
  PROVE  /\ pos \in Nat \ {0} /\ Len(stream) \in Nat /\ Len(F) \in Nat /\ Len(stream) <= Len(F)
         /\ pos <= Len(F) /\ F[pos] = tok /\ Len(t.stream) = pos
         /\ Len(t.stream) = Len(s.stream) + 1
         /\ pos <= Len(stream) => Tok = tok
         /\ pos < Len(stream) => stream[pos + 1] = F[pos + 1]
<1>1. /\ pos = Len(s.stream) + 1 /\ Len(s.stream) \in Nat /\ Len(stream) \in Nat /\ Len(F) \in Nat
      /\ s.stream \in Seq(Token)
  BY SnapshotTypes, Elements DEF Matches
<1>2. Len(t.stream) = pos /\ t.stream[pos] = tok
  BY <1>1, Appended DEF Says
<1>3. pos <= Len(F) /\ F[pos] = tok BY <1>1, <1>2 DEF Extends
<1>4. pos <= Len(stream) => Tok = tok BY <1>1, <1>3 DEF Extends, Tok
<1>5. pos < Len(stream) => stream[pos + 1] = F[pos + 1] BY <1>1 DEF Extends
<1> QED BY <1>1, <1>2, <1>3, <1>4, <1>5 DEF Extends
\* Where a value is due.
LEMMA FollowsValue ==
  ASSUME Faithful, ReaderTypeOK, ReaderTypeOK', stream \in Seq(Token), ReaderNext,
         NEW s, WInv(s), NEW t, WInv(t), WStep(s, t), Matches(s), s.stack # <<>>, TopOf(s).left > 0,
         NEW F \in Seq(Token), Extends(t.stream, F), Extends(stream, F)
  PROVE  Follows(s, t, F)
<1> DEFINE m == TopOf(s).m
           Missing == Failed /\ Len(stream) < Len(F)
           Found(tok) ==
             /\ ExpectsValue /\ Tok = tok /\ pos <= Len(stream)
             /\ \/ ReadScalar \/ ReadReference \/ ReadArray \/ ReadObject \/ ReadHash \/ ReadSwitch
<1>0. Typed(s) /\ Typed(t) /\ CachedMet(s) BY DEF WInv
<1>1. m \in {0, 3} /\ Len(s.stream) \in Nat /\ s.stream \in Seq(Token) BY <1>0, SnapshotTypes
<1>2. /\ RTop \in ReadFrame /\ FrameMatches(s, TopOf(s), RTop) /\ RMode = m
  BY <1>0, TopMatches
<1>3. ASSUME NEW tok \in Token, Says(s, t, tok), tok.m = m, tok.t \notin {"key", "end"},
             tok.t = "ref" => tok.n < Len(Table)
      PROVE  Missing \/ Found(tok)
  <2>1. Extends(Append(s.stream, tok), F) BY <1>3 DEF Says
  <2> QED BY <1>0, <1>3, <2>1, ReadsToken
<1>4. ASSUME NEW tok \in Token, Says(s, t, tok) PROVE Len(t.stream) = Len(s.stream) + 1
  BY <1>1, <1>4, Appended DEF Says
<1>5. ASSUME NEW tok, Found(tok) PROVE rstat = "run"
  BY <1>5 DEF ExpectsValue, More
<1>6. Missing => Follows(s, t, F) BY DEF Follows
<1>7. CASE \E v \in Scalars : GivesScalar(s, t, v)
  <2>1. PICK v \in Scalars : GivesScalar(s, t, v) BY <1>7
  <2> DEFINE tok == ScalarTok(m, v)
  <2>2. tok \in Token BY <1>1, TokenTypes
  <2>3. tok.t = "scalar" /\ tok.m = m /\ tok.v = v BY DEF ScalarTok
  <2>4. Says(s, t, tok) BY <2>1 DEF GivesScalar
  <2> HIDE DEF tok
  <2>5. Missing \/ Found(tok) BY <1>3, <2>2, <2>3, <2>4
  <2>6. ASSUME Found(tok) PROVE Follows(s, t, F)
    <3>1. ReadScalar
      BY <2>3, <2>6 DEF ReadReference, ReadArray, ReadObject, ReadHash, ReadSwitch
    <3>2. v = Decode(t, v) BY StreamAssumption DEF Decode
    <3>3. made' = Stored(RTop, Decode(t, v)) BY <2>3, <2>6, <3>1, <3>2 DEF ReadScalar
    <3>4. /\ rstack' = Append(RBelow, Taken(RTop)) /\ objTab' = objTab /\ pos' = pos + 1
          /\ stream' = stream /\ rstat' = rstat
      BY <3>1 DEF ReadScalar, Advance
    <3>5. /\ Serves(s, t) /\ Len(t.stack) = Len(s.stack) /\ SameTables(s, t) /\ t.met = s.met
          /\ \A p \in Holder : Stores(s, t, v, p)
      BY <2>1 DEF GivesScalar
    <3>6. Len(t.stream) = Len(s.stream) + 1 BY <1>4, <2>2, <2>4
    <3>7. pos <= Len(stream) BY <2>6
    <3>8. v \in Obj \cup Scalars OBVIOUS
    <3>9. Matches(t)' BY <3>3, <3>4, <3>5, <3>6, <3>7, <3>8, ReadsKnown
    <3> QED BY <1>5, <2>6, <3>4, <3>9 DEF Follows
  <2> QED BY <1>6, <2>5, <2>6
<1>8. CASE \E o \in Obj : GivesReference(s, t, o)
  <2>1. PICK o \in Obj : GivesReference(s, t, o) BY <1>8
  <2> DEFINE n == s.cache[m][o]
             tok == RefTok(m, n)
  <2>2. n \in Index /\ n # NotCached
    BY <1>0, <1>1, <2>1, SnapshotTypes DEF GivesReference
  <2>3. tok \in Token BY <1>1, <2>2, TokenTypes DEF Index
  <2>4. tok.t = "ref" /\ tok.m = m /\ tok.n = n BY DEF RefTok
  <2>5. Says(s, t, tok) BY <2>1 DEF GivesReference
  <2>6. Table = objTab[TableFor(m)] BY <1>2 DEF Table
  <2>7. /\ Serves(s, t) /\ Len(t.stack) = Len(s.stack) /\ SameTables(s, t) /\ t.met = s.met
        /\ \A p \in Holder : Stores(s, t, o, p)
    BY <2>1 DEF GivesReference
  <2>8. n + 1 \in 1 .. Len(Table) /\ Table[n + 1] = s.heap[o].nth
    BY <1>1, <2>2, <2>6 DEF Matches, TablesMatch, EntryMatches
  <2>9. Decode(t, o) = Table[n + 1]
    BY <2>7, <2>8 DEF Decode, Stores, Holder
  <2>10. n \in Nat /\ n < Len(Table)
    <3>1. n \in Nat BY <2>2 DEF Index
    <3> QED BY <2>8, <3>1
  <2> HIDE DEF tok, n
  <2>11. Missing \/ Found(tok) BY <1>3, <2>3, <2>4, <2>5, <2>10
  <2>12. ASSUME Found(tok) PROVE Follows(s, t, F)
    <3>1. ReadReference
      BY <2>4, <2>12 DEF ReadScalar, ReadArray, ReadObject, ReadHash, ReadSwitch
    <3>2. Tok.n = n BY <2>4, <2>12
    <3>3. made' = Stored(RTop, Decode(t, o)) BY <2>9, <2>10, <3>1, <3>2 DEF ReadReference
    <3>4. /\ rstack' = Append(RBelow, Taken(RTop)) /\ objTab' = objTab /\ pos' = pos + 1
          /\ stream' = stream /\ rstat' = rstat
      BY <3>1 DEF ReadReference, Advance
    <3>6. Len(t.stream) = Len(s.stream) + 1 BY <1>4, <2>3, <2>5
    <3>7. pos <= Len(stream) BY <2>12
    <3>8. o \in Obj \cup Scalars OBVIOUS
    <3>9. Matches(t)' BY <2>7, <3>3, <3>4, <3>6, <3>7, <3>8, ReadsKnown
    <3> QED BY <1>5, <2>12, <3>4, <3>9 DEF Follows
  <2> QED BY <1>6, <2>11, <2>12
<1>9. CASE \E o \in Obj, tok \in Token : GivesNew(s, t, o, tok)
  <2>1. PICK o \in Obj, tok \in Token : GivesNew(s, t, o, tok) BY <1>9
  <2> DEFINE g == t.stack[Len(s.stack) + 1]
             h == t.heap[o]
  <2>2. /\ Says(s, t, tok) /\ g.m = m /\ Announces(tok, g.m, h.kind, h.cls, g.left, g.props)
        /\ Len(t.stack) = Len(s.stack) + 1
    BY <2>1 DEF GivesNew
  <2>3. g.left \in Nat /\ h.cls \in ClassNames \cup {None}
    BY <1>0, <2>2, SnapshotTypes DEF Holder
  <2> HIDE DEF g, h
  <2>4. /\ tok.t = "array" => /\ tok = ArrayTok(m, g.left) /\ h.kind = "array" /\ h.cls = None
                              /\ g.props = FALSE /\ tok.n = g.left
        /\ tok.t = "object" => /\ tok = ObjectTok(h.cls) /\ h.kind = "object" /\ g.left = 0
                               /\ g.props = TRUE /\ m = 0 /\ tok.v = h.cls
        /\ tok.t = "hash" => /\ tok = HashTok /\ h.kind = "hash" /\ h.cls = None /\ g.left = 0
                             /\ g.props = TRUE /\ m = 0
        /\ tok.t \in {"array", "object", "hash"} /\ tok.m = m
    BY <2>2 DEF Announces, ArrayTok, ObjectTok, HashTok
  <2>5. Missing \/ Found(tok) BY <1>3, <2>2, <2>4
  <2>6. ASSUME NEW kind \in {"array", "object", "hash"}, NEW left \in Nat, NEW props \in BOOLEAN,
               Begin(kind, h.cls, NewReadFrame(0, m, left, props)), Advance, Found(tok),
               h.kind = kind, left = g.left, props = g.props
        PROVE  Follows(s, t, F)
    <3>1. pos' = pos + 1 /\ stream' = stream /\ rstat' = rstat BY <2>6 DEF Advance
    <3> DEFINE frame == NewReadFrame(0, m, left, props)
    <3>2. /\ frame \in ReadFrame /\ frame.m = m /\ frame.left = left /\ frame.props = props
          /\ frame.key = None /\ frame.switched = FALSE
      <4>1. \A x \in {0, 3}, y \in Nat, z \in BOOLEAN :
              LET f == NewReadFrame(0, x, y, z)
              IN  /\ f \in ReadFrame /\ f.m = x /\ f.left = y /\ f.props = z
                  /\ f.key = None /\ f.switched = FALSE
        BY DEF NewReadFrame, ReadFrame
      <4> HIDE DEF m
      <4> QED BY <1>1, <4>1
    <3>3. Begin(kind, h.cls, frame) BY <2>6
    <3> HIDE DEF frame
    <3>4. pos <= Len(stream) BY <2>6
    <3>5. Matches(t)'
      BY <2>1, <2>3, <2>6, <3>1, <3>2, <3>3, <3>4, ReadsNew DEF g, h
    <3> QED BY <1>5, <2>6, <3>1, <3>5 DEF Follows
  <2>7. ASSUME Found(tok) PROVE Follows(s, t, F)
    <3>1. CASE tok.t = "array"
      <4>1. ReadArray
        BY <2>7, <3>1 DEF ReadScalar, ReadReference, ReadObject, ReadHash, ReadSwitch
      <4>2. Begin("array", None, NewReadFrame(0, RMode, Tok.n, FALSE)) /\ Advance
        BY <4>1 DEF ReadArray
      <4>3. Begin("array", h.cls, NewReadFrame(0, m, g.left, FALSE))
        BY <1>2, <2>4, <2>7, <3>1, <4>2
      <4> QED BY <2>3, <2>4, <2>6, <2>7, <3>1, <4>2, <4>3
    <3>2. CASE tok.t = "object"
      <4>1. ReadObject
        BY <2>7, <3>2 DEF ReadScalar, ReadReference, ReadArray, ReadHash, ReadSwitch
      <4>2. Begin("object", Tok.v, NewReadFrame(0, 0, 0, TRUE)) /\ Advance
        BY <4>1 DEF ReadObject
      <4>3. Begin("object", h.cls, NewReadFrame(0, m, 0, TRUE))
        BY <2>4, <2>7, <3>2, <4>2
      <4> QED BY <2>3, <2>4, <2>6, <2>7, <3>2, <4>2, <4>3
    <3>3. CASE tok.t = "hash"
      <4>1. ReadHash
        BY <2>7, <3>3 DEF ReadScalar, ReadReference, ReadArray, ReadObject, ReadSwitch
      <4>2. Begin("hash", None, NewReadFrame(0, 0, 0, TRUE)) /\ Advance
        BY <4>1 DEF ReadHash
      <4>3. Begin("hash", h.cls, NewReadFrame(0, m, 0, TRUE))
        BY <2>4, <2>7, <3>3, <4>2
      <4> QED BY <2>3, <2>4, <2>6, <2>7, <3>3, <4>2, <4>3
    <3> QED BY <2>4, <3>1, <3>2, <3>3
  <2> QED BY <1>6, <2>5, <2>7
<1>10. CASE Switches(s, t)
  <2>1. Says(s, t, SwitchTok) /\ m = 0 BY <1>10 DEF Switches
  <2>2. SwitchTok \in Token BY TokenTypes
  <2>3. SwitchTok.t = "avmplus" /\ SwitchTok.m = 0 BY DEF SwitchTok
  <2>4. Missing \/ Found(SwitchTok) BY <1>3, <2>1, <2>2, <2>3
  <2>5. ASSUME Found(SwitchTok) PROVE Follows(s, t, F)
    <3>1. ReadSwitch
      BY <2>3, <2>5 DEF ReadScalar, ReadReference, ReadArray, ReadObject, ReadHash
    <3>2. pos <= Len(stream) BY <2>5
    <3>3. Matches(t)' BY <1>10, <3>1, <3>2, ReadsSwitch
    <3>4. stream' = stream /\ rstat' = rstat BY <3>1 DEF ReadSwitch, Advance
    <3> QED BY <1>5, <2>5, <3>3, <3>4 DEF Follows
  <2> QED BY <1>6, <2>4, <2>5
<1>11. ~(\E k \in Names : WritesKey(s, t, k)) /\ ~Ends(s, t) /\ ~Returns(s, t)
  BY <1>0, SnapshotTypes DEF WritesKey, Ends, Returns
<1> QED BY <1>7, <1>8, <1>9, <1>10, <1>11 DEF WStep
\* Where a name is due.
LEMMA FollowsName ==
  ASSUME ReaderTypeOK, ReaderTypeOK', stream \in Seq(Token), rstat = "run", ReaderNext,
         NEW s, WInv(s), NEW t, WInv(t), WStep(s, t), Matches(s), s.stack # <<>>,
         TopOf(s).left = 0, TopOf(s).props = TRUE,
         NEW F \in Seq(Token), Extends(t.stream, F), Extends(stream, F), GoesOn(t, F)
  PROVE  Follows(s, t, F)
<1>0. Typed(s) /\ Typed(t) BY DEF WInv
<1>1. /\ rstack # <<>> /\ RTop \in ReadFrame /\ FrameMatches(s, TopOf(s), RTop)
  BY <1>0, TopMatches
<1>2. RTop.left = 0 /\ RTop.props = TRUE BY <1>1 DEF FrameMatches
<1>3. ReadProps \/ ReadRaises
  <2>1. ~ExpectsValue BY <1>2 DEF ExpectsValue
  <2>2. ~Complete(RTop) BY <1>2 DEF Complete
  <2> QED BY <2>1, <2>2 DEF ReaderNext, ReadScalar, ReadReference, ReadArray, ReadObject, ReadHash,
                            ReadSwitch, ReadReturn, ReadDone
<1>4. /\ ReadRaises => Failed
      /\ Failed /\ Len(stream) < Len(F) => Follows(s, t, F)
      /\ ReadRaises => AtEnd \/ BeyondEnd \/ Misplaced
  BY DEF ReadRaises, Failed, Follows
<1>5. ~BeyondEnd BY <1>2 DEF BeyondEnd, ExpectsValue
<1>6. CASE \E k \in Names : WritesKey(s, t, k)
  <2>1. PICK k \in Names : WritesKey(s, t, k) BY <1>6
  <2>2. KeyTok(k) \in Token /\ KeyTok(k).t = "key" /\ KeyTok(k).v = k
    <3>1. KeyTok(k).t = "key" /\ KeyTok(k).v = k BY DEF KeyTok
    <3> QED BY <3>1, TokenTypes
  <2>3. Says(s, t, KeyTok(k)) BY <2>1 DEF WritesKey
  <2>4. /\ pos \in Nat \ {0} /\ Len(stream) \in Nat /\ Len(F) \in Nat /\ Len(t.stream) = pos
        /\ pos <= Len(stream) => Tok = KeyTok(k)
        /\ pos < Len(stream) => stream[pos + 1] = F[pos + 1]
    BY <1>0, <2>2, <2>3, NextToken
  <2>5. pos < Len(F) /\ F[pos + 1].t # "end"
    <3>1. t.stack # <<>> /\ TopOf(t).left > 0
      <4>1. Len(t.stack) = Len(s.stack) /\ TopOf(t).left = 1 BY <2>1 DEF WritesKey, Turns
      <4>2. Len(s.stack) \in Nat \ {0} BY <1>0, SnapshotTypes
      <4>3. t.stack \in Seq(Frame) BY <1>0 DEF Typed
      <4> QED BY <4>1, <4>2, <4>3, Elements
    <3> QED BY <2>4, <3>1 DEF GoesOn
  <2>6. ~EndFollows BY <2>4, <2>5 DEF EndFollows
  <2>7. CASE ReadRaises
    <3>1. Len(stream) < Len(F)
      <4>1. CASE pos < Len(stream)
        <5>1. ~AtEnd BY <2>4, <4>1 DEF AtEnd
        <5>2. Tok.t = "key" BY <2>2, <2>4, <4>1
        <5>3. ~Misplaced BY <1>2, <2>6, <5>2 DEF Misplaced
        <5> QED BY <1>4, <1>5, <2>7, <5>1, <5>3
      <4>2. CASE ~(pos < Len(stream)) BY <2>4, <2>5, <4>2
      <4> QED BY <4>1, <4>2
    <3> QED BY <1>4, <2>7, <3>1
  <2>8. CASE ReadProps
    <3>1. pos < Len(stream) BY <2>8 DEF ReadProps
    <3>2. /\ rstack' = Append(RBelow, [RTop EXCEPT !.left = 1, !.key = Tok.v]) /\ pos' = pos + 1
          /\ UNCHANGED <<objTab, made, stream>> /\ rstat' = rstat
      BY <2>6, <2>8 DEF ReadProps
    <3>3. Tok.v = k BY <2>2, <2>4, <3>1
    <3>4. rstack' = Append(RBelow, [RTop EXCEPT !.left = 1, !.key = k]) BY <3>2, <3>3
    <3>5. pos <= Len(stream) BY <2>4, <3>1
    <3>6. Matches(t)' BY <2>1, <3>2, <3>4, <3>5, ReadsKey
    <3> QED BY <3>2, <3>6 DEF Follows
  <2> QED BY <1>3, <2>7, <2>8
<1>7. CASE Ends(s, t)
  <2>1. /\ Len(s.stream) \in Nat /\ s.stream \in Seq(Token) /\ pos = Len(s.stream) + 1
        /\ Len(stream) \in Nat /\ Len(F) \in Nat
    BY <1>0, SnapshotTypes, Elements DEF Matches
  <2>2. t.stream = s.stream \o <<KeyTok(Empty), EndTok>> BY <1>7 DEF Ends
  <2>3. KeyTok(Empty) \in Token /\ EndTok \in Token BY TokenTypes, StreamAssumption
  <2>4. /\ KeyTok(Empty).t = "key" /\ KeyTok(Empty).v = Empty /\ EndTok.t = "end"
    BY DEF KeyTok, EndTok
  <2>5. /\ Len(t.stream) = pos + 1 /\ t.stream[pos] = KeyTok(Empty) /\ t.stream[pos + 1] = EndTok
    BY <2>1, <2>2, <2>3, TwoMore
  <2>6. pos + 1 <= Len(F) /\ F[pos] = KeyTok(Empty) /\ F[pos + 1] = EndTok
    BY <2>1, <2>5 DEF Extends
  <2>7. ASSUME pos < Len(stream) PROVE Tok = KeyTok(Empty) /\ EndFollows
    <3>1. stream[pos] = F[pos] /\ stream[pos + 1] = F[pos + 1] BY <2>1, <2>7 DEF Extends
    <3> QED BY <2>4, <2>6, <2>7, <3>1 DEF EndFollows, Tok
  <2>8. CASE ReadRaises
    <3>1. Len(stream) < Len(F)
      <4>1. CASE pos < Len(stream)
        <5>1. ~AtEnd BY <2>1, <4>1 DEF AtEnd
        <5>2. Tok.t = "key" /\ Tok.v = Empty BY <2>4, <2>7, <4>1
        <5>3. ~Misplaced BY <1>2, <5>2 DEF Misplaced
        <5> QED BY <1>4, <1>5, <2>8, <5>1, <5>3
      <4>2. CASE ~(pos < Len(stream)) BY <2>1, <2>6, <4>2
      <4> QED BY <4>1, <4>2
    <3> QED BY <1>4, <2>8, <3>1
  <2>9. CASE ReadProps
    <3>1. pos < Len(stream) BY <2>9 DEF ReadProps
    <3>2. /\ rstack' = Append(RBelow, [RTop EXCEPT !.props = FALSE]) /\ pos' = pos + 2
          /\ UNCHANGED <<objTab, made, stream>> /\ rstat' = rstat
      BY <2>7, <2>9, <3>1 DEF ReadProps
    <3>3. Matches(t)' BY <1>7, <3>1, <3>2, ReadsEnd
    <3> QED BY <3>2, <3>3 DEF Follows
  <2> QED BY <1>3, <2>8, <2>9
<1>8. /\ ~(\E v \in Scalars : GivesScalar(s, t, v)) /\ ~(\E o \in Obj : GivesReference(s, t, o))
      /\ ~(\E o \in Obj, tok \in Token : GivesNew(s, t, o, tok))
      /\ ~Switches(s, t) /\ ~Returns(s, t)
  BY DEF GivesScalar, GivesReference, GivesNew, Serves, Switches, Returns
<1> QED BY <1>6, <1>7, <1>8 DEF WStep

\* Where everything a function owes is there.
LEMMA FollowsReturn ==
  ASSUME ReaderTypeOK, ReaderTypeOK', rstat = "run", ReaderNext,
         NEW s, WInv(s), NEW t, WInv(t), WStep(s, t), Matches(s), s.stack # <<>>,
         TopOf(s).left = 0, TopOf(s).props = FALSE, NEW F
  PROVE  Follows(s, t, F)
<1>0. Typed(s) /\ Typed(t) BY DEF WInv
<1>1. /\ rstack # <<>> /\ RTop \in ReadFrame /\ FrameMatches(s, TopOf(s), RTop)
      /\ Len(rstack) = Len(s.stack)
  BY <1>0, TopMatches
<1>2. RTop.left = 0 /\ RTop.props = FALSE BY <1>1 DEF FrameMatches
<1>3. ReadReturn \/ ReadDone
  <2>1. ~ExpectsValue BY <1>2 DEF ExpectsValue
  <2>2. ~ExpectsKey BY <1>2 DEF ExpectsKey
  <2>3. Complete(RTop) BY <1>2 DEF Complete
  <2> QED BY <2>1, <2>2, <2>3
          DEF ReaderNext, ReadScalar, ReadReference, ReadArray, ReadObject, ReadHash,
              ReadSwitch, ReadProps, ReadRaises
<1>4. Returns(s, t)
  BY DEF WStep, GivesScalar, GivesReference, GivesNew, Serves, Switches, WritesKey, Ends
<1>5. CASE ReadReturn
  <2>1. rstack' = RBelow /\ UNCHANGED <<pos, objTab, made, stream>> /\ rstat' = rstat
    BY <1>5 DEF ReadReturn
  <2>2. Matches(t)' BY <1>4, <2>1, ReadsReturn
  <2> QED BY <2>1, <2>2 DEF Follows
<1>6. CASE ReadDone BY <1>1, <1>4, <1>6 DEF ReadDone, Follows
<1> QED BY <1>3, <1>5, <1>6

LEMMA Simulates ==
  ASSUME Faithful, ReaderTypeOK, ReaderTypeOK', stream \in Seq(Token), rstat = "run", ReaderNext,
         NEW s, WInv(s), NEW t, WInv(t), WStep(s, t), Matches(s),
         NEW F \in Seq(Token), Extends(t.stream, F), Extends(stream, F), GoesOn(t, F)
  PROVE  Follows(s, t, F)
<1>1. s.stack # <<>>
  BY DEF WStep, GivesScalar, GivesReference, GivesNew, Serves, Switches, WritesKey, Ends, Turns, Returns
<1>2. TopOf(s).left \in Nat /\ TopOf(s).props \in BOOLEAN BY <1>1, SnapshotTypes DEF WInv
<1>3. CASE TopOf(s).left > 0 BY <1>1, <1>3, FollowsValue
<1>4. CASE TopOf(s).left = 0 /\ TopOf(s).props = TRUE BY <1>1, <1>4, FollowsName
<1>5. CASE TopOf(s).left = 0 /\ TopOf(s).props = FALSE BY <1>1, <1>5, FollowsReturn
<1>6. TopOf(s).left > 0 \/ TopOf(s).left = 0 BY <1>2
<1>7. TopOf(s).props = TRUE \/ TopOf(s).props = FALSE BY <1>2, Zenon
<1> QED BY <1>3, <1>4, <1>5, <1>6, <1>7, Zenon
\* Only the last function closes the stack, and then the reader is done.
LEMMA StaysOpen ==
  ASSUME ReaderTypeOK, ReaderNext, rstat' = "run",
         NEW s, WInv(s), NEW t, WInv(t), WStep(s, t), Matches(s)
  PROVE  t.stack # <<>>
<1>0. Typed(s) /\ Typed(t) BY DEF WInv
<1>1. s.stack # <<>>
  BY DEF WStep, GivesScalar, GivesReference, GivesNew, Serves, Switches, WritesKey, Ends, Turns, Returns
<1>2. Len(s.stack) \in Nat \ {0} /\ t.stack \in Seq(Frame) BY <1>0, <1>1, SnapshotTypes DEF Typed
<1>3. Len(t.stack) > 0
  <2>1. CASE Returns(s, t)
    <3>1. /\ rstack # <<>> /\ RTop \in ReadFrame /\ FrameMatches(s, TopOf(s), RTop)
          /\ Len(rstack) = Len(s.stack)
      BY <1>0, <1>1, TopMatches
    <3>2. RTop.left = 0 /\ RTop.props = FALSE BY <2>1, <3>1 DEF FrameMatches, Returns
    <3>3. ReadReturn
      <4>1. ~ExpectsValue BY <3>2 DEF ExpectsValue
      <4>2. ~ExpectsKey BY <3>2 DEF ExpectsKey
      <4>3. Complete(RTop) BY <3>2 DEF Complete
      <4> QED BY <4>1, <4>2, <4>3
              DEF ReaderNext, ReadScalar, ReadReference, ReadArray, ReadObject, ReadHash,
                  ReadSwitch, ReadProps, ReadRaises, ReadDone
    <3>4. Len(s.stack) > 1 BY <3>1, <3>3 DEF ReadReturn
    <3> QED BY <1>2, <2>1, <3>4 DEF Returns
  <2>2. CASE ~Returns(s, t)
    <3>1. Len(t.stack) = Len(s.stack) \/ Len(t.stack) = Len(s.stack) + 1
      BY <2>2 DEF WStep, GivesScalar, GivesReference, GivesNew, Switches, WritesKey, Ends, Turns
    <3> QED BY <1>2, <3>1
  <2> QED BY <2>1, <2>2
<1> QED BY <1>2, <1>3, Elements

-----------------------------------------------------------------------------
(***************************************************************************)
(* The story of a message: the snapshots of the writer from the first to   *)
(* the last, and the one the reader has come to.                           *)
(***************************************************************************)
Fresh(s) ==
  /\ s.stream = <<>> /\ s.met = 1 /\ s.index[0] = 0 /\ s.index[3] = 0
  /\ Len(s.stack) = 1
  /\ s.stack[1].obj = Root /\ s.stack[1].m = 0 /\ s.stack[1].left = 1
  /\ s.stack[1].props = FALSE /\ s.stack[1].key = None
  /\ \A m \in {0, 3}, o \in Obj : s.cache[m][o] = NotCached
  /\ s.heap[Root].kind = "root" /\ s.heap[Root].cls = None
  /\ s.heap[Root].nth = 1 /\ s.heap[Root].kids = <<>>
  /\ \A o \in Obj : s.heap[o].kind = "unmet" /\ s.heap[o].nth = 0 /\ s.heap[o].kids = <<>>
  /\ s.switched = FALSE

Told(H, n) ==
  /\ n \in Nat \ {0}
  /\ Fresh(H[1])
  /\ \A i \in 1 .. n : WInv(H[i]) /\ Earlier(H[i], H[n])
  /\ \A i \in 1 .. n - 1 : WStep(H[i], H[i + 1])

Ready ==
  /\ pos = 1 /\ rstack = <<NewReadFrame(1, 0, 1, FALSE)>>
  /\ objTab = [t \in {"refs", "objects"} |-> <<>>] /\ made = <<MadeNode("root", None)>>

Writing(s) == s = Now /\ Ready

Ended(s) ==
  /\ s.stack = <<>> /\ s.cache = cache /\ s.index = index /\ s.heap = heap /\ s.met = met
  /\ Extends(stream, s.stream) /\ sent = Len(s.stream)
Reading(H, n) ==
  /\ Ended(H[n])
  /\ \E k \in 1 .. n :
       /\ Matches(H[k])
       /\ rstat = "run" => H[k].stack # <<>>
       /\ rstat = "done" => Returns(H[k], H[n])
       /\ rstat = "error" => Len(stream) < sent

Story(H, n) ==
  /\ Told(H, n)
  /\ rstat = "idle" => Writing(H[n])
  /\ rstat # "idle" => Reading(H, n)

StoryInv == TypeOK /\ \E H, n : Story(H, n)

\* What the first snapshot satisfies.
LEMMA FreshInv == ASSUME NEW s, Typed(s), Fresh(s) PROVE WInv(s)
<1>1. Numbered(s)
  <2>1. ~Met(s, Root) => FALSE BY DEF Fresh, Met
  <2>2. \A o \in Obj : ~Met(s, o) BY DEF Fresh, Met
  <2> QED BY <2>1, <2>2 DEF Fresh, Numbered, Holder
<1>2. KidsMet(s) BY DEF Fresh, KidsMet, Holder
<1>3. CachedMet(s) BY DEF Fresh, CachedMet
<1>4. Framed(s) BY DEF Fresh, Framed, Met
<1>5. RootOnce(s) BY DEF Fresh, RootOnce
<1>6. InPart(s) BY DEF Fresh, InPart
<1>7. Counted(s)
  <2> DEFINE K == {o \in Obj : Met(s, o)}
  <2>1. K = {} BY DEF Fresh, Met
  <2>2. Cardinality(K) = 0 BY <2>1, FS_EmptySet
  <2> QED BY <2>2 DEF Fresh, Counted
<1> QED BY <1>1, <1>2, <1>3, <1>4, <1>5, <1>6, <1>7 DEF WInv

\* It is what a reader that has not begun matches.
LEMMA FreshMatches ==
  ASSUME NEW s, Typed(s), Fresh(s), Ready
  PROVE  /\ pos = Len(s.stream) + 1 /\ FramesMatch(s, rstack) /\ MadeMatches(s, made)
         /\ TablesMatch(s, objTab)
<1>1. pos = Len(s.stream) + 1 BY DEF Ready, Fresh
<1>2. FramesMatch(s, rstack)
  <2> DEFINE r == NewReadFrame(1, 0, 1, FALSE)
             f == s.stack[1]
  <2>1. r.node = 1 /\ r.m = 0 /\ r.left = 1 /\ r.props = FALSE /\ r.key = None /\ r.switched = FALSE
    BY DEF NewReadFrame
  <2>2. /\ f.obj = Root /\ f.m = 0 /\ f.left = 1 /\ f.props = FALSE /\ f.key = None
        /\ s.heap[Root].nth = 1 /\ Len(s.stack) = 1
    BY DEF Fresh
  <2>3. OwnOf(s, f) = 0 BY <2>2 DEF OwnOf
  <2>4. rstack = <<r>> BY DEF Ready
  <2> HIDE DEF r, f
  <2>5. Len(rstack) = 1 /\ rstack[1] = r BY <2>4
  <2>6. FrameMatches(s, f, r) BY <2>1, <2>2, <2>3 DEF FrameMatches
  <2> QED BY <2>2, <2>5, <2>6 DEF FramesMatch, f
<1>3. MadeMatches(s, made)
  <2> DEFINE x == MadeNode("root", None)
  <2>1. x.kind = "root" /\ x.cls = None /\ x.kids = <<>> BY DEF MadeNode
  <2>2. made = <<x>> BY DEF Ready
  <2> HIDE DEF x
  <2>3. Len(made) = 1 /\ made[1] = x BY <2>2
  <2>4. \A o \in Holder : Met(s, o) => o = Root BY DEF Fresh, Met, Holder
  <2>5. NodeMatches(s, s.heap[Root], x) BY <2>1 DEF NodeMatches, Fresh
  <2> QED BY <2>3, <2>4, <2>5 DEF MadeMatches, Fresh
<1>4. TablesMatch(s, objTab)
  <2>1. objTab["refs"] = <<>> /\ objTab["objects"] = <<>> BY DEF Ready
  <2>2. Len(objTab["refs"]) = 0 /\ Len(objTab["objects"]) = 0 BY <2>1
  <2> QED BY <2>2 DEF TablesMatch, LengthsMatch, EntryMatches, Fresh
<1> QED BY <1>1, <1>2, <1>3, <1>4

LEMMA ToldMore ==
  ASSUME Faithful, NEW H, NEW n, Told(H, n), NEW t, Typed(t), WStep(H[n], t)
  PROVE  \E G : Told(G, n + 1) /\ G[n + 1] = t
<1> DEFINE G == [i \in 1 .. n + 1 |-> IF i <= n THEN H[i] ELSE t]
<1>0. n \in Nat \ {0} /\ n \in 1 .. n BY DEF Told
<1>1. G[n + 1] = t /\ \A i \in 1 .. n : G[i] = H[i] BY <1>0
<1> HIDE DEF G
<1>2. WInv(H[n]) /\ Typed(H[n]) BY <1>0 DEF Told, WInv
<1>3. WInv(t) BY <1>2, StepKeeps
<1>4. Earlier(H[n], t) BY <1>2, StepEarlier
<1>5. Earlier(t, t) BY <1>3, EarlierItself
<1>6. ASSUME NEW i \in 1 .. n + 1 PROVE WInv(G[i]) /\ Earlier(G[i], t)
  <2>1. CASE i \in 1 .. n
    <3>1. WInv(H[i]) /\ Earlier(H[i], H[n]) /\ Typed(H[i]) BY <2>1 DEF Told, WInv
    <3>2. Earlier(H[i], t) BY <1>2, <1>4, <3>1, EarlierTransitive
    <3> QED BY <1>1, <2>1, <3>1, <3>2
  <2>2. CASE i = n + 1 BY <1>1, <1>3, <1>5, <2>2
  <2> QED BY <1>0, <2>1, <2>2
<1>7. ASSUME NEW i \in 1 .. n + 1 - 1 PROVE WStep(G[i], G[i + 1])
  <2>1. CASE i = n BY <1>0, <1>1, <2>1
  <2>2. CASE i # n
    <3>1. i \in 1 .. n - 1 /\ i \in 1 .. n /\ i + 1 \in 1 .. n BY <1>0, <2>2
    <3> QED BY <1>1, <3>1 DEF Told
  <2> QED BY <2>1, <2>2
<1>8. Fresh(G[1])
  <2>1. 1 \in 1 .. n BY <1>0
  <2> QED BY <1>1, <2>1 DEF Told
<1>9. n + 1 \in Nat \ {0} BY <1>0
<1>10. Told(G, n + 1) BY <1>1, <1>6, <1>7, <1>8, <1>9 DEF Told
<1> QED BY <1>1, <1>10
LEMMA StoryBegins == Init /\ TypeOK => StoryInv
<1> SUFFICES ASSUME Init, TypeOK PROVE StoryInv
  OBVIOUS
<1>1. PICK s : s = Now OBVIOUS
<1>2. /\ s.stream = stream /\ s.cache = cache /\ s.index = index /\ s.stack = stack
      /\ s.heap = heap /\ s.met = met /\ s.switched = switched
  BY <1>1, Zenon DEF Now
<1>3. Typed(s) BY <1>1, NowTyped DEF TypeOK
<1>4. Fresh(s)
  <2> DEFINE f == NewFrame(Root, 0, 1, FALSE)
  <2>1. f.obj = Root /\ f.m = 0 /\ f.left = 1 /\ f.props = FALSE /\ f.key = None BY DEF NewFrame
  <2>2. stack = <<f>> BY DEF Init, WriterInit
  <2> HIDE DEF f
  <2>3. Len(stack) = 1 /\ stack[1] = f BY <2>2
  <2>4. /\ stream = <<>> /\ met = 1 /\ index[0] = 0 /\ index[3] = 0 /\ switched = FALSE
        /\ \A m \in {0, 3}, o \in Obj : cache[m][o] = NotCached
    BY DEF Init, WriterInit
  <2>5. /\ heap[Root].kind = "root" /\ heap[Root].cls = None
        /\ heap[Root].nth = 1 /\ heap[Root].kids = <<>>
    BY DEF Init, WriterInit, Unmet
  <2>6. \A o \in Obj : heap[o].kind = "unmet" /\ heap[o].nth = 0 /\ heap[o].kids = <<>>
    BY WriterAssumption DEF Init, WriterInit, Unmet
  <2> QED BY <1>2, <2>1, <2>3, <2>4, <2>5, <2>6 DEF Fresh
<1>5. WInv(s) BY <1>3, <1>4, FreshInv
<1> DEFINE H == [i \in {1} |-> s]
<1>6. H[1] = s OBVIOUS
<1> HIDE DEF H
<1>7. Told(H, 1)
  <2>1. Earlier(s, s) BY <1>5, EarlierItself
  <2>2. \A i \in 1 .. 1 : i = 1 OBVIOUS
  <2>3. 1 .. 1 - 1 = {} OBVIOUS
  <2> QED BY <1>4, <1>5, <1>6, <2>1, <2>2, <2>3 DEF Told
<1>8. Writing(H[1]) /\ rstat = "idle"
  BY <1>1, <1>6 DEF Writing, Ready, Init, ReaderInit
<1>9. Story(H, 1) BY <1>7, <1>8 DEF Story
<1> QED BY <1>9 DEF StoryInv

\* The reader's step, against the writer's.
LEMMA ReadGoesOn ==
  ASSUME Faithful, TypeOK, TypeOK', Read, NEW H, NEW n, Story(H, n)
  PROVE  Story(H, n)'
<1>1. ReaderNext /\ UNCHANGED <<cache, index, stack, heap, met, switched, wstat, sent>>
  BY DEF Read, writerState
<1>2. rstat = "run"
  BY <1>1 DEF ReaderNext, ReadScalar, ReadReference, ReadArray, ReadObject, ReadHash, ReadSwitch,
              ReadProps, ReadReturn, ReadDone, ReadRaises, ExpectsValue, ExpectsKey, More
<1>3. Told(H, n) /\ Reading(H, n) BY <1>2 DEF Story
<1>4. PICK k \in 1 .. n : Matches(H[k]) /\ H[k].stack # <<>> BY <1>2, <1>3 DEF Reading
<1>5. n \in Nat \ {0} /\ k \in Nat /\ Ended(H[n]) BY <1>3 DEF Told, Reading
<1>6. k # n BY <1>4, <1>5 DEF Ended
<1>7. k \in 1 .. n - 1 /\ k + 1 \in 1 .. n /\ n \in 1 .. n BY <1>5, <1>6
<1> DEFINE s == H[k]
           t == H[k + 1]
           F == H[n].stream
<1>8. /\ WInv(s) /\ WInv(t) /\ WStep(s, t) /\ Earlier(t, H[n]) /\ Typed(H[n])
  BY <1>3, <1>7 DEF Told, WInv
<1>9. F \in Seq(Token) /\ Extends(t.stream, F) /\ Extends(stream, F)
  BY <1>5, <1>8 DEF Typed, Earlier, Ended
<1>10. GoesOn(t, F)
  <2> SUFFICES ASSUME t.stack # <<>>, TopOf(t).left > 0
               PROVE  Len(t.stream) < Len(F) /\ F[Len(t.stream) + 1].t \notin {"key", "end"}
    BY DEF GoesOn
  <2>1. k + 1 # n BY <1>5 DEF Ended
  <2>2. k + 1 \in 1 .. n - 1 /\ k + 1 + 1 \in 1 .. n BY <1>5, <1>7, <2>1
  <2> DEFINE u == H[k + 1 + 1]
  <2>3. WStep(t, u) /\ Earlier(u, H[n]) /\ Typed(t)
    BY <1>3, <1>8, <2>2 DEF Told, WInv
  <2> HIDE DEF u, t, F
  <2>4. PICK tok \in Token : Says(t, u, tok) /\ tok.t \notin {"key", "end"}
    BY <1>8, <2>3, Speaks
  <2>5. t.stream \in Seq(Token) /\ Len(t.stream) \in Nat BY <2>3, SnapshotTypes
  <2>6. Len(u.stream) = Len(t.stream) + 1 /\ u.stream[Len(t.stream) + 1] = tok
    BY <2>4, <2>5, Appended DEF Says
  <2>7. Extends(u.stream, F) BY <2>3 DEF Earlier, F
  <2>8. Len(F) \in Nat BY <1>9, Elements
  <2> QED BY <2>4, <2>5, <2>6, <2>7, <2>8 DEF Extends
<1> HIDE DEF s, t, F
<1>11. /\ ReaderTypeOK /\ ReaderTypeOK' /\ stream \in Seq(Token)
       /\ Matches(s)
  BY <1>4 DEF TypeOK, WriterTypeOK, s
<1>12. Follows(s, t, F)
  BY <1>1, <1>2, <1>8, <1>9, <1>10, <1>11, Simulates
<1>13. Told(H, n)' BY <1>3
<1>14. rstat' # "idle" BY <1>12 DEF Follows, Failed
<1>15. CASE rstat' = "run" /\ stream' = stream /\ Matches(t)'
  <2>1. t.stack # <<>> BY <1>1, <1>8, <1>11, <1>15, StaysOpen
  <2>2. Ended(H[n])' BY <1>1, <1>5, <1>15 DEF Ended
  <2>3. Reading(H, n)'
    <3>1. Matches(H[k + 1])' /\ H[k + 1].stack # <<>> BY <1>15, <2>1 DEF t
    <3> QED BY <1>7, <1>15, <2>2, <3>1 DEF Reading
  <2> QED BY <1>13, <1>14, <2>3 DEF Story
<1>16. ASSUME UNCHANGED <<pos, rstack, objTab, made, stream>>
       PROVE  Matches(H[k])' /\ Ended(H[n])'
  <2>1. Matches(H[k])' BY <1>4, <1>16 DEF Matches
  <2>2. Ended(H[n])' BY <1>1, <1>5, <1>16 DEF Ended
  <2> QED BY <2>1, <2>2
<1>17. CASE Failed /\ Len(stream) < Len(F)
  <2>1. Matches(H[k])' /\ Ended(H[n])' BY <1>16, <1>17 DEF Failed
  <2>2. Len(stream') < sent' BY <1>1, <1>5, <1>17 DEF Ended, Failed, F
  <2>3. rstat' = "error" BY <1>17 DEF Failed
  <2>4. Reading(H, n)' BY <2>1, <2>2, <2>3 DEF Reading
  <2> QED BY <1>13, <1>14, <2>4 DEF Story
<1>18. CASE /\ rstat' = "done" /\ UNCHANGED <<pos, rstack, objTab, made, stream>>
            /\ Returns(s, t) /\ Len(s.stack) = 1
  <2>1. Matches(H[k])' /\ Ended(H[n])' BY <1>16, <1>18
  <2>2. t.stack = <<>>
    <3>1. Len(t.stack) = 0 BY <1>18 DEF Returns
    <3>2. t.stack \in Seq(Frame) BY <1>8 DEF WInv, Typed
    <3> QED BY <3>1, <3>2, Elements
  <2>3. k + 1 = n
    <3> SUFFICES ASSUME k + 1 # n PROVE FALSE
      OBVIOUS
    <3>1. k + 1 \in 1 .. n - 1 BY <1>5, <1>7
    <3>2. WStep(t, H[k + 1 + 1]) BY <1>3, <3>1 DEF Told, t
    <3>3. t.stack # <<>>
      BY <3>2 DEF WStep, GivesScalar, GivesReference, GivesNew, Serves, Switches, WritesKey, Ends,
                  Turns, Returns
    <3> QED BY <2>2, <3>3
  <2>4. Returns(H[k], H[n]) BY <1>18, <2>3 DEF s, t
  <2>5. Reading(H, n)' BY <1>18, <2>1, <2>4 DEF Reading
  <2> QED BY <1>13, <1>14, <2>5 DEF Story
<1> QED BY <1>12, <1>15, <1>17, <1>18 DEF Follows
LEMMA StoryKept ==
  ASSUME Faithful, TypeOK, TypeOK', [Next]_vars, \E H, n : Story(H, n)
  PROVE  \E H, n : Story(H, n)'
<1>1. PICK H, n : Story(H, n) OBVIOUS
<1>2. Told(H, n) /\ n \in Nat \ {0} /\ n \in 1 .. n BY <1>1 DEF Story, Told
<1>3. WInv(H[n]) BY <1>2 DEF Told
<1>4. CASE Write
  <2>1. /\ rstat = "idle" /\ WriterNext
        /\ UNCHANGED <<pos, rstack, objTab, made, rstat, sent>>
    BY <1>4 DEF Write, readerVars
  <2>2. H[n] = Now /\ Ready BY <1>1, <2>1 DEF Story, Writing
  <2>3. PICK t : t = Now' OBVIOUS
  <2>4. Ready' /\ rstat' = "idle" BY <2>1, <2>2 DEF Ready
  <2>5. WriterTypeOK /\ WriterTypeOK' BY DEF TypeOK
  <2>6. WStep(H[n], t) \/ H[n] = t BY <1>3, <2>1, <2>2, <2>3, <2>5, Steps
  <2>7. CASE H[n] = t
    <3>1. Writing(H[n])' BY <2>3, <2>4, <2>7 DEF Writing
    <3>2. Story(H, n)' BY <1>2, <2>4, <3>1 DEF Story
    <3> QED BY <3>2
  <2>8. CASE WStep(H[n], t)
    <3>1. Typed(t)
      <4>1. /\ t.stream = stream' /\ t.cache = cache' /\ t.index = index' /\ t.stack = stack'
            /\ t.heap = heap' /\ t.met = met' /\ t.switched = switched'
        BY <2>3, Zenon DEF Now
      <4> QED BY <2>5, <4>1, Zenon DEF WriterTypeOK, Typed, Holder
    <3>2. PICK G : Told(G, n + 1) /\ G[n + 1] = t BY <1>2, <2>8, <3>1, ToldMore
    <3>3. Writing(G[n + 1])' BY <2>3, <2>4, <3>2 DEF Writing
    <3>4. Story(G, n + 1)' BY <2>4, <3>2, <3>3 DEF Story
    <3> QED BY <3>4
  <2> QED BY <2>6, <2>7, <2>8
<1>5. CASE Hand
  <2>1. /\ rstat = "idle" /\ stack = <<>> /\ rstat' = "run" /\ sent' = Len(stream)
        /\ UNCHANGED <<cache, index, stack, heap, met, switched, wstat, pos, rstack, objTab, made>>
    BY <1>5 DEF Hand, writerState
  <2>2. PICK kept \in (IF MayCut THEN 0 .. Len(stream) ELSE {Len(stream)}) :
          stream' = SubSeq(stream, 1, kept)
    BY <1>5 DEF Hand
  <2>3. H[n] = Now /\ Ready BY <1>1, <2>1 DEF Story, Writing
  <2>4. /\ H[n].stream = stream /\ H[n].cache = cache /\ H[n].index = index
        /\ H[n].stack = stack /\ H[n].heap = heap /\ H[n].met = met
    <3>1. /\ Now.stream = stream /\ Now.cache = cache /\ Now.index = index
          /\ Now.stack = stack /\ Now.heap = heap /\ Now.met = met
      BY Zenon DEF Now
    <3> QED BY <2>3, <3>1
  <2>5. stream \in Seq(Token) /\ stream' \in Seq(Token) BY DEF TypeOK, WriterTypeOK
  <2>6. Len(stream) \in Nat /\ Len(stream') \in Nat BY <2>5, Elements
  <2>7. Extends(stream', stream)
    <3>1. kept \in 0 .. Len(stream) BY <2>2, <2>6
    <3> QED BY <2>2, <2>5, <3>1, Beginning DEF Extends
  <2>8. Ended(H[n])' BY <2>1, <2>4, <2>7 DEF Ended
  <2>9. 1 \in 1 .. n /\ Fresh(H[1]) /\ WInv(H[1]) BY <1>2 DEF Told
  <2>10. Matches(H[1])'
    <3>1. /\ pos = Len(H[1].stream) + 1 /\ FramesMatch(H[1], rstack) /\ MadeMatches(H[1], made)
          /\ TablesMatch(H[1], objTab)
      BY <2>3, <2>9, FreshMatches DEF WInv
    <3>2. pos' <= Len(stream') + 1
      <4>1. pos' = 1 BY <2>1, <2>3 DEF Ready
      <4> QED BY <2>6, <4>1
    <3> QED BY <2>1, <3>1, <3>2 DEF Matches
  <2>11. H[1].stack # <<>>
    <3>1. Len(H[1].stack) = 1 /\ H[1].stack \in Seq(Frame) BY <2>9 DEF Fresh, WInv, Typed
    <3> QED BY <3>1, Elements
  <2>12. Reading(H, n)' BY <2>1, <2>8, <2>9, <2>10, <2>11 DEF Reading
  <2>13. Story(H, n)' BY <1>2, <2>1, <2>12 DEF Story
  <2> QED BY <2>13
<1>6. CASE Read
  <2>1. Story(H, n)' BY <1>1, <1>6, ReadGoesOn
  <2> QED BY <2>1
<1>7. CASE UNCHANGED vars
  <2>1. UNCHANGED <<stream, cache, index, stack, heap, met, switched, wstat, pos, rstack, objTab,
                    made, rstat, sent>>
    BY <1>7 DEF vars, writerVars, readerVars
  <2>2. Now' = Now BY <2>1 DEF Now
  <2>3. Writing(H[n]) => Writing(H[n])' BY <2>1, <2>2 DEF Writing, Ready
  <2>4. \A k : Matches(H[k]) => Matches(H[k])' BY <2>1 DEF Matches
  <2>5. Ended(H[n]) => Ended(H[n])' BY <2>1 DEF Ended
  <2>6. Reading(H, n) => Reading(H, n)' BY <2>1, <2>4, <2>5 DEF Reading
  <2>7. rstat' = rstat BY <2>1
  <2>8. Story(H, n)' BY <1>1, <1>2, <2>3, <2>6, <2>7 DEF Story
  <2> QED BY <2>8
<1> QED BY <1>4, <1>5, <1>6, <1>7 DEF Next

\* Whatever the reader has come to, the writer was there.
LEMMA StoryHolds == Faithful => (Spec => []StoryInv)
<1> SUFFICES ASSUME Faithful PROVE Spec => []StoryInv
  OBVIOUS
<1>1. Spec => []TypeOK BY RoundTripTypes
<1>2. Init /\ TypeOK => StoryInv BY StoryBegins
<1>3. StoryInv /\ TypeOK' /\ [Next]_vars => StoryInv'
  <2> SUFFICES ASSUME StoryInv, TypeOK', [Next]_vars PROVE StoryInv'
    OBVIOUS
  <2> QED BY StoryKept DEF StoryInv
<1> QED BY <1>1, <1>2, <1>3, PTL DEF Spec
\* What a message that is handed over tells.
LEMMA Come ==
  ASSUME StoryInv, rstat # "idle"
  PROVE  \E s, f : /\ WInv(s) /\ WInv(f) /\ Earlier(s, f) /\ Matches(s) /\ Ended(f)
                   /\ rstat = "done" => Returns(s, f)
                   /\ rstat = "error" => Len(stream) < sent
<1>1. PICK H, n : Story(H, n) BY DEF StoryInv
<1>2. Told(H, n) /\ Reading(H, n) BY <1>1 DEF Story
<1>3. PICK k \in 1 .. n : /\ Matches(H[k])
                          /\ rstat = "done" => Returns(H[k], H[n])
                          /\ rstat = "error" => Len(stream) < sent
  BY <1>2 DEF Reading
<1>4. n \in 1 .. n BY <1>2 DEF Told
<1>5. WInv(H[k]) /\ WInv(H[n]) /\ Earlier(H[k], H[n]) /\ Ended(H[n])
  BY <1>2, <1>4 DEF Told, Reading
<1> QED BY <1>3, <1>5

\* A name or a value an object holds is decoded as it was, and what was met
\* keeps its number.
LEMMA LaterNumbers ==
  ASSUME NEW s, NEW f, WInv(s), WInv(f), Earlier(s, f), NEW o \in Holder
  PROVE  /\ Met(s, o) => f.heap[o].nth = s.heap[o].nth /\ s.heap[o].nth \in 1 .. s.met
         /\ f.heap[o].nth \in 1 .. s.met => Met(s, o)
<1>1. Later(s, f, o) /\ Numbered(s) BY DEF Earlier, WInv
<1>2. f.heap[o].nth \in Nat /\ s.met \in Nat BY SnapshotTypes DEF WInv
<1> QED BY <1>1, <1>2 DEF Later, Numbered

LEMMA ReadsRight == StoryInv => NoMisread
<1> SUFFICES ASSUME StoryInv, rstat # "idle", NEW o \in Obj \cup {Root}, heap[o].nth \in DOMAIN made
             PROVE  NoMisreadOf(o)
  BY DEF NoMisread
<1>1. PICK s, f : WInv(s) /\ WInv(f) /\ Earlier(s, f) /\ Matches(s) /\ Ended(f) BY Come
<1>2. heap = f.heap BY <1>1 DEF Ended
<1>3. made \in Seq(ReadNode) /\ Len(made) = s.met /\ o \in Holder
  BY <1>1 DEF StoryInv, TypeOK, ReaderTypeOK, ReadNode, ReadKid, Matches, MadeMatches, Holder
<1>4. heap[o].nth \in 1 .. s.met BY <1>3, Elements
<1>5. Met(s, o) /\ s.heap[o].nth = heap[o].nth BY <1>1, <1>2, <1>3, <1>4, LaterNumbers
<1>6. NodeMatches(s, s.heap[o], made[heap[o].nth]) BY <1>1, <1>3, <1>5 DEF Matches, MadeMatches
<1>7. Later(s, f, o) BY <1>1, <1>3 DEF Earlier
<1>8. /\ heap[o].kind = s.heap[o].kind /\ heap[o].cls = s.heap[o].cls
      /\ Extends(s.heap[o].kids, heap[o].kids)
  BY <1>2, <1>5, <1>7 DEF Later
<1>9. made[heap[o].nth] \in ReadNode BY <1>3, <1>4, Elements
<1> DEFINE r == made[heap[o].nth]
<1>10. DOMAIN r.kids = 1 .. Len(r.kids) /\ Len(r.kids) \in Nat BY <1>9, Elements DEF ReadNode
<1>11. ASSUME NEW i \in DOMAIN r.kids
       PROVE  r.kids[i].key = heap[o].kids[i].key /\ r.kids[i].val = Decoded(heap[o].kids[i].val)
  <2>1. i \in 1 .. Len(s.heap[o].kids) BY <1>6, <1>10 DEF NodeMatches
  <2>2. heap[o].kids[i] = s.heap[o].kids[i] BY <1>8, <2>1 DEF Extends
  <2>3. r.kids[i].key = s.heap[o].kids[i].key /\ r.kids[i].val = Decode(s, s.heap[o].kids[i].val)
    BY <1>6, <2>1 DEF NodeMatches
  <2> DEFINE v == s.heap[o].kids[i].val
  <2>4. v \in Obj => Met(s, v) BY <1>1, <1>3, <2>1 DEF WInv, KidsMet
  <2>5. v \in Obj => heap[v].nth = s.heap[v].nth
    BY <1>1, <1>2, <2>4, LaterNumbers DEF Holder
  <2>6. Decoded(v) = Decode(s, v) BY <2>5 DEF Decoded, Decode
  <2> QED BY <2>2, <2>3, <2>6
<1>12. r.kind = heap[o].kind /\ r.cls = heap[o].cls /\ Len(r.kids) <= Len(heap[o].kids)
  BY <1>6, <1>8 DEF NodeMatches, Extends
<1> QED BY <1>11, <1>12 DEF NoMisreadOf

LEMMA NoticesCut == StoryInv => CutIsNoticed
<1> SUFFICES ASSUME StoryInv, rstat = "done" PROVE ~Cut
  BY DEF CutIsNoticed
<1>1. PICK s, f : /\ WInv(s) /\ WInv(f) /\ Matches(s) /\ Ended(f) /\ Returns(s, f)
  BY Come
<1>2. f.stream = s.stream /\ sent = Len(f.stream) BY <1>1 DEF Returns, Ended
<1>3. pos = Len(s.stream) + 1 /\ pos <= Len(stream) + 1 BY <1>1 DEF Matches
<1>4. Len(s.stream) \in Nat /\ Len(stream) \in Nat
  BY <1>1, SnapshotTypes, Elements DEF WInv, StoryInv, TypeOK, WriterTypeOK
<1> QED BY <1>2, <1>3, <1>4 DEF Cut

LEMMA RebuildsWhole == StoryInv => RebuiltWhole
<1> SUFFICES ASSUME StoryInv PROVE RebuiltWhole
  OBVIOUS
<1>1. rstat = "error" => Cut BY Come DEF Cut
<1>2. ASSUME rstat = "done"
      PROVE  /\ Len(made) = met
             /\ \A o \in Obj \cup {Root} : heap[o].nth \in DOMAIN made =>
                  Len(made[heap[o].nth].kids) = Len(heap[o].kids)
             /\ pos = Len(stream) + 1
  <2>1. PICK s, f : /\ WInv(s) /\ WInv(f) /\ Matches(s) /\ Ended(f) /\ Returns(s, f)
    BY <1>2, Come
  <2>2. heap = s.heap /\ met = s.met /\ sent = Len(s.stream) /\ Extends(stream, s.stream)
    BY <2>1 DEF Returns, Ended, SameGraph
  <2>3. Len(made) = met BY <2>1, <2>2 DEF Matches, MadeMatches
  <2>4. Len(s.stream) \in Nat /\ Len(stream) \in Nat /\ made \in Seq(ReadNode)
    BY <2>1, SnapshotTypes, Elements
       DEF WInv, StoryInv, TypeOK, WriterTypeOK, ReaderTypeOK, ReadNode, ReadKid
  <2>5. pos = Len(stream) + 1
    <3>1. pos = Len(s.stream) + 1 /\ pos <= Len(stream) + 1 BY <2>1 DEF Matches
    <3> QED BY <2>2, <2>4, <3>1 DEF Extends
  <2>6. ASSUME NEW o \in Obj \cup {Root}, heap[o].nth \in DOMAIN made
        PROVE  Len(made[heap[o].nth].kids) = Len(heap[o].kids)
    <3>1. heap[o].nth \in 1 .. met /\ o \in Holder BY <2>3, <2>4, <2>6, Elements DEF Holder
    <3>2. Met(s, o)
      <4>1. ~Met(s, o) => s.heap[o].nth = 0 BY <2>1, <3>1 DEF WInv, Numbered
      <4> QED BY <2>2, <3>1, <4>1
    <3> QED BY <2>1, <2>2, <3>1, <3>2 DEF Matches, MadeMatches, NodeMatches
  <2> QED BY <2>3, <2>5, <2>6
<1> QED BY <1>1, <1>2 DEF RebuiltWhole
\* In C the two versions share a table: only one of them has entries in it.
LEMMA OnePart ==
  ASSUME Faithful, Native, NEW s, NEW f, WInv(s), WInv(f), Earlier(s, f), NEW m \in {0, 3},
         NEW o \in Obj, f.cache[m][o] # NotCached
  PROVE  s.index[3 - m] = 0
<1>1. /\ s.index[0] \in Nat /\ s.index[3] \in Nat /\ f.index[0] \in Nat /\ f.index[3] \in Nat
      /\ f.cache[m][o] \in Index
  BY SnapshotTypes DEF WInv
<1>2. s.index[0] <= f.index[0] /\ s.index[3] <= f.index[3] BY DEF Earlier
<1>3. f.cache[m][o] \in Nat /\ f.cache[m][o] < f.index[m] BY <1>1 DEF WInv, CachedMet, Index
<1>4. f.index[m] # 0 BY <1>1, <1>3
<1>5. f.index[0] = 0 \/ f.index[3] = 0
  <2>1. f.switched = TRUE \/ f.switched = FALSE BY Zenon DEF WInv, Typed
  <2>2. f.switched = TRUE => f.index[0] = 0 BY DEF WInv, InPart
  <2>3. f.switched = FALSE => f.index[3] = 0 BY DEF WInv, InPart
  <2> QED BY <2>1, <2>2, <2>3
<1>6. f.index[3 - m] = 0
  <2>1. CASE m = 0 BY <1>4, <1>5, <2>1
  <2>2. CASE m = 3 BY <1>4, <1>5, <2>2
  <2> QED BY <2>1, <2>2
<1>7. 3 - m \in {0, 3} OBVIOUS
<1> QED BY <1>1, <1>2, <1>6, <1>7

LEMMA AgreesOnIndexes == Faithful /\ StoryInv => IndexesAgree
<1> SUFFICES ASSUME Faithful, StoryInv, NEW m \in {0, 3}, NEW o \in Obj,
                    cache[m][o] \in 0 .. Len(objTab[TableFor(m)]) - 1
             PROVE  objTab[TableFor(m)][cache[m][o] + 1] = heap[o].nth
  BY DEF IndexesAgree
<1> DEFINE tab == objTab[TableFor(m)]
<1>1. TableFor(m) \in {"refs", "objects"} BY DEF TableFor
<1>2. tab \in Seq(Nat) /\ Len(tab) \in Nat
  <2>1. tab \in Seq(Nat) BY <1>1 DEF StoryInv, TypeOK, ReaderTypeOK
  <2> QED BY <2>1, Elements
<1>3. rstat # "idle"
  <2> SUFFICES ASSUME rstat = "idle" PROVE FALSE
    OBVIOUS
  <2>1. Ready BY DEF StoryInv, Story, Writing
  <2>2. tab = <<>> BY <1>1, <2>1 DEF Ready
  <2>3. Len(tab) = 0 BY <2>2
  <2> QED BY <2>3
<1>4. PICK s, f : WInv(s) /\ WInv(f) /\ Earlier(s, f) /\ Matches(s) /\ Ended(f)
  BY <1>3, Come
<1>5. cache = f.cache /\ heap = f.heap BY <1>4 DEF Ended
<1>6. LaterIndex(s, f, m, o) BY <1>4 DEF Earlier
<1>7. cache[m][o] # NotCached BY <1>2 DEF NotCached
<1>8. CASE s.cache[m][o] # NotCached
  <2>1. cache[m][o] = s.cache[m][o] BY <1>5, <1>6, <1>8 DEF LaterIndex
  <2>2. tab[s.cache[m][o] + 1] = s.heap[o].nth BY <1>4, <1>8 DEF Matches, TablesMatch, EntryMatches
  <2>3. Met(s, o) BY <1>4, <1>8 DEF WInv, CachedMet
  <2>4. heap[o].nth = s.heap[o].nth BY <1>4, <1>5, <2>3, LaterNumbers DEF Holder
  <2> QED BY <2>1, <2>2, <2>4
<1>9. CASE s.cache[m][o] = NotCached
  <2>1. cache[m][o] >= s.index[m] BY <1>5, <1>6, <1>7, <1>9 DEF LaterIndex
  <2>2. s.index[0] \in Nat /\ s.index[3] \in Nat BY <1>4, SnapshotTypes DEF WInv
  <2>3. Len(tab) = s.index[m]
    <3>1. LengthsMatch(s, objTab) BY <1>4 DEF Matches, TablesMatch
    <3>2. CASE Native
      <4>1. s.index[3 - m] = 0 BY <1>4, <1>5, <1>7, <3>2, OnePart
      <4>2. TableFor(m) = "objects" BY <3>2 DEF TableFor
      <4>3. Len(tab) = s.index[0] + s.index[3] BY <3>1, <3>2, <4>2 DEF LengthsMatch
      <4>4. CASE m = 0 BY <2>2, <4>1, <4>3, <4>4
      <4>5. CASE m = 3 BY <2>2, <4>1, <4>3, <4>5
      <4> QED BY <4>4, <4>5
    <3>3. CASE ~Native
      <4>1. TableFor(m) = IF m = 3 THEN "objects" ELSE "refs" BY <3>3 DEF TableFor
      <4>2. Len(objTab["refs"]) = s.index[0] /\ Len(objTab["objects"]) = s.index[3]
        BY <3>1, <3>3 DEF LengthsMatch
      <4>3. CASE m = 0 BY <4>1, <4>2, <4>3
      <4>4. CASE m = 3 BY <4>1, <4>2, <4>4
      <4> QED BY <4>3, <4>4
    <3> QED BY <3>2, <3>3
  <2>4. s.index[m] \in Nat BY <2>2
  <2> QED BY <1>2, <2>1, <2>3, <2>4
<1> QED BY <1>8, <1>9

\* What the reader has rebuilt of an object is at any moment a beginning of
\* what the writer found in it, with the right names and objects: whatever the
\* graph, and wherever in the message the switch to AMF3 is.
THEOREM MessageNotMisread == Faithful => (Spec => []NoMisread)
<1>1. Faithful => (Spec => []StoryInv) BY StoryHolds
<1>2. StoryInv => NoMisread BY ReadsRight
<1> QED BY <1>1, <1>2, PTL

\* deserialize raises only when the string was cut; when it returns, it has
\* every object with all it holds, and has read to the end.
THEOREM MessageRebuilt == Faithful => (Spec => []RebuiltWhole)
<1>1. Faithful => (Spec => []StoryInv) BY StoryHolds
<1>2. StoryInv => RebuiltWhole BY RebuildsWhole
<1> QED BY <1>1, <1>2, PTL

\* Under every index the writer gave, on both sides of the switch, the reader
\* finds that object.
THEOREM MessageIndexesAgree == Faithful => (Spec => []IndexesAgree)
<1> SUFFICES ASSUME Faithful PROVE Spec => []IndexesAgree
  OBVIOUS
<1>1. Faithful => (Spec => []StoryInv) BY StoryHolds
<1>2. StoryInv => IndexesAgree BY AgreesOnIndexes
<1> QED BY <1>1, <1>2, PTL

\* A string that lost its end is not taken for a whole value.
THEOREM MessageCutNoticed == Faithful => (Spec => []CutIsNoticed)
<1>1. Faithful => (Spec => []StoryInv) BY StoryHolds
<1>2. StoryInv => CutIsNoticed BY NoticesCut
<1> QED BY <1>1, <1>2, PTL

=============================================================================
