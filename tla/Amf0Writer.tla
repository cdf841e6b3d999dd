----------------------------- MODULE Amf0Writer -----------------------------
(***************************************************************************)
(* One top-level call of Serializer#serialize(0, obj): ser0_serialize and  *)
(* the ser0_write_* functions of ext/rocketamf_ext/serializer.c, amf0_* in *)
(* lib/rocketamf/pure/serializer.rb.  With Flash = TRUE the writer is      *)
(* instead a client whose messages the deserializer has to read: it may    *)
(* also write associative arrays and switch to AMF3 inside a message (the  *)
(* arguments of a call are a strict array of AMF3 values); RocketAMF       *)
(* itself switches at most for the whole body of an envelope.              *)
(*                                                                         *)
(* The recursion is a stack, a step writes one token, and the graph is     *)
(* chosen while it is written, as in Amf3Writer; and as there, an operator *)
(* just before another one and named after it is that one with a slip.     *)
(***************************************************************************)
EXTENDS Amf0Stream

CONSTANTS
  Root,       \* stands for the caller that asked for one value
  Flash,      \* is the writer a client?
  MaxLen      \* bound: array length and number of properties

ASSUME WriterAssumption ==
  /\ Root \notin Obj
  /\ Flash \in BOOLEAN
  /\ MaxLen \in Nat

VARIABLES
  cache,    \* [{0, 3} -> [Obj -> Index]]: ser->obj_cache or @ref_cache, and
            \* the one of the AMF3 part
  index,    \* [{0, 3} -> Nat]: their next index
  stack,    \* the active write functions, the innermost last
  heap,     \* the object graph, as far as it has been looked at
  met,      \* number of entries of heap that are in use
  switched, \* has the AMF3 part been begun?
  wstat     \* "ok", or "error": an exception left serialize

writerVars == <<cache, index, stack, heap, met, switched, wstat, stream>>

NotCached == -1
Index == Nat \cup {NotCached}

\* m: the version the next value is written in; left: the values still owed;
\* props: are properties still to be written?
Frame == [obj : Obj \cup {Root}, m : {0, 3}, left : Nat, props : BOOLEAN,
          key : Names \cup {None}]
Kinds == {"unmet", "root", "array", "object", "hash"}
Kid == [key : Names \cup {None}, val : Obj \cup Scalars]
Node == [kind : Kinds, cls : ClassNames \cup {None}, kids : Seq(Kid), nth : Nat]

Unmet == [kind |-> "unmet", cls |-> None, kids |-> <<>>, nth |-> 0]
NewFrame(o, m, left, props) ==
  [obj |-> o, m |-> m, left |-> left, props |-> props, key |-> None]

WriterInit ==
  /\ stream = <<>>
  /\ cache = [m \in {0, 3} |-> [o \in Obj |-> NotCached]]
  /\ index = [m \in {0, 3} |-> 0]
  /\ stack = <<NewFrame(Root, 0, 1, FALSE)>>
  /\ heap = [o \in Obj \cup {Root} |->
               IF o = Root THEN [Unmet EXCEPT !.kind = "root", !.nth = 1] ELSE Unmet]
  /\ met = 1
  /\ switched = FALSE
  /\ wstat = "ok"

-----------------------------------------------------------------------------
Busy == stack # <<>> /\ wstat = "ok"
Top == stack[Len(stack)]
Below == SubSeq(stack, 1, Len(stack) - 1)
WantsValue == Busy /\ Top.left > 0

Emit(tok) == stream' = Append(stream, tok)

\* Only the values of an array that is itself in AMF3 are in AMF3.
Own(f) == IF f.obj # Root /\ cache[3][f.obj] # NotCached THEN 3 ELSE 0
Served == [Top EXCEPT !.left = @ - 1, !.key = None, !.m = Own(Top)]

Holding(v) == [heap EXCEPT ![Top.obj].kids = Append(@, [key |-> Top.key, val |-> v])]
Meet(o, kind, cls) ==
  [Holding(o) EXCEPT ![o] = [kind |-> kind, cls |-> cls, kids |-> <<>>, nth |-> met + 1]]

WriteScalar(v) ==
  /\ WantsValue
  /\ Emit(ScalarTok(Top.m, v))
  /\ heap' = Holding(v)
  /\ stack' = Append(Below, Served)
  /\ UNCHANGED <<cache, index, met, switched, wstat>>

UnwritableNever(o) == FALSE
\* ser_write_uint16 raises, pack('n') drops the high bits.
Unwritable(o) == Top.m = 0 /\ cache[0][o] > RefLimit /\ Native
IndexWritten(o) ==
  IF Top.m = 0 THEN cache[0][o] % (RefLimit + 1) ELSE cache[3][o]

WriteReferenceUnchecked(o) ==
  /\ WantsValue
  /\ Emit(RefTok(Top.m, IndexWritten(o)))
  /\ heap' = Holding(o)
  /\ stack' = Append(Below, Served)
  /\ UNCHANGED <<cache, index, met, switched, wstat>>
WriteReference(o) ==
  /\ WantsValue
  /\ cache[Top.m][o] # NotCached /\ ~Unwritable(o)
  /\ Emit(RefTok(Top.m, IndexWritten(o)))
  /\ heap' = Holding(o)
  /\ stack' = Append(Below, Served)
  /\ UNCHANGED <<cache, index, met, switched, wstat>>

WriteRaises ==
  /\ WantsValue
  /\ \E o \in Obj : cache[Top.m][o] # NotCached /\ Unwritable(o)
  /\ wstat' = "error"
  /\ UNCHANGED <<cache, index, stack, heap, met, switched, stream>>

\* An object is entered before anything it holds is looked at.
RememberLate(o) ==
  /\ cache' = [cache EXCEPT ![Top.m][o] = index[Top.m] + 1]
  /\ index' = [index EXCEPT ![Top.m] = @ + 1]
Remember(o) ==
  /\ cache' = [cache EXCEPT ![Top.m][o] = index[Top.m]]
  /\ index' = [index EXCEPT ![Top.m] = @ + 1]

\* No object occurs on both sides of the switch.
Enter(o, kind, cls, frame) ==
  /\ WantsValue
  /\ heap[o].kind = "unmet"
  /\ Remember(o)
  /\ heap' = Meet(o, kind, cls)
  /\ met' = met + 1
  /\ stack' = Append(Append(Below, Served), frame)
  /\ UNCHANGED <<switched, wstat>>

WriteArray(o, len) ==
  /\ Enter(o, "array", None, NewFrame(o, Top.m, len, FALSE))
  /\ Emit(ArrayTok(Top.m, len))

\* A hash or an object; cls is None unless the class is mapped.
WriteObject(o, cls) ==
  /\ WantsValue /\ Top.m = 0
  /\ Enter(o, "object", cls, NewFrame(o, 0, 0, TRUE))
  /\ Emit(ObjectTok(cls))

WriteHash(o) ==
  /\ Flash /\ WantsValue /\ Top.m = 0
  /\ Enter(o, "hash", None, NewFrame(o, 0, 0, TRUE))
  /\ Emit(HashTok)

\* One part per message: how clients number the objects of a second one is
\* not for this code to say.
WriteSwitch ==
  /\ WantsValue
  /\ Top.m = 0 /\ ~switched
  /\ Flash \/ Top.obj = Root
  /\ switched' = TRUE
  /\ stack' = Append(Below, [Top EXCEPT !.m = 3])
  /\ Emit(SwitchTok)
  /\ UNCHANGED <<cache, index, heap, met, wstat>>

-----------------------------------------------------------------------------
InProps == Busy /\ Top.left = 0 /\ Top.props

\* The empty name is a name like any other.
WriteKey(k) ==
  /\ InProps
  /\ \A i \in DOMAIN heap[Top.obj].kids : heap[Top.obj].kids[i].key # k
  /\ Len(heap[Top.obj].kids) < MaxLen
  /\ Emit(KeyTok(k))
  /\ stack' = Append(Below, [Top EXCEPT !.left = 1, !.key = k])
  /\ UNCHANGED <<cache, index, heap, met, switched, wstat>>

\* The end of an object: an empty name and the end marker, in one step since
\* nothing comes between.
WriteEndBare ==
  /\ InProps
  /\ stream' = Append(stream, EndTok)
  /\ stack' = Append(Below, [Top EXCEPT !.props = FALSE])
  /\ UNCHANGED <<cache, index, heap, met, switched, wstat>>
WriteEnd ==
  /\ InProps
  /\ stream' = stream \o <<KeyTok(Empty), EndTok>>
  /\ stack' = Append(Below, [Top EXCEPT !.props = FALSE])
  /\ UNCHANGED <<cache, index, heap, met, switched, wstat>>

Return ==
  /\ Busy
  /\ Top.left = 0 /\ ~Top.props
  /\ stack' = Below
  /\ UNCHANGED <<cache, index, heap, met, switched, wstat, stream>>

WriterNext ==
  \/ \E v \in Scalars : WriteScalar(v)
  \/ \E o \in Obj : WriteReference(o)
  \/ WriteRaises
  \/ \E o \in Obj, len \in 0 .. MaxLen : WriteArray(o, len)
  \/ \E o \in Obj, cls \in ClassNames \cup {None} : WriteObject(o, cls)
  \/ \E o \in Obj : WriteHash(o)
  \/ WriteSwitch
  \/ \E k \in Names : WriteKey(k)
  \/ WriteEnd
  \/ Return

-----------------------------------------------------------------------------
\* Every variable of the writer has its type.
WriterTypeOK ==
  /\ stream \in Seq(Token)
  /\ cache \in [{0, 3} -> [Obj -> Index]] /\ index \in [{0, 3} -> Nat]
  /\ stack \in Seq(Frame)
  /\ heap \in [Obj \cup {Root} -> Node]
  /\ met \in Nat
  /\ switched \in BOOLEAN /\ wstat \in {"ok", "error"}
=============================================================================
