-------------------------- MODULE ExternalMessage --------------------------
(***************************************************************************)
(* How the C deserializer reads a value that may be, or hold, an external  *)
(* message: des3_read_object calls read_external of values/messages.rb,    *)
(* which takes flags from the source and calls des.read_object for each    *)
(* field that a flag announces.  The deserializer keeps a position of its  *)
(* own besides that of the source, and the two are copied to and fro.      *)
(*                                                                         *)
(* The stream is a sequence of tokens [t, p]: a "value" without external   *)
(* messages in it (p is what it becomes), an "array" of p values, an       *)
(* "external" message of class p, or its "flags" (p is a sequence of       *)
(* bytes, each the set of its bits).  A message has flags for each class   *)
(* it descends from that has fields.                                       *)
(***************************************************************************)
EXTENDS Integers, Sequences, FiniteSets, SequencesExt

CONSTANTS
  Fields,    \* EXTERNALIZABLE_FIELDS: [class -> for each ancestor a Seq(Seq(name))]
  Attr,      \* the attribute that each name= sets: [name -> name]
  HighBit,   \* the bit that says another byte follows, 7
  None

VARIABLES
  stream,
  des_pos,   \* des->pos
  src_pos,   \* the position of des.source
  stack,     \* the active read functions, the innermost last
  value      \* what des_deserialize has returned, or None

readVars == <<stream, des_pos, src_pos, stack, value>>

Tok(t, p) == [t |-> t, p |-> p]

Skipped == "skipped"
Top == stack[Len(stack)]
Below == SubSeq(stack, 1, Len(stack) - 1)
InMessage == stack # <<>> /\ Top.what = "external"

ArrayFrame(n) == [what |-> "array", left |-> n, items |-> <<>>]
MessageFrame(cls) ==
  [what |-> "external", cls |-> cls, attrs |-> <<>>, levels |-> Fields[cls], todo |-> {}]

StartFromOwn == des_pos
\* Where the next value begins: "Update internal pos from source in case
\* they've modified it", which read_external has.
Start == IF InMessage THEN src_pos ELSE des_pos

\* A token of type t is there to be read at pos.
Finds(t, pos) == pos <= Len(stream) /\ stream[pos].t = t

\* A value is wanted by des_deserialize, an array or a field.
WantsValue ==
  /\ value = None
  /\ stack # <<>> => \/ Top.what = "array" /\ Top.left > 0
                     \/ Top.what = "external" /\ Top.todo # {}

WantsFlags == InMessage /\ Top.todo = {} /\ Top.levels # <<>>

(***************************************************************************)
(* Value v, whose last token is before pos, goes to the functions under    *)
(* way: to des_deserialize, to an array, or to a field.  The first and the *)
(* last leave the position of the source behind it.                        *)
(***************************************************************************)
Nil == [is |-> "nil"]
\* A name= that takes bytes for another attribute: "unless bytes.nil?".
IgnoresNil(name) == Attr[name] # name

Assigned(attrs, name, v) ==
  IF name = Skipped \/ (IgnoresNil(name) /\ v = Nil) THEN attrs
  ELSE [x \in DOMAIN attrs \cup {Attr[name]} |-> IF x = Attr[name] THEN v ELSE attrs[x]]

\* The field whose turn it is: byte after byte, bit after bit.
NextField(todo) ==
  CHOOSE c \in todo : \A e \in todo : c.byte < e.byte \/ (c.byte = e.byte /\ c.bit <= e.bit)

Goes(v, frames, pos) ==
  /\ des_pos' = pos
  /\ \/ /\ frames = <<>>
        /\ value' = v /\ stack' = <<>> /\ src_pos' = pos
     \/ /\ frames # <<>> /\ Last(frames).what = "array"
        /\ stack' = Append(Front(frames), [Last(frames) EXCEPT !.left = @ - 1,
                                                               !.items = Append(@, v)])
        /\ UNCHANGED <<src_pos, value>>
     \/ /\ frames # <<>> /\ Last(frames).what = "external"
        /\ stack' = Append(Front(frames), [Last(frames) EXCEPT
                      !.attrs = Assigned(@, NextField(Last(frames).todo).name, v),
                      !.todo = @ \ {NextField(@)}])
        /\ src_pos' = pos /\ UNCHANGED value

ReadValue ==
  /\ WantsValue /\ Finds("value", Start)
  /\ Goes(stream[Start].p, stack, Start + 1)
  /\ UNCHANGED stream

ReadArray ==
  /\ WantsValue /\ Finds("array", Start)
  /\ des_pos' = Start + 1
  /\ stack' = Append(stack, ArrayFrame(stream[Start].p))
  /\ UNCHANGED <<stream, src_pos, value>>

ReadExternal ==
  /\ WantsValue /\ Finds("external", Start)
  /\ des_pos' = Start + 1 /\ src_pos' = Start + 1
  /\ stack' = Append(stack, MessageFrame(stream[Start].p))
  /\ UNCHANGED <<stream, value>>

\* The fields of a list that a byte of flags announces, and those it announces
\* that the list does not know, without the mark of another byte.
Announced(list, byte) == {b \in byte : b < Len(list)}
BeyondList(list, byte) == {b \in byte : b >= Len(list) /\ b # HighBit}
NameIn(list, bit) == IF bit < Len(list) THEN list[bit + 1] ELSE Skipped

\* What is to be read: nothing for bytes that no list belongs to.
Todo(lists, bytes) ==
  UNION {{[byte |-> i, bit |-> b, name |-> NameIn(lists[i], b)] :
            b \in Announced(lists[i], bytes[i]) \cup BeyondList(lists[i], bytes[i])} :
          i \in DOMAIN lists \cap DOMAIN bytes}

\* read_external_fields: all the flags first.
ReadFlags ==
  /\ WantsFlags /\ Finds("flags", src_pos)
  /\ src_pos' = src_pos + 1
  /\ stack' = Append(Below, [Top EXCEPT !.levels = Tail(@),
                                        !.todo = Todo(Head(Top.levels), stream[src_pos].p)])
  /\ UNCHANGED <<stream, des_pos, value>>

ReturnArray ==
  /\ stack # <<>> /\ Top.what = "array" /\ Top.left = 0
  /\ Goes([is |-> "array", items |-> Top.items], Below, des_pos)
  /\ UNCHANGED stream

\* read_external is done: "Update from source".
ReturnExternal ==
  /\ InMessage /\ Top.levels = <<>> /\ Top.todo = {}
  /\ Goes([is |-> "message", cls |-> Top.cls, attrs |-> Top.attrs], Below, src_pos)
  /\ UNCHANGED stream

ReadSome ==
  \/ ReadValue \/ ReadArray \/ ReadExternal \/ ReadFlags \/ ReturnArray \/ ReturnExternal

RaisesInValues == WantsValue /\ \A t \in {"value", "array", "external"} : ~Finds(t, Start)
\* What is there is not what is looked for, or nothing is.
Raises ==
  \/ WantsValue /\ \A t \in {"value", "array", "external"} : ~Finds(t, Start)
  \/ WantsFlags /\ ~Finds("flags", src_pos)

\* des_deserialize(0, nil) is called.
Deserialize == value' = None /\ stack' = <<>>

-----------------------------------------------------------------------------
(***************************************************************************)
(* What a sender means by data, which are                                  *)
(*   [is |-> "value", v]          a value that holds no external message   *)
(*   [is |-> "array", items]                                               *)
(*   [is |-> "external", cls, parts]   a message, whose parts are          *)
(*       [t |-> "flags", level, bytes]            for each level of Fields *)
(*       [t |-> "field", level, byte, bit, data]                           *)
(* W gives the tokens of an item or field, M what it stands for.           *)
(***************************************************************************)
WrittenPart(part, W(_)) ==
  IF part.t = "flags" THEN <<Tok("flags", part.bytes)>> ELSE W(part.data)

Layout(d, W(_)) ==
  CASE d.is = "value" -> <<Tok("value", d.v)>>
    [] d.is = "array" ->
         <<Tok("array", Len(d.items))>> \o FlattenSeq([k \in DOMAIN d.items |-> W(d.items[k])])
    [] d.is = "external" ->
         <<Tok("external", d.cls)>>
         \o FlattenSeq([k \in DOMAIN d.parts |-> WrittenPart(d.parts[k], W)])

IsNil(d) == d.is = "value" /\ d.v = Nil

\* The attribute that field name sets to d, and that a part sets: None if
\* there is none.
SetsTo(name, d) == IF IgnoresNil(name) /\ IsNil(d) THEN None ELSE Attr[name]
Sets(cls, part) ==
  IF /\ part.t = "field" /\ part.byte <= Len(Fields[cls][part.level])
     /\ part.bit < Len(Fields[cls][part.level][part.byte])
  THEN SetsTo(Fields[cls][part.level][part.byte][part.bit + 1], part.data) ELSE None

\* The last of the first k parts that sets x counts.
LastSets(d, k, x) ==
  {j \in 1 .. k : Sets(d.cls, d.parts[j]) = x
                  /\ \A i \in j + 1 .. k : Sets(d.cls, d.parts[i]) # x}
LastSet(d, k, x) == CHOOSE j \in LastSets(d, k, x) : TRUE
AttrsUpTo(d, k, M(_)) ==
  [x \in {Sets(d.cls, d.parts[j]) : j \in 1 .. k} \ {None} |-> M(d.parts[LastSet(d, k, x)].data)]

Meaning(d, M(_)) ==
  CASE d.is = "value" -> d.v
    [] d.is = "array" -> [is |-> "array", items |-> [k \in DOMAIN d.items |-> M(d.items[k])]]
    [] d.is = "external" ->
         [is |-> "message", cls |-> d.cls, attrs |-> AttrsUpTo(d, Len(d.parts), M)]

-----------------------------------------------------------------------------
(***************************************************************************)
(* What was read, as it is written again.  A value [is, ...] is plain, nil,*)
(* a hash, a typed hash (an object whose class is not mapped), an array or *)
(* a message.  A is for the data of an item, P for what an item or property*)
(* is at the next reader.                                                  *)
(***************************************************************************)
Each(f, ver, P(_, _)) == [x \in DOMAIN f |-> P(ver, f[x])]

\* ErrorMessage#encode_amf: "if serializer.version == 0".
Faults == {"faultCode", "faultDetail", "faultString"}
WrittenAsHash(ver, v) == v.is = "message" /\ v.cls = "ErrorMessage" /\ ver = 0
FaultData(attrs) == [x \in Faults |-> IF x \in DOMAIN attrs THEN attrs[x] ELSE Nil]

\* What the next reader gets for v. A typed hash is written as an anonymous
\* object, since its type is looked up among the names of the mapped Ruby
\* classes, of which it is taken to be none; a message as an object of its
\* class, like any other.
PassedOn(ver, v, P(_, _)) ==
  CASE v.is \in {"plain", "nil"} -> v
    [] v.is = "array" -> [is |-> "array", items |-> Each(v.items, ver, P)]
    [] v.is \in {"hash", "typed"} -> [is |-> "hash", props |-> Each(v.props, ver, P)]
    [] WrittenAsHash(ver, v) -> [is |-> "hash", props |-> Each(FaultData(v.attrs), ver, P)]
    [] v.is = "message" /\ ~WrittenAsHash(ver, v) ->
         [is |-> "message", cls |-> v.cls, attrs |-> Each(v.attrs, ver, P)]

Rewritten(ver, v, A(_, _), P(_, _)) ==
  IF v.is = "array" THEN [is |-> "array", items |-> Each(v.items, ver, A)]
  ELSE [is |-> "value", v |-> P(ver, v)]
=============================================================================
