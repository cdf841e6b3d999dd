----------------------------- MODULE Amf0Reader -----------------------------
(***************************************************************************)
(* One call of Deserializer#deserialize(0, source): des0_deserialize and   *)
(* the des0_read_* functions of ext/rocketamf_ext/deserializer.c, amf0_*   *)
(* in lib/rocketamf/pure/deserializer.rb, and the way from there into      *)
(* AMF3 and back.  A step reads one token.                                 *)
(*                                                                         *)
(* The implementations differ in the table an AMF3 part starts with, in    *)
(* what a reference past the end gives, and in where an object may end.    *)
(***************************************************************************)
EXTENDS Amf0Stream

VARIABLES
  pos,       \* index of the next token
  rstack,    \* the active read functions, the innermost last
  objTab,    \* [{"refs", "objects"} -> Seq(node)]; C only uses "objects"
  made,      \* the arrays, hashes and objects created so far
  rstat      \* "idle", "run", "done" or "error"

readerVars == <<pos, rstack, objTab, made, rstat>>

\* m: the version the function reads values in; switched: it has just read
\* the marker that switches; the rest as in the writer.
ReaderValue == Nat \cup Scalars \cup {None}
ReadFrame == [node : Nat, m : {0, 3}, switched : BOOLEAN, left : Nat, props : BOOLEAN,
              key : Names \cup {None}]
NewReadFrame(node, m, left, props) ==
  [node |-> node, m |-> m, switched |-> FALSE, left |-> left, props |-> props, key |-> None]

MadeNode(kind, cls) == [kind |-> kind, cls |-> cls, kids |-> <<>>]

ReaderInit ==
  /\ pos = 1
  /\ rstack = <<NewReadFrame(1, 0, 1, FALSE)>>
  /\ objTab = [t \in {"refs", "objects"} |-> <<>>]
  /\ made = <<MadeNode("root", None)>>
  /\ rstat = "idle"

-----------------------------------------------------------------------------
RTop == rstack[Len(rstack)]
RBelow == SubSeq(rstack, 1, Len(rstack) - 1)
RMode == IF RTop.switched THEN 3 ELSE RTop.m

Tok == stream[pos]
More == rstat = "run" /\ pos <= Len(stream)
Advance == pos' = pos + 1 /\ UNCHANGED <<stream, rstat>>

\* The table a version's objects are entered in: des->obj_cache for both in C,
\* @ref_cache and @object_cache in Ruby.
TableFor(m) == IF Native \/ m = 3 THEN "objects" ELSE "refs"
Table == objTab[TableFor(RMode)]

ExpectsValue == More /\ rstack # <<>> /\ RTop.left > 0 /\ Tok.m = RMode
ExpectsKey == More /\ rstack # <<>> /\ RTop.left = 0 /\ RTop.props

Taken(f) == [f EXCEPT !.left = @ - 1, !.key = None, !.switched = FALSE]
Stored(f, v) == [made EXCEPT ![f.node].kids = Append(@, [key |-> f.key, val |-> v])]

ReadScalar ==
  /\ ExpectsValue
  /\ Tok.t = "scalar"
  /\ made' = Stored(RTop, Tok.v)
  /\ rstack' = Append(RBelow, Taken(RTop))
  /\ Advance
  /\ UNCHANGED objTab

ReadReferenceFromOne ==
  /\ ExpectsValue
  /\ Tok.t = "ref"
  /\ Tok.n < Len(Table) \/ ~Native
  /\ made' = Stored(RTop, IF Tok.n \in 1 .. Len(Table) THEN Table[Tok.n] ELSE None)
  /\ rstack' = Append(RBelow, Taken(RTop))
  /\ Advance
  /\ UNCHANGED objTab
\* Past the end of the table: RangeError in C, nil in Ruby.
ReadReference ==
  /\ ExpectsValue
  /\ Tok.t = "ref"
  /\ Tok.n < Len(Table) \/ ~Native
  /\ made' = Stored(RTop, IF Tok.n < Len(Table) THEN Table[Tok.n + 1] ELSE None)
  /\ rstack' = Append(RBelow, Taken(RTop))
  /\ Advance
  /\ UNCHANGED objTab

\* Entered before anything it holds is read, and handed to the caller, which
\* will store it once it is complete: it already counts as stored.
Begin(kind, cls, frame) ==
  LET node == Len(made) + 1
  IN  /\ objTab' = [objTab EXCEPT ![TableFor(RMode)] = Append(@, node)]
      /\ made' = Append(Stored(RTop, node), MadeNode(kind, cls))
      /\ rstack' = Append(Append(RBelow, Taken(RTop)), [frame EXCEPT !.node = node])

ReadArray ==
  /\ ExpectsValue
  /\ Tok.t = "array"
  /\ Begin("array", None, NewReadFrame(0, RMode, Tok.n, FALSE))
  /\ Advance

ReadObject ==
  /\ ExpectsValue
  /\ Tok.t = "object"
  /\ Begin("object", Tok.v, NewReadFrame(0, 0, 0, TRUE))
  /\ Advance

\* des0_read_hash: the size that comes with it is read and ignored.
ReadHash ==
  /\ ExpectsValue
  /\ Tok.t = "hash"
  /\ Begin("hash", None, NewReadFrame(0, 0, 0, TRUE))
  /\ Advance

\* deserialize(3, nil) makes new tables; des0_read_amf3 makes new ones for
\* strings and traits, and goes on with obj_cache.
ReadSwitch ==
  /\ ExpectsValue
  /\ Tok.t = "avmplus"
  /\ objTab' = IF Native THEN objTab ELSE [objTab EXCEPT !["objects"] = <<>>]
  /\ rstack' = Append(RBelow, [RTop EXCEPT !.switched = TRUE])
  /\ Advance
  /\ UNCHANGED made

ReadPropsStopsEarly ==
  /\ ExpectsKey
  /\ Tok.t = "key"
  /\ rstack' = Append(RBelow, IF Tok.v = Empty THEN [RTop EXCEPT !.props = FALSE]
                              ELSE [RTop EXCEPT !.left = 1, !.key = Tok.v])
  /\ Advance
  /\ UNCHANGED <<objTab, made>>
(***************************************************************************)
(* des0_read_props, amf0_read_props: a name, and then a value or the end   *)
(* marker.  C takes the marker for the end only after an empty name, Ruby  *)
(* after any.                                                              *)
(***************************************************************************)
EndFollows == pos < Len(stream) /\ stream[pos + 1].t = "end"
ReadProps ==
  /\ ExpectsKey
  /\ Tok.t = "key"
  /\ pos < Len(stream)
  /\ EndFollows => Tok.v = Empty \/ ~Native
  /\ IF EndFollows
     THEN /\ rstack' = Append(RBelow, [RTop EXCEPT !.props = FALSE])
          /\ pos' = pos + 2
     ELSE /\ rstack' = Append(RBelow, [RTop EXCEPT !.left = 1, !.key = Tok.v])
          /\ pos' = pos + 1
  /\ UNCHANGED <<objTab, made, stream, rstat>>

CompleteAnyway(f) == f.left = 0
Complete(f) == f.left = 0 /\ ~f.props

ReadReturn ==
  /\ rstat = "run"
  /\ Len(rstack) > 1 /\ Complete(RTop)
  /\ rstack' = RBelow
  /\ UNCHANGED <<pos, objTab, made, stream, rstat>>

ReadDone ==
  /\ rstat = "run"
  /\ Len(rstack) = 1 /\ Complete(RTop)
  /\ rstat' = "done"
  /\ UNCHANGED <<pos, rstack, objTab, made, stream>>

(***************************************************************************)
(* The reader raises at the end of the source, on a reference past the end *)
(* (C), and on a marker that is not what it is looking for.                *)
(***************************************************************************)
AtEnd == pos > Len(stream) \/ (ExpectsKey /\ pos = Len(stream))
BeyondEnd == ExpectsValue /\ Tok.t = "ref" /\ Tok.n >= Len(Table) /\ Native
Misplaced ==
  \/ More /\ RTop.left > 0 /\ (Tok.m # RMode \/ Tok.t \in {"key", "end"})
  \/ ExpectsKey /\ Tok.t # "key"
  \/ ExpectsKey /\ EndFollows /\ Tok.v # Empty /\ Native

ReadRaises ==
  /\ rstat = "run" /\ ~Complete(RTop)
  /\ AtEnd \/ BeyondEnd \/ Misplaced
  /\ rstat' = "error"
  /\ UNCHANGED <<pos, rstack, objTab, made, stream>>

ReaderNext ==
  \/ ReadScalar \/ ReadReference \/ ReadArray \/ ReadObject \/ ReadHash \/ ReadSwitch
  \/ ReadProps \/ ReadReturn \/ ReadDone \/ ReadRaises

-----------------------------------------------------------------------------
\* Every variable of the reader has its type.
ReaderTypeOK ==
  /\ pos \in Nat \ {0}
  /\ rstack \in Seq(ReadFrame)
  /\ objTab \in [{"refs", "objects"} -> Seq(Nat)]
  /\ made \in Seq([kind : {"root", "array", "object", "hash"},
                   cls : ClassNames \cup {None},
                   kids : Seq([key : Names \cup {None}, val : ReaderValue])])
  /\ rstat \in {"idle", "run", "done", "error"}
=============================================================================
