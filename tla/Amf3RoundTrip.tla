---------------------------- MODULE Amf3RoundTrip ----------------------------
(***************************************************************************)
(* Serializer and deserializer together: RocketAMF.serialize(obj, 3), or a *)
(* client, writes a string, then RocketAMF.deserialize(string, 3) reads it.*)
(* No table is ever sent: the reader has to give every object, string and  *)
(* trait description the index the writer gave it, by counting.            *)
(***************************************************************************)
EXTENDS Amf3Client, Amf3Reader

CONSTANT MayCut  \* may the end of the string be lost on the way?

ASSUME RoundTripAssumption == MayCut \in BOOLEAN

VARIABLE sent  \* what was handed over

vars == <<writerVars, readerVars, sent>>

Init == WriterInit /\ ReaderInit /\ sent = <<>>

Write == rstat = "idle" /\ ClientNext /\ UNCHANGED <<readerVars, sent>>

(***************************************************************************)
(* What is left of the string when it ends inside its token kept + 1.  A   *)
(* token that is cut itself raises like one that is missing, except that   *)
(* the Ruby code takes as much of a string as there is.                    *)
(***************************************************************************)
CutAfter(kept) ==
  LET tok == stream[kept + 1]
      short == IF Native \/ tok.t # "str" THEN {}
               ELSE {[tok EXCEPT !.v = s] : s \in Strings \ {Empty, tok.v}}
      rest == SubSeq(stream, 1, kept)
  IN  {rest} \cup {Append(rest, t) : t \in short}

\* The string is handed over, whole or cut short.
Hand ==
  /\ rstat = "idle" /\ ~Busy
  /\ rstat' = "run" /\ sent' = stream
  /\ \/ stream' = stream
     \/ MayCut /\ \E kept \in 0 .. Len(stream) - 1 : stream' \in CutAfter(kept)
  /\ UNCHANGED <<caches, stack, heap, met, pos, rstack, tables, made>>

Read == ReaderNext /\ UNCHANGED <<caches, stack, heap, met, sent>>

Next == Write \/ Hand \/ Read

Spec == Init /\ [][Next]_vars
FairSpec == Spec /\ WF_vars(Next)

-----------------------------------------------------------------------------
(***************************************************************************)
(* Properties.                                                             *)
(***************************************************************************)

\* Every variable of both sides has its type.
TypeOK == WriterTypeOK /\ ReaderTypeOK /\ sent \in Seq(Token)

Cut == rstat # "idle" /\ stream # sent

\* The writer's object o is the reader's node heap[o].nth: both count objects
\* in the order in which they are met.
Decoded(v) == IF v \in Obj THEN heap[v].nth ELSE v

\* No ArrayCollection holds an object.
Flat == \A o \in Obj : heap[o].depth = 0

\* What the reader has rebuilt of an object, at any moment, is a beginning of
\* what the writer found in it: same kind, same class, the same values under
\* the same names, and references to the same objects.
ReadAs(kind) == IF kind \in {"ac", "vector"} THEN "array" ELSE kind
NoMisreadOf(o) ==
  LET w == heap[o]
      r == made[w.nth]
  IN  /\ r.kind = ReadAs(w.kind)
      /\ w.kind = "object" => r.cls = WireName(w.tr)
      /\ Len(r.kids) <= Len(w.kids)
      /\ \A i \in DOMAIN r.kids : /\ r.kids[i].key = w.kids[i].key
                                  /\ r.kids[i].val = Decoded(w.kids[i].val)
NoMisread ==
  rstat # "idle" /\ Flat =>
    \A o \in Obj \cup {Root} : heap[o].nth \in DOMAIN made => NoMisreadOf(o)

\* When deserialize returns, nothing is missing from the graph, nothing is
\* left in the string, and both sides have counted the same objects, strings
\* and traits; and it returns, unless the string was cut.
RebuiltWhole ==
  /\ rstat = "error" => Cut
  /\ rstat = "done" =>
    /\ Len(made) = met
    /\ \A o \in Obj \cup {Root} : heap[o].nth \in DOMAIN made =>
         Len(made[heap[o].nth].kids) = Len(heap[o].kids)
    /\ pos = Len(stream) + 1
    /\ Len(objTab) = objIndex /\ Len(strTab) = strIndex /\ Len(traitTab) = traitIndex

\* The reader finds under the writer's index of an object that same object, or
\* is behind by one entry for every ArrayCollection around the object: it enters the source array's
\* index after the contents, the writer counts it before them.
ObjectIndexesShifted ==
  \A o \in Obj :
    objCache[o] # NotCached =>
      (objCache[o] - heap[o].depth \in 0 .. Len(objTab) - 1 =>
         objTab[objCache[o] - heap[o].depth + 1] = heap[o].nth)

\* The reader finds under the writer's index of a string that same string,
\* and under that of a class name the traits that every object written under
\* that name was given.
StringIndexesAgree ==
  \A s \in Strings \ {Empty} : strCache[StrKey[s]] \in 0 .. Len(strTab) - 1 =>
                                 strTab[strCache[StrKey[s]] + 1] = s
TraitsFound(tr) ==
  traitCache[TraitKey(tr)] \in 0 .. Len(traitTab) - 1 =>
    traitTab[traitCache[TraitKey(tr)] + 1] =
      [cls |-> WireName(tr), members |-> Members[tr], dyn |-> Dynamic[tr], ext |-> External[tr]]
NameIndexesAgree ==
  /\ StringIndexesAgree
  /\ \A o \in Obj : heap[o].kind = "object" => TraitsFound(heap[o].tr)

\* A string that lost its end is never taken for a whole value.
CutIsNoticed == rstat = "done" => ~Cut

\* Both calls return, cyclic graphs included; deserialize raises only if the
\* string was cut, or if an ArrayCollection that holds objects has put its
\* indexes out of step.
RoundTripEnds ==
  <>(rstat = "done" \/ (rstat = "error" /\ (Cut \/ \E o \in Obj : heap[o].depth > 0)))

-----------------------------------------------------------------------------
(***************************************************************************)
(* Statements the repository makes that the code does not keep; README.md  *)
(* gives the instances that refute them.                                   *)
(***************************************************************************)

\* The reader finds under the writer's index of an object that same object.
ObjectIndexesAgree ==
  \A o \in Obj : objCache[o] \in 0 .. Len(objTab) - 1 =>
                   objTab[objCache[o] + 1] = heap[o].nth
=============================================================================
