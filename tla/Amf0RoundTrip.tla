---------------------------- MODULE Amf0RoundTrip ----------------------------
(***************************************************************************)
(* A message in AMF0, possibly with a part in AMF3, from the serializer of *)
(* RocketAMF or from a client, handed over whole or cut short to           *)
(* RocketAMF.deserialize(string, 0).                                       *)
(***************************************************************************)
EXTENDS Amf0Writer, Amf0Reader

CONSTANT MayCut  \* may the end of the string be lost on the way?

ASSUME RoundTripAssumption == MayCut \in BOOLEAN

VARIABLE sent  \* how many tokens were handed over

vars == <<writerVars, readerVars, sent>>
writerState == <<cache, index, stack, heap, met, switched, wstat>>

Init == WriterInit /\ ReaderInit /\ sent = 0

Write == rstat = "idle" /\ WriterNext /\ UNCHANGED <<readerVars, sent>>

\* A token that is cut itself raises in C like one that is missing; MayCut is
\* meant for the C extension.
Hand ==
  /\ rstat = "idle" /\ stack = <<>>
  /\ rstat' = "run" /\ sent' = Len(stream)
  /\ \E kept \in (IF MayCut THEN 0 .. Len(stream) ELSE {Len(stream)}) :
       stream' = SubSeq(stream, 1, kept)
  /\ UNCHANGED <<writerState, pos, rstack, objTab, made>>

Read == ReaderNext /\ UNCHANGED <<writerState, sent>>

Next == Write \/ Hand \/ Read

Spec == Init /\ [][Next]_vars
FairSpec == Spec /\ WF_vars(Next)

-----------------------------------------------------------------------------
\* Every variable of both sides has its type.
TypeOK == WriterTypeOK /\ ReaderTypeOK /\ sent \in Nat

Cut == Len(stream) < sent

Decoded(v) == IF v \in Obj THEN heap[v].nth ELSE v

\* At any moment, what the reader has rebuilt of an object is a beginning of
\* what the writer found in it.
NoMisreadOf(o) ==
  LET w == heap[o]
      r == made[w.nth]
  IN  /\ r.kind = w.kind /\ r.cls = w.cls
      /\ Len(r.kids) <= Len(w.kids)
      /\ \A i \in DOMAIN r.kids : /\ r.kids[i].key = w.kids[i].key
                                  /\ r.kids[i].val = Decoded(w.kids[i].val)
NoMisread ==
  rstat # "idle" =>
    \A o \in Obj \cup {Root} : heap[o].nth \in DOMAIN made => NoMisreadOf(o)

\* deserialize returns, unless the string was cut; then the graph is complete and
\* the source is at its end, where an Envelope looks for the next message.
RebuiltWhole ==
  /\ rstat = "error" => Cut
  /\ rstat = "done" =>
    /\ Len(made) = met
    /\ \A o \in Obj \cup {Root} : heap[o].nth \in DOMAIN made =>
         Len(made[heap[o].nth].kids) = Len(heap[o].kids)
    /\ pos = Len(stream) + 1

\* Inside the AMF3 part as well as outside, the reader finds under the writer's
\* index of an object that same object.
IndexesAgree ==
  \A m \in {0, 3}, o \in Obj :
    LET tab == objTab[TableFor(m)]
    IN  cache[m][o] \in 0 .. Len(tab) - 1 => tab[cache[m][o] + 1] = heap[o].nth

\* A string that lost its end is never taken for a whole value.
CutIsNoticed == rstat = "done" => ~Cut

\* serialize raises, or both calls return, cyclic graphs included; deserialize
\* raises only if the string was cut.
RoundTripEnds ==
  <>(wstat = "error" \/ rstat = "done" \/ (rstat = "error" /\ Cut))

-----------------------------------------------------------------------------
(***************************************************************************)
(* Statements the repository makes that the code does not keep; README.md  *)
(* gives the instances that refute them.                                   *)
(***************************************************************************)

\* A switch to AMF3 starts over with an empty object table, as if a second
\* deserializer read the part: its first object has index 0.
PartStandsAlone ==
  \A o \in Obj : cache[3][o] # NotCached /\ heap[o].nth \in DOMAIN made =>
    /\ cache[3][o] < Len(objTab["objects"])
    /\ objTab["objects"][cache[3][o] + 1] = heap[o].nth

\* An index of more than 16 bits is refused, never written as another one.
IndexesFit ==
  [][\A o \in Obj : WriteReference(o) /\ Top.m = 0 => cache[0][o] <= RefLimit]_vars
=============================================================================
