---------------------------- MODULE MCEnvelope ----------------------------
(***************************************************************************)
(* An instance of Envelope.  Classes of messages with the ancestors of the *)
(* real ones, but fewer fields; bytes of flags have three bits besides the *)
(* highest one, so that every list has a bit beyond its end.               *)
(***************************************************************************)
EXTENDS Envelope, EnvelopeData

Abstract == << <<"body", "clientId">>, <<"clientIdBytes">> >>
Async == << <<"correlationId", "correlationIdBytes">> >>
MCFields == [cls \in {"DSA", "DSC", "DSK"} |->
               CASE cls = "DSA" -> <<Abstract, Async>>
                 [] cls = "DSC" -> <<Abstract, Async, << <<"operation">> >> >>
                 [] cls = "DSK" -> <<Abstract, Async, << <<>> >> >>]
MCAttr == [body |-> "body", clientId |-> "clientId", clientIdBytes |-> "clientId",
           correlationId |-> "correlationId", correlationIdBytes |-> "correlationId",
           operation |-> "operation"]

Plain(v) == [is |-> "value", v |-> [is |-> "plain", v |-> v]]
V == Plain(<<>>)
W == Plain(<<0>>)

\* An object whose class is not mapped, a fault that has one for its detail, and
\* a message that has both, none of them externalizable.
Typed == [is |-> "value", v |-> [is |-> "typed", type |-> "C", props |-> [q |-> V.v]]]
Fault == [is |-> "value", v |-> [is |-> "message", cls |-> "ErrorMessage",
                                 attrs |-> [clientId |-> V.v, faultCode |-> W.v,
                                            faultDetail |-> Typed.v]]]
Remoting == [is |-> "value", v |-> [is |-> "message", cls |-> "RemotingMessage",
                                    attrs |-> [body |-> [is |-> "array",
                                                         items |-> <<Fault.v, Typed.v>>]]]]

\* The fields that the flags of a level announce; each has a value of its own.
FieldsOf(l, bytes) ==
  FlattenSeq([i \in DOMAIN bytes |->
    LET bits == SetToSortSeq(bytes[i] \ {HighBit}, <)
    IN  [k \in DOMAIN bits |-> [t |-> "field", level |-> l, byte |-> i, bit |-> bits[k],
                                data |-> Plain(<<l, i, bits[k]>>)]]])
PartsOf(flags) ==
  FlattenSeq([l \in DOMAIN flags |->
    <<[t |-> "flags", level |-> l, bytes |-> flags[l]]>> \o FieldsOf(l, flags[l])])
External(cls, flags) == [is |-> "external", cls |-> cls, parts |-> PartsOf(flags)]
With(d, k, inner) == [d EXCEPT !.parts[k].data = inner]
List(items) == [is |-> "array", items |-> items]

\* Flags of AbstractMessage in one byte or two, and in one byte for others.
FlagsOfAbstract == {<<b>> : b \in SUBSET (0 .. 2)}
                   \cup {<<b \cup {HighBit}, c>> : b \in SUBSET (0 .. 2), c \in SUBSET (0 .. 1)}
FlagsOf(n) == {<<b>> : b \in SUBSET (0 .. n)}
EveryMessage ==
  {External("DSA", <<a, b>>) : a \in FlagsOfAbstract, b \in FlagsOf(2)}
  \cup {External(cls, <<a, b, c>>) :
          cls \in {"DSC", "DSK"}, a \in FlagsOfAbstract, b \in FlagsOf(1), c \in FlagsOf(1)}

Ack == External("DSK", << <<{0, HighBit}, {0}>>, <<{0}>>, <<{}>> >>)
Nested == With(External("DSA", << <<{0, 1}>>, <<{1}>> >>), 2, Ack)
Deep == With(External("DSC", << <<{1, 2}>>, <<{0}>>, <<{0}>> >>), 3, List(<<Nested, Ack>>))

\* A name and its bytes, some of them nil.
Both == External("DSA", << <<{1, HighBit}, {0}>>, <<{0, 1}>> >>)
Void == [is |-> "value", v |-> Nil]
Silent == {With(Both, k, Void) : k \in {2, 3, 5, 6}} \cup {With(With(Both, 2, Void), 3, Void)}

One(data) == <<[target |-> "t", response |-> "/1", data |-> data]>>
Faulty == With(External("DSA", << <<{0, 1}>>, <<{1}>> >>), 2, List(<<Fault, Typed>>))
Alone == {[version |-> 3, headers |-> <<>>, messages |-> One(m)] :
            m \in EveryMessage \cup Silent \cup {Deep, Faulty, Remoting}}

Bodies == {V, Typed, Fault, Nested, List(<<>>), List(<<W>>), List(<<V, W>>),
           List(<<Fault>>), List(<<Remoting>>), List(<<Typed, Fault>>), List(<<Ack>>),
           List(<<Nested, W>>), List(<<Ack, Ack>>)}
Headers == {<<>>} \cup {<<[name |-> n, must |-> b, data |-> d]>> :
                          n \in {"h1"}, b \in BOOLEAN, d \in {V, Ack, Typed, Fault}}
           \cup {<<[name |-> "h1", must |-> TRUE, data |-> V],
                   [name |-> n, must |-> FALSE, data |-> W]>> : n \in {"h1", "h2"}}
Together ==
  {[version |-> 0, headers |-> h, messages |-> ms] :
     h \in Headers, ms \in {<<>>} \cup {One(b) : b \in Bodies}
                           \cup {One(b) \o <<[target |-> "u", response |-> "/2", data |-> c]>> :
                                   b \in Bodies, c \in Bodies}}

Some ==
  {[version |-> 3, headers |-> <<[name |-> "h1", must |-> TRUE, data |-> Ack]>>,
    messages |-> One(Nested)],
   [version |-> 0, headers |-> <<>>, messages |-> One(List(<<Nested, W>>)) \o One(V)],
   [version |-> 3, headers |-> <<[name |-> "h1", must |-> FALSE, data |-> Fault]>>,
    messages |-> One(List(<<Fault>>)) \o One(Typed)]}

EveryEnvelope == Alone \cup Together \cup Some

MCNames == {"t", "u", "/1", "/2", "h1", "h2"}
Holders == EveryMessage \cup Silent \cup {Ack, Nested, Deep, Faulty}
EveryData ==
  LET own == Bodies \cup Holders \cup {W, Remoting}
             \cup UNION {{d.parts[k].data : k \in {j \in DOMAIN d.parts : d.parts[j].t = "field"}} :
                        d \in Holders}
  IN  own \cup {DataOf(ver, MeantData(d)) : ver \in {0, 3}, d \in own}
MCData == EveryData
=============================================================================
