------------------------------ MODULE Envelope ------------------------------
(***************************************************************************)
(* One RocketAMF::Envelope that is filled from a stream, sent on, and      *)
(* filled again: env_populate_from_stream and env_serialize of             *)
(* ext/rocketamf_ext/remoting.c and their twins in pure/remoting.rb.       *)
(*                                                                         *)
(* The tokens of an envelope are a "word" (version or count), a "header"   *)
(* and a "message" (what comes before its data); ExternalMessage has those *)
(* of data, and data themselves.  An envelope as it is meant by who sends  *)
(* it, a member of Envelopes, has lists of headers and messages.           *)
(***************************************************************************)
EXTENDS ExternalMessage

CONSTANTS
  Envelopes,   \* what others send
  Samples,     \* bound: those that are cut off, and read before or after others
  Names,       \* of headers, targets and responses
  Data,        \* what headers and messages may hold
  LateReplace, \* may RocketAMF::ClassMapper be replaced after its first use?
  Written(_),  \* the tokens of data
  Meant(_),    \* what data stand for at the reader
  AsData(_, _), \* what was read, as the data it is written as in AMF0 or AMF3
  Passed(_, _), \* what the next reader gets for it
  MaxReads,    \* bound: the calls of populate_from_stream
  Native       \* TRUE: the C extension, FALSE: pure Ruby

Sendable ==
  [version : Nat,
   headers : Seq([name : Names, must : BOOLEAN, data : Data]),
   messages : Seq([target : Names, response : Names, data : Data])]

ASSUME EnvelopeAssumption ==
  /\ Envelopes \subseteq Sendable /\ Samples \subseteq Envelopes
  /\ LateReplace \in BOOLEAN /\ Native \in BOOLEAN
  /\ MaxReads \in Nat
  /\ None \notin [name : Names, must : BOOLEAN] \cup [target : Names, response : Names]

\* A list of fields leaves the highest bit alone.
ASSUME FieldsAssumption ==
  /\ HighBit \in Nat
  /\ \A cls \in DOMAIN Fields :
       /\ Fields[cls] \in Seq(Seq(Seq(DOMAIN Attr)))
       /\ \A l \in DOMAIN Fields[cls] : \A i \in DOMAIN Fields[cls][l] :
            Len(Fields[cls][l][i]) <= HighBit
  /\ Skipped \notin DOMAIN Attr /\ \A name \in DOMAIN Attr : Attr[name] # None

Part ==
  [t : {"flags"}, level : Nat, bytes : Seq(SUBSET Nat)]
  \cup [t : {"field"}, level : Nat, byte : Nat, bit : Nat, data : Data]

\* Flags come before the fields of their level, these byte after byte and bit
\* after bit.
Precedes(p, q) ==
  \/ p.level < q.level
  \/ /\ p.level = q.level /\ q.t = "field"
     /\ p.t = "field" => p.byte < q.byte \/ (p.byte = q.byte /\ p.bit < q.bit)

\* The parts of a message: flags for each level, and the fields they announce.
PartsInOrder(d) ==
  /\ d.parts \in Seq(Part)
  /\ \A j \in DOMAIN d.parts : \A k \in j + 1 .. Len(d.parts) : Precedes(d.parts[j], d.parts[k])
  /\ \A l \in DOMAIN Fields[d.cls] :
       \E k \in DOMAIN d.parts : d.parts[k].t = "flags" /\ d.parts[k].level = l
  /\ \A k \in DOMAIN d.parts :
       /\ d.parts[k].level \in DOMAIN Fields[d.cls]
       /\ d.parts[k].t = "flags" =>
            {<<p.byte, p.bit>> : p \in {q \in ToSet(d.parts) : q.t = "field" /\ q.level = d.parts[k].level}}
            = UNION {{i} \X (d.parts[k].bytes[i] \ {HighBit}) : i \in DOMAIN d.parts[k].bytes}

ASSUME DataAssumption ==
  \A d \in Data :
    /\ \/ d.is = "value" /\ d.v.is \in {"plain", "nil", "hash", "typed", "message"}
       \/ d.is = "array" /\ d.items \in Seq(Data)
       \/ d.is = "external" /\ d.cls \in DOMAIN Fields /\ PartsInOrder(d)
    /\ Written(d) = Layout(d, Written) /\ Written(d) \in Seq(ToSet(Written(d)))
    /\ Meant(d) = Meaning(d, Meant) /\ Meant(d) # None
    /\ \A ver \in {0, 3} :
         /\ Passed(ver, Meant(d)) = PassedOn(ver, Meant(d), Passed)
         /\ AsData(ver, Meant(d)) = Rewritten(ver, Meant(d), AsData, Passed)
         /\ AsData(ver, Meant(d)) \in Data

VARIABLES
  env,       \* @amf_version, @headers, @messages, and which mapper made them
  local,     \* the same, as far as populate_from_stream has read them
  at,        \* what it reads: "version", "headers", "header", "messages", "message"
  left,      \* headers or messages to come
  given,     \* the header or message whose data are being read, without them
  stat,      \* "idle", "run", "done" or "error"
  reads,     \* the calls of populate_from_stream
  sent,      \* history: the envelope on the stream
  before,    \* history: env when populate_from_stream was called
  active,    \* RocketAMF::ClassMapper, None until const_missing defines it
  inbound,   \* cClassMapper of env_populate_from_stream
  outbound   \* cClassMapper of env_serialize

mapperVars == <<active, inbound, outbound>>
vars == <<readVars, env, local, at, left, given, stat, reads, sent, before, mapperVars>>

Blank == [version |-> 0, headers |-> <<>>, messages |-> <<>>, by |-> None]

Init ==
  /\ stream = <<>> /\ des_pos = 1 /\ src_pos = 1 /\ stack = <<>> /\ value = None
  /\ env = Blank /\ local = Blank /\ at = "version" /\ left = 0 /\ given = None
  /\ stat = "idle" /\ reads = 0 /\ sent = None /\ before = Blank
  /\ active = None /\ inbound = None /\ outbound = None

-----------------------------------------------------------------------------
(***************************************************************************)
(* The sender.                                                             *)
(***************************************************************************)
WrittenHeader(h) == <<Tok("header", [name |-> h.name, must |-> h.must])>> \o Written(h.data)
WrittenMessage(m) ==
  <<Tok("message", [target |-> m.target, response |-> m.response])>> \o Written(m.data)

\* env_serialize, and what other programs do.
Serialized(e) ==
  <<Tok("word", e.version), Tok("word", Len(e.headers))>>
  \o FlattenSeq([k \in DOMAIN e.headers |-> WrittenHeader(e.headers[k])])
  \o <<Tok("word", Len(e.messages))>>
  \o FlattenSeq([k \in DOMAIN e.messages |-> WrittenMessage(e.messages[k])])

\* An envelope that was read, as env_serialize writes it: headers in AMF0,
\* messages in the version of the envelope.
HeadersIn(e) == 0
MessagesIn(e) == IF e.version = 3 THEN 3 ELSE 0
MustNot(h) == FALSE
Must(h) == h.must
AsEnvelope(e) ==
  [version |-> e.version,
   headers |-> LET names == SetToSeq(DOMAIN e.headers)
               IN  [k \in DOMAIN names |-> [name |-> names[k], must |-> Must(e.headers[names[k]]),
                                            data |-> AsData(HeadersIn(e), e.headers[names[k]].data)]],
   messages |-> [k \in DOMAIN e.messages |->
                   [e.messages[k] EXCEPT !.data = AsData(MessagesIn(e), @)]]]

-----------------------------------------------------------------------------
(***************************************************************************)
(* RocketAMF::ClassMapper.                                                 *)
(***************************************************************************)
DefinedAfresh == "ClassMapping"
DefinedNever == active
\* What rb_const_get gives; const_missing defines it at the first access.
Defined == IF active = None THEN "ClassMapping" ELSE active
Remembered(static) == IF static = None THEN Defined ELSE static

\* The application accesses the constant, as RocketAMF.serialize does.
Access ==
  /\ active = None
  /\ active' = Defined
  /\ UNCHANGED <<readVars, env, local, at, left, given, stat, reads, sent, before,
                 inbound, outbound>>

\* RocketAMF::ClassMapper = MyClassMapper
Replace ==
  /\ active # "custom" /\ (active = None \/ LateReplace)
  /\ active' = "custom"
  /\ UNCHANGED <<readVars, env, local, at, left, given, stat, reads, sent, before,
                 inbound, outbound>>

-----------------------------------------------------------------------------
(***************************************************************************)
(* populate_from_stream.                                                   *)
(***************************************************************************)
\* The Ruby code reads into the instance variables, the C code into variables
\* of its own, which it assigns when everything is there.
SoFarAtOnce(e) == local' = e /\ env' = e
SoFar(e) == local' = e /\ env' = IF Native THEN env ELSE e

\* Either of what somebody sent, or of what env_serialize has just returned.
Populate(source) ==
  /\ stat # "run" /\ reads < MaxReads
  /\ stream' = source
  /\ des_pos' = 1 /\ src_pos' = 1 /\ stack' = <<>> /\ value' = None
  /\ active' = Defined /\ inbound' = Remembered(inbound)
  /\ SoFar([Blank EXCEPT !.by = Remembered(inbound)])
  /\ at' = "version" /\ left' = 0 /\ given' = None
  /\ stat' = "run" /\ reads' = reads + 1 /\ before' = env

Receive(e) ==
  /\ Populate(Serialized(e))
  /\ sent' = e /\ UNCHANGED outbound

ReceiveCutOff(e) ==
  /\ LET whole == Serialized(e)
     IN  \E end \in 0 .. Len(whole) - 1 : Populate(SubSeq(whole, 1, end))
  /\ sent' = e /\ UNCHANGED outbound

\* env_serialize, and the envelope is filled with what it wrote.
Relay ==
  /\ stat = "done"
  /\ outbound' = Remembered(outbound)
  /\ Populate(Serialized(AsEnvelope(env))) /\ sent' = AsEnvelope(env)

\* The next token is read by des_read_uint16 and des_read_string.
Next1(t) ==
  /\ stat = "run" /\ Finds(t, des_pos)
  /\ des_pos' = des_pos + 1
  /\ UNCHANGED <<stream, src_pos, reads, sent, before, mapperVars>>
Here == stream[des_pos].p

ReadVersion ==
  /\ at = "version" /\ Next1("word")
  /\ SoFar([local EXCEPT !.version = Here])
  /\ at' = "headers"
  /\ UNCHANGED <<stack, value, left, given, stat>>

ReadCount(now, next) ==
  /\ at = now /\ Next1("word")
  /\ left' = Here /\ at' = next
  /\ UNCHANGED <<stack, value, env, local, given, stat>>

ReadHead(t) ==
  /\ at = t /\ left > 0 /\ given = None /\ Next1(t)
  /\ given' = Here
  /\ Deserialize
  /\ UNCHANGED <<env, local, at, left, stat>>

ReadData ==
  /\ stat = "run" /\ given # None
  /\ ReadSome
  /\ UNCHANGED <<env, local, at, left, given, stat, reads, sent, before, mapperVars>>

\* "If they're using the flex remoting APIs, remove array wrapper"
Unwrapped(v) ==
  IF v.is = "array" /\ Len(v.items) = 1 /\ v.items[1].is = "message" THEN v.items[1] ELSE v

StoreHeader ==
  /\ stat = "run" /\ at = "header" /\ given # None /\ value # None
  /\ SoFar([local EXCEPT !.headers =
              [name \in DOMAIN @ \cup {given.name} |->
                 IF name = given.name THEN [must |-> given.must, data |-> value] ELSE @[name]]])

StoreMessage ==
  /\ stat = "run" /\ at = "message" /\ given # None /\ value # None
  /\ SoFar([local EXCEPT !.messages = Append(@,
              [target |-> given.target, response |-> given.response, data |-> Unwrapped(value)])])

Store ==
  /\ StoreHeader \/ StoreMessage
  /\ given' = None /\ left' = left - 1 /\ value' = None
  /\ UNCHANGED <<stream, des_pos, src_pos, stack, at, stat, reads, sent, before, mapperVars>>

AllHeadersRead ==
  /\ stat = "run" /\ at = "header" /\ left = 0
  /\ at' = "messages"
  /\ UNCHANGED <<readVars, env, local, left, given, stat, reads, sent, before, mapperVars>>

\* "Populate remoting object"
Populated ==
  /\ stat = "run" /\ at = "message" /\ left = 0
  /\ env' = local /\ stat' = "done"
  /\ UNCHANGED <<readVars, local, at, left, given, reads, sent, before, mapperVars>>

\* The end of the source, or something else than is looked for.
Raise ==
  /\ stat = "run"
  /\ \/ at \in {"version", "headers", "messages"} /\ ~Finds("word", des_pos)
     \/ at \in {"header", "message"} /\ left > 0 /\ given = None /\ ~Finds(at, des_pos)
     \/ given # None /\ Raises
  /\ stat' = "error"
  /\ UNCHANGED <<readVars, env, local, at, left, given, reads, sent, before, mapperVars>>

Reading ==
  \/ ReadVersion \/ ReadCount("headers", "header") \/ ReadHead("header")
  \/ ReadCount("messages", "message") \/ ReadHead("message")
  \/ ReadData \/ Store \/ AllHeadersRead \/ Populated \/ Raise

Next ==
  \/ Access \/ Replace \/ Relay \/ Reading
  \/ sent = None /\ \E e \in Envelopes : Receive(e)
  \/ sent \in Samples /\ \E e \in Samples : Receive(e)
  \/ sent \in {None} \cup Samples /\ \E e \in Samples : ReceiveCutOff(e)

Spec == Init /\ [][Next]_vars

\* Reading is a loop that always has a next step.
FairSpec == Spec /\ WF_vars(Reading)

-----------------------------------------------------------------------------
(***************************************************************************)
(* Properties.                                                             *)
(***************************************************************************)

\* Every variable that is not data has its type.
TypeOK ==
  /\ des_pos \in 1 .. Len(stream) + 1 /\ src_pos \in 1 .. Len(stream) + 1
  /\ at \in {"version", "headers", "header", "messages", "message"}
  /\ left \in Nat /\ stat \in {"idle", "run", "done", "error"}
  /\ reads \in 0 .. MaxReads
  /\ DOMAIN env = DOMAIN Blank /\ DOMAIN local = DOMAIN Blank
  /\ {active, inbound, outbound} \subseteq {None, "ClassMapping", "custom"}
  /\ reads > 0 => local.by \in {"ClassMapping", "custom"}

\* Calls of the flex API are messages in arrays of one.
MeantCall(d) ==
  IF d.is = "array" /\ Len(d.items) = 1 /\ Meant(d.items[1]).is = "message"
  THEN Meant(d.items[1]) ELSE Meant(d)

\* The last of the first n headers that has the name counts.
LastNamed(headers, n, name) ==
  {k \in 1 .. n : headers[k].name = name /\ \A j \in k + 1 .. n : headers[j].name # name}
LastOf(headers, name) ==
  headers[CHOOSE k \in LastNamed(headers, Len(headers), name) : TRUE]
MeantEnvelope(e) ==
  [version |-> e.version,
   headers |-> [name \in {h.name : h \in ToSet(e.headers)} |->
                  [must |-> LastOf(e.headers, name).must,
                   data |-> Meant(LastOf(e.headers, name).data)]],
   messages |-> [k \in DOMAIN e.messages |->
                   [e.messages[k] EXCEPT !.data = MeantCall(@)]]]
Content(e) == [version |-> e.version, headers |-> e.headers, messages |-> e.messages]

\* An envelope that was read says what its sender meant: the last header of
\* each name, every message, and in external messages each field under its own
\* name; nothing is left in the stream.  Only what lost its end is refused.
EnvelopeKept ==
  /\ stat = "done" => /\ Content(env) = MeantEnvelope(sent)
                      /\ stream = Serialized(sent) /\ des_pos = Len(stream) + 1
  /\ stat = "error" => stream # Serialized(sent)

PassedContent(e) ==
  [version |-> e.version,
   headers |-> [name \in DOMAIN e.headers |->
                  [e.headers[name] EXCEPT !.data = Passed(HeadersIn(e), @)]],
   messages |-> [k \in DOMAIN e.messages |->
                   [e.messages[k] EXCEPT !.data = Passed(MessagesIn(e), @)]]]

\* An envelope that was read, sent on and read again has the headers with their
\* must_understand, and the messages, with data that differ in two ways only:
\* an object of a class that is not mapped has lost its type, and an
\* ErrorMessage in AMF0 is a hash of the three fields of a fault. No call is
\* taken out of an array by the second reader that the first one left in it.
RelayKept ==
  stat = "done" /\ sent = AsEnvelope(before) => Content(env) = PassedContent(before)

\* When populate_from_stream raises, the envelope is as it was before.
AllOrNothing == stat \in {"run", "error"} => env = before

\* Objects are made and written by the class mapper that the application has
\* set, if it set it before the first use.
ChosenMapperUsed ==
  [][active = "custom" /\ reads' # reads
       => local'.by = "custom" /\ (Relay => outbound' = "custom")]_vars

\* populate_from_stream returns or raises, whatever it is given.
PopulateEnds == (stat = "run") ~> (stat \in {"done", "error"})

-----------------------------------------------------------------------------
\* What the format would let one expect of env_serialize and the code does not
\* keep; README.md gives the instances that refute it: an envelope that was
\* read and sent on is the same at the next reader.
RelayedSame == stat = "done" /\ sent = AsEnvelope(before) => Content(env) = Content(before)
=============================================================================
