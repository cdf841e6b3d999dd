# Verification of RocketAMF

RocketAMF reads and writes AMF0 and AMF3, the formats in which Flash programs
exchange objects with servers, and puts calls and their answers into AMF
envelopes.  The library exists twice: as a C extension (`ext/rocketamf_ext`) and
as pure Ruby code (`lib/rocketamf/pure`).  Both are modelled; where they differ, a
constant `Native` tells which one is meant.

The difficulty of AMF is that references are numbered by counting.  The writer
gives every object, string and class description an index at the moment it is
first met; the reader has to arrive at the same index by counting what it reads.
No table is ever sent.  A single entry made earlier, later or twice on one side
gives a message that is well formed and means something else.  Most of this
project is about that.

Contents: [parts of the system](#parts-of-the-system), [modules](#modules),
[how the code is modelled](#how-the-code-is-modelled), [runs](#runs),
[bounds](#bounds), [fairness](#fairness), [proofs](#proofs),
[divergences](#divergences), [what is left out](#what-is-left-out),
[plan](#plan).

## Parts of the system

| Part | State it keeps | Operations | What makes it correct |
|---|---|---|---|
| AMF3 serializer (`serializer.c` `ser3_*`, `pure/serializer.rb` `amf3_*`) | object, string and trait cache, and the next index of each | `serialize(3, obj)`; `write_array` and `write_object` for callbacks | an index is given to one object, string or class only; what is written can be read back |
| AMF3 deserializer (`deserializer.c` `des3_*`, `pure/deserializer.rb`) | position in the source, object, string and trait table | `deserialize(3, source)` | finds under each index what the writer meant; notices a string that ends early |
| AMF0 serializer and deserializer (`ser0_*`, `des0_*`, `amf0_*`) | one object table; references of 16 bits; a switch to AMF3 | `serialize(0, obj)`, `deserialize(0, source)` | the same, also for messages of Flash clients |
| Serializer session (`Serializer#serialize`) | `version`, `depth`, the tables, for as long as `depth` is not 0 | calls one after the other, and calls inside `encode_amf` and `write_external` | each message can be decoded on its own; no running call loses its tables |
| AMF3 integer codec (`ser_write_int`, `des_read_int`, `pack_integer`) | none | write and read integers, lengths, vector elements | what is written is read back, at every size and sign |
| Remoting envelope (`remoting.rb`, `pure/remoting.rb`, `remoting.c`) | `amf_version`, `headers`, `messages`, `call_type`, `constructed`; the class mapper it remembers | `call`, `call_flex`, `populate_from_stream`, `each_method_call`, `serialize`, `result` | every call performed once and answered to its own caller; an envelope that is refused changes nothing |
| Class mapping (`class_mapping.rb`, `class_mapping.c`) | sets of mappings in both directions; for each mapper a cache of properties | `define`, `reset`, `map`, `new`, `get_as_class_name`, `get_ruby_obj`, `populate_ruby_obj`, `props_for_serialization` | a name makes the class it was mapped to last, whatever else is defined, reset or looked up meanwhile |
| Message values (`values/messages.rb`) | fields of messages | `read_external` with flags, `ErrorMessage` | fields are read in the order the flags tell |
| Array extension (`extensions.rb`) | `is_array_collection` of an array | accessors | decides whether an array is written as an `ArrayCollection` |
| IO helpers (`pure/io_helpers.rb`, `utility.h`) | none | pack and unpack | conversions |
| Loading, constants, build files, specs | none | | not part of the behaviour |

How they interact.  `Envelope#serialize` calls one `Serializer` for every header
and body, `populate_from_stream` one `Deserializer`.  The serializer asks the
class mapper for class names and properties, and calls back into application
code: getters, `encode_amf`, `write_external`; these may call `serialize`,
`write_array` and `write_object` again, make objects that nothing else holds,
and raise.  The deserializer calls `read_external`, which reads from the same
source.  `each_method_call` runs a block of the application.

What is hard.  There are no threads inside the library, but threads of an
application share the tables of the class mapper.  The hard behaviours are the
order of counting on two sides; shared and cyclic graphs; calls nested through
callbacks, with exceptions that somebody rescues half way; objects that are
collected while a table still knows their address; a switch of format inside a
message; indexes, lengths and integers at the edge of their width; messages cut
short; two positions in one source that are copied to and fro; a name that is
changed in place, at one place after the other, while its namespaces are loaded; and a loop over messages that the
application may leave at any point.
`PROJECT.json` lists them as hazards, each with its line.

## Modules

| Module | What it is |
|---|---|
| `Amf3Stream` | the tokens of AMF3 and the constants both sides share |
| `Amf3Writer` | one call of `serialize(3, ...)`: `ser3_serialize`, `ser3_write_*` |
| `Amf3Client` | the writer, and what only a Flash client writes: XML, arrays with entries, dictionaries, vectors |
| `Amf3Reader` | one call of `deserialize(3, ...)`: `des3_deserialize`, `des3_read_*` |
| `Amf3RoundTrip` | the writer or client, the handover of the string, the reader; the properties that relate them |
| `Amf3Proofs` | theorems about `Amf3Writer` and the types of `Amf3RoundTrip`; what a reader that follows the writer has in each state |
| `Amf3Simulation` | the reader does follow the writer, step by step; the theorems about the round trip of AMF3 |
| `Amf0Stream`, `Amf0Writer`, `Amf0Reader`, `Amf0RoundTrip` | the same for AMF0; the writer is RocketAMF or a client (`Flash`), and a message may switch to AMF3 |
| `Amf0Proofs` | theorems about `Amf0RoundTrip`: what is read is what was written |
| `ReferenceLog` | abstract: what a serializer promises about references, whatever its tables |
| `SerializerSession` | one `Serializer` over its life; implements `ReferenceLog` |
| `SessionProofs` | theorems about `SerializerSession` |
| `AmfInteger`, `AmfIntegerProofs` | the variable length integers, and theorems for every size of byte |
| `RemoteCalls` | abstract: each call is performed once and its caller gets its own outcome |
| `RemotingExchange` | a request and its response, from `Envelope#call` to `Envelope#result`; implements `RemoteCalls` |
| `RemotingProofs` | theorems about `RemotingExchange`, the refinement among them |
| `ExternalMessage` | the C deserializer and `read_external` of the message classes, with the two positions they share |
| `Envelope` | one envelope that is filled from streams and sent on: `populate_from_stream`, `serialize`, and the class mapper they remember; how data is laid out (`Written`), what it means (`Meant`), how it is written again (`AsData`) and what the next reader gets (`Passed`) are parameters, which the assumptions tell how to unfold |
| `EnvelopeData` | these parameters for the run, as recursive operators |
| `EnvelopeProofs` | theorems about `Envelope`: what is read is what was sent, in data of any depth, with external messages inside each other |
| `ClassMapper`, `ClassMapperProofs` | the class mapper of the C extension, and theorems for any number of threads, mappers and names |
| `MC...` | the instances that TLC checks, one `.cfg` for each run |

`PROJECT.json` (`map`) names for every definition the lines it stands for.

## How the code is modelled

**Recursion.**  The C and Ruby functions call each other recursively.  In the
models the active functions are a stack of frames; a frame says what the function
has still to do.  A step reads or writes one token.

**Tokens instead of bytes.**  A stream is a sequence of tokens: a marker with
what follows it up to the next value or name.  What matters of a token is what
the other side branches on.  The bytes of integers are the subject of
`AmfInteger`.

**The graph is chosen while it is written.**  The contents of an object are
looked at once, when it is met for the first time; after that it is a reference.
So the model picks the contents at that moment, and TLC tries every graph within
the bounds.  `heap` remembers the graph, so that the properties can compare it
with `made`, what the reader has built.  `nth` numbers objects in the order in
which they are met.

**What the class mapper answers** (class name, members, dynamic, externalizable)
is a constant function of the traits that an object is found to have.
`write_external` is a function that writes a fixed number of values.

**AMF3 writer.**  `objCache`/`objIndex` are `ser->obj_cache`/`obj_index`, and so
on for strings and traits.  Traits are looked up by class name, with
`__default__` for plain hashes; objects whose traits have no class name never
enter the table.  `ObjSlots` is the second index that an `ArrayCollection` takes
for its source array.

**AMF3 reader.**  The order in which it enters objects is modelled as it is: an
array before its values, an externalizable object before `read_external`, the
traits after their names, and the source array of a collection again after the
collection was read.  A reference past the end raises in C and gives `nil` in
Ruby.

**AMF3 clients.**  XML, arrays with entries before their values, dictionaries and
vectors are written by clients only.  `Amf3Client` adds them to the actions of
the writer, as the reverse of what `des3_read_*` accepts; it counts as
RocketAMF's writer does, which the specification of AMF3 prescribes.

**AMF0.**  In C both versions share one object table, in Ruby AMF0 has its own
(`TableFor`).  A reference has 16 bits: C raises on a larger index, Ruby drops the
high bits (`Unwritable`, `IndexWritten`).  `ReadProps` has the end of an object as
each implementation looks for it: after any name in Ruby, after an empty one in
C.

**Session.**  Objects have addresses (object ids in Ruby).  `Make` is a getter or
callback that creates an object, which lives as long as the function that asked
for it; `Collect` is the garbage collector.  The Ruby table holds on to its
objects, the C table does not (`Pinned`).  `Raise` unwinds to whoever rescues;
`depth` stays where it was, as in the code.  A missing table is a `NULL` pointer
in C (`Crash`).

**Remoting.**  A message is its kind and the number in its response URI.
`EachMethodCall`, one action for each way an iteration can end, and `Construct`
are the loop; `Respond` is serialization, `populate_from_stream` at the client
and `result` in one step, since nothing else runs in between.  It waits until the
response counts as constructed, as a gateway does; `env_serialize` does not look at
that.  In the refinement of `RemoteCalls` a call counts as performed when its
answer is there.

**Envelopes.**  What a sender means is a record of headers and messages
(`Envelopes`); `Serialized` is its stream of tokens, `MeantEnvelope` what it stands
for, written down without reading anything in order.  `populate_from_stream`
reads one token after another; in C into variables that are assigned at the end,
in Ruby into the envelope (`SoFar`).  `des_pos` and `src_pos` are the positions of
the deserializer and of its source; which of them a function goes on from is what
`Start`, `Goes` and `ReadFlags` take from the code.  Data are plain values, arrays
of data, or external messages.  The latter are lists of `parts`, the flags and fields
in the order in which a client writes them (`PartsInOrder`); flags are bytes, and a
byte is the set of its bits.  `Layout` and `Meaning` say for one level of data how it is
written and what it stands for.  `inbound` and `outbound` are the two static
`cClassMapper` of `remoting.c`.

Not all of what was read is there again when it is sent on.  `PassedOn` says what the
next reader gets for a value: a typed hash, which is an object whose class is not mapped, is
written without its type (`class_mapping.c:294-303`), and an `ErrorMessage` in AMF0
is a hash of the three fields of a fault (`values/messages.rb:200-207`); hashes,
arrays and other messages are what they were, with what becomes of their parts.
Headers are written in AMF0, messages in the version of the envelope (`HeadersIn`,
`MessagesIn`).  `Rewritten` gives the data in which a value is written again:
external messages are written field by field, as any object of their class.

**Class mapper.**  A call of `map` is identified by its number, which also stands
for the string it handed over: `as_mappings` keeps that string itself, and
`get_ruby_obj` cuts it in place with a NUL, at one "::" after the other, while Ruby
looks for the namespace before that "::" (`class_mapping.c:327-332`).  If the namespace
has to be loaded, that takes time and may raise; other threads may look up names and
the application may define and reset.  So a lookup is a step that goes as far as the first "::"
where it is interrupted (`Begin`), one for each further "::" where it is
(`GoesOn`), and one that ends it (`Found` or `NotFound`).  Which namespaces are there
already is up to the application, which may load and unload what it likes at any
time; so the model leaves open where a lookup is interrupted.  A place that is cut hides those
behind it (`Ahead`), which is why a second lookup of the same name stops
there, but it may be interrupted before it.  Everything else that Ruby's global
lock makes one step is one action.  Each call of `map` is taken to hand over a string of its
own: one that is handed over twice (`class_mapping.c:137-140` keeps the object it is
given) would be cut for both calls.  `seen` remembers which getters a class has had
since a mapper was made.

**Slips.**  In the component modules, an operator that stands just before another
and is named after it (`ObjSlotsOne` and `ObjSlots`) is that operator with a
plausible mistake.  Nothing uses it.  Put in place of the other it makes a
property fail; `PROJECT.json` (`mutants`) lists which one, so that every property
is known to say something about the code.

## Runs

| Run | Shows | Distinct states |
|---|---|---|
| `amf3_plain` | Every graph of up to three objects (arrays with and without entries, collections of strings and back references, hashes, typed and externalizable objects, dates, XML, dictionaries, vectors), in which collections hold nothing new, is accepted and read back as written. `NoMisread` holds at every moment: what the reader has is a beginning of what the writer found. `NameIndexesAgree` compares the string and trait tables of both sides. | 2.6 million |
| `amf3_nested` | When collections hold objects, the reader is behind by exactly one index for each collection around an object (`ObjectIndexesShifted`), which is the precise extent of the divergence below. A string cut anywhere is never read as a whole value by C. Both calls return, on cyclic graphs too. | 2.1 million |
| `amf3_collection_contents` | *Refuted*: `ObjectIndexesAgree`. | |
| `amf0_clients` | Pure Ruby reads messages of clients, with associative arrays, empty property names and an AMF3 part anywhere, as they were meant; both tables agree on every index. | 210 000 |
| `amf0_own` | The C extension reads back what it wrote. Where an index does not fit a reference, it raises and nothing wrong is written. Cut messages are noticed. The calls always end. | 1.3 million |
| `session_ruby` | The Ruby serializer implements `ReferenceLog`: every message, with nested calls and objects that come and go, can be decoded on its own. | 290 000 |
| `session_raises` | The C extension, anything may raise: `depth` may stay too high but is never too low, and no running call loses its tables. | 52 000 |
| `session_rescued` | *Refuted*: `MessagesSelfContained`. | |
| `integers` | With bytes of three bits: every integer on both sides of the range, every length and every vector element (C) is read back as it was, and the reader ends. | 13 000 |
| `remoting` | Requests of both kinds of clients, whose calls return, raise or leave the loop, implement `RemoteCalls`; URIs are distinct; faults come back as faults to the caller that caused them; every request is answered or given up; and however often `each_method_call` is left by a break, a throw or an error and called again, a response that counts as constructed has an answer to each message. | 320 000 |
| `envelope` | One envelope object (C) is filled, sent on and filled again, from streams that are whole or cut off anywhere. It says what the sender meant (`EnvelopeKept`): every message, the last header of each name, external messages with nested messages and flags that nobody knows. What is sent on has lost, at the next reader, the types of objects that are not mapped and what makes no fault of an `ErrorMessage` in AMF0, and nothing else: no header, `must_understand`, message or field, and no call is taken out of an array that the first reader left in one (`RelayKept`). A stream that is refused leaves the envelope as it was (`AllOrNothing`). A class mapper set before the first use is used throughout. Reading ends. | 300 000 |
| `class_mapper` | Two threads and two mappers, while the application defines and resets and any namespace may have to be loaded: a name makes the class it was mapped to last in the set of its mapper, and a class is written under the name it was mapped to last; two lookups may have cut the same string, at different places, but each "::" is cut by one lookup at a time and restored, unless that one raises (`EachPlaceCutByOne`); the properties that are written are some that the class had in the time of the mapper. | 3.6 million |

All runs stop in the end (`CHECK_DEADLOCK FALSE`) except `class_mapper`: a model
follows one or a few calls, which return.  That they do not stop early is what
`RoundTripEnds`, `AllRead`, `Responded` and `PopulateEnds` say.

## Bounds

* **Objects.**  Three in `amf3_plain`, `amf3_nested`, `amf0_clients` and
  `amf0_own`.  An error of counting needs an object that takes an index too many
  or too few, an object behind it, and a reference to that one; a third object
  can be around or between them.  Objects are interchangeable, so symmetry is
  used where no liveness property is checked.
* **`MaxLen`**, the values of an array and the dynamic properties of an object: 2,
  enough for an object and a reference behind it in the same container; 1 in
  `amf3_nested`, which wants three objects one inside the other (an externalizable
  object still holds two values there).
* **Strings**: one that serves as a value and a property name, one that is a class
  name, the empty one.  Plain values are that string in `amf3_plain` and `null` in
  `amf3_nested`: a string takes part in the counting, `null` does not.
* **`RefLimit`** stands for 65535 (`0xffff`).  `amf0_clients` has the real value; in
  `amf0_own` it is 1, so that three objects exceed it.
* **Session**: `MaxMessages` (2 or 3) top-level calls, `MaxWrites` objects written
  or referred to, `MaxNesting` active functions, `MaxDepth` the largest `depth`.
  A stale entry needs a message that leaves it and one that meets it; nesting
  of six allows a callback in an object in a callback.
* **`Group`** is the number of values of a byte without its flag, 128 in the code.
  Everything else follows from it, so that with `Group = 4` each of the four
  forms and each boundary occurs.  The theorem below holds for every `Group`,
  and so for 128.
* **`ClientLen`**: 1 entry, pair or item in what only clients write; one more
  multiplies the graphs and repeats the same step.
* **Remoting**: `MaxMessages` 3, `MaxTries` 3 calls of `each_method_call`: a message
  before and one behind the one where the loop is left, and a half response on
  top of another.
* **Envelope**: `EveryMessage` has every combination of flags, with a bit beyond the
  end of each list of fields, for three classes of the shape of the real ones;
  `Silent` has messages whose identifiers, or the bytes of these, are nil;
  `Together` has every pair of bodies and of headers; unmapped objects and faults
  are among them, inside each other, in arrays and in messages.  Each of them is read once;
  three `Samples` are cut at every token and read before, after and instead of each
  other, up to `MaxReads = 3` times, so that a refused stream comes between two
  good ones.
* **Class mapper**: two threads, two mappers, two names and two classes, `MaxSets` 2 and
  `MaxCalls` 3 (one call is that of `map_defaults`): a name mapped twice, and a mapper
  that keeps an old set beside one with the new.  `Depth` is 2 for a class of the library,
  as in `RocketAMF::Values::ErrorMessage`, and 0 for one of the application; lookups
  raise at no more than `MaxRaised = 2` places.  The theorems hold for any number.

## Fairness

Serializer, deserializer and integer codec are single-threaded code that always
has a next step until it returns: `WF_vars(Next)`.  In `RemotingExchange` only
`Gateway` is fair, the steps of the server once a request has arrived; a client
may never send.  In `Envelope` only `Reading` is fair: `populate_from_stream` is a
loop that has a next step until it returns or raises; nobody has to call it.  A step
of the gateway includes the application's block, so `Responded` assumes that each
block returns or raises.

## Proofs

TLAPS checks the following for all values of the constants that meet the named
assumptions of the modules (`StreamAssumption`, `WriterAssumption`, `ClientAssumption`
and `RoundTripAssumption` of the two formats, `SessionAssumption`,
`IntegerAssumption`, `RemotingAssumption`, `MapperAssumption`, and
`EnvelopeAssumption`, `FieldsAssumption` and `DataAssumption` of envelopes),
which only say that the sets of values do not overlap, that functions have their
domains, and how the parameters of `Envelope` unfold at each level of data.  Some theorems have a condition besides; it is given below with the
divergence that makes it necessary, and each run that checks the property meets it.

**AMF3.**

* **`WriterTypeCorrect`**: the types of the AMF3 writer.  The work is in the
  helpers: that a served frame, a graph with one more value and a stack with
  one more frame are well typed; then one step for each action.
* **`ObjectIndexesStayDistinct`**: no two objects share an index, an
  `ArrayCollection` owns two, all lie below `obj_index`.  The inductive invariant
  is `WriterTypeOK /\ ObjectIndexesDistinct`; that the cache knows exactly the
  objects that were met is the part without which the induction fails, because
  the number of indexes an object owns is read off the graph.  Two lemmas cover
  all actions: `ObjectsKept` for those that leave the cache alone and
  `ObjectAdded` for those that enter one object.
* **`NamesStayIndexedOnce`**: the same for strings and traits.
* **`RoundTripTypes`** (`Amf3Proofs`): the types of both sides, for clients too.
  That of the reader is not inductive: after a function has returned, its caller
  takes the result for the place it kept free.  `Shaped` says that every function
  that has called another still owes a value, and one that reads an array with
  entries has only names and values before it.

* **`GraphNotMisread`**, **`GraphRebuilt`**, **`GraphNamesAgree`**,
  **`GraphIndexesShifted`** and **`GraphCutNoticed`** (`Amf3Simulation`): the properties
  of the runs `amf3_plain` and `amf3_nested`, for any number of objects, strings and
  traits, for clients and RocketAMF, and for graphs of any size, depth and shape.
  String and trait tables of both sides agree on every index; an object is found as many
  entries lower as there are collections around it; if no collection holds an
  object, what the reader has is at any moment a beginning of what was
  written, and in the end all of it; and C never takes a string that was cut for a whole
  value.  **`GraphRebuiltOrRaised`** says what is left of `RebuiltWhole` when
  collections do hold objects: every object gets as many values as it had, the tables
  have the same length in the end and nothing is left in the string, or the reader
  raises.  That those values may be the wrong objects is the divergence
  `ObjectIndexesAgree`.

  All of them need `Faithful`: the string cache tells strings apart, the trait cache
  tells traits apart and has a place for all of them, no dynamic property has an empty name,
  no XML is empty, and it is C that reads a string that was cut.  None of these can be
  dropped: each is a row of the table of divergences.  The runs meet them.

  The argument is that of AMF0, below.  What AMF3 adds: three tables instead of one
  (`StringsMatch`, `TraitsMatch`, `ObjectsMatch`), the last with fewer entries than the
  writer has given indexes, since source arrays are entered late (`Known`, `Place`);
  functions that do not pair off, since the reader has two for a collection and the
  writer has two for an array with entries (`Seat`, `Pair`), and functions
  in the middle of a description, a source array or the type of a vector (`TopMatches`); and steps
  that one side does without a token, so that the reader reaches the next snapshot,
  or the one after it when the writer had left the entries of an array in between
  (`Closed`), or stays where it is: `Follow`, which has one lemma for each step of the
  writer.

**AMF0.**

* **`RoundTripTypes`** (`Amf0Proofs`): the types of both sides.
* **`MessageNotMisread`**, **`MessageRebuilt`**, **`MessageIndexesAgree`** and
  **`MessageCutNoticed`**: whatever graph is written, with objects met again, cycles
  and AMF3 parts, what the reader has at any moment is a beginning of what the writer
  found; when it returns it is all of it; each object is found under its index; and a
  message that was cut is not taken for a whole one.  The condition is `Faithful`: C
  reads what RocketAMF wrote (`PartStandsAlone` is the divergence otherwise), and Ruby
  has no more objects than 16 bits can number (`IndexesFit`).

  The reader begins when the writer has finished, so that the invariant must relate
  a state of the reader to one of the writer that is long past.  `StoryInv` says that
  there are snapshots `H[1]` to `H[n]` of the writer (`Now`), each a step after the one
  before (`Told`), and that the reader, at any moment, matches one of them
  (`Matches`): it has read as far as the writer had written, its stack is the writer's,
  frame by frame (`FramesMatch`), what it has made is what the writer had found
  (`MadeMatches`), and under each index is the object that the writer had given that
  index (`TablesMatch`).  Then one lemma for each form of token says that a step of
  the reader takes it to the next snapshot.  `Earlier` is what carries over from one
  snapshot to all later ones: a token is never changed and an object once met keeps
  its number, kind and index.  `WInv`, the invariant of the writer behind this, says
  that numbers and indexes are given without gaps and that the objects of the
  functions under way are met.

**Session.**

* **`SessionInvariant`** and **`TablesStay`**: whatever raises and whoever rescues
  it, no running call of `serialize` loses its tables.  `SessionInv` adds to the
  types that the running calls are numbered 1 to at most `depth` (`Leveled`),
  that what a function holds has an address (`Housed`), and that there are
  tables while `depth` is not 0.  `Leveled` is what makes it inductive: after
  an exception, `depth` may be larger than the number of calls, and the proof
  needs that cutting the stack anywhere leaves the levels of the rest in order.
* **`MessagesDecodable`** and **`ReferencesResolve`**: a session implements
  `ReferenceLog`, so that a reference is always to an object that was written out in the
  same message, and to the right one.  The condition `Undisturbed` is that nobody
  rescues an exception and goes on (`session_rescued` is the divergence otherwise), and
  that with the C extension the caller keeps the objects alive
  (`ReferencesNameTheObject` in the table below).  `DecodeInv` adds to `SessionInv` that levels
  rise by one from each call to the next (`Stacked`), so that `depth` is 0 exactly when
  nothing runs, that what is in use exists at an address of its own (`HeldLive`,
  `Apart`), and that each entry of the table is for an object written in this message that
  still lives there (`Entries`).

**Integers.**

* **`IntegersKept`**: for every `Group`, each integer is read back as it was and
  the reader stops behind its last byte, and so is each length below a quarter of
  the range.  The invariant `IntegerInv` says of a reader under way that its
  result is the number without the digits still to come (`Reading`, one case for
  each of the four forms).  The lemmas before it are about division: digits of
  a quotient, the flag of a byte, and the number that the mask `0x1fffffff`
  leaves of a negative one.
* **`VectorsKeptInC`**: the elements of a `Vector.<int>` are read back, on both sides of
  zero, by the C extension (`Native`; Ruby has the divergence `VectorsKept`).
* **`IntegerTypesKept`**: the types, from those of the digits of any number.

**Class mapping.**

* **`MappedClassesMade`**, **`MappedNamesWritten`**, **`EachPlaceHasOneCutter`**,
  **`CachesOfTheirTime`** and **`MapperTypes`**: the properties of the run
  `class_mapper`, for every number of threads, mappers, names and calls of `map`, and names of
  any depth.  The inductive invariant `MapperInv` relates the tables of each set to the
  history of calls (`TablesFollow`: under a name is the number of the last call for it in
  that set).  `SetsKnown` is needed so that a set made by `reset` and `define` starts
  without calls of its own, and a mapper never points to a set to come; `MethodsSeen`
  because the cache is filled from the present.  `EachPlaceCutByOne` is inductive with the
  types: the places that are cut are those of the lookups under way, all different, and
  those where one has raised.  A lookup cuts only what is not cut yet (`AheadUncut`),
  and restores a place that nobody else holds, unless another lookup has raised
  there, which cannot be (`RestoredLeaves`).  `MadeAsMapped` and `WrittenAsMapped` follow
  without further induction.

**Remoting and envelopes.**

* **`ExchangeKeepsPromise`**: for every number of messages and attempts and every kind
  of message, an exchange implements `RemoteCalls` (`CallsAnswered`).  The inductive
  invariant `RemotingInv` says where the loop is in terms of the request: the last
  answers are those to the messages behind it (`AnsweredSoFar`), and as long as
  there is a single attempt they are all the answers there are (`FirstTry`), which is
  what a step to `RemoteCalls!Perform` and `Tell` needs; after that the abstract
  specification promises nothing more.  `NoUriTwice` (from `Numbered`, the numbers that
  `call` and `call_flex` give), `ResponsesComplete`, `FaultsComeBack` and `RemotingTypes`
  follow from the same invariant.
* **`RefusedLeavesEnvelope`**: in C a stream that is refused leaves the envelope as it
  was, whatever the data in it and wherever it ends (`Native`; Ruby has the divergence
  `AllOrNothing`).  **`ChosenMapperStays`**: a class mapper that was set before the first
  use is used throughout (`~LateReplace`, which is the divergence `ChosenMapperUsed`).
* **`EnvelopesAreKept`**, **`RelayPassesOn`** and **`EnvelopeTyped`**: an envelope of any
  size, with data of any depth, is read as it was meant and to the end of the stream,
  and is refused only if the stream lost its end; what is sent on is, at the next reader,
  what `Passed` says, value by value, and not the same (`RelayedSame` below); and both
  positions stay in the stream.  The condition is `BytesListed`: no message has
  a byte of flags for which its class has no list of fields, which is the divergence
  `EnvelopeKept`.  `RelayPassesOn` is proved for the C extension (`Native`), where the
  envelope that is sent on is at every moment what somebody meant, a blank one or one
  that was read to its end (`RelayedInv`), since a call that raises leaves it alone.

  The inductive invariant is `EnvelopeInv`: some envelope is on the stream, whole or cut
  off, and the reader has come to a known place in it, or has finished it, or has refused it
  because it was cut off.  A place in the envelope is the number of headers or
  messages that are read, and inside their data a path: one element for each function
  on the stack, with the data that it reads and how many parts of it are
  read (`Frame`).  What such a function holds is then given by the data alone: the items so far,
  or the attributes set so far, the levels to come and the fields that the last flags
  announced and that are not read yet (`Attrs`, `LevelAt`, `Unread`).
  `des_pos` and `src_pos` are where the parts read so far end.  So a step of the reader is
  a fact about data: reading flags (`FlagsStep`) gives exactly the fields that
  follow, and the first of these in the order of `NextField` is the next part of the
  message (`FieldStep`), whose attribute is then set as the last one of that name so far.
  That what one level of data stands for is nil exactly when nil was written
  (`NilMeant`) is what `clientIdBytes=` and the like need.

  Data and sequences of sequences are finite but of any size, so some facts are
  inductions: where each part of a `FlattenSeq` lies, and that the data in which a value
  is written again stand for what is to be passed on of it (`MeansAgain`).  That the second reader
  takes nothing out of an array (`CallAgain`) needs that no value becomes a
  message on its way (`PassedIs`).  These take the least counterexample, by
  `WFMin` of the library, which does not need an operator as a parameter.

Only model-checked: the liveness properties and the fairness they need, which the
provers do not take.  Every invariant and action property of the passing runs is
the subject of a theorem.

## Divergences

Where the code does not do what its comments, documentation or tests say, the
models follow the code.  Two of these have a run of their own and are
described under `findings` in `PROJECT.json`:

* `amf3_collection_contents`: the reader enters the source array of an
  `ArrayCollection` after its contents, the writer counts it before them
  (`deserializer.c:385`, `serializer.c:366`, and the same in Ruby).
* `session_rescued`: `depth` is not put back when an exception leaves `serialize`
  (`serializer.c:750`, `pure/serializer.rb:35`), so that the next message refers to
  objects of an earlier one.

The following are part of the models too.  Each is shown by TLC when the named
statement replaces the properties of a configuration (`IndexesFit` and
`ChosenMapperUsed` as PROPERTY, the others as INVARIANT), without its symmetry, and
the constants are changed as given:

| Statement | Configuration and change | What the code does |
|---|---|---|
| `NameIndexesAgree` | `Amf3Plain`: `Traits = {defaultTr, acTr, clsTr, otherTr}` | The trait cache compares class names only (`serializer.c:461`), although `write_object` "uses" the traits it is given (`serializer.c:790-792`): a second description of a class is replaced by a reference to the first. |
| `NameIndexesAgree` | `Amf3Plain`: `Traits = {defaultTr, acTr, clsTr, otherTr}`, and in `MCAmf3RoundTrip` the class name of `otherTr` is `noName` | Traits without a class name, as `write_object` accepts them, are written without taking an index (`serializer.c:460`, `pure/serializer.rb:363`), but the reader enters every description that it reads (`deserializer.c:380`). |
| `NoMisread` | `Amf3Plain`: `Texts = {s1, s2}`, `StrKey <- UpToNul` | The C string cache compares up to a NUL byte (`serializer.c:301`) and writes by length: a string that differs behind it becomes a reference to the other. |
| `RebuiltWhole` | `Amf3Plain`: `Traits = {defaultTr, acTr, resultSetTr}`, `Texts = {}`, `Scalars = {}` | The documented `ResultSet` calls `ser.write_array(self)` in `write_external` (`rocketamf.rb:168`), where self is already in the cache: a reference to itself is written as its contents. |
| `RebuiltWhole` | `Amf3Plain`: `XmlSizes = {0, 1}` | `des3_read_xml` enters an XML object that holds text, but not an empty one (`deserializer.c:337`), which the client has counted like any other. |
| `RebuiltWhole` | `Amf3Plain`: `Keys = {s1, empty}` | The writer writes a dynamic property with an empty name like any other; for the reader an empty name is the end of the list (`deserializer.c:410`). |
| `CutIsNoticed` | `Amf3Nested`: `Native = FALSE`, `Texts = {s1}` | `@source.read(length)` (`pure/deserializer.rb:252`, also `:104` in AMF0) returns a shorter string at the end of the source, which is taken as it is, where C raises. |
| `PartStandsAlone` | `Amf0Clients`: `Native = TRUE` | `des0_read_amf3` keeps the object table of the AMF0 part (`deserializer.c:149`), where an AMF3 part counts from zero; the Ruby code starts a new one. |
| `IndexesFit` | `Amf0Own`: `Native = FALSE` | `pack_int16_network` drops the high bits of an index (`pure/io_helpers.rb:72`), where C raises (`serializer.c:65`). |
| `ReferencesNameTheObject` | `SessionRuby`: `Native = TRUE`, `Custom = {}` | The C object cache is keyed by address and keeps nothing alive (`serializer.c:639`): a new object at the address of a collected one is taken for it. |
| `VectorsKept` | `Integers`: `Native = FALSE` | The Ruby reader of `Vector.<int>` takes the sign from `MAX_INTEGER`, 2^28-1, instead of 2^31-1 (`pure/deserializer.rb:431`). |
| `TooLongRefused` | `Integers`: `Lengths <- AnyLength` | `num &= 0x1fffffff` (`serializer.c:38`) comes before the check that should raise (`serializer.c:58`). |
| `ErrorsCaught` | `Remoting`: `Leaves = FALSE` | A `RemotingMessage` without an operation raises outside the rescue of `each_method_call` (`remoting.rb:106`), which promises "catching errors for handling". |
| `AnsweredOnce` | `Remoting` | `@constructed` is set after the loop only (`remoting.rb:125`): a block that leaves the loop leaves half a response, and another `each_method_call` answers its messages again. |
| `OnlyFlexUnwrapped` | `Remoting` | A simple call whose only argument is a message is taken for a flex call (`remoting.c:71`, `pure/remoting.rb:48`). |
| `FaultsInResult` | `Remoting` | `ErrorMessage` is an `AcknowledgeMessage`, so `result` unwraps a fault to its body, `nil` (`remoting.rb:145`). |
| `AllOrNothing` | `Envelope`: `Native = FALSE` | `pure/remoting.rb:17-57` reads into the instance variables themselves, so that a stream that is refused leaves half of the new envelope and nothing of the old one; `remoting.c:82-84` assigns at the end. |
| `ChosenMapperUsed` | `Envelope`: `LateReplace = TRUE` | Each entry point of the C extension remembers `RocketAMF::ClassMapper` in a static variable at its first call (`remoting.c:25-26`, `97-98`); a mapper set later (`lib/rocketamf/class_mapping.rb:94`, `RocketAMF::ClassMapper = MyCustomClassMapper`) has no effect on those that have been called. |
| `EnvelopeKept` | `Envelope`: `Envelopes` with a message, which `EveryData` has too, whose flags have a byte more than the class has lists of fields, as `External("DSA", << <<{0,7},{7},{0}>>, <<{0}>> >>)`; this is what `BytesListed` excludes | "Read fields and any remaining unmapped fields in a byte-set" (`values/messages.rb:51`) is done for the bytes that have a list only; the fields that another byte announces stay in the stream and are read as something else. |
| `RelayedSame` | `Envelope` | An envelope that is read and sent on is not the same at the next reader. `get_as_class_name` looks the type of a `TypedHash` up among the Ruby classes (`class_mapping.c:294-303`), so that an object whose class is not mapped arrives as a plain hash; and `ErrorMessage#encode_amf` writes a hash of three fields in AMF0 (`values/messages.rb:200-207`), so that an `ErrorMessage` in a header, or in an envelope of version 0, arrives without its class and its other fields. |
| `AlwaysMadeAsMapped` | `ClassMapper` | When the namespace of a class is not found, `rb_const_get` raises between the NUL and its removal (`class_mapping.c:328-330`), and the mapped name stays cut: later lookups instantiate the namespace. |
| `PopulatedFromStream` | `ClassMapper` | `populate_ruby_obj` raises for keys that are not symbols when the object is not a hash (`class_mapping.c:350`), and both deserializers pass strings (`deserializer.c:402`, `411`). The documentation has "hashes with symbols for keys" (`lib/rocketamf/class_mapping.rb:190`) and "should be perfectly safe to use" (`:110`). |
| `TypeKept` | `ClassMapper` | A `TypedHash` carries the name it was read with (`values/typed_hash.rb:3`), but `get_as_class_name` looks that name up among the Ruby classes (`class_mapping.c:294-303`), and finds nothing: it is written without its type. |
| `PropsCurrent` | `ClassMapper` | The C class mapper caches the getters of a class at first use (`class_mapping.c:422`), the Ruby one asks each time. `lib/rocketamf/class_mapping.rb:104-108` warns of this. |

## What is left out

* **Kinds of values without a branch**: what `serialize` does with an object that no
  test applies to (nothing is written, `serializer.c:629`).  The models give the writers values
  that have a branch.
* **Equality of dictionary keys**: two equal arrays are one key of a Ruby hash; the models
  compare objects by identity (`deserializer.c:524`).
* **Conversions**: encodings of strings, doubles (an integer beyond 29 bits is
  kept by a double up to 53 bits), dates, the wording of errors, keys of AMF0
  objects that exceed 65535 bytes.
* **`is_array_collection`** counts in C when it is set to anything, `nil` included; in
  the models an array either is a collection or not.
* **Data that are sent on**: dictionaries, which are written like any hash, with strings
  for keys, and `StringIO`, which only AMF3 has a form for; attributes that the constructor of a message sets when its sender did not; and
  mappers of the application that name classes in another way than `ClassMapping`.  The type
  of a typed hash is taken not to be the name of a mapped Ruby class.
* **Remoting**: authentication by headers and `CommandMessage`s, the contents of
  identifiers and timestamps, URIs apart from their numbers.  `RemotingExchange`
  and `Envelope` are not composed: an envelope that has been used for a call and is
  then populated keeps `@call_type` and `@constructed`, which no model has.
* **Callbacks of the application in the reader**: `read_external` of the message
  classes is modelled in full, that of other classes as one that reads a fixed
  number of values.
* **The Ruby class mapper**: it has the same tables as the C one, no cache of
  properties and no strings that change, and so none of the hazards.
* **A nested call of `serialize` with another version**, which the documentation
  forbids.
* **A cut inside a token**: the C extension checks bounds before it reads
  anything, so that a token that is cut raises like one that is missing; the runs
  about cut messages are for C.  Ruby's `source.read` returns what there is; the
  AMF3 model has that (`CutAfter`), the AMF0 and envelope models do not.
* **Loading, build files, specs, benchmark**: nothing to follow, apart from the
  `const_missing` that makes the class mapper, which `Envelope` has.

## Plan

Done: reference counting in both formats, for RocketAMF and for clients; the
session; integers; the exchange of calls; envelopes and external messages; the
class mapper.  Proved: what is listed above, the round trips of AMF3 and AMF0 and the
refinements of `ReferenceLog` and `RemoteCalls` among it.  What would come next is one
envelope over several requests, as a composition of `Envelope` and `RemotingExchange`.
