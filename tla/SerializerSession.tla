------------------------- MODULE SerializerSession -------------------------
(***************************************************************************)
(* One Serializer object over its life: calls of serialize, one after the  *)
(* other (an Envelope makes one for every header and body) and, from an    *)
(* encode_amf or write_external callback, one inside the other; the object *)
(* table that all calls nested in one another share; exceptions; and the   *)
(* garbage collector.                                                      *)
(*                                                                         *)
(* A value is what one call of serialize writes; here it is only the       *)
(* objects met on the way that matter, and whether each is written out or  *)
(* referred to.  The string and the trait table are made, shared and freed *)
(* together, and stand as one table, "names".                              *)
(*                                                                         *)
(* As in Amf3Writer, an operator just before another one and named after   *)
(* it is that operator with a slip in it, used by nothing.                 *)
(***************************************************************************)
EXTENDS Integers, Sequences, FiniteSets

CONSTANTS
  Obj,          \* the objects that may occur in the values
  Kept,         \* those that exist before and that the caller holds on to
  Custom,       \* those that define encode_amf
  Addr,         \* the addresses (in Ruby: object ids) objects can have
  NoAddr,
  HomeOf,       \* [Kept -> Addr]
  Versions,     \* the AMF versions the caller uses
  Native,       \* TRUE: the C extension, FALSE: pure Ruby
  Rescuers,     \* who rescues exceptions; nothing ever raises if nobody does
  MaxMessages, MaxWrites, MaxNesting, MaxDepth  \* bounds

ASSUME SessionAssumption ==
  /\ Kept \subseteq Obj /\ Custom \subseteq Obj
  /\ NoAddr \notin Addr
  /\ HomeOf \in [Kept -> Addr]
  /\ \A o, p \in Kept : HomeOf[o] = HomeOf[p] => o = p
  /\ Versions \subseteq {0, 3}
  /\ Native \in BOOLEAN
  /\ Rescuers \subseteq {"caller", "callback"}
  /\ {MaxMessages, MaxWrites, MaxNesting, MaxDepth} \subseteq Nat

VARIABLES
  version, depth,    \* ser->version, ser->depth
  tables,            \* the tables that exist
  objTab, objIndex,  \* the object table, by address, and its next index
  calls,             \* the active functions, the innermost last
  live, addr,        \* the objects that exist, and where they are (or were)
  msg,               \* number of top-level calls so far
  out,               \* history: the objects written or referred to
  crashed            \* the process died

vars == <<version, depth, tables, objTab, objIndex, calls, live, addr, msg, out, crashed>>
serState == <<version, depth, tables, objTab, objIndex>>

NotCached == -1
EmptyTab == [a \in Addr |-> NotCached]

(***************************************************************************)
(* A frame: a call of serialize, a write function filling in the contents  *)
(* of an object, or a callback.  level counts the calls of serialize up to *)
(* here, open tells whether a value may still be written, temps are the    *)
(* objects only this function holds (what getters and callbacks made).     *)
(***************************************************************************)
Frame == [what : {"serialize", "write", "callback"}, level : Nat, open : BOOLEAN,
          temps : SUBSET Obj]
NewFrame(what, level) == [what |-> what, level |-> level, open |-> TRUE, temps |-> {}]

Init ==
  /\ version = 0 /\ depth = 0 /\ tables = {} /\ objTab = EmptyTab /\ objIndex = 0
  /\ calls = <<>>
  /\ live = Kept
  /\ addr = [o \in Obj |-> IF o \in Kept THEN HomeOf[o] ELSE NoAddr]
  /\ msg = 0 /\ out = <<>> /\ crashed = FALSE

-----------------------------------------------------------------------------
Busy == calls # <<>> /\ ~crashed
Top == calls[Len(calls)]
Below == SubSeq(calls, 1, Len(calls) - 1)
Level == IF calls = <<>> THEN 0 ELSE Top.level

\* In C both versions share obj_cache; in Ruby AMF0 has @ref_cache.
ObjectTable(v) == IF Native \/ v = 3 THEN "objects" ELSE "refs"
TablesFor(v) == {ObjectTable(v)} \cup (IF v = 3 THEN {"names"} ELSE {})

HeldBy(f, o) == o \in f.temps
InUse(o) == o \in Kept \/ \E i \in DOMAIN calls : HeldBy(calls[i], o)

Cached(o) == objTab[addr[o]] # NotCached

-----------------------------------------------------------------------------
(***************************************************************************)
(* serialize.  A nested call passes the version in use, as the             *)
(* documentation demands.                                                  *)
(***************************************************************************)
Serialize(v) ==
  /\ ~crashed
  /\ IF calls = <<>> THEN msg < MaxMessages ELSE Top.what = "callback" /\ v = version
  /\ Len(calls) < MaxNesting /\ depth < MaxDepth
  /\ version' = v
  /\ IF depth = 0
     THEN tables' = TablesFor(v) /\ objTab' = EmptyTab /\ objIndex' = 0
     ELSE UNCHANGED <<tables, objTab, objIndex>>
  /\ depth' = depth + 1
  /\ calls' = Append(calls, NewFrame("serialize", Level + 1))
  /\ msg' = IF calls = <<>> THEN msg + 1 ELSE msg
  /\ UNCHANGED <<live, addr, out, crashed>>

Return ==
  /\ Busy
  /\ Top.what = "serialize"
  /\ depth' = depth - 1
  /\ IF depth = 1
     THEN tables' = {} /\ objTab' = EmptyTab
     ELSE UNCHANGED <<tables, objTab>>
  /\ calls' = Below
  /\ UNCHANGED <<version, objIndex, live, addr, msg, out, crashed>>

\* A write function or a callback returns.
Finish ==
  /\ Busy
  /\ Top.what # "serialize"
  /\ calls' = Below
  /\ UNCHANGED <<serState, live, addr, msg, out, crashed>>

-----------------------------------------------------------------------------
(***************************************************************************)
(* Writing an object.                                                      *)
(***************************************************************************)
Log(o, index, inline) ==
  out' = Append(out, [msg |-> msg, obj |-> o, index |-> index, inline |-> inline])

\* The function that was to write one value has written it.
Taken == IF Top.what = "serialize" THEN Append(Below, [Top EXCEPT !.open = FALSE]) ELSE calls

WriteReference(o) ==
  /\ Cached(o)
  /\ Log(o, objTab[addr[o]], FALSE)
  /\ calls' = Taken
  /\ UNCHANGED <<serState, live, addr, msg, crashed>>

\* An object written out again (write_array and write_object in AMF0 do not
\* look it up) is entered again; of two entries a C table finds either, by
\* Ruby version and table size.
WriteOut(o) ==
  /\ Len(calls) < MaxNesting
  /\ Log(o, objIndex, TRUE)
  /\ \E i \in {objIndex} \cup (IF Native /\ Cached(o) THEN {objTab[addr[o]]} ELSE {}) :
       objTab' = [objTab EXCEPT ![addr[o]] = i]
  /\ objIndex' = objIndex + 1
  /\ calls' = Append(Taken, NewFrame("write", Level))
  /\ UNCHANGED <<version, depth, tables, live, addr, msg, crashed>>

Put(o) ==
  \/ version = 3 /\ WriteReference(o)
  \/ (version = 3 => ~Cached(o)) /\ WriteOut(o)

CallEncodeAmf(o) ==
  /\ Len(calls) < MaxNesting
  /\ calls' = Append(Taken, NewFrame("callback", Level))
  /\ UNCHANGED <<serState, live, addr, msg, out, crashed>>

Writable(o) ==
  /\ Busy /\ Top.open
  /\ InUse(o)
  /\ ObjectTable(version) \in tables
  /\ Len(out) < MaxWrites

\* ser0_serialize and ser3_serialize: AMF0 looks the object up first, AMF3
\* calls encode_amf first.
Reach(o) ==
  /\ Writable(o)
  /\ Top.what # "callback"
  /\ \/ version = 0 /\ WriteReference(o)
     \/ (version = 0 => ~Cached(o)) /\ IF o \in Custom THEN CallEncodeAmf(o) ELSE Put(o)

\* A callback uses write_array or write_object, usually on its own object.
Help(o) ==
  /\ Writable(o)
  /\ Top.what = "callback"
  /\ Put(o)

-----------------------------------------------------------------------------
(***************************************************************************)
(* Objects that come and go: a getter or callback makes one, which lives   *)
(* as long as the function that asked for it; ObjectCache of the Ruby code *)
(* also holds every object it has an entry for, obj_cache does not.        *)
(***************************************************************************)
Make(o, a) ==
  /\ Busy
  /\ Top.what # "serialize"
  /\ addr[o] = NoAddr
  /\ \A p \in live : addr[p] # a
  /\ live' = live \cup {o}
  /\ addr' = [addr EXCEPT ![o] = a]
  /\ calls' = Append(Below, [Top EXCEPT !.temps = @ \cup {o}])
  /\ UNCHANGED <<serState, msg, out, crashed>>

PinnedNever(o) == FALSE
Pinned(o) == ~Native /\ tables # {} /\ Cached(o)

Collect(o) ==
  /\ ~crashed
  /\ o \in live /\ ~InUse(o) /\ ~Pinned(o)
  /\ live' = live \ {o}
  /\ UNCHANGED <<serState, calls, addr, msg, out, crashed>>

-----------------------------------------------------------------------------
(***************************************************************************)
(* Exceptions: from a callback or getter, or from a string that cannot be  *)
(* converted.  Whoever calls serialize may rescue them, a callback or the  *)
(* top-level caller; nothing on the way puts depth back.  A missing table  *)
(* raises in Ruby and is a NULL pointer in C.                              *)
(***************************************************************************)
\* Up to which frame the exception may unwind the calls.
RescuePoints ==
  {k \in 0 .. Len(calls) - 1 :
     IF k = 0 THEN "caller" \in Rescuers
     ELSE "callback" \in Rescuers /\ calls[k].what = "callback"}
TableMissing == Busy /\ ~(TablesFor(version) \subseteq tables)

RaiseResets ==
  /\ Busy
  /\ \E k \in RescuePoints : calls' = SubSeq(calls, 1, k)
  /\ depth' = 0 /\ tables' = {} /\ objTab' = EmptyTab
  /\ UNCHANGED <<version, objIndex, live, addr, msg, out, crashed>>

RaiseCountsDown ==
  /\ Busy
  /\ \E k \in RescuePoints : calls' = SubSeq(calls, 1, k)
  /\ depth' = depth - 1
  /\ UNCHANGED <<version, tables, objTab, objIndex, live, addr, msg, out, crashed>>

Raise ==
  /\ Busy
  /\ \E k \in RescuePoints : calls' = SubSeq(calls, 1, k)
  /\ UNCHANGED <<serState, live, addr, msg, out, crashed>>

Crash ==
  /\ TableMissing /\ Native
  /\ Top.open
  /\ crashed' = TRUE
  /\ UNCHANGED <<serState, calls, live, addr, msg, out>>

Next ==
  \/ \E v \in Versions : Serialize(v)
  \/ Return
  \/ Finish
  \/ \E o \in Obj : Reach(o)
  \/ \E o \in Obj : Help(o)
  \/ \E o \in Obj, a \in Addr : Make(o, a)
  \/ \E o \in Obj : Collect(o)
  \/ Raise
  \/ Crash

Spec == Init /\ [][Next]_vars

-----------------------------------------------------------------------------
\* Every variable has its type.
SessionTypeOK ==
  /\ version \in {0, 3} /\ depth \in Nat /\ tables \subseteq {"objects", "refs", "names"}
  /\ objTab \in [Addr -> Nat \cup {NotCached}] /\ objIndex \in Nat
  /\ calls \in Seq(Frame)
  /\ live \subseteq Obj /\ addr \in [Obj -> Addr \cup {NoAddr}]
  /\ msg \in Nat
  /\ out \in Seq([msg : Nat, obj : Obj, index : Nat, inline : BOOLEAN])
  /\ crashed \in BOOLEAN

\* The calls of serialize that are running are at most depth, each one level
\* above the functions that led to it.
Leveled(c, d) ==
  /\ \A i \in DOMAIN c : c[i].level \in 1 .. d
  /\ \A i, j \in DOMAIN c :
       i < j => /\ c[i].level <= c[j].level
                /\ c[j].what = "serialize" => c[i].level < c[j].level

\* What a function holds has an address.
Housed(c, where) ==
  /\ \A o \in Kept : where[o] # NoAddr
  /\ \A i \in DOMAIN c, o \in Obj : HeldBy(c[i], o) => where[o] # NoAddr

\* The inductive invariant behind TablesOutliveCalls: exceptions leave depth
\* too high but never too low.
SessionInv ==
  /\ SessionTypeOK
  /\ Leveled(calls, depth)
  /\ Housed(calls, addr)
  /\ depth > 0 => tables # {}

\* Every message can be decoded on its own: what the Serializer writes is what
\* ReferenceLog allows.
MessageLog == INSTANCE ReferenceLog WITH log <- out, Message <- 1 .. MaxMessages
MessagesDecode == MessageLog!LogSpec

\* Exceptions or not, the tables are never taken away from a call that is
\* still running.
TablesOutliveCalls ==
  /\ depth >= Level
  /\ calls # <<>> => tables # {}

-----------------------------------------------------------------------------
(***************************************************************************)
(* Statements the repository makes that the code does not keep; README.md  *)
(* gives the instances that refute them.                                   *)
(***************************************************************************)

\* A reference names an object written out earlier in the same message: no
\* entry survives from an earlier message.
MessagesSelfContained ==
  \A i \in DOMAIN out :
    ~out[i].inline =>
      \E j \in 1 .. i - 1 : /\ out[j].msg = out[i].msg
                            /\ out[j].inline /\ out[j].index = out[i].index

\* The object a reference leads to is the object that was to be written, and
\* not another one that has come to live at its address.
ReferencesNameTheObject ==
  \A i, j \in DOMAIN out :
    /\ j < i /\ out[j].msg = out[i].msg
    /\ out[j].inline /\ ~out[i].inline /\ out[j].index = out[i].index
    => out[j].obj = out[i].obj
=============================================================================
