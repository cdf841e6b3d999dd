---------------------------- MODULE SessionProofs ----------------------------
(***************************************************************************)
(* Theorems about SerializerSession, for every set of objects and          *)
(* addresses, every bound, both implementations, and any exceptions.       *)
(***************************************************************************)
EXTENDS SerializerSession, FiniteSetTheorems, TLAPS

USE DEF NotCached

-----------------------------------------------------------------------------
(***************************************************************************)
(* The three ways in which the stack of calls changes.                     *)
(***************************************************************************)

\* Unwinding.
LEMMA CutCalls ==
  ASSUME NEW c \in Seq(Frame), NEW d \in Nat, NEW where, NEW k \in 0 .. Len(c),
         Leveled(c, d), Housed(c, where)
  PROVE  /\ SubSeq(c, 1, k) \in Seq(Frame)
         /\ Leveled(SubSeq(c, 1, k), d)
         /\ Housed(SubSeq(c, 1, k), where)
<1>1. /\ SubSeq(c, 1, k) \in Seq(Frame)
      /\ DOMAIN SubSeq(c, 1, k) = 1 .. k
      /\ \A i \in 1 .. k : SubSeq(c, 1, k)[i] = c[i] /\ i \in DOMAIN c
  OBVIOUS
<1>2. Leveled(SubSeq(c, 1, k), d) BY <1>1 DEF Leveled
<1>3. Housed(SubSeq(c, 1, k), where) BY <1>1 DEF Housed
<1> QED BY <1>1, <1>2, <1>3

\* A new innermost function.
LEMMA PushCall ==
  ASSUME NEW c \in Seq(Frame), NEW d \in Nat, NEW where,
         NEW what \in {"serialize", "write", "callback"}, NEW n \in 1 .. d,
         Leveled(c, d), Housed(c, where),
         \A i \in DOMAIN c : c[i].level <= n /\ (what = "serialize" => c[i].level < n)
  PROVE  /\ Append(c, NewFrame(what, n)) \in Seq(Frame)
         /\ Leveled(Append(c, NewFrame(what, n)), d)
         /\ Housed(Append(c, NewFrame(what, n)), where)
<1> DEFINE f == NewFrame(what, n)
           e == Append(c, f)
<1>1. f \in Frame /\ f.level = n /\ f.what = what /\ f.temps = {}
  BY DEF NewFrame, Frame
<1> HIDE DEF f
<1>2. /\ e \in Seq(Frame)
      /\ DOMAIN e = 1 .. Len(c) + 1
      /\ e[Len(c) + 1] = f
      /\ \A i \in 1 .. Len(c) : e[i] = c[i] /\ i \in DOMAIN c
  BY <1>1
<1> HIDE DEF e
<1>3. \A i \in DOMAIN c : c[i].level \in Nat BY DEF Leveled
<1>4. Leveled(e, d)
  <2>1. \A i \in DOMAIN e : e[i].level \in 1 .. d BY <1>1, <1>2 DEF Leveled
  <2>2. ASSUME NEW i \in DOMAIN e, NEW j \in DOMAIN e, i < j
        PROVE  /\ e[i].level <= e[j].level
               /\ e[j].what = "serialize" => e[i].level < e[j].level
    <3>1. i \in 1 .. Len(c) BY <1>2, <2>2
    <3>2. CASE j = Len(c) + 1 BY <1>1, <1>2, <3>1, <3>2
    <3>3. CASE j \in 1 .. Len(c) BY <1>2, <2>2, <3>1, <3>3 DEF Leveled
    <3> QED BY <1>2, <3>2, <3>3
  <2> QED BY <2>1, <2>2 DEF Leveled
<1>5. Housed(e, where)
  <2>1. ASSUME NEW i \in DOMAIN e, NEW o \in Obj, HeldBy(e[i], o)
        PROVE  where[o] # NoAddr
    <3>1. i # Len(c) + 1 BY <1>1, <1>2, <2>1 DEF HeldBy
    <3>2. i \in 1 .. Len(c) BY <1>2, <3>1
    <3> QED BY <1>2, <2>1, <3>2 DEF Housed
  <2> QED BY <2>1 DEF Housed
<1> QED BY <1>2, <1>4, <1>5 DEF e, f

\* Another frame in place of the innermost one.
LEMMA ReplaceTop ==
  ASSUME NEW c \in Seq(Frame), c # <<>>, NEW g \in Frame
  PROVE  /\ Append(SubSeq(c, 1, Len(c) - 1), g) \in Seq(Frame)
         /\ DOMAIN Append(SubSeq(c, 1, Len(c) - 1), g) = DOMAIN c
         /\ Append(SubSeq(c, 1, Len(c) - 1), g)[Len(c)] = g
         /\ \A i \in 1 .. Len(c) - 1 : Append(SubSeq(c, 1, Len(c) - 1), g)[i] = c[i]
<1> DEFINE e == Append(SubSeq(c, 1, Len(c) - 1), g)
<1>1. Len(c) \in Nat \ {0} /\ Len(c) - 1 \in 0 .. Len(c) OBVIOUS
<1>2. PICK b : /\ e = Append(b, g)
               /\ b \in Seq(Frame) /\ Len(b) = Len(c) - 1
               /\ \A i \in 1 .. Len(c) - 1 : b[i] = c[i]
  <2>1. ASSUME NEW k \in 0 .. Len(c)
        PROVE  /\ SubSeq(c, 1, k) \in Seq(Frame) /\ Len(SubSeq(c, 1, k)) = k
               /\ \A i \in 1 .. k : SubSeq(c, 1, k)[i] = c[i]
    OBVIOUS
  <2> QED BY <1>1, <2>1
<1>3. /\ e \in Seq(Frame) /\ Len(e) = Len(b) + 1 /\ e[Len(b) + 1] = g
      /\ \A i \in 1 .. Len(b) : e[i] = b[i]
  BY <1>2
<1>4. Len(b) + 1 = Len(c) /\ DOMAIN e = 1 .. Len(c) /\ DOMAIN c = 1 .. Len(c)
  BY <1>1, <1>2, <1>3
<1> QED BY <1>2, <1>3, <1>4

\* The innermost function closed.
LEMMA CloseTop ==
  ASSUME SessionInv, Busy
  PROVE  /\ Top \in Frame /\ Level \in 1 .. depth /\ depth \in Nat
         /\ Below = SubSeq(calls, 1, Len(calls) - 1) /\ Len(calls) - 1 \in 0 .. Len(calls)
         /\ \A i \in DOMAIN calls : calls[i].level <= Level
         /\ Taken \in Seq(Frame) /\ Leveled(Taken, depth) /\ Housed(Taken, addr)
         /\ \A i \in DOMAIN Taken : Taken[i].level <= Level
         /\ DOMAIN Taken = DOMAIN calls
         /\ \A i \in DOMAIN calls : /\ Taken[i].level = calls[i].level
                                    /\ Taken[i].what = calls[i].what
                                    /\ Taken[i].temps = calls[i].temps
<1>1. /\ calls \in Seq(Frame) /\ calls # <<>> /\ depth \in Nat
      /\ Leveled(calls, depth) /\ Housed(calls, addr)
  BY DEF SessionInv, SessionTypeOK, Busy
<1>2. Len(calls) \in DOMAIN calls /\ Len(calls) \in Nat \ {0} BY <1>1
<1>3. Top \in Frame /\ Level = Top.level BY <1>1, <1>2 DEF Top, Level
<1>4. Level \in 1 .. depth BY <1>1, <1>2, <1>3 DEF Leveled, Top
<1>5. \A i \in DOMAIN calls : calls[i].level <= Level
  <2> TAKE i \in DOMAIN calls
  <2>1. CASE i = Len(calls) BY <1>3, <1>4, <2>1 DEF Top
  <2>2. CASE i < Len(calls) BY <1>1, <1>2, <1>3, <2>2 DEF Leveled, Top
  <2> QED BY <1>1, <1>2, <2>1, <2>2
<1>6. /\ Taken \in Seq(Frame)
      /\ DOMAIN Taken = DOMAIN calls
      /\ \A i \in DOMAIN calls : /\ Taken[i].level = calls[i].level
                                 /\ Taken[i].what = calls[i].what
                                 /\ Taken[i].temps = calls[i].temps
  <2>1. CASE Top.what = "serialize"
    <3> DEFINE g == [Top EXCEPT !.open = FALSE]
    <3>1. g \in Frame /\ g.level = Top.level /\ g.what = Top.what /\ g.temps = Top.temps
      BY <1>3 DEF Frame
    <3> HIDE DEF g
    <3>2. Taken = Append(SubSeq(calls, 1, Len(calls) - 1), g)
      BY <2>1 DEF Taken, Below, g
    <3>3. /\ Taken \in Seq(Frame) /\ DOMAIN Taken = DOMAIN calls
          /\ Taken[Len(calls)] = g
          /\ \A i \in 1 .. Len(calls) - 1 : Taken[i] = calls[i]
      BY <1>1, <3>1, <3>2, ReplaceTop, Zenon
    <3>4. \A i \in DOMAIN calls : i = Len(calls) \/ i \in 1 .. Len(calls) - 1
      BY <1>1, <1>2
    <3> QED BY <3>1, <3>3, <3>4 DEF Top
  <2>2. CASE Top.what # "serialize" BY <1>1, <2>2 DEF Taken
  <2> QED BY <2>1, <2>2
<1>7. Leveled(Taken, depth) BY <1>1, <1>6 DEF Leveled
<1>8. Housed(Taken, addr) BY <1>1, <1>6 DEF Housed, HeldBy
<1> QED BY <1>1, <1>2, <1>3, <1>4, <1>5, <1>6, <1>7, <1>8 DEF Below

-----------------------------------------------------------------------------
(***************************************************************************)
(* SessionInv is inductive.                                                *)
(***************************************************************************)

LEMMA InitInv == Init => SessionInv
<1> SUFFICES ASSUME Init PROVE SessionInv OBVIOUS
<1>1. /\ calls = <<>> /\ depth = 0 /\ live = Kept /\ out = <<>>
      /\ addr = [o \in Obj |-> IF o \in Kept THEN HomeOf[o] ELSE NoAddr]
  BY DEF Init
<1>2. addr \in [Obj -> Addr \cup {NoAddr}] BY <1>1, SessionAssumption
<1>3. objTab \in [Addr -> Nat \cup {NotCached}] BY DEF Init, EmptyTab
<1>4. calls \in Seq(Frame) BY <1>1
<1>5. out \in Seq([msg : Nat, obj : Obj, index : Nat, inline : BOOLEAN]) BY <1>1
<1>6. SessionTypeOK
  <2>1. version \in {0, 3} /\ depth \in Nat /\ tables \subseteq {"objects", "refs", "names"}
    BY DEF Init
  <2>2. objIndex \in Nat /\ msg \in Nat /\ crashed \in BOOLEAN BY DEF Init
  <2>3. live \subseteq Obj BY <1>1, SessionAssumption
  <2> QED BY <1>2, <1>3, <1>4, <1>5, <2>1, <2>2, <2>3 DEF SessionTypeOK
<1>7. Leveled(calls, depth) BY <1>1 DEF Leveled
<1>8. Housed(calls, addr)
  <2>1. \A o \in Kept : o \in Obj /\ HomeOf[o] \in Addr /\ HomeOf[o] # NoAddr
    BY SessionAssumption
  <2> QED BY <1>1, <2>1 DEF Housed
<1> QED BY <1>1, <1>6, <1>7, <1>8 DEF SessionInv

\* What is written down about an object is well typed.
LEMMA LogType ==
  ASSUME SessionTypeOK, NEW o \in Obj, NEW i \in Nat, NEW inl \in BOOLEAN, Log(o, i, inl)
  PROVE  out' \in Seq([msg : Nat, obj : Obj, index : Nat, inline : BOOLEAN])
<1>1. [msg |-> msg, obj |-> o, index |-> i, inline |-> inl]
        \in [msg : Nat, obj : Obj, index : Nat, inline : BOOLEAN]
  BY DEF SessionTypeOK
<1> QED BY <1>1 DEF SessionTypeOK, Log

\* An object in use has an address, its entry is NotCached or an index.
LEMMA EntryType ==
  ASSUME SessionInv, Busy, NEW o \in Obj, InUse(o)
  PROVE  addr[o] \in Addr /\ objTab[addr[o]] \in Nat \cup {NotCached}
<1>1. addr[o] # NoAddr BY DEF InUse, SessionInv, Housed
<1> QED BY <1>1 DEF SessionInv, SessionTypeOK

LEMMA WriteReferenceInv ==
  ASSUME SessionInv, Busy, NEW o \in Obj, InUse(o), WriteReference(o)
  PROVE  SessionInv'
<1>1. objTab[addr[o]] \in Nat BY EntryType DEF WriteReference, Cached
<1>2. out' \in Seq([msg : Nat, obj : Obj, index : Nat, inline : BOOLEAN])
  BY <1>1, LogType DEF WriteReference, SessionInv
<1>3. calls' = Taken /\ UNCHANGED <<serState, live, addr, msg, crashed>>
  BY DEF WriteReference
<1>4. calls' \in Seq(Frame) /\ Leveled(calls', depth') /\ Housed(calls', addr')
  BY <1>3, CloseTop DEF serState
<1>5. SessionTypeOK' BY <1>2, <1>3, <1>4 DEF SessionInv, SessionTypeOK, serState
<1> QED BY <1>3, <1>4, <1>5 DEF SessionInv, serState

LEMMA WriteOutInv ==
  ASSUME SessionInv, Busy, NEW o \in Obj, InUse(o), WriteOut(o)
  PROVE  SessionInv'
<1>1. objIndex \in Nat /\ objTab \in [Addr -> Nat \cup {NotCached}]
  BY DEF SessionInv, SessionTypeOK
<1>2. out' \in Seq([msg : Nat, obj : Obj, index : Nat, inline : BOOLEAN])
  BY <1>1, LogType DEF WriteOut, SessionInv
<1>3. objTab' \in [Addr -> Nat \cup {NotCached}]
  <2>1. PICK i \in {objIndex} \cup (IF Native /\ Cached(o) THEN {objTab[addr[o]]} ELSE {}) :
              objTab' = [objTab EXCEPT ![addr[o]] = i]
    BY DEF WriteOut
  <2>2. i \in Nat BY <1>1, <2>1, EntryType DEF Cached
  <2> QED BY <1>1, <2>1, <2>2
<1>4. /\ objIndex' \in Nat /\ calls' = Append(Taken, NewFrame("write", Level))
      /\ UNCHANGED <<version, depth, tables, live, addr, msg, crashed>>
  BY <1>1 DEF WriteOut
<1>5. calls' \in Seq(Frame) /\ Leveled(calls', depth') /\ Housed(calls', addr')
  BY <1>4, CloseTop, PushCall
<1>6. SessionTypeOK' BY <1>2, <1>3, <1>4, <1>5 DEF SessionInv, SessionTypeOK
<1> QED BY <1>4, <1>5, <1>6 DEF SessionInv

LEMMA NextInv == SessionInv /\ [Next]_vars => SessionInv'
<1> SUFFICES ASSUME SessionInv, [Next]_vars PROVE SessionInv' OBVIOUS
<1>t. /\ calls \in Seq(Frame) /\ depth \in Nat /\ Leveled(calls, depth)
      /\ Housed(calls, addr) /\ addr \in [Obj -> Addr \cup {NoAddr}]
  BY DEF SessionInv, SessionTypeOK
<1>1. ASSUME NEW v \in Versions, Serialize(v) PROVE SessionInv'
  <2>1. /\ calls' = Append(calls, NewFrame("serialize", Level + 1))
        /\ depth' = depth + 1 /\ version' = v
        /\ UNCHANGED <<live, addr, out, crashed>>
    BY <1>1 DEF Serialize
  <2>2. Level \in 0 .. depth /\ \A i \in DOMAIN calls : calls[i].level <= Level
    <3>1. CASE calls = <<>> BY <1>t, <3>1 DEF Level
    <3>2. CASE calls # <<>> BY <1>1, <3>2, CloseTop DEF Serialize, Busy
    <3> QED BY <3>1, <3>2
  <2>3. Leveled(calls, depth') BY <1>t, <2>1 DEF Leveled
  <2>4. \A i \in DOMAIN calls : calls[i].level < Level + 1
    BY <1>t, <2>2 DEF Leveled
  <2>5. calls' \in Seq(Frame) /\ Leveled(calls', depth') /\ Housed(calls', addr')
    <3>1. Level + 1 \in 1 .. depth' /\ depth' \in Nat BY <1>t, <2>1, <2>2
    <3>2. \A i \in DOMAIN calls : calls[i].level <= Level + 1
      <4> TAKE i \in DOMAIN calls
      <4>1. calls[i].level \in Int /\ Level \in Int BY <1>t, <2>2 DEF Leveled
      <4>2. calls[i].level < Level + 1 BY <2>4
      <4> QED BY <4>1, <4>2
    <3> QED BY <1>t, <2>1, <2>3, <2>4, <3>1, <3>2, PushCall
  <2>6. /\ tables' \subseteq {"objects", "refs", "names"} /\ tables' # {}
        /\ objTab' \in [Addr -> Nat \cup {NotCached}] /\ objIndex' \in Nat
    <3>1. /\ objTab \in [Addr -> Nat \cup {NotCached}] /\ objIndex \in Nat
          /\ tables \subseteq {"objects", "refs", "names"} /\ (depth > 0 => tables # {})
      BY DEF SessionInv, SessionTypeOK
    <3>2. CASE depth = 0
      <4>1. tables' = TablesFor(v) /\ objTab' = EmptyTab /\ objIndex' = 0
        BY <1>1, <3>2 DEF Serialize
      <4>2. EmptyTab \in [Addr -> Nat \cup {NotCached}] BY DEF EmptyTab
      <4>3. /\ TablesFor(v) \subseteq {"objects", "refs", "names"}
            /\ ObjectTable(v) \in TablesFor(v)
        BY DEF TablesFor, ObjectTable
      <4> QED BY <4>1, <4>2, <4>3
    <3>3. CASE depth # 0
      <4>1. UNCHANGED <<tables, objTab, objIndex>> BY <1>1, <3>3 DEF Serialize
      <4> QED BY <1>t, <3>1, <3>3, <4>1
    <3> QED BY <3>2, <3>3
  <2>7. msg' \in Nat BY <1>1 DEF Serialize, SessionInv, SessionTypeOK
  <2>8. version' \in {0, 3} BY <2>1, SessionAssumption
  <2>9. SessionTypeOK'
    BY <1>t, <2>1, <2>5, <2>6, <2>7, <2>8 DEF SessionInv, SessionTypeOK
  <2> QED BY <2>5, <2>6, <2>9 DEF SessionInv
<1>2. CASE Return
  <2>1. /\ Busy /\ calls' = Below /\ depth' = depth - 1 /\ Top.what = "serialize"
        /\ UNCHANGED <<version, objIndex, live, addr, msg, out, crashed>>
    BY <1>2 DEF Return
  <2>2. /\ Below = SubSeq(calls, 1, Len(calls) - 1) /\ Len(calls) - 1 \in 0 .. Len(calls)
        /\ Level \in 1 .. depth
    BY <2>1, CloseTop
  <2>3. depth' \in Nat /\ (depth # 1 => depth > 1) BY <1>t, <2>1, <2>2
  <2>4. calls' \in Seq(Frame) /\ Leveled(calls', depth) /\ Housed(calls', addr')
    BY <1>t, <2>1, <2>2, CutCalls
  <2>5. Leveled(calls', depth')
    <3>1. ASSUME NEW i \in DOMAIN calls' PROVE calls'[i].level \in 1 .. depth'
      <4>1. i \in DOMAIN calls /\ i < Len(calls) /\ calls'[i] = calls[i]
            /\ Len(calls) \in DOMAIN calls
        BY <1>t, <2>1, <2>2
      <4>2. calls[i].level < calls[Len(calls)].level
        BY <1>t, <2>1, <4>1 DEF Leveled, Top
      <4>3. calls[i].level \in 1 .. depth /\ calls[Len(calls)].level \in 1 .. depth
        BY <1>t, <4>1 DEF Leveled
      <4> QED BY <1>t, <2>1, <4>1, <4>2, <4>3
    <3> QED BY <2>4, <3>1 DEF Leveled
  <2>6. /\ tables' \subseteq {"objects", "refs", "names"}
        /\ objTab' \in [Addr -> Nat \cup {NotCached}]
        /\ depth' > 0 => tables' # {}
    <3>1. /\ objTab \in [Addr -> Nat \cup {NotCached}]
          /\ tables \subseteq {"objects", "refs", "names"} /\ (depth > 0 => tables # {})
      BY DEF SessionInv, SessionTypeOK
    <3>2. CASE depth = 1
      <4>1. tables' = {} /\ objTab' = EmptyTab BY <1>2, <3>2 DEF Return
      <4>2. EmptyTab \in [Addr -> Nat \cup {NotCached}] BY DEF EmptyTab
      <4> QED BY <2>1, <3>2, <4>1, <4>2
    <3>3. CASE depth # 1
      <4>1. UNCHANGED <<tables, objTab>> BY <1>2, <3>3 DEF Return
      <4> QED BY <1>t, <2>3, <3>1, <3>3, <4>1
    <3> QED BY <3>2, <3>3
  <2>7. SessionTypeOK' BY <2>1, <2>3, <2>4, <2>6 DEF SessionInv, SessionTypeOK
  <2> QED BY <2>4, <2>5, <2>6, <2>7 DEF SessionInv
<1>3. CASE Finish
  <2>1. Busy /\ calls' = Below /\ UNCHANGED <<serState, live, addr, msg, out, crashed>>
    BY <1>3 DEF Finish
  <2>2. calls' \in Seq(Frame) /\ Leveled(calls', depth') /\ Housed(calls', addr')
    BY <1>t, <2>1, CloseTop, CutCalls DEF serState
  <2>3. SessionTypeOK' BY <2>1, <2>2 DEF SessionInv, SessionTypeOK, serState
  <2> QED BY <2>1, <2>2, <2>3 DEF SessionInv, serState
<1>4. ASSUME NEW o \in Obj, Reach(o) PROVE SessionInv'
  <2>1. Busy /\ InUse(o) BY <1>4 DEF Reach, Writable
  <2>2. CASE WriteReference(o) BY <2>1, <2>2, WriteReferenceInv
  <2>3. CASE WriteOut(o) BY <2>1, <2>3, WriteOutInv
  <2>4. CASE CallEncodeAmf(o)
    <3>1. /\ calls' = Append(Taken, NewFrame("callback", Level))
          /\ UNCHANGED <<serState, live, addr, msg, out, crashed>>
      BY <2>4 DEF CallEncodeAmf
    <3>2. calls' \in Seq(Frame) /\ Leveled(calls', depth') /\ Housed(calls', addr')
      BY <2>1, <3>1, CloseTop, PushCall DEF serState
    <3>3. SessionTypeOK' BY <3>1, <3>2 DEF SessionInv, SessionTypeOK, serState
    <3> QED BY <3>1, <3>2, <3>3 DEF SessionInv, serState
  <2> QED BY <1>4, <2>2, <2>3, <2>4 DEF Reach, Put
<1>5. ASSUME NEW o \in Obj, Help(o) PROVE SessionInv'
  <2>1. Busy /\ InUse(o) BY <1>5 DEF Help, Writable
  <2>2. CASE WriteReference(o) BY <2>1, <2>2, WriteReferenceInv
  <2>3. CASE WriteOut(o) BY <2>1, <2>3, WriteOutInv
  <2> QED BY <1>5, <2>2, <2>3 DEF Help, Put
<1>6. ASSUME NEW o \in Obj, NEW a \in Addr, Make(o, a) PROVE SessionInv'
  <2>1. /\ Busy /\ live' = live \cup {o} /\ addr' = [addr EXCEPT ![o] = a]
        /\ calls' = Append(Below, [Top EXCEPT !.temps = @ \cup {o}])
        /\ UNCHANGED <<serState, msg, out, crashed>>
    BY <1>6 DEF Make
  <2> DEFINE g == [Top EXCEPT !.temps = Top.temps \cup {o}]
  <2>2. Top \in Frame /\ Len(calls) \in DOMAIN calls /\ Len(calls) \in Nat
    BY <1>t, <2>1, CloseTop DEF Busy
  <2>3. /\ g \in Frame /\ g.level = Top.level /\ g.what = Top.what
        /\ g.temps = Top.temps \cup {o}
    BY <2>2 DEF Frame
  <2> HIDE DEF g
  <2>4. calls' = Append(SubSeq(calls, 1, Len(calls) - 1), g)
    BY <2>1 DEF Below, g
  <2>5. /\ calls' \in Seq(Frame) /\ DOMAIN calls' = DOMAIN calls
        /\ calls'[Len(calls)] = g
        /\ \A i \in 1 .. Len(calls) - 1 : calls'[i] = calls[i]
    <3>1. calls # <<>> BY <2>1 DEF Busy
    <3>2. /\ Append(SubSeq(calls, 1, Len(calls) - 1), g) \in Seq(Frame)
          /\ DOMAIN Append(SubSeq(calls, 1, Len(calls) - 1), g) = DOMAIN calls
          /\ Append(SubSeq(calls, 1, Len(calls) - 1), g)[Len(calls)] = g
          /\ \A i \in 1 .. Len(calls) - 1 :
               Append(SubSeq(calls, 1, Len(calls) - 1), g)[i] = calls[i]
      BY <1>t, <2>3, <3>1, ReplaceTop, Zenon
    <3> QED BY <2>4, <3>2, Zenon
  <2>6. \A i \in DOMAIN calls : i = Len(calls) \/ i \in 1 .. Len(calls) - 1
    BY <1>t, <2>2
  <2>7. \A i \in DOMAIN calls : /\ calls'[i].level = calls[i].level
                                /\ calls'[i].what = calls[i].what
                                /\ calls'[i].temps \subseteq calls[i].temps \cup {o}
    BY <2>3, <2>5, <2>6 DEF Top
  <2>8. Leveled(calls', depth') BY <1>t, <2>1, <2>5, <2>7 DEF Leveled, serState
  <2>9. a # NoAddr /\ \A p \in Obj : addr'[p] = IF p = o THEN a ELSE addr[p]
    BY <1>t, <2>1, SessionAssumption
  <2>10. Housed(calls', addr')
    BY <1>t, <2>5, <2>7, <2>9, SessionAssumption DEF Housed, HeldBy
  <2>11. SessionTypeOK'
    BY <1>t, <2>1, <2>5 DEF SessionInv, SessionTypeOK, serState
  <2> QED BY <2>1, <2>8, <2>10, <2>11 DEF SessionInv, serState
<1>7. ASSUME NEW o \in Obj, Collect(o) PROVE SessionInv'
  BY <1>7 DEF Collect, SessionInv, SessionTypeOK, serState
<1>8. CASE Raise
  <2>1. PICK k \in RescuePoints : calls' = SubSeq(calls, 1, k)
    BY <1>8 DEF Raise
  <2>2. k \in 0 .. Len(calls) BY <1>t, <2>1 DEF RescuePoints
  <2>3. UNCHANGED <<serState, live, addr, msg, out, crashed>> BY <1>8 DEF Raise
  <2>4. calls' \in Seq(Frame) /\ Leveled(calls', depth') /\ Housed(calls', addr')
    BY <1>t, <2>1, <2>2, <2>3, CutCalls DEF serState
  <2>5. SessionTypeOK' BY <2>3, <2>4 DEF SessionInv, SessionTypeOK, serState
  <2> QED BY <2>3, <2>4, <2>5 DEF SessionInv, serState
<1>9. CASE Crash
  BY <1>9 DEF Crash, SessionInv, SessionTypeOK, serState
<1>10. CASE UNCHANGED vars
  BY <1>10 DEF vars, SessionInv, SessionTypeOK
<1> QED
  BY <1>1, <1>2, <1>3, <1>4, <1>5, <1>6, <1>7, <1>8, <1>9, <1>10 DEF Next

\* The variables keep their types, depth is never below the number of calls
\* of serialize that are running, and there are tables as long as it is not 0.
THEOREM SessionInvariant == Spec => []SessionInv
<1>1. Init => SessionInv BY InitInv
<1>2. SessionInv /\ [Next]_vars => SessionInv' BY NextInv
<1> QED BY <1>1, <1>2, PTL DEF Spec

\* Whatever raises and whoever rescues it, no call of serialize that is still
\* running loses its tables.
THEOREM TablesStay == Spec => []TablesOutliveCalls
<1>1. SessionInv => TablesOutliveCalls
  <2> SUFFICES ASSUME SessionInv PROVE TablesOutliveCalls OBVIOUS
  <2>1. calls \in Seq(Frame) /\ depth \in Nat /\ Leveled(calls, depth)
    BY DEF SessionInv, SessionTypeOK
  <2>2. CASE calls = <<>> BY <2>1, <2>2 DEF TablesOutliveCalls, Level
  <2>3. CASE calls # <<>>
    <3>1. Len(calls) \in DOMAIN calls BY <2>1, <2>3
    <3>2. Level \in 1 .. depth BY <2>1, <2>3, <3>1 DEF Leveled, Level, Top
    <3> QED BY <2>1, <2>3, <3>2 DEF TablesOutliveCalls, SessionInv
  <2> QED BY <2>2, <2>3
<1> QED BY <1>1, SessionInvariant, PTL

-----------------------------------------------------------------------------
(***************************************************************************)
(* Messages that no exception interrupts.                                  *)
(***************************************************************************)

\* The case in which every message can be decoded on its own: nothing raises,
\* and what the tables name stays where it is - the Ruby code holds on to it,
\* and with the C extension the caller has to.
Undisturbed == Rescuers = {} /\ (Native => Kept = Obj)

Rise(f) == IF f.what = "serialize" THEN 1 ELSE 0

\* The level of a function is that of the function below it, and one more for
\* a call of serialize; the outermost function is such a call, and depth is
\* the level of the innermost.
Stacked(c, d) ==
  /\ c = <<>> => d = 0
  /\ c # <<>> => c[1].what = "serialize" /\ c[1].level = 1 /\ c[Len(c)].level = d
  /\ \A i \in 1 .. Len(c) - 1 :
       c[i + 1].level = c[i].level + Rise(c[i + 1])

\* What is in use exists.
HeldLive(c, alive) == Kept \subseteq alive /\ \A i \in DOMAIN c : c[i].temps \subseteq alive

\* What exists has an address, and no two objects have the same.
Apart(alive, where) ==
  \A o \in alive : where[o] # NoAddr /\ \A p \in alive : where[o] = where[p] => o = p

\* Every entry of the object table is the index of an object written out in
\* this message that still lives at the address of the entry.
Entries ==
  \A a \in Addr : objTab[a] # NotCached =>
    \E i \in MessageLog!Inlines(msg) :
      out[i].index = objTab[a] /\ addr[out[i].obj] = a /\ out[i].obj \in live

TablesInv == IF depth = 0 THEN tables = {} /\ objTab = EmptyTab
             ELSE objIndex = Cardinality(MessageLog!Inlines(msg)) /\ Entries

MessagesInv ==
  /\ msg <= MaxMessages /\ (depth > 0 => msg > 0)
  /\ \A i \in DOMAIN out : out[i].msg <= msg

\* The inductive invariant behind MessagesDecode.
DecodeInv ==
  /\ SessionInv
  /\ Stacked(calls, depth)
  /\ HeldLive(calls, live) /\ Apart(live, addr)
  /\ MessagesInv /\ TablesInv

LEMMA EmptyIffLength0 ==
  ASSUME NEW c \in Seq(Frame)
  PROVE  c = <<>> <=> Len(c) = 0
OBVIOUS

LEMMA SameStack ==
  ASSUME NEW c \in Seq(Frame), NEW e \in Seq(Frame), NEW d, Stacked(c, d),
         DOMAIN e = DOMAIN c,
         \A i \in DOMAIN c : e[i].level = c[i].level /\ e[i].what = c[i].what
  PROVE  Stacked(e, d)
<1>1. Len(e) = Len(c) /\ Len(c) \in Nat /\ DOMAIN c = 1 .. Len(c) OBVIOUS
<1>2. (c = <<>> <=> Len(c) = 0) /\ (e = <<>> <=> Len(e) = 0) OBVIOUS
<1>3. CASE c = <<>> BY <1>1, <1>2, <1>3 DEF Stacked
<1>4. CASE c # <<>>
  <2>1. 1 \in DOMAIN c /\ Len(c) \in DOMAIN c BY <1>1, <1>2, <1>4
  <2>2. e[1].what = "serialize" /\ e[1].level = 1 /\ e[Len(e)].level = d
    BY <1>1, <1>4, <2>1 DEF Stacked
  <2>3. ASSUME NEW i \in 1 .. Len(e) - 1
        PROVE  e[i + 1].level = e[i].level + Rise(e[i + 1])
    <3>1. i \in 1 .. Len(c) - 1 /\ i \in DOMAIN c /\ i + 1 \in DOMAIN c BY <1>1
    <3>2. c[i + 1].level = c[i].level + Rise(c[i + 1])
      BY <3>1 DEF Stacked
    <3>3. e[i].level = c[i].level /\ e[i + 1].level = c[i + 1].level /\ e[i + 1].what = c[i + 1].what
      BY <3>1
    <3> QED BY <3>2, <3>3 DEF Rise
  <2> QED BY <1>2, <1>4, <2>2, <2>3 DEF Stacked
<1> QED BY <1>3, <1>4

LEMMA PushStacked ==
  ASSUME NEW c \in Seq(Frame), NEW d \in Nat, Stacked(c, d),
         NEW what \in {"serialize", "write", "callback"},
         c = <<>> => what = "serialize",
         NEW n, n = IF what = "serialize" THEN d + 1 ELSE d
  PROVE  Stacked(Append(c, NewFrame(what, n)), n)
<1> DEFINE f == NewFrame(what, n)
           e == Append(c, f)
<1>1. f \in Frame /\ f.level = n /\ f.what = what /\ n \in Nat
  BY DEF NewFrame, Frame
<1> HIDE DEF f
<1>2. /\ e \in Seq(Frame) /\ Len(e) = Len(c) + 1 /\ e # <<>> /\ Len(c) \in Nat
      /\ e[Len(c) + 1] = f /\ (c = <<>> <=> Len(c) = 0)
      /\ \A i \in 1 .. Len(c) : e[i] = c[i]
  BY <1>1
<1> HIDE DEF e
<1>3. ASSUME c = <<>> PROVE Stacked(e, n)
  <2>1. d = 0 /\ Len(e) = 1 /\ e[1] = f /\ n = 1 BY <1>2, <1>3 DEF Stacked
  <2>2. e[1].what = "serialize" /\ e[1].level = 1 /\ e[Len(e)].level = n
    BY <1>1, <1>3, <2>1
  <2>3. \A i \in 1 .. Len(e) - 1 : FALSE BY <2>1
  <2> QED BY <1>2, <2>2, <2>3 DEF Stacked
<1>4. ASSUME c # <<>> PROVE Stacked(e, n)
  <2>1. e[1] = c[1] /\ e[Len(c)] = c[Len(c)] BY <1>2, <1>4
  <2>2. ASSUME NEW i \in 1 .. Len(e) - 1
        PROVE  e[i + 1].level = e[i].level + Rise(e[i + 1])
    <3>1. CASE i = Len(c)
      <4>1. e[i + 1] = f /\ e[i].level = d BY <1>2, <1>4, <2>1, <3>1 DEF Stacked
      <4> QED BY <1>1, <4>1 DEF Rise
    <3>2. CASE i # Len(c)
      <4>1. i \in 1 .. Len(c) - 1 /\ i + 1 \in 1 .. Len(c) /\ i \in 1 .. Len(c) BY <1>2, <3>2
      <4>2. e[i] = c[i] /\ e[i + 1] = c[i + 1] BY <1>2, <4>1
      <4> QED BY <4>1, <4>2 DEF Stacked
    <3> QED BY <3>1, <3>2
  <2>3. e[1].what = "serialize" /\ e[1].level = 1 /\ e[Len(e)].level = n
    BY <1>1, <1>2, <1>4, <2>1 DEF Stacked
  <2> QED BY <1>2, <2>2, <2>3 DEF Stacked
<1> QED BY <1>3, <1>4 DEF e, f

LEMMA PopStacked ==
  ASSUME SessionInv, Stacked(calls, depth), Busy
  PROVE  /\ Below \in Seq(Frame) /\ depth > 0 /\ Top.level = depth
         /\ Top.what # "serialize" => Stacked(Below, depth)
         /\ Top.what = "serialize" => Stacked(Below, depth - 1)
         /\ depth = 1 /\ Top.what = "serialize" => Below = <<>>
         /\ \A i \in DOMAIN Below : i \in DOMAIN calls /\ Below[i] = calls[i]
<1>1. /\ calls \in Seq(Frame) /\ calls # <<>> /\ depth \in Nat /\ Leveled(calls, depth)
  BY DEF SessionInv, SessionTypeOK, Busy
<1>2. Len(calls) \in Nat \ {0} /\ DOMAIN calls = 1 .. Len(calls) BY <1>1
<1>3. /\ Below \in Seq(Frame) /\ Len(Below) = Len(calls) - 1
      /\ DOMAIN Below = 1 .. Len(calls) - 1
      /\ \A i \in 1 .. Len(calls) - 1 : Below[i] = calls[i]
      /\ Below = <<>> <=> Len(calls) = 1
  <2>1. \A k \in 0 .. Len(calls) :
          /\ SubSeq(calls, 1, k) \in Seq(Frame) /\ Len(SubSeq(calls, 1, k)) = k
          /\ DOMAIN SubSeq(calls, 1, k) = 1 .. k
          /\ \A i \in 1 .. k : SubSeq(calls, 1, k)[i] = calls[i]
    BY <1>1
  <2>2. Len(calls) - 1 \in 0 .. Len(calls) BY <1>2
  <2>3. Below \in Seq(Frame) /\ Len(Below) = Len(calls) - 1 BY <2>1, <2>2 DEF Below
  <2>4. Below = <<>> <=> Len(Below) = 0 BY <2>3, EmptyIffLength0
  <2> QED BY <1>2, <2>1, <2>2, <2>3, <2>4 DEF Below
<1>4. Top.level = depth /\ depth \in 1 .. depth BY <1>1, <1>2 DEF Stacked, Leveled, Top
<1>5. CASE Len(calls) = 1
  <2>1. Top = calls[1] /\ Top.what = "serialize" /\ depth = 1 BY <1>1, <1>4, <1>5 DEF Stacked, Top
  <2>2. Stacked(Below, 0) BY <1>3, <1>5 DEF Stacked
  <2> QED BY <1>2, <1>3, <1>4, <1>5, <2>1, <2>2
<1>6. CASE Len(calls) # 1
  <2> DEFINE k == Len(calls) - 1
  <2>1. k \in 1 .. Len(calls) - 1 /\ k + 1 = Len(calls) /\ k \in DOMAIN calls BY <1>2, <1>6
  <2>2. Top.level = calls[k].level + Rise(Top)
    BY <2>1 DEF Stacked, Top
  <2>3. calls[k].level \in 1 .. depth BY <1>1, <2>1 DEF Leveled
  <2>4. Below[Len(Below)] = calls[k] /\ Below[1] = calls[1] /\ Below # <<>> BY <1>3, <1>6, <2>1
  <2>5. \A i \in 1 .. Len(Below) - 1 :
          Below[i + 1].level = Below[i].level + Rise(Below[i + 1])
    <3> TAKE i \in 1 .. Len(Below) - 1
    <3>1. i \in 1 .. Len(calls) - 1 /\ i + 1 \in 1 .. Len(calls) - 1 BY <1>2, <1>3
    <3> QED BY <1>3, <3>1 DEF Stacked
  <2>6. \A d : calls[k].level = d => Stacked(Below, d)
    BY <1>1, <2>4, <2>5 DEF Stacked
  <2> QED BY <1>1, <1>2, <1>3, <1>4, <2>2, <2>3, <2>4, <2>6 DEF Rise
<1> QED BY <1>5, <1>6

-----------------------------------------------------------------------------
(***************************************************************************)
(* Writing an object keeps the tables and the log together, and is what    *)
(* ReferenceLog allows.                                                    *)
(***************************************************************************)

LogEntry == [msg : Nat, obj : Obj, index : Nat, inline : BOOLEAN]

\* The counting of ReferenceLog is the counting of this module.
LEMMA SameCount == \A S : MessageLog!Cardinality(S) = Cardinality(S)
BY DEF Cardinality, MessageLog!Cardinality

LEMMA Reference ==
  ASSUME NEW r \in LogEntry
  PROVE  [r EXCEPT !.inline = FALSE]
           = [msg |-> r.msg, obj |-> r.obj, index |-> r.index, inline |-> FALSE]
<1>1. PICK m \in Nat, o \in Obj, i \in Nat, b \in BOOLEAN :
        r = [msg |-> m, obj |-> o, index |-> i, inline |-> b]
  BY Zenon DEF LogEntry
<1>2. r.msg = m /\ r.obj = o /\ r.index = i BY <1>1
<1>3. \A c, f : [[msg |-> m, obj |-> o, index |-> i, inline |-> c] EXCEPT !.inline = f]
                  = [msg |-> m, obj |-> o, index |-> i, inline |-> f]
  OBVIOUS
<1> QED BY <1>1, <1>2, <1>3, Zenon

LEMMA Logged ==
  ASSUME SessionInv, NEW m, NEW i \in MessageLog!Inlines(m)
  PROVE  i \in DOMAIN out /\ out[i] \in LogEntry /\ out[i].msg = m /\ out[i].inline
<1>1. i \in DOMAIN out /\ out[i].msg = m /\ out[i].inline BY Zenon DEF MessageLog!Inlines
<1>2. out \in Seq(LogEntry) BY Zenon DEF SessionInv, SessionTypeOK, LogEntry
<1> HIDE DEF LogEntry
<1>3. \A j \in DOMAIN out : out[j] \in LogEntry BY <1>2
<1> QED BY <1>1, <1>3

\* What is in use exists, at an address.
LEMMA InUseLive ==
  ASSUME DecodeInv, NEW o \in Obj, InUse(o)
  PROVE  o \in live
BY DEF DecodeInv, HeldLive, InUse, HeldBy

LEMMA WriteReferenceDecodes ==
  ASSUME DecodeInv, Busy, NEW o \in Obj, InUse(o), WriteReference(o)
  PROVE  DecodeInv' /\ MessageLog!LogNext
<1>1. /\ SessionInv /\ Stacked(calls, depth) /\ SessionInv'
      /\ calls \in Seq(Frame) /\ Taken \in Seq(Frame)
      /\ out \in Seq([msg : Nat, obj : Obj, index : Nat, inline : BOOLEAN]) /\ msg \in Nat
  BY CloseTop, WriteReferenceInv DEF DecodeInv, SessionInv, SessionTypeOK
<1>2. /\ calls' = Taken
      /\ UNCHANGED <<version, depth, tables, objTab, objIndex, live, addr, msg, crashed>>
      /\ out' = Append(out, [msg |-> msg, obj |-> o, index |-> objTab[addr[o]], inline |-> FALSE])
  BY DEF WriteReference, serState, Log
<1>3. Stacked(calls', depth') BY <1>1, <1>2, CloseTop, SameStack
<1>4. HeldLive(calls', live') BY <1>1, <1>2, CloseTop DEF DecodeInv, HeldLive
<1>5. depth > 0 /\ msg > 0 /\ msg \in 1 .. MaxMessages
  BY <1>1, PopStacked, SessionAssumption DEF DecodeInv, MessagesInv
<1>6. PICK i \in MessageLog!Inlines(msg) :
        out[i].index = objTab[addr[o]] /\ addr[out[i].obj] = addr[o] /\ out[i].obj \in live
  <2>1. addr[o] \in Addr /\ objTab[addr[o]] # NotCached
    BY <1>1, EntryType DEF WriteReference, Cached
  <2> QED BY <1>5, <2>1 DEF DecodeInv, TablesInv, Entries
<1>7. out[i].obj = o BY <1>6, InUseLive DEF DecodeInv, Apart
<1>8. i \in DOMAIN out /\ out[i].msg = msg /\ out[i] \in LogEntry BY <1>1, <1>6, Logged
<1>9. MessageLog!LogNext
  <2>1. [out[i] EXCEPT !.inline = FALSE]
          = [msg |-> msg, obj |-> o, index |-> objTab[addr[o]], inline |-> FALSE]
    BY <1>6, <1>7, <1>8, Reference, Zenon
  <2>2. MessageLog!Refer(msg, o) BY <1>2, <1>6, <1>7, <2>1 DEF MessageLog!Refer
  <2> QED BY <1>5, <2>2 DEF MessageLog!LogNext
<1>10. /\ DOMAIN out' = 1 .. Len(out) + 1 /\ DOMAIN out = 1 .. Len(out) /\ Len(out) \in Nat
       /\ \A j \in DOMAIN out : out'[j] = out[j]
       /\ out'[Len(out) + 1].inline = FALSE /\ out'[Len(out) + 1].msg = msg
  <2> DEFINE r == [msg |-> msg, obj |-> o, index |-> objTab[addr[o]], inline |-> FALSE]
  <2>1. r \in [msg : Nat, obj : Obj, index : Nat, inline : BOOLEAN] /\ r.inline = FALSE
        /\ r.msg = msg
    BY <1>1, <1>6, <1>8 DEF LogEntry
  <2>2. out' = Append(out, r) BY <1>2
  <2> HIDE DEF r
  <2> QED BY <1>1, <2>1, <2>2
<1>11. MessageLog!Inlines(msg)' = MessageLog!Inlines(msg)
  BY <1>2, <1>10 DEF MessageLog!Inlines
<1>12. TablesInv'
  <2>1. objIndex' = Cardinality(MessageLog!Inlines(msg)')
    BY <1>2, <1>5, <1>11 DEF DecodeInv, TablesInv
  <2>2. Entries'
    <3>1. \A j \in MessageLog!Inlines(msg) : out'[j] = out[j] BY <1>10 DEF MessageLog!Inlines
    <3>2. Entries BY <1>5 DEF DecodeInv, TablesInv
    <3> QED BY <1>2, <1>11, <3>1, <3>2 DEF Entries
  <2> QED BY <1>2, <1>5, <2>1, <2>2 DEF TablesInv
<1>13. MessagesInv' BY <1>1, <1>2, <1>5, <1>10 DEF DecodeInv, MessagesInv
<1> QED BY <1>1, <1>2, <1>3, <1>4, <1>9, <1>12, <1>13 DEF DecodeInv

LEMMA WriteOutDecodes ==
  ASSUME DecodeInv, Busy, NEW o \in Obj, InUse(o), WriteOut(o)
  PROVE  DecodeInv' /\ MessageLog!LogNext
<1>1. /\ SessionInv /\ Stacked(calls, depth) /\ SessionInv'
      /\ calls \in Seq(Frame) /\ Taken \in Seq(Frame) /\ depth \in Nat
      /\ out \in Seq([msg : Nat, obj : Obj, index : Nat, inline : BOOLEAN]) /\ msg \in Nat
      /\ objIndex \in Nat /\ objTab \in [Addr -> Nat \cup {NotCached}]
  BY CloseTop, WriteOutInv DEF DecodeInv, SessionInv, SessionTypeOK
<1>2. /\ calls' = Append(Taken, NewFrame("write", Level)) /\ objIndex' = objIndex + 1
      /\ UNCHANGED <<version, depth, tables, live, addr, msg, crashed>>
      /\ out' = Append(out, [msg |-> msg, obj |-> o, index |-> objIndex, inline |-> TRUE])
  BY DEF WriteOut, Log
<1>3. PICK x \in {objIndex} \cup (IF Native /\ Cached(o) THEN {objTab[addr[o]]} ELSE {}) :
        objTab' = [objTab EXCEPT ![addr[o]] = x]
  BY DEF WriteOut
<1>4. addr[o] \in Addr /\ o \in live BY <1>1, EntryType, InUseLive
<1>5. /\ depth > 0 /\ msg \in 1 .. MaxMessages /\ Entries
      /\ objIndex = Cardinality(MessageLog!Inlines(msg))
  BY <1>1, PopStacked, SessionAssumption DEF DecodeInv, MessagesInv, TablesInv
<1>6. Stacked(calls', depth')
  <2>1. Stacked(Taken, depth) BY <1>1, CloseTop, SameStack
  <2>2. Level = depth /\ Taken # <<>>
    <3>1. calls # <<>> /\ Top.level = depth BY <1>1, PopStacked DEF Busy
    <3>2. DOMAIN Taken = DOMAIN calls BY <1>1, CloseTop
    <3> QED BY <1>1, <3>1, <3>2 DEF Level
  <2> QED BY <1>1, <1>2, <2>1, <2>2, PushStacked
<1>7. HeldLive(calls', live')
  <2>1. HeldLive(Taken, live) BY <1>1, CloseTop DEF DecodeInv, HeldLive
  <2>2. NewFrame("write", Level) \in Frame /\ NewFrame("write", Level).temps = {}
    BY <1>1, CloseTop DEF NewFrame, Frame
  <2>3. \A i \in DOMAIN Append(Taken, NewFrame("write", Level)) :
          IF i \in DOMAIN Taken THEN Append(Taken, NewFrame("write", Level))[i] = Taken[i]
          ELSE Append(Taken, NewFrame("write", Level))[i] = NewFrame("write", Level)
    BY <1>1, <2>2
  <2> QED BY <1>2, <2>1, <2>2, <2>3 DEF HeldLive
<1>8. MessageLog!LogNext
  <2>1. out' = Append(out, [msg |-> msg, obj |-> o, index |-> objIndex, inline |-> TRUE])
    BY <1>2, Zenon
  <2>2. objIndex = Cardinality(MessageLog!Inlines(msg)) BY <1>5
  <2>3. MessageLog!WriteOut(msg, o) BY <2>1, <2>2, SameCount, Zenon DEF MessageLog!WriteOut
  <2> QED BY <1>5, <2>3 DEF MessageLog!LogNext
<1> DEFINE n == Len(out) + 1
           r == [msg |-> msg, obj |-> o, index |-> objIndex, inline |-> TRUE]
<1>9. /\ DOMAIN out' = DOMAIN out \cup {n} /\ n \notin DOMAIN out
      /\ \A j \in DOMAIN out : out'[j] = out[j]
      /\ out'[n] = r
  <2>1. r \in [msg : Nat, obj : Obj, index : Nat, inline : BOOLEAN] BY <1>1
  <2>2. out' = Append(out, r) BY <1>2
  <2> HIDE DEF r
  <2> QED BY <1>1, <2>1, <2>2
<1>10. r.msg = msg /\ r.inline = TRUE /\ r.index = objIndex /\ r.obj = o OBVIOUS
<1> HIDE DEF n, r
<1>11. MessageLog!Inlines(msg)' = MessageLog!Inlines(msg) \cup {n} /\ n \notin MessageLog!Inlines(msg)
  BY <1>2, <1>9, <1>10 DEF MessageLog!Inlines
<1>12. TablesInv'
  <2>1. objIndex' = Cardinality(MessageLog!Inlines(msg)')
    <3>1. IsFiniteSet(MessageLog!Inlines(msg))
      <4>1. MessageLog!Inlines(msg) \subseteq 1 .. Len(out) BY <1>1 DEF MessageLog!Inlines
      <4>2. IsFiniteSet(1 .. Len(out)) BY <1>1, FS_Interval
      <4> QED BY <4>1, <4>2, FS_Subset
    <3>2. Cardinality(MessageLog!Inlines(msg) \cup {n}) = Cardinality(MessageLog!Inlines(msg)) + 1
      BY <1>11, <3>1, FS_AddElement
    <3> QED BY <1>2, <1>5, <1>11, <3>2
  <2>2. ASSUME NEW a \in Addr, objTab'[a] # NotCached
        PROVE  \E i \in MessageLog!Inlines(msg)' :
                 out'[i].index = objTab'[a] /\ addr'[out'[i].obj] = a /\ out'[i].obj \in live'
    <3>1. CASE a = addr[o] /\ x = objIndex
      <4>1. objTab'[a] = objIndex BY <1>1, <1>3, <1>4, <3>1
      <4>2. n \in MessageLog!Inlines(msg)' BY <1>11
      <4>3. out'[n].index = objTab'[a] /\ addr'[out'[n].obj] = a /\ out'[n].obj \in live'
        BY <1>2, <1>4, <1>9, <1>10, <3>1, <4>1
      <4> QED BY <4>2, <4>3
    <3>2. CASE ~(a = addr[o] /\ x = objIndex)
      <4>1. objTab'[a] = objTab[a] BY <1>1, <1>3, <1>4, <3>2
      <4>2. PICK i \in MessageLog!Inlines(msg) :
              out[i].index = objTab[a] /\ addr[out[i].obj] = a /\ out[i].obj \in live
        BY <1>5, <2>2, <4>1 DEF Entries
      <4>3. out'[i] = out[i] /\ i \in MessageLog!Inlines(msg)'
        BY <1>9, <1>11, <4>2 DEF MessageLog!Inlines
      <4> QED BY <1>2, <4>1, <4>2, <4>3
    <3> QED BY <3>1, <3>2
  <2>3. Entries' BY <2>2 DEF Entries
  <2> QED BY <1>2, <1>5, <2>1, <2>3 DEF TablesInv
<1>13. MessagesInv' BY <1>1, <1>2, <1>5, <1>9, <1>10 DEF DecodeInv, MessagesInv
<1> QED BY <1>1, <1>2, <1>6, <1>7, <1>8, <1>12, <1>13 DEF DecodeInv

-----------------------------------------------------------------------------
(***************************************************************************)
(* Every other step leaves the log alone and keeps the tables in step.     *)
(***************************************************************************)

LEMMA TablesKept ==
  ASSUME DecodeInv, UNCHANGED <<depth, tables, objTab, objIndex, msg, out>>,
         \A o \in live : depth > 0 /\ Cached(o) => o \in live' /\ addr'[o] = addr[o]
  PROVE  TablesInv' /\ MessagesInv'
<1>1. MessagesInv' BY DEF DecodeInv, MessagesInv
<1>2. MessageLog!Inlines(msg)' = MessageLog!Inlines(msg) BY DEF MessageLog!Inlines
<1>3. CASE depth = 0
  <2>1. tables = {} /\ objTab = EmptyTab BY <1>3 DEF DecodeInv, TablesInv
  <2>2. depth' = 0 /\ tables' = {} /\ objTab' = EmptyTab' BY <1>3, <2>1 DEF EmptyTab
  <2> QED BY <1>1, <2>2 DEF TablesInv
<1>4. CASE depth # 0
  <2>1. depth > 0 /\ Entries /\ objIndex = Cardinality(MessageLog!Inlines(msg))
    BY <1>4 DEF DecodeInv, TablesInv, SessionInv, SessionTypeOK
  <2>2. ASSUME NEW a \in Addr, objTab'[a] # NotCached
        PROVE  \E i \in MessageLog!Inlines(msg)' :
                 out'[i].index = objTab'[a] /\ addr'[out'[i].obj] = a /\ out'[i].obj \in live'
    <3>1. PICK i \in MessageLog!Inlines(msg) :
            out[i].index = objTab[a] /\ addr[out[i].obj] = a /\ out[i].obj \in live
      BY <2>1, <2>2 DEF Entries
    <3>2. Cached(out[i].obj) BY <2>2, <3>1 DEF Cached
    <3> QED BY <1>2, <2>1, <3>1, <3>2
  <2> QED BY <1>1, <1>2, <1>4, <2>1, <2>2 DEF TablesInv, Entries
<1> QED BY <1>1, <1>3, <1>4

\* Nothing but the writing of an object changes the log.
LEMMA SerializeDecodes ==
  ASSUME DecodeInv, SessionInv', NEW v \in Versions, Serialize(v)
  PROVE  DecodeInv'
<1>1. /\ calls \in Seq(Frame) /\ depth \in Nat /\ msg \in Nat /\ MaxMessages \in Nat
      /\ Stacked(calls, depth) /\ SessionInv
  BY SessionAssumption DEF DecodeInv, SessionInv, SessionTypeOK
<1>2. /\ calls' = Append(calls, NewFrame("serialize", Level + 1)) /\ depth' = depth + 1
      /\ UNCHANGED <<live, addr, out, crashed>>
  BY DEF Serialize
<1>3. Level = depth /\ (calls = <<>> <=> depth = 0)
  <2>1. CASE calls = <<>> BY <2>1 DEF DecodeInv, Stacked, Level
  <2>2. CASE calls # <<>>
    BY <1>1, <2>2, PopStacked DEF Serialize, Busy, Level
  <2> QED BY <2>1, <2>2
<1>4. Stacked(calls', depth') BY <1>1, <1>2, <1>3, PushStacked
<1>5. HeldLive(calls', live')
  <2>1. /\ NewFrame("serialize", Level + 1) \in Frame
        /\ NewFrame("serialize", Level + 1).temps = {}
    BY <1>1, <1>3 DEF NewFrame, Frame
  <2>2. \A i \in DOMAIN Append(calls, NewFrame("serialize", Level + 1)) :
          IF i \in DOMAIN calls THEN Append(calls, NewFrame("serialize", Level + 1))[i] = calls[i]
          ELSE Append(calls, NewFrame("serialize", Level + 1))[i] = NewFrame("serialize", Level + 1)
    BY <1>1, <2>1
  <2> QED BY <1>2, <2>1, <2>2 DEF DecodeInv, HeldLive
<1>6. TablesInv' /\ MessagesInv'
  <2>1. CASE calls = <<>>
    <3>1. msg' = msg + 1 /\ msg < MaxMessages /\ objTab' = EmptyTab /\ objIndex' = 0
      BY <1>3, <2>1 DEF Serialize
    <3>2. \A i \in DOMAIN out : out[i].msg \in Nat /\ out[i].msg <= msg
      <4>1. out \in Seq(LogEntry) BY DEF DecodeInv, SessionInv, SessionTypeOK, LogEntry
      <4> HIDE DEF LogEntry
      <4>2. \A i \in DOMAIN out : out[i] \in LogEntry BY <4>1
      <4> QED BY <4>2 DEF DecodeInv, MessagesInv, LogEntry
    <3>3. MessagesInv' BY <1>1, <1>2, <3>1, <3>2 DEF MessagesInv
    <3>4. \A i \in DOMAIN out : out[i].msg # msg + 1 BY <1>1, <3>2
    <3>5. MessageLog!Inlines(msg)' = {} BY <1>2, <3>1, <3>4 DEF MessageLog!Inlines
    <3>6. Cardinality(MessageLog!Inlines(msg)') = 0 BY <3>5, FS_EmptySet
    <3>7. Entries' BY <3>1 DEF Entries, EmptyTab
    <3>8. depth' # 0 BY <1>1, <1>2
    <3> QED BY <3>1, <3>3, <3>6, <3>7, <3>8 DEF TablesInv
  <2>2. CASE calls # <<>>
    <3>1. depth > 0 /\ depth' > 0 BY <1>1, <1>2, <1>3, <2>2
    <3>2. UNCHANGED <<tables, objTab, objIndex, msg, live, addr, out>>
      BY <1>3, <2>2 DEF Serialize
    <3>3. MessageLog!Inlines(msg)' = MessageLog!Inlines(msg)
      BY <3>2 DEF MessageLog!Inlines
    <3>4. Entries' BY <3>1, <3>2, <3>3 DEF DecodeInv, TablesInv, Entries
    <3>5. objIndex' = Cardinality(MessageLog!Inlines(msg)')
      BY <3>1, <3>2, <3>3 DEF DecodeInv, TablesInv
    <3>6. TablesInv' BY <3>1, <3>4, <3>5 DEF TablesInv
    <3>7. MessagesInv' BY <3>1, <3>2 DEF DecodeInv, MessagesInv
    <3> QED BY <3>6, <3>7
  <2> QED BY <2>1, <2>2
<1> QED BY <1>2, <1>4, <1>5, <1>6 DEF DecodeInv

LEMMA ReturnDecodes ==
  ASSUME DecodeInv, SessionInv', Return
  PROVE  DecodeInv'
<1>1. /\ Busy /\ Top.what = "serialize" /\ calls' = Below /\ depth' = depth - 1
      /\ UNCHANGED <<objIndex, live, addr, msg, out>>
  BY DEF Return
<1>2. SessionInv /\ Stacked(calls, depth) /\ depth \in Nat
  BY DEF DecodeInv, SessionInv, SessionTypeOK
<1>3. Stacked(calls', depth') BY <1>1, <1>2, PopStacked
<1>4. HeldLive(calls', live') BY <1>1, <1>2, PopStacked DEF DecodeInv, HeldLive
<1>5. depth > 0 /\ msg > 0 BY <1>1, <1>2, PopStacked DEF DecodeInv, MessagesInv
<1>6. MessagesInv' BY <1>1, <1>5 DEF DecodeInv, MessagesInv
<1>7. TablesInv'
  <2>1. CASE depth = 1
    <3>1. tables' = {} /\ objTab' = EmptyTab BY <2>1 DEF Return
    <3> QED BY <1>1, <2>1, <3>1 DEF TablesInv, EmptyTab
  <2>2. CASE depth # 1
    <3>1. UNCHANGED <<tables, objTab>> /\ depth' # 0 BY <1>1, <1>2, <1>5, <2>2 DEF Return
    <3>2. Entries /\ objIndex = Cardinality(MessageLog!Inlines(msg))
      BY <1>5 DEF DecodeInv, TablesInv
    <3>3. MessageLog!Inlines(msg)' = MessageLog!Inlines(msg) BY <1>1 DEF MessageLog!Inlines
    <3>4. Entries' BY <1>1, <3>1, <3>2, <3>3 DEF Entries
    <3> QED BY <1>1, <3>1, <3>2, <3>3, <3>4 DEF TablesInv
  <2> QED BY <2>1, <2>2
<1> QED BY <1>1, <1>3, <1>4, <1>6, <1>7 DEF DecodeInv

LEMMA MakeDecodes ==
  ASSUME DecodeInv, SessionInv', NEW o \in Obj, NEW a \in Addr, Make(o, a)
  PROVE  DecodeInv'
<1>1. /\ Busy /\ live' = live \cup {o} /\ addr' = [addr EXCEPT ![o] = a] /\ addr[o] = NoAddr
      /\ \A p \in live : addr[p] # a
      /\ calls' = Append(Below, [Top EXCEPT !.temps = @ \cup {o}])
      /\ UNCHANGED <<serState, msg, out, crashed>>
  BY DEF Make
<1>2. /\ SessionInv /\ Stacked(calls, depth) /\ depth \in Nat /\ calls \in Seq(Frame)
      /\ calls # <<>> /\ addr \in [Obj -> Addr \cup {NoAddr}] /\ live \subseteq Obj
  BY <1>1 DEF DecodeInv, SessionInv, SessionTypeOK, Busy
<1>3. o \notin live /\ a # NoAddr BY <1>1, SessionAssumption DEF DecodeInv, Apart
<1>4. addr'[o] = a /\ \A p \in live : addr'[p] = addr[p] BY <1>1, <1>2, <1>3
<1>5. Apart(live', addr') BY <1>1, <1>3, <1>4 DEF DecodeInv, Apart
<1> DEFINE g == [Top EXCEPT !.temps = Top.temps \cup {o}]
<1>6. Top \in Frame BY <1>1, <1>2, CloseTop
<1>7. g \in Frame /\ g.level = Top.level /\ g.what = Top.what /\ g.temps = Top.temps \cup {o}
  BY <1>6 DEF Frame
<1> HIDE DEF g
<1>8. /\ calls' \in Seq(Frame) /\ DOMAIN calls' = DOMAIN calls
      /\ calls'[Len(calls)] = g
      /\ \A i \in 1 .. Len(calls) - 1 : calls'[i] = calls[i]
  <2>1. calls' = Append(SubSeq(calls, 1, Len(calls) - 1), g) BY <1>1 DEF Below, g
  <2> QED BY <1>2, <1>7, <2>1, ReplaceTop, Zenon
<1>9. \A i \in DOMAIN calls : i = Len(calls) \/ i \in 1 .. Len(calls) - 1 BY <1>2
<1>10. \A i \in DOMAIN calls : /\ calls'[i].level = calls[i].level
                               /\ calls'[i].what = calls[i].what
                               /\ calls'[i].temps \subseteq calls[i].temps \cup {o}
  BY <1>7, <1>8, <1>9 DEF Top
<1>11. Stacked(calls', depth)  BY <1>2, <1>8, <1>10, SameStack
<1>12. HeldLive(calls', live') BY <1>1, <1>8, <1>10 DEF DecodeInv, HeldLive
<1>13. TablesInv' /\ MessagesInv' BY <1>1, <1>4, TablesKept DEF serState
<1> QED BY <1>1, <1>5, <1>11, <1>12, <1>13 DEF DecodeInv, serState

LEMMA CollectDecodes ==
  ASSUME Undisturbed, DecodeInv, SessionInv', NEW o \in Obj, Collect(o)
  PROVE  DecodeInv'
<1>1. /\ ~InUse(o) /\ ~Pinned(o) /\ live' = live \ {o}
      /\ UNCHANGED <<serState, calls, addr, msg, out, crashed>>
  BY DEF Collect
<1>2. ~Native BY <1>1 DEF Undisturbed, InUse
<1>3. HeldLive(calls', live')
  BY <1>1 DEF DecodeInv, HeldLive, InUse, HeldBy
<1>4. Apart(live', addr') BY <1>1 DEF DecodeInv, Apart
<1>5. depth > 0 => ~Cached(o) BY <1>1, <1>2 DEF Pinned, DecodeInv, SessionInv
<1>6. TablesInv' /\ MessagesInv' BY <1>1, <1>5, TablesKept DEF serState
<1> QED BY <1>1, <1>3, <1>4, <1>6 DEF DecodeInv, serState

LEMMA CallDecodes ==
  ASSUME DecodeInv, SessionInv', Busy, NEW o \in Obj, CallEncodeAmf(o)
  PROVE  DecodeInv'
<1>1. /\ calls' = Append(Taken, NewFrame("callback", Level))
      /\ UNCHANGED <<serState, live, addr, msg, out, crashed>>
  BY DEF CallEncodeAmf
<1>2. /\ SessionInv /\ Stacked(calls, depth) /\ depth \in Nat /\ calls \in Seq(Frame)
      /\ Taken \in Seq(Frame) /\ calls # <<>>
  BY CloseTop DEF DecodeInv, SessionInv, SessionTypeOK, Busy
<1>3. Level = depth /\ Taken # <<>> /\ Stacked(Taken, depth)
  <2>1. DOMAIN Taken = DOMAIN calls BY <1>2, CloseTop
  <2> QED BY <1>2, <2>1, PopStacked, CloseTop, SameStack DEF Level
<1>4. Stacked(calls', depth') BY <1>1, <1>2, <1>3, PushStacked DEF serState
<1>5. HeldLive(calls', live')
  <2>1. HeldLive(Taken, live) BY <1>2, CloseTop DEF DecodeInv, HeldLive
  <2>2. NewFrame("callback", Level) \in Frame /\ NewFrame("callback", Level).temps = {}
    BY <1>2, <1>3 DEF NewFrame, Frame
  <2>3. \A i \in DOMAIN Append(Taken, NewFrame("callback", Level)) :
          IF i \in DOMAIN Taken THEN Append(Taken, NewFrame("callback", Level))[i] = Taken[i]
          ELSE Append(Taken, NewFrame("callback", Level))[i] = NewFrame("callback", Level)
    BY <1>2, <2>2
  <2> QED BY <1>1, <2>1, <2>2, <2>3 DEF HeldLive
<1>6. TablesInv' /\ MessagesInv' BY <1>1, TablesKept DEF serState
<1> QED BY <1>1, <1>4, <1>5, <1>6 DEF DecodeInv

LEMMA NextDecodes ==
  ASSUME Undisturbed, DecodeInv, [Next]_vars
  PROVE  DecodeInv' /\ [MessageLog!LogNext]_out
<1>i. SessionInv /\ SessionInv' BY NextInv DEF DecodeInv
<1>1. ASSUME NEW v \in Versions, Serialize(v) PROVE DecodeInv' /\ UNCHANGED out
  BY <1>i, <1>1, SerializeDecodes DEF Serialize
<1>2. CASE Return BY <1>i, <1>2, ReturnDecodes DEF Return
<1>3. CASE Finish
  <2>1. Busy /\ Top.what # "serialize" /\ calls' = Below
        /\ UNCHANGED <<serState, live, addr, msg, out, crashed>>
    BY <1>3 DEF Finish
  <2>2. Stacked(calls', depth') BY <1>i, <2>1, PopStacked DEF DecodeInv, serState
  <2>3. HeldLive(calls', live') BY <1>i, <2>1, PopStacked DEF DecodeInv, HeldLive
  <2>4. TablesInv' /\ MessagesInv' BY <2>1, TablesKept DEF serState
  <2> QED BY <1>i, <2>1, <2>2, <2>3, <2>4 DEF DecodeInv
<1>4. ASSUME NEW o \in Obj, Reach(o) PROVE DecodeInv' /\ [MessageLog!LogNext]_out
  <2>1. Busy /\ InUse(o) BY <1>4 DEF Reach, Writable
  <2>2. CASE WriteReference(o) BY <2>1, <2>2, WriteReferenceDecodes
  <2>3. CASE WriteOut(o) BY <2>1, <2>3, WriteOutDecodes
  <2>4. CASE CallEncodeAmf(o) BY <1>i, <2>1, <2>4, CallDecodes DEF CallEncodeAmf
  <2> QED BY <1>4, <2>2, <2>3, <2>4 DEF Reach, Put
<1>5. ASSUME NEW o \in Obj, Help(o) PROVE DecodeInv' /\ [MessageLog!LogNext]_out
  <2>1. Busy /\ InUse(o) BY <1>5 DEF Help, Writable
  <2> QED BY <1>5, <2>1, WriteReferenceDecodes, WriteOutDecodes DEF Help, Put
<1>6. ASSUME NEW o \in Obj, NEW a \in Addr, Make(o, a) PROVE DecodeInv' /\ UNCHANGED out
  BY <1>i, <1>6, MakeDecodes DEF Make
<1>7. ASSUME NEW o \in Obj, Collect(o) PROVE DecodeInv' /\ UNCHANGED out
  BY <1>i, <1>7, CollectDecodes DEF Collect
<1>8. ~Raise BY DEF Raise, RescuePoints, Undisturbed
<1>9. CASE Crash \/ UNCHANGED vars
  <2>1. UNCHANGED <<serState, calls, live, addr, msg, out>>
    BY <1>9 DEF Crash, vars, serState
  <2>2. TablesInv' /\ MessagesInv' BY <2>1, TablesKept DEF serState
  <2> QED BY <1>i, <2>1, <2>2 DEF DecodeInv, serState
<1> QED BY <1>1, <1>2, <1>3, <1>4, <1>5, <1>6, <1>7, <1>8, <1>9 DEF Next

\* When no exception unwinds the calls, and the garbage collector cannot move
\* an object the tables name, the Serializer writes what ReferenceLog allows:
\* in every message an object is written out under the next index or referred
\* to by the index under which it was written out, in the same message.
THEOREM MessagesDecodable == Undisturbed => (Spec => MessagesDecode)
<1> SUFFICES ASSUME Undisturbed PROVE Spec => MessagesDecode OBVIOUS
<1>1. Init => DecodeInv /\ MessageLog!LogInit
  <2> SUFFICES ASSUME Init PROVE DecodeInv /\ MessageLog!LogInit OBVIOUS
  <2>1. /\ depth = 0 /\ tables = {} /\ objTab = EmptyTab /\ calls = <<>> /\ live = Kept
        /\ addr = [o \in Obj |-> IF o \in Kept THEN HomeOf[o] ELSE NoAddr]
        /\ msg = 0 /\ out = <<>>
    BY DEF Init
  <2>2. Stacked(calls, depth) BY <2>1 DEF Stacked
  <2>3. HeldLive(calls, live) BY <2>1 DEF HeldLive
  <2>4. Apart(live, addr)
    <3>1. \A o \in Kept : o \in Obj /\ HomeOf[o] \in Addr /\ HomeOf[o] # NoAddr
                          /\ \A p \in Kept : HomeOf[o] = HomeOf[p] => o = p
      BY SessionAssumption
    <3> QED BY <2>1, <3>1 DEF Apart
  <2>5. MessagesInv /\ TablesInv BY <2>1, SessionAssumption DEF MessagesInv, TablesInv
  <2>6. MessageLog!LogInit BY <2>1 DEF MessageLog!LogInit
  <2> QED BY <2>2, <2>3, <2>4, <2>5, <2>6, InitInv DEF DecodeInv
<1>2. DecodeInv /\ [Next]_vars => DecodeInv' /\ [MessageLog!LogNext]_out BY NextDecodes
<1> QED BY <1>1, <1>2, PTL DEF Spec, MessagesDecode, MessageLog!LogSpec

-----------------------------------------------------------------------------
(***************************************************************************)
(* What ReferenceLog is good for: in a log it allows, every reference      *)
(* leads to one object, which is the one that was meant.                   *)
(***************************************************************************)

\* Indexes are given out once in a message, and from 0 on.
IndexedOnce ==
  /\ \A m \in 1 .. MaxMessages : \A i \in MessageLog!Inlines(m) :
       out[i].index < Cardinality(MessageLog!Inlines(m))
  /\ \A i, j \in DOMAIN out :
       /\ out[i].inline /\ out[j].inline
       /\ out[i].msg = out[j].msg /\ out[i].index = out[j].index
       => i = j

\* Every reference was preceded by its object.
Resolved ==
  \A i \in DOMAIN out : ~out[i].inline =>
    \E j \in 1 .. i - 1 : /\ out[j].msg = out[i].msg /\ out[j].index = out[i].index
                          /\ out[j].inline /\ out[j].obj = out[i].obj

LogInv == out \in Seq(LogEntry) /\ IndexedOnce /\ Resolved

LEMMA LogAppended ==
  ASSUME out \in Seq(LogEntry), NEW r \in LogEntry, out' = Append(out, r)
  PROVE  /\ out' \in Seq(LogEntry) /\ Len(out) \in Nat
         /\ DOMAIN out = 1 .. Len(out) /\ DOMAIN out' = 1 .. Len(out) + 1
         /\ \A i \in DOMAIN out : out'[i] = out[i] /\ out[i] \in LogEntry
         /\ out'[Len(out) + 1] = r
<1> HIDE DEF LogEntry
<1> QED OBVIOUS

LEMMA WrittenOutOnce ==
  ASSUME LogInv, NEW m \in 1 .. MaxMessages, NEW o \in Obj, MessageLog!WriteOut(m, o)
  PROVE  LogInv'
<1> DEFINE n == Len(out) + 1
           r == [msg |-> m, obj |-> o, index |-> Cardinality(MessageLog!Inlines(m)), inline |-> TRUE]
<1>1. out \in Seq(LogEntry) /\ Len(out) \in Nat /\ DOMAIN out = 1 .. Len(out)
  BY DEF LogInv
<1>2. \A k : IsFiniteSet(MessageLog!Inlines(k)) /\ Cardinality(MessageLog!Inlines(k)) \in Nat
  <2> TAKE k
  <2>1. MessageLog!Inlines(k) \subseteq 1 .. Len(out) BY <1>1 DEF MessageLog!Inlines
  <2>2. IsFiniteSet(1 .. Len(out)) BY <1>1, FS_Interval
  <2> QED BY <2>1, <2>2, FS_Subset, FS_CardinalityType
<1>3. r \in LogEntry BY <1>2, SessionAssumption DEF LogEntry
<1>4. out' = Append(out, r) BY SameCount, Zenon DEF MessageLog!WriteOut
<1>5. r.msg = m /\ r.obj = o /\ r.index = Cardinality(MessageLog!Inlines(m)) /\ r.inline = TRUE
  OBVIOUS
<1> HIDE DEF r
<1>6. /\ out' \in Seq(LogEntry)
      /\ DOMAIN out' = 1 .. Len(out) + 1
      /\ \A i \in DOMAIN out : out'[i] = out[i] /\ out[i] \in LogEntry
      /\ out'[n] = r
  BY <1>1, <1>3, <1>4, LogAppended
<1>7. \A i \in DOMAIN out : n # i /\ out[i].index \in Nat BY <1>1, <1>6 DEF LogEntry
<1>8. \A i \in DOMAIN out' : i = n \/ i \in DOMAIN out BY <1>1, <1>6
<1>9. \A k : MessageLog!Inlines(k)' = MessageLog!Inlines(k) \cup (IF k = m THEN {n} ELSE {})
  <2> TAKE k
  <2>1. n \in DOMAIN out' /\ \A i \in DOMAIN out : i \in DOMAIN out' BY <1>1, <1>6
  <2> QED BY <1>5, <1>6, <1>7, <1>8, <2>1 DEF MessageLog!Inlines
<1> HIDE DEF n
<1>10. \A k : Cardinality(MessageLog!Inlines(k)')
                = IF k = m THEN Cardinality(MessageLog!Inlines(k)) + 1
                  ELSE Cardinality(MessageLog!Inlines(k))
  <2> TAKE k
  <2>1. n \notin MessageLog!Inlines(k) BY <1>7 DEF MessageLog!Inlines
  <2>2. Cardinality(MessageLog!Inlines(k) \cup {n}) = Cardinality(MessageLog!Inlines(k)) + 1
    BY <1>2, <2>1, FS_AddElement
  <2>3. CASE k = m BY <1>9, <2>2, <2>3
  <2>4. CASE k # m
    <3>1. MessageLog!Inlines(k)' = MessageLog!Inlines(k) BY <1>9, <2>4
    <3> QED BY <2>4, <3>1
  <2> QED BY <2>3, <2>4
<1>11. ASSUME NEW k \in 1 .. MaxMessages, NEW i \in MessageLog!Inlines(k)'
       PROVE  out'[i].index < Cardinality(MessageLog!Inlines(k)')
  <2>1. CASE i = n /\ k = m BY <1>2, <1>5, <1>6, <1>10, <2>1
  <2>2. CASE i \in MessageLog!Inlines(k)
    <3>1. i \in DOMAIN out BY <2>2 DEF MessageLog!Inlines
    <3>2. out[i].index < Cardinality(MessageLog!Inlines(k)) BY <2>2 DEF LogInv, IndexedOnce
    <3> QED BY <1>2, <1>6, <1>7, <1>10, <3>1, <3>2
  <2> QED BY <1>9, <2>1, <2>2
<1>12. ASSUME NEW i \in DOMAIN out, out[i].inline, out[i].msg = m
       PROVE  out[i].index # r.index
  <2>1. i \in MessageLog!Inlines(m) BY <1>12, Zenon DEF MessageLog!Inlines
  <2>2. out[i].index < Cardinality(MessageLog!Inlines(m)) BY <2>1 DEF LogInv, IndexedOnce
  <2> QED BY <1>2, <1>5, <1>7, <2>2
<1>13. ASSUME NEW i \in DOMAIN out', NEW j \in DOMAIN out',
              out'[i].inline, out'[j].inline,
              out'[i].msg = out'[j].msg, out'[i].index = out'[j].index
       PROVE  i = j
  <2>1. CASE i \in DOMAIN out /\ j \in DOMAIN out
    BY <1>6, <1>13, <2>1 DEF LogInv, IndexedOnce
  <2>2. CASE i = n /\ j \in DOMAIN out BY <1>5, <1>6, <1>12, <1>13, <2>2
  <2>3. CASE j = n /\ i \in DOMAIN out BY <1>5, <1>6, <1>12, <1>13, <2>3
  <2> QED BY <1>8, <2>1, <2>2, <2>3
<1>14. IndexedOnce' BY <1>11, <1>13 DEF IndexedOnce
<1>15. ASSUME NEW i \in DOMAIN out', ~out'[i].inline
       PROVE  \E j \in 1 .. i - 1 :
                /\ out'[j].msg = out'[i].msg /\ out'[j].index = out'[i].index
                /\ out'[j].inline /\ out'[j].obj = out'[i].obj
  <2>1. i \in DOMAIN out BY <1>5, <1>6, <1>8, <1>15
  <2>2. PICK j \in 1 .. i - 1 :
          /\ out[j].msg = out[i].msg /\ out[j].index = out[i].index
          /\ out[j].inline /\ out[j].obj = out[i].obj
    BY <1>6, <1>15, <2>1 DEF LogInv, Resolved
  <2>3. j \in DOMAIN out BY <1>1, <2>1
  <2> QED BY <1>6, <2>1, <2>2, <2>3
<1> QED BY <1>6, <1>14, <1>15 DEF LogInv, Resolved

LEMMA ReferredToResolves ==
  ASSUME LogInv, NEW m \in 1 .. MaxMessages, NEW o \in Obj, MessageLog!Refer(m, o)
  PROVE  LogInv'
<1>1. out \in Seq(LogEntry) /\ Len(out) \in Nat /\ DOMAIN out = 1 .. Len(out)
  BY DEF LogInv
<1>2. PICK k \in MessageLog!Inlines(m) :
        out[k].obj = o /\ out' = Append(out, [out[k] EXCEPT !.inline = FALSE])
  BY DEF MessageLog!Refer
<1>3. k \in DOMAIN out /\ out[k].msg = m /\ out[k].inline BY Zenon DEF MessageLog!Inlines
<1>4. out[k] \in LogEntry
  <2> HIDE DEF LogEntry
  <2> QED BY <1>1, <1>3
<1> DEFINE n == Len(out) + 1
           r == [msg |-> out[k].msg, obj |-> out[k].obj, index |-> out[k].index, inline |-> FALSE]
<1>5. r \in LogEntry BY <1>4 DEF LogEntry
<1>6. out' = Append(out, r) BY <1>2, <1>4, Reference, Zenon
<1>7. r.msg = out[k].msg /\ r.obj = out[k].obj /\ r.index = out[k].index /\ r.inline = FALSE
  OBVIOUS
<1> HIDE DEF r
<1>8. /\ out' \in Seq(LogEntry)
      /\ DOMAIN out' = 1 .. Len(out) + 1
      /\ \A i \in DOMAIN out : out'[i] = out[i] /\ out[i] \in LogEntry
      /\ out'[n] = r
  BY <1>1, <1>5, <1>6, LogAppended
<1>9. (\A i \in DOMAIN out' : i = n \/ i \in DOMAIN out) /\ k \in 1 .. n - 1 BY <1>1, <1>3, <1>8
<1>10. \A p : MessageLog!Inlines(p)' = MessageLog!Inlines(p)
  <2> TAKE p
  <2>1. \A i \in DOMAIN out : i \in DOMAIN out' BY <1>1, <1>8
  <2> QED BY <1>7, <1>8, <1>9, <2>1 DEF MessageLog!Inlines
<1> HIDE DEF n
<1>11. ASSUME NEW p \in 1 .. MaxMessages, NEW i \in MessageLog!Inlines(p)'
       PROVE  out'[i].index < Cardinality(MessageLog!Inlines(p)')
  <2>1. i \in MessageLog!Inlines(p) /\ i \in DOMAIN out
    BY <1>10, <1>11 DEF MessageLog!Inlines
  <2>2. out[i].index < Cardinality(MessageLog!Inlines(p)) BY <2>1 DEF LogInv, IndexedOnce
  <2>3. MessageLog!Inlines(p)' = MessageLog!Inlines(p) BY <1>10
  <2> QED BY <1>8, <2>1, <2>2, <2>3
<1>12. ASSUME NEW i \in DOMAIN out', NEW j \in DOMAIN out',
              out'[i].inline, out'[j].inline,
              out'[i].msg = out'[j].msg, out'[i].index = out'[j].index
       PROVE  i = j
  BY <1>7, <1>8, <1>9, <1>12 DEF LogInv, IndexedOnce
<1>13. IndexedOnce' BY <1>11, <1>12 DEF IndexedOnce
<1>14. ASSUME NEW i \in DOMAIN out', ~out'[i].inline
       PROVE  \E j \in 1 .. i - 1 :
                /\ out'[j].msg = out'[i].msg /\ out'[j].index = out'[i].index
                /\ out'[j].inline /\ out'[j].obj = out'[i].obj
  <2>1. CASE i = n
    <3>1. k \in 1 .. i - 1 /\ out'[k] = out[k] BY <1>3, <1>8, <1>9, <2>1
    <3>2. out'[i] = r BY <1>8, <2>1
    <3> QED BY <1>3, <1>7, <3>1, <3>2
  <2>2. CASE i \in DOMAIN out
    <3>1. PICK j \in 1 .. i - 1 :
            /\ out[j].msg = out[i].msg /\ out[j].index = out[i].index
            /\ out[j].inline /\ out[j].obj = out[i].obj
      BY <1>8, <1>14, <2>2 DEF LogInv, Resolved
    <3>2. j \in DOMAIN out BY <1>1, <2>2
    <3> QED BY <1>8, <2>2, <3>1, <3>2
  <2> QED BY <1>9, <2>1, <2>2
<1> QED BY <1>8, <1>13, <1>14 DEF LogInv, Resolved

LEMMA LogResolves == MessagesDecode => []LogInv
<1>1. MessageLog!LogInit => LogInv
  <2> SUFFICES ASSUME MessageLog!LogInit PROVE LogInv OBVIOUS
  <2>1. out = <<>> BY DEF MessageLog!LogInit
  <2>2. out \in Seq(LogEntry) BY <2>1
  <2>3. \A m : MessageLog!Inlines(m) = {} BY <2>1 DEF MessageLog!Inlines
  <2> QED BY <2>1, <2>2, <2>3 DEF LogInv, IndexedOnce, Resolved
<1>2. LogInv /\ [MessageLog!LogNext]_out => LogInv'
  <2> SUFFICES ASSUME LogInv, [MessageLog!LogNext]_out PROVE LogInv' OBVIOUS
  <2>1. CASE UNCHANGED out
    <3>1. \A m : MessageLog!Inlines(m)' = MessageLog!Inlines(m) BY <2>1 DEF MessageLog!Inlines
    <3> QED BY <2>1, <3>1 DEF LogInv, IndexedOnce, Resolved
  <2> QED BY <2>1, WrittenOutOnce, ReferredToResolves DEF MessageLog!LogNext
<1> QED BY <1>1, <1>2, PTL DEF MessagesDecode, MessageLog!LogSpec

\* In the same case a message leans on no other message, and a reference leads
\* to the object that was to be written: the statements the other runs refute
\* when a callback rescues an exception, or the collector moves an object.
THEOREM ReferencesResolve ==
  Undisturbed => (Spec => [](MessagesSelfContained /\ ReferencesNameTheObject))
<1> SUFFICES ASSUME Undisturbed
             PROVE  Spec => [](MessagesSelfContained /\ ReferencesNameTheObject)
  OBVIOUS
<1>1. LogInv => MessagesSelfContained BY DEF LogInv, Resolved, MessagesSelfContained
<1>2. LogInv => ReferencesNameTheObject
  <2> SUFFICES ASSUME LogInv, NEW i \in DOMAIN out, NEW j \in DOMAIN out,
                      j < i, out[j].msg = out[i].msg, out[j].inline, ~out[i].inline,
                      out[j].index = out[i].index
               PROVE  out[j].obj = out[i].obj
    BY DEF ReferencesNameTheObject
  <2>1. PICK k \in 1 .. i - 1 :
          /\ out[k].msg = out[i].msg /\ out[k].index = out[i].index
          /\ out[k].inline /\ out[k].obj = out[i].obj
    BY DEF LogInv, Resolved
  <2>2. k \in DOMAIN out BY DEF LogInv
  <2>3. k = j BY <2>1, <2>2 DEF LogInv, IndexedOnce
  <2> QED BY <2>1, <2>3
<1> QED BY <1>1, <1>2, MessagesDecodable, LogResolves, PTL
=============================================================================
