------------------------- MODULE ClassMapperProofs -------------------------
(***************************************************************************)
(* What holds of class mappers for every number of threads, mappers, sets  *)
(* and names.  The tables of a MappingSet are related to the history of    *)
(* calls (TablesFollow), and the places that are cut to the lookups under  *)
(* way and those that have raised (EachPlaceCutByOne).                     *)
(***************************************************************************)
EXTENDS ClassMapper, SequenceTheorems, TLAPS

\* Sets and calls refer to each other.
SetsKnown ==
  /\ \A i \in DOMAIN calls : calls[i].set \in DOMAIN sets
  /\ \A m \in Mappers : mapper[m] # None => mapper[m].set \in DOMAIN sets

Concerns(i, s, a) == i \in DOMAIN calls /\ calls[i].set = s /\ calls[i].as = a
ConcernsRb(i, s, c) == i \in DOMAIN calls /\ calls[i].set = s /\ calls[i].rb = c

\* as_mappings of set s has under a the last call for a, or nothing.
AsFollows(s, a) ==
  /\ sets[s].as[a] # 0 => Concerns(sets[s].as[a], s, a)
  /\ \A i \in DOMAIN calls : Concerns(i, s, a) => i <= sets[s].as[a]

\* rb_mappings of set s has under c the name of the last call for c, or nothing.
RbFollows(s, c) ==
  \/ sets[s].rb[c] = None /\ \A i \in DOMAIN calls : ~ConcernsRb(i, s, c)
  \/ \E i \in DOMAIN calls :
       /\ ConcernsRb(i, s, c) /\ calls[i].as = sets[s].rb[c]
       /\ \A j \in DOMAIN calls : ConcernsRb(j, s, c) => j <= i

TablesFollow ==
  \A s \in DOMAIN sets :
    (\A a \in AsNames : AsFollows(s, a)) /\ (\A c \in Classes : RbFollows(s, c))

\* The places that are cut by others than t.
CutByOthers(t) == failed \cup {Held(u) : u \in Busy \ {t}}

MethodsSeen ==
  \A m \in Mappers, c \in Classes : mapper[m] # None => methods[c] \in seen[m][c]

MapperInv ==
  /\ TypeOK /\ SetsKnown /\ TablesFollow
  /\ EachPlaceCutByOne
  /\ PropsOfItsTime /\ MethodsSeen

-----------------------------------------------------------------------------
\* Sequences one after the other.
LEMMA Joined ==
  ASSUME NEW S, NEW s \in Seq(S), NEW t \in Seq(S)
  PROVE  /\ s \o t \in Seq(S) /\ Len(s \o t) = Len(s) + Len(t)
         /\ \A i \in 1 .. Len(s) : (s \o t)[i] = s[i]
         /\ \A k \in 1 .. Len(t) : (s \o t)[Len(s) + k] = t[k]
<1>1. Len(s) \in Nat /\ Len(t) \in Nat
  OBVIOUS
<1>2. \A k \in 1 .. Len(t) : /\ Len(s) + k \in 1 .. Len(s) + Len(t)
                             /\ ~(Len(s) + k <= Len(s)) /\ Len(s) + k - Len(s) = k
  BY <1>1
<1>3. \A i \in 1 .. Len(s) : i \in 1 .. Len(s) + Len(t) /\ i <= Len(s)
  BY <1>1
<1> QED BY <1>2, <1>3, ConcatProperties

\* The mappings of map_defaults.
Call(s) == [set : s, as : AsNames, rb : Classes]
Pair == [as : AsNames, rb : Classes]
LEMMA DefaultsType ==
  /\ Len(Defaults) \in Nat /\ DOMAIN Defaults = 1 .. Len(Defaults)
  /\ \A k \in DOMAIN Defaults : Defaults[k].as \in AsNames /\ Defaults[k].rb \in Classes
<1>1. Defaults \in Seq(Pair)
  BY MapperAssumption DEF MapperAssumption, Pair
<1>2. /\ Len(Defaults) \in Nat /\ DOMAIN Defaults = 1 .. Len(Defaults)
      /\ \A k \in 1 .. Len(Defaults) : Defaults[k] \in Pair
  BY <1>1, LenProperties, ElementOfSeq
<1> QED BY <1>2 DEF Pair

\* The calls that map_defaults makes.
LEMMA DefaultCallsType ==
  ASSUME NEW s \in Nat \ {0}
  PROVE  /\ DefaultCalls(s) \in Seq(Call(Nat \ {0}))
         /\ Len(DefaultCalls(s)) = Len(Defaults)
         /\ \A k \in DOMAIN Defaults :
              DefaultCalls(s)[k] = [set |-> s, as |-> Defaults[k].as, rb |-> Defaults[k].rb]
<1>1. DefaultCalls(s) \in [1 .. Len(Defaults) -> Call(Nat \ {0})]
  BY DefaultsType DEF DefaultCalls, Call
<1>2. DefaultCalls(s) \in Seq(Call(Nat \ {0})) /\ Len(DefaultCalls(s)) = Len(Defaults)
  BY <1>1, DefaultsType
<1> QED BY <1>2 DEF DefaultCalls

\* A longer sequence.
LEMMA Grown ==
  ASSUME NEW S, NEW T, NEW s \in Seq(S), NEW t \in Seq(T), DOMAIN s \subseteq DOMAIN t
  PROVE  /\ 0 .. Len(s) \subseteq 0 .. Len(t) /\ 0 .. Len(t) = DOMAIN t \cup {0}
         /\ DOMAIN t = 1 .. Len(t) /\ DOMAIN s = 1 .. Len(s)
<1>1. /\ Len(s) \in Nat /\ Len(t) \in Nat
      /\ DOMAIN s = 1 .. Len(s) /\ DOMAIN t = 1 .. Len(t)
  OBVIOUS
<1>2. Len(s) <= Len(t)
  <2>1. CASE Len(s) = 0  BY <2>1, <1>1
  <2>2. CASE Len(s) # 0
    <3>1. Len(s) \in DOMAIN s  BY <1>1, <2>2
    <3> QED BY <3>1, <1>1
  <2> QED BY <2>1, <2>2
<1> QED BY <1>1, <1>2

\* What MappingsCalled does to calls, sets and mappings.
LEMMA MappingsCalledMakes ==
  ASSUME TypeOK, MappingsCalled
  PROVE  /\ calls' \in Seq(Call(Nat \ {0}))
         /\ sets' \in Seq(Set) /\ mappings' \in DOMAIN sets'
         /\ DOMAIN calls \subseteq DOMAIN calls' /\ DOMAIN sets \subseteq DOMAIN sets'
         /\ \A i \in DOMAIN calls : calls'[i] = calls[i]
         /\ \A s \in DOMAIN sets : sets'[s] = sets[s]
         /\ mappings' = Current
         /\ mappings # 0 => calls' = calls /\ sets' = sets
         /\ mappings = 0 =>
              /\ DOMAIN sets' = DOMAIN sets \cup {Len(sets) + 1}
              /\ sets'[Len(sets) + 1] = [as |-> [a \in AsNames |-> DefaultAs(a)],
                                         rb |-> [c \in Classes |-> DefaultRb(c)]]
              /\ Len(calls) \in Nat /\ DOMAIN calls = 1 .. Len(calls)
              /\ DOMAIN calls' = 1 .. (Len(calls) + Len(Defaults))
              /\ \A k \in DOMAIN Defaults :
                   calls'[Len(calls) + k] = [set |-> Len(sets) + 1,
                                             as |-> Defaults[k].as, rb |-> Defaults[k].rb]
<1> USE DEF TypeOK
<1>1. CASE mappings # 0
  BY <1>1 DEF MappingsCalled, Current, Call
<1>2. CASE mappings = 0
  <2> DEFINE new == [as |-> [a \in AsNames |-> DefaultAs(a)],
                     rb |-> [c \in Classes |-> DefaultRb(c)]]
             more == DefaultCalls(Len(sets) + 1)
  <2>1. /\ calls' = calls \o more /\ sets' = Append(sets, new)
        /\ mappings' = Len(sets) + 1 /\ mappings' = Current
    BY <1>2 DEF MappingsCalled, Current
  <2>2. /\ Len(calls) \in Nat /\ Len(sets) \in Nat /\ Len(Defaults) \in Nat
        /\ DOMAIN Defaults = 1 .. Len(Defaults)
        /\ \A k \in DOMAIN Defaults : Defaults[k].as \in AsNames /\ Defaults[k].rb \in Classes
    BY DefaultsType
  <2>3. new \in Set
    <3>1. \A a \in AsNames : DefaultAs(a) \in Nat
      <4> SUFFICES ASSUME NEW a \in AsNames PROVE DefaultAs(a) \in Nat
        OBVIOUS
      <4>1. CASE \E k \in DOMAIN Defaults : Defaults[k].as = a
        <5>1. (CHOOSE k \in DOMAIN Defaults : Defaults[k].as = a) \in DOMAIN Defaults
          BY <4>1
        <5> QED BY <4>1, <5>1, <2>2 DEF DefaultAs
      <4> QED BY <4>1 DEF DefaultAs
    <3>2. \A c \in Classes : DefaultRb(c) \in AsNames \cup {None}
      <4> SUFFICES ASSUME NEW c \in Classes PROVE DefaultRb(c) \in AsNames \cup {None}
        OBVIOUS
      <4>1. CASE \E k \in DOMAIN Defaults : Defaults[k].rb = c
        <5>1. (CHOOSE k \in DOMAIN Defaults : Defaults[k].rb = c) \in DOMAIN Defaults
          BY <4>1
        <5> QED BY <4>1, <5>1, <2>2 DEF DefaultRb
      <4> QED BY <4>1 DEF DefaultRb
    <3> QED BY <3>1, <3>2 DEF Set
  <2>4. /\ more \in Seq(Call(Nat \ {0}))
        /\ Len(more) = Len(Defaults)
        /\ \A k \in DOMAIN Defaults : more[k] = [set |-> Len(sets) + 1, as |-> Defaults[k].as,
                                                 rb |-> Defaults[k].rb]
    BY <2>2, DefaultCallsType
  <2>5. calls \in Seq(Call(Nat \ {0}))
    BY DEF Call
  <2> HIDE DEF new, more
  <2>6. /\ calls' \in Seq(Call(Nat \ {0}))
        /\ Len(calls') = Len(calls) + Len(Defaults)
        /\ \A i \in 1 .. Len(calls) : calls'[i] = calls[i]
        /\ \A k \in 1 .. Len(Defaults) : calls'[Len(calls) + k] = more[k]
    <3> HIDE DEF TypeOK
    <3> QED BY <2>1, <2>4, <2>5, Joined
  <2>7. /\ sets' \in Seq(Set) /\ Len(sets') = Len(sets) + 1
        /\ \A s \in 1 .. Len(sets) : sets'[s] = sets[s]
        /\ sets'[Len(sets) + 1] = new
    BY <2>1, <2>2, <2>3
  <2>8. /\ DOMAIN calls = 1 .. Len(calls) /\ DOMAIN sets = 1 .. Len(sets)
        /\ DOMAIN calls' = 1 .. (Len(calls) + Len(Defaults))
        /\ DOMAIN sets' = 1 .. (Len(sets) + 1)
    BY <2>6, <2>7
  <2>9. \A k \in DOMAIN Defaults :
          calls'[Len(calls) + k] = [set |-> Len(sets) + 1,
                                    as |-> Defaults[k].as, rb |-> Defaults[k].rb]
    BY <2>2, <2>4, <2>6
  <2>10. /\ mappings' \in DOMAIN sets' /\ DOMAIN calls \subseteq DOMAIN calls'
         /\ DOMAIN sets' = DOMAIN sets \cup {Len(sets) + 1}
    BY <2>1, <2>2, <2>8
  <2> QED BY <1>2, <2>1, <2>2, <2>6, <2>7, <2>8, <2>9, <2>10 DEF new
<1> QED BY <1>1, <1>2

-----------------------------------------------------------------------------
\* What Map does to calls and sets.
MapMade(s, a, c) ==
  /\ calls' \in Seq(Call(Nat \ {0})) /\ sets' \in Seq(Set)
  /\ Len(calls) \in Nat
  /\ DOMAIN calls = 1 .. Len(calls) /\ DOMAIN calls' = 1 .. Len(calls) + 1
  /\ DOMAIN sets' = DOMAIN sets /\ Len(sets') = Len(sets)
  /\ \A i \in DOMAIN calls : calls'[i] = calls[i]
  /\ calls'[Len(calls) + 1] = [set |-> s, as |-> a, rb |-> c]
  /\ \A r \in DOMAIN sets : r # s => sets'[r] = sets[r]
  /\ sets'[s].as = [sets[s].as EXCEPT ![a] = Len(calls) + 1]
  /\ sets'[s].rb = [sets[s].rb EXCEPT ![c] = a]
LEMMA MapMakes ==
  ASSUME TypeOK, NEW s \in DOMAIN sets, NEW a \in AsNames, NEW c \in Classes, Map(s, a, c)
  PROVE  MapMade(s, a, c)
<1>1. /\ calls \in Seq(Call(Nat \ {0})) /\ sets \in Seq(Set)
      /\ Len(calls) \in Nat /\ Len(sets) \in Nat
      /\ DOMAIN calls = 1 .. Len(calls) /\ DOMAIN sets = 1 .. Len(sets)
  BY DEF TypeOK, Call
<1>2. [set |-> s, as |-> a, rb |-> c] \in Call(Nat \ {0})
  BY <1>1 DEF Call
<1>3. /\ sets[s] \in Set /\ sets[s].as \in [AsNames -> Nat]
      /\ sets[s].rb \in [Classes -> AsNames \cup {None}]
      /\ sets[s] = [as |-> sets[s].as, rb |-> sets[s].rb]
  <2>1. sets[s] \in Set
    BY <1>1
  <2> QED BY <2>1 DEF Set
<1> DEFINE new == [as |-> [sets[s].as EXCEPT ![a] = Len(calls) + 1],
                   rb |-> [sets[s].rb EXCEPT ![c] = a]]
<1>4. new \in Set
  BY <1>1, <1>3 DEF Set
<1>5. sets' = [sets EXCEPT ![s] = new]
  BY DEF Map, Inserted
<1>6. calls' = Append(calls, [set |-> s, as |-> a, rb |-> c])
  BY DEF Map
<1>7. /\ sets' \in Seq(Set) /\ DOMAIN sets' = DOMAIN sets /\ Len(sets') = Len(sets)
      /\ \A r \in DOMAIN sets : r # s => sets'[r] = sets[r]
      /\ sets'[s] = new
  <2> HIDE DEF new
  <2> QED BY <1>1, <1>4, <1>5
<1>8. /\ calls' \in Seq(Call(Nat \ {0})) /\ DOMAIN calls' = 1 .. Len(calls) + 1
      /\ \A i \in DOMAIN calls : calls'[i] = calls[i]
      /\ calls'[Len(calls) + 1] = [set |-> s, as |-> a, rb |-> c]
  BY <1>1, <1>2, <1>6
<1> QED BY <1>1, <1>7, <1>8 DEF MapMade

-----------------------------------------------------------------------------
\* The initial state.
LEMMA MapperInit == Init => MapperInv
<1> SUFFICES ASSUME Init PROVE MapperInv
  OBVIOUS
<1>1. /\ calls = <<>> /\ sets = <<>> /\ Len(calls) = 0 /\ Len(sets) = 0
      /\ DOMAIN calls = {} /\ DOMAIN sets = {}
      /\ calls \in Seq(Call(Nat \ {0})) /\ sets \in Seq(Set)
  BY DEF Init
<1>2. mapper \in [Mappers -> Mapper \cup {None}] /\ \A m \in Mappers : mapper[m] = None
  BY DEF Init
<1>3. methods \in [Classes -> SUBSET Getters]
  BY DEF Init
<1>4. /\ lookup \in [Threads -> [str : 0 .. Len(calls), at : Nat]]
      /\ \A t \in Threads : lookup[t] = NoLookup
  BY <1>1 DEF Init, NoLookup
<1>5. seen \in [Mappers -> [Classes -> SUBSET SUBSET Getters]]
  BY DEF Init
<1>6. /\ mappings \in 0 .. Len(sets)
      /\ cut \subseteq (DOMAIN calls) \X Nat /\ failed \subseteq (DOMAIN calls) \X Nat
  <2>1. mappings = 0 /\ cut = {} /\ failed = {}
    BY DEF Init
  <2> QED BY <1>1, <2>1
<1>8. use_ac \in BOOLEAN
  BY Zenon DEF Init
<1>7. TypeOK
  BY <1>1, <1>2, <1>3, <1>4, <1>5, <1>6, <1>8, Zenon DEF TypeOK, Call
<1>9. EachPlaceCutByOne
  <2>1. cut = {} /\ failed = {} /\ Busy = {}
    BY <1>4 DEF Init, Busy
  <2> QED BY <2>1 DEF EachPlaceCutByOne
<1> QED BY <1>1, <1>2, <1>7, <1>9
        DEF MapperInv, SetsKnown, TablesFollow, PropsOfItsTime, MethodsSeen

\* The string that a mapper finds under a name is one of the calls.
LEMMA StringFound ==
  ASSUME MapperInv, NEW m \in Mappers, NEW a \in AsNames, mapper[m] # None
  PROVE  /\ StringOf(m, a) \in Nat
         /\ StringOf(m, a) # 0 => Concerns(StringOf(m, a), mapper[m].set, a)
         /\ \A i \in DOMAIN calls : Concerns(i, mapper[m].set, a) => i <= StringOf(m, a)
<1>1. mapper[m].set \in DOMAIN sets
  BY DEF MapperInv, SetsKnown
<1>2. sets \in Seq(Set)
  BY DEF MapperInv, TypeOK
<1>3. sets[mapper[m].set] \in Set
  BY <1>1, <1>2
<1>4. AsFollows(mapper[m].set, a)
  BY <1>1 DEF MapperInv, TablesFollow
<1> QED BY <1>3, <1>4 DEF StringOf, AsFollows, Set

\* A string that a lookup under way has cut is one of the calls.
LEMMA BusyString ==
  ASSUME TypeOK, EachPlaceCutByOne, NEW t \in Busy
  PROVE  lookup[t].str \in DOMAIN calls /\ lookup[t].at \in Nat
<1>1. Held(t) \in cut
  BY DEF EachPlaceCutByOne
<1>2. Held(t) \in (DOMAIN calls) \X Nat
  BY <1>1 DEF TypeOK
<1> QED BY <1>2 DEF Held

\* A place at which a lookup of a string may be interrupted.
LEMMA AheadUncut ==
  ASSUME NEW str \in DOMAIN calls, NEW done \in Nat, NEW cuts, NEW k \in Ahead(str, done, cuts)
  PROVE  k \in Nat \ {0} /\ <<str, k>> \notin cuts
<1>1. k \in Int /\ k >= 1 /\ k > done /\ \A j \in done + 1 .. k : <<str, j>> \notin cuts
  BY DEF Ahead
<1>2. k \in done + 1 .. k
  BY <1>1
<1> QED BY <1>1, <1>2

\* What a lookup under way restores leaves the places cut by others.
LEMMA RestoredLeaves ==
  ASSUME EachPlaceCutByOne, NEW t \in Busy
  PROVE  CutRestored(t) = CutByOthers(t)
<1>1. CutRestored(t) = cut \ {Held(t)}
  BY DEF CutRestored, Held
<1>2. \A u \in Busy \ {t} : Held(u) # Held(t)
  BY DEF EachPlaceCutByOne
<1>3. Held(t) \notin failed /\ cut = failed \cup {Held(u) : u \in Busy}
  BY DEF EachPlaceCutByOne
<1> QED BY <1>1, <1>2, <1>3 DEF CutByOthers

\* Every step keeps the types.
LEMMA TypeStep == MapperInv /\ [Next]_vars => TypeOK'
<1> SUFFICES ASSUME MapperInv, [Next]_vars PROVE TypeOK'
  OBVIOUS
<1>a. /\ TypeOK
      /\ calls \in Seq(Call(Nat \ {0})) /\ sets \in Seq(Set)
      /\ Len(calls) \in Nat /\ Len(sets) \in Nat
      /\ DOMAIN calls = 1 .. Len(calls) /\ DOMAIN sets = 1 .. Len(sets)
  BY DEF MapperInv, TypeOK, Call
<1>b. ASSUME MappingsCalled
      PROVE  /\ calls' \in Seq(Call(Nat \ {0})) /\ sets' \in Seq(Set)
             /\ mappings' \in 0 .. Len(sets') /\ Current \in Nat \ {0}
             /\ DOMAIN calls \subseteq DOMAIN calls' /\ 0 .. Len(calls) \subseteq 0 .. Len(calls')
  <2>1. /\ calls' \in Seq(Call(Nat \ {0})) /\ sets' \in Seq(Set)
        /\ mappings' = Current /\ mappings' \in DOMAIN sets'
        /\ DOMAIN calls \subseteq DOMAIN calls'
    BY <1>a, <1>b, MappingsCalledMakes
  <2>2. DOMAIN sets' = 1 .. Len(sets') /\ Len(sets') \in Nat
    BY <2>1
  <2> QED BY <2>1, <2>2, <1>a, Grown
<1>1. CASE Mappings
  BY <1>a, <1>b, <1>1 DEF Mappings, TypeOK, nameVars, propVars, Call
<1>2. ASSUME NEW s \in DOMAIN sets, NEW a \in AsNames, NEW c \in Classes, Map(s, a, c)
      PROVE  TypeOK'
  <2>1. /\ calls' \in Seq(Call(Nat \ {0})) /\ sets' \in Seq(Set)
        /\ Len(sets') = Len(sets) /\ DOMAIN calls' = 1 .. Len(calls) + 1
    <3>1. MapMade(s, a, c)
      BY <1>a, <1>2, MapMakes
    <3> QED BY <3>1 DEF MapMade
  <2>2. DOMAIN calls \subseteq DOMAIN calls' /\ 0 .. Len(calls) \subseteq 0 .. Len(calls')
    <3>1. DOMAIN calls \subseteq DOMAIN calls'
      BY <1>a, <2>1
    <3> QED BY <1>a, <2>1, <3>1, Grown
  <2> QED BY <1>a, <1>2, <2>1, <2>2 DEF Map, TypeOK, nameVars, propVars, Call
<1>3. CASE Reset
  <2>1. mappings' = 0 /\ use_ac' = FALSE /\ sets' = sets
    BY <1>3 DEF Reset
  <2>2. mappings' \in 0 .. Len(sets')
    BY <1>a, <2>1
  <2>3. use_ac' \in BOOLEAN
    BY <2>1, Zenon
  <2> QED BY <1>a, <1>3, <2>2, <2>3 DEF Reset, TypeOK, nameVars, propVars
<1>4. CASE SetUseArrayCollection
  BY <1>a, <1>4 DEF SetUseArrayCollection, TypeOK, nameVars, propVars
<1>5. ASSUME NEW m \in Mappers, NewMapper(m) PROVE TypeOK'
  <2>1. MappingsCalled
    BY <1>5 DEF NewMapper
  <2>2. [set |-> Current, use_ac |-> use_ac, props |-> EmptyCache(m)] \in Mapper
    <3>1. use_ac \in BOOLEAN
      BY <1>a DEF TypeOK
    <3>2. EmptyCache(m) \in [Classes -> (SUBSET Getters) \cup {None}]
      BY DEF EmptyCache
    <3> QED BY <1>b, <2>1, <3>1, <3>2 DEF Mapper
  <2>3. mapper' \in [Mappers -> Mapper \cup {None}]
    BY <1>a, <1>5, <2>2 DEF NewMapper, TypeOK
  <2>4. seen' \in [Mappers -> [Classes -> SUBSET SUBSET Getters]]
    <3>1. [c \in Classes |-> {methods[c]}] \in [Classes -> SUBSET SUBSET Getters]
      BY <1>a DEF TypeOK
    <3> QED BY <1>a, <1>5, <3>1 DEF NewMapper, TypeOK
  <2> QED BY <1>a, <1>b, <1>5, <2>1, <2>3, <2>4 DEF NewMapper, TypeOK, nameVars, Call
<1>6. ASSUME NEW c \in Volatile, NEW getters \in SUBSET Getters, Redefine(c, getters)
      PROVE  TypeOK'
  <2>1. methods' \in [Classes -> SUBSET Getters]
    BY <1>a, <1>6 DEF Redefine, TypeOK
  <2>2. \A m \in Mappers : [seen[m] EXCEPT ![c] = @ \cup {getters}]
                             \in [Classes -> SUBSET SUBSET Getters]
    <3>1. seen \in [Mappers -> [Classes -> SUBSET SUBSET Getters]]
      BY <1>a DEF TypeOK
    <3>2. \A m \in Mappers : seen[m][c] \cup {getters} \in SUBSET SUBSET Getters
      BY <3>1, <1>6, MapperAssumption DEF MapperAssumption
    <3> QED BY <3>1, <3>2
  <2>3. seen' \in [Mappers -> [Classes -> SUBSET SUBSET Getters]]
    BY <1>6, <2>2 DEF Redefine
  <2> QED BY <1>a, <1>6, <2>1, <2>3 DEF Redefine, TypeOK, classVars, nameVars
<1>7. ASSUME NEW m \in Mappers, NEW c \in Volatile, PropsForSerialization(m, c)
      PROVE  TypeOK'
  <2>1. c \in Classes
    BY MapperAssumption DEF MapperAssumption
  <2>2. mapper[m] \in Mapper
    BY <1>a, <1>7 DEF PropsForSerialization, TypeOK
  <2>3. Props(m, c) \in (SUBSET Getters) \cup {None}
    BY <1>a, <2>1, <2>2 DEF Props, Mapper, TypeOK
  <2>4. [mapper[m] EXCEPT !.props[c] = Props(m, c)] \in Mapper
    BY <2>1, <2>2, <2>3 DEF Mapper
  <2>5. mapper' = [mapper EXCEPT ![m] = [mapper[m] EXCEPT !.props[c] = Props(m, c)]]
    BY <1>a, <1>7 DEF PropsForSerialization, TypeOK
  <2>6. mapper' \in [Mappers -> Mapper \cup {None}]
    BY <1>a, <2>4, <2>5 DEF TypeOK
  <2> QED BY <1>a, <1>7, <2>6
          DEF PropsForSerialization, TypeOK, classVars, nameVars, propVars
<1>c. EachPlaceCutByOne
  BY DEF MapperInv
<1>d. ASSUME NEW t \in Threads, NEW str \in DOMAIN calls, NEW k \in Nat, NEW cuts,
             cuts \subseteq (DOMAIN calls) \X Nat, Interrupted(t, str, k, cuts),
             UNCHANGED <<classVars, mapper, propVars, failed>>
      PROVE  TypeOK'
  <2>1. [str |-> str, at |-> k] \in [str : 0 .. Len(calls), at : Nat]
    BY <1>a, <1>d
  <2>2. lookup' \in [Threads -> [str : 0 .. Len(calls), at : Nat]]
    BY <1>a, <1>d, <2>1 DEF Interrupted, TypeOK
  <2>3. cut' \subseteq (DOMAIN calls) \X Nat
    BY <1>d DEF Interrupted
  <2> QED BY <1>a, <1>d, <2>2, <2>3 DEF TypeOK, classVars, propVars
<1>8. ASSUME NEW t \in Threads, NEW m \in Mappers, NEW a \in AsNames, Begin(t, m, a)
      PROVE  TypeOK'
  <2>1. StringOf(m, a) \in DOMAIN calls
    BY <1>8, StringFound DEF Begin, Concerns
  <2>2. PICK k \in Ahead(StringOf(m, a), 0, cut) : Interrupted(t, StringOf(m, a), k, cut)
    BY <1>8 DEF Begin
  <2>3. k \in Nat
    BY <2>1, <2>2, AheadUncut
  <2>4. cut \subseteq (DOMAIN calls) \X Nat /\ UNCHANGED <<classVars, mapper, propVars, failed>>
    BY <1>a, <1>8 DEF TypeOK, Begin
  <2> QED BY <1>d, <2>1, <2>2, <2>3, <2>4
<1>9. ASSUME NEW t \in Threads, GoesOn(t) PROVE TypeOK'
  <2>1. t \in Busy
    BY <1>9 DEF GoesOn, Busy
  <2>2. lookup[t].str \in DOMAIN calls /\ lookup[t].at \in Nat
    BY <1>a, <1>c, <2>1, BusyString
  <2>3. PICK k \in Ahead(lookup[t].str, lookup[t].at, CutRestored(t)) :
               Interrupted(t, lookup[t].str, k, CutRestored(t))
    BY <1>9 DEF GoesOn
  <2>4. k \in Nat
    BY <2>2, <2>3, AheadUncut
  <2>5. /\ CutRestored(t) \subseteq (DOMAIN calls) \X Nat
        /\ UNCHANGED <<classVars, mapper, propVars, failed>>
    BY <1>a, <1>9 DEF TypeOK, GoesOn, CutRestored
  <2> QED BY <1>d, <2>2, <2>3, <2>4, <2>5
<1>10. ASSUME NEW t \in Threads, Found(t) \/ NotFound(t) PROVE TypeOK'
  <2>1. NoLookup \in [str : 0 .. Len(calls), at : Nat]
    BY <1>a DEF NoLookup
  <2>2. lookup' \in [Threads -> [str : 0 .. Len(calls), at : Nat]]
    BY <1>a, <1>10, <2>1 DEF Found, NotFound, TypeOK
  <2>3. t \in Busy
    BY <1>10 DEF Found, NotFound, Busy
  <2>4. lookup[t].str \in DOMAIN calls /\ lookup[t].at \in Nat
    BY <1>a, <1>c, <2>3, BusyString
  <2>5. cut' \subseteq (DOMAIN calls) \X Nat /\ failed' \subseteq (DOMAIN calls) \X Nat
    BY <1>a, <1>10, <2>4 DEF Found, NotFound, CutRestored, TypeOK
  <2> QED BY <1>a, <1>10, <2>2, <2>5 DEF Found, NotFound, TypeOK, classVars, propVars
<1>11. CASE UNCHANGED vars
  BY <1>a, <1>11 DEF TypeOK, vars, classVars, nameVars, propVars
<1> QED BY <1>1, <1>2, <1>3, <1>4, <1>5, <1>6, <1>7, <1>8, <1>9, <1>10, <1>11 DEF Next

-----------------------------------------------------------------------------
\* Calls of other sets do not disturb a set.
LEMMA FollowKept ==
  ASSUME NEW s, sets'[s] = sets[s],
         DOMAIN calls \subseteq DOMAIN calls',
         \A i \in DOMAIN calls : calls'[i] = calls[i],
         \A i \in DOMAIN calls' : i \notin DOMAIN calls => calls'[i].set # s,
         (\A a \in AsNames : AsFollows(s, a)) /\ (\A c \in Classes : RbFollows(s, c))
  PROVE  (\A a \in AsNames : AsFollows(s, a)') /\ (\A c \in Classes : RbFollows(s, c)')
<1>1. \A i, a : Concerns(i, s, a)' <=> Concerns(i, s, a)
  BY DEF Concerns
<1>2. \A i, c : ConcernsRb(i, s, c)' <=> ConcernsRb(i, s, c)
  BY DEF ConcernsRb
<1>3. ASSUME NEW a \in AsNames PROVE AsFollows(s, a)'
  BY <1>1 DEF AsFollows, Concerns
<1>4. ASSUME NEW c \in Classes PROVE RbFollows(s, c)'
  <2>1. CASE sets[s].rb[c] = None /\ \A i \in DOMAIN calls : ~ConcernsRb(i, s, c)
    BY <1>2, <2>1 DEF RbFollows, ConcernsRb
  <2>2. CASE \E i \in DOMAIN calls :
               /\ ConcernsRb(i, s, c) /\ calls[i].as = sets[s].rb[c]
               /\ \A j \in DOMAIN calls : ConcernsRb(j, s, c) => j <= i
    <3>1. PICK i \in DOMAIN calls :
               /\ ConcernsRb(i, s, c) /\ calls[i].as = sets[s].rb[c]
               /\ \A j \in DOMAIN calls : ConcernsRb(j, s, c) => j <= i
      BY <2>2
    <3>2. /\ i \in DOMAIN calls' /\ ConcernsRb(i, s, c)' /\ calls'[i].as = sets'[s].rb[c]
          /\ \A j \in DOMAIN calls' : ConcernsRb(j, s, c)' => j <= i
      BY <1>2, <3>1 DEF ConcernsRb
    <3> QED BY <3>2 DEF RbFollows
  <2> QED BY <1>4, <2>1, <2>2 DEF RbFollows
<1> QED BY <1>3, <1>4

\* The default calls of a new set are all there is of it, and map_defaults names
\* every class, and is named, once.
LEMMA NewSetFollows ==
  ASSUME MapperInv, MappingsCalled, mappings = 0, NEW s, s = Len(sets) + 1
  PROVE  (\A a \in AsNames : AsFollows(s, a)') /\ (\A c \in Classes : RbFollows(s, c)')
<1>0. PICK n : n = Len(calls)
  OBVIOUS
<1>1. /\ sets'[s].as = [a \in AsNames |-> DefaultAs(a)]
      /\ sets'[s].rb = [c \in Classes |-> DefaultRb(c)]
      /\ n \in Nat /\ DOMAIN calls = 1 .. n /\ DOMAIN calls' = 1 .. (n + Len(Defaults))
      /\ \A i \in DOMAIN calls : calls'[i] = calls[i]
      /\ \A k \in DOMAIN Defaults :
           calls'[n + k] = [set |-> s, as |-> Defaults[k].as, rb |-> Defaults[k].rb]
  BY <1>0, MappingsCalledMakes DEF MapperInv
<1>2. /\ Len(Defaults) \in Nat /\ DOMAIN Defaults = 1 .. Len(Defaults)
      /\ \A k \in DOMAIN Defaults : Defaults[k].as \in AsNames /\ Defaults[k].rb \in Classes
  BY DefaultsType
<1>3. \A i \in DOMAIN calls : calls[i].set # s
  <2>1. sets \in Seq(Set)
    BY DEF MapperInv, TypeOK
  <2>2. Len(sets) \in Nat /\ DOMAIN sets = 1 .. Len(sets)
    BY <2>1
  <2> QED BY <2>2 DEF MapperInv, SetsKnown
<1>4. \A i \in DOMAIN calls' : calls'[i].set = s =>
        \E k \in DOMAIN Defaults :
          i = n + k /\ calls'[i].as = Defaults[k].as /\ calls'[i].rb = Defaults[k].rb
  <2> SUFFICES ASSUME NEW i \in DOMAIN calls', calls'[i].set = s
               PROVE  \E k \in DOMAIN Defaults :
                        i = n + k /\ calls'[i].as = Defaults[k].as
                                 /\ calls'[i].rb = Defaults[k].rb
    OBVIOUS
  <2>1. i \notin DOMAIN calls
    BY <1>1, <1>3
  <2>2. i - n \in DOMAIN Defaults /\ i = n + (i - n)
    BY <1>1, <1>2, <2>1
  <2>3. PICK k \in DOMAIN Defaults : i = n + k
    BY <2>2
  <2>4. calls'[i] = [set |-> s, as |-> Defaults[k].as, rb |-> Defaults[k].rb]
    BY <1>1, <2>3
  <2> QED BY <2>3, <2>4
<1>5. \A k \in DOMAIN Defaults : n + k \in DOMAIN calls' /\ n + k # 0 /\ n + k \in Nat
  BY <1>1, <1>2
<1>6. \A j, k \in DOMAIN Defaults :
        j # k => Defaults[j].as # Defaults[k].as /\ Defaults[j].rb # Defaults[k].rb
  BY MapperAssumption DEF MapperAssumption
<1>7. ASSUME NEW a \in AsNames PROVE AsFollows(s, a)'
  <2>1. \A i : Concerns(i, s, a)' => \E k \in DOMAIN Defaults : i = n + k /\ Defaults[k].as = a
    BY <1>4 DEF Concerns
  <2>2. sets'[s].as[a] = DefaultAs(a)
    BY <1>1
  <2>3. CASE \E k \in DOMAIN Defaults : Defaults[k].as = a
    <3>1. PICK k \in DOMAIN Defaults :
                 Defaults[k].as = a /\ k = CHOOSE j \in DOMAIN Defaults : Defaults[j].as = a
      BY <2>3
    <3>2. sets'[s].as[a] = n + k
      BY <1>0, <2>2, <2>3, <3>1, Zenon DEF DefaultAs
    <3>3. Concerns(n + k, s, a)'
      <4>1. calls'[n + k] = [set |-> s, as |-> a, rb |-> Defaults[k].rb]
        BY <1>1, <3>1
      <4>2. n + k \in DOMAIN calls'
        BY <1>5
      <4> QED BY <4>1, <4>2 DEF Concerns
    <3>4. \A i : Concerns(i, s, a)' => i = n + k
      BY <1>6, <2>1, <3>1
    <3>5. n + k <= n + k
      BY <1>5
    <3> QED BY <3>2, <3>3, <3>4, <3>5 DEF AsFollows
  <2>4. CASE ~\E k \in DOMAIN Defaults : Defaults[k].as = a
    <3>1. sets'[s].as[a] = 0
      BY <2>2, <2>4 DEF DefaultAs
    <3> QED BY <2>1, <2>4, <3>1 DEF AsFollows
  <2> QED BY <2>3, <2>4
<1>8. ASSUME NEW c \in Classes PROVE RbFollows(s, c)'
  <2>1. \A i : ConcernsRb(i, s, c)' => \E k \in DOMAIN Defaults : i = n + k /\ Defaults[k].rb = c
    BY <1>4 DEF ConcernsRb
  <2>2. sets'[s].rb[c] = DefaultRb(c)
    BY <1>1
  <2>3. CASE \E k \in DOMAIN Defaults : Defaults[k].rb = c
    <3>1. PICK k \in DOMAIN Defaults :
                 Defaults[k].rb = c /\ k = CHOOSE j \in DOMAIN Defaults : Defaults[j].rb = c
      BY <2>3
    <3>2. sets'[s].rb[c] = Defaults[k].as
      BY <2>2, <2>3, <3>1 DEF DefaultRb
    <3>3. ConcernsRb(n + k, s, c)' /\ calls'[n + k].as = Defaults[k].as
      <4>1. calls'[n + k] = [set |-> s, as |-> Defaults[k].as, rb |-> c]
        BY <1>1, <3>1
      <4>2. n + k \in DOMAIN calls'
        BY <1>5
      <4> QED BY <4>1, <4>2 DEF ConcernsRb
    <3>4. \A i : ConcernsRb(i, s, c)' => i = n + k
      BY <1>6, <2>1, <3>1
    <3>5. n + k <= n + k /\ n + k \in DOMAIN calls'
      BY <1>5
    <3> QED BY <3>2, <3>3, <3>4, <3>5 DEF RbFollows
  <2>4. CASE ~\E k \in DOMAIN Defaults : Defaults[k].rb = c
    <3>1. sets'[s].rb[c] = None
      BY <2>2, <2>4 DEF DefaultRb
    <3> QED BY <2>1, <2>4, <3>1 DEF RbFollows
  <2> QED BY <2>3, <2>4
<1> QED BY <1>7, <1>8

\* A call of map is the last for its names, and disturbs no other name.
LEMMA MapFollows ==
  ASSUME MapperInv, NEW s \in DOMAIN sets, NEW a \in AsNames, NEW c \in Classes, Map(s, a, c)
  PROVE  (\A b \in AsNames : AsFollows(s, b)') /\ (\A d \in Classes : RbFollows(s, d)')
<1>0. PICK n : n = Len(calls)
  OBVIOUS
<1>1. /\ n \in Nat /\ DOMAIN calls = 1 .. n /\ DOMAIN calls' = 1 .. n + 1
      /\ \A i \in DOMAIN calls : calls'[i] = calls[i]
      /\ calls'[n + 1] = [set |-> s, as |-> a, rb |-> c]
      /\ sets'[s].as = [sets[s].as EXCEPT ![a] = n + 1]
      /\ sets'[s].rb = [sets[s].rb EXCEPT ![c] = a]
  <2>1. TypeOK
    BY DEF MapperInv
  <2>2. MapMade(s, a, c)
    BY <2>1, MapMakes
  <2> QED BY <1>0, <2>2 DEF MapMade
<1>2. /\ sets[s].as \in [AsNames -> Nat] /\ sets[s].rb \in [Classes -> AsNames \cup {None}]
  <2>1. sets \in Seq(Set)
    BY DEF MapperInv, TypeOK
  <2>2. sets[s] \in Set
    BY <2>1
  <2> QED BY <2>2 DEF Set
<1>3. (\A b \in AsNames : AsFollows(s, b)) /\ (\A d \in Classes : RbFollows(s, d))
  BY DEF MapperInv, TablesFollow
<1>4. /\ DOMAIN calls' = DOMAIN calls \cup {n + 1} /\ n + 1 \notin DOMAIN calls
      /\ \A i \in DOMAIN calls' : i <= n + 1
      /\ n + 1 # 0
  BY <1>1
<1>5. \A i, b : Concerns(i, s, b)' <=> Concerns(i, s, b) \/ (i = n + 1 /\ b = a)
  BY <1>1, <1>4 DEF Concerns
<1>6. \A i, d : ConcernsRb(i, s, d)' <=> ConcernsRb(i, s, d) \/ (i = n + 1 /\ d = c)
  BY <1>1, <1>4 DEF ConcernsRb
<1>7. ASSUME NEW b \in AsNames PROVE AsFollows(s, b)'
  <2>1. CASE b = a
    <3>1. sets'[s].as[b] = n + 1
      BY <1>1, <1>2, <2>1
    <3> QED BY <1>4, <1>5, <2>1, <3>1 DEF AsFollows
  <2>2. CASE b # a
    <3>1. sets'[s].as[b] = sets[s].as[b]
      BY <1>1, <1>2, <2>2
    <3> QED BY <1>3, <1>4, <1>5, <2>2, <3>1 DEF AsFollows, Concerns
  <2> QED BY <2>1, <2>2
<1>8. ASSUME NEW d \in Classes PROVE RbFollows(s, d)'
  <2>1. CASE d = c
    <3>1. sets'[s].rb[d] = a
      BY <1>1, <1>2, <2>1
    <3>2. ConcernsRb(n + 1, s, d)' /\ calls'[n + 1].as = a /\ n + 1 \in DOMAIN calls'
      BY <1>1, <1>4, <1>6, <2>1
    <3> QED BY <1>4, <3>1, <3>2 DEF RbFollows
  <2>2. CASE d # c
    <3>1. sets'[s].rb[d] = sets[s].rb[d]
      BY <1>1, <1>2, <2>2
    <3>2. \A i : ConcernsRb(i, s, d)' <=> ConcernsRb(i, s, d)
      BY <1>6, <2>2
    <3>3. CASE sets[s].rb[d] = None /\ \A i \in DOMAIN calls : ~ConcernsRb(i, s, d)
      BY <3>1, <3>2, <3>3 DEF RbFollows, ConcernsRb
    <3>4. CASE \E i \in DOMAIN calls :
                 /\ ConcernsRb(i, s, d) /\ calls[i].as = sets[s].rb[d]
                 /\ \A j \in DOMAIN calls : ConcernsRb(j, s, d) => j <= i
      <4>1. PICK i \in DOMAIN calls :
                 /\ ConcernsRb(i, s, d) /\ calls[i].as = sets[s].rb[d]
                 /\ \A j \in DOMAIN calls : ConcernsRb(j, s, d) => j <= i
        BY <3>4
      <4>2. /\ i \in DOMAIN calls' /\ ConcernsRb(i, s, d)' /\ calls'[i].as = sets'[s].rb[d]
            /\ \A j \in DOMAIN calls' : ConcernsRb(j, s, d)' => j <= i
        BY <1>1, <1>4, <3>1, <3>2, <4>1 DEF ConcernsRb
      <4> QED BY <4>2 DEF RbFollows
    <3> QED BY <1>3, <3>3, <3>4 DEF RbFollows
  <2> QED BY <2>1, <2>2
<1> QED BY <1>7, <1>8

\* The actions that leave sets and calls alone.
Elsewhere ==
  \/ Reset \/ SetUseArrayCollection
  \/ \E c \in Volatile, getters \in SUBSET Getters : Redefine(c, getters)
  \/ \E m \in Mappers, c \in Volatile : PropsForSerialization(m, c)
  \/ \E t \in Threads, m \in Mappers, a \in AsNames : Begin(t, m, a)
  \/ \E t \in Threads : GoesOn(t) \/ Found(t) \/ NotFound(t)
  \/ UNCHANGED vars
LEMMA ElsewhereKeeps == Elsewhere => calls' = calls /\ sets' = sets
BY DEF Elsewhere, Reset, SetUseArrayCollection, Redefine, PropsForSerialization, Begin,
       GoesOn, Found, NotFound, vars, classVars

\* Every step keeps the tables of all sets in accord with the calls.
LEMMA TablesStep == MapperInv /\ [Next]_vars => TablesFollow'
<1> SUFFICES ASSUME MapperInv, [Next]_vars PROVE TablesFollow'
  OBVIOUS
<1>1. ASSUME MappingsCalled PROVE TablesFollow'
  <2>1. /\ DOMAIN calls \subseteq DOMAIN calls'
        /\ \A i \in DOMAIN calls : calls'[i] = calls[i]
        /\ \A s \in DOMAIN sets : sets'[s] = sets[s]
        /\ mappings # 0 => calls' = calls /\ sets' = sets
        /\ mappings = 0 => DOMAIN sets' = DOMAIN sets \cup {Len(sets) + 1}
    BY <1>1, MappingsCalledMakes DEF MapperInv
  <2>2. \A i \in DOMAIN calls' : i \notin DOMAIN calls => calls'[i].set \notin DOMAIN sets
    <3>1. CASE mappings # 0
      BY <2>1, <3>1
    <3>2. CASE mappings = 0
      <4>1. /\ Len(calls) \in Nat /\ DOMAIN calls = 1 .. Len(calls)
            /\ DOMAIN calls' = 1 .. (Len(calls) + Len(Defaults))
            /\ \A k \in DOMAIN Defaults :
                 calls'[Len(calls) + k] = [set |-> Len(sets) + 1,
                                           as |-> Defaults[k].as, rb |-> Defaults[k].rb]
        BY <1>1, <3>2, MappingsCalledMakes DEF MapperInv
      <4>2. Len(Defaults) \in Nat /\ DOMAIN Defaults = 1 .. Len(Defaults)
        BY DefaultsType
      <4>3. Len(sets) + 1 \notin DOMAIN sets
        <5>1. sets \in Seq(Set)
          BY DEF MapperInv, TypeOK
        <5> QED BY <5>1
      <4>4. ASSUME NEW i \in DOMAIN calls', i \notin DOMAIN calls
            PROVE  calls'[i].set = Len(sets) + 1
        <5>1. i - Len(calls) \in DOMAIN Defaults /\ i = Len(calls) + (i - Len(calls))
          BY <4>1, <4>2, <4>4
        <5>2. PICK k \in DOMAIN Defaults : i = Len(calls) + k
          BY <5>1
        <5>3. calls'[i] = [set |-> Len(sets) + 1, as |-> Defaults[k].as, rb |-> Defaults[k].rb]
          BY <4>1, <5>2
        <5> QED BY <5>3
      <4> QED BY <4>3, <4>4
    <3> QED BY <3>1, <3>2
  <2>3. ASSUME NEW s \in DOMAIN sets
        PROVE  (\A a \in AsNames : AsFollows(s, a)') /\ (\A c \in Classes : RbFollows(s, c)')
    <3>1. (\A a \in AsNames : AsFollows(s, a)) /\ (\A c \in Classes : RbFollows(s, c))
      BY DEF MapperInv, TablesFollow
    <3> QED BY <2>1, <2>2, <3>1, FollowKept
  <2>4. ASSUME NEW s \in DOMAIN sets', s \notin DOMAIN sets
        PROVE  (\A a \in AsNames : AsFollows(s, a)') /\ (\A c \in Classes : RbFollows(s, c)')
    <3>1. mappings = 0 /\ s = Len(sets) + 1
      BY <2>1, <2>4
    <3> QED BY <1>1, <3>1, NewSetFollows
  <2> QED BY <2>3, <2>4 DEF TablesFollow
<1>2. ASSUME NEW s \in DOMAIN sets, NEW a \in AsNames, NEW c \in Classes, Map(s, a, c)
      PROVE  TablesFollow'
  <2>1. /\ DOMAIN sets' = DOMAIN sets
        /\ DOMAIN calls = 1 .. Len(calls) /\ DOMAIN calls' = 1 .. Len(calls) + 1
        /\ Len(calls) \in Nat
        /\ \A i \in DOMAIN calls : calls'[i] = calls[i]
        /\ calls'[Len(calls) + 1] = [set |-> s, as |-> a, rb |-> c]
        /\ \A r \in DOMAIN sets : r # s => sets'[r] = sets[r]
    <3>1. TypeOK
      BY DEF MapperInv
    <3>2. MapMade(s, a, c)
      BY <1>2, <3>1, MapMakes
    <3> QED BY <3>2 DEF MapMade
  <2>2. /\ DOMAIN calls \subseteq DOMAIN calls'
        /\ \A i \in DOMAIN calls' : i \notin DOMAIN calls => i = Len(calls) + 1
    BY <2>1
  <2>3. ASSUME NEW r \in DOMAIN sets
        PROVE  (\A b \in AsNames : AsFollows(r, b)') /\ (\A d \in Classes : RbFollows(r, d)')
    <3>1. CASE r = s
      BY <1>2, <3>1, MapFollows
    <3>2. CASE r # s
      <4>1. \A i \in DOMAIN calls' : i \notin DOMAIN calls => calls'[i].set # r
        BY <2>1, <2>2, <3>2
      <4>2. (\A b \in AsNames : AsFollows(r, b)) /\ (\A d \in Classes : RbFollows(r, d))
        BY DEF MapperInv, TablesFollow
      <4> QED BY <2>1, <2>2, <3>2, <4>1, <4>2, FollowKept
    <3> QED BY <3>1, <3>2
  <2> QED BY <2>1, <2>3 DEF TablesFollow
<1>3. CASE Elsewhere
  BY <1>3, ElsewhereKeeps
     DEF MapperInv, TablesFollow, AsFollows, RbFollows, Concerns, ConcernsRb
<1> QED BY <1>1, <1>2, <1>3 DEF Next, Mappings, NewMapper, Elsewhere

\* Sets that mappers and calls refer to stay.
LEMMA SetsStep == MapperInv /\ [Next]_vars => SetsKnown'
<1> SUFFICES ASSUME MapperInv, [Next]_vars PROVE SetsKnown'
  OBVIOUS
<1>0. /\ TypeOK /\ SetsKnown
      /\ sets \in Seq(Set) /\ DOMAIN sets = 1 .. Len(sets) /\ Len(sets) \in Nat
  <2>1. TypeOK /\ SetsKnown /\ sets \in Seq(Set)
    BY DEF MapperInv, TypeOK
  <2> QED BY <2>1
<1>1. ASSUME MappingsCalled
      PROVE  /\ \A i \in DOMAIN calls' : calls'[i].set \in DOMAIN sets'
             /\ DOMAIN sets \subseteq DOMAIN sets' /\ Current \in DOMAIN sets'
  <2>1. /\ DOMAIN sets \subseteq DOMAIN sets' /\ Current \in DOMAIN sets'
        /\ \A i \in DOMAIN calls : calls'[i] = calls[i]
        /\ mappings # 0 => calls' = calls /\ sets' = sets
    BY <1>0, <1>1, MappingsCalledMakes
  <2>2. CASE mappings # 0
    BY <1>0, <2>1, <2>2 DEF SetsKnown
  <2>3. CASE mappings = 0
    <3>1. /\ DOMAIN sets' = DOMAIN sets \cup {Len(sets) + 1}
          /\ Len(calls) \in Nat /\ DOMAIN calls = 1 .. Len(calls)
          /\ DOMAIN calls' = 1 .. (Len(calls) + Len(Defaults))
          /\ \A k \in DOMAIN Defaults :
               calls'[Len(calls) + k] = [set |-> Len(sets) + 1,
                                         as |-> Defaults[k].as, rb |-> Defaults[k].rb]
      BY <1>0, <1>1, <2>3, MappingsCalledMakes
    <3>2. Len(Defaults) \in Nat /\ DOMAIN Defaults = 1 .. Len(Defaults)
      BY DefaultsType
    <3>3. ASSUME NEW i \in DOMAIN calls' PROVE calls'[i].set \in DOMAIN sets'
      <4>1. CASE i \in DOMAIN calls
        <5>1. calls[i].set \in DOMAIN sets
          BY <1>0, <4>1 DEF SetsKnown
        <5> QED BY <2>1, <4>1, <5>1
      <4>2. CASE i \notin DOMAIN calls
        <5>1. i - Len(calls) \in DOMAIN Defaults /\ i = Len(calls) + (i - Len(calls))
          BY <3>1, <3>2, <3>3, <4>2
        <5>2. PICK k \in DOMAIN Defaults : i = Len(calls) + k
          BY <5>1
        <5>3. calls'[i] = [set |-> Len(sets) + 1, as |-> Defaults[k].as, rb |-> Defaults[k].rb]
          BY <3>1, <5>2
        <5> QED BY <3>1, <5>3
      <4> QED BY <4>1, <4>2
    <3> QED BY <2>1, <3>3
  <2> QED BY <2>2, <2>3
<1>2. CASE Mappings
  BY <1>0, <1>1, <1>2 DEF Mappings, SetsKnown
<1>3. ASSUME NEW m \in Mappers, NewMapper(m) PROVE SetsKnown'
  <2>1. MappingsCalled /\ mapper' = [mapper EXCEPT ![m] = [set |-> Current, use_ac |-> use_ac,
                                                           props |-> EmptyCache(m)]]
    BY <1>3 DEF NewMapper
  <2>2. /\ mapper \in [Mappers -> Mapper \cup {None}]
        /\ mapper'[m].set = Current /\ \A k \in Mappers : k # m => mapper'[k] = mapper[k]
    BY <1>0, <2>1 DEF TypeOK
  <2> QED BY <1>0, <1>1, <2>1, <2>2 DEF SetsKnown
<1>4. ASSUME NEW s \in DOMAIN sets, NEW a \in AsNames, NEW c \in Classes, Map(s, a, c)
      PROVE  SetsKnown'
  <2>1. /\ DOMAIN sets' = DOMAIN sets
        /\ DOMAIN calls = 1 .. Len(calls) /\ DOMAIN calls' = 1 .. Len(calls) + 1
        /\ Len(calls) \in Nat
        /\ \A i \in DOMAIN calls : calls'[i] = calls[i]
        /\ calls'[Len(calls) + 1].set = s
    <3>1. MapMade(s, a, c)
      BY <1>0, <1>4, MapMakes
    <3> QED BY <3>1 DEF MapMade
  <2>2. \A i \in DOMAIN calls' : i \in DOMAIN calls \/ i = Len(calls) + 1
    BY <2>1
  <2>3. mapper' = mapper
    BY <1>4 DEF Map
  <2> QED BY <1>0, <2>1, <2>2, <2>3 DEF SetsKnown
<1>5. ASSUME NEW m \in Mappers, NEW c \in Volatile, PropsForSerialization(m, c)
      PROVE  SetsKnown'
  <2>1. calls' = calls /\ sets' = sets /\ mapper[m] # None
        /\ mapper' = [mapper EXCEPT ![m].props[c] = Props(m, c)]
    BY <1>5 DEF PropsForSerialization, classVars
  <2>2. mapper \in [Mappers -> Mapper \cup {None}] /\ mapper[m] \in Mapper
    BY <1>0, <2>1 DEF TypeOK
  <2>3. mapper'[m].set = mapper[m].set /\ \A k \in Mappers : k # m => mapper'[k] = mapper[k]
    BY <2>1, <2>2 DEF Mapper
  <2> QED BY <1>0, <2>1, <2>3 DEF SetsKnown
<1>6. CASE Elsewhere /\ mapper' = mapper
  BY <1>0, <1>6, ElsewhereKeeps DEF SetsKnown
<1>7. CASE Elsewhere
  BY <1>5, <1>6, <1>7
     DEF Elsewhere, Reset, SetUseArrayCollection, Redefine, Begin, GoesOn, Found, NotFound,
         vars, classVars
<1> QED BY <1>2, <1>3, <1>4, <1>7 DEF Next, Elsewhere

-----------------------------------------------------------------------------
\* A lookup that cuts a place which no other one has cut.
LEMMA InterruptedKeeps ==
  ASSUME TypeOK, EachPlaceCutByOne,
         NEW t \in Threads, NEW str, NEW k \in Nat \ {0}, <<str, k>> \notin CutByOthers(t),
         Interrupted(t, str, k, CutByOthers(t)), failed' = failed
  PROVE  EachPlaceCutByOne'
<1>1. /\ lookup'[t] = [str |-> str, at |-> k]
      /\ \A u \in Threads : u # t => lookup'[u] = lookup[u]
      /\ cut' = CutByOthers(t) \cup {<<str, k>>}
  BY DEF TypeOK, Interrupted
<1>2. lookup'[t] # NoLookup /\ Held(t)' = <<str, k>>
  BY <1>1 DEF NoLookup, Held
<1>3. Busy' = (Busy \ {t}) \cup {t} /\ \A u \in Busy \ {t} : Held(u)' = Held(u)
  BY <1>1, <1>2 DEF Busy, Held, NoLookup
<1>4. \A u \in Busy \ {t} : Held(u) \in CutByOthers(t) /\ Held(u) \notin failed
  BY DEF CutByOthers, EachPlaceCutByOne
<1>5. ASSUME NEW u \in Busy', NEW v \in Busy', u # v PROVE Held(u)' # Held(v)'
  <2>1. CASE u = t  BY <1>2, <1>3, <1>4, <1>5, <2>1
  <2>2. CASE v = t  BY <1>2, <1>3, <1>4, <1>5, <2>2
  <2>3. CASE u # t /\ v # t
    BY <1>3, <1>5, <2>3 DEF EachPlaceCutByOne
  <2> QED BY <2>1, <2>2, <2>3
<1>6. \A u \in Busy' : Held(u)' \notin failed'
  BY <1>2, <1>3, <1>4 DEF CutByOthers
<1>7. cut' = failed' \cup {Held(u)' : u \in Busy'}
  BY <1>1, <1>2, <1>3 DEF CutByOthers
<1> QED BY <1>5, <1>6, <1>7 DEF EachPlaceCutByOne

\* Every step keeps the places that are cut in accord with the lookups.
LEMMA CutStep == MapperInv /\ [Next]_vars => EachPlaceCutByOne'
<1> SUFFICES ASSUME MapperInv, [Next]_vars PROVE EachPlaceCutByOne'
  OBVIOUS
<1>0. TypeOK /\ EachPlaceCutByOne
  BY DEF MapperInv
<1>1. ASSUME NEW t \in Threads, NEW m \in Mappers, NEW a \in AsNames, Begin(t, m, a)
      PROVE  EachPlaceCutByOne'
  <2>1. StringOf(m, a) \in DOMAIN calls
    BY <1>1, StringFound DEF Begin, Concerns
  <2>2. PICK k \in Ahead(StringOf(m, a), 0, cut) : Interrupted(t, StringOf(m, a), k, cut)
    BY <1>1 DEF Begin
  <2>3. k \in Nat \ {0} /\ <<StringOf(m, a), k>> \notin cut
    BY <2>1, <2>2, AheadUncut
  <2>4. cut = CutByOthers(t)
    <3>1. t \notin Busy
      BY <1>1 DEF Begin, Busy
    <3> QED BY <1>0, <3>1 DEF EachPlaceCutByOne, CutByOthers
  <2>5. failed' = failed
    BY <1>1 DEF Begin
  <2> QED BY <1>0, <2>2, <2>3, <2>4, <2>5, InterruptedKeeps
<1>2. ASSUME NEW t \in Threads, GoesOn(t) PROVE EachPlaceCutByOne'
  <2>1. t \in Busy
    BY <1>2 DEF GoesOn, Busy
  <2>2. lookup[t].str \in DOMAIN calls /\ lookup[t].at \in Nat
    BY <1>0, <2>1, BusyString
  <2>3. CutRestored(t) = CutByOthers(t)
    BY <1>0, <2>1, RestoredLeaves
  <2>4. PICK k \in Ahead(lookup[t].str, lookup[t].at, CutByOthers(t)) :
               Interrupted(t, lookup[t].str, k, CutByOthers(t))
    BY <1>2, <2>3 DEF GoesOn
  <2>5. k \in Nat \ {0} /\ <<lookup[t].str, k>> \notin CutByOthers(t)
    BY <2>2, <2>4, AheadUncut
  <2>6. failed' = failed
    BY <1>2 DEF GoesOn
  <2> QED BY <1>0, <2>4, <2>5, <2>6, InterruptedKeeps
<1>3. ASSUME NEW t \in Threads, Found(t) \/ NotFound(t) PROVE EachPlaceCutByOne'
  <2>1. /\ t \in Busy /\ lookup'[t] = NoLookup
        /\ \A u \in Threads : u # t => lookup'[u] = lookup[u]
    BY <1>0, <1>3 DEF Found, NotFound, Busy, TypeOK
  <2>2. Busy' = Busy \ {t} /\ \A u \in Busy' : Held(u)' = Held(u)
    BY <2>1 DEF Busy, Held, NoLookup
  <2>3. CASE Found(t)
    <3>1. cut' = CutByOthers(t) /\ failed' = failed
      BY <1>0, <2>1, <2>3, RestoredLeaves DEF Found
    <3> QED BY <1>0, <2>2, <3>1 DEF EachPlaceCutByOne, CutByOthers
  <2>4. CASE NotFound(t)
    <3>1. cut' = cut /\ failed' = failed \cup {Held(t)}
      BY <2>4 DEF NotFound, Held
    <3>2. \A u \in Busy' : Held(u) # Held(t)
      BY <1>0, <2>1, <2>2 DEF EachPlaceCutByOne
    <3> QED BY <1>0, <2>1, <2>2, <3>1, <3>2 DEF EachPlaceCutByOne
  <2> QED BY <1>3, <2>3, <2>4
<1>4. CASE UNCHANGED nameVars
  <2>1. Busy' = Busy /\ \A t \in Busy : Held(t)' = Held(t)
    BY <1>4 DEF nameVars, Busy, Held, NoLookup
  <2> QED BY <1>0, <1>4, <2>1 DEF nameVars, EachPlaceCutByOne
<1>5. CASE \/ Mappings \/ Reset \/ SetUseArrayCollection \/ UNCHANGED vars
           \/ \E s \in DOMAIN sets, a \in AsNames, c \in Classes : Map(s, a, c)
           \/ \E m \in Mappers : NewMapper(m)
           \/ \E c \in Volatile, getters \in SUBSET Getters : Redefine(c, getters)
           \/ \E m \in Mappers, c \in Volatile : PropsForSerialization(m, c)
  BY <1>4, <1>5 DEF Mappings, Map, Reset, SetUseArrayCollection, NewMapper, Redefine,
                    PropsForSerialization, vars
<1> QED BY <1>1, <1>2, <1>3, <1>5 DEF Next

-----------------------------------------------------------------------------
\* Every step keeps the caches of properties of their time.
LEMMA PropsStep == MapperInv /\ [Next]_vars => PropsOfItsTime' /\ MethodsSeen'
<1> SUFFICES ASSUME MapperInv, [Next]_vars PROVE PropsOfItsTime' /\ MethodsSeen'
  OBVIOUS
<1>0. /\ PropsOfItsTime /\ MethodsSeen
      /\ mapper \in [Mappers -> Mapper \cup {None}]
      /\ methods \in [Classes -> SUBSET Getters]
      /\ seen \in [Mappers -> [Classes -> SUBSET SUBSET Getters]]
      /\ Volatile \subseteq Classes
  BY MapperAssumption DEF MapperInv, TypeOK, MapperAssumption
<1>1. ASSUME NEW m \in Mappers, NewMapper(m) PROVE PropsOfItsTime' /\ MethodsSeen'
  <2>1. /\ mapper'[m].props = EmptyCache(m)
        /\ seen'[m] = [c \in Classes |-> {methods[c]}]
        /\ \A k \in Mappers : k # m => mapper'[k] = mapper[k] /\ seen'[k] = seen[k]
        /\ methods' = methods
    BY <1>0, <1>1 DEF NewMapper
  <2>2. \A c \in Classes : mapper'[m].props[c] = None /\ seen'[m][c] = {methods[c]}
    BY <2>1 DEF EmptyCache
  <2> QED BY <1>0, <2>1, <2>2 DEF PropsOfItsTime, MethodsSeen
<1>2. ASSUME NEW c \in Volatile, NEW getters \in SUBSET Getters, Redefine(c, getters)
      PROVE  PropsOfItsTime' /\ MethodsSeen'
  <2>1. /\ mapper' = mapper
        /\ methods'[c] = getters /\ \A d \in Classes : d # c => methods'[d] = methods[d]
    BY <1>0, <1>2 DEF Redefine
  <2>2. \A m \in Mappers : seen'[m] = [seen[m] EXCEPT ![c] = seen[m][c] \cup {getters}]
    BY <1>0, <1>2 DEF Redefine
  <2>3. \A m \in Mappers : seen'[m][c] = seen[m][c] \cup {getters}
    BY <1>0, <2>2
  <2>4. \A m \in Mappers, d \in Classes : d # c => seen'[m][d] = seen[m][d]
    BY <1>0, <2>2
  <2> QED BY <1>0, <2>1, <2>3, <2>4 DEF PropsOfItsTime, MethodsSeen
<1>3. ASSUME NEW m \in Mappers, NEW c \in Volatile, PropsForSerialization(m, c)
      PROVE  PropsOfItsTime' /\ MethodsSeen'
  <2>1. /\ mapper[m] # None /\ mapper[m] \in Mapper
        /\ mapper' = [mapper EXCEPT ![m] = [mapper[m] EXCEPT !.props[c] = Props(m, c)]]
        /\ methods' = methods /\ seen' = seen
    BY <1>0, <1>3 DEF PropsForSerialization, propVars
  <2>2. mapper'[m].props = [mapper[m].props EXCEPT ![c] = Props(m, c)]
    BY <1>0, <2>1 DEF Mapper
  <2>3. mapper[m].props \in [Classes -> (SUBSET Getters) \cup {None}]
    BY <2>1 DEF Mapper
  <2>4. Props(m, c) \in seen[m][c] \cup {None}
    BY <1>0, <2>1 DEF Props, PropsOfItsTime, MethodsSeen
  <2>5. \A d \in Classes : mapper'[m].props[d] \in seen'[m][d] \cup {None}
    BY <1>0, <2>1, <2>2, <2>3, <2>4 DEF PropsOfItsTime
  <2>6. \A k \in Mappers : k # m => mapper'[k] = mapper[k]
    BY <1>0, <2>1
  <2> QED BY <1>0, <2>1, <2>5, <2>6 DEF PropsOfItsTime, MethodsSeen
<1>4. CASE mapper' = mapper /\ UNCHANGED propVars
  BY <1>0, <1>4 DEF propVars, PropsOfItsTime, MethodsSeen
<1>5. CASE \/ Mappings \/ Reset \/ SetUseArrayCollection \/ UNCHANGED vars
           \/ \E s \in DOMAIN sets, a \in AsNames, c \in Classes : Map(s, a, c)
           \/ \E t \in Threads, m \in Mappers, a \in AsNames : Begin(t, m, a)
           \/ \E t \in Threads : GoesOn(t) \/ Found(t) \/ NotFound(t)
  BY <1>4, <1>5 DEF Mappings, Reset, SetUseArrayCollection, Map, Begin, GoesOn, Found, NotFound,
                    vars
<1> QED BY <1>1, <1>2, <1>3, <1>5 DEF Next

-----------------------------------------------------------------------------
\* MapperInv is inductive.
LEMMA MapperStep == MapperInv /\ [Next]_vars => MapperInv'
BY TypeStep, SetsStep, TablesStep, CutStep, PropsStep DEF MapperInv

THEOREM MapperInvariant == Spec => []MapperInv
BY MapperInit, MapperStep, PTL DEF Spec

\* The variables of the class mapper have their types.
THEOREM MapperTypes == Spec => []TypeOK
<1>1. MapperInv => TypeOK
  BY DEF MapperInv
<1> QED BY <1>1, MapperInvariant, PTL

\* Two lookups never have cut the same "::" of a name, and every "::" that is
\* cut is that of a lookup under way, or one where a lookup has raised.
THEOREM EachPlaceHasOneCutter == Spec => []EachPlaceCutByOne
<1>1. MapperInv => EachPlaceCutByOne
  BY DEF MapperInv
<1> QED BY <1>1, MapperInvariant, PTL

\* A mapper never writes properties of before it was made.
THEOREM CachesOfTheirTime == Spec => []PropsOfItsTime
<1>1. MapperInv => PropsOfItsTime
  BY DEF MapperInv
<1> QED BY <1>1, MapperInvariant, PTL

\* get_ruby_obj makes the class that was mapped last, unless the very string of
\* its name is spoilt.
THEOREM MappedClassesMade == Spec => []MadeAsMapped
<1>1. MapperInv => MadeAsMapped
  <2> SUFFICES ASSUME MapperInv, NEW m \in Mappers, NEW a \in AsNames, mapper[m] # None
               PROVE  \/ CallsFor(m, a) = {} /\ RubyObj(m, a).of = "TypedHash"
                      \/ \E i \in DOMAIN calls :
                           /\ IsLast(i, CallsFor(m, a))
                           /\ \/ Spoilt(i)
                              \/ RubyObj(m, a) = [of |-> "class", name |-> calls[i].rb]
    BY DEF MadeAsMapped
  <2> DEFINE i == StringOf(m, a)
  <2>1. /\ i \in Nat
        /\ i # 0 => Concerns(i, mapper[m].set, a)
        /\ \A j \in DOMAIN calls : Concerns(j, mapper[m].set, a) => j <= i
    BY StringFound
  <2>2. \A j : j \in CallsFor(m, a) <=> Concerns(j, mapper[m].set, a)
    BY DEF CallsFor, Concerns
  <2>3. DOMAIN calls \subseteq Nat \ {0}
    <3>1. calls \in Seq([set : Nat \ {0}, as : AsNames, rb : Classes])
      BY DEF MapperInv, TypeOK
    <3> QED BY <3>1
  <2> HIDE DEF i
  <2>4. CASE i = 0
    <3>1. \A j : j \notin CallsFor(m, a)
      BY <2>1, <2>2, <2>3, <2>4 DEF Concerns
    <3> QED BY <2>4, <3>1 DEF RubyObj, i
  <2>5. CASE i # 0
    <3>1. i \in DOMAIN calls /\ IsLast(i, CallsFor(m, a))
      BY <2>1, <2>2, <2>5 DEF IsLast, Concerns
    <3>2. CASE \E p \in cut : p[1] = i
      BY <3>1, <3>2 DEF MapperInv, EachPlaceCutByOne, Spoilt, Busy, Held
    <3>3. CASE ~\E p \in cut : p[1] = i
      BY <2>5, <3>1, <3>3 DEF RubyObj, i
    <3> QED BY <3>2, <3>3
  <2> QED BY <2>4, <2>5
<1> QED BY <1>1, MapperInvariant, PTL

\* Objects are written under the name that their class was mapped to last.
THEOREM MappedNamesWritten == Spec => []WrittenAsMapped
<1>1. MapperInv => WrittenAsMapped
  <2> SUFFICES ASSUME MapperInv, NEW m \in Mappers, NEW c \in Classes, mapper[m] # None
               PROVE  \/ CallsOf(m, c) = {} /\ sets[mapper[m].set].rb[c] = None
                      \/ \E i \in DOMAIN calls :
                           IsLast(i, CallsOf(m, c)) /\ sets[mapper[m].set].rb[c] = calls[i].as
    BY DEF WrittenAsMapped, AsClassName
  <2>1. RbFollows(mapper[m].set, c)
    BY DEF MapperInv, SetsKnown, TablesFollow
  <2>2. \A j : j \in CallsOf(m, c) <=> ConcernsRb(j, mapper[m].set, c)
    BY DEF CallsOf, ConcernsRb
  <2>3. CASE /\ sets[mapper[m].set].rb[c] = None
             /\ \A i \in DOMAIN calls : ~ConcernsRb(i, mapper[m].set, c)
    BY <2>2, <2>3 DEF ConcernsRb
  <2>4. CASE \E i \in DOMAIN calls :
               /\ ConcernsRb(i, mapper[m].set, c) /\ calls[i].as = sets[mapper[m].set].rb[c]
               /\ \A j \in DOMAIN calls : ConcernsRb(j, mapper[m].set, c) => j <= i
    <3>1. PICK i \in DOMAIN calls :
               /\ ConcernsRb(i, mapper[m].set, c) /\ calls[i].as = sets[mapper[m].set].rb[c]
               /\ \A j \in DOMAIN calls : ConcernsRb(j, mapper[m].set, c) => j <= i
      BY <2>4
    <3>2. IsLast(i, CallsOf(m, c))
      BY <2>2, <3>1 DEF IsLast, ConcernsRb
    <3> QED BY <3>1, <3>2
  <2> QED BY <2>1, <2>3, <2>4 DEF RbFollows
<1> QED BY <1>1, MapperInvariant, PTL
=============================================================================
