---------------------------- MODULE ClassMapper ----------------------------
(***************************************************************************)
(* RocketAMF::Ext::FastClassMapping and its MappingSet                     *)
(* (ext/rocketamf_ext/class_mapping.c): the class, whose settings the      *)
(* application changes at any time, and mappers, which serializers and     *)
(* deserializers of several threads use meanwhile.                         *)
(*                                                                         *)
(* Every call of MappingSet#map hands over a new string with the name of a *)
(* Ruby class, and the table keeps that string itself.  get_ruby_obj cuts  *)
(* it in place, with a NUL, at one "::" after the other, while Ruby looks  *)
(* for the namespace before that "::".  That may load a file, let other    *)
(* threads run, and raise; or the namespace is there and nothing else      *)
(* happens before the "::" is restored.  Which of them it is depends on    *)
(* what the application has loaded and unloads, and is left open.          *)
(*                                                                         *)
(* A place in a string is the number of a "::" in it.  As in the other     *)
(* modules, an operator just before another one and named after it is that *)
(* operator with a slip in it.                                             *)
(***************************************************************************)
EXTENDS Integers, Sequences, FiniteSets

CONSTANTS
  AsNames,    \* names of ActionScript classes
  Classes,    \* names of Ruby classes
  Depth,      \* how many "::" the name of each Ruby class has
  Defaults,   \* the mappings that map_defaults makes: a sequence of [as, rb]
  Getters,    \* public methods without arguments
  Volatile,   \* the classes whose methods change; only of these objects are written
  Mappers,    \* the mappers in use at a time
  Threads,
  None,
  MaxSets,    \* bound: the MappingSets that are made
  MaxCalls,   \* bound: the calls of map, those of map_defaults included
  MaxRaised   \* bound: the places where lookups raise

ASSUME MapperAssumption ==
  /\ None \notin AsNames \cup Classes
  /\ Volatile \subseteq Classes
  /\ Depth \in [Classes -> Nat]
  /\ Defaults \in Seq([as : AsNames, rb : Classes])
  /\ \A i, j \in DOMAIN Defaults :
       i # j => Defaults[i].as # Defaults[j].as /\ Defaults[i].rb # Defaults[j].rb
  /\ MaxSets \in Nat /\ MaxCalls \in Nat /\ MaxRaised \in Nat

VARIABLES
  calls,     \* the calls of map; the number of a call also stands for its string
  sets,      \* the MappingSets: as_mappings and rb_mappings
  mappings,  \* @mappings of the class: the number of a set, or 0 for nil
  use_ac,    \* @use_array_collection of the class
  mapper,    \* the mappers: set, setting and prop_cache
  methods,   \* the getters of each class at present
  lookup,    \* the get_ruby_obj under way in each thread: string and place
  cut,       \* the places, <<string, "::">>, that hold a NUL at present
  failed,    \* history: the places where a lookup has raised
  seen       \* history: the getters each class had since a mapper was made

classVars == <<calls, sets, mappings, use_ac>>
nameVars == <<lookup, cut, failed>>
propVars == <<methods, seen>>
vars == <<classVars, mapper, nameVars, propVars>>

Set == [as : [AsNames -> Nat], rb : [Classes -> AsNames \cup {None}]]
Mapper == [set : Nat \ {0}, use_ac : BOOLEAN,
           props : [Classes -> (SUBSET Getters) \cup {None}]]
NoLookup == [str |-> 0, at |-> 0]

Init ==
  /\ calls = <<>> /\ sets = <<>> /\ mappings = 0 /\ use_ac = FALSE
  /\ mapper = [m \in Mappers |-> None]
  /\ methods = [c \in Classes |-> Getters]
  /\ lookup = [t \in Threads |-> NoLookup]
  /\ cut = {} /\ failed = {}
  /\ seen = [m \in Mappers |-> [c \in Classes |-> {}]]

-----------------------------------------------------------------------------
(***************************************************************************)
(* MappingSet.                                                             *)
(***************************************************************************)
\* map_defaults in a new set, whose number is s.
DefaultCalls(s) == [k \in DOMAIN Defaults |->
                      [set |-> s, as |-> Defaults[k].as, rb |-> Defaults[k].rb]]
DefaultAs(a) ==
  IF \E k \in DOMAIN Defaults : Defaults[k].as = a
  THEN Len(calls) + CHOOSE k \in DOMAIN Defaults : Defaults[k].as = a ELSE 0
DefaultRb(c) ==
  IF \E k \in DOMAIN Defaults : Defaults[k].rb = c
  THEN Defaults[CHOOSE k \in DOMAIN Defaults : Defaults[k].rb = c].as ELSE None

CurrentIfAny == mappings
\* "Return MappingSet for class mapper, creating if uninitialized": the number
\* of the set that mappings returns.
Current == IF mappings = 0 THEN Len(sets) + 1 ELSE mappings
MappingsCalled ==
  /\ mappings' = Current
  /\ \/ mappings # 0 /\ UNCHANGED <<calls, sets>>
     \/ /\ mappings = 0
        /\ Len(sets) < MaxSets /\ Len(calls) + Len(Defaults) <= MaxCalls
        /\ calls' = calls \o DefaultCalls(Len(sets) + 1)
        /\ sets' = Append(sets, [as |-> [a \in AsNames |-> DefaultAs(a)],
                                 rb |-> [c \in Classes |-> DefaultRb(c)]])

\* The application asks for the set, which define passes to its block.
Mappings ==
  /\ mappings = 0
  /\ MappingsCalled
  /\ UNCHANGED <<use_ac, mapper, nameVars, propVars>>

InsertedOnce(table, key, value) ==
  IF table[key] \in {0, None} THEN [table EXCEPT ![key] = value] ELSE table
\* st_insert
Inserted(table, key, value) == [table EXCEPT ![key] = value]

\* map, of any set that the application has got hold of.
Map(s, a, c) ==
  /\ Len(calls) < MaxCalls
  /\ calls' = Append(calls, [set |-> s, as |-> a, rb |-> c])
  /\ sets' = [sets EXCEPT ![s] = [as |-> Inserted(@.as, a, Len(calls) + 1),
                                  rb |-> Inserted(@.rb, c, a)]]
  /\ UNCHANGED <<mappings, use_ac, mapper, nameVars, propVars>>

Reset ==
  /\ mappings' = 0 /\ use_ac' = FALSE
  /\ UNCHANGED <<calls, sets, mapper, nameVars, propVars>>

SetUseArrayCollection ==
  /\ use_ac' \in BOOLEAN
  /\ UNCHANGED <<calls, sets, mappings, mapper, nameVars, propVars>>

-----------------------------------------------------------------------------
(***************************************************************************)
(* Mappers.                                                                *)
(***************************************************************************)
OldCache(m) == IF mapper[m] = None THEN [c \in Classes |-> None] ELSE mapper[m].props
EmptyCache(m) == [c \in Classes |-> None]

\* FastClassMapping.new, in place of a mapper that is not in use any more.
NewMapper(m) ==
  /\ MappingsCalled
  /\ mapper' = [mapper EXCEPT ![m] = [set |-> Current, use_ac |-> use_ac,
                                      props |-> EmptyCache(m)]]
  /\ seen' = [seen EXCEPT ![m] = [c \in Classes |-> {methods[c]}]]
  /\ UNCHANGED <<use_ac, nameVars, methods>>

\* A class gains or loses getters; or c was the class of one object, is
\* collected, and another such class comes to its address.
Redefine(c, getters) ==
  /\ methods' = [methods EXCEPT ![c] = getters]
  /\ seen' = [m \in Mappers |-> [seen[m] EXCEPT ![c] = @ \cup {getters}]]
  /\ UNCHANGED <<classVars, mapper, nameVars>>

\* props_for_serialization of an object of class c: the getters are looked for
\* once, and called each time; one that is gone raises.
Props(m, c) == IF mapper[m].props[c] = None THEN methods[c] ELSE mapper[m].props[c]
PropsForSerialization(m, c) ==
  /\ mapper[m] # None
  /\ mapper' = [mapper EXCEPT ![m].props[c] = Props(m, c)]
  /\ UNCHANGED <<classVars, nameVars, propVars>>

\* The string that get_ruby_obj finds under a.
StringOf(m, a) == sets[mapper[m].set].as[a]

\* The places of a string at which a lookup that is past the first `done` of
\* them may be interrupted next: those before it are found at once, and strstr
\* sees no "::" behind a NUL.
Ahead(str, done, cuts) ==
  {k \in 1 .. Depth[calls[str].rb] :
     k > done /\ \A j \in done + 1 .. k : <<str, j>> \notin cuts}

\* The lookup cuts its string at k, and Ruby has to load what is before it.
Interrupted(t, str, k, cuts) ==
  /\ lookup' = [lookup EXCEPT ![t] = [str |-> str, at |-> k]]
  /\ cut' = cuts \cup {<<str, k>>}

\* get_ruby_obj begins, and is interrupted in the loop. What is left of it does
\* not use the mapper.
Begin(t, m, a) ==
  /\ mapper[m] # None /\ lookup[t] = NoLookup /\ StringOf(m, a) # 0
  /\ \E k \in Ahead(StringOf(m, a), 0, cut) : Interrupted(t, StringOf(m, a), k, cut)
  /\ UNCHANGED <<classVars, mapper, propVars, failed>>

CutKept(t) == cut
\* endptr[0] = ':'
CutRestored(t) == cut \ {<<lookup[t].str, lookup[t].at>>}

\* The namespace is there; the lookup goes on and is interrupted further on.
GoesOn(t) ==
  /\ lookup[t] # NoLookup
  /\ \E k \in Ahead(lookup[t].str, lookup[t].at, CutRestored(t)) :
       Interrupted(t, lookup[t].str, k, CutRestored(t))
  /\ UNCHANGED <<classVars, mapper, propVars, failed>>

\* The namespace is there, and so are those that follow; the class may be,
\* which makes no difference here.
Found(t) ==
  /\ lookup[t] # NoLookup
  /\ cut' = CutRestored(t)
  /\ lookup' = [lookup EXCEPT ![t] = NoLookup]
  /\ UNCHANGED <<classVars, mapper, propVars, failed>>

\* rb_const_get raises NameError.
NotFound(t) ==
  /\ lookup[t] # NoLookup /\ Cardinality(failed) < MaxRaised
  /\ failed' = failed \cup {<<lookup[t].str, lookup[t].at>>}
  /\ lookup' = [lookup EXCEPT ![t] = NoLookup]
  /\ UNCHANGED <<classVars, mapper, propVars, cut>>

\* What a lookup of a in mapper m makes that is neither interrupted nor raises:
\* an object of the class, of the namespace where the string is cut (TypeError
\* if that is a module), or a TypedHash.
RubyObj(m, a) ==
  IF StringOf(m, a) = 0 THEN [of |-> "TypedHash", name |-> a]
  ELSE IF \E p \in cut : p[1] = StringOf(m, a) THEN [of |-> "namespace", name |-> None]
  ELSE [of |-> "class", name |-> calls[StringOf(m, a)].rb]

\* get_as_class_name: a TypedHash is looked up under its type, an object (or
\* a string) under the name of its class, any other hash not at all.
AsClassName(m, obj) ==
  IF obj.of \in {"TypedHash", "class"} /\ obj.name \in Classes
  THEN sets[mapper[m].set].rb[obj.name] ELSE None

\* populate_ruby_obj with one property, by the type of its key and whether the
\* object has a setter for it, or []=: what becomes of it.
Populated(obj, key, accepts) ==
  IF obj.of = "TypedHash" THEN "stored"
  ELSE IF key # "Symbol" THEN "raised"
  ELSE IF accepts THEN "stored" ELSE "dropped"

Next ==
  \/ Mappings
  \/ \E s \in DOMAIN sets, a \in AsNames, c \in Classes : Map(s, a, c)
  \/ Reset
  \/ SetUseArrayCollection
  \/ \E m \in Mappers : NewMapper(m)
  \/ \E c \in Volatile, getters \in SUBSET Getters : Redefine(c, getters)
  \/ \E m \in Mappers, c \in Volatile : PropsForSerialization(m, c)
  \/ \E t \in Threads, m \in Mappers, a \in AsNames : Begin(t, m, a)
  \/ \E t \in Threads : GoesOn(t) \/ Found(t) \/ NotFound(t)

Spec == Init /\ [][Next]_vars

-----------------------------------------------------------------------------
(***************************************************************************)
(* Properties.                                                             *)
(***************************************************************************)

\* Every variable has its type.
TypeOK ==
  /\ calls \in Seq([set : Nat \ {0}, as : AsNames, rb : Classes])
  /\ sets \in Seq(Set)
  /\ mappings \in 0 .. Len(sets) /\ use_ac \in BOOLEAN
  /\ mapper \in [Mappers -> Mapper \cup {None}]
  /\ methods \in [Classes -> SUBSET Getters]
  /\ lookup \in [Threads -> [str : 0 .. Len(calls), at : Nat]]
  /\ cut \subseteq (DOMAIN calls) \X Nat /\ failed \subseteq (DOMAIN calls) \X Nat
  /\ seen \in [Mappers -> [Classes -> SUBSET SUBSET Getters]]

\* The calls that concern a mapper and an ActionScript name, or a Ruby class.
CallsFor(m, a) == {i \in DOMAIN calls : calls[i].set = mapper[m].set /\ calls[i].as = a}
CallsOf(m, c) == {i \in DOMAIN calls : calls[i].set = mapper[m].set /\ calls[i].rb = c}
IsLast(i, S) == i \in S /\ \A j \in S : j <= i

\* A lookup of the string has raised, or is under way.
Spoilt(str) == (\E p \in failed : p[1] = str) \/ \E t \in Threads : lookup[t].str = str

Busy == {t \in Threads : lookup[t] # NoLookup}
Held(t) == <<lookup[t].str, lookup[t].at>>

\* What get_ruby_obj makes for a name is the class it was mapped to last in the
\* set the mapper was made with, whatever was defined or reset since; unless
\* a lookup of that very string has raised before or is under way elsewhere.
MadeAsMapped ==
  \A m \in Mappers, a \in AsNames :
    mapper[m] # None =>
      \/ CallsFor(m, a) = {} /\ RubyObj(m, a).of = "TypedHash"
      \/ \E i \in DOMAIN calls :
           /\ IsLast(i, CallsFor(m, a))
           /\ Spoilt(i) \/ RubyObj(m, a) = [of |-> "class", name |-> calls[i].rb]

\* An object of a mapped class is written under the name its class was mapped
\* to last, also if that name stands for another class by now.
WrittenAsMapped ==
  \A m \in Mappers, c \in Classes :
    mapper[m] # None =>
      LET name == AsClassName(m, [of |-> "class", name |-> c])
      IN  \/ CallsOf(m, c) = {} /\ name = None
          \/ \E i \in DOMAIN calls : IsLast(i, CallsOf(m, c)) /\ name = calls[i].as

\* Any number of lookups may have cut one string, at different places, each
\* after it was cut further on; but none of them restores a "::" that another
\* one has cut, and each restores its own: two never hold the same place, none
\* one where a lookup has raised, and there are no other NULs in the strings.
EachPlaceCutByOne ==
  /\ \A t, u \in Busy : t # u => Held(t) # Held(u)
  /\ \A t \in Busy : Held(t) \notin failed
  /\ cut = failed \cup {Held(t) : t \in Busy}

\* The properties that are written of an object are those its class had at
\* some time since the mapper was made, not those of an earlier mapper.
PropsOfItsTime ==
  \A m \in Mappers, c \in Classes :
    mapper[m] # None => mapper[m].props[c] \in seen[m][c] \cup {None}

-----------------------------------------------------------------------------
(***************************************************************************)
(* Statements the repository makes that the code does not keep; README.md  *)
(* gives the instances that refute them.                                   *)
(***************************************************************************)

\* get_ruby_obj instantiates the class that is mapped.
AlwaysMadeAsMapped ==
  \A m \in Mappers, a \in AsNames :
    mapper[m] # None => RubyObj(m, a).of # "namespace"

\* The C class mapper can fill what it made with the keys that both
\* deserializers have, which are strings.
PopulatedFromStream ==
  \A m \in Mappers, a \in AsNames :
    mapper[m] # None => Populated(RubyObj(m, a), "String", TRUE) # "raised"

\* An object of a class that is not mapped is written under the name it was
\* read with.
TypeKept ==
  \A m \in Mappers, a \in AsNames :
    mapper[m] # None /\ RubyObj(m, a).of = "TypedHash" => AsClassName(m, RubyObj(m, a)) = a

\* The properties of an object are those of its class.
PropsCurrent ==
  \A m \in Mappers, c \in Classes : mapper[m] # None => Props(m, c) = methods[c]
=============================================================================
