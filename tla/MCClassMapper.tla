--------------------------- MODULE MCClassMapper ---------------------------
(***************************************************************************)
(* An instance of ClassMapper: a name and a class of the application, and  *)
(* one of each that map_defaults maps, whose name is three deep like those *)
(* of all the defaults.                                                    *)
(***************************************************************************)
EXTENDS ClassMapper, TLC

CONSTANTS asApp, asMessage, app, message, m1, m2, t1, t2

MCDepth == (app :> 0) @@ (message :> 2)
MCDefaults == <<[as |-> asMessage, rb |-> message]>>
AnyOrder == Permutations(Mappers) \cup Permutations(Threads)
=============================================================================
