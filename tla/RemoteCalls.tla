---------------------------- MODULE RemoteCalls ----------------------------
(***************************************************************************)
(* What remoting promises: each call of a request is performed once, in    *)
(* the order of the request, and its caller is told of its own outcome,    *)
(* when there is one for every call; or the gateway gives up, and then     *)
(* nothing is promised.                                                    *)
(***************************************************************************)
EXTENDS Naturals, Sequences

CONSTANT Callers  \* the response URIs that calls give

VARIABLES
  asked,     \* the response URIs of the calls of the request
  performed, \* what came of the calls so far: [caller, outcome]
  told,      \* what the client got
  given_up

vars == <<asked, performed, told, given_up>>

Outcomes == {"result", "fault"}

Init == asked = <<>> /\ performed = <<>> /\ told = <<>> /\ given_up = FALSE

Ask(c) ==
  /\ performed = <<>> /\ told = <<>>
  /\ \A k \in DOMAIN asked : asked[k] # c
  /\ asked' = Append(asked, c)
  /\ UNCHANGED <<performed, told, given_up>>

Perform(o) ==
  /\ Len(performed) < Len(asked) /\ told = <<>>
  /\ performed' = Append(performed, [caller |-> asked[Len(performed) + 1], outcome |-> o])
  /\ UNCHANGED <<asked, told, given_up>>

Tell ==
  /\ Len(performed) = Len(asked) /\ told = <<>>
  /\ told' = performed
  /\ UNCHANGED <<asked, performed, given_up>>

\* What is asked and told stays as it is when the gateway gives up.
GiveUp == ~given_up /\ given_up' /\ UNCHANGED <<asked, performed, told>>

\* The same request answered anew, by a gateway that had given up.
Anything == given_up /\ UNCHANGED <<asked, given_up>>

Next ==
  \/ (\E c \in Callers : Ask(c)) \/ (\E o \in Outcomes : Perform(o)) \/ Tell
  \/ GiveUp \/ Anything

Spec == Init /\ [][Next]_vars
=============================================================================
