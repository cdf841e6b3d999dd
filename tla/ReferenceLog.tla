---------------------------- MODULE ReferenceLog ----------------------------
(***************************************************************************)
(* What a serializer promises about references, whatever the format and    *)
(* the bookkeeping: a message is a sequence of objects, each written out   *)
(* or referred to; a reader that sees this message alone and counts the    *)
(* objects written out can resolve every reference, to the object that was *)
(* meant.                                                                  *)
(***************************************************************************)
EXTENDS Integers, Sequences, FiniteSets

CONSTANTS Obj, Message

VARIABLE log  \* what has been written, message after message

\* The positions in the log at which message m writes an object out.
Inlines(m) == {i \in DOMAIN log : log[i].msg = m /\ log[i].inline}

LogInit == log = <<>>

WriteOut(m, o) ==
  log' = Append(log, [msg |-> m, obj |-> o, index |-> Cardinality(Inlines(m)),
                      inline |-> TRUE])

Refer(m, o) ==
  \E i \in Inlines(m) :
    /\ log[i].obj = o
    /\ log' = Append(log, [log[i] EXCEPT !.inline = FALSE])

LogNext == \E m \in Message, o \in Obj : WriteOut(m, o) \/ Refer(m, o)

LogSpec == LogInit /\ [][LogNext]_log
=============================================================================
