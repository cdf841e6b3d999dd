---------------------------- MODULE EnvelopeData ----------------------------
(***************************************************************************)
(* The data of the headers and messages of an Envelope: how they are       *)
(* written, what they stand for, and what becomes of them when an envelope *)
(* is sent on.  They are nested, and these operators recursive; Envelope   *)
(* takes them as constants.                                                *)
(***************************************************************************)
EXTENDS ExternalMessage

RECURSIVE WrittenData(_)
WrittenData(d) == Layout(d, WrittenData)

RECURSIVE MeantData(_)
MeantData(d) == Meaning(d, MeantData)

RECURSIVE PassedData(_, _)
PassedData(ver, v) == PassedOn(ver, v, PassedData)

RECURSIVE DataOf(_, _)
DataOf(ver, v) == Rewritten(ver, v, DataOf, PassedData)
=============================================================================
