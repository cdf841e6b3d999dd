----------------------------- MODULE AmfInteger -----------------------------
(***************************************************************************)
(* The variable length integers of AMF3: ser_write_int and des_read_int of *)
(* the C extension, pack_integer and amf3_read_integer of the Ruby code.   *)
(* They carry numbers (with a sign), and lengths, indexes and flags (the   *)
(* header of a string, array or object: shifted left over a low 1 for      *)
(* something that follows, 0 for a reference).  Also the 32 bit words of a *)
(* Vector.<int>.                                                           *)
(*                                                                         *)
(* A byte has 7 bits for the number and one that tells whether more bytes  *)
(* follow; the fourth and last gives all 8.  Group is 2^7; everything else *)
(* follows from it, so that small values of Group allow every integer to   *)
(* be tried.                                                               *)
(***************************************************************************)
EXTENDS Integers, Sequences

CONSTANTS
  Group,    \* how many values the number part of a byte has, 128
  Numbers,  \* the integers to serialize
  Lengths,  \* the lengths of strings or arrays to serialize
  Words,    \* the 32 bit words of vectors that clients send
  Native    \* TRUE: the C extension, FALSE: pure Ruby

ASSUME IntegerAssumption ==
  /\ Group \in Nat \ {0, 1}
  /\ Numbers \subseteq Int /\ Lengths \subseteq Nat /\ Words \subseteq Nat
  /\ Native \in BOOLEAN

Modulus == 2 * (Group * Group * Group * Group)  \* 2^29
MAX_INTEGER == Modulus \div 2 - 1
MIN_INTEGER == -(Modulus \div 2)
Word == 8 * Modulus                             \* 2^32

VARIABLES
  input,   \* what is to be written: [kind, n]
  bytes,   \* what has been written
  pos,     \* index of the next byte to read
  result,  \* the reader's result
  stat     \* "write", "read", "double" or "done"

vars == <<input, bytes, pos, result, stat>>

Inputs == [kind : {"number"}, n : Numbers] \cup [kind : {"length"}, n : Lengths]
          \cup [kind : {"word"}, n : Words]

Init ==
  /\ input \in Inputs
  /\ bytes = <<>> /\ pos = 1 /\ result = 0 /\ stat = "write"

-----------------------------------------------------------------------------
\* "num &= 0x1fffffff" comes first, so that nothing is ever out of range.
UnmaskedNumber(x) == x
Masked(x) == x % Modulus

\* A byte after which others follow: with the low end of u.
More(u) == Group + (u % Group)

\* ser_write_int and pack_integer.
Pack(x) ==
  LET u == Masked(x)
  IN  IF u < Group THEN <<u>>
      ELSE IF u < Group * Group THEN <<More(u \div Group), u % Group>>
      ELSE IF u < Group * Group * Group
      THEN <<More(u \div (Group * Group)), More(u \div Group), u % Group>>
      ELSE <<More(u \div (2 * Group * Group * Group)), More(u \div (2 * Group * Group)),
             More(u \div (2 * Group)), u % (2 * Group)>>

InRange(n) == n \in MIN_INTEGER .. MAX_INTEGER

\* ser3_write_numeric: integers that do not fit are written as doubles, which
\* keep 53 bits of them.
WriteNumeric ==
  /\ stat = "write" /\ input.kind = "number"
  /\ IF InRange(input.n)
     THEN bytes' = Pack(input.n) /\ stat' = "read"
     ELSE stat' = "double" /\ UNCHANGED bytes
  /\ UNCHANGED <<input, pos, result>>

HeaderOf(len) == 2 * len + 1
LengthIn(header) == header \div 2
WriteHeader ==
  /\ stat = "write" /\ input.kind = "length"
  /\ bytes' = Pack(HeaderOf(input.n)) /\ stat' = "read"
  /\ UNCHANGED <<input, pos, result>>

\* Does no byte follow this one, the i-th?
LastByFlag(byte, i) == byte < Group
Last(byte, i) == byte < Group \/ i = 4

\* How many values the last byte carries, when it is the i-th.
SevenBits(i) == Group
LastValues(i) == IF i = 4 THEN 2 * Group ELSE Group

\* The bit of 2^28 makes a number negative; only a fourth byte reaches it.
SignedNever(r) == r
Signed(r) == IF r > MAX_INTEGER THEN r - Modulus ELSE r

\* The loop of des_read_int and amf3_read_integer.
ReadMore ==
  /\ stat = "read" /\ pos <= Len(bytes) /\ ~Last(bytes[pos], pos)
  /\ result' = result * Group + (bytes[pos] % Group)
  /\ pos' = pos + 1
  /\ UNCHANGED <<input, bytes, stat>>

ReadLast ==
  /\ stat = "read" /\ pos <= Len(bytes) /\ Last(bytes[pos], pos)
  /\ LET v == LastValues(pos)
     IN  result' = Signed(result * v + (bytes[pos] % v))
  /\ pos' = pos + 1
  /\ stat' = "done"
  /\ UNCHANGED <<input, bytes>>

\* des3_read_vec keeps 32 bits as they are; amf3_read_vector subtracts 2^32
\* from what is greater than MAX_INTEGER.
FromWordUnsigned(w) == w
FromWord(w) ==
  IF Native THEN IF w < Word \div 2 THEN w ELSE w - Word
  ELSE IF w > MAX_INTEGER THEN w - Word ELSE w

ReadVectorInt ==
  /\ stat = "write" /\ input.kind = "word"
  /\ result' = FromWord(input.n) /\ stat' = "done"
  /\ UNCHANGED <<input, bytes, pos>>

Next == WriteNumeric \/ WriteHeader \/ ReadMore \/ ReadLast \/ ReadVectorInt

Spec == Init /\ [][Next]_vars
FairSpec == Spec /\ WF_vars(Next)

-----------------------------------------------------------------------------
\* Every variable has its type.
TypeOK ==
  /\ input \in Inputs
  /\ bytes \in Seq(0 .. 2 * Group - 1) /\ pos \in 1 .. 5
  /\ result \in Int
  /\ stat \in {"write", "read", "double", "done"}

\* What ser_write_int writes of a number, des_read_int reads back as it was,
\* whatever its size and sign, and it stops after the last of its bytes.
NumbersKept ==
  input.kind = "number" /\ stat = "done" => result = input.n /\ pos = Len(bytes) + 1

\* A length is read back as it was, as long as its header is not taken for a
\* negative number.
LengthsKept ==
  input.kind = "length" /\ input.n < Modulus \div 4 /\ stat = "done" =>
    LengthIn(result) = input.n

\* Both of them: integers and the headers in front of data are read back.
NumbersAndLengthsKept == NumbersKept /\ LengthsKept

\* The elements of a Vector.<int> are 32 bit integers in two's complement.
VectorsKept ==
  input.kind = "word" /\ stat = "done" =>
    result = IF input.n < Word \div 2 THEN input.n ELSE input.n - Word

\* Every integer is read to its end.
AllRead == <>(stat \in {"double", "done"})

-----------------------------------------------------------------------------
(***************************************************************************)
(* Statements the repository makes that the code does not keep; README.md  *)
(* gives the instances that refute them.                                   *)
(***************************************************************************)

\* A length that does not fit is refused instead of being written as another.
TooLongRefused ==
  input.kind = "length" /\ stat = "done" => LengthIn(result) = input.n
=============================================================================
