-------------------------- MODULE AmfIntegerProofs --------------------------
(***************************************************************************)
(* Every integer and every length that fits is read back as it was         *)
(* written, for any size of Group, and so for bytes with 7 bits: the       *)
(* inductive invariant says which prefix of the number has been read at    *)
(* each byte of the four forms it can have.                                *)
(***************************************************************************)
EXTENDS AmfInteger, TLAPS

\* What division with remainder gives.
LEMMA Division ==
  ASSUME NEW x \in Int, NEW a \in Nat \ {0}
  PROVE  /\ x \div a \in Int /\ x % a \in 0 .. a - 1
         /\ x = (x \div a) * a + (x % a)
BY SMT

\* A number is divided in one way only.
LEMMA QuotientUnique ==
  ASSUME NEW x \in Int, NEW a \in Nat \ {0}, NEW q \in Int, NEW r \in 0 .. a - 1,
         x = q * a + r
  PROVE  x \div a = q /\ x % a = r
BY SMT

\* A number below a * b has a quotient below b.
LEMMA QuotientBelow ==
  ASSUME NEW x \in Nat, NEW a \in Nat \ {0}, NEW b \in Nat, x < a * b
  PROVE  x \div a \in 0 .. b - 1
BY SMT

\* Digits can be regrouped.
LEMMA Regroup ==
  ASSUME NEW a \in Int, NEW g \in Int, NEW s \in Int, NEW t \in Int, NEW r \in Int
  PROVE  (s * g + t) * a + r = s * (a * g) + (t * a + r)
BY SMT

\* A prefix of a number in base g, and the digit that follows it.
LEMMA NextDigit ==
  ASSUME NEW x \in Nat, NEW a \in Nat \ {0}, NEW g \in Nat \ {0}
  PROVE  (x \div (a * g)) * g + ((x \div a) % g) = x \div a
<1>1. PICK q \in Int, r \in 0 .. a - 1 : q = x \div a /\ x = q * a + r
  BY Division
<1>2. PICK s \in Int, t \in 0 .. g - 1 : s = q \div g /\ t = q % g /\ q = s * g + t
  BY Division
<1>3. a * g \in Nat \ {0}
  BY SMT
<1>4. t * a + r \in 0 .. a * g - 1
  <2>1. t * a <= (g - 1) * a /\ t * a >= 0
    BY SMT
  <2> QED BY <2>1, SMT
<1>5. x = s * (a * g) + (t * a + r)
  <2>1. r \in Int /\ t \in Int /\ a \in Int /\ g \in Int
    BY SMT
  <2>2. (s * g + t) * a + r = s * (a * g) + (t * a + r)
    BY <2>1, Regroup
  <2> QED BY <1>1, <1>2, <2>2, Zenon
<1>6. x \div (a * g) = s
  BY <1>3, <1>4, <1>5, QuotientUnique
<1> QED BY <1>1, <1>2, <1>6

\* The flag of a byte leaves its number part alone.
LEMMA Flag ==
  ASSUME NEW x \in Int, NEW g \in Nat \ {0}
  PROVE  /\ g + (x % g) \in Int
         /\ ~(g + (x % g) < g)
         /\ (g + (x % g)) % g = x % g
BY SMT

-----------------------------------------------------------------------------
\* The masked number that the bytes of the input stand for.
Sent == Masked(IF input.kind = "number" THEN input.n ELSE HeaderOf(input.n))

\* Reading so far: the leading bytes of each of the four forms.
Reading(u) ==
  \/ /\ u < Group /\ bytes = <<u>>
     /\ pos = 1 /\ result = 0
  \/ /\ u >= Group /\ u < Group * Group
     /\ bytes = <<More(u \div Group), u % Group>>
     /\ \/ pos = 1 /\ result = 0
        \/ pos = 2 /\ result = u \div Group
  \/ /\ u >= Group * Group /\ u < Group * Group * Group
     /\ bytes = <<More(u \div (Group * Group)), More(u \div Group), u % Group>>
     /\ \/ pos = 1 /\ result = 0
        \/ pos = 2 /\ result = u \div (Group * Group)
        \/ pos = 3 /\ result = u \div Group
  \/ /\ u >= Group * Group * Group
     /\ bytes = <<More(u \div (2 * Group * Group * Group)), More(u \div (2 * Group * Group)),
                  More(u \div (2 * Group)), u % (2 * Group)>>
     /\ \/ pos = 1 /\ result = 0
        \/ pos = 2 /\ result = u \div (2 * Group * Group * Group)
        \/ pos = 3 /\ result = u \div (2 * Group * Group)
        \/ pos = 4 /\ result = u \div (2 * Group)

\* A number is sent only if it fits; its bytes are those of its masked form.
ReadingOn ==
  stat = "read" =>
    /\ input.kind \in {"number", "length"}
    /\ input.kind = "number" => InRange(input.n)
    /\ Reading(Sent)

IntegerInv ==
  /\ input \in Inputs
  /\ stat = "write" => pos = 1 /\ result = 0
  /\ ReadingOn
  /\ NumbersKept
  /\ LengthsKept

\* "num &= 0x1fffffff": two's complement in 29 bits.
LEMMA MaskedRange ==
  ASSUME NEW x \in Int
  PROVE  /\ Modulus \in Nat \ {0} /\ Modulus = 2 * (Modulus \div 2)
         /\ Masked(x) \in 0 .. Modulus - 1
         /\ x \in 0 .. Modulus - 1 => Masked(x) = x
         /\ x \in -Modulus .. -1 => Masked(x) = x + Modulus
<1>1. Group * Group * Group * Group \in Nat \ {0}
  <2>1. Group \in Nat /\ Group > 0
    BY IntegerAssumption
  <2>2. \A i, j \in Nat : i > 0 /\ j > 0 => i * j \in Nat /\ i * j > 0
    BY SMT
  <2>3. Group * Group \in Nat /\ Group * Group > 0
    BY <2>1, <2>2
  <2>4. Group * Group * Group \in Nat /\ Group * Group * Group > 0
    BY <2>1, <2>2, <2>3
  <2>5. Group * Group * Group * Group \in Nat /\ Group * Group * Group * Group > 0
    BY <2>1, <2>2, <2>4
  <2> QED BY <2>5
<1>2. PICK h \in Nat \ {0} : h = Group * Group * Group * Group
  BY <1>1
<1>3. Modulus = 2 * h
  BY <1>2 DEF Modulus
<1>4. Modulus \in Nat \ {0} /\ Modulus = 2 * (Modulus \div 2)
  BY <1>3, SMT
<1>5. x % Modulus \in 0 .. Modulus - 1
  BY <1>4, Division
<1>6. ASSUME x \in 0 .. Modulus - 1 PROVE x % Modulus = x
  <2>1. 0 \in Int /\ x = 0 * Modulus + x
    BY <1>4, SMT
  <2> QED BY <1>4, <1>6, <2>1, QuotientUnique
<1>7. ASSUME x \in -Modulus .. -1 PROVE x % Modulus = x + Modulus
  <2>1. -1 \in Int /\ x + Modulus \in 0 .. Modulus - 1 /\ x = (-1) * Modulus + (x + Modulus)
    BY <1>4, <1>7, SMT
  <2> QED BY <1>4, <2>1, QuotientUnique
<1> QED BY <1>4, <1>5, <1>6, <1>7 DEF Masked

\* The sizes by which ser_write_int shifts.
LEMMA Powers ==
  /\ Group \in Nat \ {0, 1}
  /\ 2 * Group \in Nat \ {0}
  /\ 2 * Group * Group \in Nat \ {0}
  /\ 2 * Group * Group * Group \in Nat \ {0}
  /\ Modulus = 2 * Group * Group * Group * Group
<1>1. Group \in Nat /\ Group > 0 /\ Group \in Nat \ {0, 1}
  BY IntegerAssumption
<1>2. \A i, j \in Nat : i > 0 /\ j > 0 => i * j \in Nat /\ i * j > 0
  BY SMT
<1>3. 2 * Group \in Nat /\ 2 * Group > 0
  BY <1>1
<1>4. 2 * Group * Group \in Nat /\ 2 * Group * Group > 0
  BY <1>1, <1>2, <1>3
<1>5. 2 * Group * Group * Group \in Nat /\ 2 * Group * Group * Group > 0
  BY <1>1, <1>2, <1>4
<1>6. Modulus = 2 * Group * Group * Group * Group
  BY <1>1, SMT DEF Modulus
<1> QED BY <1>1, <1>3, <1>4, <1>5, <1>6

\* The last digit of a number after the prefix in front of it.
LEMMA LastDigit ==
  ASSUME NEW x \in Int, NEW a \in Nat \ {0}
  PROVE  (x \div a) * a + ((x % a) % a) = x
<1>1. PICK r \in 0 .. a - 1 : r = x % a /\ x = (x \div a) * a + r
  BY Division
<1>2. r % a = r
  <2>1. r \in Int /\ 0 \in Int /\ r = 0 * a + r
    BY SMT
  <2> QED BY <2>1, QuotientUnique
<1> QED BY <1>1, <1>2

\* The first digit, after an empty prefix.
LEMMA FirstDigit ==
  ASSUME NEW x \in 0 .. Group - 1
  PROVE  0 * Group + (x % Group) = x
<1>1. x \in Int /\ 0 \in Int /\ x = 0 * Group + x
  BY Powers, SMT
<1>2. x % Group = x
  BY <1>1, Powers, QuotientUnique
<1> QED BY <1>1, <1>2

\* A byte that others follow never ends the loop of the reader.
LEMMA MoreFlag ==
  ASSUME NEW x \in Int
  PROVE  More(x) \in Int /\ ~(More(x) < Group) /\ More(x) % Group = x % Group
BY Powers, Flag DEF More

\* The four forms, read to their ends, give the number they stand for.
LEMMA LastGivesAll ==
  ASSUME NEW u \in 0 .. Modulus - 1, Reading(u),
         pos <= Len(bytes), Last(bytes[pos], pos)
  PROVE  /\ result * LastValues(pos) + (bytes[pos] % LastValues(pos)) = u
         /\ pos = Len(bytes)
<1> u \in Int
  OBVIOUS
<1> DEFINE G == Group
<1>1. CASE u < G /\ bytes = <<u>> /\ pos = 1 /\ result = 0
  <2>1. u \in 0 .. Group - 1
    BY <1>1, Powers
  <2> QED BY <1>1, <2>1, FirstDigit DEF LastValues
<1>2. CASE /\ bytes = <<More(u \div G), u % G>>
           /\ \/ pos = 1 /\ result = 0
              \/ pos = 2 /\ result = u \div G
  <2>1. ~(More(u \div G) < Group)
    BY Powers, Division, MoreFlag
  <2>2. pos = 2 /\ result = u \div G /\ bytes[2] = u % G /\ Len(bytes) = 2
    BY <1>2, <2>1 DEF Last
  <2>9. (u \div G) * G + ((u % G) % G) = u
    BY Powers, LastDigit
  <2> QED BY <2>2, <2>9 DEF LastValues
<1>3. CASE /\ bytes = <<More(u \div (G * G)), More(u \div G), u % G>>
           /\ \/ pos = 1 /\ result = 0
              \/ pos = 2 /\ result = u \div (G * G)
              \/ pos = 3 /\ result = u \div G
  <2>1. G * G \in Nat \ {0}
    BY Powers, SMT
  <2>2. ~(More(u \div (G * G)) < Group) /\ ~(More(u \div G) < Group)
    BY <2>1, Powers, Division, MoreFlag
  <2>3. pos = 3 /\ result = u \div G /\ bytes[3] = u % G /\ Len(bytes) = 3
    BY <1>3, <2>2 DEF Last
  <2>9. (u \div G) * G + ((u % G) % G) = u
    BY Powers, LastDigit
  <2> QED BY <2>3, <2>9 DEF LastValues
<1>4. CASE /\ bytes = <<More(u \div (2 * G * G * G)), More(u \div (2 * G * G)),
                        More(u \div (2 * G)), u % (2 * G)>>
           /\ \/ pos = 1 /\ result = 0
              \/ pos = 2 /\ result = u \div (2 * G * G * G)
              \/ pos = 3 /\ result = u \div (2 * G * G)
              \/ pos = 4 /\ result = u \div (2 * G)
  <2>1. /\ ~(More(u \div (2 * G * G * G)) < Group)
        /\ ~(More(u \div (2 * G * G)) < Group)
        /\ ~(More(u \div (2 * G)) < Group)
    BY Powers, Division, MoreFlag
  <2>2. pos = 4 /\ result = u \div (2 * G) /\ bytes[4] = u % (2 * G) /\ Len(bytes) = 4
    BY <1>4, <2>1 DEF Last
  <2> QED BY <2>2, Powers, LastDigit DEF LastValues
<1> QED BY <1>1, <1>2, <1>3, <1>4 DEF Reading

\* Another byte of any of the four forms leads to the next prefix of it.
LEMMA MoreGivesPrefix ==
  ASSUME NEW u \in 0 .. Modulus - 1, Reading(u),
         pos <= Len(bytes), ~Last(bytes[pos], pos),
         result' = result * Group + (bytes[pos] % Group),
         pos' = pos + 1, bytes' = bytes
  PROVE  Reading(u)'
<1> u \in Int /\ u \in Nat
  OBVIOUS
<1> DEFINE G == Group
<1>1. CASE u < G /\ bytes = <<u>> /\ pos = 1 /\ result = 0
  BY <1>1 DEF Last
<1>2. CASE /\ u >= G /\ u < G * G
           /\ bytes = <<More(u \div G), u % G>>
           /\ \/ pos = 1 /\ result = 0
              \/ pos = 2 /\ result = u \div G
  <2>1. pos = 1 /\ result = 0 /\ bytes[1] = More(u \div G)
    <3>1. u % G \in 0 .. G - 1
      BY Powers, Division
    <3> QED BY <1>2, <3>1, Powers DEF Last
  <2>2. u \div G \in 0 .. Group - 1
    BY <1>2, Powers, QuotientBelow
  <2>3. result' = u \div G
    BY <2>1, <2>2, MoreFlag, FirstDigit
  <2> QED BY <1>2, <2>1, <2>3 DEF Reading
<1>3. CASE /\ u >= G * G /\ u < G * G * G
           /\ bytes = <<More(u \div (G * G)), More(u \div G), u % G>>
           /\ \/ pos = 1 /\ result = 0
              \/ pos = 2 /\ result = u \div (G * G)
              \/ pos = 3 /\ result = u \div G
  <2>1. G * G \in Nat \ {0}
    BY Powers, SMT
  <2>2. u \div (G * G) \in 0 .. Group - 1
    BY <1>3, <2>1, Powers, QuotientBelow
  <2>3. u \div G \in Int /\ u % G \in 0 .. G - 1
    BY Powers, Division
  <2>4. CASE pos = 1 /\ result = 0
    <3>1. result' = u \div (G * G)
      BY <1>3, <2>2, <2>4, MoreFlag, FirstDigit
    <3> QED BY <1>3, <2>4, <3>1 DEF Reading
  <2>5. CASE pos = 2 /\ result = u \div (G * G)
    <3>1. result' = (u \div (G * G)) * G + ((u \div G) % G)
      BY <1>3, <2>3, <2>5, MoreFlag
    <3>2. result' = u \div G
      BY <3>1, Powers, NextDigit
    <3> QED BY <1>3, <2>5, <3>2 DEF Reading
  <2>6. CASE pos = 3
    BY <1>3, <2>3, <2>6, Powers DEF Last
  <2> QED BY <1>3, <2>4, <2>5, <2>6
<1>4. CASE /\ u >= G * G * G
           /\ bytes = <<More(u \div (2 * G * G * G)), More(u \div (2 * G * G)),
                        More(u \div (2 * G)), u % (2 * G)>>
           /\ \/ pos = 1 /\ result = 0
              \/ pos = 2 /\ result = u \div (2 * G * G * G)
              \/ pos = 3 /\ result = u \div (2 * G * G)
              \/ pos = 4 /\ result = u \div (2 * G)
  <2>1. u \div (2 * G * G * G) \in 0 .. Group - 1
    <3>1. u < (2 * G * G * G) * G /\ G \in Nat
      BY Powers
    <3> QED BY <3>1, Powers, QuotientBelow
  <2>2. u \div (2 * G * G) \in Int /\ u \div (2 * G) \in Int
    BY Powers, Division
  <2>3. CASE pos = 1 /\ result = 0
    <3>1. result' = u \div (2 * G * G * G)
      BY <1>4, <2>1, <2>3, MoreFlag, FirstDigit
    <3> QED BY <1>4, <2>3, <3>1 DEF Reading
  <2>4. CASE pos = 2 /\ result = u \div (2 * G * G * G)
    <3>1. result' = (u \div (2 * G * G * G)) * G + ((u \div (2 * G * G)) % G)
      BY <1>4, <2>2, <2>4, MoreFlag
    <3>2. result' = u \div (2 * G * G)
      BY <3>1, Powers, NextDigit
    <3> QED BY <1>4, <2>4, <3>2 DEF Reading
  <2>5. CASE pos = 3 /\ result = u \div (2 * G * G)
    <3>1. result' = (u \div (2 * G * G)) * G + ((u \div (2 * G)) % G)
      BY <1>4, <2>2, <2>5, MoreFlag
    <3>2. result' = u \div (2 * G)
      BY <3>1, Powers, NextDigit
    <3> QED BY <1>4, <2>5, <3>2 DEF Reading
  <2>6. CASE pos = 4
    BY <2>6 DEF Last
  <2> QED BY <1>4, <2>3, <2>4, <2>5, <2>6
<1> QED BY <1>1, <1>2, <1>3, <1>4 DEF Reading

\* What Pack writes is one of the four forms, with nothing read of it.
LEMMA PackReading ==
  ASSUME NEW x \in Int, bytes' = Pack(x), pos' = 1, result' = 0
  PROVE  \A u : u = Masked(x) => Reading(u)'
<1> SUFFICES ASSUME NEW u, u = Masked(x)
             PROVE  Reading(u)'
  OBVIOUS
<1>1. u \in Int
  BY MaskedRange
<1>2. Group * Group \in Int /\ Group * Group * Group \in Int /\ Group \in Int
  BY Powers, SMT
<1>3. CASE u < Group
  BY <1>3 DEF Pack, Reading
<1>4. CASE u >= Group /\ u < Group * Group
  <2>1. bytes' = <<More(u \div Group), u % Group>>
    BY <1>1, <1>2, <1>4 DEF Pack
  <2> QED BY <1>4, <2>1 DEF Reading
<1>5. CASE u >= Group /\ u >= Group * Group /\ u < Group * Group * Group
  <2>1. bytes' = <<More(u \div (Group * Group)), More(u \div Group), u % Group>>
    BY <1>1, <1>2, <1>5 DEF Pack
  <2> QED BY <1>5, <2>1 DEF Reading
<1>6. CASE u >= Group /\ u >= Group * Group /\ u >= Group * Group * Group
  <2>1. bytes' = <<More(u \div (2 * Group * Group * Group)),
                   More(u \div (2 * Group * Group)),
                   More(u \div (2 * Group)), u % (2 * Group)>>
    BY <1>1, <1>2, <1>6 DEF Pack
  <2> QED BY <1>6, <2>1 DEF Reading
<1> QED BY <1>1, <1>2, <1>3, <1>4, <1>5, <1>6

-----------------------------------------------------------------------------
\* What is sent is an integer.
LEMMA InputTypes ==
  ASSUME input \in Inputs
  PROVE  /\ input.kind \in {"number", "length", "word"}
         /\ input.kind = "number" => input.n \in Int
         /\ input.kind = "length" => input.n \in Nat
         /\ input.kind # "word" =>
              (IF input.kind = "number" THEN input.n ELSE HeaderOf(input.n)) \in Int
<1>1. /\ input.kind \in {"number", "length", "word"}
      /\ input.kind = "number" => input.n \in Numbers
      /\ input.kind = "length" => input.n \in Lengths
  BY DEF Inputs
<1>2. Numbers \subseteq Int /\ Lengths \subseteq Nat
  BY IntegerAssumption
<1>3. \A n \in Nat : HeaderOf(n) \in Int
  BY DEF HeaderOf
<1> QED BY <1>1, <1>2, <1>3

\* The number of a masked number that was in range, read with its sign.
LEMMA SignedMasked ==
  ASSUME NEW n \in Int, InRange(n)
  PROVE  Signed(Masked(n)) = n
<1>1. n \in -(Modulus \div 2) .. Modulus \div 2 - 1 /\ Modulus \div 2 \in Nat
  <2>1. Modulus \div 2 \in Nat
    BY MaskedRange, SMT
  <2> QED BY <2>1 DEF InRange, MIN_INTEGER, MAX_INTEGER
<1>2. CASE n >= 0
  <2>1. n \in 0 .. Modulus - 1 /\ ~(n > MAX_INTEGER)
    BY <1>1, <1>2, MaskedRange DEF MAX_INTEGER
  <2> QED BY <2>1, MaskedRange DEF Signed
<1>3. CASE n < 0
  <2>1. n \in -Modulus .. -1 /\ n + Modulus > MAX_INTEGER /\ (n + Modulus) - Modulus = n
    BY <1>1, <1>3, MaskedRange DEF MAX_INTEGER
  <2> QED BY <2>1, MaskedRange DEF Signed
<1> QED BY <1>2, <1>3

\* So are the headers of lengths that fit, which are below the sign.
LEMMA HeaderKept ==
  ASSUME NEW n \in Nat, n < Modulus \div 4
  PROVE  LengthIn(Signed(Masked(HeaderOf(n)))) = n
<1>1. 2 * n + 1 \in 0 .. Modulus \div 2 - 1 /\ Modulus \div 2 \in Nat
  BY MaskedRange, SMT
<1>2. InRange(2 * n + 1)
  BY <1>1 DEF InRange, MIN_INTEGER, MAX_INTEGER
<1>3. (2 * n + 1) \div 2 = n
  BY SMT
<1> QED BY <1>1, <1>2, <1>3, SignedMasked DEF HeaderOf, LengthIn

\* The invariant holds before anything is written.
LEMMA IntegerInit == Init => IntegerInv
BY DEF Init, IntegerInv, ReadingOn, NumbersKept, LengthsKept

\* Every step of the writer and the reader keeps the invariant.
LEMMA IntegerStep == IntegerInv /\ [Next]_vars => IntegerInv'
<1> SUFFICES ASSUME IntegerInv, [Next]_vars
             PROVE  IntegerInv'
  OBVIOUS
<1> USE DEF IntegerInv
<1>1. CASE WriteNumeric
  <2>1. input.n \in Int /\ input' = input /\ Sent = Masked(input.n) /\ Sent' = Sent
    BY <1>1, InputTypes DEF WriteNumeric, Sent, Masked, Modulus
  <2>2. CASE InRange(input.n)
    <3>1. bytes' = Pack(input.n) /\ pos' = 1 /\ result' = 0 /\ stat' = "read"
      BY <1>1, <2>2 DEF WriteNumeric
    <3>2. Reading(Sent)'
      BY <2>1, <3>1, PackReading
    <3> QED BY <1>1, <2>1, <2>2, <3>1, <3>2
            DEF WriteNumeric, ReadingOn, NumbersKept, LengthsKept, InRange,
                MIN_INTEGER, MAX_INTEGER, Modulus
  <2>3. CASE ~InRange(input.n)
    BY <1>1, <2>1, <2>3 DEF WriteNumeric, ReadingOn, NumbersKept, LengthsKept
  <2> QED BY <2>2, <2>3
<1>2. CASE WriteHeader
  <2>1. /\ HeaderOf(input.n) \in Int /\ input' = input
        /\ Sent = Masked(HeaderOf(input.n)) /\ Sent' = Sent
    BY <1>2, InputTypes DEF WriteHeader, Sent, Masked, Modulus, HeaderOf
  <2>2. bytes' = Pack(HeaderOf(input.n)) /\ pos' = 1 /\ result' = 0 /\ stat' = "read"
    BY <1>2 DEF WriteHeader
  <2>3. Reading(Sent)'
    BY <2>1, <2>2, PackReading
  <2> QED BY <1>2, <2>1, <2>2, <2>3 DEF WriteHeader, ReadingOn, NumbersKept, LengthsKept
<1>3. CASE ReadMore
  <2>1. Reading(Sent) /\ input' = input /\ Sent' = Sent /\ stat' = "read"
    BY <1>3 DEF ReadMore, ReadingOn, Sent, Masked, Modulus, HeaderOf
  <2>2. Sent \in 0 .. Modulus - 1
    BY <1>3, InputTypes, MaskedRange DEF ReadMore, ReadingOn, Sent
  <2>3. Reading(Sent)'
    <3>1. \A u \in 0 .. Modulus - 1 : u = Sent => Reading(u)'
      BY <1>3, <2>1, MoreGivesPrefix DEF ReadMore
    <3> QED BY <2>1, <2>2, <3>1
  <2> QED BY <1>3, <2>1, <2>3
          DEF ReadMore, ReadingOn, NumbersKept, LengthsKept, InRange,
              MIN_INTEGER, MAX_INTEGER, Modulus
<1>4. CASE ReadLast
  <2>1. /\ Reading(Sent) /\ input' = input /\ stat' = "done"
        /\ input.kind \in {"number", "length"}
        /\ input.kind = "number" => InRange(input.n)
    BY <1>4 DEF ReadLast, ReadingOn
  <2>2. Sent \in 0 .. Modulus - 1
    BY <2>1, InputTypes, MaskedRange DEF Sent
  <2>3. result' = Signed(Sent) /\ pos' = Len(bytes') + 1
    <3>1. /\ result * LastValues(pos) + (bytes[pos] % LastValues(pos)) = Sent
          /\ pos = Len(bytes)
      BY <1>4, <2>1, <2>2, LastGivesAll DEF ReadLast
    <3> QED BY <1>4, <3>1 DEF ReadLast
  <2>4. CASE input.kind = "number"
    <3>1. result' = input.n
      BY <2>1, <2>3, <2>4, InputTypes, SignedMasked DEF Sent
    <3> QED BY <2>1, <2>3, <2>4, <3>1 DEF ReadingOn, NumbersKept, LengthsKept
  <2>5. CASE input.kind = "length"
    <3>1. input.n < Modulus \div 4 => LengthIn(result') = input.n
      BY <2>3, <2>5, InputTypes, HeaderKept DEF Sent
    <3> QED BY <2>1, <2>5, <3>1
            DEF ReadingOn, NumbersKept, LengthsKept, LengthIn, Modulus
  <2> QED BY <2>1, <2>4, <2>5
<1>5. CASE ReadVectorInt
  BY <1>5 DEF ReadVectorInt, ReadingOn, NumbersKept, LengthsKept
<1>6. CASE UNCHANGED vars
  BY <1>6 DEF vars, ReadingOn, Reading, Sent, NumbersKept, LengthsKept
<1> QED BY <1>1, <1>2, <1>3, <1>4, <1>5, <1>6 DEF Next

\* Whatever integers and lengths are written, and whatever their size and sign:
\* the reader gets each integer that ser_write_int writes as it was, and each
\* length below a quarter of the range (2^27), and it stops after the last byte.
THEOREM IntegersKept == Spec => []NumbersAndLengthsKept
<1>1. IntegerInv => NumbersAndLengthsKept
  BY DEF IntegerInv, NumbersAndLengthsKept
<1> QED BY <1>1, IntegerInit, IntegerStep, PTL DEF Spec

-----------------------------------------------------------------------------
(***************************************************************************)
(* Types: no byte exceeds its 8 bits and no integer has more than four.    *)
(***************************************************************************)

BytesOK(b) == b \in Seq(0 .. 2 * Group - 1) /\ Len(b) \in 0 .. 4

IntegerTypes == TypeOK /\ BytesOK(bytes) /\ (stat = "write" => pos = 1)

\* A remainder fits into a byte, with the flag that says another follows or
\* without it.
LEMMA ByteTypes ==
  ASSUME NEW x \in Int
  PROVE  /\ x % Group \in 0 .. 2 * Group - 1
         /\ x % (2 * Group) \in 0 .. 2 * Group - 1
         /\ More(x) \in 0 .. 2 * Group - 1
<1>1. /\ Group \in Nat \ {0} /\ 2 * Group \in Nat \ {0}
      /\ x % Group \in 0 .. Group - 1 /\ x % (2 * Group) \in 0 .. 2 * Group - 1
  BY Powers, Division
<1>2. \A g \in Nat, r \in Int : r \in 0 .. g - 1 => r \in 0 .. 2 * g - 1 /\ g + r \in 0 .. 2 * g - 1
  OBVIOUS
<1> QED BY <1>1, <1>2 DEF More

LEMMA PackTypes ==
  ASSUME NEW x \in Int
  PROVE  BytesOK(Pack(x))
<1> DEFINE B == 0 .. 2 * Group - 1
<1>1. Masked(x) \in Int /\ Masked(x) >= 0 BY MaskedRange
<1>2. PICK u \in Int : u = Masked(x) /\ u >= 0 BY <1>1
<1>3. u < Group => u \in B BY <1>2, Powers
<1>4. \A a \in Nat \ {0} : More(u \div a) \in B BY <1>2, Division, ByteTypes
<1>5. More(u \div Group) \in B /\ More(u \div (2 * Group)) \in B
      /\ More(u \div (2 * Group * Group)) \in B /\ More(u \div (2 * Group * Group * Group)) \in B
  BY <1>4, Powers
<1>6. Group * Group \in Nat \ {0} BY Powers, SMT
<1>7. More(u \div (Group * Group)) \in B BY <1>4, <1>6
<1>8. u % Group \in B /\ u % (2 * Group) \in B BY <1>2, ByteTypes
<1> HIDE DEF B
<1>9. \A a, b, c, d \in B : /\ <<a>> \in Seq(B) /\ Len(<<a>>) \in 0 .. 4
                            /\ <<a, b>> \in Seq(B) /\ Len(<<a, b>>) \in 0 .. 4
                            /\ <<a, b, c>> \in Seq(B) /\ Len(<<a, b, c>>) \in 0 .. 4
                            /\ <<a, b, c, d>> \in Seq(B) /\ Len(<<a, b, c, d>>) \in 0 .. 4
  OBVIOUS
<1>10. Pack(x) = IF u < Group THEN <<u>>
                 ELSE IF u < Group * Group THEN <<More(u \div Group), u % Group>>
                 ELSE IF u < Group * Group * Group
                 THEN <<More(u \div (Group * Group)), More(u \div Group), u % Group>>
                 ELSE <<More(u \div (2 * Group * Group * Group)), More(u \div (2 * Group * Group)),
                        More(u \div (2 * Group)), u % (2 * Group)>>
  BY <1>2 DEF Pack
<1>11. Pack(x) \in Seq(B) /\ Len(Pack(x)) \in 0 .. 4
  <2>1. CASE u < Group BY <1>3, <1>9, <1>10, <2>1
  <2>2. CASE ~(u < Group) /\ u < Group * Group BY <1>5, <1>8, <1>9, <1>10, <2>2
  <2>3. CASE ~(u < Group) /\ ~(u < Group * Group) /\ u < Group * Group * Group
    BY <1>5, <1>7, <1>8, <1>9, <1>10, <2>3
  <2>4. CASE ~(u < Group) /\ ~(u < Group * Group) /\ ~(u < Group * Group * Group)
    BY <1>5, <1>8, <1>9, <1>10, <2>4
  <2> QED BY <2>1, <2>2, <2>3, <2>4
<1> QED BY <1>11 DEF BytesOK, B

\* The four bytes are passed one by one.
LEMMA NextPos == \A n \in 0 .. 4 : \A p \in 1 .. n : p + 1 \in 1 .. 5
OBVIOUS

LEMMA TypesInit == Init => IntegerTypes
<1> SUFFICES ASSUME Init PROVE IntegerTypes OBVIOUS
<1>1. bytes = <<>> /\ pos = 1 /\ result = 0 /\ stat = "write" /\ input \in Inputs BY DEF Init
<1>2. BytesOK(bytes) BY <1>1 DEF BytesOK
<1> QED BY <1>1, <1>2 DEF IntegerTypes, TypeOK, BytesOK

\* The word of a vector is an integer.
LEMMA WordTypes ==
  ASSUME input \in Inputs, input.kind = "word"
  PROVE  input.n \in Nat /\ FromWord(input.n) \in Int
<1>1. input.n \in Nat BY IntegerAssumption DEF Inputs
<1>2. Word \in Nat /\ Word \div 2 \in Nat /\ MAX_INTEGER \in Int
  BY MaskedRange, SMT DEF Word, MAX_INTEGER
<1> QED BY <1>1, <1>2 DEF FromWord

LEMMA TypesStep == IntegerTypes /\ [Next]_vars => IntegerTypes'
<1> SUFFICES ASSUME IntegerTypes, [Next]_vars PROVE IntegerTypes' OBVIOUS
<1>t. /\ input \in Inputs /\ pos \in 1 .. 5 /\ result \in Int /\ BytesOK(bytes)
      /\ (stat = "write" => pos = 1)
      /\ stat \in {"write", "read", "double", "done"}
  BY DEF IntegerTypes, TypeOK
<1>b. BytesOK(bytes) => bytes \in Seq(0 .. 2 * Group - 1) BY DEF BytesOK
<1>1. CASE WriteNumeric
  <2>1. input.n \in Int BY <1>1, <1>t, InputTypes DEF WriteNumeric
  <2>2. BytesOK(bytes') BY <1>1, <1>t, <2>1, PackTypes DEF WriteNumeric
  <2>3. stat' \in {"read", "double"} /\ UNCHANGED <<input, pos, result>>
    BY <1>1 DEF WriteNumeric
  <2> QED BY <1>t, <2>2, <2>3 DEF IntegerTypes, TypeOK, BytesOK, Inputs
<1>2. CASE WriteHeader
  <2>1. HeaderOf(input.n) \in Int BY <1>2, <1>t, InputTypes DEF WriteHeader
  <2>2. BytesOK(bytes') BY <1>2, <2>1, PackTypes DEF WriteHeader
  <2>3. stat' = "read" /\ UNCHANGED <<input, pos, result>> BY <1>2 DEF WriteHeader
  <2> QED BY <1>t, <2>2, <2>3 DEF IntegerTypes, TypeOK, BytesOK, Inputs
<1>3. CASE ReadMore \/ ReadLast
  <2>1. pos <= Len(bytes) /\ pos' = pos + 1 /\ UNCHANGED <<input, bytes>>
        /\ stat = "read" /\ stat' \in {"read", "done"}
    BY <1>3 DEF ReadMore, ReadLast
  <2>2. bytes[pos] \in Int /\ pos' \in 1 .. 5
    <3> DEFINE B == 0 .. 2 * Group - 1
    <3>1. B \subseteq Int BY Powers
    <3>2. bytes \in Seq(B) /\ Len(bytes) \in 0 .. 4 BY <1>t DEF BytesOK
    <3> HIDE DEF B
    <3>3. pos \in 1 .. Len(bytes) BY <1>t, <2>1, <3>2
    <3>4. bytes[pos] \in B BY <3>2, <3>3
    <3>5. pos' \in 1 .. 5
      <4>1. BytesOK(bytes) => Len(bytes) \in 0 .. 4 BY DEF BytesOK
      <4>2. pos + 1 \in 1 .. 5 BY <1>t, <3>3, <4>1, NextPos, Zenon
      <4> QED BY <2>1, <4>2
    <3> QED BY <3>1, <3>4, <3>5
  <2>3. Group \in Nat \ {0} /\ 2 * Group \in Nat \ {0} /\ LastValues(pos) \in Nat \ {0}
    BY Powers DEF LastValues
  <2>4. bytes[pos] % Group \in Int /\ bytes[pos] % LastValues(pos) \in Int
    <3>1. \A a \in Nat \ {0} : bytes[pos] % a \in 0 .. a - 1 BY <2>2, Division
    <3> QED BY <2>3, <3>1
  <2>5. \A g \in Nat, r \in Int : result * g + r \in Int BY <1>t
  <2>6. \A r \in Int : Signed(r) \in Int BY MaskedRange, SMT DEF Signed, MAX_INTEGER
  <2>7. result' \in Int
    <3>1. CASE ReadMore BY <2>3, <2>4, <2>5, <3>1 DEF ReadMore
    <3>2. CASE ReadLast BY <2>3, <2>4, <2>5, <2>6, <3>2 DEF ReadLast
    <3> QED BY <1>3, <3>1, <3>2
  <2> QED BY <1>t, <2>1, <2>2, <2>7 DEF IntegerTypes, TypeOK, BytesOK, Inputs
<1>4. CASE ReadVectorInt
  <2>1. /\ result' \in Int /\ stat' = "done" /\ UNCHANGED <<input, bytes, pos>>
    BY <1>4, <1>t, WordTypes DEF ReadVectorInt
  <2> QED BY <1>t, <2>1 DEF IntegerTypes, TypeOK, BytesOK, Inputs
<1>5. CASE UNCHANGED vars
  BY <1>5, <1>t DEF vars, IntegerTypes, TypeOK, BytesOK, Inputs
<1> QED BY <1>1, <1>2, <1>3, <1>4, <1>5 DEF Next

\* Every variable keeps its type: an integer has at most four bytes of at most
\* 8 bits, and the reader does not go beyond them.
THEOREM IntegerTypesKept == Spec => []TypeOK
<1>1. IntegerTypes => TypeOK BY DEF IntegerTypes
<1> QED BY <1>1, TypesInit, TypesStep, PTL DEF Spec

-----------------------------------------------------------------------------
\* A vector's word is read as two's complement of 32 bits, by the C extension
\* of any client; by the Ruby code if it is not one of the positive numbers
\* from 2^28 on, which amf3_read_vector takes for negative ones.
FromWordRight(w) == Native \/ w <= MAX_INTEGER \/ w >= Word \div 2

WordsKept ==
  input.kind = "word" /\ stat = "done" /\ FromWordRight(input.n) =>
    result = IF input.n < Word \div 2 THEN input.n ELSE input.n - Word

LEMMA WordKept ==
  ASSUME NEW w \in Nat, FromWordRight(w)
  PROVE  FromWord(w) = IF w < Word \div 2 THEN w ELSE w - Word
<1>1. PICK h \in Nat \ {0} : Modulus = 2 * h
  <2>1. Modulus \in Nat \ {0} /\ Modulus = 2 * (Modulus \div 2) BY MaskedRange
  <2>2. Modulus \div 2 \in Nat \ {0} BY <2>1, SMT
  <2> QED BY <2>1, <2>2
<1>2. MAX_INTEGER = h - 1 /\ Word = 16 * h /\ Word \div 2 = 8 * h
  BY <1>1, SMT DEF MAX_INTEGER, Word
<1> QED BY <1>2 DEF FromWord, FromWordRight

WordsInv == WordsKept /\ (stat = "read" => input.kind # "word")

\* Whatever words a client sends in a Vector.<int>, those that FromWordRight
\* names are read as the 32 bit integers they stand for.
THEOREM WordsRight == Spec => []WordsKept
<1>1. Init => WordsInv BY DEF Init, WordsInv, WordsKept
<1>2. TypeOK /\ WordsInv /\ [Next]_vars => WordsInv'
  <2> SUFFICES ASSUME TypeOK, WordsInv, [Next]_vars PROVE WordsInv' OBVIOUS
  <2> USE DEF WordsInv
  <2>1. CASE ReadVectorInt
    <3>1. /\ input.n \in Nat /\ input.kind = "word" /\ result' = FromWord(input.n)
          /\ input' = input /\ stat' = "done"
      BY <2>1, WordTypes DEF ReadVectorInt, TypeOK
    <3> QED BY <3>1, WordKept DEF WordsKept, FromWordRight, MAX_INTEGER, Word, Modulus
  <2>2. CASE WriteNumeric \/ WriteHeader BY <2>2 DEF WriteNumeric, WriteHeader, WordsKept
  <2>3. CASE ReadMore \/ ReadLast BY <2>3 DEF ReadMore, ReadLast, WordsKept
  <2>4. CASE UNCHANGED vars
    BY <2>4 DEF vars, WordsKept, FromWordRight, MAX_INTEGER, Word, Modulus
  <2> QED BY <2>1, <2>2, <2>3, <2>4 DEF Next
<1>3. WordsInv => WordsKept BY DEF WordsInv
<1> QED BY <1>1, <1>2, <1>3, IntegerTypesKept, PTL DEF Spec

\* With the C extension every word of a Vector.<int> is read as the 32 bit
\* integer it stands for.
THEOREM VectorsKeptInC == Native => (Spec => []VectorsKept)
<1> SUFFICES ASSUME Native PROVE Spec => []VectorsKept OBVIOUS
<1>1. WordsKept => VectorsKept BY DEF WordsKept, FromWordRight, VectorsKept
<1> QED BY <1>1, WordsRight, PTL
=============================================================================
