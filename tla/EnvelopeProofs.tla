--------------------------- MODULE EnvelopeProofs ---------------------------
(***************************************************************************)
(* Theorems about Envelope, for envelopes of any content, data of any      *)
(* depth and any number of calls.                                          *)
(*                                                                         *)
(* First what needs no look at the data: an envelope is left alone by a    *)
(* call that raises, and the mapper that was chosen stays.  Then that what *)
(* is read is what was sent, in five parts: a sequence of sequences, one   *)
(* behind the other; where the parts of data are in the stream; what flags *)
(* announce; the stack of functions that read data, as a path into the     *)
(* data; and the envelope around them.                                     *)
(***************************************************************************)
EXTENDS Envelope, FiniteSetTheorems, WellFoundedInduction, TLAPS

-----------------------------------------------------------------------------
(***************************************************************************)
(* What the parts of populate_from_stream leave alone.                     *)
(***************************************************************************)

\* No step of reading but the last touches the envelope of the C extension,
\* and none the memory of the call.
LEMMA ReadingSteps ==
  ASSUME Reading
  PROVE  /\ before' = before /\ reads' = reads /\ UNCHANGED mapperVars
         /\ stat = "run"
         /\ \/ Native => env' = env
            \/ stat' = "done"
<1>1. CASE ReadVersion
  BY <1>1 DEF ReadVersion, Next1, SoFar
<1>2. CASE ReadCount("headers", "header") \/ ReadCount("messages", "message")
  BY <1>2 DEF ReadCount, Next1
<1>3. CASE ReadHead("header") \/ ReadHead("message")
  BY <1>3 DEF ReadHead, Next1
<1>4. CASE ReadData BY <1>4 DEF ReadData
<1>5. CASE Store BY <1>5 DEF Store, StoreHeader, StoreMessage, SoFar
<1>6. CASE AllHeadersRead BY <1>6 DEF AllHeadersRead
<1>7. CASE Populated BY <1>7 DEF Populated
<1>8. CASE Raise BY <1>8 DEF Raise
<1> QED BY <1>1, <1>2, <1>3, <1>4, <1>5, <1>6, <1>7, <1>8 DEF Reading

LEMMA Calls ==
  ASSUME Next
  PROVE  \/ (Access \/ Replace) /\ UNCHANGED <<env, local, stat, reads, before, inbound, outbound>>
         \/ \E source : Populate(source) /\ (outbound' = outbound \/ Relay)
                        /\ (Relay => outbound' = Remembered(outbound))
         \/ Reading
<1>1. CASE Access \/ Replace BY <1>1 DEF Access, Replace
<1>2. CASE Relay BY <1>2 DEF Relay
<1>3. ASSUME NEW e, Receive(e) \/ ReceiveCutOff(e)
      PROVE  \E source : Populate(source) /\ outbound' = outbound
  BY <1>3 DEF Receive, ReceiveCutOff
<1> QED BY <1>1, <1>2, <1>3 DEF Next

-----------------------------------------------------------------------------
\* In C a call of populate_from_stream leaves the envelope alone until it has
\* read everything: whatever it is given, one that raises changes nothing.
THEOREM RefusedLeavesEnvelope == Native => (Spec => []AllOrNothing)
<1> SUFFICES ASSUME Native PROVE Spec => []AllOrNothing
  OBVIOUS
<1>1. Init => AllOrNothing BY DEF Init, AllOrNothing
<1>2. AllOrNothing /\ [Next]_vars => AllOrNothing'
  <2> SUFFICES ASSUME AllOrNothing, [Next]_vars PROVE AllOrNothing'
    OBVIOUS
  <2>1. CASE UNCHANGED vars BY <2>1 DEF AllOrNothing, vars
  <2>2. CASE Reading BY <2>2, ReadingSteps DEF AllOrNothing
  <2>3. CASE Access \/ Replace BY <2>3 DEF Access, Replace, AllOrNothing
  <2>4. ASSUME NEW source, Populate(source) PROVE AllOrNothing'
    BY <2>4 DEF Populate, SoFar, AllOrNothing
  <2> QED BY <2>1, <2>2, <2>3, <2>4, Calls
<1> QED BY <1>1, <1>2, PTL DEF Spec

(***************************************************************************)
(* The C functions keep the mapper they found at their first call: it is   *)
(* the one the constant holds, unless the constant is replaced after that. *)
(***************************************************************************)
MapperInv ==
  /\ inbound \in {None, active} /\ outbound \in {None, active}
  /\ None \notin {"ClassMapping", "custom"}

\* An application that sets RocketAMF::ClassMapper before its first use has its
\* own mapper make and write all objects.
THEOREM ChosenMapperStays ==
  ~LateReplace /\ None \notin {"ClassMapping", "custom"} => (Spec => ChosenMapperUsed)
<1> SUFFICES ASSUME ~LateReplace, None \notin {"ClassMapping", "custom"}
             PROVE  Spec => ChosenMapperUsed
  OBVIOUS
<1>1. Init => MapperInv BY DEF Init, MapperInv
<1>2. MapperInv /\ [Next]_vars => MapperInv'
  <2> SUFFICES ASSUME MapperInv, [Next]_vars PROVE MapperInv'
    OBVIOUS
  <2>1. CASE UNCHANGED vars BY <2>1 DEF MapperInv, vars, mapperVars
  <2>2. CASE Reading BY <2>2, ReadingSteps DEF MapperInv, mapperVars
  <2>3. CASE Access \/ Replace BY <2>3 DEF Access, Replace, MapperInv
  <2>4. ASSUME NEW source, Populate(source), outbound' \in {outbound, Remembered(outbound)}
        PROVE  MapperInv'
    BY <2>4 DEF Populate, MapperInv, Remembered, Defined
  <2> QED BY <2>1, <2>2, <2>3, <2>4, Calls
<1>3. MapperInv /\ [Next]_vars =>
        [active = "custom" /\ reads' # reads
           => local'.by = "custom" /\ (Relay => outbound' = "custom")]_vars
  <2> SUFFICES ASSUME MapperInv, Next, active = "custom", reads' # reads
               PROVE  local'.by = "custom" /\ (Relay => outbound' = "custom")
    OBVIOUS
  <2>1. ~Reading BY ReadingSteps
  <2>2. PICK source : Populate(source) /\ (Relay => outbound' = Remembered(outbound))
    BY <2>1, Calls
  <2>3. Remembered(inbound) = "custom" /\ Remembered(outbound) = "custom"
    BY DEF MapperInv, Remembered, Defined
  <2>4. local' = [Blank EXCEPT !.by = "custom"] BY <2>2, <2>3 DEF Populate, SoFar
  <2> QED BY <2>2, <2>3, <2>4 DEF Blank
<1> QED BY <1>1, <1>2, <1>3, PTL DEF Spec, ChosenMapperUsed

-----------------------------------------------------------------------------
(***************************************************************************)
(* Sequences one behind the other.  FlattenSeq is a recursive function:    *)
(* what it gives is shown by the least index at which it would be wrong.   *)
(***************************************************************************)
\* Every set of natural numbers has a least one.
LEMMA Least ==
  ASSUME NEW T, T \subseteq Nat, T # {}
  PROVE  \E x \in T : \A y \in T : x <= y
<1> DEFINE R == OpToRel(<, Nat)
<1>1. IsWellFoundedOn(R, Nat) BY NatLessThanWellFounded
<1>2. \A x, y \in Nat : x < y => <<x, y>> \in R BY DEF OpToRel
<1> HIDE DEF R
<1>3. PICK x \in T : \A y \in T : ~(<<y, x>> \in R) BY <1>1, WFMin
<1>4. ASSUME NEW y \in T PROVE x <= y
  <2>1. y \in Nat /\ x \in Nat OBVIOUS
  <2>2. ~(y < x) BY <1>2, <1>3, <2>1
  <2> QED BY <2>1, <2>2
<1> QED BY <1>4

\* f[i] is the first i sequences of ss, one behind the other.
Joins(ss, f) ==
  \A i \in 1 .. Len(ss) : f[i] = IF i = 1 THEN ss[i] ELSE f[i - 1] \o ss[i]

LEMMA JoinsExists ==
  ASSUME NEW S, NEW ss \in Seq(Seq(S))
  PROVE  \E f \in [1 .. Len(ss) -> Seq(S)] : Joins(ss, f)
<1> DEFINE n == Len(ss)
<1> DEFINE P(m) == \E f \in [1 .. m -> Seq(S)] :
                     \A i \in 1 .. m : f[i] = IF i = 1 THEN ss[i] ELSE f[i - 1] \o ss[i]
<1> DEFINE T == {m \in 0 .. n : ~P(m)}
<1>0. n \in Nat /\ \A i \in 1 .. n : ss[i] \in Seq(S) OBVIOUS
<1>1. P(0)
  <2>1. [i \in 1 .. 0 |-> <<>>] \in [1 .. 0 -> Seq(S)] OBVIOUS
  <2>2. 1 .. 0 = {} OBVIOUS
  <2> QED BY <2>1, <2>2, Zenon
<1>2. ASSUME NEW m \in 0 .. n - 1, P(m) PROVE P(m + 1)
  <2>1. PICK f \in [1 .. m -> Seq(S)] :
               \A i \in 1 .. m : f[i] = IF i = 1 THEN ss[i] ELSE f[i - 1] \o ss[i]
    BY <1>2
  <2> DEFINE g == [i \in 1 .. m + 1 |-> IF i = m + 1 THEN IF m = 0 THEN ss[1] ELSE f[m] \o ss[m + 1]
                                        ELSE f[i]]
  <2>2. m \in Nat /\ m + 1 \in 1 .. n /\ 1 \in 1 .. n BY <1>0
  <2>3. ss[m + 1] \in Seq(S) /\ ss[1] \in Seq(S) BY <1>0, <2>2
  <2>4. m # 0 => f[m] \in Seq(S) BY <2>2
  <2>5. m # 0 => f[m] \o ss[m + 1] \in Seq(S) BY <2>3, <2>4
  <2>6. g \in [1 .. m + 1 -> Seq(S)] BY <2>2, <2>3, <2>5
  <2>7. ASSUME NEW i \in 1 .. m + 1
        PROVE  g[i] = IF i = 1 THEN ss[i] ELSE g[i - 1] \o ss[i]
    <3>1. CASE i = m + 1 BY <3>1, <2>2
    <3>2. CASE i # m + 1
      <4>1. i \in 1 .. m /\ g[i] = f[i] BY <3>2, <2>2
      <4>2. i # 1 => i - 1 \in 1 .. m /\ i - 1 # m + 1 BY <4>1, <2>2
      <4>3. i # 1 => g[i - 1] = f[i - 1] BY <4>2, <2>2
      <4> QED BY <4>1, <4>3, <2>1
    <3> QED BY <3>1, <3>2
  <2> QED BY <2>6, <2>7
<1> HIDE DEF P
<1>3. ASSUME T # {} PROVE FALSE
  <2>0. T \subseteq Nat BY <1>0
  <2> HIDE DEF T
  <2>1. PICK x \in T : \A y \in T : x <= y BY <1>3, <2>0, Least
  <2> USE DEF T
  <2>2. x # 0 BY <1>1
  <2>3. x - 1 \in 0 .. n - 1 BY <2>2, <1>0
  <2>4. P(x - 1) BY <2>1, <2>3, <1>0
  <2>5. P(x - 1 + 1) BY <2>3, <2>4, <1>2
  <2> QED BY <2>5, <1>0
<1>4. P(n) BY <1>3, <1>0
<1> QED BY <1>4 DEF P, Joins

\* Two such functions are the same.
LEMMA JoinsUnique ==
  ASSUME NEW ss, Len(ss) \in Nat, NEW f, NEW g, Joins(ss, f), Joins(ss, g)
  PROVE  \A i \in 1 .. Len(ss) : f[i] = g[i]
<1> DEFINE T == {i \in 1 .. Len(ss) : f[i] # g[i]}
<1>1. ASSUME T # {} PROVE FALSE
  <2>0. T \subseteq Nat OBVIOUS
  <2> HIDE DEF T
  <2>1. PICK x \in T : \A y \in T : x <= y BY <1>1, <2>0, Least
  <2> USE DEF T
  <2>2. x # 1 BY DEF Joins
  <2>3. x - 1 \in 1 .. Len(ss) /\ f[x - 1] = g[x - 1] BY <2>1, <2>2
  <2> QED BY <2>1, <2>2, <2>3 DEF Joins
<1> QED BY <1>1

LEMMA FlatIs ==
  ASSUME NEW S, NEW ss \in Seq(Seq(S)), ss # <<>>, NEW f \in [1 .. Len(ss) -> Seq(S)], Joins(ss, f)
  PROVE  FlattenSeq(ss) = f[Len(ss)]
<1> DEFINE n == Len(ss)
<1> DEFINE G == CHOOSE g : g = [i \in 1 .. n |-> IF i = 1 THEN ss[i] ELSE g[i - 1] \o ss[i]]
<1>1. f = [i \in 1 .. n |-> IF i = 1 THEN ss[i] ELSE f[i - 1] \o ss[i]] BY DEF Joins
<1>2. G = [i \in 1 .. n |-> IF i = 1 THEN ss[i] ELSE G[i - 1] \o ss[i]] BY <1>1
<1>3. n \in Nat /\ n # 0 OBVIOUS
<1>4. FlattenSeq(ss) = G[n] BY <1>3 DEF FlattenSeq
<1> HIDE DEF G
<1>5. Joins(ss, G) BY <1>2 DEF Joins
<1>6. G[n] = f[n] BY <1>3, <1>5, JoinsUnique
<1> QED BY <1>4, <1>6

\* The first k sequences of ss, one behind the other.
Upto(ss, k) == FlattenSeq(SubSeq(ss, 1, k))

LEMMA FlatStep ==
  ASSUME NEW S, NEW ss \in Seq(Seq(S))
  PROVE  /\ Upto(ss, 0) = <<>>
         /\ \A k \in 0 .. Len(ss) : Upto(ss, k) \in Seq(S)
         /\ \A k \in 0 .. Len(ss) - 1 : Upto(ss, k + 1) = Upto(ss, k) \o ss[k + 1]
         /\ Upto(ss, Len(ss)) = FlattenSeq(ss)
<1> DEFINE n == Len(ss)
<1>0. n \in Nat /\ \A i \in 1 .. n : ss[i] \in Seq(S) OBVIOUS
<1>1. PICK f \in [1 .. n -> Seq(S)] : Joins(ss, f) BY JoinsExists
<1>2. \A k \in 0 .. n : /\ SubSeq(ss, 1, k) \in Seq(Seq(S)) /\ Len(SubSeq(ss, 1, k)) = k
                        /\ \A i \in 1 .. k : SubSeq(ss, 1, k)[i] = ss[i]
  OBVIOUS
<1>3. ASSUME NEW k \in 1 .. n PROVE Upto(ss, k) = f[k]
  <2> DEFINE u == SubSeq(ss, 1, k)
             g == [i \in 1 .. k |-> f[i]]
  <2>1. u \in Seq(Seq(S)) /\ Len(u) = k /\ \A i \in 1 .. k : u[i] = ss[i] BY <1>2
  <2>2. g \in [1 .. Len(u) -> Seq(S)] BY <2>1, <1>0
  <2> HIDE DEF u
  <2>3. Joins(u, g)
    <3>1. ASSUME NEW i \in 1 .. k PROVE g[i] = IF i = 1 THEN u[i] ELSE g[i - 1] \o u[i]
      <4>1. i \in 1 .. n /\ u[i] = ss[i] /\ g[i] = f[i] BY <2>1, <1>0
      <4>2. i # 1 => i - 1 \in 1 .. k /\ g[i - 1] = f[i - 1] BY <1>0
      <4> QED BY <4>1, <4>2, <1>1 DEF Joins
    <3> QED BY <3>1, <2>1 DEF Joins
  <2>4. u # <<>> BY <2>1
  <2>5. FlattenSeq(u) = g[k] BY <2>1, <2>2, <2>3, <2>4, FlatIs
  <2> QED BY <2>5 DEF Upto, u
<1>4. SubSeq(ss, 1, 0) = <<>> BY <1>2
<1>5. Upto(ss, 0) = <<>> BY <1>4 DEF Upto, FlattenSeq
<1>6. \A k \in 0 .. n : Upto(ss, k) \in Seq(S)
  <2>1. \A k \in 1 .. n : f[k] \in Seq(S) OBVIOUS
  <2>2. \A k \in 0 .. n : k = 0 \/ k \in 1 .. n BY <1>0
  <2>3. <<>> \in Seq(S) OBVIOUS
  <2> QED BY <2>1, <2>2, <2>3, <1>3, <1>5
<1>7. ASSUME NEW k \in 0 .. n - 1 PROVE Upto(ss, k + 1) = Upto(ss, k) \o ss[k + 1]
  <2>1. k + 1 \in 1 .. n /\ Upto(ss, k + 1) = f[k + 1] BY <1>3, <1>0
  <2>4. PICK i : i = k + 1 OBVIOUS
  <2>5. i \in 1 .. n /\ f[i] = IF i = 1 THEN ss[i] ELSE f[i - 1] \o ss[i]
    BY <2>1, <2>4, <1>1 DEF Joins
  <2>2. CASE k = 0
    <3>1. f[k + 1] = ss[k + 1] BY <2>2, <2>4, <2>5
    <3>2. ss[k + 1] \in Seq(S) BY <2>1, <1>0
    <3>3. <<>> \o ss[k + 1] = ss[k + 1] BY <3>2
    <3> QED BY <2>1, <2>2, <3>1, <3>3, <1>5
  <2>3. CASE k # 0
    <3>1. k \in 1 .. n /\ i # 1 /\ i - 1 = k BY <2>3, <2>4, <1>0
    <3>2. f[k + 1] = f[k] \o ss[k + 1] BY <3>1, <2>4, <2>5
    <3> QED BY <3>1, <3>2, <2>1, <1>3
  <2> QED BY <2>2, <2>3
<1>8. SubSeq(ss, 1, n) = ss OBVIOUS
<1> QED BY <1>5, <1>6, <1>7, <1>8 DEF Upto

\* s is in F, from p on.
Lies(F, p, s) == \A i \in 1 .. Len(s) : p + i - 1 \in 1 .. Len(F) /\ F[p + i - 1] = s[i]

LEMMA LiesParts ==
  ASSUME NEW S, NEW F \in Seq(S), NEW p \in Nat \ {0}, NEW u \in Seq(S), NEW v \in Seq(S)
  PROVE  Lies(F, p, u \o v) <=> Lies(F, p, u) /\ Lies(F, p + Len(u), v)
<1>0. Len(u) \in Nat /\ Len(v) \in Nat /\ Len(u \o v) = Len(u) + Len(v) OBVIOUS
<1>1. \A i \in 1 .. Len(u) : (u \o v)[i] = u[i] OBVIOUS
<1>2. \A i \in 1 .. Len(v) : (u \o v)[Len(u) + i] = v[i] OBVIOUS
<1>3. ASSUME Lies(F, p, u \o v) PROVE Lies(F, p, u) /\ Lies(F, p + Len(u), v)
  <2>1. ASSUME NEW i \in 1 .. Len(v)
        PROVE  p + Len(u) + i - 1 \in 1 .. Len(F) /\ F[p + Len(u) + i - 1] = v[i]
    <3>1. Len(u) + i \in 1 .. Len(u \o v) /\ p + (Len(u) + i) - 1 = p + Len(u) + i - 1 BY <1>0
    <3> QED BY <3>1, <1>2, <1>3 DEF Lies
  <2>2. ASSUME NEW i \in 1 .. Len(u) PROVE p + i - 1 \in 1 .. Len(F) /\ F[p + i - 1] = u[i]
    <3>1. i \in 1 .. Len(u \o v) BY <1>0
    <3> QED BY <3>1, <1>1, <1>3 DEF Lies
  <2> QED BY <2>1, <2>2 DEF Lies
<1>4. ASSUME Lies(F, p, u), Lies(F, p + Len(u), v) PROVE Lies(F, p, u \o v)
  <2> SUFFICES ASSUME NEW i \in 1 .. Len(u \o v)
               PROVE  p + i - 1 \in 1 .. Len(F) /\ F[p + i - 1] = (u \o v)[i]
    BY DEF Lies
  <2>1. CASE i \in 1 .. Len(u) BY <2>1, <1>1, <1>4 DEF Lies
  <2>2. CASE i \notin 1 .. Len(u)
    <3>1. i - Len(u) \in 1 .. Len(v) /\ Len(u) + (i - Len(u)) = i
          /\ p + Len(u) + (i - Len(u)) - 1 = p + i - 1
      BY <2>2, <1>0
    <3> QED BY <3>1, <1>2, <1>4 DEF Lies
  <2> QED BY <2>1, <2>2
<1> QED BY <1>3, <1>4

LEMMA LiesFlat ==
  ASSUME NEW S, NEW F \in Seq(S), NEW p \in Nat \ {0}, NEW ss \in Seq(Seq(S)),
         Lies(F, p, FlattenSeq(ss)), NEW k \in 0 .. Len(ss) - 1
  PROVE  /\ Lies(F, p + Len(Upto(ss, k)), ss[k + 1])
         /\ Len(Upto(ss, k + 1)) = Len(Upto(ss, k)) + Len(ss[k + 1])
         /\ Len(Upto(ss, k)) \in Nat
<1> DEFINE n == Len(ss)
           T == {i \in 0 .. n : ~Lies(F, p, Upto(ss, n - i))}
<1>0. n \in Nat /\ \A i \in 1 .. n : ss[i] \in Seq(S) OBVIOUS
<1>1. \A i \in 0 .. n : Upto(ss, i) \in Seq(S) BY FlatStep
<1>2. ASSUME NEW i \in 0 .. n - 1, Lies(F, p, Upto(ss, i + 1))
      PROVE  Lies(F, p, Upto(ss, i)) /\ Lies(F, p + Len(Upto(ss, i)), ss[i + 1])
  <2>1. Upto(ss, i + 1) = Upto(ss, i) \o ss[i + 1] BY FlatStep
  <2>2. Upto(ss, i) \in Seq(S) /\ ss[i + 1] \in Seq(S) BY <1>0, <1>1
  <2> QED BY <1>2, <2>1, <2>2, LiesParts
<1>3. ASSUME T # {} PROVE FALSE
  <2>0. T \subseteq Nat BY <1>0
  <2> HIDE DEF T
  <2>1. PICK x \in T : \A y \in T : x <= y BY <1>3, <2>0, Least
  <2> USE DEF T
  <2>2. x # 0 BY FlatStep, <1>0
  <2>3. x - 1 \in 0 .. n /\ n - (x - 1) = n - x + 1 /\ n - x \in 0 .. n - 1 BY <2>1, <2>2, <1>0
  <2>4. Lies(F, p, Upto(ss, n - x + 1))
    <3>1. ~(x <= x - 1) BY <2>1, <1>0
    <3>2. x - 1 \notin T BY <2>1, <3>1
    <3> QED BY <3>2, <2>3
  <2>5. Lies(F, p, Upto(ss, n - x)) BY <2>3, <2>4, <1>2
  <2> QED BY <2>1, <2>5
<1>4. n - (k + 1) \in 0 .. n /\ n - (n - (k + 1)) = k + 1 BY <1>0
<1>5. Lies(F, p, Upto(ss, k + 1)) BY <1>3, <1>4
<1>6. Upto(ss, k + 1) = Upto(ss, k) \o ss[k + 1] BY FlatStep
<1>7. Upto(ss, k) \in Seq(S) /\ ss[k + 1] \in Seq(S) BY <1>0, <1>1
<1>8. Len(Upto(ss, k + 1)) = Len(Upto(ss, k)) + Len(ss[k + 1]) BY <1>6, <1>7
<1>9. Len(Upto(ss, k)) \in Nat BY <1>7
<1> QED BY <1>2, <1>5, <1>8, <1>9

-----------------------------------------------------------------------------
TokenSet ==
  (UNION {ToSet(Written(d)) : d \in Data})
  \cup {Tok("word", n) : n \in Nat}
  \cup {Tok("header", h) : h \in [name : Names, must : BOOLEAN]}
  \cup {Tok("message", m) : m \in [target : Names, response : Names]}
  \cup {Tok("flags", b) : b \in Seq(SUBSET Nat)}

Composite(d) == d.is \in {"array", "external"}
PartTokens(p) == IF p.t = "flags" THEN <<Tok("flags", p.bytes)>> ELSE Written(p.data)
Comps(d) ==
  IF d.is = "array" THEN [k \in DOMAIN d.items |-> Written(d.items[k])]
  ELSE [k \in DOMAIN d.parts |-> PartTokens(d.parts[k])]
Size(d) == IF d.is = "array" THEN Len(d.items) ELSE Len(d.parts)
HeadTok(d) == IF d.is = "array" THEN Tok("array", Len(d.items)) ELSE Tok("external", d.cls)

\* Where the part after the first k begins, if d begins at b.
Place(d, b, k) == b + 1 + Len(Upto(Comps(d), k))

LEMMA WrittenType ==
  ASSUME NEW d \in Data
  PROVE  Written(d) \in Seq(TokenSet) /\ Len(Written(d)) \in Nat
<1>1. ToSet(Written(d)) \subseteq TokenSet BY DEF TokenSet
<1>2. Written(d) \in Seq(ToSet(Written(d))) BY DataAssumption
<1> HIDE DEF TokenSet
<1>3. \A S, T : S \subseteq T => \A s \in Seq(S) : s \in Seq(T) OBVIOUS
<1>4. Written(d) \in Seq(TokenSet) BY <1>1, <1>2, <1>3
<1> QED BY <1>4

LEMMA ValueWritten ==
  ASSUME NEW d \in Data, ~Composite(d)
  PROVE  /\ d.is = "value" /\ Written(d) = <<Tok("value", d.v)>> /\ Meant(d) = d.v
         /\ Len(Written(d)) = 1
<1>1. d.is = "value" BY DataAssumption DEF Composite
<1>2. Written(d) = <<Tok("value", d.v)>> BY <1>1, DataAssumption DEF Layout
<1>3. Meant(d) = d.v BY <1>1, DataAssumption DEF Meaning
<1> QED BY <1>1, <1>2, <1>3

LEMMA CompositeWritten ==
  ASSUME NEW d \in Data, Composite(d)
  PROVE  /\ Comps(d) \in Seq(Seq(TokenSet)) /\ Len(Comps(d)) = Size(d) /\ Size(d) \in Nat
         /\ Written(d) = <<HeadTok(d)>> \o FlattenSeq(Comps(d))
         /\ HeadTok(d) \in TokenSet
         /\ d.is = "array" => d.items \in Seq(Data)
         /\ d.is = "external" => d.cls \in DOMAIN Fields /\ PartsInOrder(d)
<1> DEFINE
      G ==     /\ Comps(d) \in Seq(Seq(TokenSet)) /\ Len(Comps(d)) = Size(d) /\ Size(d) \in Nat
               /\ Written(d) = <<HeadTok(d)>> \o FlattenSeq(Comps(d))
               /\ d.is = "array" => d.items \in Seq(Data)
               /\ d.is = "external" => d.cls \in DOMAIN Fields /\ PartsInOrder(d)
<1>1. ASSUME d.is = "array" PROVE G
  <2>1. d.items \in Seq(Data) BY <1>1, DataAssumption
  <2>2. \A k \in DOMAIN d.items : Written(d.items[k]) \in Seq(TokenSet) BY <2>1, WrittenType
  <2>3. Written(d) = <<Tok("array", Len(d.items))>>
                     \o FlattenSeq([k \in DOMAIN d.items |-> Written(d.items[k])])
    BY <1>1, DataAssumption DEF Layout
  <2>4. Comps(d) = [k \in DOMAIN d.items |-> Written(d.items[k])] BY <1>1 DEF Comps
  <2>5. Comps(d) \in Seq(Seq(TokenSet)) /\ Len(Comps(d)) = Len(d.items) BY <2>1, <2>2, <2>4
  <2>6. Written(d) = <<HeadTok(d)>> \o FlattenSeq(Comps(d)) BY <1>1, <2>3, <2>4 DEF HeadTok
  <2>7. Size(d) = Len(d.items) /\ Len(d.items) \in Nat BY <1>1, <2>1 DEF Size
  <2> QED BY <1>1, <2>1, <2>5, <2>6, <2>7
<1>2. ASSUME d.is = "external" PROVE G
  <2>1. d.cls \in DOMAIN Fields /\ PartsInOrder(d) /\ d.parts \in Seq(Part)
    BY <1>2, DataAssumption DEF PartsInOrder
  <2>2. \A p \in Part : PartTokens(p) \in Seq(TokenSet)
    <3> SUFFICES ASSUME NEW p \in Part PROVE PartTokens(p) \in Seq(TokenSet)
      OBVIOUS
    <3>1. CASE p.t = "flags"
      <4>1. p.bytes \in Seq(SUBSET Nat) BY <3>1 DEF Part
      <4>2. Tok("flags", p.bytes) \in {Tok("flags", b) : b \in Seq(SUBSET Nat)} BY <4>1
      <4>3. Tok("flags", p.bytes) \in TokenSet BY <4>2 DEF TokenSet
      <4>4. PartTokens(p) = <<Tok("flags", p.bytes)>> BY <3>1 DEF PartTokens
      <4> QED BY <4>3, <4>4
    <3>2. CASE p.t # "flags"
      <4>1. p.data \in Data BY <3>2 DEF Part
      <4> QED BY <3>2, <4>1, WrittenType DEF PartTokens
    <3> QED BY <3>1, <3>2
  <2>3. Written(d) = <<Tok("external", d.cls)>>
                     \o FlattenSeq([k \in DOMAIN d.parts |-> PartTokens(d.parts[k])])
    BY <1>2, DataAssumption DEF Layout, WrittenPart, PartTokens
  <2>4. Comps(d) = [k \in DOMAIN d.parts |-> PartTokens(d.parts[k])] BY <1>2 DEF Comps
  <2> HIDE DEF Part
  <2>8. \A k \in DOMAIN d.parts : PartTokens(d.parts[k]) \in Seq(TokenSet)
    <3>1. \A k \in DOMAIN d.parts : d.parts[k] \in Part BY <2>1
    <3> QED BY <2>2, <3>1
  <2>9. DOMAIN d.parts = 1 .. Len(d.parts) /\ Len(d.parts) \in Nat BY <2>1
  <2>5. Comps(d) \in Seq(Seq(TokenSet)) /\ Len(Comps(d)) = Len(d.parts)
    <3>1. Comps(d) \in [1 .. Len(d.parts) -> Seq(TokenSet)] BY <2>4, <2>8, <2>9
    <3> QED BY <2>9, <3>1
  <2>6. Written(d) = <<HeadTok(d)>> \o FlattenSeq(Comps(d)) BY <1>2, <2>3, <2>4 DEF HeadTok
  <2>7. Size(d) = Len(d.parts) /\ Len(d.parts) \in Nat BY <1>2, <2>1 DEF Size
  <2> QED BY <1>2, <2>1, <2>5, <2>6, <2>7
<1>4. G BY <1>1, <1>2 DEF Composite
<1> HIDE DEF G
<1>3. HeadTok(d) \in TokenSet
  <2>1. Written(d) = <<HeadTok(d)>> \o FlattenSeq(Comps(d)) /\ Comps(d) \in Seq(Seq(TokenSet))
    BY <1>4 DEF G
  <2>2. FlattenSeq(Comps(d)) \in Seq(TokenSet)
    <3>1. Len(Comps(d)) \in 0 .. Len(Comps(d)) BY <2>1
    <3> QED BY <2>1, <3>1, FlatStep
  <2>3. PICK f : f = FlattenSeq(Comps(d)) OBVIOUS
  <2>4. f \in Seq(TokenSet) BY <2>2, <2>3
  <2>5. 1 \in 1 .. Len(Written(d)) /\ Written(d)[1] = HeadTok(d) BY <2>1, <2>3, <2>4
  <2>6. Written(d) \in Seq(TokenSet) BY WrittenType
  <2> QED BY <2>5, <2>6
<1> QED BY <1>3, <1>4 DEF G

LEMMA Places ==
  ASSUME NEW d \in Data, Composite(d), NEW b \in Nat \ {0}
  PROVE  /\ Place(d, b, 0) = b + 1
         /\ \A k \in 0 .. Size(d) : Place(d, b, k) \in Nat \ {0}
         /\ \A k \in 0 .. Size(d) - 1 : Place(d, b, k + 1) = Place(d, b, k) + Len(Comps(d)[k + 1])
         /\ Place(d, b, Size(d)) = b + Len(Written(d))
<1>1. PICK c : c = Comps(d) OBVIOUS
<1>2. /\ c \in Seq(Seq(TokenSet)) /\ Len(c) = Size(d) /\ Size(d) \in Nat
      /\ Written(d) = <<HeadTok(d)>> \o FlattenSeq(c) /\ HeadTok(d) \in TokenSet
  BY <1>1, CompositeWritten
<1>3. /\ Upto(c, 0) = <<>>
      /\ \A k \in 0 .. Len(c) : Upto(c, k) \in Seq(TokenSet)
      /\ \A k \in 0 .. Len(c) - 1 : Upto(c, k + 1) = Upto(c, k) \o c[k + 1]
      /\ Upto(c, Len(c)) = FlattenSeq(c)
  BY <1>2, FlatStep
<1>4. Place(d, b, 0) = b + 1 BY <1>1, <1>3 DEF Place
<1>5. \A k \in 0 .. Len(c) : Len(Upto(c, k)) \in Nat BY <1>3
<1>6. \A k \in 0 .. Size(d) : Place(d, b, k) \in Nat \ {0} BY <1>1, <1>2, <1>5 DEF Place
<1>7. ASSUME NEW k \in 0 .. Size(d) - 1
      PROVE  Place(d, b, k + 1) = Place(d, b, k) + Len(Comps(d)[k + 1])
  <2>1. k \in 0 .. Len(c) /\ k + 1 \in 1 .. Len(c) BY <1>2
  <2>2. Upto(c, k) \in Seq(TokenSet) /\ c[k + 1] \in Seq(TokenSet) BY <2>1, <1>2, <1>3
  <2>3. Len(Upto(c, k + 1)) = Len(Upto(c, k)) + Len(c[k + 1]) BY <2>1, <2>2, <1>2, <1>3
  <2>4. Len(Upto(c, k)) \in Nat /\ Len(c[k + 1]) \in Nat BY <2>2
  <2>5. Place(d, b, k + 1) = b + 1 + Len(Upto(c, k + 1)) /\ Place(d, b, k) = b + 1 + Len(Upto(c, k))
    BY <1>1 DEF Place
  <2>6. \A x, y \in Nat : b + 1 + (x + y) = b + 1 + x + y OBVIOUS
  <2>7. Comps(d)[k + 1] = c[k + 1] BY <1>1
  <2> QED BY <2>3, <2>4, <2>5, <2>6, <2>7
<1>8. Place(d, b, Size(d)) = b + Len(Written(d))
  <2>1. PICK f : f = FlattenSeq(c) OBVIOUS
  <2>2. f \in Seq(TokenSet) /\ f = Upto(c, Size(d)) BY <2>1, <1>2, <1>3
  <2>3. PICK h : h = HeadTok(d) OBVIOUS
  <2>4. Len(<<h>> \o f) = 1 + Len(f) /\ Len(f) \in Nat BY <2>2, <2>3, <1>2
  <2>5. Written(d) = <<h>> \o f BY <2>1, <2>3, <1>2
  <2>6. Place(d, b, Size(d)) = b + 1 + Len(f) BY <2>2, <1>1 DEF Place
  <2> QED BY <2>4, <2>5, <2>6
<1> QED BY <1>4, <1>6, <1>7, <1>8

LEMMA CompsLie ==
  ASSUME NEW d \in Data, Composite(d), NEW b \in Nat \ {0}, NEW F \in Seq(TokenSet),
         Lies(F, b, Written(d))
  PROVE  /\ b \in 1 .. Len(F) /\ F[b] = HeadTok(d)
         /\ \A k \in 0 .. Size(d) - 1 : Lies(F, Place(d, b, k), Comps(d)[k + 1])
<1>1. PICK c, f, h : c = Comps(d) /\ f = FlattenSeq(c) /\ h = HeadTok(d) OBVIOUS
<1>2. /\ c \in Seq(Seq(TokenSet)) /\ Len(c) = Size(d) /\ Size(d) \in Nat
      /\ Written(d) = <<h>> \o f /\ h \in TokenSet
  BY <1>1, CompositeWritten
<1>3. f \in Seq(TokenSet)
  <2>1. Len(c) \in 0 .. Len(c) BY <1>2
  <2> QED BY <2>1, <1>1, <1>2, FlatStep
<1>4. <<h>> \in Seq(TokenSet) /\ Len(<<h>>) = 1 /\ <<h>>[1] = h BY <1>2
<1>5. Lies(F, b, <<h>>) /\ Lies(F, b + 1, f) BY <1>2, <1>3, <1>4, LiesParts
<1>6. b \in 1 .. Len(F) /\ F[b] = h
  <2>1. 1 \in 1 .. Len(<<h>>) /\ b + 1 - 1 = b BY <1>4
  <2> QED BY <2>1, <1>4, <1>5 DEF Lies
<1>7. ASSUME NEW k \in 0 .. Size(d) - 1 PROVE Lies(F, Place(d, b, k), Comps(d)[k + 1])
  <2>1. k \in 0 .. Len(c) - 1 /\ b + 1 \in Nat \ {0} BY <1>2
  <2>2. Lies(F, b + 1, FlattenSeq(c)) BY <1>1, <1>5
  <2>3. Lies(F, b + 1 + Len(Upto(c, k)), c[k + 1]) BY <2>1, <2>2, <1>2, LiesFlat
  <2> QED BY <2>3, <1>1 DEF Place
<1> QED BY <1>1, <1>6, <1>7

\* An item has fewer tokens than the array.
LEMMA ItemsShorter ==
  ASSUME NEW d \in Data, d.is = "array", NEW k \in 1 .. Size(d)
  PROVE  Len(Written(d.items[k])) < Len(Written(d))
<1>1. PICK ss, w : ss = Comps(d) /\ w = Written(d) OBVIOUS
<1>2. Composite(d) BY DEF Composite
<1>3. ss \in Seq(Seq(TokenSet)) /\ Len(ss) = Size(d) /\ Size(d) \in Nat
      /\ w = <<HeadTok(d)>> \o FlattenSeq(ss) /\ HeadTok(d) \in TokenSet
  BY <1>1, <1>2, CompositeWritten
<1>4. w \in Seq(TokenSet) /\ Len(w) \in Nat BY <1>1, WrittenType
<1>5. ss[k] = Written(d.items[k])
  <2>1. DOMAIN d.items = 1 .. Size(d)
    <3>1. d.items \in Seq(Data) BY DataAssumption
    <3> QED BY <3>1 DEF Size
  <2> QED BY <2>1, <1>1 DEF Comps
<1>6. Lies(w, 1, w)
  <2>1. \A i \in 1 .. Len(w) : 1 + i - 1 = i OBVIOUS
  <2> QED BY <2>1 DEF Lies
<1>7. k - 1 \in 0 .. Size(d) - 1 /\ k - 1 + 1 = k BY <1>3
<1>8. Lies(w, Place(d, 1, k - 1), ss[k])
  <2>1. 1 \in Nat \ {0} /\ Lies(w, 1, Written(d)) BY <1>1, <1>6
  <2>2. \A i \in 0 .. Size(d) - 1 : Lies(w, Place(d, 1, i), ss[i + 1])
    BY <2>1, <1>1, <1>2, <1>4, CompsLie
  <2> QED BY <2>2, <1>7
<1>9. Place(d, 1, k - 1) = 2 + Len(Upto(ss, k - 1)) /\ Len(Upto(ss, k - 1)) \in Nat
  <2>1. k - 1 \in 0 .. Len(ss) BY <1>3
  <2>2. Upto(ss, k - 1) \in Seq(TokenSet) BY <2>1, <1>3, FlatStep
  <2> QED BY <2>2, <1>1 DEF Place
<1>10. d.items[k] \in Data
  <2>1. d.items \in Seq(Data) BY DataAssumption
  <2> QED BY <2>1 DEF Size
<1>11. PICK p, s : p = 2 + Len(Upto(ss, k - 1)) /\ s = ss[k] OBVIOUS
<1>12. p \in Nat /\ p >= 2 /\ Lies(w, p, s) /\ Len(s) \in Nat
  BY <1>5, <1>8, <1>9, <1>10, <1>11, WrittenType
<1>13. Len(s) # 0 => Len(s) \in 1 .. Len(s) BY <1>12
<1>14. Len(s) # 0 => p + Len(s) - 1 <= Len(w) BY <1>12, <1>13, <1>4 DEF Lies
<1>15. Len(w) >= 1
  <2>1. PICK h, g : h = <<HeadTok(d)>> /\ g = FlattenSeq(ss) OBVIOUS
  <2>2. h \in Seq(TokenSet) /\ Len(h) = 1 BY <1>3, <2>1
  <2>3. g \in Seq(TokenSet)
    <3>1. Len(ss) \in 0 .. Len(ss) BY <1>3
    <3> QED BY <1>3, <2>1, <3>1, FlatStep
  <2> QED BY <1>3, <2>1, <2>2, <2>3
<1> QED BY <1>1, <1>4, <1>5, <1>11, <1>12, <1>14, <1>15

-----------------------------------------------------------------------------
(***************************************************************************)
(* The parts of an external message.                                       *)
(***************************************************************************)
\* No byte of flags is announced that the class has no list of fields for.
BytesListed ==
  \A d \in Data : d.is = "external" =>
    \A k \in DOMAIN d.parts : d.parts[k].t = "flags" =>
      Len(d.parts[k].bytes) <= Len(Fields[d.cls][d.parts[k].level])

\* After the first k parts: the level, the fields of it that are to come, and
\* the attributes that are set.
LevelAt(d, k) == IF k = 0 THEN 0 ELSE d.parts[k].level
IsField(d, j, l) == d.parts[j].t = "field" /\ d.parts[j].level = l
FieldAt(d, j) ==
  [byte |-> d.parts[j].byte, bit |-> d.parts[j].bit,
   name |-> NameIn(Fields[d.cls][d.parts[j].level][d.parts[j].byte], d.parts[j].bit)]
Unread(d, k) ==
  {FieldAt(d, j) : j \in {i \in k + 1 .. Len(d.parts) : IsField(d, i, LevelAt(d, k))}}
SetUpTo(d, k) == {Sets(d.cls, d.parts[j]) : j \in 1 .. k} \ {None}
Attrs(d, k) == [x \in SetUpTo(d, k) |-> Meant(d.parts[LastSet(d, k, x)].data)]

LEMMA PartFacts ==
  ASSUME NEW d \in Data, d.is = "external"
  PROVE  /\ d.parts \in Seq(Part) /\ Len(d.parts) \in Nat /\ DOMAIN d.parts = 1 .. Len(d.parts)
         /\ d.cls \in DOMAIN Fields /\ Len(Fields[d.cls]) \in Nat
         /\ \A k \in 1 .. Len(d.parts) :
              /\ d.parts[k] \in Part
              /\ d.parts[k].level \in Nat /\ d.parts[k].level \in 1 .. Len(Fields[d.cls])
              /\ Fields[d.cls][d.parts[k].level] \in Seq(Seq(DOMAIN Attr))
              /\ d.parts[k].t \in {"flags", "field"}
              /\ d.parts[k].t = "flags" => d.parts[k].bytes \in Seq(SUBSET Nat)
              /\ d.parts[k].t = "field" => /\ d.parts[k].byte \in Nat /\ d.parts[k].bit \in Nat
                                           /\ d.parts[k].data \in Data
         /\ \A k \in 1 .. Len(d.parts) : \A j \in 1 .. k - 1 : Precedes(d.parts[j], d.parts[k])
         /\ \A l \in 1 .. Len(Fields[d.cls]) : \E k \in 1 .. Len(d.parts) :
              d.parts[k].t = "flags" /\ d.parts[k].level = l
<1>1. d.cls \in DOMAIN Fields /\ PartsInOrder(d) /\ d.parts \in Seq(Part)
  BY DataAssumption DEF PartsInOrder
<1>2. Len(d.parts) \in Nat /\ DOMAIN d.parts = 1 .. Len(d.parts) BY <1>1
<1>3. Fields[d.cls] \in Seq(Seq(Seq(DOMAIN Attr))) BY <1>1, FieldsAssumption
<1>4. Len(Fields[d.cls]) \in Nat /\ DOMAIN Fields[d.cls] = 1 .. Len(Fields[d.cls])
      /\ \A l \in 1 .. Len(Fields[d.cls]) : Fields[d.cls][l] \in Seq(Seq(DOMAIN Attr))
  BY <1>3
<1>5. ASSUME NEW k \in 1 .. Len(d.parts)
      PROVE  /\ d.parts[k] \in Part
             /\ d.parts[k].level \in Nat /\ d.parts[k].level \in 1 .. Len(Fields[d.cls])
             /\ d.parts[k].t \in {"flags", "field"}
             /\ d.parts[k].t = "flags" => d.parts[k].bytes \in Seq(SUBSET Nat)
             /\ d.parts[k].t = "field" => /\ d.parts[k].byte \in Nat /\ d.parts[k].bit \in Nat
                                          /\ d.parts[k].data \in Data
  <2>1. d.parts[k] \in Part BY <1>1, <1>2
  <2>2. d.parts[k].level \in 1 .. Len(Fields[d.cls]) BY <1>1, <1>2, <1>4 DEF PartsInOrder
  <2>3. PICK p : p = d.parts[k] OBVIOUS
  <2>4. p \in Part BY <2>1, <2>3
  <2>5. /\ p.t \in {"flags", "field"} /\ p.level \in Nat
        /\ p.t = "flags" => p.bytes \in Seq(SUBSET Nat)
        /\ p.t = "field" => p.byte \in Nat /\ p.bit \in Nat /\ p.data \in Data
    BY <2>4 DEF Part
  <2> QED BY <2>1, <2>2, <2>3, <2>5
<1>6. \A j \in 1 .. Len(d.parts) : \A k \in j + 1 .. Len(d.parts) : Precedes(d.parts[j], d.parts[k])
  BY <1>1, <1>2 DEF PartsInOrder
<1>7. ASSUME NEW k \in 1 .. Len(d.parts), NEW j \in 1 .. k - 1
      PROVE  Precedes(d.parts[j], d.parts[k])
  <2>1. j \in 1 .. Len(d.parts) /\ k \in j + 1 .. Len(d.parts) BY <1>2
  <2> QED BY <2>1, <1>6
<1>8. \A l \in 1 .. Len(Fields[d.cls]) : \E k \in 1 .. Len(d.parts) :
        d.parts[k].t = "flags" /\ d.parts[k].level = l
  BY <1>1, <1>2, <1>4 DEF PartsInOrder
<1>9. \A k \in 1 .. Len(d.parts) : Fields[d.cls][d.parts[k].level] \in Seq(Seq(DOMAIN Attr))
  BY <1>4, <1>5
<1> QED BY <1>1, <1>2, <1>4, <1>5, <1>7, <1>8, <1>9

\* The fields of a level are those that its flags announce.
LEMMA FieldBits ==
  ASSUME NEW d \in Data, d.is = "external", NEW k \in 1 .. Len(d.parts), d.parts[k].t = "flags"
  PROVE  /\ \A j \in 1 .. Len(d.parts) : IsField(d, j, d.parts[k].level) =>
              /\ d.parts[j].byte \in DOMAIN d.parts[k].bytes
              /\ d.parts[j].bit \in d.parts[k].bytes[d.parts[j].byte] \ {HighBit}
         /\ \A i \in DOMAIN d.parts[k].bytes : \A b \in d.parts[k].bytes[i] \ {HighBit} :
              \E j \in 1 .. Len(d.parts) :
                IsField(d, j, d.parts[k].level) /\ d.parts[j].byte = i /\ d.parts[j].bit = b
<1>1. PartsInOrder(d) BY DataAssumption
<1>2. DOMAIN d.parts = 1 .. Len(d.parts) BY PartFacts
<1> DEFINE fields == {q \in ToSet(d.parts) : q.t = "field" /\ q.level = d.parts[k].level}
           bytes == d.parts[k].bytes
<1>3. {<<p.byte, p.bit>> : p \in fields} = UNION {{i} \X (bytes[i] \ {HighBit}) : i \in DOMAIN bytes}
  BY <1>1, <1>2 DEF PartsInOrder
<1>4. \A j \in 1 .. Len(d.parts) : IsField(d, j, d.parts[k].level) => d.parts[j] \in fields
  BY <1>2 DEF IsField, ToSet
<1>5. \A q \in fields : \E j \in 1 .. Len(d.parts) : q = d.parts[j] /\ IsField(d, j, d.parts[k].level)
  BY <1>2 DEF IsField, ToSet
<1> HIDE DEF fields, bytes
<1>6. ASSUME NEW j \in 1 .. Len(d.parts), IsField(d, j, d.parts[k].level)
      PROVE  d.parts[j].byte \in DOMAIN bytes /\ d.parts[j].bit \in bytes[d.parts[j].byte] \ {HighBit}
  <2>1. <<d.parts[j].byte, d.parts[j].bit>> \in {<<p.byte, p.bit>> : p \in fields} BY <1>4, <1>6
  <2>2. PICK i \in DOMAIN bytes : <<d.parts[j].byte, d.parts[j].bit>> \in {i} \X (bytes[i] \ {HighBit})
    BY <2>1, <1>3
  <2> QED BY <2>2
<1>7. ASSUME NEW i \in DOMAIN bytes, NEW b \in bytes[i] \ {HighBit}
      PROVE  \E j \in 1 .. Len(d.parts) :
               IsField(d, j, d.parts[k].level) /\ d.parts[j].byte = i /\ d.parts[j].bit = b
  <2>1. <<i, b>> \in {i} \X (bytes[i] \ {HighBit}) OBVIOUS
  <2>2. <<i, b>> \in {<<p.byte, p.bit>> : p \in fields} BY <2>1, <1>3
  <2>3. PICK p \in fields : <<i, b>> = <<p.byte, p.bit>> BY <2>2
  <2>4. i = p.byte /\ b = p.bit BY <2>3
  <2> QED BY <2>4, <1>5
<1> QED BY <1>6, <1>7 DEF bytes

\* Levels do not go down.
LEMMA LevelsRise ==
  ASSUME NEW d \in Data, d.is = "external", NEW k \in 0 .. Len(d.parts)
  PROVE  /\ LevelAt(d, k) \in Nat
         /\ \A j \in 1 .. k : d.parts[j].level <= LevelAt(d, k)
         /\ \A j \in k + 1 .. Len(d.parts) : LevelAt(d, k) <= d.parts[j].level
<1>1. /\ Len(d.parts) \in Nat
      /\ \A j \in 1 .. Len(d.parts) : d.parts[j].level \in Nat
      /\ \A m \in 1 .. Len(d.parts) : \A j \in 1 .. m - 1 : Precedes(d.parts[j], d.parts[m])
  BY PartFacts
<1>2. \A m \in 1 .. Len(d.parts) : \A j \in 1 .. m - 1 : d.parts[j].level <= d.parts[m].level
  BY <1>1 DEF Precedes
<1> QED BY <1>1, <1>2 DEF LevelAt

\* Flags that follow are those of the next level, when every field of the last
\* level has been read.
LEMMA FlagsStep ==
  ASSUME BytesListed, NEW d \in Data, d.is = "external", NEW k \in 0 .. Len(d.parts) - 1,
         d.parts[k + 1].t = "flags"
  PROVE  /\ Unread(d, k) = {} /\ d.parts[k + 1].level = LevelAt(d, k) + 1
         /\ LevelAt(d, k) + 1 \in 1 .. Len(Fields[d.cls])
         /\ Unread(d, k + 1) = Todo(Fields[d.cls][LevelAt(d, k) + 1], d.parts[k + 1].bytes)
         /\ Attrs(d, k + 1) = Attrs(d, k)
<1> DEFINE n == Len(d.parts)
           l == LevelAt(d, k)
           lists == Fields[d.cls][l + 1]
           bytes == d.parts[k + 1].bytes
<1>1. /\ n \in Nat /\ k + 1 \in 1 .. n /\ k \in 0 .. n
      /\ \A j \in 1 .. n : d.parts[j].level \in Nat /\ d.parts[j].level \in 1 .. Len(Fields[d.cls])
      /\ \A m \in 1 .. n : \A j \in 1 .. m - 1 : Precedes(d.parts[j], d.parts[m])
      /\ \A i \in 1 .. Len(Fields[d.cls]) : \E m \in 1 .. n :
           d.parts[m].t = "flags" /\ d.parts[m].level = i
  BY PartFacts
<1>2. /\ l \in Nat /\ \A j \in 1 .. k : d.parts[j].level <= l
      /\ \A j \in k + 1 .. n : l <= d.parts[j].level
  BY <1>1, LevelsRise
<1>3. l < d.parts[k + 1].level
  <2>1. CASE k = 0 BY <2>1, <1>1 DEF LevelAt
  <2>2. CASE k # 0
    <3>1. k \in 1 .. k + 1 - 1 BY <2>2, <1>1
    <3>2. Precedes(d.parts[k], d.parts[k + 1]) BY <3>1, <1>1
    <3> QED BY <3>2, <2>2, <1>1 DEF Precedes, LevelAt
  <2> QED BY <2>1, <2>2
<1>4. d.parts[k + 1].level = l + 1
  <2> SUFFICES ASSUME l + 1 < d.parts[k + 1].level PROVE FALSE BY <1>1, <1>2, <1>3
  <2>1. l + 1 \in 1 .. Len(Fields[d.cls]) BY <1>1, <1>2
  <2>2. PICK m \in 1 .. n : d.parts[m].t = "flags" /\ d.parts[m].level = l + 1 BY <2>1, <1>1
  <2>3. ~(m \in 1 .. k) BY <2>2, <1>2
  <2>4. m # k + 1 BY <2>2, <1>1, <1>2
  <2>7. m \in Nat /\ m >= 1 /\ ~(m <= k) BY <2>3, <1>1
  <2>5. k + 1 \in 1 .. m - 1 BY <2>4, <2>7, <1>1
  <2>6. Precedes(d.parts[k + 1], d.parts[m]) BY <2>5, <1>1
  <2> QED BY <2>2, <2>6, <1>1, <1>2 DEF Precedes
<1>5. Unread(d, k) = {}
  <2>1. ASSUME NEW j \in k + 1 .. n, IsField(d, j, l) PROVE FALSE
    <3>1. j # k + 1 BY <2>1 DEF IsField
    <3>2. k + 1 \in 1 .. j - 1 /\ j \in 1 .. n BY <3>1, <1>1
    <3>3. Precedes(d.parts[k + 1], d.parts[j]) BY <3>2, <1>1
    <3> QED BY <3>2, <3>3, <2>1, <1>1, <1>2, <1>4 DEF Precedes, IsField
  <2> QED BY <2>1 DEF Unread
<1>6. LevelAt(d, k + 1) = l + 1 BY <1>1, <1>4 DEF LevelAt
<1>7. l + 1 \in 1 .. Len(Fields[d.cls]) BY <1>1, <1>4
<1>8. Unread(d, k + 1) = Todo(lists, bytes)
  <2> DEFINE Rec(i, b) == [byte |-> i, bit |-> b, name |-> NameIn(lists[i], b)]
  <2>1. \A j \in 1 .. n : IsField(d, j, l + 1) =>
          /\ j \in k + 2 .. n
          /\ d.parts[j].byte \in DOMAIN bytes /\ d.parts[j].bit \in bytes[d.parts[j].byte] \ {HighBit}
          /\ FieldAt(d, j) = Rec(d.parts[j].byte, d.parts[j].bit)
    <3> SUFFICES ASSUME NEW j \in 1 .. n, IsField(d, j, l + 1)
                 PROVE  /\ j \in k + 2 .. n
                        /\ d.parts[j].byte \in DOMAIN bytes
                        /\ d.parts[j].bit \in bytes[d.parts[j].byte] \ {HighBit}
                        /\ FieldAt(d, j) = Rec(d.parts[j].byte, d.parts[j].bit)
      OBVIOUS
    <3>1. ~(j \in 1 .. k) BY <1>2 DEF IsField
    <3>2. j # k + 1 BY DEF IsField
    <3>3. IsField(d, j, d.parts[k + 1].level) BY <1>4
    <3>4. d.parts[j].byte \in DOMAIN bytes /\ d.parts[j].bit \in bytes[d.parts[j].byte] \ {HighBit}
      BY <3>3, <1>1, FieldBits
    <3>5. FieldAt(d, j) = Rec(d.parts[j].byte, d.parts[j].bit) BY DEF FieldAt, IsField
    <3> QED BY <3>1, <3>2, <3>4, <3>5, <1>1
  <2>2. \A i \in DOMAIN bytes : \A b \in bytes[i] \ {HighBit} : \E j \in k + 2 .. n :
          IsField(d, j, l + 1) /\ FieldAt(d, j) = Rec(i, b)
    <3> SUFFICES ASSUME NEW i \in DOMAIN bytes, NEW b \in bytes[i] \ {HighBit}
                 PROVE  \E j \in k + 2 .. n : IsField(d, j, l + 1) /\ FieldAt(d, j) = Rec(i, b)
      OBVIOUS
    <3>1. PICK j \in 1 .. n :
            IsField(d, j, d.parts[k + 1].level) /\ d.parts[j].byte = i /\ d.parts[j].bit = b
      BY <1>1, FieldBits
    <3>2. IsField(d, j, l + 1) BY <3>1, <1>4
    <3> QED BY <3>1, <3>2, <2>1
  <2>3. \A f : f \in Unread(d, k + 1) <=>
               \E j \in k + 2 .. n : IsField(d, j, l + 1) /\ f = FieldAt(d, j)
    <3>1. k + 1 + 1 = k + 2 BY <1>1
    <3> QED BY <3>1, <1>6 DEF Unread
  <2>4. bytes \in Seq(SUBSET Nat) /\ lists \in Seq(Seq(DOMAIN Attr)) /\ Len(bytes) <= Len(lists)
    <3>1. bytes \in Seq(SUBSET Nat) /\ Fields[d.cls][d.parts[k + 1].level] \in Seq(Seq(DOMAIN Attr))
          /\ DOMAIN d.parts = 1 .. n
      BY <1>1, PartFacts
    <3> QED BY <3>1, <1>1, <1>4 DEF BytesListed
  <2>5. DOMAIN lists \cap DOMAIN bytes = DOMAIN bytes
    <3>1. DOMAIN lists = 1 .. Len(lists) /\ DOMAIN bytes = 1 .. Len(bytes)
          /\ Len(lists) \in Nat /\ Len(bytes) \in Nat
      BY <2>4
    <3> QED BY <3>1, <2>4
  <2>6. ASSUME NEW i \in DOMAIN bytes
        PROVE  Announced(lists[i], bytes[i]) \cup BeyondList(lists[i], bytes[i]) = bytes[i] \ {HighBit}
    <3>1. i \in DOMAIN lists /\ lists[i] \in Seq(DOMAIN Attr) /\ bytes[i] \in SUBSET Nat
      BY <2>4, <2>5
    <3>2. Len(lists[i]) \in Nat /\ Len(lists[i]) <= HighBit /\ HighBit \in Nat
      <4>1. d.cls \in DOMAIN Fields BY PartFacts
      <4>2. Fields[d.cls] \in Seq(Seq(Seq(DOMAIN Attr))) BY <4>1, FieldsAssumption
      <4>3. l + 1 \in DOMAIN Fields[d.cls] BY <4>2, <1>7
      <4> QED BY <4>1, <4>3, <3>1, FieldsAssumption
    <3> HIDE DEF lists, bytes
    <3> QED BY <3>1, <3>2 DEF Announced, BeyondList
  <2>7. \A f : f \in Todo(lists, bytes) <=>
               \E i \in DOMAIN bytes : \E b \in bytes[i] \ {HighBit} : f = Rec(i, b)
    <3>1. Todo(lists, bytes) = UNION {{Rec(i, b) : b \in bytes[i] \ {HighBit}} : i \in DOMAIN bytes}
      BY <2>5, <2>6 DEF Todo
    <3> HIDE DEF Rec, lists, bytes
    <3> QED BY <3>1
  <2> HIDE DEF Rec, lists, bytes
  <2>8. \A f : f \in Unread(d, k + 1) <=> f \in Todo(lists, bytes)
    <3>1. ASSUME NEW f \in Unread(d, k + 1) PROVE f \in Todo(lists, bytes)
      <4>1. PICK j \in k + 2 .. n : IsField(d, j, l + 1) /\ f = FieldAt(d, j) BY <2>3
      <4>2. j \in 1 .. n BY <1>1
      <4> QED BY <4>1, <4>2, <2>1, <2>7
    <3>2. ASSUME NEW f \in Todo(lists, bytes) PROVE f \in Unread(d, k + 1)
      BY <2>2, <2>3, <2>7
    <3> QED BY <3>1, <3>2
  <2> QED BY <2>8
<1>9. Attrs(d, k + 1) = Attrs(d, k)
  <2>1. Sets(d.cls, d.parts[k + 1]) = None BY DEF Sets
  <2>2. SetUpTo(d, k + 1) = SetUpTo(d, k)
    <3>1. \A j : j \in 1 .. k + 1 <=> j \in 1 .. k \/ j = k + 1 BY <1>1
    <3> QED BY <3>1, <2>1 DEF SetUpTo
  <2>3. \A x \in SetUpTo(d, k) : LastSets(d, k + 1, x) = LastSets(d, k, x)
    <3> SUFFICES ASSUME NEW x, x # None PROVE LastSets(d, k + 1, x) = LastSets(d, k, x)
      BY DEF SetUpTo
    <3>1. \A j \in 1 .. k : \A i : i \in j + 1 .. k + 1 <=> i \in j + 1 .. k \/ i = k + 1 BY <1>1
    <3>2. \A j : j \in 1 .. k + 1 <=> j \in 1 .. k \/ j = k + 1 BY <1>1
    <3> QED BY <3>1, <3>2, <2>1 DEF LastSets
  <2>4. \A x \in SetUpTo(d, k) : LastSet(d, k + 1, x) = LastSet(d, k, x)
    BY <2>3, Zenon DEF LastSet
  <2> QED BY <2>2, <2>4 DEF Attrs
<1> QED BY <1>4, <1>5, <1>7, <1>8, <1>9

\* Only nil is read as nil.
LEMMA NilMeant ==
  ASSUME NEW d \in Data
  PROVE  IsNil(d) <=> Meant(d) = Nil
<1>1. Meant(d) = Meaning(d, Meant) /\ d.is \in {"value", "array", "external"} BY DataAssumption
<1>2. CASE d.is = "value" BY <1>1, <1>2 DEF Meaning, IsNil
<1>3. CASE d.is = "array" BY <1>1, <1>3 DEF Meaning, IsNil, Nil
<1>4. CASE d.is = "external" BY <1>1, <1>4 DEF Meaning, IsNil, Nil
<1> QED BY <1>1, <1>2, <1>3, <1>4

\* A field that follows is the next of its level, and sets its attribute.
LEMMA FieldStep ==
  ASSUME BytesListed, NEW d \in Data, d.is = "external", NEW k \in 0 .. Len(d.parts) - 1,
         d.parts[k + 1].t = "field"
  PROVE  /\ Unread(d, k) # {} /\ NextField(Unread(d, k)) = FieldAt(d, k + 1)
         /\ LevelAt(d, k + 1) = LevelAt(d, k)
         /\ Unread(d, k + 1) = Unread(d, k) \ {FieldAt(d, k + 1)}
         /\ Attrs(d, k + 1)
            = Assigned(Attrs(d, k), FieldAt(d, k + 1).name, Meant(d.parts[k + 1].data))
<1> DEFINE n == Len(d.parts)
           l == LevelAt(d, k)
           p == d.parts[k + 1]
<1>1. /\ n \in Nat /\ k + 1 \in 1 .. n /\ k \in 0 .. n
      /\ \A j \in 1 .. n : d.parts[j].level \in Nat /\ d.parts[j].level \in 1 .. Len(Fields[d.cls])
      /\ \A m \in 1 .. n : \A j \in 1 .. m - 1 : Precedes(d.parts[j], d.parts[m])
      /\ \A i \in 1 .. Len(Fields[d.cls]) : \E m \in 1 .. n :
           d.parts[m].t = "flags" /\ d.parts[m].level = i
  BY PartFacts
<1>2. /\ l \in Nat /\ \A j \in 1 .. k : d.parts[j].level <= l
      /\ \A j \in k + 1 .. n : l <= d.parts[j].level
  BY <1>1, LevelsRise
<1>3. \A j \in 1 .. n : d.parts[j].t = "field" => d.parts[j].byte \in Nat /\ d.parts[j].bit \in Nat
  BY PartFacts
<1>4. PICK m \in 1 .. n : d.parts[m].t = "flags" /\ d.parts[m].level = p.level BY <1>1
<1>5. m \in 1 .. k
  <2> SUFFICES ASSUME ~(m <= k) PROVE FALSE BY <1>1
  <2>1. m # k + 1 BY <1>4
  <2>2. k + 1 \in 1 .. m - 1 BY <2>1, <1>1
  <2>3. Precedes(d.parts[k + 1], d.parts[m]) BY <2>2, <1>1
  <2> QED BY <2>3, <1>1, <1>4 DEF Precedes
<1>6. p.level = l BY <1>1, <1>2, <1>4, <1>5
<1>7. LevelAt(d, k + 1) = l BY <1>1, <1>6 DEF LevelAt
<1>8. IsField(d, k + 1, l) BY <1>6 DEF IsField
<1>9. \A f : f \in Unread(d, k) <=>
             f = FieldAt(d, k + 1) \/ \E j \in k + 2 .. n : IsField(d, j, l) /\ f = FieldAt(d, j)
  <2>1. \A j : j \in k + 1 .. n <=> j = k + 1 \/ j \in k + 2 .. n BY <1>1
  <2> QED BY <2>1, <1>8 DEF Unread
<1>10. \A f : f \in Unread(d, k + 1) <=> \E j \in k + 2 .. n : IsField(d, j, l) /\ f = FieldAt(d, j)
  <2>1. k + 1 + 1 = k + 2 BY <1>1
  <2> QED BY <2>1, <1>7 DEF Unread
<1> DEFINE Before(c, e) == c.byte < e.byte \/ (c.byte = e.byte /\ c.bit < e.bit)
<1>11. ASSUME NEW j \in k + 2 .. n, IsField(d, j, l)
       PROVE  /\ Before(FieldAt(d, k + 1), FieldAt(d, j))
              /\ FieldAt(d, k + 1).byte \in Nat /\ FieldAt(d, k + 1).bit \in Nat
              /\ FieldAt(d, j).byte \in Nat /\ FieldAt(d, j).bit \in Nat
  <2>1. j \in 1 .. n /\ k + 1 \in 1 .. j - 1 BY <1>1
  <2>2. Precedes(p, d.parts[j]) BY <2>1, <1>1
  <2>3. p.byte < d.parts[j].byte \/ (p.byte = d.parts[j].byte /\ p.bit < d.parts[j].bit)
    BY <2>1, <2>2, <1>1, <1>2, <1>6, <1>11 DEF Precedes, IsField
  <2>4. p.byte \in Nat /\ p.bit \in Nat /\ d.parts[j].byte \in Nat /\ d.parts[j].bit \in Nat
    BY <2>1, <1>1, <1>3, <1>11 DEF IsField
  <2> QED BY <2>3, <2>4 DEF FieldAt
<1>12. FieldAt(d, k + 1) \in Unread(d, k) BY <1>9
<1>13. NextField(Unread(d, k)) = FieldAt(d, k + 1)
  <2> DEFINE first == FieldAt(d, k + 1)
             OK(c) == \A e \in Unread(d, k) : c.byte < e.byte \/ (c.byte = e.byte /\ c.bit <= e.bit)
  <2>1. first.byte \in Nat /\ first.bit \in Nat BY <1>1, <1>3 DEF FieldAt
  <2>2. OK(first)
    <3> SUFFICES ASSUME NEW e \in Unread(d, k)
                 PROVE  first.byte < e.byte \/ (first.byte = e.byte /\ first.bit <= e.bit)
      OBVIOUS
    <3> QED BY <2>1, <1>9, <1>11
  <2>3. ASSUME NEW c \in Unread(d, k), OK(c) PROVE c = first
    <3> SUFFICES ASSUME c # first PROVE FALSE OBVIOUS
    <3>1. PICK j \in k + 2 .. n : IsField(d, j, l) /\ c = FieldAt(d, j) BY <1>9
    <3>2. c.byte < first.byte \/ (c.byte = first.byte /\ c.bit <= first.bit) BY <2>3, <1>12
    <3> HIDE DEF first
    <3>3. Before(first, c) /\ c.byte \in Nat /\ c.bit \in Nat BY <3>1, <1>11 DEF first
    <3> QED BY <3>2, <3>3, <2>1
  <2> HIDE DEF OK, first
  <2>4. NextField(Unread(d, k)) = CHOOSE c \in Unread(d, k) : OK(c) BY DEF NextField, OK
  <2>5. first \in Unread(d, k) BY <1>12 DEF first
  <2> QED BY <2>2, <2>3, <2>4, <2>5 DEF first
<1>14. Unread(d, k + 1) = Unread(d, k) \ {FieldAt(d, k + 1)}
  <2>1. \A j \in k + 2 .. n : IsField(d, j, l) => FieldAt(d, j) # FieldAt(d, k + 1)
    <3> SUFFICES ASSUME NEW j \in k + 2 .. n, IsField(d, j, l), FieldAt(d, j) = FieldAt(d, k + 1)
                 PROVE  FALSE
      OBVIOUS
    <3>1. PICK c : c = FieldAt(d, j) OBVIOUS
    <3>2. Before(c, c) /\ c.byte \in Nat /\ c.bit \in Nat BY <3>1, <1>11
    <3> QED BY <3>2
  <2>2. \A f : f \in Unread(d, k + 1) <=> f \in Unread(d, k) \ {FieldAt(d, k + 1)}
    BY <2>1, <1>9, <1>10
  <2> QED BY <2>2
<1>15. Attrs(d, k + 1) = Assigned(Attrs(d, k), FieldAt(d, k + 1).name, Meant(p.data))
  <2> DEFINE list == Fields[d.cls][l][p.byte]
             s == Sets(d.cls, p)
  <2>1. /\ p.byte \in 1 .. Len(Fields[d.cls][l]) /\ list \in Seq(DOMAIN Attr)
        /\ p.bit \in Nat /\ Len(list) \in Nat
    <3>1. d.parts[m].bytes \in Seq(SUBSET Nat) /\ Fields[d.cls][l] \in Seq(Seq(DOMAIN Attr))
          /\ DOMAIN d.parts = 1 .. n /\ p.bit \in Nat
      BY <1>1, <1>4, <1>6, PartFacts
    <3>2. p.byte \in DOMAIN d.parts[m].bytes BY <1>1, <1>4, <1>6, <1>8, FieldBits
    <3>3. Len(d.parts[m].bytes) <= Len(Fields[d.cls][l]) BY <3>1, <1>4, <1>6 DEF BytesListed
    <3>4. p.byte \in 1 .. Len(d.parts[m].bytes) /\ Len(d.parts[m].bytes) \in Nat BY <3>1, <3>2
    <3>5. p.byte \in 1 .. Len(Fields[d.cls][l]) BY <3>1, <3>3, <3>4
    <3>6. list \in Seq(DOMAIN Attr) BY <3>1, <3>5
    <3> QED BY <3>1, <3>5, <3>6
  <2>2. FieldAt(d, k + 1).name = NameIn(list, p.bit) BY <1>6 DEF FieldAt
  <2>3. s = IF p.bit < Len(list) THEN SetsTo(list[p.bit + 1], p.data) ELSE None
    BY <2>1, <1>6 DEF Sets
  <2>4. \A j : j \in 1 .. k + 1 <=> j \in 1 .. k \/ j = k + 1 BY <1>1
  <2>5. \A x : x \in SetUpTo(d, k + 1) <=> x \in SetUpTo(d, k) \/ (x = s /\ s # None)
    BY <2>4 DEF SetUpTo
  <2>6. \A x : x # s => LastSet(d, k + 1, x) = LastSet(d, k, x)
    <3> SUFFICES ASSUME NEW x, x # s PROVE LastSet(d, k + 1, x) = LastSet(d, k, x)
      OBVIOUS
    <3>1. \A j \in 1 .. k : \A i : i \in j + 1 .. k + 1 <=> i \in j + 1 .. k \/ i = k + 1 BY <1>1
    <3>2. LastSets(d, k + 1, x) = LastSets(d, k, x) BY <3>1, <2>4 DEF LastSets
    <3> QED BY <3>2, Zenon DEF LastSet
  <2>7. LastSet(d, k + 1, s) = k + 1
    <3>1. \A j \in 1 .. k : k + 1 \in j + 1 .. k + 1 BY <1>1
    <3>2. k + 1 + 1 .. k + 1 = {} BY <1>1
    <3>3. LastSets(d, k + 1, s) = {k + 1} BY <3>1, <3>2, <2>4 DEF LastSets
    <3>4. LastSet(d, k + 1, s) \in {k + 1} BY <3>3 DEF LastSet
    <3> QED BY <3>4
  <2> DEFINE name == list[p.bit + 1]
             ignored == IgnoresNil(name) /\ Meant(p.data) = Nil
  <2>10. IsNil(p.data) <=> Meant(p.data) = Nil BY <1>1, PartFacts, NilMeant
  <2>8. CASE p.bit < Len(list) /\ ~ignored
    <3>1. list[p.bit + 1] \in DOMAIN Attr
      <4> HIDE DEF list, p
      <4>1. \A q \in Nat, i \in Nat : q < i => q + 1 \in 1 .. i OBVIOUS
      <4>2. p.bit + 1 \in 1 .. Len(list) BY <4>1, <2>1, <2>8
      <4> QED BY <4>2, <2>1
    <3>2. FieldAt(d, k + 1).name = list[p.bit + 1] BY <2>2, <2>8 DEF NameIn
    <3>3. FieldAt(d, k + 1).name # Skipped /\ s = Attr[FieldAt(d, k + 1).name] /\ s # None
      BY <3>1, <3>2, <2>3, <2>8, <2>10, FieldsAssumption DEF SetsTo
    <3>9. ~(IgnoresNil(FieldAt(d, k + 1).name) /\ Meant(p.data) = Nil) BY <3>2, <2>8
    <3> HIDE DEF s
    <3>4. SetUpTo(d, k + 1) = SetUpTo(d, k) \cup {s} BY <3>3, <2>5
    <3>5. Assigned(Attrs(d, k), FieldAt(d, k + 1).name, Meant(p.data))
          = [x \in DOMAIN Attrs(d, k) \cup {s} |-> IF x = s THEN Meant(p.data) ELSE Attrs(d, k)[x]]
      BY <3>3, <3>9 DEF Assigned
    <3>6. DOMAIN Attrs(d, k) = SetUpTo(d, k)
          /\ \A x \in SetUpTo(d, k) : Attrs(d, k)[x] = Meant(d.parts[LastSet(d, k, x)].data)
      BY DEF Attrs
    <3>7. \A x \in SetUpTo(d, k) \cup {s} :
            Meant(d.parts[LastSet(d, k + 1, x)].data)
            = IF x = s THEN Meant(p.data) ELSE Attrs(d, k)[x]
      BY <3>6, <2>6, <2>7
    <3>8. Attrs(d, k + 1)
          = [x \in SetUpTo(d, k) \cup {s} |-> Meant(d.parts[LastSet(d, k + 1, x)].data)]
      BY <3>4 DEF Attrs
    <3> QED BY <3>5, <3>6, <3>7, <3>8
  <2>9. CASE ~(p.bit < Len(list) /\ ~ignored)
    <3>1. /\ s = None
          /\ \/ FieldAt(d, k + 1).name = Skipped
             \/ IgnoresNil(FieldAt(d, k + 1).name) /\ Meant(p.data) = Nil
      BY <2>2, <2>3, <2>9, <2>10 DEF NameIn, SetsTo
    <3>2. Assigned(Attrs(d, k), FieldAt(d, k + 1).name, Meant(p.data)) = Attrs(d, k)
      BY <3>1 DEF Assigned
    <3> HIDE DEF s
    <3>3. SetUpTo(d, k + 1) = SetUpTo(d, k) BY <3>1, <2>5
    <3>4. \A x \in SetUpTo(d, k) : LastSet(d, k + 1, x) = LastSet(d, k, x)
      BY <3>1, <2>6 DEF SetUpTo
    <3>5. \A x \in SetUpTo(d, k) : Meant(d.parts[LastSet(d, k + 1, x)].data)
                                   = Meant(d.parts[LastSet(d, k, x)].data)
      BY <3>4
    <3>6. Attrs(d, k + 1) = [x \in SetUpTo(d, k) |-> Meant(d.parts[LastSet(d, k + 1, x)].data)]
      BY <3>3 DEF Attrs
    <3>7. Attrs(d, k) = [x \in SetUpTo(d, k) |-> Meant(d.parts[LastSet(d, k, x)].data)]
      BY DEF Attrs
    <3>8. Attrs(d, k + 1) = Attrs(d, k) BY <3>5, <3>6, <3>7
    <3> QED BY <3>2, <3>8
  <2> QED BY <2>8, <2>9
<1> QED BY <1>7, <1>12, <1>13, <1>14, <1>15

LEMMA PartsEnd ==
  ASSUME NEW d \in Data, d.is = "external"
  PROVE  /\ LevelAt(d, 0) = 0 /\ Unread(d, 0) = {} /\ Attrs(d, 0) = <<>>
         /\ LevelAt(d, Len(d.parts)) = Len(Fields[d.cls]) /\ Unread(d, Len(d.parts)) = {}
<1> DEFINE n == Len(d.parts)
<1>1. /\ n \in Nat /\ Len(Fields[d.cls]) \in Nat
      /\ \A j \in 1 .. n : d.parts[j].level \in Nat /\ d.parts[j].level \in 1 .. Len(Fields[d.cls])
      /\ \A i \in 1 .. Len(Fields[d.cls]) : \E m \in 1 .. n :
           d.parts[m].t = "flags" /\ d.parts[m].level = i
  BY PartFacts
<1>2. LevelAt(d, 0) = 0 BY DEF LevelAt
<1>3. Unread(d, 0) = {} BY <1>1, <1>2 DEF Unread, IsField
<1>4. Attrs(d, 0) = <<>>
  <2>1. SetUpTo(d, 0) = {} BY DEF SetUpTo
  <2>2. Attrs(d, 0) \in [1 .. 0 -> {None}] BY <2>1 DEF Attrs
  <2>3. Attrs(d, 0) \in Seq({None}) /\ Len(Attrs(d, 0)) = 0 BY <2>2
  <2> QED BY <2>3
<1>5. LevelAt(d, n) = Len(Fields[d.cls])
  <2>1. n \in 0 .. n BY <1>1
  <2>2. LevelAt(d, n) \in Nat /\ \A j \in 1 .. n : d.parts[j].level <= LevelAt(d, n)
    BY <2>1, LevelsRise
  <2>3. LevelAt(d, n) <= Len(Fields[d.cls]) BY <1>1 DEF LevelAt
  <2>4. CASE Len(Fields[d.cls]) = 0 BY <2>2, <2>3, <2>4
  <2>5. CASE Len(Fields[d.cls]) # 0
    <3>1. Len(Fields[d.cls]) \in 1 .. Len(Fields[d.cls]) BY <2>5, <1>1
    <3>2. PICK m \in 1 .. n : d.parts[m].level = Len(Fields[d.cls]) BY <3>1, <1>1
    <3> QED BY <3>2, <2>2, <2>3, <1>1
  <2> QED BY <2>4, <2>5
<1>6. Unread(d, n) = {} BY <1>1 DEF Unread
<1> QED BY <1>2, <1>3, <1>4, <1>5, <1>6

LEMMA MeantIs ==
  ASSUME NEW d \in Data
  PROVE  /\ d.is = "value" =>
              Meant(d) = d.v /\ d.v.is \in {"plain", "nil", "hash", "typed", "message"}
         /\ d.is = "array" => Meant(d) = [is |-> "array",
                                          items |-> [k \in DOMAIN d.items |-> Meant(d.items[k])]]
         /\ d.is = "external" => Meant(d) = [is |-> "message", cls |-> d.cls,
                                             attrs |-> Attrs(d, Len(d.parts))]
<1>1. Meant(d) = Meaning(d, Meant) BY DataAssumption
<1>2. ASSUME d.is = "value"
      PROVE  Meant(d) = d.v /\ d.v.is \in {"plain", "nil", "hash", "typed", "message"}
  BY <1>2, DataAssumption DEF Meaning
<1>3. ASSUME d.is = "array"
      PROVE  Meant(d) = [is |-> "array", items |-> [k \in DOMAIN d.items |-> Meant(d.items[k])]]
  BY <1>1, <1>3 DEF Meaning
<1>4. ASSUME d.is = "external"
      PROVE  Meant(d) = [is |-> "message", cls |-> d.cls, attrs |-> Attrs(d, Len(d.parts))]
  BY <1>1, <1>4 DEF Meaning, AttrsUpTo, Attrs, SetUpTo
<1> QED BY <1>2, <1>3, <1>4

-----------------------------------------------------------------------------
(***************************************************************************)
(* The function that reads d, when it has read the first k parts of it.    *)
(***************************************************************************)
Frame(d, k) ==
  IF d.is = "array"
  THEN [what |-> "array", left |-> Len(d.items) - k, items |-> [i \in 1 .. k |-> Meant(d.items[i])]]
  ELSE [what |-> "external", cls |-> d.cls, attrs |-> Attrs(d, k),
        levels |-> SubSeq(Fields[d.cls], LevelAt(d, k) + 1, Len(Fields[d.cls])),
        todo |-> Unread(d, k)]

\* Part k is a value of its own.
IsItem(d, k) == d.is = "array" \/ d.parts[k].t = "field"
ItemAt(d, k) == IF d.is = "array" THEN d.items[k] ELSE d.parts[k].data

\* What the functions do with a value m, or with flags.
ArrayTook(f, m) == [f EXCEPT !.left = @ - 1, !.items = Append(@, m)]
FlagsTook(f, bytes) == [f EXCEPT !.levels = Tail(@), !.todo = Todo(Head(f.levels), bytes)]
FieldTook(f, m) ==
  [f EXCEPT !.attrs = Assigned(@, NextField(f.todo).name, m), !.todo = @ \ {NextField(@)}]

LEMMA ArrayTakes ==
  ASSUME NEW l, NEW s, NEW m, NEW f, f = [what |-> "array", left |-> l, items |-> s]
  PROVE  ArrayTook(f, m) = [what |-> "array", left |-> l - 1, items |-> Append(s, m)]
<1>1. ArrayTook(f, m) \in [what : {"array"}, left : {l - 1}, items : {Append(s, m)}] BY DEF ArrayTook
<1> QED BY <1>1

LEMMA FlagsTake ==
  ASSUME NEW cls, NEW a, NEW ls, NEW td, NEW f,
         f = [what |-> "external", cls |-> cls, attrs |-> a, levels |-> ls, todo |-> td],
         NEW bytes
  PROVE  FlagsTook(f, bytes) = [what |-> "external", cls |-> cls, attrs |-> a,
                                levels |-> Tail(ls), todo |-> Todo(Head(ls), bytes)]
<1>1. FlagsTook(f, bytes) \in [what : {"external"}, cls : {cls}, attrs : {a}, levels : {Tail(ls)},
                               todo : {Todo(Head(ls), bytes)}]
  BY DEF FlagsTook
<1> QED BY <1>1

LEMMA FieldTakes ==
  ASSUME NEW cls, NEW a, NEW ls, NEW td, NEW f,
         f = [what |-> "external", cls |-> cls, attrs |-> a, levels |-> ls, todo |-> td],
         NEW m
  PROVE  FieldTook(f, m) = [what |-> "external", cls |-> cls,
                            attrs |-> Assigned(a, NextField(td).name, m),
                            levels |-> ls, todo |-> td \ {NextField(td)}]
<1>1. FieldTook(f, m) \in [what : {"external"}, cls : {cls},
                           attrs : {Assigned(a, NextField(td).name, m)}, levels : {ls},
                           todo : {td \ {NextField(td)}}]
  BY DEF FieldTook
<1> QED BY <1>1

LEMMA ArrayFrames ==
  ASSUME NEW d \in Data, d.is = "array"
  PROVE  /\ Frame(d, 0) = ArrayFrame(Len(d.items))
         /\ \A k \in 0 .. Size(d) : /\ Frame(d, k).what = "array"
                                    /\ Frame(d, k).left = Size(d) - k
         /\ \A k \in 0 .. Size(d) - 1 :
              Frame(d, k + 1) = ArrayTook(Frame(d, k), Meant(d.items[k + 1]))
         /\ Meant(d) = [is |-> "array", items |-> Frame(d, Size(d)).items]
<1>1. Len(d.items) \in Nat /\ Size(d) = Len(d.items) /\ DOMAIN d.items = 1 .. Len(d.items)
  BY DataAssumption DEF Size
<1> DEFINE I(k) == [i \in 1 .. k |-> Meant(d.items[i])]
<1>2. \A k : Frame(d, k) = [what |-> "array", left |-> Len(d.items) - k, items |-> I(k)]
  BY DEF Frame
<1>3. \A k \in Nat : Append(I(k), Meant(d.items[k + 1])) = I(k + 1)
  <2> SUFFICES ASSUME NEW k \in Nat PROVE Append(I(k), Meant(d.items[k + 1])) = I(k + 1)
    OBVIOUS
  <2>1. PICK f : f = [i \in 1 .. k + 1 |-> Meant(d.items[i])] OBVIOUS
  <2>2. DOMAIN f = 1 .. k + 1 /\ \A i \in 1 .. k + 1 : f[i] = Meant(d.items[i]) BY <2>1
  <2>3. I(k) = [i \in 1 .. k |-> f[i]] BY <2>2
  <2>4. f[k + 1] = Meant(d.items[k + 1]) BY <2>2
  <2>5. f = [i \in 1 .. k + 1 |-> f[i]] BY <2>2, <2>1
  <2> HIDE DEF I
  <2>6. Append(I(k), f[k + 1]) = [i \in 1 .. k + 1 |-> f[i]] BY <2>3
  <2> QED BY <2>1, <2>4, <2>5, <2>6 DEF I
<1>4. I(0) = <<>>
  <2>1. I(0) \in [1 .. 0 -> {None}] OBVIOUS
  <2>2. I(0) \in Seq({None}) /\ Len(I(0)) = 0 BY <2>1
  <2> QED BY <2>2
<1>5. Meant(d) = [is |-> "array", items |-> I(Len(d.items))] BY <1>1, MeantIs
<1> HIDE DEF I
<1>6. Frame(d, 0) = ArrayFrame(Len(d.items)) BY <1>1, <1>2, <1>4 DEF ArrayFrame
<1>7. ASSUME NEW k \in 0 .. Size(d) - 1
      PROVE  Frame(d, k + 1) = ArrayTook(Frame(d, k), Meant(d.items[k + 1]))
  <2>0. k \in Nat BY <1>1
  <2>1. Append(I(k), Meant(d.items[k + 1])) = I(k + 1) BY <2>0, <1>3, Zenon
  <2>2. Len(d.items) - k - 1 = Len(d.items) - (k + 1) BY <1>1
  <2>3. Frame(d, k) = [what |-> "array", left |-> Len(d.items) - k, items |-> I(k)]
        /\ Frame(d, k + 1) = [what |-> "array", left |-> Len(d.items) - (k + 1), items |-> I(k + 1)]
    BY <1>2
  <2>4. ArrayTook(Frame(d, k), Meant(d.items[k + 1]))
        = [what |-> "array", left |-> Len(d.items) - k - 1,
           items |-> Append(I(k), Meant(d.items[k + 1]))]
    BY <2>3, ArrayTakes
  <2> QED BY <2>1, <2>2, <2>3, <2>4, Zenon
<1>8. \A k \in 0 .. Size(d) : Frame(d, k).what = "array" /\ Frame(d, k).left = Size(d) - k
  BY <1>1, <1>2
<1>9. Meant(d) = [is |-> "array", items |-> Frame(d, Size(d)).items] BY <1>1, <1>2, <1>5
<1> QED BY <1>6, <1>7, <1>8, <1>9

LEMMA Prefix ==
  ASSUME NEW S, NEW s \in Seq(S), NEW i \in Nat, i <= Len(s)
  PROVE  /\ SubSeq(s, 1, i) \in Seq(S) /\ Len(SubSeq(s, 1, i)) = i
         /\ \A j \in 1 .. i : SubSeq(s, 1, i)[j] = s[j]
  OBVIOUS

LEMMA Suffix ==
  ASSUME NEW S, NEW s \in Seq(S), NEW i \in 1 .. Len(s)
  PROVE  /\ SubSeq(s, i, Len(s)) # <<>> /\ Head(SubSeq(s, i, Len(s))) = s[i]
         /\ Tail(SubSeq(s, i, Len(s))) = SubSeq(s, i + 1, Len(s))
  OBVIOUS

LEMMA MessageFrames ==
  ASSUME BytesListed, NEW d \in Data, d.is = "external"
  PROVE  /\ Frame(d, 0) = MessageFrame(d.cls)
         /\ \A k \in 0 .. Size(d) : Frame(d, k).what = "external"
         /\ Frame(d, Size(d)).todo = {} /\ Frame(d, Size(d)).levels = <<>>
         /\ Meant(d) = [is |-> "message", cls |-> Frame(d, Size(d)).cls,
                        attrs |-> Frame(d, Size(d)).attrs]
         /\ \A k \in 0 .. Size(d) - 1 : d.parts[k + 1].t = "flags" =>
              /\ Frame(d, k).todo = {} /\ Frame(d, k).levels # <<>>
              /\ Frame(d, k + 1) = FlagsTook(Frame(d, k), d.parts[k + 1].bytes)
         /\ \A k \in 0 .. Size(d) - 1 : d.parts[k + 1].t = "field" =>
              /\ Frame(d, k).todo # {}
              /\ Frame(d, k + 1) = FieldTook(Frame(d, k), Meant(d.parts[k + 1].data))
<1> DEFINE lists == Fields[d.cls]
           Levels(k) == SubSeq(lists, LevelAt(d, k) + 1, Len(lists))
<1>1. Size(d) = Len(d.parts) /\ Len(d.parts) \in Nat BY PartFacts DEF Size
<1>2. lists \in Seq(Seq(Seq(DOMAIN Attr))) /\ Len(lists) \in Nat
  BY PartFacts, FieldsAssumption
<1>3. \A k : Frame(d, k) = [what |-> "external", cls |-> d.cls, attrs |-> Attrs(d, k),
                            levels |-> Levels(k), todo |-> Unread(d, k)]
  BY DEF Frame
<1>4. \A k : /\ Frame(d, k).what = "external" /\ Frame(d, k).cls = d.cls
             /\ Frame(d, k).attrs = Attrs(d, k) /\ Frame(d, k).levels = Levels(k)
             /\ Frame(d, k).todo = Unread(d, k)
  BY <1>3
<1> HIDE DEF Levels, lists
<1>5. Frame(d, 0) = MessageFrame(d.cls)
  <2>1. LevelAt(d, 0) = 0 /\ Unread(d, 0) = {} /\ Attrs(d, 0) = <<>> BY PartsEnd
  <2>2. Levels(0) = lists BY <2>1, <1>2 DEF Levels
  <2>3. Frame(d, 0) = [what |-> "external", cls |-> d.cls, attrs |-> <<>>, levels |-> lists, todo |-> {}]
    BY <2>1, <2>2, <1>3
  <2> QED BY <2>3 DEF MessageFrame, lists
<1>6. Frame(d, Size(d)).todo = {} /\ Frame(d, Size(d)).levels = <<>>
  <2>1. LevelAt(d, Size(d)) = Len(lists) /\ Unread(d, Size(d)) = {} BY <1>1, PartsEnd DEF lists
  <2>2. Levels(Size(d)) = <<>> BY <2>1, <1>2 DEF Levels
  <2> QED BY <2>1, <2>2, <1>4
<1>7. Meant(d) = [is |-> "message", cls |-> Frame(d, Size(d)).cls, attrs |-> Frame(d, Size(d)).attrs]
  BY <1>1, <1>4, MeantIs
<1>8. ASSUME NEW k \in 0 .. Size(d) - 1, d.parts[k + 1].t = "flags"
      PROVE  /\ Frame(d, k).todo = {} /\ Frame(d, k).levels # <<>>
             /\ Frame(d, k + 1) = FlagsTook(Frame(d, k), d.parts[k + 1].bytes)
  <2> DEFINE l == LevelAt(d, k)
             bytes == d.parts[k + 1].bytes
  <2>0. k \in 0 .. Len(d.parts) - 1 BY <1>1
  <2>1. /\ Unread(d, k) = {} /\ d.parts[k + 1].level = l + 1 /\ l + 1 \in 1 .. Len(lists)
        /\ Unread(d, k + 1) = Todo(lists[l + 1], bytes) /\ Attrs(d, k + 1) = Attrs(d, k)
    BY <2>0, <1>8, FlagsStep DEF lists
  <2>2. l \in Nat
    <3>1. k \in 0 .. Len(d.parts) BY <2>0, <1>1
    <3> QED BY <3>1, LevelsRise
  <2>3. LevelAt(d, k + 1) = l + 1 BY <2>0, <2>1, <1>1 DEF LevelAt
  <2> HIDE DEF l, bytes
  <2>4. Levels(k) = SubSeq(lists, l + 1, Len(lists))
        /\ Levels(k + 1) = SubSeq(lists, l + 1 + 1, Len(lists))
    BY <2>3 DEF Levels, l
  <2>5. Levels(k) # <<>> /\ Head(Levels(k)) = lists[l + 1] /\ Tail(Levels(k)) = Levels(k + 1)
    <3> QED BY <1>2, <2>1, <2>2, <2>4, Suffix
  <2>6. FlagsTook(Frame(d, k), bytes)
        = [what |-> "external", cls |-> d.cls, attrs |-> Attrs(d, k),
           levels |-> Tail(Levels(k)), todo |-> Todo(Head(Levels(k)), bytes)]
    BY <1>3, FlagsTake
  <2>7. Frame(d, k + 1) = FlagsTook(Frame(d, k), bytes) BY <2>1, <2>5, <2>6, <1>3
  <2> QED BY <2>1, <2>5, <2>7, <1>4 DEF bytes
<1>9. ASSUME NEW k \in 0 .. Size(d) - 1, d.parts[k + 1].t = "field"
      PROVE  /\ Frame(d, k).todo # {}
             /\ Frame(d, k + 1) = FieldTook(Frame(d, k), Meant(d.parts[k + 1].data))
  <2>0. k \in 0 .. Len(d.parts) - 1 BY <1>1
  <2>1. PICK n, m : n = FieldAt(d, k + 1) /\ m = Meant(d.parts[k + 1].data) OBVIOUS
  <2>2. /\ Unread(d, k) # {} /\ NextField(Unread(d, k)) = n
        /\ LevelAt(d, k + 1) = LevelAt(d, k)
        /\ Unread(d, k + 1) = Unread(d, k) \ {n}
        /\ Attrs(d, k + 1) = Assigned(Attrs(d, k), n.name, m)
    BY <2>0, <2>1, <1>9, FieldStep
  <2>3. Levels(k + 1) = Levels(k) BY <2>2 DEF Levels
  <2>4. FieldTook(Frame(d, k), m)
        = [what |-> "external", cls |-> d.cls,
           attrs |-> Assigned(Attrs(d, k), NextField(Unread(d, k)).name, m),
           levels |-> Levels(k), todo |-> Unread(d, k) \ {NextField(Unread(d, k))}]
    BY <1>3, FieldTakes
  <2>5. Frame(d, k + 1) = FieldTook(Frame(d, k), m) BY <2>2, <2>3, <2>4, <1>3
  <2> QED BY <2>1, <2>2, <2>5, <1>4
<1> QED BY <1>4, <1>5, <1>6, <1>7, <1>8, <1>9

-----------------------------------------------------------------------------
(***************************************************************************)
(* The functions under way while data d are read that begin at b: H has    *)
(* what each of them reads, where that begins, and how many parts of it    *)
(* have been read.                                                         *)
(***************************************************************************)
Task == [d : Data, b : Nat \ {0}, k : Nat]
TaskOf(d, b, k) == [d |-> d, b |-> b, k |-> k]
FrameSet == {Frame(h.d, h.k) : h \in Task}
Frames(H) == [i \in 1 .. Len(H) |-> Frame(H[i].d, H[i].k)]
\* The part whose turn it is, and where it begins.
Wanted(d, H) == IF H = <<>> THEN d ELSE ItemAt(H[Len(H)].d, H[Len(H)].k + 1)
Where(d, b, H) == IF H = <<>> THEN b ELSE Place(H[Len(H)].d, H[Len(H)].b, H[Len(H)].k)
MayRead(h) == h.k < Size(h.d) /\ IsItem(h.d, h.k + 1)

TaskFits(F, h) == Composite(h.d) /\ h.k \in 0 .. Size(h.d) /\ Lies(F, h.b, Written(h.d))
Links(h, g) == MayRead(h) /\ g.d = ItemAt(h.d, h.k + 1) /\ g.b = Place(h.d, h.b, h.k)
Chain(F, d, b, H) ==
  /\ H \in Seq(Task)
  /\ \A i \in 1 .. Len(H) : TaskFits(F, H[i])
  /\ \A i \in 1 .. Len(H) - 1 : Links(H[i], H[i + 1])
  /\ H # <<>> => H[1].d = d /\ H[1].b = b

DataRead(F, d, b) ==
  \/ value # None /\ stack = <<>> /\ value = Meant(d) /\ des_pos = b + Len(Written(d))
  \/ value = None /\ \E H : Chain(F, d, b, H) /\ stack = Frames(H) /\ Start = Where(d, b, H)

LEMMA FramesType ==
  ASSUME NEW H \in Seq(Task)
  PROVE  /\ Frames(H) \in Seq(FrameSet) /\ Len(Frames(H)) = Len(H) /\ Len(H) \in Nat
         /\ H = <<>> <=> Frames(H) = <<>>
         /\ H # <<>> => /\ H[Len(H)] \in Task /\ H[Len(H)].d \in Data
                        /\ H[Len(H)].b \in Nat \ {0} /\ H[Len(H)].k \in Nat
                        /\ Len(H) \in 1 .. Len(H)
                        /\ Last(Frames(H)) = Frame(H[Len(H)].d, H[Len(H)].k)
<1>1. Len(H) \in Nat /\ \A i \in 1 .. Len(H) : H[i] \in Task OBVIOUS
<1>2. \A h \in Task : Frame(h.d, h.k) \in FrameSet BY DEF FrameSet
<1>3. \A i \in 1 .. Len(H) : Frame(H[i].d, H[i].k) \in FrameSet BY <1>1, <1>2
<1>4. Frames(H) \in [1 .. Len(H) -> FrameSet] BY <1>3 DEF Frames
<1>5. Frames(H) \in Seq(FrameSet) /\ Len(Frames(H)) = Len(H) BY <1>1, <1>4
<1>6. H = <<>> <=> Frames(H) = <<>>
  <2>1. H = <<>> <=> Len(H) = 0 OBVIOUS
  <2>2. PICK f : f = Frames(H) OBVIOUS
  <2>3. f = <<>> <=> Len(f) = 0 BY <1>5, <2>2
  <2> QED BY <1>5, <2>1, <2>2, <2>3
<1>7. H # <<>> => Len(H) \in 1 .. Len(H) BY <1>1
<1>8. \A h \in Task : h.d \in Data /\ h.b \in Nat \ {0} /\ h.k \in Nat BY DEF Task
<1>9. H # <<>> => Last(Frames(H)) = Frame(H[Len(H)].d, H[Len(H)].k)
  BY <1>5, <1>7 DEF Last, Frames
<1> QED BY <1>1, <1>5, <1>6, <1>7, <1>8, <1>9

LEMMA FramesPush ==
  ASSUME NEW H \in Seq(Task), NEW h \in Task
  PROVE  /\ Append(H, h) \in Seq(Task) /\ Len(Append(H, h)) = Len(H) + 1
         /\ \A i \in 1 .. Len(H) : Append(H, h)[i] = H[i]
         /\ Append(H, h)[Len(H) + 1] = h
         /\ Frames(Append(H, h)) = Append(Frames(H), Frame(h.d, h.k))
<1>1. PICK G : G = Append(H, h) OBVIOUS
<1>2. /\ G \in Seq(Task) /\ Len(G) = Len(H) + 1 /\ Len(H) \in Nat
      /\ \A i \in 1 .. Len(H) : G[i] = H[i]
      /\ G[Len(H) + 1] = h
  BY <1>1
<1>3. Frames(H) \in Seq(FrameSet) /\ Len(Frames(H)) = Len(H)
      /\ Frames(G) \in Seq(FrameSet) /\ Len(Frames(G)) = Len(G)
  <2>1. Frames(H) \in Seq(FrameSet) /\ Len(Frames(H)) = Len(H) BY FramesType
  <2> QED BY <1>2, <2>1, FramesType
<1>4. Frame(h.d, h.k) \in FrameSet BY DEF FrameSet
<1>5. PICK f : f = Append(Frames(H), Frame(h.d, h.k)) OBVIOUS
<1>6. /\ f \in Seq(FrameSet) /\ Len(f) = Len(H) + 1
      /\ \A i \in 1 .. Len(H) : f[i] = Frames(H)[i]
      /\ f[Len(H) + 1] = Frame(h.d, h.k)
  BY <1>3, <1>4, <1>5
<1>7. ASSUME NEW i \in 1 .. Len(H) + 1 PROVE f[i] = Frames(G)[i]
  <2>1. CASE i = Len(H) + 1
    <3>1. i \in 1 .. Len(G) /\ G[i] = h BY <2>1, <1>2
    <3>2. Frames(G)[i] = Frame(h.d, h.k) BY <3>1 DEF Frames
    <3>3. f[Len(H) + 1] = Frame(h.d, h.k) BY <1>6
    <3> QED BY <2>1, <3>2, <3>3, Zenon
  <2>2. CASE i # Len(H) + 1
    <3>1. i \in 1 .. Len(H) /\ i \in 1 .. Len(G) BY <2>2, <1>2
    <3>2. Frames(G)[i] = Frame(H[i].d, H[i].k) BY <3>1, <1>2 DEF Frames
    <3>3. Frames(H)[i] = Frame(H[i].d, H[i].k) BY <3>1 DEF Frames
    <3> QED BY <3>1, <3>2, <3>3, <1>6
  <2> QED BY <2>1, <2>2
<1>8. f = Frames(G) BY <1>2, <1>3, <1>6, <1>7
<1> QED BY <1>1, <1>2, <1>5, <1>8

\* The last function without the others, and the others without the last.
LEMMA FramesPop ==
  ASSUME NEW H \in Seq(Task), H # <<>>
  PROVE  /\ Front(H) \in Seq(Task) /\ Len(Front(H)) = Len(H) - 1
         /\ \A i \in 1 .. Len(H) - 1 : Front(H)[i] = H[i]
         /\ Frames(Front(H)) = Front(Frames(H))
<1>1. PICK G : G = Front(H) OBVIOUS
<1>2. /\ Len(H) \in Nat /\ Len(H) # 0
      /\ G \in Seq(Task) /\ Len(G) = Len(H) - 1
      /\ \A i \in 1 .. Len(H) - 1 : G[i] = H[i]
  <2>1. Len(H) \in Nat /\ Len(H) # 0 OBVIOUS
  <2>2. G = SubSeq(H, 1, Len(H) - 1) BY <1>1 DEF Front
  <2>3. Len(H) - 1 \in Nat /\ Len(H) - 1 <= Len(H) BY <2>1
  <2>4. G \in Seq(Task) /\ Len(G) = Len(H) - 1 BY <2>2, <2>3, Prefix
  <2>5. \A i \in 1 .. Len(H) - 1 : G[i] = H[i] BY <2>2, <2>3, Prefix
  <2> QED BY <2>1, <2>4, <2>5
<1>3. Frames(H) \in Seq(FrameSet) /\ Len(Frames(H)) = Len(H)
      /\ Frames(G) \in Seq(FrameSet) /\ Len(Frames(G)) = Len(G)
  BY <1>2, FramesType
<1>4. PICK f : f = Front(Frames(H)) OBVIOUS
<1>5. f \in Seq(FrameSet) /\ Len(f) = Len(H) - 1
      /\ \A i \in 1 .. Len(H) - 1 : f[i] = Frames(H)[i]
  BY <1>2, <1>3, <1>4 DEF Front
<1>6. ASSUME NEW i \in 1 .. Len(H) - 1 PROVE f[i] = Frames(G)[i]
  <2>1. i \in 1 .. Len(G) /\ i \in 1 .. Len(H) BY <1>2
  <2>2. Frames(G)[i] = Frame(H[i].d, H[i].k) BY <2>1, <1>2 DEF Frames
  <2>3. Frames(H)[i] = Frame(H[i].d, H[i].k) BY <2>1 DEF Frames
  <2> QED BY <2>2, <2>3, <1>5
<1>7. f = Frames(G) BY <1>2, <1>3, <1>5, <1>6
<1> QED BY <1>1, <1>2, <1>4, <1>7

LEMMA TaskPart ==
  ASSUME NEW F \in Seq(TokenSet), NEW h \in Task, TaskFits(F, h), h.k < Size(h.d)
  PROVE  /\ h.d \in Data /\ h.b \in Nat \ {0} /\ h.k \in 0 .. Size(h.d) - 1
         /\ Place(h.d, h.b, h.k) \in Nat \ {0}
         /\ IsItem(h.d, h.k + 1) =>
              /\ ItemAt(h.d, h.k + 1) \in Data
              /\ Lies(F, Place(h.d, h.b, h.k), Written(ItemAt(h.d, h.k + 1)))
              /\ Place(h.d, h.b, h.k + 1)
                 = Place(h.d, h.b, h.k) + Len(Written(ItemAt(h.d, h.k + 1)))
         /\ ~IsItem(h.d, h.k + 1) =>
              /\ h.d.is = "external" /\ h.d.parts[h.k + 1].t = "flags"
              /\ Place(h.d, h.b, h.k) \in 1 .. Len(F)
              /\ F[Place(h.d, h.b, h.k)] = Tok("flags", h.d.parts[h.k + 1].bytes)
              /\ Place(h.d, h.b, h.k + 1) = Place(h.d, h.b, h.k) + 1
<1>1. PICK d, b, k : d = h.d /\ b = h.b /\ k = h.k OBVIOUS
<1>2. d \in Data /\ b \in Nat \ {0} /\ k \in Nat BY <1>1 DEF Task
<1>3. Composite(d) /\ k \in 0 .. Size(d) - 1 /\ Lies(F, b, Written(d)) /\ Size(d) \in Nat
  <2>1. Composite(d) /\ k \in 0 .. Size(d) /\ k < Size(d) /\ Lies(F, b, Written(d))
    BY <1>1 DEF TaskFits
  <2>2. Size(d) \in Nat BY <1>2, <2>1, CompositeWritten
  <2> QED BY <2>1, <2>2
<1>4. Place(d, b, k) \in Nat \ {0} /\ Place(d, b, k + 1) = Place(d, b, k) + Len(Comps(d)[k + 1])
  <2>1. k \in 0 .. Size(d) BY <1>3
  <2> QED BY <2>1, <1>2, <1>3, Places
<1>5. Lies(F, Place(d, b, k), Comps(d)[k + 1]) BY <1>2, <1>3, CompsLie
<1>6. CASE d.is = "array"
  <2>1. d.items \in Seq(Data) /\ Size(d) = Len(d.items) BY <1>2, <1>6, DataAssumption DEF Size
  <2>2. k + 1 \in DOMAIN d.items BY <2>1, <1>3
  <2>3. d.items[k + 1] \in Data BY <2>1, <2>2
  <2>4. Comps(d)[k + 1] = Written(d.items[k + 1]) BY <2>2, <1>6 DEF Comps
  <2>5. IsItem(d, k + 1) /\ ItemAt(d, k + 1) = d.items[k + 1] BY <1>6 DEF IsItem, ItemAt
  <2> QED BY <2>3, <2>4, <2>5, <1>1, <1>2, <1>3, <1>4, <1>5
<1>7. CASE d.is = "external"
  <2>1. k + 1 \in 1 .. Len(d.parts) BY <1>3, <1>7 DEF Size
  <2>2. /\ d.parts[k + 1].t \in {"flags", "field"} /\ k + 1 \in DOMAIN d.parts
        /\ d.parts[k + 1].t = "field" => d.parts[k + 1].data \in Data
    BY <2>1, <1>2, <1>7, PartFacts
  <2>3. Comps(d)[k + 1] = PartTokens(d.parts[k + 1]) BY <2>2, <1>7 DEF Comps
  <2>4. CASE d.parts[k + 1].t = "field"
    <3>1. IsItem(d, k + 1) /\ ItemAt(d, k + 1) = d.parts[k + 1].data BY <2>4, <1>7 DEF IsItem, ItemAt
    <3>2. Comps(d)[k + 1] = Written(d.parts[k + 1].data) BY <2>3, <2>4 DEF PartTokens
    <3> QED BY <3>1, <3>2, <2>2, <2>4, <1>1, <1>2, <1>3, <1>4, <1>5
  <2>5. CASE d.parts[k + 1].t = "flags"
    <3>1. ~IsItem(d, k + 1) BY <2>5, <1>7 DEF IsItem
    <3>2. PICK t : t = Tok("flags", d.parts[k + 1].bytes) OBVIOUS
    <3>3. Comps(d)[k + 1] = <<t>> BY <2>3, <2>5, <3>2 DEF PartTokens
    <3>4. Lies(F, Place(d, b, k), <<t>>) BY <3>3, <1>5
    <3>5. Len(<<t>>) = 1 /\ <<t>>[1] = t OBVIOUS
    <3>6. Place(d, b, k) \in 1 .. Len(F) /\ F[Place(d, b, k)] = t
      <4>1. PICK p : p = Place(d, b, k) OBVIOUS
      <4>2. 1 \in 1 .. Len(<<t>>) /\ p + 1 - 1 = p BY <4>1, <3>5, <1>4
      <4> QED BY <4>1, <4>2, <3>4, <3>5 DEF Lies
    <3>7. Place(d, b, k + 1) = Place(d, b, k) + 1 BY <3>3, <3>5, <1>4
    <3> QED BY <3>1, <3>2, <3>6, <3>7, <2>5, <1>1, <1>2, <1>3, <1>4, <1>7
  <2> QED BY <2>2, <2>4, <2>5
<1> QED BY <1>3, <1>6, <1>7 DEF Composite

LEMMA FirstToken ==
  ASSUME NEW F \in Seq(TokenSet), NEW d \in Data, NEW b \in Nat \ {0}, Lies(F, b, Written(d))
  PROVE  /\ b \in 1 .. Len(F)
         /\ Composite(d) => F[b] = HeadTok(d)
         /\ ~Composite(d) => /\ F[b] = Tok("value", d.v) /\ d.is = "value" /\ Meant(d) = d.v
                             /\ Len(Written(d)) = 1
<1>1. CASE Composite(d) BY <1>1, CompsLie
<1>2. CASE ~Composite(d)
  <2>1. d.is = "value" /\ Meant(d) = d.v BY <1>2, ValueWritten
  <2>2. PICK t : t = Tok("value", d.v) OBVIOUS
  <2>3. Written(d) = <<t>> BY <2>2, <1>2, ValueWritten
  <2>4. Len(<<t>>) = 1 /\ <<t>>[1] = t OBVIOUS
  <2>5. 1 \in 1 .. Len(<<t>>) /\ b + 1 - 1 = b BY <2>4
  <2>6. b \in 1 .. Len(F) /\ F[b] = t BY <2>3, <2>4, <2>5 DEF Lies
  <2> QED BY <2>1, <2>2, <2>3, <2>4, <2>6, <1>2
<1> QED BY <1>1, <1>2

LEMMA ChainWants ==
  ASSUME NEW F \in Seq(TokenSet), NEW d \in Data, NEW b \in Nat \ {0}, Lies(F, b, Written(d)),
         NEW H, Chain(F, d, b, H), H # <<>> => MayRead(H[Len(H)])
  PROVE  /\ Wanted(d, H) \in Data /\ Where(d, b, H) \in Nat \ {0}
         /\ Lies(F, Where(d, b, H), Written(Wanted(d, H)))
<1>1. CASE H = <<>> BY <1>1 DEF Wanted, Where
<1>2. CASE H # <<>>
  <2>1. H \in Seq(Task) /\ \A i \in 1 .. Len(H) : TaskFits(F, H[i]) BY DEF Chain
  <2>2. PICK h : h = H[Len(H)] OBVIOUS
  <2>3. h \in Task /\ TaskFits(F, h) /\ MayRead(h) BY <1>2, <2>1, <2>2, FramesType
  <2>4. h.k < Size(h.d) /\ IsItem(h.d, h.k + 1) BY <2>3 DEF MayRead
  <2>5. /\ Place(h.d, h.b, h.k) \in Nat \ {0} /\ ItemAt(h.d, h.k + 1) \in Data
        /\ Lies(F, Place(h.d, h.b, h.k), Written(ItemAt(h.d, h.k + 1)))
    BY <2>3, <2>4, TaskPart
  <2> QED BY <1>2, <2>2, <2>5 DEF Wanted, Where
<1> QED BY <1>1, <1>2

\* A function is called for the part whose turn it is.
LEMMA ChainPush ==
  ASSUME NEW F \in Seq(TokenSet), NEW d \in Data, NEW b \in Nat \ {0}, Lies(F, b, Written(d)),
         NEW H, Chain(F, d, b, H), H # <<>> => MayRead(H[Len(H)]), Composite(Wanted(d, H))
  PROVE  \E G : /\ Chain(F, d, b, G)
                /\ Frames(G) = Append(Frames(H), Frame(Wanted(d, H), 0))
                /\ Where(d, b, G) = Where(d, b, H) + 1
<1>1. /\ H \in Seq(Task)
      /\ \A i \in 1 .. Len(H) : TaskFits(F, H[i])
      /\ \A i \in 1 .. Len(H) - 1 : Links(H[i], H[i + 1])
      /\ H # <<>> => H[1].d = d /\ H[1].b = b
  BY DEF Chain
<1>2. PICK x, p : x = Wanted(d, H) /\ p = Where(d, b, H) OBVIOUS
<1>3. x \in Data /\ p \in Nat \ {0} /\ Lies(F, p, Written(x)) BY <1>2, ChainWants
<1>4. Composite(x) /\ Size(x) \in Nat BY <1>2, <1>3, CompositeWritten
<1>5. PICK h : h = TaskOf(x, p, 0) OBVIOUS
<1>6. h \in Task /\ h.d = x /\ h.b = p /\ h.k = 0 BY <1>3, <1>5 DEF Task, TaskOf
<1>7. TaskFits(F, h) BY <1>3, <1>4, <1>6 DEF TaskFits
<1>8. PICK G : G = Append(H, h) OBVIOUS
<1>9. /\ G \in Seq(Task) /\ Len(G) = Len(H) + 1
      /\ \A i \in 1 .. Len(H) : G[i] = H[i]
      /\ G[Len(H) + 1] = h /\ Len(H) \in Nat
      /\ Frames(G) = Append(Frames(H), Frame(x, 0))
  BY <1>1, <1>6, <1>8, FramesPush
<1>10. \A i \in 1 .. Len(G) : TaskFits(F, G[i])
  <2> SUFFICES ASSUME NEW i \in 1 .. Len(G) PROVE TaskFits(F, G[i]) OBVIOUS
  <2>1. i \in 1 .. Len(H) \/ i = Len(H) + 1 BY <1>9
  <2> QED BY <2>1, <1>1, <1>7, <1>9
<1>11. \A i \in 1 .. Len(G) - 1 : Links(G[i], G[i + 1])
  <2> SUFFICES ASSUME NEW i \in 1 .. Len(G) - 1 PROVE Links(G[i], G[i + 1]) OBVIOUS
  <2>1. i \in 1 .. Len(H) /\ G[i] = H[i] BY <1>9
  <2>2. CASE i # Len(H)
    <3>1. i \in 1 .. Len(H) - 1 /\ i + 1 \in 1 .. Len(H) BY <2>1, <2>2, <1>9
    <3>2. G[i + 1] = H[i + 1] BY <3>1, <1>9
    <3> QED BY <3>1, <3>2, <2>1, <1>1
  <2>3. CASE i = Len(H)
    <3>1. H # <<>> BY <2>1, <2>3, <1>9
    <3>2. MayRead(H[Len(H)]) /\ x = ItemAt(H[Len(H)].d, H[Len(H)].k + 1)
          /\ p = Place(H[Len(H)].d, H[Len(H)].b, H[Len(H)].k)
      BY <3>1, <1>2 DEF Wanted, Where
    <3>3. Links(H[Len(H)], h) BY <3>2, <1>6 DEF Links
    <3>4. G[i + 1] = h BY <2>3, <1>9
    <3> QED BY <3>3, <3>4, <2>1, <2>3
  <2> QED BY <2>2, <2>3
<1>12. G # <<>> /\ G[1].d = d /\ G[1].b = b
  <2>1. G # <<>> BY <1>9
  <2>2. CASE H = <<>>
    <3>1. x = d /\ p = b BY <2>2, <1>2 DEF Wanted, Where
    <3>2. Len(H) + 1 = 1 BY <2>2
    <3> QED BY <2>1, <3>1, <3>2, <1>6, <1>9
  <2>3. CASE H # <<>>
    <3>1. 1 \in 1 .. Len(H) BY <2>3, <1>1
    <3> QED BY <2>1, <2>3, <3>1, <1>1, <1>9
  <2> QED BY <2>2, <2>3
<1>13. Chain(F, d, b, G) BY <1>9, <1>10, <1>11, <1>12 DEF Chain
<1>14. Where(d, b, G) = p + 1
  <2>1. G[Len(G)] = h BY <1>9
  <2>2. Where(d, b, G) = Place(x, p, 0) BY <2>1, <1>6, <1>12 DEF Where
  <2> QED BY <2>2, <1>3, <1>4, Places
<1> QED BY <1>2, <1>9, <1>13, <1>14

\* The function that was called last has returned.
LEMMA ChainPop ==
  ASSUME NEW F \in Seq(TokenSet), NEW d \in Data, NEW b \in Nat \ {0},
         NEW H, Chain(F, d, b, H), H # <<>>
  PROVE  /\ Chain(F, d, b, Front(H)) /\ Frames(Front(H)) = Front(Frames(H))
         /\ Front(H) # <<>> => MayRead(Front(H)[Len(Front(H))])
         /\ Wanted(d, Front(H)) = H[Len(H)].d /\ Where(d, b, Front(H)) = H[Len(H)].b
<1>1. /\ H \in Seq(Task) /\ Len(H) \in Nat /\ Len(H) # 0
      /\ \A i \in 1 .. Len(H) : TaskFits(F, H[i])
      /\ \A i \in 1 .. Len(H) - 1 : Links(H[i], H[i + 1])
      /\ H[1].d = d /\ H[1].b = b
  BY DEF Chain
<1>2. PICK G : G = Front(H) OBVIOUS
<1>3. /\ G \in Seq(Task) /\ Len(G) = Len(H) - 1
      /\ \A i \in 1 .. Len(H) - 1 : G[i] = H[i]
      /\ Frames(G) = Front(Frames(H))
  BY <1>1, <1>2, FramesPop
<1>4. \A i \in 1 .. Len(G) : TaskFits(F, G[i])
  <2> SUFFICES ASSUME NEW i \in 1 .. Len(G) PROVE TaskFits(F, G[i]) OBVIOUS
  <2>1. i \in 1 .. Len(H) - 1 /\ i \in 1 .. Len(H) BY <1>1, <1>3
  <2> QED BY <2>1, <1>1, <1>3
<1>5. \A i \in 1 .. Len(G) - 1 : Links(G[i], G[i + 1])
  <2> SUFFICES ASSUME NEW i \in 1 .. Len(G) - 1 PROVE Links(G[i], G[i + 1]) OBVIOUS
  <2>1. i \in 1 .. Len(H) - 1 /\ i + 1 \in 1 .. Len(H) - 1 BY <1>1, <1>3
  <2> QED BY <2>1, <1>1, <1>3
<1>6. G # <<>> => G[1].d = d /\ G[1].b = b
  <2> SUFFICES ASSUME G # <<>> PROVE G[1].d = d /\ G[1].b = b OBVIOUS
  <2>1. 1 \in 1 .. Len(H) - 1 BY <1>1, <1>3
  <2> QED BY <2>1, <1>1, <1>3
<1>7. Chain(F, d, b, G) BY <1>3, <1>4, <1>5, <1>6 DEF Chain
<1>8. CASE G = <<>>
  <2>1. Len(H) = 1 BY <1>8, <1>1, <1>3
  <2>2. Wanted(d, G) = d /\ Where(d, b, G) = b BY <1>8 DEF Wanted, Where
  <2> QED BY <2>1, <2>2, <1>1, <1>2, <1>3, <1>7, <1>8
<1>9. CASE G # <<>>
  <2>1. Len(G) \in 1 .. Len(H) - 1 /\ Len(G) + 1 = Len(H) BY <1>9, <1>1, <1>3
  <2>2. Links(H[Len(G)], H[Len(H)]) /\ G[Len(G)] = H[Len(G)] BY <2>1, <1>1, <1>3
  <2>3. MayRead(G[Len(G)]) /\ H[Len(H)].d = ItemAt(G[Len(G)].d, G[Len(G)].k + 1)
        /\ H[Len(H)].b = Place(G[Len(G)].d, G[Len(G)].b, G[Len(G)].k)
    BY <2>2 DEF Links
  <2>4. Wanted(d, G) = H[Len(H)].d /\ Where(d, b, G) = H[Len(H)].b
    BY <1>9, <2>3 DEF Wanted, Where
  <2> QED BY <2>3, <2>4, <1>2, <1>3, <1>7
<1> QED BY <1>8, <1>9

\* The function that was called last has read a part.
LEMMA ChainAdvance ==
  ASSUME NEW F \in Seq(TokenSet), NEW d \in Data, NEW b \in Nat \ {0},
         NEW H, Chain(F, d, b, H), H # <<>>, H[Len(H)].k < Size(H[Len(H)].d)
  PROVE  \E G : /\ Chain(F, d, b, G) /\ G # <<>>
                /\ G[Len(G)] = TaskOf(H[Len(H)].d, H[Len(H)].b, H[Len(H)].k + 1)
                /\ Frames(G) = Append(Front(Frames(H)), Frame(H[Len(H)].d, H[Len(H)].k + 1))
                /\ Where(d, b, G) = Place(H[Len(H)].d, H[Len(H)].b, H[Len(H)].k + 1)
<1>1. /\ H \in Seq(Task) /\ Len(H) \in Nat /\ Len(H) # 0
      /\ \A i \in 1 .. Len(H) : TaskFits(F, H[i])
      /\ \A i \in 1 .. Len(H) - 1 : Links(H[i], H[i + 1])
      /\ H[1].d = d /\ H[1].b = b
  BY DEF Chain
<1>2. PICK g, h : g = H[Len(H)] /\ h = TaskOf(g.d, g.b, g.k + 1) OBVIOUS
<1>3. g \in Task /\ TaskFits(F, g) /\ g.k < Size(g.d) BY <1>1, <1>2
<1>4. g.d \in Data /\ g.b \in Nat \ {0} /\ g.k \in Nat BY <1>3 DEF Task
<1>5. h \in Task /\ h.d = g.d /\ h.b = g.b /\ h.k = g.k + 1 BY <1>2, <1>4 DEF Task, TaskOf
<1>6. TaskFits(F, h)
  <2>1. Composite(g.d) /\ g.k \in 0 .. Size(g.d) /\ Lies(F, g.b, Written(g.d)) BY <1>3 DEF TaskFits
  <2>2. Size(g.d) \in Nat BY <2>1, <1>4, CompositeWritten
  <2>3. g.k + 1 \in 0 .. Size(g.d) BY <2>2, <1>3, <1>4
  <2> QED BY <2>1, <2>3, <1>5 DEF TaskFits
<1>7. PICK M : M = Front(H) OBVIOUS
<1>8. /\ M \in Seq(Task) /\ Len(M) = Len(H) - 1
      /\ \A i \in 1 .. Len(H) - 1 : M[i] = H[i]
      /\ Frames(M) = Front(Frames(H))
  BY <1>1, <1>7, FramesPop
<1>9. PICK G : G = Append(M, h) OBVIOUS
<1>10. /\ G \in Seq(Task) /\ Len(G) = Len(M) + 1
       /\ \A i \in 1 .. Len(M) : G[i] = M[i]
       /\ G[Len(M) + 1] = h
       /\ Frames(G) = Append(Frames(M), Frame(h.d, h.k))
  BY <1>5, <1>8, <1>9, FramesPush
<1>11. /\ Len(G) = Len(H) /\ G[Len(H)] = h
       /\ \A i \in 1 .. Len(H) - 1 : G[i] = H[i]
  <2>1. Len(M) + 1 = Len(H) BY <1>1, <1>8
  <2> QED BY <2>1, <1>8, <1>10
<1>12. \A i \in 1 .. Len(G) : TaskFits(F, G[i])
  <2> SUFFICES ASSUME NEW i \in 1 .. Len(G) PROVE TaskFits(F, G[i]) OBVIOUS
  <2>1. i = Len(H) \/ (i \in 1 .. Len(H) - 1 /\ i \in 1 .. Len(H)) BY <1>1, <1>11
  <2> QED BY <2>1, <1>1, <1>6, <1>11
<1>13. \A i \in 1 .. Len(G) - 1 : Links(G[i], G[i + 1])
  <2> SUFFICES ASSUME NEW i \in 1 .. Len(G) - 1 PROVE Links(G[i], G[i + 1]) OBVIOUS
  <2>1. i \in 1 .. Len(H) - 1 /\ G[i] = H[i] /\ Links(H[i], H[i + 1]) BY <1>1, <1>11
  <2>2. CASE i + 1 \in 1 .. Len(H) - 1 BY <2>1, <2>2, <1>11
  <2>3. CASE i + 1 = Len(H)
    <3>1. Links(H[i], g) BY <2>1, <2>3, <1>2
    <3>2. Links(H[i], h) BY <3>1, <1>5 DEF Links
    <3> QED BY <3>2, <2>1, <2>3, <1>11
  <2>4. i + 1 \in 1 .. Len(H) - 1 \/ i + 1 = Len(H) BY <2>1, <1>1
  <2> QED BY <2>2, <2>3, <2>4
<1>14. G # <<>> /\ G[1].d = d /\ G[1].b = b
  <2>1. G # <<>> BY <1>1, <1>11
  <2>2. \A n \in Nat : n # 0 => 1 \in 1 .. n - 1 \/ n = 1 OBVIOUS
  <2>3. 1 \in 1 .. Len(H) - 1 \/ Len(H) = 1 BY <2>2, <1>1
  <2>4. CASE Len(H) = 1 BY <2>1, <2>4, <1>1, <1>2, <1>5, <1>11
  <2>5. CASE 1 \in 1 .. Len(H) - 1 BY <2>1, <2>5, <1>1, <1>11
  <2> QED BY <2>3, <2>4, <2>5
<1>15. Chain(F, d, b, G) BY <1>10, <1>12, <1>13, <1>14 DEF Chain
<1>16. Where(d, b, G) = Place(g.d, g.b, g.k + 1) BY <1>5, <1>11, <1>14 DEF Where
<1> QED BY <1>2, <1>5, <1>8, <1>10, <1>11, <1>14, <1>15, <1>16

\* What a function wants tells how far it is.
LEMMA FrameTells ==
  ASSUME BytesListed, NEW F, NEW h \in Task, TaskFits(F, h), NEW f, f = Frame(h.d, h.k)
  PROVE  /\ h.d \in Data /\ h.b \in Nat \ {0} /\ h.k \in 0 .. Size(h.d)
         /\ f.what \in {"array", "external"} /\ f.what = h.d.is
         /\ f.what = "array" /\ f.left > 0 => MayRead(h)
         /\ f.what = "array" /\ f.left = 0 => h.k = Size(h.d)
         /\ f.what = "external" /\ f.todo # {} => MayRead(h)
         /\ f.what = "external" /\ f.todo = {} /\ f.levels # <<>> =>
              h.k < Size(h.d) /\ ~IsItem(h.d, h.k + 1)
         /\ f.what = "external" /\ f.todo = {} /\ f.levels = <<>> => h.k = Size(h.d)
<1>1. PICK d, b, k : d = h.d /\ b = h.b /\ k = h.k OBVIOUS
<1>2. d \in Data /\ b \in Nat \ {0} /\ k \in Nat BY <1>1 DEF Task
<1>3. Composite(d) /\ k \in 0 .. Size(d) BY <1>1 DEF TaskFits
<1>4. Size(d) \in Nat BY <1>2, <1>3, CompositeWritten
<1>5. CASE d.is = "array"
  <2>1. f.what = "array" /\ f.left = Size(d) - k BY <1>1, <1>2, <1>3, <1>5, ArrayFrames
  <2>2. IsItem(d, k + 1) BY <1>5 DEF IsItem
  <2> QED BY <2>1, <2>2, <1>1, <1>2, <1>3, <1>4, <1>5 DEF MayRead
<1>6. CASE d.is = "external"
  <2>1. f.what = "external" BY <1>1, <1>2, <1>3, <1>6, MessageFrames
  <2>2. k = Size(d) => f.todo = {} /\ f.levels = <<>> BY <1>1, <1>2, <1>6, MessageFrames
  <2>3. ASSUME k # Size(d), d.parts[k + 1].t = "flags"
        PROVE  f.todo = {} /\ f.levels # <<>> /\ k < Size(d) /\ ~IsItem(d, k + 1)
    <3>1. k \in 0 .. Size(d) - 1 BY <2>3, <1>3, <1>4
    <3> QED BY <3>1, <2>3, <1>1, <1>2, <1>4, <1>6, MessageFrames DEF IsItem
  <2>4. ASSUME k # Size(d), d.parts[k + 1].t = "field"
        PROVE  f.todo # {} /\ k < Size(d) /\ IsItem(d, k + 1)
    <3>1. k \in 0 .. Size(d) - 1 BY <2>4, <1>3, <1>4
    <3> QED BY <3>1, <2>4, <1>1, <1>2, <1>4, <1>6, MessageFrames DEF IsItem
  <2>5. k # Size(d) => d.parts[k + 1].t \in {"flags", "field"}
    <3>1. k # Size(d) => k + 1 \in 1 .. Len(d.parts) BY <1>3, <1>4, <1>6 DEF Size
    <3> QED BY <3>1, <1>2, <1>6, PartFacts
  <2> QED BY <2>1, <2>2, <2>3, <2>4, <2>5, <1>1, <1>2, <1>3, <1>6 DEF MayRead
<1> QED BY <1>3, <1>5, <1>6 DEF Composite

\* A value goes to the function that called for it.
LEMMA Deliver ==
  ASSUME BytesListed, NEW F \in Seq(TokenSet), NEW d \in Data, NEW b \in Nat \ {0},
         Lies(F, b, Written(d)),
         NEW H, Chain(F, d, b, H), H # <<>> => MayRead(H[Len(H)]), value = None,
         NEW v, v = Meant(Wanted(d, H)),
         NEW p, p = Where(d, b, H) + Len(Written(Wanted(d, H))),
         NEW frames, frames = Frames(H), Goes(v, frames, p)
  PROVE  DataRead(F, d, b)'
<1>1. /\ H \in Seq(Task) /\ \A i \in 1 .. Len(H) : TaskFits(F, H[i])
      /\ Frames(H) = <<>> <=> H = <<>>
  BY FramesType DEF Chain
<1>2. CASE H = <<>>
  <2>1. frames = <<>> BY <1>1, <1>2
  <2>2. value' = v /\ stack' = <<>> /\ des_pos' = p BY <2>1 DEF Goes
  <2>3. v = Meant(d) /\ p = b + Len(Written(d)) BY <1>2 DEF Wanted, Where
  <2>4. Meant(d) # None BY DataAssumption
  <2> QED BY <2>2, <2>3, <2>4 DEF DataRead
<1>3. CASE H # <<>>
  <2>1. PICK h : h = H[Len(H)] OBVIOUS
  <2>2. h \in Task /\ TaskFits(F, h) /\ MayRead(h) /\ Last(frames) = Frame(h.d, h.k)
    BY <1>1, <1>3, <2>1, FramesType
  <2>3. h.k < Size(h.d) /\ IsItem(h.d, h.k + 1) BY <2>2 DEF MayRead
  <2>4. /\ h.d \in Data /\ h.k \in 0 .. Size(h.d) - 1
        /\ Place(h.d, h.b, h.k + 1) = Place(h.d, h.b, h.k) + Len(Written(ItemAt(h.d, h.k + 1)))
    BY <2>2, <2>3, TaskPart
  <2>5. PICK G : /\ Chain(F, d, b, G) /\ G # <<>>
                 /\ G[Len(G)] = TaskOf(h.d, h.b, h.k + 1)
                 /\ Frames(G) = Append(Front(Frames(H)), Frame(h.d, h.k + 1))
                 /\ Where(d, b, G) = Place(h.d, h.b, h.k + 1)
    BY <1>3, <2>1, <2>3, ChainAdvance
  <2>6. v = Meant(ItemAt(h.d, h.k + 1)) /\ p = Place(h.d, h.b, h.k + 1)
    BY <1>3, <2>1, <2>4 DEF Wanted, Where
  <2>7. frames # <<>> BY <1>1, <1>3
  <2>8. Composite(h.d) BY <2>2 DEF TaskFits
  <2>9. /\ stack' = Frames(G) /\ value' = None /\ des_pos' = p
        /\ h.d.is = "external" => src_pos' = p
    <3>1. CASE h.d.is = "array"
      <4>1. Last(frames).what = "array" BY <2>2, <3>1 DEF Frame
      <4>2. /\ stack' = Append(Front(frames), ArrayTook(Last(frames), v))
            /\ value' = value /\ des_pos' = p
        BY <2>7, <4>1 DEF Goes, ArrayTook
      <4>3. Frame(h.d, h.k + 1) = ArrayTook(Frame(h.d, h.k), Meant(h.d.items[h.k + 1]))
        BY <2>4, <3>1, ArrayFrames
      <4>4. ItemAt(h.d, h.k + 1) = h.d.items[h.k + 1] BY <3>1 DEF ItemAt
      <4> QED BY <4>2, <4>3, <4>4, <2>2, <2>5, <2>6, <3>1
    <3>2. CASE h.d.is = "external"
      <4>1. Last(frames).what = "external" BY <2>2, <3>2 DEF Frame
      <4>2. /\ stack' = Append(Front(frames), FieldTook(Last(frames), v))
            /\ value' = value /\ des_pos' = p /\ src_pos' = p
        BY <2>7, <4>1 DEF Goes, FieldTook
      <4>3. h.d.parts[h.k + 1].t = "field" BY <2>3, <3>2 DEF IsItem
      <4>4. Frame(h.d, h.k + 1) = FieldTook(Frame(h.d, h.k), Meant(h.d.parts[h.k + 1].data))
        BY <2>4, <3>2, <4>3, MessageFrames
      <4>5. ItemAt(h.d, h.k + 1) = h.d.parts[h.k + 1].data BY <3>2 DEF ItemAt
      <4> QED BY <4>2, <4>4, <4>5, <2>2, <2>5, <2>6, <3>2
    <3> QED BY <3>1, <3>2, <2>8 DEF Composite
  <2>10. Start' = p
    <3>1. G \in Seq(Task) BY <2>5 DEF Chain
    <3>2. G[Len(G)].d = h.d /\ G[Len(G)].k = h.k + 1 BY <2>5 DEF TaskOf
    <3>3. Last(Frames(G)) = Frame(h.d, h.k + 1) BY <3>1, <3>2, <2>5, FramesType
    <3>4. (Top')= Frame(h.d, h.k + 1) BY <3>3, <2>9 DEF Top, Last
    <3>5. (Top').what = IF h.d.is = "array" THEN "array" ELSE "external" BY <3>4 DEF Frame
    <3>6. CASE h.d.is = "array"
      <4>1. ~(InMessage') BY <3>5, <3>6 DEF InMessage
      <4> QED BY <4>1, <2>9 DEF Start
    <3>7. CASE h.d.is = "external"
      <4>1. stack' # <<>> BY <3>1, <2>5, <2>9, FramesType
      <4>2. InMessage' BY <3>5, <3>7, <4>1 DEF InMessage
      <4> QED BY <4>2, <3>7, <2>9 DEF Start
    <3> QED BY <3>6, <3>7, <2>8 DEF Composite
  <2> QED BY <2>5, <2>6, <2>9, <2>10 DEF DataRead
<1> QED BY <1>2, <1>3

\* The stream is F, or lost its end.
StreamOf(F) ==
  /\ stream \in Seq(TokenSet) /\ Len(stream) <= Len(F)
  /\ \A i \in 1 .. Len(stream) : stream[i] = F[i]

LEMMA TopIs ==
  ASSUME BytesListed, NEW F \in Seq(TokenSet), NEW d \in Data, NEW b \in Nat \ {0},
         Lies(F, b, Written(d)), DataRead(F, d, b), value = None \/ stack # <<>>
  PROVE  \E H :
           /\ Chain(F, d, b, H) /\ H \in Seq(Task) /\ stack = Frames(H) /\ Start = Where(d, b, H)
           /\ value = None /\ (H = <<>> <=> stack = <<>>)
           /\ H # <<>> => /\ H[Len(H)] \in Task /\ TaskFits(F, H[Len(H)])
                          /\ Top = Frame(H[Len(H)].d, H[Len(H)].k)
                          /\ Below = Front(Frames(H))
           /\ WantsValue => (H # <<>> => MayRead(H[Len(H)]))
<1>1. PICK H : value = None /\ Chain(F, d, b, H) /\ stack = Frames(H) /\ Start = Where(d, b, H)
  BY DEF DataRead
<1>2. /\ H \in Seq(Task) /\ \A i \in 1 .. Len(H) : TaskFits(F, H[i])
      /\ (Frames(H) = <<>> <=> H = <<>>)
  BY <1>1, FramesType DEF Chain
<1>3. H # <<>> => /\ H[Len(H)] \in Task /\ TaskFits(F, H[Len(H)])
                  /\ Top = Frame(H[Len(H)].d, H[Len(H)].k)
                  /\ Below = Front(Frames(H))
  BY <1>1, <1>2, FramesType DEF Top, Below, Last, Front
<1>4. ASSUME WantsValue, H # <<>> PROVE MayRead(H[Len(H)])
  <2>1. \/ Top.what = "array" /\ Top.left > 0
        \/ Top.what = "external" /\ Top.todo # {}
    BY <1>1, <1>2, <1>4 DEF WantsValue
  <2>2. PICK h, f : h = H[Len(H)] /\ f = Top OBVIOUS
  <2>3. h \in Task /\ TaskFits(F, h) /\ f = Frame(h.d, h.k) BY <1>3, <1>4, <2>2
  <2> QED BY <2>1, <2>2, <2>3, FrameTells
<1> QED BY <1>1, <1>2, <1>3, <1>4

LEMMA DataStep ==
  ASSUME BytesListed, NEW F \in Seq(TokenSet), NEW d \in Data, NEW b \in Nat \ {0},
         Lies(F, b, Written(d)), StreamOf(F), DataRead(F, d, b), ReadSome
  PROVE  DataRead(F, d, b)'
<1>1. value = None \/ stack # <<>>
  BY DEF ReadSome, ReadValue, ReadArray, ReadExternal, ReadFlags, ReturnArray, ReturnExternal,
         WantsValue, WantsFlags, InMessage
<1>2. PICK H :
           /\ Chain(F, d, b, H) /\ H \in Seq(Task) /\ stack = Frames(H) /\ Start = Where(d, b, H)
           /\ value = None /\ (H = <<>> <=> stack = <<>>)
           /\ H # <<>> => /\ H[Len(H)] \in Task /\ TaskFits(F, H[Len(H)])
                          /\ Top = Frame(H[Len(H)].d, H[Len(H)].k)
                          /\ Below = Front(Frames(H))
           /\ WantsValue => (H # <<>> => MayRead(H[Len(H)]))
  BY <1>1, TopIs
<1>3. PICK x, s : x = Wanted(d, H) /\ s = Where(d, b, H) OBVIOUS
<1>4. ASSUME WantsValue
      PROVE  /\ x \in Data /\ s \in Nat \ {0} /\ Lies(F, s, Written(x)) /\ s \in 1 .. Len(F)
             /\ Composite(x) => F[s] = HeadTok(x)
             /\ ~Composite(x) => /\ F[s] = Tok("value", x.v) /\ Meant(x) = x.v
                                 /\ Len(Written(x)) = 1
             /\ \A t : Finds(t, Start) => stream[Start] = F[s] /\ F[s].t = t
  <2>1. x \in Data /\ s \in Nat \ {0} /\ Lies(F, s, Written(x)) BY <1>2, <1>3, <1>4, ChainWants
  <2>2. \A t : Finds(t, Start) => stream[Start] = F[s] /\ F[s].t = t
    BY <2>1, <1>2, <1>3 DEF Finds, StreamOf
  <2> QED BY <2>1, <2>2, FirstToken
<1>5. CASE ReadValue
  <2>1. WantsValue /\ Finds("value", Start) /\ Goes(stream[Start].p, stack, Start + 1)
    BY <1>5 DEF ReadValue
  <2>2. stream[Start] = F[s] /\ F[s].t = "value" BY <2>1, <1>4
  <2>3. ~Composite(x) BY <2>1, <2>2, <1>4 DEF HeadTok, Tok
  <2>4. stream[Start].p = Meant(x) /\ Len(Written(x)) = 1 BY <2>1, <2>2, <2>3, <1>4 DEF Tok
  <2>5. Start + 1 = s + Len(Written(x)) BY <2>4, <1>2, <1>3
  <2> QED BY <2>1, <2>4, <2>5, <1>2, <1>3, Deliver
<1>6. ASSUME WantsValue, Composite(x), des_pos' = s + 1,
             stack' = Append(stack, Frame(x, 0)), value' = value,
             x.is = "external" => src_pos' = s + 1
      PROVE  DataRead(F, d, b)'
  <2>1. PICK G : /\ Chain(F, d, b, G) /\ Frames(G) = Append(Frames(H), Frame(x, 0))
                 /\ Where(d, b, G) = s + 1
    BY <1>2, <1>3, <1>6, ChainPush
  <2>2. stack' = Frames(G) /\ value' = None BY <2>1, <1>2, <1>6
  <2>3. G \in Seq(Task) /\ G # <<>>
    <3>1. G \in Seq(Task) BY <2>1 DEF Chain
    <3>2. Len(Frames(H)) \in Nat /\ Frames(H) \in Seq(FrameSet) BY <1>2, FramesType
    <3>3. Frame(x, 0) \in FrameSet
      <4>1. TaskOf(x, 1, 0) \in Task BY <1>4, <1>6 DEF Task, TaskOf
      <4>2. TaskOf(x, 1, 0).d = x /\ TaskOf(x, 1, 0).k = 0 BY DEF TaskOf
      <4> QED BY <4>1, <4>2 DEF FrameSet
    <3>4. Frames(G) # <<>> BY <3>2, <3>3, <2>1
    <3> QED BY <3>1, <3>4, FramesType
  <2>4. (Top') = Frame(x, 0) /\ stack' # <<>>
    <3>1. Frames(H) \in Seq(FrameSet) BY <1>2, FramesType
    <3>2. PICK f, g : f = Frames(H) /\ g = Frame(x, 0) OBVIOUS
    <3>3. stack' = Append(f, g) BY <3>2, <2>1, <2>2
    <3>4. f \in Seq(FrameSet \cup {g}) /\ g \in FrameSet \cup {g} BY <3>1, <3>2
    <3>5. Append(f, g)[Len(Append(f, g))] = g /\ Append(f, g) # <<>> BY <3>4
    <3> QED BY <3>2, <3>3, <3>5 DEF Top
  <2>5. (Top').what = IF x.is = "array" THEN "array" ELSE "external" BY <2>4 DEF Frame
  <2>6. Start' = s + 1
    <3>1. CASE x.is = "array"
      <4>1. ~(InMessage') BY <2>5, <3>1 DEF InMessage
      <4> QED BY <4>1, <1>6 DEF Start
    <3>2. CASE x.is = "external"
      <4>1. InMessage' BY <2>4, <2>5, <3>2 DEF InMessage
      <4> QED BY <4>1, <3>2, <1>6 DEF Start
    <3> QED BY <3>1, <3>2, <1>6 DEF Composite
  <2> QED BY <2>1, <2>2, <2>6 DEF DataRead
<1>7. CASE ReadArray
  <2>1. /\ WantsValue /\ Finds("array", Start) /\ des_pos' = Start + 1 /\ value' = value
        /\ stack' = Append(stack, ArrayFrame(stream[Start].p))
    BY <1>7 DEF ReadArray
  <2>2. stream[Start] = F[s] /\ F[s].t = "array" BY <2>1, <1>4
  <2>3. Composite(x) /\ F[s] = HeadTok(x) BY <2>1, <2>2, <1>4 DEF Tok
  <2>4. x.is = "array" /\ F[s] = Tok("array", Len(x.items)) BY <2>2, <2>3 DEF HeadTok, Tok
  <2>5. Frame(x, 0) = ArrayFrame(stream[Start].p)
    <3>1. stream[Start].p = Len(x.items) BY <2>2, <2>4 DEF Tok
    <3>2. Frame(x, 0) = ArrayFrame(Len(x.items)) BY <2>1, <2>4, <1>4, ArrayFrames
    <3> QED BY <3>1, <3>2
  <2> QED BY <2>1, <2>3, <2>4, <2>5, <1>2, <1>3, <1>6
<1>8. CASE ReadExternal
  <2>1. /\ WantsValue /\ Finds("external", Start) /\ des_pos' = Start + 1 /\ src_pos' = Start + 1
        /\ value' = value
        /\ stack' = Append(stack, MessageFrame(stream[Start].p))
    BY <1>8 DEF ReadExternal
  <2>2. stream[Start] = F[s] /\ F[s].t = "external" BY <2>1, <1>4
  <2>3. Composite(x) /\ F[s] = HeadTok(x) BY <2>1, <2>2, <1>4 DEF Tok
  <2>4. x.is = "external" /\ F[s] = Tok("external", x.cls)
    BY <2>2, <2>3 DEF HeadTok, Tok, Composite
  <2>5. Frame(x, 0) = MessageFrame(stream[Start].p)
    <3>1. stream[Start].p = x.cls BY <2>2, <2>4 DEF Tok
    <3>2. Frame(x, 0) = MessageFrame(x.cls) BY <2>1, <2>4, <1>4, MessageFrames
    <3> QED BY <3>1, <3>2
  <2> QED BY <2>1, <2>3, <2>4, <2>5, <1>2, <1>3, <1>6
<1>9. CASE ReadFlags
  <2>1. /\ WantsFlags /\ Finds("flags", src_pos) /\ src_pos' = src_pos + 1 /\ value' = value
        /\ stack' = Append(Below, FlagsTook(Top, stream[src_pos].p))
    BY <1>9 DEF ReadFlags, FlagsTook
  <2>2. InMessage /\ stack # <<>> /\ Top.what = "external" /\ Top.todo = {} /\ Top.levels # <<>>
    BY <2>1 DEF WantsFlags, InMessage
  <2>3. PICK h : h = H[Len(H)] OBVIOUS
  <2>4. h \in Task /\ TaskFits(F, h) /\ Top = Frame(h.d, h.k) /\ H # <<>> BY <1>2, <2>2, <2>3
  <2>5. h.k < Size(h.d) /\ ~IsItem(h.d, h.k + 1)
    <3>1. PICK f : f = Top OBVIOUS
    <3> QED BY <2>2, <2>4, <3>1, FrameTells
  <2>6. /\ h.d \in Data /\ h.k \in 0 .. Size(h.d) - 1
        /\ h.d.is = "external" /\ h.d.parts[h.k + 1].t = "flags"
        /\ Place(h.d, h.b, h.k) \in 1 .. Len(F)
        /\ F[Place(h.d, h.b, h.k)] = Tok("flags", h.d.parts[h.k + 1].bytes)
        /\ Place(h.d, h.b, h.k + 1) = Place(h.d, h.b, h.k) + 1
    BY <2>4, <2>5, TaskPart
  <2>7. src_pos = Place(h.d, h.b, h.k) BY <1>2, <2>2, <2>3, <2>4 DEF Start, Where
  <2>8. stream[src_pos].p = h.d.parts[h.k + 1].bytes
    <3>1. src_pos \in 1 .. Len(stream) BY <2>1, <2>6, <2>7 DEF Finds, StreamOf
    <3>2. stream[src_pos] = F[src_pos] BY <3>1 DEF StreamOf
    <3> QED BY <3>2, <2>6, <2>7 DEF Tok
  <2>9. FlagsTook(Top, stream[src_pos].p) = Frame(h.d, h.k + 1)
    <3>1. Frame(h.d, h.k + 1) = FlagsTook(Frame(h.d, h.k), h.d.parts[h.k + 1].bytes)
      BY <2>6, MessageFrames
    <3> QED BY <3>1, <2>4, <2>8
  <2>10. PICK G : /\ Chain(F, d, b, G) /\ G # <<>>
                  /\ G[Len(G)] = TaskOf(h.d, h.b, h.k + 1)
                  /\ Frames(G) = Append(Front(Frames(H)), Frame(h.d, h.k + 1))
                  /\ Where(d, b, G) = Place(h.d, h.b, h.k + 1)
    BY <1>2, <2>3, <2>4, <2>5, ChainAdvance
  <2>11. stack' = Frames(G) /\ value' = None BY <2>1, <2>4, <2>9, <2>10, <1>2
  <2>12. Start' = Place(h.d, h.b, h.k + 1)
    <3>1. G \in Seq(Task) BY <2>10 DEF Chain
    <3>2. G[Len(G)].d = h.d /\ G[Len(G)].k = h.k + 1 BY <2>10 DEF TaskOf
    <3>3. Last(Frames(G)) = Frame(h.d, h.k + 1) /\ Frames(G) # <<>>
      BY <3>1, <3>2, <2>10, FramesType
    <3>4. (Top') = Frame(h.d, h.k + 1) /\ stack' # <<>> BY <3>3, <2>11 DEF Top, Last
    <3>5. (Top').what = "external" BY <3>4, <2>6 DEF Frame
    <3>6. InMessage' BY <3>4, <3>5 DEF InMessage
    <3> QED BY <3>6, <2>1, <2>6, <2>7 DEF Start
  <2> QED BY <2>10, <2>11, <2>12 DEF DataRead
<1>10. ASSUME H # <<>>, NEW v, v = Meant(H[Len(H)].d), H[Len(H)].k = Size(H[Len(H)].d),
              Goes(v, Below, Start)
       PROVE  DataRead(F, d, b)'
  <2>1. PICK h : h = H[Len(H)] OBVIOUS
  <2>2. h \in Task /\ TaskFits(F, h) /\ Below = Front(Frames(H)) BY <1>2, <1>10, <2>1
  <2>3. /\ Chain(F, d, b, Front(H)) /\ Frames(Front(H)) = Front(Frames(H))
        /\ Front(H) # <<>> => MayRead(Front(H)[Len(Front(H))])
        /\ Wanted(d, Front(H)) = h.d /\ Where(d, b, Front(H)) = h.b
    BY <1>2, <1>10, <2>1, ChainPop
  <2>4. Start = h.b + Len(Written(h.d))
    <3>1. Start = Place(h.d, h.b, Size(h.d)) BY <1>2, <1>10, <2>1 DEF Where
    <3>2. h.d \in Data /\ h.b \in Nat \ {0} /\ Composite(h.d) BY <2>2 DEF Task, TaskFits
    <3> QED BY <3>1, <3>2, Places
  <2>5. PICK G : G = Front(H) OBVIOUS
  <2>6. /\ Chain(F, d, b, G) /\ Below = Frames(G) /\ G # <<>> => MayRead(G[Len(G)])
        /\ Wanted(d, G) = h.d /\ Where(d, b, G) = h.b
    BY <2>2, <2>3, <2>5
  <2>7. v = Meant(Wanted(d, G)) /\ Start = Where(d, b, G) + Len(Written(Wanted(d, G)))
    BY <1>10, <2>1, <2>4, <2>6
  <2>8. G # <<>> => MayRead(G[Len(G)]) BY <2>3, <2>5
  <2>9. Chain(F, d, b, G) /\ Below = Frames(G) /\ value = None BY <2>2, <2>3, <2>5, <1>2
  <2> QED BY <1>10, <2>7, <2>8, <2>9, Deliver
<1>11. CASE ReturnArray
  <2>1. /\ stack # <<>> /\ Top.what = "array" /\ Top.left = 0
        /\ Goes([is |-> "array", items |-> Top.items], Below, des_pos)
    BY <1>11 DEF ReturnArray
  <2>2. PICK h : h = H[Len(H)] OBVIOUS
  <2>3. h \in Task /\ TaskFits(F, h) /\ Top = Frame(h.d, h.k) /\ H # <<>> BY <1>2, <2>1, <2>2
  <2>4. h.d \in Data /\ h.d.is = "array" /\ h.k = Size(h.d)
    <3>1. PICK f : f = Top OBVIOUS
    <3> QED BY <2>1, <2>3, <3>1, FrameTells
  <2>5. Meant(h.d) = [is |-> "array", items |-> Top.items] BY <2>3, <2>4, ArrayFrames
  <2>6. Start = des_pos BY <2>1 DEF Start, InMessage
  <2> QED BY <2>1, <2>2, <2>3, <2>4, <2>5, <2>6, <1>10
<1>12. CASE ReturnExternal
  <2>1. /\ InMessage /\ stack # <<>> /\ Top.what = "external" /\ Top.levels = <<>> /\ Top.todo = {}
        /\ Goes([is |-> "message", cls |-> Top.cls, attrs |-> Top.attrs], Below, src_pos)
    BY <1>12 DEF ReturnExternal, InMessage
  <2>2. PICK h : h = H[Len(H)] OBVIOUS
  <2>3. h \in Task /\ TaskFits(F, h) /\ Top = Frame(h.d, h.k) /\ H # <<>> BY <1>2, <2>1, <2>2
  <2>4. h.d \in Data /\ h.d.is = "external" /\ h.k = Size(h.d)
    <3>1. PICK f : f = Top OBVIOUS
    <3> QED BY <2>1, <2>3, <3>1, FrameTells
  <2>5. Meant(h.d) = [is |-> "message", cls |-> Top.cls, attrs |-> Top.attrs]
    BY <2>3, <2>4, MessageFrames
  <2>6. Start = src_pos BY <2>1 DEF Start
  <2> QED BY <2>1, <2>2, <2>3, <2>4, <2>5, <2>6, <1>10
<1> QED BY <1>5, <1>7, <1>8, <1>9, <1>11, <1>12 DEF ReadSome

\* Data are refused when the stream has lost its end.
LEMMA DataRaise ==
  ASSUME BytesListed, NEW F \in Seq(TokenSet), NEW d \in Data, NEW b \in Nat \ {0},
         Lies(F, b, Written(d)), StreamOf(F), DataRead(F, d, b), Raises
  PROVE  stream # F
<1> SUFFICES ASSUME stream = F PROVE FALSE OBVIOUS
<1>1. value = None \/ stack # <<>> BY DEF Raises, WantsValue, WantsFlags, InMessage
<1>2. PICK H :
           /\ Chain(F, d, b, H) /\ H \in Seq(Task) /\ stack = Frames(H) /\ Start = Where(d, b, H)
           /\ value = None /\ (H = <<>> <=> stack = <<>>)
           /\ H # <<>> => /\ H[Len(H)] \in Task /\ TaskFits(F, H[Len(H)])
                          /\ Top = Frame(H[Len(H)].d, H[Len(H)].k)
                          /\ Below = Front(Frames(H))
           /\ WantsValue => (H # <<>> => MayRead(H[Len(H)]))
  BY <1>1, TopIs
<1>3. CASE WantsValue /\ \A t \in {"value", "array", "external"} : ~Finds(t, Start)
  <2>1. PICK x, s : x = Wanted(d, H) /\ s = Where(d, b, H) OBVIOUS
  <2>2. x \in Data /\ s \in Nat \ {0} /\ Lies(F, s, Written(x)) BY <1>2, <1>3, <2>1, ChainWants
  <2>3. /\ s \in 1 .. Len(F)
        /\ Composite(x) => F[s] = HeadTok(x)
        /\ ~Composite(x) => F[s] = Tok("value", x.v)
    BY <2>2, FirstToken
  <2>4. F[s].t \in {"value", "array", "external"} BY <2>3 DEF HeadTok, Tok
  <2>5. Finds(F[s].t, Start) BY <1>2, <2>1, <2>3 DEF Finds
  <2> QED BY <2>4, <2>5, <1>3
<1>4. CASE WantsFlags /\ ~Finds("flags", src_pos)
  <2>1. InMessage /\ stack # <<>> /\ Top.what = "external" /\ Top.todo = {} /\ Top.levels # <<>>
    BY <1>4 DEF WantsFlags, InMessage
  <2>2. PICK h : h = H[Len(H)] OBVIOUS
  <2>3. h \in Task /\ TaskFits(F, h) /\ Top = Frame(h.d, h.k) /\ H # <<>> BY <1>2, <2>1, <2>2
  <2>4. h.k < Size(h.d) /\ ~IsItem(h.d, h.k + 1)
    <3>1. PICK f : f = Top OBVIOUS
    <3> QED BY <2>1, <2>3, <3>1, FrameTells
  <2>5. /\ Place(h.d, h.b, h.k) \in 1 .. Len(F)
        /\ F[Place(h.d, h.b, h.k)] = Tok("flags", h.d.parts[h.k + 1].bytes)
    BY <2>3, <2>4, TaskPart
  <2>6. src_pos = Place(h.d, h.b, h.k) BY <1>2, <2>1, <2>2, <2>3 DEF Start, Where
  <2> QED BY <2>5, <2>6, <1>4 DEF Finds, Tok
<1> QED BY <1>3, <1>4 DEF Raises

\* Neither position leaves the stream.
Positions == des_pos \in 1 .. Len(stream) + 1 /\ src_pos \in 1 .. Len(stream) + 1

LEMMA PositionsStay ==
  ASSUME Len(stream) \in Nat, Positions, ReadSome
  PROVE  Positions' /\ stream' = stream
<1>1. \A t, p : p \in 1 .. Len(stream) + 1 /\ Finds(t, p) => p + 1 \in 1 .. Len(stream) + 1
  BY DEF Finds
<1>2. Start \in 1 .. Len(stream) + 1 BY DEF Start, Positions
<1>3. \A v, frames, p : p \in 1 .. Len(stream) + 1 /\ Goes(v, frames, p) =>
        des_pos' \in 1 .. Len(stream) + 1 /\ src_pos' \in 1 .. Len(stream) + 1
  BY DEF Goes, Positions
<1>4. CASE ReadValue BY <1>1, <1>2, <1>3, <1>4 DEF ReadValue, Positions
<1>5. CASE ReadArray BY <1>1, <1>2, <1>5 DEF ReadArray, Positions
<1>6. CASE ReadExternal BY <1>1, <1>2, <1>6 DEF ReadExternal, Positions
<1>7. CASE ReadFlags BY <1>1, <1>7 DEF ReadFlags, Positions
<1>8. CASE ReturnArray BY <1>3, <1>8 DEF ReturnArray, Positions
<1>9. CASE ReturnExternal BY <1>3, <1>9 DEF ReturnExternal, Positions
<1> QED BY <1>4, <1>5, <1>6, <1>7, <1>8, <1>9 DEF ReadSome

-----------------------------------------------------------------------------
(***************************************************************************)
(* Where the parts of an envelope are.                                     *)
(***************************************************************************)
HeaderTok(h) == Tok("header", [name |-> h.name, must |-> h.must])
MessageTok(m) == Tok("message", [target |-> m.target, response |-> m.response])
HeadersOf(e) == [k \in DOMAIN e.headers |-> WrittenHeader(e.headers[k])]
MessagesOf(e) == [k \in DOMAIN e.messages |-> WrittenMessage(e.messages[k])]
\* The header after the first k, the number of messages, the message after the
\* first k.
HeaderAt(e, k) == 3 + Len(Upto(HeadersOf(e), k))
CountAt(e) == HeaderAt(e, Len(e.headers))
MessageAt(e, k) == CountAt(e) + 1 + Len(Upto(MessagesOf(e), k))

LEMMA SendableIs ==
  ASSUME NEW e \in Sendable
  PROVE  /\ e.version \in Nat /\ Len(e.headers) \in Nat /\ Len(e.messages) \in Nat
         /\ DOMAIN e.headers = 1 .. Len(e.headers) /\ DOMAIN e.messages = 1 .. Len(e.messages)
         /\ e.headers \in Seq([name : Names, must : BOOLEAN, data : Data])
         /\ e.messages \in Seq([target : Names, response : Names, data : Data])
         /\ \A k \in 1 .. Len(e.headers) : /\ e.headers[k].name \in Names
                                           /\ e.headers[k].must \in BOOLEAN
                                           /\ e.headers[k].data \in Data
         /\ \A k \in 1 .. Len(e.messages) : /\ e.messages[k].target \in Names
                                            /\ e.messages[k].response \in Names
                                            /\ e.messages[k].data \in Data
<1>1. /\ e.version \in Nat
      /\ e.headers \in Seq([name : Names, must : BOOLEAN, data : Data])
      /\ e.messages \in Seq([target : Names, response : Names, data : Data])
  BY DEF Sendable
<1>2. \A S : \A s \in Seq(S) : Len(s) \in Nat /\ DOMAIN s = 1 .. Len(s) /\ \A k \in 1 .. Len(s) : s[k] \in S
  OBVIOUS
<1>3. /\ Len(e.headers) \in Nat /\ DOMAIN e.headers = 1 .. Len(e.headers)
      /\ \A k \in 1 .. Len(e.headers) : e.headers[k] \in [name : Names, must : BOOLEAN, data : Data]
  BY <1>1, <1>2
<1>4. /\ Len(e.messages) \in Nat /\ DOMAIN e.messages = 1 .. Len(e.messages)
      /\ \A k \in 1 .. Len(e.messages) :
           e.messages[k] \in [target : Names, response : Names, data : Data]
  BY <1>1, <1>2
<1>5. \A h \in [name : Names, must : BOOLEAN, data : Data] :
        h.name \in Names /\ h.must \in BOOLEAN /\ h.data \in Data
  OBVIOUS
<1>6. \A m \in [target : Names, response : Names, data : Data] :
        m.target \in Names /\ m.response \in Names /\ m.data \in Data
  OBVIOUS
<1> QED BY <1>1, <1>3, <1>4, <1>5, <1>6

\* One token, and behind it data.
LEMMA HeadLies ==
  ASSUME NEW F \in Seq(TokenSet), NEW p \in Nat \ {0}, NEW t \in TokenSet, NEW d \in Data,
         Lies(F, p, <<t>> \o Written(d))
  PROVE  /\ p \in 1 .. Len(F) /\ F[p] = t /\ Lies(F, p + 1, Written(d))
         /\ Len(<<t>> \o Written(d)) = 1 + Len(Written(d)) /\ Len(Written(d)) \in Nat
<1>1. PICK w : w = Written(d) OBVIOUS
<1>2. w \in Seq(TokenSet) /\ <<t>> \in Seq(TokenSet) /\ Len(<<t>>) = 1 /\ <<t>>[1] = t
  BY <1>1, WrittenType
<1>3. Lies(F, p, <<t>>) /\ Lies(F, p + 1, w) BY <1>1, <1>2, LiesParts
<1>4. 1 \in 1 .. Len(<<t>>) /\ p + 1 - 1 = p BY <1>2
<1>5. p \in 1 .. Len(F) /\ F[p] = t BY <1>2, <1>3, <1>4 DEF Lies
<1>6. Len(<<t>> \o w) = 1 + Len(w) /\ Len(w) \in Nat BY <1>2
<1> QED BY <1>1, <1>3, <1>5, <1>6

LEMMA TokensAre ==
  ASSUME NEW e \in Sendable
  PROVE  /\ HeadersOf(e) \in Seq(Seq(TokenSet)) /\ Len(HeadersOf(e)) = Len(e.headers)
         /\ MessagesOf(e) \in Seq(Seq(TokenSet)) /\ Len(MessagesOf(e)) = Len(e.messages)
         /\ \A k \in 1 .. Len(e.headers) :
              /\ HeaderTok(e.headers[k]) \in TokenSet
              /\ HeadersOf(e)[k] = <<HeaderTok(e.headers[k])>> \o Written(e.headers[k].data)
         /\ \A k \in 1 .. Len(e.messages) :
              /\ MessageTok(e.messages[k]) \in TokenSet
              /\ MessagesOf(e)[k] = <<MessageTok(e.messages[k])>> \o Written(e.messages[k].data)
         /\ \A n \in Nat : Tok("word", n) \in TokenSet
<1>1. \A n \in Nat : Tok("word", n) \in TokenSet BY DEF TokenSet
<1>2. \A n \in Names : \A m \in BOOLEAN : Tok("header", [name |-> n, must |-> m]) \in TokenSet
  BY DEF TokenSet
<1>3. \A n \in Names : \A m \in Names : Tok("message", [target |-> n, response |-> m]) \in TokenSet
  BY DEF TokenSet
<1>4. \A t \in TokenSet : \A d \in Data : <<t>> \o Written(d) \in Seq(TokenSet)
  <2> SUFFICES ASSUME NEW t \in TokenSet, NEW d \in Data PROVE <<t>> \o Written(d) \in Seq(TokenSet)
    OBVIOUS
  <2>1. PICK w : w = Written(d) OBVIOUS
  <2>2. w \in Seq(TokenSet) BY <2>1, WrittenType
  <2>3. <<t>> \o w \in Seq(TokenSet) BY <2>2
  <2> QED BY <2>1, <2>3
<1>5. ASSUME NEW k \in 1 .. Len(e.headers)
      PROVE  /\ HeaderTok(e.headers[k]) \in TokenSet
             /\ HeadersOf(e)[k] = <<HeaderTok(e.headers[k])>> \o Written(e.headers[k].data)
             /\ HeadersOf(e)[k] \in Seq(TokenSet)
  <2>1. e.headers[k].name \in Names /\ e.headers[k].must \in BOOLEAN /\ e.headers[k].data \in Data
        /\ DOMAIN e.headers = 1 .. Len(e.headers)
    BY SendableIs
  <2>2. HeaderTok(e.headers[k]) \in TokenSet BY <2>1, <1>2 DEF HeaderTok
  <2>3. HeadersOf(e)[k] = <<HeaderTok(e.headers[k])>> \o Written(e.headers[k].data)
    BY <2>1 DEF HeadersOf, WrittenHeader, HeaderTok
  <2> QED BY <2>1, <2>2, <2>3, <1>4
<1>6. ASSUME NEW k \in 1 .. Len(e.messages)
      PROVE  /\ MessageTok(e.messages[k]) \in TokenSet
             /\ MessagesOf(e)[k] = <<MessageTok(e.messages[k])>> \o Written(e.messages[k].data)
             /\ MessagesOf(e)[k] \in Seq(TokenSet)
  <2>1. e.messages[k].target \in Names /\ e.messages[k].response \in Names
        /\ e.messages[k].data \in Data /\ DOMAIN e.messages = 1 .. Len(e.messages)
    BY SendableIs
  <2>2. MessageTok(e.messages[k]) \in TokenSet BY <2>1, <1>3 DEF MessageTok
  <2>3. MessagesOf(e)[k] = <<MessageTok(e.messages[k])>> \o Written(e.messages[k].data)
    BY <2>1 DEF MessagesOf, WrittenMessage, MessageTok
  <2> QED BY <2>1, <2>2, <2>3, <1>4
<1>7. HeadersOf(e) \in Seq(Seq(TokenSet)) /\ Len(HeadersOf(e)) = Len(e.headers)
  <2>1. DOMAIN HeadersOf(e) = 1 .. Len(e.headers) /\ Len(e.headers) \in Nat
        /\ HeadersOf(e) = [k \in 1 .. Len(e.headers) |-> HeadersOf(e)[k]]
    BY SendableIs DEF HeadersOf
  <2>2. HeadersOf(e) \in [1 .. Len(e.headers) -> Seq(TokenSet)] BY <2>1, <1>5
  <2> QED BY <2>1, <2>2
<1>8. MessagesOf(e) \in Seq(Seq(TokenSet)) /\ Len(MessagesOf(e)) = Len(e.messages)
  <2>1. DOMAIN MessagesOf(e) = 1 .. Len(e.messages) /\ Len(e.messages) \in Nat
        /\ MessagesOf(e) = [k \in 1 .. Len(e.messages) |-> MessagesOf(e)[k]]
    BY SendableIs DEF MessagesOf
  <2>2. MessagesOf(e) \in [1 .. Len(e.messages) -> Seq(TokenSet)] BY <2>1, <1>6
  <2> QED BY <2>1, <2>2
<1> QED BY <1>1, <1>5, <1>6, <1>7, <1>8

\* Everything is where it is expected.
LEMMA SerializedIs ==
  ASSUME NEW e \in Sendable, NEW F, F = Serialized(e)
  PROVE  /\ F \in Seq(TokenSet) /\ Len(F) \in Nat
         /\ 1 \in 1 .. Len(F) /\ F[1] = Tok("word", e.version)
         /\ 2 \in 1 .. Len(F) /\ F[2] = Tok("word", Len(e.headers))
         /\ HeaderAt(e, 0) = 3
         /\ CountAt(e) \in 1 .. Len(F) /\ F[CountAt(e)] = Tok("word", Len(e.messages))
         /\ MessageAt(e, 0) = CountAt(e) + 1
         /\ MessageAt(e, Len(e.messages)) = Len(F) + 1
         /\ Lies(F, 3, FlattenSeq(HeadersOf(e)))
         /\ Lies(F, CountAt(e) + 1, FlattenSeq(MessagesOf(e)))
<1>1. PICK hs, ms : hs = HeadersOf(e) /\ ms = MessagesOf(e) OBVIOUS
<1>2. PICK A, C : A = <<Tok("word", e.version), Tok("word", Len(e.headers))>>
                  /\ C = <<Tok("word", Len(e.messages))>>
  OBVIOUS
<1>3. PICK B, D : B = FlattenSeq(hs) /\ D = FlattenSeq(ms) OBVIOUS
<1>4. hs \in Seq(Seq(TokenSet)) /\ Len(hs) = Len(e.headers) /\ Len(hs) \in Nat
      /\ ms \in Seq(Seq(TokenSet)) /\ Len(ms) = Len(e.messages) /\ Len(ms) \in Nat
  BY <1>1, TokensAre, SendableIs
<1>5. A \in Seq(TokenSet) /\ Len(A) = 2 /\ A[1] = Tok("word", e.version)
      /\ A[2] = Tok("word", Len(e.headers))
      /\ C \in Seq(TokenSet) /\ Len(C) = 1 /\ C[1] = Tok("word", Len(e.messages))
  <2>1. Tok("word", e.version) \in TokenSet /\ Tok("word", Len(e.headers)) \in TokenSet
        /\ Tok("word", Len(e.messages)) \in TokenSet
    BY TokensAre, SendableIs
  <2>2. \A a, b, c \in TokenSet : /\ <<a, b>> \in Seq(TokenSet) /\ Len(<<a, b>>) = 2
                                  /\ <<a, b>>[1] = a /\ <<a, b>>[2] = b
                                  /\ <<c>> \in Seq(TokenSet) /\ Len(<<c>>) = 1 /\ <<c>>[1] = c
    OBVIOUS
  <2> QED BY <1>2, <2>1, <2>2
<1>6. B \in Seq(TokenSet) /\ Upto(hs, 0) = <<>> /\ Upto(hs, Len(hs)) = B
      /\ D \in Seq(TokenSet) /\ Upto(ms, 0) = <<>> /\ Upto(ms, Len(ms)) = D
  <2>1. Len(hs) \in 0 .. Len(hs) /\ Len(ms) \in 0 .. Len(ms) BY <1>4
  <2>2. /\ Upto(hs, 0) = <<>> /\ Upto(hs, Len(hs)) = FlattenSeq(hs)
        /\ \A k \in 0 .. Len(hs) : Upto(hs, k) \in Seq(TokenSet)
    BY <1>4, FlatStep
  <2>3. /\ Upto(ms, 0) = <<>> /\ Upto(ms, Len(ms)) = FlattenSeq(ms)
        /\ \A k \in 0 .. Len(ms) : Upto(ms, k) \in Seq(TokenSet)
    BY <1>4, FlatStep
  <2>4. Upto(hs, Len(hs)) \in Seq(TokenSet) /\ Upto(ms, Len(ms)) \in Seq(TokenSet)
    BY <2>1, <2>2, <2>3
  <2> QED BY <2>2, <2>3, <2>4, <1>3
<1>7. F = ((A \o B) \o C) \o D
  BY <1>1, <1>2, <1>3 DEF Serialized, HeadersOf, MessagesOf
<1>8. /\ F \in Seq(TokenSet) /\ Len(B) \in Nat /\ Len(D) \in Nat
      /\ A \o B \in Seq(TokenSet) /\ Len(A \o B) = 2 + Len(B)
      /\ (A \o B) \o C \in Seq(TokenSet) /\ Len((A \o B) \o C) = 3 + Len(B)
      /\ Len(F) = 3 + Len(B) + Len(D)
  <2>1. \A u, v \in Seq(TokenSet) : u \o v \in Seq(TokenSet) /\ Len(u \o v) = Len(u) + Len(v)
                                   /\ Len(u) \in Nat /\ Len(v) \in Nat
    OBVIOUS
  <2>2. A \o B \in Seq(TokenSet) /\ Len(A \o B) = 2 + Len(B) BY <2>1, <1>5, <1>6
  <2>3. (A \o B) \o C \in Seq(TokenSet) /\ Len((A \o B) \o C) = 2 + Len(B) + 1
    BY <2>1, <2>2, <1>5
  <2>4. F \in Seq(TokenSet) /\ Len(F) = 2 + Len(B) + 1 + Len(D) /\ Len(B) \in Nat /\ Len(D) \in Nat
    BY <2>1, <2>3, <1>6, <1>7
  <2> QED BY <2>2, <2>3, <2>4
<1>9. HeaderAt(e, 0) = 3 /\ CountAt(e) = 3 + Len(B) /\ MessageAt(e, 0) = CountAt(e) + 1
      /\ MessageAt(e, Len(e.messages)) = Len(F) + 1
  <2>1. Len(<<>>) = 0 OBVIOUS
  <2>2. HeaderAt(e, 0) = 3 BY <1>1, <1>6, <2>1 DEF HeaderAt
  <2>3. CountAt(e) = 3 + Len(B) BY <1>1, <1>4, <1>6 DEF CountAt, HeaderAt
  <2>4. MessageAt(e, 0) = CountAt(e) + 1 BY <1>1, <1>6, <1>8, <2>1, <2>3 DEF MessageAt
  <2>5. MessageAt(e, Len(e.messages)) = CountAt(e) + 1 + Len(D) BY <1>1, <1>4, <1>6 DEF MessageAt
  <2> QED BY <2>2, <2>3, <2>4, <2>5, <1>8
<1>10. Lies(F, 1, F)
  <2>1. \A i \in 1 .. Len(F) : 1 + i - 1 = i OBVIOUS
  <2> QED BY <2>1 DEF Lies
<1>11. Lies(F, 1, (A \o B) \o C) /\ Lies(F, 1 + (3 + Len(B)), D)
  <2>1. PICK G : G = (A \o B) \o C OBVIOUS
  <2>2. G \in Seq(TokenSet) /\ Len(G) = 3 + Len(B) /\ Lies(F, 1, G \o D) BY <2>1, <1>7, <1>8, <1>10
  <2>3. Lies(F, 1, G) /\ Lies(F, 1 + Len(G), D) BY <2>2, <1>6, <1>8, LiesParts
  <2> QED BY <2>1, <2>2, <2>3
<1>12. Lies(F, 1, A \o B) /\ Lies(F, 1 + (2 + Len(B)), C)
  <2>1. PICK G : G = A \o B OBVIOUS
  <2>2. G \in Seq(TokenSet) /\ Len(G) = 2 + Len(B) /\ Lies(F, 1, G \o C) BY <2>1, <1>8, <1>11
  <2>3. Lies(F, 1, G) /\ Lies(F, 1 + Len(G), C) BY <2>2, <1>5, <1>8, LiesParts
  <2> QED BY <2>1, <2>2, <2>3
<1>13. Lies(F, 1, A) /\ Lies(F, 1 + 2, B)
  BY <1>5, <1>6, <1>8, <1>12, LiesParts
<1>14. 1 \in 1 .. Len(F) /\ F[1] = A[1] /\ 2 \in 1 .. Len(F) /\ F[2] = A[2]
  <2>1. 1 \in 1 .. Len(A) /\ 2 \in 1 .. Len(A) /\ 1 + 1 - 1 = 1 /\ 1 + 2 - 1 = 2 BY <1>5
  <2> QED BY <2>1, <1>13 DEF Lies
<1>15. CountAt(e) \in 1 .. Len(F) /\ F[CountAt(e)] = C[1]
  <2>1. 1 \in 1 .. Len(C) /\ 1 + (2 + Len(B)) + 1 - 1 = CountAt(e) BY <1>5, <1>8, <1>9
  <2> QED BY <2>1, <1>12 DEF Lies
<1>16. 1 + (3 + Len(B)) = CountAt(e) + 1 /\ 1 + 2 = 3 BY <1>8, <1>9
<1> QED BY <1>1, <1>3, <1>5, <1>8, <1>9, <1>11, <1>13, <1>14, <1>15, <1>16

\* The header or message after the first k.
LEMMA HeaderThere ==
  ASSUME NEW e \in Sendable, NEW F, F = Serialized(e), NEW k \in 0 .. Len(e.headers) - 1
  PROVE  /\ HeaderAt(e, k) \in 1 .. Len(F) /\ F[HeaderAt(e, k)] = HeaderTok(e.headers[k + 1])
         /\ e.headers[k + 1].data \in Data
         /\ Lies(F, HeaderAt(e, k) + 1, Written(e.headers[k + 1].data))
         /\ HeaderAt(e, k + 1) = HeaderAt(e, k) + 1 + Len(Written(e.headers[k + 1].data))
<1>1. PICK hs, t, d, u : hs = HeadersOf(e) /\ t = HeaderTok(e.headers[k + 1])
                      /\ d = e.headers[k + 1].data /\ u = Len(Upto(hs, k))
  OBVIOUS
<1>2. k + 1 \in 1 .. Len(e.headers) BY SendableIs
<1>3. hs \in Seq(Seq(TokenSet)) /\ Len(hs) = Len(e.headers) /\ t \in TokenSet /\ d \in Data
      /\ hs[k + 1] = <<t>> \o Written(d)
  BY <1>1, <1>2, TokensAre, SendableIs
<1>4. F \in Seq(TokenSet) /\ Lies(F, 3, FlattenSeq(hs)) BY <1>1, SerializedIs
<1>5. Lies(F, 3 + u, <<t>> \o Written(d))
      /\ Len(Upto(hs, k + 1)) = u + Len(<<t>> \o Written(d)) /\ u \in Nat
  <2>1. 3 \in Nat \ {0} /\ k \in 0 .. Len(hs) - 1 BY <1>3
  <2>2. /\ Lies(F, 3 + Len(Upto(hs, k)), hs[k + 1])
        /\ Len(Upto(hs, k + 1)) = Len(Upto(hs, k)) + Len(hs[k + 1])
        /\ Len(Upto(hs, k)) \in Nat
    BY <2>1, <1>3, <1>4, LiesFlat
  <2> QED BY <2>2, <1>1, <1>3
<1>6. 3 + u \in Nat \ {0} BY <1>5
<1>7. /\ 3 + u \in 1 .. Len(F) /\ F[3 + u] = t /\ Lies(F, 3 + u + 1, Written(d))
      /\ Len(<<t>> \o Written(d)) = 1 + Len(Written(d)) /\ Len(Written(d)) \in Nat
  BY <1>3, <1>4, <1>5, <1>6, HeadLies
<1>8. HeaderAt(e, k) = 3 + u /\ HeaderAt(e, k + 1) = 3 + u + 1 + Len(Written(d))
  <2>1. HeaderAt(e, k) = 3 + u /\ HeaderAt(e, k + 1) = 3 + (u + (1 + Len(Written(d))))
    BY <1>1, <1>5, <1>7 DEF HeaderAt
  <2>2. \A x, y \in Nat : 3 + (x + (1 + y)) = 3 + x + 1 + y OBVIOUS
  <2> QED BY <2>1, <2>2, <1>5, <1>7
<1> QED BY <1>1, <1>3, <1>7, <1>8

LEMMA MessageThere ==
  ASSUME NEW e \in Sendable, NEW F, F = Serialized(e), NEW k \in 0 .. Len(e.messages) - 1
  PROVE  /\ MessageAt(e, k) \in 1 .. Len(F) /\ F[MessageAt(e, k)] = MessageTok(e.messages[k + 1])
         /\ e.messages[k + 1].data \in Data
         /\ Lies(F, MessageAt(e, k) + 1, Written(e.messages[k + 1].data))
         /\ MessageAt(e, k + 1) = MessageAt(e, k) + 1 + Len(Written(e.messages[k + 1].data))
<1>1. PICK ms, t, d, u, c : ms = MessagesOf(e) /\ t = MessageTok(e.messages[k + 1])
                      /\ d = e.messages[k + 1].data /\ u = Len(Upto(ms, k)) /\ c = CountAt(e) + 1
  OBVIOUS
<1>2. k + 1 \in 1 .. Len(e.messages) BY SendableIs
<1>3. ms \in Seq(Seq(TokenSet)) /\ Len(ms) = Len(e.messages) /\ t \in TokenSet /\ d \in Data
      /\ ms[k + 1] = <<t>> \o Written(d)
  BY <1>1, <1>2, TokensAre, SendableIs
<1>4. F \in Seq(TokenSet) /\ Lies(F, c, FlattenSeq(ms)) /\ c \in Nat \ {0}
  BY <1>1, SerializedIs
<1>5. Lies(F, c + u, <<t>> \o Written(d))
      /\ Len(Upto(ms, k + 1)) = u + Len(<<t>> \o Written(d)) /\ u \in Nat
  <2>1. k \in 0 .. Len(ms) - 1 BY <1>3
  <2>2. /\ Lies(F, c + Len(Upto(ms, k)), ms[k + 1])
        /\ Len(Upto(ms, k + 1)) = Len(Upto(ms, k)) + Len(ms[k + 1])
        /\ Len(Upto(ms, k)) \in Nat
    BY <2>1, <1>3, <1>4, LiesFlat
  <2> QED BY <2>2, <1>1, <1>3
<1>6. c + u \in Nat \ {0} BY <1>4, <1>5
<1>7. /\ c + u \in 1 .. Len(F) /\ F[c + u] = t /\ Lies(F, c + u + 1, Written(d))
      /\ Len(<<t>> \o Written(d)) = 1 + Len(Written(d)) /\ Len(Written(d)) \in Nat
  BY <1>3, <1>4, <1>5, <1>6, HeadLies
<1>8. MessageAt(e, k) = c + u /\ MessageAt(e, k + 1) = c + u + 1 + Len(Written(d))
  <2>1. MessageAt(e, k) = c + u /\ MessageAt(e, k + 1) = c + (u + (1 + Len(Written(d))))
    BY <1>1, <1>5, <1>7 DEF MessageAt
  <2>2. \A x, y, z \in Nat : z + (x + (1 + y)) = z + x + 1 + y OBVIOUS
  <2> QED BY <2>1, <2>2, <1>4, <1>5, <1>7
<1> QED BY <1>1, <1>3, <1>7, <1>8

-----------------------------------------------------------------------------
(***************************************************************************)
(* What an envelope means, header after header and message after message.  *)
(***************************************************************************)
NamesUpTo(e, k) == {e.headers[j].name : j \in 1 .. k}
LastHeader(e, k, name) == CHOOSE j \in LastNamed(e.headers, k, name) : TRUE
MeantHeader(h) == [must |-> h.must, data |-> Meant(h.data)]
HeadersUpTo(e, k) == [name \in NamesUpTo(e, k) |-> MeantHeader(e.headers[LastHeader(e, k, name)])]
\* Headers with one put in, in the place of one of its name.
Replaced(hs, name, h) == [x \in DOMAIN hs \cup {name} |-> IF x = name THEN h ELSE hs[x]]
MeantMessage(m) == [target |-> m.target, response |-> m.response, data |-> MeantCall(m.data)]
MessagesUpTo(e, k) == [j \in 1 .. k |-> MeantMessage(e.messages[j])]

\* A header takes the place of an earlier one of its name.
LEMMA HeaderStep ==
  ASSUME NEW e \in Sendable, NEW k \in 0 .. Len(e.headers) - 1,
         NEW h, h = e.headers[k + 1]
  PROVE  HeadersUpTo(e, k + 1) = Replaced(HeadersUpTo(e, k), h.name, MeantHeader(h))
<1>1. k \in Nat /\ \A j : j \in 1 .. k + 1 <=> j \in 1 .. k \/ j = k + 1 BY SendableIs
<1>2. NamesUpTo(e, k + 1) = NamesUpTo(e, k) \cup {h.name} BY <1>1 DEF NamesUpTo
<1>3. \A name : name # h.name => LastHeader(e, k + 1, name) = LastHeader(e, k, name)
  <2> SUFFICES ASSUME NEW name, name # h.name
               PROVE  LastHeader(e, k + 1, name) = LastHeader(e, k, name)
    OBVIOUS
  <2>1. \A j \in 1 .. k : \A i : i \in j + 1 .. k + 1 <=> i \in j + 1 .. k \/ i = k + 1 BY <1>1
  <2>2. LastNamed(e.headers, k + 1, name) = LastNamed(e.headers, k, name)
    BY <2>1, <1>1 DEF LastNamed
  <2> QED BY <2>2, Zenon DEF LastHeader
<1>4. LastHeader(e, k + 1, h.name) = k + 1
  <2>1. \A j \in 1 .. k : k + 1 \in j + 1 .. k + 1 BY <1>1
  <2>2. k + 1 + 1 .. k + 1 = {} BY <1>1
  <2>3. LastNamed(e.headers, k + 1, h.name) = {k + 1} BY <2>1, <2>2, <1>1 DEF LastNamed
  <2>4. LastHeader(e, k + 1, h.name) \in {k + 1} BY <2>3 DEF LastHeader
  <2> QED BY <2>4
<1>5. DOMAIN HeadersUpTo(e, k) = NamesUpTo(e, k)
      /\ \A name \in NamesUpTo(e, k) :
           HeadersUpTo(e, k)[name] = MeantHeader(e.headers[LastHeader(e, k, name)])
  BY DEF HeadersUpTo
<1>6. \A name \in NamesUpTo(e, k) \cup {h.name} :
        MeantHeader(e.headers[LastHeader(e, k + 1, name)])
        = IF name = h.name THEN MeantHeader(h) ELSE HeadersUpTo(e, k)[name]
  BY <1>3, <1>4, <1>5
<1>7. HeadersUpTo(e, k + 1)
      = [name \in NamesUpTo(e, k) \cup {h.name} |->
           MeantHeader(e.headers[LastHeader(e, k + 1, name)])]
  BY <1>2 DEF HeadersUpTo
<1> QED BY <1>5, <1>6, <1>7 DEF Replaced

LEMMA MessageStep ==
  ASSUME NEW e \in Sendable, NEW k \in 0 .. Len(e.messages) - 1
  PROVE  MessagesUpTo(e, k + 1) = Append(MessagesUpTo(e, k), MeantMessage(e.messages[k + 1]))
<1>1. k \in Nat OBVIOUS
<1>2. PICK T : T = {MeantMessage(e.messages[j]) : j \in 1 .. k + 1} OBVIOUS
<1>3. MessagesUpTo(e, k) \in Seq(T) /\ Len(MessagesUpTo(e, k)) = k
      /\ \A j \in 1 .. k : MessagesUpTo(e, k)[j] = MeantMessage(e.messages[j])
  <2>1. \A j \in 1 .. k : j \in 1 .. k + 1 BY <1>1
  <2>2. MessagesUpTo(e, k) \in [1 .. k -> T] BY <2>1, <1>2 DEF MessagesUpTo
  <2> QED BY <2>2, <1>1 DEF MessagesUpTo
<1>4. MessagesUpTo(e, k + 1) \in Seq(T) /\ Len(MessagesUpTo(e, k + 1)) = k + 1
      /\ \A j \in 1 .. k + 1 : MessagesUpTo(e, k + 1)[j] = MeantMessage(e.messages[j])
  <2>2. MessagesUpTo(e, k + 1) \in [1 .. k + 1 -> T] BY <1>2 DEF MessagesUpTo
  <2> QED BY <2>2, <1>1 DEF MessagesUpTo
<1>5. PICK u, v, m : u = MessagesUpTo(e, k) /\ v = MessagesUpTo(e, k + 1)
                     /\ m = MeantMessage(e.messages[k + 1])
  OBVIOUS
<1>6. u \in Seq(T) /\ v \in Seq(T) /\ Len(u) = k /\ Len(v) = k + 1 /\ m \in T /\ v[k + 1] = m
      /\ \A j \in 1 .. k : v[j] = u[j]
  <2>1. k + 1 \in 1 .. k + 1 /\ \A j \in 1 .. k : j \in 1 .. k + 1 BY <1>1
  <2> QED BY <2>1, <1>2, <1>3, <1>4, <1>5
<1>7. v = Append(u, m) BY <1>6, <1>1
<1> QED BY <1>5, <1>7

LEMMA MeantStart ==
  ASSUME NEW e
  PROVE  HeadersUpTo(e, 0) = <<>> /\ MessagesUpTo(e, 0) = <<>>
<1>1. NamesUpTo(e, 0) = {} BY DEF NamesUpTo
<1>2. HeadersUpTo(e, 0) \in [1 .. 0 -> {None}] BY <1>1 DEF HeadersUpTo
<1>3. MessagesUpTo(e, 0) \in [1 .. 0 -> {None}] BY DEF MessagesUpTo
<1>4. \A f \in [1 .. 0 -> {None}] : f \in Seq({None}) /\ Len(f) = 0 OBVIOUS
<1>5. \A s \in Seq({None}) : Len(s) = 0 => s = <<>> OBVIOUS
<1> QED BY <1>2, <1>3, <1>4, <1>5

LEMMA MeantEnd ==
  ASSUME NEW e \in Sendable
  PROVE  MeantEnvelope(e) = [version |-> e.version,
                             headers |-> HeadersUpTo(e, Len(e.headers)),
                             messages |-> MessagesUpTo(e, Len(e.messages))]
<1>1. /\ DOMAIN e.headers = 1 .. Len(e.headers) /\ DOMAIN e.messages = 1 .. Len(e.messages)
      /\ e.messages \in Seq([target : Names, response : Names, data : Data])
  BY SendableIs
<1>2. {h.name : h \in ToSet(e.headers)} = NamesUpTo(e, Len(e.headers))
  BY <1>1 DEF ToSet, NamesUpTo
<1>3. \A name : [must |-> LastOf(e.headers, name).must,
                 data |-> Meant(LastOf(e.headers, name).data)]
                = MeantHeader(e.headers[LastHeader(e, Len(e.headers), name)])
  BY DEF LastOf, LastHeader, MeantHeader
<1>4. [name \in {h.name : h \in ToSet(e.headers)} |->
         [must |-> LastOf(e.headers, name).must, data |-> Meant(LastOf(e.headers, name).data)]]
      = HeadersUpTo(e, Len(e.headers))
  BY <1>2, <1>3 DEF HeadersUpTo
<1>5. \A m \in [target : Names, response : Names, data : Data] :
        [m EXCEPT !.data = MeantCall(@)] = MeantMessage(m)
  <2> SUFFICES ASSUME NEW m \in [target : Names, response : Names, data : Data]
               PROVE  [m EXCEPT !.data = MeantCall(@)] = MeantMessage(m)
    OBVIOUS
  <2>1. PICK v : v = MeantCall(m.data) OBVIOUS
  <2>2. [m EXCEPT !.data = v] = [target |-> m.target, response |-> m.response, data |-> v]
    OBVIOUS
  <2> QED BY <2>1, <2>2 DEF MeantMessage
<1>6. \A k \in DOMAIN e.messages :
        e.messages[k] \in [target : Names, response : Names, data : Data]
  <2>1. \A S : \A s \in Seq(S) : \A k \in DOMAIN s : s[k] \in S OBVIOUS
  <2> QED BY <1>1, <2>1
<1>7. [k \in DOMAIN e.messages |-> [e.messages[k] EXCEPT !.data = MeantCall(@)]]
      = MessagesUpTo(e, Len(e.messages))
  BY <1>1, <1>5, <1>6 DEF MessagesUpTo
<1> QED BY <1>4, <1>7 DEF MeantEnvelope

\* populate_from_stream takes the wrapper off calls of the flex API.
LEMMA CallMeant ==
  ASSUME NEW d \in Data
  PROVE  Unwrapped(Meant(d)) = MeantCall(d)
<1>1. CASE d.is = "array"
  <2>1. Meant(d) = [is |-> "array", items |-> [k \in DOMAIN d.items |-> Meant(d.items[k])]]
        /\ d.items \in Seq(Data)
    BY <1>1, MeantIs, DataAssumption
  <2>2. PICK f : f = [k \in DOMAIN d.items |-> Meant(d.items[k])] OBVIOUS
  <2>3. DOMAIN d.items = 1 .. Len(d.items) /\ Len(d.items) \in Nat BY <2>1
  <2>4. Len(f) = Len(d.items)
    <3>1. f \in [1 .. Len(d.items) -> {Meant(x) : x \in Data}] BY <2>1, <2>2, <2>3
    <3> QED BY <3>1, <2>3
  <2>5. Len(d.items) = 1 => f[1] = Meant(d.items[1])
    <3>1. Len(d.items) = 1 => 1 \in DOMAIN d.items BY <2>3
    <3> QED BY <3>1, <2>2
  <2>6. Meant(d).is = "array" /\ Meant(d).items = f BY <2>1, <2>2
  <2> QED BY <2>4, <2>5, <2>6, <1>1 DEF Unwrapped, MeantCall
<1>2. CASE d.is = "value"
  <2>1. Meant(d).is # "array" BY <1>2, MeantIs
  <2> QED BY <2>1, <1>2 DEF Unwrapped, MeantCall
<1>3. CASE d.is = "external"
  <2>1. Meant(d).is # "array" BY <1>3, MeantIs
  <2> QED BY <2>1, <1>3 DEF Unwrapped, MeantCall
<1> QED BY <1>1, <1>2, <1>3, DataAssumption

-----------------------------------------------------------------------------
(***************************************************************************)
(* The inductive invariant: how far populate_from_stream has come in the   *)
(* envelope e that is on the stream, and what it made of it.               *)
(***************************************************************************)
Got(v, h, m) == local.version = v /\ local.headers = h /\ local.messages = m
MeantHeaders(e) == HeadersUpTo(e, Len(e.headers))

InHeader(e, k) ==
  /\ k < Len(e.headers) /\ given = HeaderTok(e.headers[k + 1]).p
  /\ DataRead(Serialized(e), e.headers[k + 1].data, HeaderAt(e, k) + 1)
AtHeader(e, k) ==
  /\ left = Len(e.headers) - k /\ Got(e.version, HeadersUpTo(e, k), <<>>)
  /\ given = None => des_pos = HeaderAt(e, k)
  /\ given # None => InHeader(e, k)

InMsg(e, k) ==
  /\ k < Len(e.messages) /\ given = MessageTok(e.messages[k + 1]).p
  /\ DataRead(Serialized(e), e.messages[k + 1].data, MessageAt(e, k) + 1)
AtMessage(e, k) ==
  /\ left = Len(e.messages) - k /\ Got(e.version, MeantHeaders(e), MessagesUpTo(e, k))
  /\ given = None => des_pos = MessageAt(e, k)
  /\ given # None => InMsg(e, k)

AtVersion == des_pos = 1 /\ left = 0 /\ given = None /\ Got(0, <<>>, <<>>)
AtHeaders(e) == des_pos = 2 /\ left = 0 /\ given = None /\ Got(e.version, <<>>, <<>>)
AtMessages(e) ==
  des_pos = CountAt(e) /\ left = 0 /\ given = None /\ Got(e.version, MeantHeaders(e), <<>>)

Progress(e) ==
  \/ at = "version" /\ AtVersion
  \/ at = "headers" /\ AtHeaders(e)
  \/ at = "header" /\ \E k \in 0 .. Len(e.headers) : AtHeader(e, k)
  \/ at = "messages" /\ AtMessages(e)
  \/ at = "message" /\ \E k \in 0 .. Len(e.messages) : AtMessage(e, k)
Reads(e) == stat = "run" /\ sent = e /\ StreamOf(Serialized(e)) /\ Progress(e)
Kept(e) ==
  /\ stat = "done" /\ sent = e /\ Content(env) = MeantEnvelope(e)
  /\ stream = Serialized(e) /\ des_pos = Len(stream) + 1
Refused(e) == stat = "error" /\ sent = e /\ stream # Serialized(e)

IsEnvelope(x) ==
  x = [version |-> x.version, headers |-> x.headers, messages |-> x.messages, by |-> x.by]
Mappers == {"ClassMapping", "custom"}
Types ==
  /\ Positions /\ Len(stream) \in Nat
  /\ at \in {"version", "headers", "header", "messages", "message"}
  /\ left \in Nat /\ stat \in {"idle", "run", "done", "error"}
  /\ reads \in 0 .. MaxReads
  /\ IsEnvelope(env) /\ IsEnvelope(local)
  /\ {active, inbound, outbound} \subseteq {None} \cup Mappers
  /\ reads > 0 => local.by \in Mappers

EnvelopeInv ==
  Types /\ (stat = "idle" \/ \E e \in Sendable : Reads(e) \/ Kept(e) \/ Refused(e))

\* An envelope with one part replaced.
LEMMA PartReplaced ==
  ASSUME NEW x, IsEnvelope(x), NEW v
  PROVE  /\ [x EXCEPT !.version = v]
            = [version |-> v, headers |-> x.headers, messages |-> x.messages, by |-> x.by]
         /\ [x EXCEPT !.headers = v]
            = [version |-> x.version, headers |-> v, messages |-> x.messages, by |-> x.by]
         /\ [x EXCEPT !.messages = v]
            = [version |-> x.version, headers |-> x.headers, messages |-> v, by |-> x.by]
<1>1. PICK a, b, c, d : a = x.version /\ b = x.headers /\ c = x.messages /\ d = x.by OBVIOUS
<1>2. x = [version |-> a, headers |-> b, messages |-> c, by |-> d] BY <1>1 DEF IsEnvelope
<1> QED BY <1>1, <1>2

LEMMA RecordIs ==
  ASSUME NEW a, NEW b, NEW c, NEW d, NEW x,
         x = [version |-> a, headers |-> b, messages |-> c, by |-> d]
  PROVE  IsEnvelope(x) /\ x.version = a /\ x.headers = b /\ x.messages = c /\ x.by = d
BY DEF IsEnvelope

\* What a read of the envelope leaves of the types.
LEMMA SoFarTypes ==
  ASSUME Types, NEW x, IsEnvelope(x), x.by = local.by, SoFar(x)
  PROVE  IsEnvelope(env') /\ IsEnvelope(local') /\ local' = x /\ local'.by = local.by
BY DEF Types, SoFar

LEMMA StoredParts ==
  ASSUME Types, Store
  PROVE  \/ /\ StoreHeader
            /\ local' = [version |-> local.version,
                         headers |-> Replaced(local.headers, given.name,
                                              [must |-> given.must, data |-> value]),
                         messages |-> local.messages, by |-> local.by]
         \/ /\ StoreMessage
            /\ local' = [version |-> local.version, headers |-> local.headers,
                         messages |-> Append(local.messages,
                           [target |-> given.target, response |-> given.response,
                            data |-> Unwrapped(value)]),
                         by |-> local.by]
<1>0. IsEnvelope(local) BY DEF Types
<1>1. CASE StoreHeader BY <1>0, <1>1, PartReplaced DEF StoreHeader, SoFar, Replaced
<1>2. CASE StoreMessage BY <1>0, <1>2, PartReplaced DEF StoreMessage, SoFar
<1> QED BY <1>1, <1>2 DEF Store

LEMMA ReadingTypes ==
  ASSUME Types, Reading, left' \in Nat
  PROVE  Types'
<1> DEFINE Same == /\ stream' = stream /\ reads' = reads /\ UNCHANGED mapperVars
                   /\ stat' \in {"run", "done", "error"}
                   /\ at' \in {"version", "headers", "header", "messages", "message"}
                   /\ IsEnvelope(env') /\ IsEnvelope(local') /\ local'.by = local.by
<1>0. /\ Positions /\ Len(stream) \in Nat /\ IsEnvelope(env) /\ IsEnvelope(local)
      /\ at \in {"version", "headers", "header", "messages", "message"}
  BY DEF Types
<1>1. \A t : Finds(t, des_pos) => des_pos + 1 \in 1 .. Len(stream) + 1
  BY <1>0 DEF Finds, Positions
<1>2. ASSUME NEW t, Next1(t) PROVE Positions'
  BY <1>0, <1>1, <1>2 DEF Next1, Positions
<1>3. CASE ReadVersion
  <2>1. Positions' BY <1>2, <1>3 DEF ReadVersion
  <2>2. PICK x : x = [local EXCEPT !.version = Here] OBVIOUS
  <2>3. x = [version |-> Here, headers |-> local.headers, messages |-> local.messages,
             by |-> local.by]
    BY <1>0, <2>2, PartReplaced
  <2>4. SoFar(x) /\ IsEnvelope(x) /\ x.by = local.by BY <2>2, <2>3, <1>3, RecordIs DEF ReadVersion
  <2>5. Same BY <2>4, <1>3, SoFarTypes DEF ReadVersion, Next1
  <2> QED BY <2>1, <2>5 DEF Types, mapperVars
<1>4. ASSUME NEW now, NEW next \in {"header", "message"}, ReadCount(now, next) PROVE Types'
  <2>1. Positions' BY <1>2, <1>4 DEF ReadCount
  <2>2. Same BY <1>0, <1>4 DEF ReadCount, Next1
  <2> QED BY <2>1, <2>2 DEF Types, mapperVars
<1>5. ASSUME NEW t, ReadHead(t) PROVE Types'
  <2>1. Positions' BY <1>2, <1>5 DEF ReadHead
  <2>2. Same BY <1>0, <1>5 DEF ReadHead, Next1
  <2> QED BY <2>1, <2>2 DEF Types, mapperVars
<1>6. CASE ReadData
  <2>1. Positions' /\ stream' = stream BY <1>0, <1>6, PositionsStay DEF ReadData
  <2>2. Same BY <1>0, <1>6, <2>1 DEF ReadData
  <2> QED BY <2>1, <2>2 DEF Types, mapperVars
<1>7. CASE Store
  <2>1. Positions' BY <1>0, <1>7 DEF Store, Positions
  <2>2. IsEnvelope(local') /\ local'.by = local.by BY <1>7, StoredParts, RecordIs
  <2>3. IsEnvelope(env') BY <1>0, <1>7, <2>2 DEF Store, StoreHeader, StoreMessage, SoFar
  <2>4. stat = "run" BY <1>7 DEF Store, StoreHeader, StoreMessage
  <2>5. Same BY <1>0, <1>7, <2>2, <2>3, <2>4 DEF Store
  <2> QED BY <2>1, <2>5 DEF Types, mapperVars
<1>8. CASE AllHeadersRead \/ Populated \/ Raise
  <2>1. Positions' BY <1>0, <1>8 DEF AllHeadersRead, Populated, Raise, Positions, readVars
  <2>2. Same BY <1>0, <1>8 DEF AllHeadersRead, Populated, Raise, readVars
  <2> QED BY <2>1, <2>2 DEF Types, mapperVars
<1> QED BY <1>3, <1>4, <1>5, <1>6, <1>7, <1>8 DEF Reading

-----------------------------------------------------------------------------
(***************************************************************************)
(* Each step of populate_from_stream.                                      *)
(***************************************************************************)
LEMMA TokenHere ==
  ASSUME Types, NEW e \in Sendable, Reads(e), NEW t, Next1(t)
  PROVE  /\ stream[des_pos] = Serialized(e)[des_pos] /\ Serialized(e)[des_pos].t = t
         /\ stream' = stream /\ sent' = sent /\ stat = "run"
         /\ des_pos' = des_pos + 1 /\ des_pos \in Nat
         /\ StreamOf(Serialized(e))'
<1>1. Finds(t, des_pos) /\ des_pos \in 1 .. Len(stream) + 1 /\ Len(stream) \in Nat
      /\ StreamOf(Serialized(e)) /\ stream' = stream /\ sent' = sent /\ des_pos' = des_pos + 1
      /\ stat = "run"
  BY DEF Types, Positions, Next1, Reads
<1>2. des_pos \in 1 .. Len(stream) BY <1>1 DEF Finds
<1> QED BY <1>1, <1>2 DEF Finds, StreamOf

LEMMA ReadVersionStep ==
  ASSUME Types, NEW e \in Sendable, Reads(e), ReadVersion
  PROVE  Reads(e)'
<1>1. at = "version" /\ Next1("word") /\ SoFar([local EXCEPT !.version = Here]) /\ at' = "headers"
      /\ left' = left /\ given' = given /\ stat' = stat
  BY DEF ReadVersion
<1>2. des_pos = 1 /\ left = 0 /\ given = None /\ Got(0, <<>>, <<>>) /\ sent = e
  BY <1>1 DEF Reads, Progress, AtVersion
<1>3. stream[des_pos] = Tok("word", e.version) /\ des_pos' = 2 /\ sent' = e /\ stat' = "run"
      /\ StreamOf(Serialized(e))'
  BY <1>1, <1>2, TokenHere, SerializedIs
<1>4. Here = e.version BY <1>3 DEF Here, Tok
<1>5. local' = [version |-> e.version, headers |-> local.headers, messages |-> local.messages,
                by |-> local.by]
  BY <1>1, <1>4, PartReplaced DEF SoFar, Types
<1>6. Got(e.version, <<>>, <<>>)' BY <1>2, <1>5, RecordIs DEF Got
<1>7. AtHeaders(e)' BY <1>1, <1>2, <1>3, <1>6 DEF AtHeaders
<1> QED BY <1>1, <1>3, <1>7 DEF Reads, Progress

LEMMA ReadHeadersStep ==
  ASSUME Types, NEW e \in Sendable, Reads(e), ReadCount("headers", "header")
  PROVE  Reads(e)' /\ left' \in Nat
<1>1. at = "headers" /\ Next1("word") /\ left' = Here /\ at' = "header"
      /\ local' = local /\ given' = given /\ stat' = stat
  BY DEF ReadCount
<1>2. des_pos = 2 /\ given = None /\ Got(e.version, <<>>, <<>>) /\ sent = e
  BY <1>1 DEF Reads, Progress, AtHeaders
<1>3. stream[des_pos] = Tok("word", Len(e.headers)) /\ des_pos' = 3 /\ sent' = e /\ stat' = "run"
      /\ StreamOf(Serialized(e))'
  BY <1>1, <1>2, TokenHere, SerializedIs
<1>4. left' = Len(e.headers) /\ Len(e.headers) \in Nat
      /\ left' = Len(e.headers) - 0 /\ 0 \in 0 .. Len(e.headers)
  <2>1. Here = Len(e.headers) BY <1>3 DEF Here, Tok
  <2> QED BY <2>1, <1>1, SendableIs
<1>5. Got(e.version, HeadersUpTo(e, 0), <<>>)' BY <1>1, <1>2, MeantStart DEF Got
<1>6. AtHeader(e, 0)' BY <1>1, <1>2, <1>3, <1>4, <1>5, SerializedIs DEF AtHeader
<1> QED BY <1>1, <1>3, <1>4, <1>6 DEF Reads, Progress

LEMMA ReadMessagesStep ==
  ASSUME Types, NEW e \in Sendable, Reads(e), ReadCount("messages", "message")
  PROVE  Reads(e)' /\ left' \in Nat
<1>1. at = "messages" /\ Next1("word") /\ left' = Here /\ at' = "message"
      /\ local' = local /\ given' = given /\ stat' = stat
  BY DEF ReadCount
<1>2. des_pos = CountAt(e) /\ given = None /\ Got(e.version, MeantHeaders(e), <<>>) /\ sent = e
  BY <1>1 DEF Reads, Progress, AtMessages
<1>3. stream[des_pos] = Tok("word", Len(e.messages)) /\ des_pos' = MessageAt(e, 0)
      /\ sent' = e /\ stat' = "run" /\ StreamOf(Serialized(e))'
  BY <1>1, <1>2, TokenHere, SerializedIs
<1>4. left' = Len(e.messages) /\ Len(e.messages) \in Nat
      /\ left' = Len(e.messages) - 0 /\ 0 \in 0 .. Len(e.messages)
  <2>1. Here = Len(e.messages) BY <1>3 DEF Here, Tok
  <2> QED BY <2>1, <1>1, SendableIs
<1>5. Got(e.version, MeantHeaders(e), MessagesUpTo(e, 0))' BY <1>1, <1>2, MeantStart DEF Got
<1>6. AtMessage(e, 0)' BY <1>1, <1>2, <1>3, <1>4, <1>5 DEF AtMessage
<1> QED BY <1>1, <1>3, <1>4, <1>6 DEF Reads, Progress

\* des_deserialize begins with data that are at des_pos.
LEMMA DataBegins ==
  ASSUME NEW F, NEW d, NEW b, Deserialize, des_pos' = b
  PROVE  DataRead(F, d, b)'
<1>1. value' = None /\ stack' = <<>> /\ ~InMessage' BY DEF Deserialize, InMessage
<1>2. Start' = b BY <1>1 DEF Start
<1>3. PICK H : H = <<>> OBVIOUS
<1>4. H \in Seq(Task) /\ Len(H) = 0 BY <1>3
<1>5. Chain(F, d, b, H) BY <1>3, <1>4 DEF Chain
<1>6. Frames(H) = <<>> BY <1>3, <1>4, FramesType
<1>7. Where(d, b, H) = b BY <1>3 DEF Where
<1> QED BY <1>1, <1>2, <1>5, <1>6, <1>7 DEF DataRead

LEMMA HeadNotNone ==
  ASSUME NEW e \in Sendable
  PROVE  /\ \A k \in 0 .. Len(e.headers) - 1 :
              /\ HeaderTok(e.headers[k + 1]).p # None
              /\ HeaderTok(e.headers[k + 1]).p.name = e.headers[k + 1].name
              /\ HeaderTok(e.headers[k + 1]).p.must = e.headers[k + 1].must
         /\ \A k \in 0 .. Len(e.messages) - 1 :
              /\ MessageTok(e.messages[k + 1]).p # None
              /\ MessageTok(e.messages[k + 1]).p.target = e.messages[k + 1].target
              /\ MessageTok(e.messages[k + 1]).p.response = e.messages[k + 1].response
<1>1. ASSUME NEW k \in 0 .. Len(e.headers) - 1
      PROVE  /\ HeaderTok(e.headers[k + 1]).p # None
             /\ HeaderTok(e.headers[k + 1]).p.name = e.headers[k + 1].name
             /\ HeaderTok(e.headers[k + 1]).p.must = e.headers[k + 1].must
  <2>1. PICK h : h = e.headers[k + 1] OBVIOUS
  <2>2. k + 1 \in 1 .. Len(e.headers) BY SendableIs
  <2>3. h.name \in Names /\ h.must \in BOOLEAN BY <2>1, <2>2, SendableIs
  <2>4. [name |-> h.name, must |-> h.must] \in [name : Names, must : BOOLEAN] BY <2>3
  <2>5. [name |-> h.name, must |-> h.must] # None BY <2>4, EnvelopeAssumption
  <2> QED BY <2>1, <2>5 DEF HeaderTok, Tok
<1>2. ASSUME NEW k \in 0 .. Len(e.messages) - 1
      PROVE  /\ MessageTok(e.messages[k + 1]).p # None
             /\ MessageTok(e.messages[k + 1]).p.target = e.messages[k + 1].target
             /\ MessageTok(e.messages[k + 1]).p.response = e.messages[k + 1].response
  <2>1. PICK m : m = e.messages[k + 1] OBVIOUS
  <2>2. k + 1 \in 1 .. Len(e.messages) BY SendableIs
  <2>3. m.target \in Names /\ m.response \in Names BY <2>1, <2>2, SendableIs
  <2>4. [target |-> m.target, response |-> m.response] \in [target : Names, response : Names]
    BY <2>3
  <2>5. [target |-> m.target, response |-> m.response] # None BY <2>4, EnvelopeAssumption
  <2> QED BY <2>1, <2>5 DEF MessageTok, Tok
<1> QED BY <1>1, <1>2

LEMMA ReadHeaderStep ==
  ASSUME Types, NEW e \in Sendable, Reads(e), ReadHead("header")
  PROVE  Reads(e)'
<1>1. at = "header" /\ left > 0 /\ given = None /\ Next1("header") /\ given' = Here /\ Deserialize
      /\ local' = local /\ at' = at /\ left' = left /\ stat' = stat
  BY DEF ReadHead
<1>2. PICK k \in 0 .. Len(e.headers) : AtHeader(e, k) BY <1>1 DEF Reads, Progress
<1>3. sent = e /\ left = Len(e.headers) - k /\ des_pos = HeaderAt(e, k)
      /\ Got(e.version, HeadersUpTo(e, k), <<>>)
  BY <1>1, <1>2 DEF Reads, AtHeader
<1>4. k \in 0 .. Len(e.headers) - 1 /\ k < Len(e.headers) BY <1>1, <1>3, SendableIs
<1>5. stream[des_pos] = HeaderTok(e.headers[k + 1]) /\ des_pos' = HeaderAt(e, k) + 1
      /\ sent' = e /\ stat' = "run" /\ StreamOf(Serialized(e))'
  BY <1>1, <1>3, <1>4, TokenHere, HeaderThere
<1>6. given' = HeaderTok(e.headers[k + 1]).p /\ given' # None
  BY <1>1, <1>4, <1>5, HeadNotNone DEF Here
<1>7. DataRead(Serialized(e), e.headers[k + 1].data, HeaderAt(e, k) + 1)'
  BY <1>1, <1>5, DataBegins
<1>8. AtHeader(e, k)' BY <1>1, <1>3, <1>4, <1>6, <1>7 DEF AtHeader, InHeader, Got
<1> QED BY <1>1, <1>5, <1>8 DEF Reads, Progress

LEMMA ReadMessageStep ==
  ASSUME Types, NEW e \in Sendable, Reads(e), ReadHead("message")
  PROVE  Reads(e)'
<1>1. at = "message" /\ left > 0 /\ given = None /\ Next1("message") /\ given' = Here /\ Deserialize
      /\ local' = local /\ at' = at /\ left' = left /\ stat' = stat
  BY DEF ReadHead
<1>2. PICK k \in 0 .. Len(e.messages) : AtMessage(e, k) BY <1>1 DEF Reads, Progress
<1>3. sent = e /\ left = Len(e.messages) - k /\ des_pos = MessageAt(e, k)
      /\ Got(e.version, MeantHeaders(e), MessagesUpTo(e, k))
  BY <1>1, <1>2 DEF Reads, AtMessage
<1>4. k \in 0 .. Len(e.messages) - 1 /\ k < Len(e.messages) BY <1>1, <1>3, SendableIs
<1>5. stream[des_pos] = MessageTok(e.messages[k + 1]) /\ des_pos' = MessageAt(e, k) + 1
      /\ sent' = e /\ stat' = "run" /\ StreamOf(Serialized(e))'
  BY <1>1, <1>3, <1>4, TokenHere, MessageThere
<1>6. given' = MessageTok(e.messages[k + 1]).p /\ given' # None
  BY <1>1, <1>4, <1>5, HeadNotNone DEF Here
<1>7. DataRead(Serialized(e), e.messages[k + 1].data, MessageAt(e, k) + 1)'
  BY <1>1, <1>5, DataBegins
<1>8. AtMessage(e, k)' BY <1>1, <1>3, <1>4, <1>6, <1>7 DEF AtMessage, InMsg, Got
<1> QED BY <1>1, <1>5, <1>8 DEF Reads, Progress

\* given is set only in a header or a message.
LEMMA GivenWhere ==
  ASSUME NEW e \in Sendable, Reads(e), given # None
  PROVE  \/ at = "header" /\ \E k \in 0 .. Len(e.headers) - 1 :
              /\ k \in 0 .. Len(e.headers) /\ AtHeader(e, k)
              /\ DataRead(Serialized(e), e.headers[k + 1].data, HeaderAt(e, k) + 1)
         \/ at = "message" /\ \E k \in 0 .. Len(e.messages) - 1 :
              /\ k \in 0 .. Len(e.messages) /\ AtMessage(e, k)
              /\ DataRead(Serialized(e), e.messages[k + 1].data, MessageAt(e, k) + 1)
<1>1. CASE at = "header"
  <2>1. PICK k \in 0 .. Len(e.headers) : AtHeader(e, k) BY <1>1 DEF Reads, Progress
  <2>2. InHeader(e, k) BY <2>1 DEF AtHeader
  <2>3. k \in 0 .. Len(e.headers) - 1 BY <2>2, SendableIs DEF InHeader
  <2> QED BY <1>1, <2>1, <2>2, <2>3 DEF InHeader
<1>2. CASE at = "message"
  <2>1. PICK k \in 0 .. Len(e.messages) : AtMessage(e, k) BY <1>2 DEF Reads, Progress
  <2>2. InMsg(e, k) BY <2>1 DEF AtMessage
  <2>3. k \in 0 .. Len(e.messages) - 1 BY <2>2, SendableIs DEF InMsg
  <2> QED BY <1>2, <2>1, <2>2, <2>3 DEF InMsg
<1> QED BY <1>1, <1>2 DEF Reads, Progress, AtVersion, AtHeaders, AtMessages

LEMMA ReadDataStep ==
  ASSUME BytesListed, Types, NEW e \in Sendable, Reads(e), ReadData
  PROVE  Reads(e)'
<1>1. given # None /\ ReadSome /\ UNCHANGED <<local, at, left, given, stat, sent>>
  BY DEF ReadData
<1>2. stream' = stream BY <1>1, PositionsStay DEF Types
<1>3. Serialized(e) \in Seq(TokenSet) /\ StreamOf(Serialized(e)) BY SerializedIs DEF Reads
<1>4. stat' = "run" /\ sent' = e /\ StreamOf(Serialized(e))'
  BY <1>1, <1>2 DEF Reads, StreamOf
<1>5. ASSUME at = "header", NEW k \in 0 .. Len(e.headers) - 1, k \in 0 .. Len(e.headers),
             AtHeader(e, k),
             DataRead(Serialized(e), e.headers[k + 1].data, HeaderAt(e, k) + 1)
      PROVE  Reads(e)'
  <2>1. PICK F, d, b : F = Serialized(e) /\ d = e.headers[k + 1].data /\ b = HeaderAt(e, k) + 1
    OBVIOUS
  <2>2. d \in Data /\ b \in Nat \ {0} /\ Lies(F, b, Written(d))
    <3>1. HeaderAt(e, k) \in 1 .. Len(F) /\ Len(F) \in Nat BY <2>1, HeaderThere, SerializedIs
    <3> QED BY <2>1, <3>1, HeaderThere
  <2>3. DataRead(F, d, b)' BY <2>1, <2>2, <1>1, <1>3, <1>5, DataStep
  <2>4. AtHeader(e, k)' BY <2>1, <2>3, <1>1, <1>5 DEF AtHeader, InHeader, Got
  <2> QED BY <2>4, <1>1, <1>4, <1>5 DEF Reads, Progress
<1>6. ASSUME at = "message", NEW k \in 0 .. Len(e.messages) - 1, k \in 0 .. Len(e.messages),
             AtMessage(e, k),
             DataRead(Serialized(e), e.messages[k + 1].data, MessageAt(e, k) + 1)
      PROVE  Reads(e)'
  <2>1. PICK F, d, b : F = Serialized(e) /\ d = e.messages[k + 1].data /\ b = MessageAt(e, k) + 1
    OBVIOUS
  <2>2. d \in Data /\ b \in Nat \ {0} /\ Lies(F, b, Written(d))
    <3>1. MessageAt(e, k) \in 1 .. Len(F) /\ Len(F) \in Nat BY <2>1, MessageThere, SerializedIs
    <3> QED BY <2>1, <3>1, MessageThere
  <2>3. DataRead(F, d, b)' BY <2>1, <2>2, <1>1, <1>3, <1>6, DataStep
  <2>4. AtMessage(e, k)' BY <2>1, <2>3, <1>1, <1>6 DEF AtMessage, InMsg, Got
  <2> QED BY <2>4, <1>1, <1>4, <1>6 DEF Reads, Progress
<1> QED BY <1>1, <1>5, <1>6, GivenWhere

LEMMA StoreStep ==
  ASSUME Types, NEW e \in Sendable, Reads(e), Store
  PROVE  Reads(e)' /\ left' \in Nat
<1>1. /\ stat = "run" /\ given # None /\ value # None
      /\ given' = None /\ left' = left - 1 /\ des_pos' = des_pos
      /\ UNCHANGED <<stream, at, stat, sent>>
  BY DEF Store, StoreHeader, StoreMessage
<1>2. stat' = "run" /\ sent' = e /\ StreamOf(Serialized(e))' BY <1>1 DEF Reads, StreamOf
<1>3. ASSUME at = "header", NEW k \in 0 .. Len(e.headers) - 1, k \in 0 .. Len(e.headers),
             AtHeader(e, k),
             DataRead(Serialized(e), e.headers[k + 1].data, HeaderAt(e, k) + 1)
      PROVE  Reads(e)' /\ left' \in Nat
  <2>1. PICK h, d : h = e.headers[k + 1] /\ d = h.data OBVIOUS
  <2>2. given.name = h.name /\ given.must = h.must
    BY <2>1, <1>1, <1>3, HeadNotNone DEF AtHeader, InHeader
  <2>3. value = Meant(d) /\ des_pos = HeaderAt(e, k) + 1 + Len(Written(d))
    BY <2>1, <1>1, <1>3 DEF DataRead
  <2>4. des_pos' = HeaderAt(e, k + 1) BY <2>1, <2>3, <1>1, HeaderThere
  <2>5. left = Len(e.headers) - k /\ Got(e.version, HeadersUpTo(e, k), <<>>)
    BY <1>3 DEF AtHeader
  <2>6. left' = Len(e.headers) - (k + 1) /\ left' \in Nat /\ k + 1 \in 0 .. Len(e.headers)
    BY <2>5, <1>1, SendableIs
  <2>7. local' = [version |-> local.version,
                  headers |-> Replaced(local.headers, given.name,
                                       [must |-> given.must, data |-> value]),
                  messages |-> local.messages, by |-> local.by]
    BY <1>3, StoredParts DEF StoreMessage
  <2>8. local'.version = local.version /\ local'.messages = local.messages
        /\ local'.headers = Replaced(local.headers, given.name,
                                     [must |-> given.must, data |-> value])
    BY <2>7, RecordIs
  <2>9. local'.headers = HeadersUpTo(e, k + 1)
    <3>1. local.headers = HeadersUpTo(e, k) BY <2>5 DEF Got
    <3>2. [must |-> given.must, data |-> value] = MeantHeader(h)
      BY <2>1, <2>2, <2>3 DEF MeantHeader
    <3>3. local'.headers = Replaced(HeadersUpTo(e, k), h.name, MeantHeader(h))
      BY <2>2, <2>8, <3>1, <3>2
    <3> QED BY <2>1, <3>3, HeaderStep
  <2>10. Got(e.version, HeadersUpTo(e, k + 1), <<>>)' BY <2>5, <2>8, <2>9 DEF Got
  <2>11. AtHeader(e, k + 1)' BY <2>4, <2>6, <2>10, <1>1 DEF AtHeader
  <2> QED BY <2>6, <2>11, <1>1, <1>2, <1>3 DEF Reads, Progress
<1>4. ASSUME at = "message", NEW k \in 0 .. Len(e.messages) - 1, k \in 0 .. Len(e.messages),
             AtMessage(e, k),
             DataRead(Serialized(e), e.messages[k + 1].data, MessageAt(e, k) + 1)
      PROVE  Reads(e)' /\ left' \in Nat
  <2>1. PICK m, d : m = e.messages[k + 1] /\ d = m.data OBVIOUS
  <2>2. given.target = m.target /\ given.response = m.response
    BY <2>1, <1>1, <1>4, HeadNotNone DEF AtMessage, InMsg
  <2>3. value = Meant(d) /\ des_pos = MessageAt(e, k) + 1 + Len(Written(d)) /\ d \in Data
    BY <2>1, <1>1, <1>4, MessageThere DEF DataRead
  <2>4. des_pos' = MessageAt(e, k + 1) BY <2>1, <2>3, <1>1, MessageThere
  <2>5. left = Len(e.messages) - k /\ Got(e.version, MeantHeaders(e), MessagesUpTo(e, k))
    BY <1>4 DEF AtMessage
  <2>6. left' = Len(e.messages) - (k + 1) /\ left' \in Nat /\ k + 1 \in 0 .. Len(e.messages)
    BY <2>5, <1>1, SendableIs
  <2>7. local' = [version |-> local.version, headers |-> local.headers,
                  messages |-> Append(local.messages,
                    [target |-> given.target, response |-> given.response,
                     data |-> Unwrapped(value)]),
                  by |-> local.by]
    BY <1>4, StoredParts DEF StoreHeader
  <2>8. local'.version = local.version /\ local'.headers = local.headers
        /\ local'.messages = Append(local.messages,
                               [target |-> given.target, response |-> given.response,
                                data |-> Unwrapped(value)])
    BY <2>7, RecordIs
  <2>9. local'.messages = MessagesUpTo(e, k + 1)
    <3>1. local.messages = MessagesUpTo(e, k) BY <2>5 DEF Got
    <3>2. Unwrapped(value) = MeantCall(d) BY <2>3, CallMeant
    <3>3. local'.messages = Append(MessagesUpTo(e, k), MeantMessage(m))
      BY <2>1, <2>2, <2>8, <3>1, <3>2 DEF MeantMessage
    <3> QED BY <2>1, <3>3, MessageStep
  <2>10. Got(e.version, MeantHeaders(e), MessagesUpTo(e, k + 1))' BY <2>5, <2>8, <2>9 DEF Got
  <2>11. AtMessage(e, k + 1)' BY <2>4, <2>6, <2>10, <1>1 DEF AtMessage
  <2> QED BY <2>6, <2>11, <1>1, <1>2, <1>4 DEF Reads, Progress
<1> QED BY <1>1, <1>3, <1>4, GivenWhere

LEMMA AllHeadersStep ==
  ASSUME Types, NEW e \in Sendable, Reads(e), AllHeadersRead
  PROVE  Reads(e)'
<1>1. at = "header" /\ left = 0 /\ at' = "messages" /\ des_pos' = des_pos
      /\ UNCHANGED <<stream, local, left, given, stat, sent>>
  BY DEF AllHeadersRead, readVars
<1>2. PICK k \in 0 .. Len(e.headers) : AtHeader(e, k) BY <1>1 DEF Reads, Progress
<1>3. k = Len(e.headers) BY <1>1, <1>2, SendableIs DEF AtHeader
<1>4. given = None BY <1>2, <1>3, SendableIs DEF AtHeader, InHeader
<1>5. des_pos = CountAt(e) /\ Got(e.version, MeantHeaders(e), <<>>)
  BY <1>2, <1>3, <1>4 DEF AtHeader, CountAt, MeantHeaders
<1>6. AtMessages(e)' BY <1>1, <1>4, <1>5 DEF AtMessages, Got
<1> QED BY <1>1, <1>6 DEF Reads, Progress, StreamOf

LEMMA PopulatedStep ==
  ASSUME Types, NEW e \in Sendable, Reads(e), Populated
  PROVE  Kept(e)'
<1>1. at = "message" /\ left = 0 /\ env' = local /\ stat' = "done" /\ des_pos' = des_pos
      /\ UNCHANGED <<stream, sent>>
  BY DEF Populated, readVars
<1>2. PICK k \in 0 .. Len(e.messages) : AtMessage(e, k) BY <1>1 DEF Reads, Progress
<1>3. k = Len(e.messages) BY <1>1, <1>2, SendableIs DEF AtMessage
<1>4. given = None BY <1>2, <1>3, SendableIs DEF AtMessage, InMsg
<1>5. PICK F : F = Serialized(e) OBVIOUS
<1>6. F \in Seq(TokenSet) /\ Len(F) \in Nat /\ MessageAt(e, Len(e.messages)) = Len(F) + 1
  BY <1>5, SerializedIs
<1>7. des_pos = Len(F) + 1 BY <1>2, <1>3, <1>4, <1>6 DEF AtMessage
<1>8. stream \in Seq(TokenSet) /\ Len(stream) <= Len(F) /\ Len(stream) \in Nat
      /\ \A i \in 1 .. Len(stream) : stream[i] = F[i]
  BY <1>5 DEF Reads, StreamOf, Types
<1>9. Len(stream) = Len(F) BY <1>6, <1>7, <1>8 DEF Types, Positions
<1>10. stream = F BY <1>6, <1>8, <1>9
<1>11. Got(e.version, MeantHeaders(e), MessagesUpTo(e, Len(e.messages)))
  BY <1>2, <1>3 DEF AtMessage
<1>12. Content(local) = MeantEnvelope(e) BY <1>11, MeantEnd DEF Content, Got, MeantHeaders
<1>13. Content(env)' = MeantEnvelope(e) BY <1>1, <1>12 DEF Content
<1> QED BY <1>1, <1>5, <1>7, <1>9, <1>10, <1>13 DEF Kept, Reads

LEMMA RaiseStep ==
  ASSUME BytesListed, Types, NEW e \in Sendable, Reads(e), Raise
  PROVE  Refused(e)'
<1>1. stat' = "error" /\ UNCHANGED <<stream, sent>> BY DEF Raise, readVars
<1>2. PICK F : F = Serialized(e) OBVIOUS
<1>3. F \in Seq(TokenSet) /\ Len(F) \in Nat /\ StreamOf(F) BY <1>2, SerializedIs DEF Reads
<1>4. \A p \in 1 .. Len(F) : \A t, x : F[p] = Tok(t, x) /\ ~Finds(t, p) => stream # F
  BY <1>3 DEF Finds, Tok
<1>5. CASE at = "version" /\ ~Finds("word", des_pos)
  <2>1. des_pos = 1 BY <1>5 DEF Reads, Progress, AtVersion
  <2> QED BY <2>1, <1>1, <1>2, <1>4, <1>5, SerializedIs DEF Refused, Reads
<1>6. CASE at = "headers" /\ ~Finds("word", des_pos)
  <2>1. des_pos = 2 BY <1>6 DEF Reads, Progress, AtHeaders
  <2> QED BY <2>1, <1>1, <1>2, <1>4, <1>6, SerializedIs DEF Refused, Reads
<1>7. CASE at = "messages" /\ ~Finds("word", des_pos)
  <2>1. des_pos = CountAt(e) BY <1>7 DEF Reads, Progress, AtMessages
  <2> QED BY <2>1, <1>1, <1>2, <1>4, <1>7, SerializedIs DEF Refused, Reads
<1>8. CASE at = "header" /\ left > 0 /\ given = None /\ ~Finds("header", des_pos)
  <2>1. PICK k \in 0 .. Len(e.headers) : AtHeader(e, k) BY <1>8 DEF Reads, Progress
  <2>2. des_pos = HeaderAt(e, k) /\ left = Len(e.headers) - k BY <2>1, <1>8 DEF AtHeader
  <2>3. k \in 0 .. Len(e.headers) - 1 BY <2>2, <1>8, SendableIs
  <2>4. des_pos \in 1 .. Len(F) /\ F[des_pos] = HeaderTok(e.headers[k + 1])
    BY <2>2, <2>3, <1>2, HeaderThere
  <2> QED BY <2>4, <1>1, <1>2, <1>4, <1>8 DEF Refused, Reads, HeaderTok
<1>9. CASE at = "message" /\ left > 0 /\ given = None /\ ~Finds("message", des_pos)
  <2>1. PICK k \in 0 .. Len(e.messages) : AtMessage(e, k) BY <1>9 DEF Reads, Progress
  <2>2. des_pos = MessageAt(e, k) /\ left = Len(e.messages) - k BY <2>1, <1>9 DEF AtMessage
  <2>3. k \in 0 .. Len(e.messages) - 1 BY <2>2, <1>9, SendableIs
  <2>4. des_pos \in 1 .. Len(F) /\ F[des_pos] = MessageTok(e.messages[k + 1])
    BY <2>2, <2>3, <1>2, MessageThere
  <2> QED BY <2>4, <1>1, <1>2, <1>4, <1>9 DEF Refused, Reads, MessageTok
<1>10. CASE given # None /\ Raises
  <2>1. ASSUME NEW k \in 0 .. Len(e.headers) - 1,
               DataRead(F, e.headers[k + 1].data, HeaderAt(e, k) + 1)
        PROVE  stream # F
    <3>1. PICK d, b : d = e.headers[k + 1].data /\ b = HeaderAt(e, k) + 1 OBVIOUS
    <3>2. HeaderAt(e, k) \in 1 .. Len(F) /\ d \in Data /\ Lies(F, b, Written(d))
      BY <3>1, <1>2, HeaderThere
    <3>3. b \in Nat \ {0} /\ DataRead(F, d, b) BY <2>1, <3>1, <3>2, <1>3
    <3> QED BY <3>2, <3>3, <1>3, <1>10, DataRaise
  <2>2. ASSUME NEW k \in 0 .. Len(e.messages) - 1,
               DataRead(F, e.messages[k + 1].data, MessageAt(e, k) + 1)
        PROVE  stream # F
    <3>1. PICK d, b : d = e.messages[k + 1].data /\ b = MessageAt(e, k) + 1 OBVIOUS
    <3>2. MessageAt(e, k) \in 1 .. Len(F) /\ d \in Data /\ Lies(F, b, Written(d))
      BY <3>1, <1>2, MessageThere
    <3>3. b \in Nat \ {0} /\ DataRead(F, d, b) BY <2>2, <3>1, <3>2, <1>3
    <3> QED BY <3>2, <3>3, <1>3, <1>10, DataRaise
  <2>3. stream # F BY <2>1, <2>2, <1>2, <1>10, GivenWhere
  <2> QED BY <2>3, <1>1, <1>2 DEF Refused, Reads
<1> QED BY <1>5, <1>6, <1>7, <1>8, <1>9, <1>10 DEF Raise

LEMMA ReadingStep ==
  ASSUME BytesListed, Types, NEW e \in Sendable, Reads(e), Reading
  PROVE  Types' /\ (Reads(e) \/ Kept(e) \/ Refused(e))'
<1>1. left \in Nat BY DEF Types
<1>2. CASE ReadVersion
  <2>1. left' = left BY <1>2 DEF ReadVersion
  <2> QED BY <2>1, <1>1, <1>2, ReadVersionStep, ReadingTypes
<1>3. CASE ReadCount("headers", "header") BY <1>3, ReadHeadersStep, ReadingTypes
<1>4. CASE ReadCount("messages", "message") BY <1>4, ReadMessagesStep, ReadingTypes
<1>5. CASE ReadHead("header")
  <2>1. left' = left BY <1>5 DEF ReadHead
  <2> QED BY <2>1, <1>1, <1>5, ReadHeaderStep, ReadingTypes
<1>6. CASE ReadHead("message")
  <2>1. left' = left BY <1>6 DEF ReadHead
  <2> QED BY <2>1, <1>1, <1>6, ReadMessageStep, ReadingTypes
<1>7. CASE ReadData
  <2>1. left' = left BY <1>7 DEF ReadData
  <2> QED BY <2>1, <1>1, <1>7, ReadDataStep, ReadingTypes
<1>8. CASE Store BY <1>8, StoreStep, ReadingTypes
<1>9. CASE AllHeadersRead
  <2>1. left' = left BY <1>9 DEF AllHeadersRead
  <2> QED BY <2>1, <1>1, <1>9, AllHeadersStep, ReadingTypes
<1>10. CASE Populated
  <2>1. left' = left BY <1>10 DEF Populated
  <2> QED BY <2>1, <1>1, <1>10, PopulatedStep, ReadingTypes
<1>11. CASE Raise
  <2>1. left' = left BY <1>11 DEF Raise
  <2> QED BY <2>1, <1>1, <1>11, RaiseStep, ReadingTypes
<1> QED BY <1>2, <1>3, <1>4, <1>5, <1>6, <1>7, <1>8, <1>9, <1>10, <1>11 DEF Reading

-----------------------------------------------------------------------------
(***************************************************************************)
(* populate_from_stream is called.                                         *)
(***************************************************************************)
LEMMA PopulateTypes ==
  ASSUME Types, NEW source, Len(source) \in Nat, Populate(source),
         outbound' \in {outbound, Remembered(outbound)}
  PROVE  Types'
<1>0. /\ IsEnvelope(env) /\ {active, inbound, outbound} \subseteq {None} \cup Mappers
      /\ reads \in 0 .. MaxReads /\ MaxReads \in Nat
  BY EnvelopeAssumption DEF Types
<1>1. stream' = source /\ des_pos' = 1 /\ src_pos' = 1 /\ at' = "version" /\ left' = 0
      /\ stat' = "run" /\ reads' = reads + 1 /\ reads < MaxReads /\ active' = Defined
      /\ inbound' = Remembered(inbound)
  BY DEF Populate
<1>2. PICK x : x = [Blank EXCEPT !.by = Remembered(inbound)] OBVIOUS
<1>3. x = [version |-> 0, headers |-> <<>>, messages |-> <<>>, by |-> Remembered(inbound)]
  BY <1>2 DEF Blank
<1>4. IsEnvelope(x) /\ x.by = Remembered(inbound) BY <1>3, RecordIs
<1>5. local' = x /\ env' \in {env, x} BY <1>2 DEF Populate, SoFar
<1>6. IsEnvelope(local') /\ IsEnvelope(env') BY <1>0, <1>4, <1>5
<1>7. Defined \in Mappers /\ Remembered(inbound) \in Mappers /\ Remembered(outbound) \in Mappers
  BY <1>0 DEF Defined, Remembered, Mappers
<1>8. {active', inbound', outbound'} \subseteq {None} \cup Mappers BY <1>0, <1>1, <1>7
<1>9. Positions' /\ Len(stream') \in Nat BY <1>1 DEF Positions
<1>10. reads' \in 0 .. MaxReads BY <1>0, <1>1
<1> QED BY <1>1, <1>4, <1>5, <1>6, <1>7, <1>8, <1>9, <1>10 DEF Types

LEMMA PopulateBegins ==
  ASSUME Types, NEW e \in Sendable, sent' = e, NEW source, Populate(source),
         \/ source = Serialized(e)
         \/ \E end \in 0 .. Len(Serialized(e)) - 1 : source = SubSeq(Serialized(e), 1, end),
         outbound' \in {outbound, Remembered(outbound)}
  PROVE  EnvelopeInv'
<1>1. PICK F : F = Serialized(e) OBVIOUS
<1>2. F \in Seq(TokenSet) /\ Len(F) \in Nat BY <1>1, SerializedIs
<1>3. source \in Seq(TokenSet) /\ Len(source) <= Len(F) /\ Len(source) \in Nat
      /\ \A i \in 1 .. Len(source) : source[i] = F[i]
  <2>1. CASE source = F BY <2>1, <1>2
  <2>2. ASSUME NEW end \in 0 .. Len(F) - 1, source = SubSeq(F, 1, end)
        PROVE  /\ source \in Seq(TokenSet) /\ Len(source) <= Len(F) /\ Len(source) \in Nat
               /\ \A i \in 1 .. Len(source) : source[i] = F[i]
    <3>1. Len(source) = end /\ source \in Seq(TokenSet) BY <2>2, <1>2
    <3>2. \A i \in 1 .. end : source[i] = F[i] BY <2>2, <1>2
    <3> QED BY <3>1, <3>2, <1>2
  <2> QED BY <2>1, <2>2, <1>1
<1>4. Types' BY <1>3, PopulateTypes
<1>5. stream' = source /\ des_pos' = 1 /\ at' = "version" /\ left' = 0 /\ given' = None
      /\ stat' = "run" /\ local' = [Blank EXCEPT !.by = Remembered(inbound)]
  BY DEF Populate, SoFar
<1>6. StreamOf(F)' BY <1>3, <1>5 DEF StreamOf
<1>7. Got(0, <<>>, <<>>)' BY <1>5 DEF Got, Blank
<1>8. AtVersion' BY <1>5, <1>7 DEF AtVersion
<1>9. Reads(e)' BY <1>1, <1>5, <1>6, <1>8 DEF Reads, Progress
<1> QED BY <1>4, <1>9 DEF EnvelopeInv

-----------------------------------------------------------------------------
(***************************************************************************)
(* An envelope that was read, as env_serialize writes it.                  *)
(***************************************************************************)
\* Some header is the last of its name.
LEMMA LastThere ==
  ASSUME NEW e \in Sendable, NEW name \in NamesUpTo(e, Len(e.headers))
  PROVE  /\ LastHeader(e, Len(e.headers), name) \in 1 .. Len(e.headers)
         /\ e.headers[LastHeader(e, Len(e.headers), name)].name = name
<1>1. PICK n : n = Len(e.headers) OBVIOUS
<1>2. n \in Nat BY <1>1, SendableIs
<1> DEFINE T == {i \in 0 .. n - 1 : e.headers[n - i].name = name}
<1>3. T # {}
  <2>1. PICK j \in 1 .. n : e.headers[j].name = name BY <1>1 DEF NamesUpTo
  <2>2. n - j \in 0 .. n - 1 /\ n - (n - j) = j BY <1>2
  <2>3. n - j \in T BY <2>1, <2>2
  <2> QED BY <2>3
<1>4. T \subseteq Nat BY <1>2
<1>5. PICK x \in T : \A y \in T : x <= y
  <2> HIDE DEF T
  <2> QED BY <1>3, <1>4, Least
<1>6. n - x \in 1 .. n /\ e.headers[n - x].name = name BY <1>2
<1>7. \A j \in n - x + 1 .. n : e.headers[j].name # name
  <2> SUFFICES ASSUME NEW j \in n - x + 1 .. n, e.headers[j].name = name PROVE FALSE
    OBVIOUS
  <2>1. j \in Nat /\ n - j \in 0 .. n - 1 /\ n - (n - j) = j /\ ~(x <= n - j) BY <1>2
  <2>2. n - j \in T BY <2>1
  <2> QED BY <2>1, <2>2, <1>5
<1>8. n - x \in LastNamed(e.headers, n, name) BY <1>6, <1>7 DEF LastNamed
<1>9. LastHeader(e, n, name) \in LastNamed(e.headers, n, name) BY <1>8 DEF LastHeader
<1> QED BY <1>1, <1>9 DEF LastNamed

LEMMA Ordered ==
  ASSUME NEW S, IsFiniteSet(S)
  PROVE  \E n \in Nat : /\ SetToSeq(S) \in [1 .. n -> S]
                        /\ \A x \in S : \E i \in 1 .. n : SetToSeq(S)[i] = x
<1>1. PICK n : n = Cardinality(S) OBVIOUS
<1>2. n \in Nat /\ ExistsBijection(1 .. n, S) BY <1>1, FS_CardinalityType
<1>3. PICK f : f \in Bijection(1 .. n, S) BY <1>2 DEF ExistsBijection
<1>4. f \in [1 .. n -> S] /\ IsInjective(f)
  BY <1>3 DEF Bijection, Injection, IsInjective
<1>5. PICK g : g = SetToSeq(S) OBVIOUS
<1>6. g \in [1 .. n -> S] /\ IsInjective(g) BY <1>1, <1>4, <1>5 DEF SetToSeq
<1>7. g \in Injection(1 .. n, S) BY <1>6 DEF Injection
<1>8. Cardinality(1 .. n) = n BY <1>2, FS_Interval
<1>9. g \in Surjection(1 .. n, S) BY <1>1, <1>7, <1>8, FS_Injection
<1>10. \A x \in S : \E i \in 1 .. n : g[i] = x BY <1>9 DEF Surjection
<1> QED BY <1>2, <1>5, <1>6, <1>10

LEMMA NamesFinite ==
  ASSUME NEW e \in Sendable
  PROVE  IsFiniteSet(NamesUpTo(e, Len(e.headers)))
<1>1. PICK n, S : n = Len(e.headers) /\ S = NamesUpTo(e, n) OBVIOUS
<1>2. n \in Nat BY <1>1, SendableIs
<1>3. PICK f : f = [j \in 1 .. n |-> e.headers[j].name] OBVIOUS
<1>4. f \in [1 .. n -> S] /\ \A x \in S : \E j \in 1 .. n : f[j] = x
  BY <1>1, <1>3 DEF NamesUpTo
<1>5. f \in Surjection(1 .. n, S) BY <1>4 DEF Surjection
<1>6. IsFiniteSet(1 .. n) BY <1>2, FS_Interval
<1> QED BY <1>1, <1>5, <1>6, FS_Surjection

\* What the next reader gets for an array is an array of as many items, and what
\* it gets for other values is none; no value becomes a message.
LEMMA PassedIs ==
  ASSUME NEW d \in Data, NEW ver \in {0, 3}
  PROVE  /\ d.is = "array" =>
              Passed(ver, Meant(d))
              = [is |-> "array", items |-> [k \in DOMAIN d.items |-> Passed(ver, Meant(d.items[k]))]]
         /\ d.is # "array" => Meant(d).is # "array" /\ Passed(ver, Meant(d)).is # "array"
         /\ Passed(ver, Meant(d)).is = "message" => Meant(d).is = "message"
<1>1. PICK v : v = Meant(d) OBVIOUS
<1>2. Passed(ver, v) = PassedOn(ver, v, Passed) BY <1>1, DataAssumption
<1>3. CASE d.is = "array"
  <2>1. v = [is |-> "array", items |-> [k \in DOMAIN d.items |-> Meant(d.items[k])]]
    BY <1>1, <1>3, MeantIs
  <2>2. v.is = "array" /\ DOMAIN v.items = DOMAIN d.items
        /\ \A k \in DOMAIN d.items : v.items[k] = Meant(d.items[k])
    BY <2>1
  <2>3. Passed(ver, v) = [is |-> "array", items |-> [k \in DOMAIN v.items |-> Passed(ver, v.items[k])]]
    BY <1>2, <2>2 DEF PassedOn, Each, WrittenAsHash
  <2>4. [k \in DOMAIN v.items |-> Passed(ver, v.items[k])]
        = [k \in DOMAIN d.items |-> Passed(ver, Meant(d.items[k]))]
    BY <2>2
  <2> QED BY <1>1, <1>3, <2>3, <2>4
<1>4. CASE d.is # "array"
  <2>1. v.is \in {"plain", "nil", "hash", "typed", "message"}
    <3>1. d.is \in {"value", "external"} BY <1>4, DataAssumption
    <3>2. CASE d.is = "value" BY <1>1, <3>2, MeantIs
    <3>3. CASE d.is = "external"
      <4>1. v = [is |-> "message", cls |-> d.cls, attrs |-> Attrs(d, Len(d.parts))]
        BY <1>1, <3>3, MeantIs
      <4> QED BY <4>1
    <3> QED BY <3>1, <3>2, <3>3
  <2>2. CASE v.is \in {"plain", "nil"}
    <3>1. Passed(ver, v) = v BY <1>2, <2>2 DEF PassedOn, WrittenAsHash
    <3> QED BY <1>1, <1>4, <2>2, <3>1
  <2>3. CASE v.is \in {"hash", "typed"}
    <3>1. Passed(ver, v) = [is |-> "hash", props |-> Each(v.props, ver, Passed)]
      BY <1>2, <2>3 DEF PassedOn, WrittenAsHash
    <3>2. Passed(ver, v).is = "hash" BY <3>1
    <3> QED BY <1>1, <1>4, <2>3, <3>2
  <2>4. CASE v.is = "message"
    <3>1. Passed(ver, v).is \in {"hash", "message"}
      <4>1. CASE WrittenAsHash(ver, v)
        <5>1. Passed(ver, v) = [is |-> "hash", props |-> Each(FaultData(v.attrs), ver, Passed)]
          BY <1>2, <2>4, <4>1 DEF PassedOn
        <5> QED BY <5>1
      <4>2. CASE ~WrittenAsHash(ver, v)
        <5>1. Passed(ver, v) = [is |-> "message", cls |-> v.cls, attrs |-> Each(v.attrs, ver, Passed)]
          BY <1>2, <2>4, <4>2 DEF PassedOn
        <5> QED BY <5>1
      <4> QED BY <4>1, <4>2
    <3> QED BY <1>1, <1>4, <2>4, <3>1
  <2> QED BY <2>1, <2>2, <2>3, <2>4
<1> QED BY <1>3, <1>4

LEMMA AsDataIs ==
  ASSUME NEW d \in Data, NEW ver \in {0, 3}
  PROVE  /\ AsData(ver, Meant(d)) \in Data
         /\ d.is = "array" =>
              AsData(ver, Meant(d))
              = [is |-> "array", items |-> [k \in DOMAIN d.items |-> AsData(ver, Meant(d.items[k]))]]
         /\ d.is # "array" =>
              AsData(ver, Meant(d)) = [is |-> "value", v |-> Passed(ver, Meant(d))]
<1>1. PICK v : v = Meant(d) OBVIOUS
<1>2. AsData(ver, v) \in Data /\ AsData(ver, v) = Rewritten(ver, v, AsData, Passed)
  BY <1>1, DataAssumption
<1>3. CASE d.is = "array"
  <2>1. v = [is |-> "array", items |-> [k \in DOMAIN d.items |-> Meant(d.items[k])]]
    BY <1>1, <1>3, MeantIs
  <2>2. v.is = "array" /\ DOMAIN v.items = DOMAIN d.items
        /\ \A k \in DOMAIN d.items : v.items[k] = Meant(d.items[k])
    BY <2>1
  <2>3. AsData(ver, v) = [is |-> "array", items |-> [k \in DOMAIN v.items |-> AsData(ver, v.items[k])]]
    BY <1>2, <2>2 DEF Rewritten, Each
  <2>4. [k \in DOMAIN v.items |-> AsData(ver, v.items[k])]
        = [k \in DOMAIN d.items |-> AsData(ver, Meant(d.items[k]))]
    BY <2>2
  <2> QED BY <1>1, <1>2, <1>3, <2>3, <2>4
<1>4. CASE d.is # "array"
  <2>1. v.is # "array" BY <1>1, <1>4, PassedIs
  <2>2. AsData(ver, v) = [is |-> "value", v |-> Passed(ver, v)] BY <1>2, <2>1 DEF Rewritten
  <2> QED BY <1>1, <1>2, <1>4, <2>2
<1> QED BY <1>3, <1>4

\* What was read, as it is written again, stands for what the next reader is to
\* get: if not, there were such data with the fewest tokens.
LEMMA MeansAgain ==
  ASSUME NEW d \in Data, NEW ver \in {0, 3}
  PROVE  Meant(AsData(ver, Meant(d))) = Passed(ver, Meant(d))
<1> DEFINE Wrong(x) == Meant(AsData(ver, Meant(x))) # Passed(ver, Meant(x))
           T == {Len(Written(x)) : x \in {y \in Data : Wrong(y)}}
<1>2. ASSUME NEW x \in Data, Wrong(x), \A y \in Data : Wrong(y) => Len(Written(x)) <= Len(Written(y))
      PROVE  FALSE
  <2>1. PICK v, w : v = Meant(x) /\ w = AsData(ver, v) OBVIOUS
  <2>2. w \in Data BY <2>1, AsDataIs
  <2>3. CASE x.is = "array"
    <3>1. x.items \in Seq(Data) BY <2>3, DataAssumption
    <3>2. \A k \in DOMAIN x.items : x.items[k] \in Data /\ ~Wrong(x.items[k])
      <4> SUFFICES ASSUME NEW k \in DOMAIN x.items
                   PROVE  x.items[k] \in Data /\ ~Wrong(x.items[k])
        OBVIOUS
      <4>1. k \in 1 .. Size(x) /\ x.items[k] \in Data BY <2>3, <3>1 DEF Size
      <4>2. Len(Written(x.items[k])) < Len(Written(x)) BY <2>3, <4>1, ItemsShorter
      <4>3. Len(Written(x.items[k])) \in Nat /\ Len(Written(x)) \in Nat BY <4>1, WrittenType
      <4> QED BY <4>1, <4>2, <4>3, <1>2
    <3>3. w = [is |-> "array", items |-> [k \in DOMAIN x.items |-> AsData(ver, Meant(x.items[k]))]]
      BY <2>1, <2>3, AsDataIs
    <3>4. Meant(w) = [is |-> "array", items |-> [k \in DOMAIN w.items |-> Meant(w.items[k])]]
      BY <2>2, <3>3, MeantIs
    <3>5. Passed(ver, v)
          = [is |-> "array", items |-> [k \in DOMAIN x.items |-> Passed(ver, Meant(x.items[k]))]]
      BY <2>1, <2>3, PassedIs
    <3>6. Meant(w) = Passed(ver, v) BY <3>2, <3>3, <3>4, <3>5
    <3> QED BY <2>1, <3>6, <1>2
  <2>4. CASE x.is # "array"
    <3>1. w = [is |-> "value", v |-> Passed(ver, v)] BY <2>1, <2>4, AsDataIs
    <3>2. Meant(w) = Passed(ver, v) BY <2>2, <3>1, MeantIs
    <3> QED BY <2>1, <3>2, <1>2
  <2> QED BY <2>3, <2>4
<1> HIDE DEF Wrong
<1>3. ASSUME T # {} PROVE FALSE
  <2>1. T \subseteq Nat BY WrittenType
  <2> HIDE DEF T
  <2>2. PICK n \in T : \A m \in T : n <= m BY <1>3, <2>1, Least
  <2> USE DEF T
  <2>3. PICK x \in Data : Wrong(x) /\ n = Len(Written(x)) BY <2>2
  <2>4. \A y \in Data : Wrong(y) => Len(Written(x)) <= Len(Written(y)) BY <2>2, <2>3
  <2> QED BY <2>3, <2>4, <1>2
<1> QED BY <1>3 DEF Wrong

\* A call, as it is written again, is still no array of one message, which the
\* next reader would take it out of.
LEMMA CallAgain ==
  ASSUME NEW d \in Data, NEW ver \in {0, 3}
  PROVE  /\ AsData(ver, MeantCall(d)) \in Data
         /\ MeantCall(AsData(ver, MeantCall(d))) = Passed(ver, MeantCall(d))
<1>1. \E x \in Data : MeantCall(d) = Meant(x) /\ MeantCall(x) = Meant(x)
  <2>1. CASE d.is = "array" /\ Len(d.items) = 1 /\ Meant(d.items[1]).is = "message"
    <3>1. d.items \in Seq(Data) BY <2>1, DataAssumption
    <3>2. d.items[1] \in Data BY <2>1, <3>1
    <3>3. d.items[1].is # "array"
      <4>1. d.items[1].is = "array" => Meant(d.items[1]).is = "array" BY <3>2, MeantIs
      <4> QED BY <4>1, <2>1
    <3> QED BY <2>1, <3>2, <3>3 DEF MeantCall
  <2>2. CASE ~(d.is = "array" /\ Len(d.items) = 1 /\ Meant(d.items[1]).is = "message")
    BY <2>2 DEF MeantCall
  <2> QED BY <2>1, <2>2
<1>2. PICK x \in Data : MeantCall(d) = Meant(x) /\ MeantCall(x) = Meant(x) BY <1>1
<1>3. PICK y : y = AsData(ver, Meant(x)) OBVIOUS
<1>4. y \in Data /\ Meant(y) = Passed(ver, Meant(x)) BY <1>3, AsDataIs, MeansAgain
<1>5. ASSUME y.is = "array", Len(y.items) = 1, Meant(y.items[1]).is = "message" PROVE FALSE
  <2>1. x.is = "array" BY <1>3, <1>5, AsDataIs
  <2>2. y = [is |-> "array", items |-> [k \in DOMAIN x.items |-> AsData(ver, Meant(x.items[k]))]]
    BY <1>3, <2>1, AsDataIs
  <2>3. x.items \in Seq(Data) /\ y.items \in Seq(Data) BY <1>4, <1>5, <2>1, DataAssumption
  <2>4. DOMAIN x.items = DOMAIN y.items BY <2>2
  <2>5. DOMAIN x.items = 1 .. Len(x.items) /\ Len(x.items) \in Nat /\ DOMAIN y.items = 1 .. 1
    BY <1>5, <2>3
  <2>6. Len(x.items) = 1
    <3>1. PICK n : n = Len(x.items) OBVIOUS
    <3>2. 1 .. n = 1 .. 1 /\ n \in Nat BY <2>4, <2>5, <3>1
    <3>3. 1 \in 1 .. n BY <3>2
    <3>4. 1 <= n /\ n \in 1 .. n BY <3>2, <3>3
    <3>5. n \in 1 .. 1 BY <3>2, <3>4
    <3> QED BY <3>1, <3>5
  <2>7. x.items[1] \in Data /\ 1 \in DOMAIN x.items BY <2>3, <2>5, <2>6
  <2>8. y.items[1] = AsData(ver, Meant(x.items[1])) BY <2>2, <2>7
  <2>9. Meant(y.items[1]) = Passed(ver, Meant(x.items[1])) BY <2>7, <2>8, MeansAgain
  <2>10. Meant(x.items[1]).is = "message" BY <1>5, <2>7, <2>9, PassedIs
  <2>11. MeantCall(x) = Meant(x.items[1]) BY <2>1, <2>6, <2>10 DEF MeantCall
  <2>12. Meant(x).is = "array" BY <2>1, MeantIs
  <2> QED BY <2>10, <2>11, <2>12, <1>2
<1>6. MeantCall(y) = Meant(y) BY <1>5 DEF MeantCall
<1> QED BY <1>2, <1>3, <1>4, <1>6

LEMMA RelayMeans ==
  ASSUME NEW e \in Sendable, NEW x, Content(x) = MeantEnvelope(e)
  PROVE  AsEnvelope(x) \in Sendable /\ MeantEnvelope(AsEnvelope(x)) = PassedContent(x)
<1>0. PICK hv, mv : hv = HeadersIn(x) /\ mv = MessagesIn(x) OBVIOUS
<1>1. PICK S, hs : S = NamesUpTo(e, Len(e.headers)) /\ hs = HeadersUpTo(e, Len(e.headers)) OBVIOUS
<1>2. x.version = e.version /\ x.headers = hs /\ x.messages = MessagesUpTo(e, Len(e.messages))
      /\ hv \in {0, 3} /\ mv \in {0, 3}
  <2>1. Content(x) = [version |-> e.version, headers |-> hs,
                      messages |-> MessagesUpTo(e, Len(e.messages))]
    BY <1>1, MeantEnd
  <2>2. hv \in {0, 3} /\ mv \in {0, 3} BY <1>0 DEF HeadersIn, MessagesIn
  <2> QED BY <2>1, <2>2 DEF Content
<1>3. DOMAIN hs = S /\ \A name \in S : \E j \in 1 .. Len(e.headers) :
        e.headers[j].name = name /\ hs[name] = MeantHeader(e.headers[j])
  BY <1>1, LastThere DEF HeadersUpTo
<1>4. \A name \in S : \E h \in [must : BOOLEAN, data : {Meant(d) : d \in Data}] :
        hs[name] = h /\ name \in Names
  BY <1>3, SendableIs DEF MeantHeader
<1>5. \A d \in Data : AsData(hv, Meant(d)) \in Data
                      /\ Meant(AsData(hv, Meant(d))) = Passed(hv, Meant(d))
  BY <1>2, AsDataIs, MeansAgain
<1>6. PICK names : names = SetToSeq(S) OBVIOUS
<1>7. PICK n \in Nat : names \in [1 .. n -> S] /\ \A name \in S : \E i \in 1 .. n : names[i] = name
  BY <1>1, <1>6, NamesFinite, Ordered
<1>8. PICK f, y, ms : y = AsEnvelope(x) /\ f = y.headers /\ ms = y.messages OBVIOUS
<1> DEFINE Again(name) == [name |-> name, must |-> hs[name].must, data |-> AsData(hv, hs[name].data)]
<1>9. f = [k \in 1 .. n |-> Again(names[k])]
  BY <1>0, <1>2, <1>3, <1>6, <1>7, <1>8 DEF AsEnvelope, Must
<1>10. \A name \in S : Again(name) \in [name : Names, must : BOOLEAN, data : Data]
  BY <1>4, <1>5
<1>11. f \in Seq([name : Names, must : BOOLEAN, data : Data]) /\ Len(f) = n
  <2>1. \A T : \A g \in [1 .. n -> T] : g \in Seq(T) /\ Len(g) = n OBVIOUS
  <2> HIDE DEF Again
  <2>2. f \in [1 .. n -> [name : Names, must : BOOLEAN, data : Data]] BY <1>7, <1>9, <1>10
  <2> QED BY <2>1, <2>2
<1> DEFINE m == Len(e.messages)
           Call(k, c) == [target |-> e.messages[k].target, response |-> e.messages[k].response,
                          data |-> c]
           CallOf(k) == Call(k, AsData(mv, MeantCall(e.messages[k].data)))
           GotOf(k) == Call(k, Passed(mv, MeantCall(e.messages[k].data)))
<1>20. DOMAIN x.messages = 1 .. m
       /\ \A k \in 1 .. m : x.messages[k] = Call(k, MeantCall(e.messages[k].data))
  BY <1>2 DEF MessagesUpTo, MeantMessage
<1>21. \A k \in 1 .. m : \A w :
         [x.messages[k] EXCEPT !.data = w] = Call(k, w)
         /\ x.messages[k].data = MeantCall(e.messages[k].data)
  <2> SUFFICES ASSUME NEW k \in 1 .. m, NEW w
               PROVE  [x.messages[k] EXCEPT !.data = w] = Call(k, w)
                      /\ x.messages[k].data = MeantCall(e.messages[k].data)
    OBVIOUS
  <2>1. PICK a, b, c : a = e.messages[k].target /\ b = e.messages[k].response
                       /\ c = MeantCall(e.messages[k].data)
    OBVIOUS
  <2>2. x.messages[k] = [target |-> a, response |-> b, data |-> c] BY <2>1, <1>20
  <2> QED BY <2>1, <2>2
<1>12. ms = [k \in 1 .. m |-> CallOf(k)]
  <2>1. ms = [k \in DOMAIN x.messages |-> [x.messages[k] EXCEPT !.data = AsData(mv, @)]]
    BY <1>0, <1>8 DEF AsEnvelope
  <2>2. \A k \in 1 .. m : [x.messages[k] EXCEPT !.data = AsData(mv, @)] = CallOf(k)
    <3> HIDE DEF Call
    <3> QED BY <1>21
  <2> HIDE DEF CallOf, m
  <2> QED BY <2>1, <2>2, <1>20
<1>13. \A k \in 1 .. m : CallOf(k) \in [target : Names, response : Names, data : Data]
  BY <1>2, SendableIs, CallAgain
<1>14. ms \in Seq([target : Names, response : Names, data : Data]) /\ Len(ms) = m /\ m \in Nat
  <2> HIDE DEF CallOf, m
  <2>1. m \in Nat BY SendableIs DEF m
  <2>2. \A T : \A g \in [1 .. m -> T] : g \in Seq(T) /\ Len(g) = m BY <2>1
  <2>3. ms \in [1 .. m -> [target : Names, response : Names, data : Data]] BY <1>12, <1>13
  <2> QED BY <2>1, <2>2, <2>3
<1>15. y = [version |-> e.version, headers |-> f, messages |-> ms]
  BY <1>2, <1>8 DEF AsEnvelope
<1>16. y \in Sendable BY <1>11, <1>14, <1>15, SendableIs DEF Sendable
<1>17. MeantEnvelope(y) = [version |-> e.version, headers |-> HeadersUpTo(y, n),
                           messages |-> MessagesUpTo(y, m)]
  BY <1>11, <1>14, <1>15, <1>16, MeantEnd
<1>18. HeadersUpTo(y, n) = [name \in S |-> [hs[name] EXCEPT !.data = Passed(hv, @)]]
  <2>1. NamesUpTo(y, n) = S
    <3>1. \A k \in 1 .. n : y.headers[k].name = names[k] BY <1>8, <1>9
    <3> QED BY <3>1, <1>7 DEF NamesUpTo
  <2>2. ASSUME NEW name \in S
        PROVE  MeantHeader(y.headers[LastHeader(y, n, name)])
               = [hs[name] EXCEPT !.data = Passed(hv, @)]
    <3>1. PICK k : k = LastHeader(y, n, name) OBVIOUS
    <3>2. Len(y.headers) = n BY <1>8, <1>11
    <3>3. k \in 1 .. n /\ y.headers[k].name = name BY <3>1, <3>2, <2>1, <1>16, LastThere
    <3>4. y.headers[k] = Again(name) BY <3>3, <1>8, <1>9
    <3>5. PICK h \in [must : BOOLEAN, data : {Meant(d) : d \in Data}] : hs[name] = h BY <1>4
    <3>6. PICK w : w = Passed(hv, h.data) OBVIOUS
    <3>7. Meant(AsData(hv, h.data)) = w BY <3>5, <3>6, <1>5
    <3>8. [h EXCEPT !.data = w] = [must |-> h.must, data |-> w] BY <3>5
    <3> QED BY <3>1, <3>4, <3>5, <3>6, <3>7, <3>8 DEF MeantHeader
  <2> QED BY <2>1, <2>2 DEF HeadersUpTo
<1>19. MessagesUpTo(y, m) = [k \in 1 .. m |-> [x.messages[k] EXCEPT !.data = Passed(mv, @)]]
  <2>1. ASSUME NEW k \in 1 .. m
        PROVE  MeantMessage(y.messages[k]) = [x.messages[k] EXCEPT !.data = Passed(mv, @)]
    <3>1. y.messages[k] = CallOf(k) BY <1>8, <1>12
    <3>2. e.messages[k].data \in Data BY SendableIs
    <3>3. MeantMessage(y.messages[k]) = GotOf(k) BY <3>1, <3>2, <1>2, CallAgain DEF MeantMessage
    <3> HIDE DEF Call
    <3>4. [x.messages[k] EXCEPT !.data = Passed(mv, @)] = GotOf(k) BY <1>21
    <3> QED BY <3>3, <3>4
  <2> HIDE DEF m
  <2> QED BY <2>1 DEF MessagesUpTo
<1>22. PassedContent(x) = [version |-> e.version, headers |-> HeadersUpTo(y, n),
                           messages |-> MessagesUpTo(y, m)]
  <2>1. PassedContent(x).headers = [name \in S |-> [hs[name] EXCEPT !.data = Passed(hv, @)]]
    BY <1>0, <1>2, <1>3 DEF PassedContent
  <2>2. PassedContent(x).messages = [k \in 1 .. m |-> [x.messages[k] EXCEPT !.data = Passed(mv, @)]]
    <3> HIDE DEF m
    <3> QED BY <1>0, <1>20 DEF PassedContent
  <2>3. PassedContent(x) = [version |-> e.version, headers |-> PassedContent(x).headers,
                            messages |-> PassedContent(x).messages]
    BY <1>2 DEF PassedContent
  <2> QED BY <2>1, <2>2, <2>3, <1>18, <1>19
<1> QED BY <1>8, <1>16, <1>17, <1>22

-----------------------------------------------------------------------------
(***************************************************************************)
(* Every step of the system.                                               *)
(***************************************************************************)
LEMMA InvStarts ==
  ASSUME Init
  PROVE  EnvelopeInv
<1>1. Positions /\ Len(stream) \in Nat BY DEF Init, Positions
<1>2. IsEnvelope(Blank) BY DEF Blank, IsEnvelope
<1> QED BY <1>1, <1>2, EnvelopeAssumption DEF Init, EnvelopeInv, Types

LEMMA RelayInv ==
  ASSUME EnvelopeInv, Relay
  PROVE  EnvelopeInv'
<1>1. stat = "done" /\ Populate(Serialized(AsEnvelope(env))) /\ sent' = AsEnvelope(env)
      /\ outbound' = Remembered(outbound)
  BY DEF Relay
<1>2. PICK e \in Sendable : Kept(e) BY <1>1 DEF EnvelopeInv, Reads, Refused
<1>3. PICK x, y : x = env /\ y = AsEnvelope(env) OBVIOUS
<1>4. Content(x) = MeantEnvelope(e) BY <1>2, <1>3 DEF Kept
<1>5. y \in Sendable BY <1>3, <1>4, RelayMeans
<1> QED BY <1>1, <1>3, <1>5, PopulateBegins DEF EnvelopeInv

LEMMA InvStays ==
  ASSUME BytesListed, EnvelopeInv, [Next]_vars
  PROVE  EnvelopeInv'
<1>1. CASE UNCHANGED vars
  <2>1. Types' /\ stat' = stat BY <1>1 DEF vars, readVars, mapperVars, Types, Positions, EnvelopeInv
  <2>2. ASSUME NEW e \in Sendable, Reads(e) PROVE Reads(e)'
    BY <1>1, <2>2 DEF vars, readVars, Reads, StreamOf, Progress, AtVersion, AtHeaders, AtHeader,
      AtMessages, AtMessage, InHeader, InMsg, Got, DataRead, Start, InMessage, Top
  <2>3. ASSUME NEW e \in Sendable, Kept(e) \/ Refused(e) PROVE Kept(e)' \/ Refused(e)'
    BY <1>1, <2>3 DEF vars, readVars, Kept, Refused, Content
  <2> QED BY <2>1, <2>2, <2>3 DEF EnvelopeInv
<1>2. CASE Access \/ Replace
  <2>1. UNCHANGED <<readVars, env, local, at, left, given, stat, reads, sent, inbound, outbound>>
        /\ active' \in {Defined, "custom"}
    BY <1>2 DEF Access, Replace
  <2>2. active' \in {None} \cup Mappers
    BY <2>1 DEF EnvelopeInv, Types, Defined, Mappers
  <2>3. Types' /\ stat' = stat BY <2>1, <2>2 DEF readVars, Types, Positions, EnvelopeInv
  <2>4. ASSUME NEW e \in Sendable, Reads(e) PROVE Reads(e)'
    BY <2>1, <2>4 DEF readVars, Reads, StreamOf, Progress, AtVersion, AtHeaders, AtHeader,
      AtMessages, AtMessage, InHeader, InMsg, Got, DataRead, Start, InMessage, Top
  <2>5. ASSUME NEW e \in Sendable, Kept(e) \/ Refused(e) PROVE Kept(e)' \/ Refused(e)'
    BY <2>1, <2>5 DEF readVars, Kept, Refused, Content
  <2> QED BY <2>3, <2>4, <2>5 DEF EnvelopeInv
<1>3. CASE Relay BY <1>3, RelayInv
<1>4. CASE Reading
  <2>1. stat = "run" BY <1>4, ReadingSteps
  <2>2. PICK e \in Sendable : Reads(e) BY <2>1 DEF EnvelopeInv, Kept, Refused
  <2> QED BY <2>2, <1>4, ReadingStep DEF EnvelopeInv
<1>5. ASSUME NEW e \in Envelopes, Receive(e) \/ ReceiveCutOff(e) PROVE EnvelopeInv'
  <2>1. e \in Sendable /\ Types BY EnvelopeAssumption DEF EnvelopeInv
  <2>2. sent' = e /\ outbound' = outbound BY <1>5 DEF Receive, ReceiveCutOff
  <2>3. PICK source :
          /\ Populate(source)
          /\ \/ source = Serialized(e)
             \/ \E end \in 0 .. Len(Serialized(e)) - 1 : source = SubSeq(Serialized(e), 1, end)
    BY <1>5 DEF Receive, ReceiveCutOff
  <2> QED BY <2>1, <2>2, <2>3, PopulateBegins
<1>6. \A e \in Samples : e \in Envelopes BY EnvelopeAssumption
<1> QED BY <1>1, <1>2, <1>3, <1>4, <1>5, <1>6 DEF Next

LEMMA InvKept == BytesListed /\ Spec => []EnvelopeInv
<1> SUFFICES ASSUME BytesListed PROVE Spec => []EnvelopeInv OBVIOUS
<1>1. EnvelopeInv /\ [Next]_vars => EnvelopeInv' BY InvStays
<1> QED BY <1>1, InvStarts, PTL DEF Spec

\* Whatever is received, cut off or sent on, both positions stay in the stream,
\* and the count of what is to come never falls below zero.
THEOREM EnvelopeTyped == BytesListed => (Spec => []TypeOK)
<1> SUFFICES ASSUME BytesListed PROVE Spec => []TypeOK OBVIOUS
<1>1. EnvelopeInv => TypeOK
  BY DEF EnvelopeInv, Types, TypeOK, Positions, IsEnvelope, Blank, Mappers
<1> QED BY <1>1, InvKept, PTL

\* populate_from_stream makes of an envelope what its sender meant, whatever
\* data its headers and messages hold and however deep they are nested: each
\* header under its name, the last one if there are more, each message in its
\* place, each field of an external message in the attribute that its bit
\* stands for, and everything has been read.  It raises only when the stream
\* lost its end.
THEOREM EnvelopesAreKept == BytesListed => (Spec => []EnvelopeKept)
<1> SUFFICES ASSUME BytesListed PROVE Spec => []EnvelopeKept OBVIOUS
<1>1. EnvelopeInv => EnvelopeKept BY DEF EnvelopeInv, EnvelopeKept, Reads, Kept, Refused
<1> QED BY <1>1, InvKept, PTL

(***************************************************************************)
(* In C the envelope always says what somebody sent, and so did the one    *)
(* that was written by Relay: a call that raises leaves it alone.          *)
(***************************************************************************)
Means(x) == \E e \in Sendable : Content(x) = MeantEnvelope(e)
RelayedInv == EnvelopeInv /\ Means(env) /\ Means(before)

LEMMA BlankMeans == Means(Blank)
<1>1. PICK e : e = [version |-> 0, headers |-> <<>>, messages |-> <<>>] OBVIOUS
<1>2. e \in Sendable BY <1>1 DEF Sendable
<1>3. Len(e.headers) = 0 /\ Len(e.messages) = 0 BY <1>1
<1>4. MeantEnvelope(e) = [version |-> 0, headers |-> <<>>, messages |-> <<>>]
  BY <1>1, <1>2, <1>3, MeantEnd, MeantStart
<1>5. Content(Blank) = [version |-> 0, headers |-> <<>>, messages |-> <<>>] BY DEF Content, Blank
<1> QED BY <1>2, <1>4, <1>5 DEF Means

LEMMA RelayedStays ==
  ASSUME Native, BytesListed, RelayedInv, [Next]_vars
  PROVE  RelayedInv'
<1>1. EnvelopeInv' BY InvStays DEF RelayedInv
<1>2. CASE UNCHANGED vars
  <2>1. env' = env /\ before' = before BY <1>2 DEF vars
  <2> QED BY <2>1, <1>1 DEF RelayedInv, Means
<1>3. CASE Access \/ Replace
  <2>1. env' = env /\ before' = before BY <1>3 DEF Access, Replace
  <2> QED BY <2>1, <1>1 DEF RelayedInv, Means
<1>4. ASSUME NEW source, Populate(source) PROVE RelayedInv'
  <2>1. env' = env /\ before' = env BY <1>4 DEF Populate, SoFar
  <2> QED BY <2>1, <1>1 DEF RelayedInv, Means
<1>5. CASE Reading
  <2>1. before' = before /\ (env' = env \/ stat' = "done") BY <1>5, ReadingSteps
  <2>2. CASE env' = env BY <2>1, <2>2, <1>1 DEF RelayedInv, Means
  <2>3. CASE stat' = "done"
    <3>1. PICK e \in Sendable : Kept(e)' BY <2>3, <1>1 DEF EnvelopeInv, Reads, Refused
    <3>2. Means(env)' BY <3>1 DEF Kept, Means
    <3> QED BY <3>2, <2>1, <1>1 DEF RelayedInv, Means
  <2> QED BY <2>1, <2>2, <2>3
<1> QED BY <1>2, <1>3, <1>4, <1>5, Calls

\* However an envelope was filled, with data of any depth, one reader and
\* writer of the C extension passes all of it on: its headers and messages in
\* their places, and of their data everything but the types of objects that are
\* not mapped, and of an ErrorMessage in AMF0 what makes a fault.
THEOREM RelayPassesOn == Native /\ BytesListed => (Spec => []RelayKept)
<1> SUFFICES ASSUME Native, BytesListed PROVE Spec => []RelayKept OBVIOUS
<1>1. Init => RelayedInv
  <2> SUFFICES ASSUME Init PROVE RelayedInv OBVIOUS
  <2>1. env = Blank /\ before = Blank BY DEF Init
  <2> QED BY <2>1, BlankMeans, InvStarts DEF RelayedInv
<1>2. RelayedInv /\ [Next]_vars => RelayedInv' BY RelayedStays
<1>3. RelayedInv => RelayKept
  <2> SUFFICES ASSUME RelayedInv, stat = "done", sent = AsEnvelope(before)
               PROVE  Content(env) = PassedContent(before)
    BY DEF RelayKept
  <2>1. PICK e \in Sendable : Kept(e) BY DEF RelayedInv, EnvelopeInv, Reads, Refused
  <2>2. PICK o \in Sendable : Content(before) = MeantEnvelope(o) BY DEF RelayedInv, Means
  <2>3. MeantEnvelope(AsEnvelope(before)) = PassedContent(before) BY <2>2, RelayMeans
  <2> QED BY <2>1, <2>3 DEF Kept
<1> QED BY <1>1, <1>2, <1>3, PTL DEF Spec
=============================================================================
