--------------------------- MODULE RemotingProofs ---------------------------
(***************************************************************************)
(* What holds of remoting for every number of messages and of attempts,    *)
(* and every kind of message: URIs are distinct, a response that counts as *)
(* constructed is complete, faults come back to the calls that caused      *)
(* them, and an exchange implements RemoteCalls.                           *)
(***************************************************************************)
EXTENDS RemotingExchange, SequenceTheorems, TLAPS

\* The response URIs of a request, by the way it is made.
Numbered ==
  /\ call_type = "nil" <=> request = <<>>
  /\ call_type = "flex" => Len(request) = 1
  /\ Len(request) <= MaxMessages
  /\ \A k \in DOMAIN request : request[k].uri = IF call_type = "flex" THEN 2 ELSE k

\* What the gateway has of the request.
ReadAsSent ==
  /\ stat = "build" => read = <<>> /\ next = 1 /\ tries = 0
  /\ stat # "build" =>
       Len(read) = Len(request) /\ \A k \in DOMAIN read : read[k].uri = request[k].uri

\* How far the gateway has come.
Phases ==
  /\ constructed <=> stat \in {"respond", "over"}
  /\ constructed => next = Len(read) + 1
  /\ stat # "over" => received = <<>>
  /\ tries = 0 => stat \in {"build", "idle"} /\ messages = <<>> /\ ran = <<>>

\* The last answers belong to the messages that the loop has behind it.
AnsweredSoFar ==
  stat \in {"loop", "respond", "over"} =>
    /\ Len(messages) >= next - 1
    /\ \A k \in 1 .. next - 1 : messages[Len(messages) - (next - 1) + k].uri = read[k].uri

\* Calls of the block have their answers, as long as there is one attempt.
Outcome(i, answers) ==
  \E k \in DOMAIN answers :
    /\ answers[k].uri = ran[i].uri
    /\ answers[k].on = "onStatus" <=> ran[i].raised

FirstTry ==
  ~GivenUp =>
    /\ Len(messages) = next - 1
    /\ \A i \in DOMAIN ran : Outcome(i, messages)

Returned ==
  stat = "over" =>
    /\ Len(received) = Len(messages)
    /\ \A k \in DOMAIN messages :
         received[k].uri = messages[k].uri /\ received[k].on = messages[k].on

RemotingInv ==
  TypeOK /\ Numbered /\ ReadAsSent /\ Phases /\ AnsweredSoFar /\ FirstTry /\ Returned

-----------------------------------------------------------------------------
\* Sequences: their elements, one more of them, and functions that are some.
LEMMA Elements ==
  ASSUME NEW S, NEW s \in Seq(S)
  PROVE  Len(s) \in Nat /\ DOMAIN s = 1 .. Len(s) /\ \A k \in DOMAIN s : s[k] \in S
OBVIOUS

LEMMA Appended ==
  ASSUME NEW S, NEW s \in Seq(S), NEW x \in S
  PROVE  /\ Append(s, x) \in Seq(S) /\ Len(Append(s, x)) = Len(s) + 1
         /\ DOMAIN Append(s, x) = 1 .. Len(s) + 1
         /\ \A k \in 1 .. Len(s) : Append(s, x)[k] = s[k]
         /\ Append(s, x)[Len(s) + 1] = x
OBVIOUS

LEMMA FromFunction ==
  ASSUME NEW S, NEW n \in Nat, NEW f \in [1 .. n -> S]
  PROVE  f \in Seq(S) /\ Len(f) = n
OBVIOUS

LEMMA RemotingInit == Init => RemotingInv
<1> SUFFICES ASSUME Init PROVE RemotingInv
  OBVIOUS
<1>1. TypeOK
  <2>1. \A S : <<>> \in Seq(S)
    OBVIOUS
  <2>2. Len(<<>>) = 0 /\ 1 \in 1 .. 0 + 1 /\ 0 \in 0 .. MaxTries
    BY RemotingAssumption
  <2> QED BY <2>1, <2>2 DEF Init, TypeOK
<1>2. Numbered /\ ReadAsSent /\ Phases /\ AnsweredSoFar /\ FirstTry /\ Returned
  BY RemotingAssumption
  DEF Init, Numbered, ReadAsSent, Phases, AnsweredSoFar, FirstTry, Returned, GivenUp
<1> QED BY <1>1, <1>2 DEF RemotingInv

\* A message is added to the request.
LEMMA AskStep ==
  ASSUME RemotingInv, NEW kind \in Kinds, NEW uri \in 1 .. MaxMessages + 1, Ask(kind, uri),
         call_type' \in {"simple", "flex", "player"},
         uri = IF call_type' = "flex" THEN 2 ELSE Len(request) + 1,
         call_type' = "flex" => call_type = "nil",
         call_type # "nil" => call_type' = call_type
  PROVE  RemotingInv'
<1> DEFINE m == [kind |-> kind, uri |-> uri]
<1>1. /\ stat = "build" /\ Len(request) < MaxMessages /\ request' = Append(request, m)
      /\ UNCHANGED <<version, read, next, messages, constructed, ran, stat, tries,
                     received, result>>
  BY DEF Ask, responseVars
<1>2. m \in [kind : Kinds, uri : 1 .. MaxMessages + 1] /\ m.uri = uri
  OBVIOUS
<1>3. request \in Seq([kind : Kinds, uri : 1 .. MaxMessages + 1])
  BY DEF RemotingInv, TypeOK
<1>4. /\ request' \in Seq([kind : Kinds, uri : 1 .. MaxMessages + 1])
      /\ Len(request') = Len(request) + 1 /\ Len(request) \in Nat
      /\ \A k \in 1 .. Len(request) : request'[k] = request[k]
      /\ request'[Len(request) + 1] = m
  BY <1>1, <1>2, <1>3
<1> HIDE DEF m
<1>5. TypeOK'
  BY <1>1, <1>4 DEF RemotingInv, TypeOK
<1>6. Numbered'
  <2>1. Numbered BY DEF RemotingInv
  <2>2. call_type' # "nil" /\ request' # <<>>
    BY <1>4
  <2>3. call_type' = "flex" => Len(request') = 1
    BY <2>1, <1>4 DEF Numbered
  <2>4. Len(request') <= MaxMessages
    BY <1>1, <1>4, RemotingAssumption
  <2>5. ASSUME NEW k \in DOMAIN request'
        PROVE  request'[k].uri = IF call_type' = "flex" THEN 2 ELSE k
    <3>1. k \in 1 .. Len(request) \/ k = Len(request) + 1
      BY <1>4
    <3>2. CASE k = Len(request) + 1
      BY <3>2, <1>4, <1>2
    <3>3. CASE k \in 1 .. Len(request)
      <4>1. request # <<>> /\ k \in DOMAIN request BY <3>3, <1>3
      <4>2. call_type' = call_type
        BY <4>1, <2>1 DEF Numbered
      <4> QED BY <4>1, <4>2, <3>3, <1>4, <2>1 DEF Numbered
    <3> QED BY <3>1, <3>2, <3>3
  <2> QED BY <2>2, <2>3, <2>4, <2>5 DEF Numbered
<1>7. ReadAsSent' /\ Phases' /\ AnsweredSoFar' /\ Returned'
  BY <1>1 DEF RemotingInv, ReadAsSent, Phases, AnsweredSoFar, Returned
<1>8. FirstTry'
  BY <1>1 DEF RemotingInv, FirstTry, GivenUp, Outcome
<1> QED BY <1>5, <1>6, <1>7, <1>8 DEF RemotingInv

\* Of the three ways to make a request.
LEMMA ClientStep == RemotingInv /\ (Call \/ CallFlex \/ PlayerAsks) => RemotingInv'
<1> SUFFICES ASSUME RemotingInv, Call \/ CallFlex \/ PlayerAsks PROVE RemotingInv'
  OBVIOUS
<1>1. Len(request) \in Nat /\ call_type \in {"nil", "simple", "flex", "player"}
  BY DEF RemotingInv, TypeOK
<1>2. ASSUME NEW kind, NEW uri, Ask(kind, uri) PROVE Len(request) < MaxMessages
  BY <1>2 DEF Ask
<1>3. CASE Call
  <2>1. PICK kind \in SimpleKinds : Ask(kind, Len(request) + 1)
    BY <1>3 DEF Call
  <2>2. Len(request) + 1 \in 1 .. MaxMessages + 1 /\ kind \in Kinds
    BY <2>1, <1>1, <1>2, RemotingAssumption DEF Kinds
  <2>3. call_type' = "simple" /\ call_type \in {"nil", "simple"}
    BY <1>3 DEF Call, MaySimple
  <2> QED BY <2>1, <2>2, <2>3, AskStep
<1>4. CASE CallFlex
  <2>1. PICK kind \in FlexKinds : Ask(kind, 2)
    BY <1>4 DEF CallFlex
  <2>2. 2 \in 1 .. MaxMessages + 1 /\ kind \in Kinds
    BY <2>1, RemotingAssumption DEF Kinds
  <2>3. call_type' = "flex" /\ call_type = "nil"
    BY <1>4 DEF CallFlex, MayFlex
  <2> QED BY <2>1, <2>2, <2>3, AskStep
<1>5. CASE PlayerAsks
  <2>1. PICK kind \in PlayerKinds : Ask(kind, Len(request) + 1)
    BY <1>5 DEF PlayerAsks
  <2>2. Len(request) + 1 \in 1 .. MaxMessages + 1 /\ kind \in Kinds
    BY <2>1, <1>1, <1>2, RemotingAssumption DEF Kinds
  <2>3. call_type' = "player" /\ call_type \in {"nil", "player"}
    BY <1>5 DEF PlayerAsks
  <2> QED BY <2>1, <2>2, <2>3, AskStep
<1> QED BY <1>3, <1>4, <1>5

LEMMA SendStep == RemotingInv /\ Send => RemotingInv'
<1> SUFFICES ASSUME RemotingInv, Send PROVE RemotingInv'
  OBVIOUS
<1>1. /\ stat = "build" /\ stat' = "idle"
      /\ read' = [k \in DOMAIN request |-> [request[k] EXCEPT !.kind = Unwrap(@)]]
      /\ UNCHANGED <<version, call_type, request, next, messages, constructed, ran, tries,
                     received, result>>
  BY DEF Send, requestVars, responseVars
<1>2. /\ request \in Seq([kind : Kinds, uri : 1 .. MaxMessages + 1])
      /\ TypeOK /\ ReadAsSent /\ Phases
  BY DEF RemotingInv, TypeOK
<1>3. \A r \in [kind : Kinds, uri : 1 .. MaxMessages + 1] :
                         /\ [r EXCEPT !.kind = Unwrap(r.kind)]
                              \in [kind : Kinds \cup {"flex"}, uri : 1 .. MaxMessages + 1]
                         /\ [r EXCEPT !.kind = Unwrap(r.kind)].uri = r.uri
  BY DEF Unwrap
<1>4. /\ read' \in Seq([kind : Kinds \cup {"flex"}, uri : 1 .. MaxMessages + 1])
      /\ Len(read') = Len(request)
      /\ \A k \in DOMAIN read' : read'[k].uri = request[k].uri
  <2>1. Len(request) \in Nat /\ DOMAIN request = 1 .. Len(request)
        /\ \A k \in DOMAIN request : request[k] \in [kind : Kinds, uri : 1 .. MaxMessages + 1]
    BY <1>2, Elements
  <2>2. read' \in [1 .. Len(request) -> [kind : Kinds \cup {"flex"}, uri : 1 .. MaxMessages + 1]]
    BY <2>1, <1>1, <1>3
  <2>3. \A k \in DOMAIN read' : read'[k].uri = request[k].uri
    BY <2>1, <1>1, <1>3
  <2>4. /\ read' \in Seq([kind : Kinds \cup {"flex"}, uri : 1 .. MaxMessages + 1])
        /\ Len(read') = Len(request)
    BY <2>1, <2>2, FromFunction
  <2> QED BY <2>3, <2>4
<1>5. next = 1 /\ tries = 0 /\ ~constructed /\ messages = <<>> /\ ran = <<>>
  BY <1>1, <1>2 DEF ReadAsSent, Phases
<1>6. TypeOK'
  BY <1>1, <1>2, <1>4, <1>5 DEF TypeOK
<1>7. ReadAsSent' /\ Phases' /\ AnsweredSoFar' /\ Returned'
  BY <1>1, <1>2, <1>4, <1>5 DEF ReadAsSent, Phases, AnsweredSoFar, Returned
<1>8. Numbered' /\ FirstTry'
  BY <1>1, <1>5 DEF RemotingInv, Numbered, FirstTry, GivenUp, Outcome
<1> QED BY <1>6, <1>7, <1>8 DEF RemotingInv

LEMMA EachStep == RemotingInv /\ EachMethodCall => RemotingInv'
<1> SUFFICES ASSUME RemotingInv, EachMethodCall PROVE RemotingInv'
  OBVIOUS
<1>1. /\ stat = "idle" /\ ~constructed /\ tries < MaxTries
      /\ stat' = "loop" /\ next' = 1 /\ tries' = tries + 1
      /\ UNCHANGED <<version, call_type, request, read, messages, constructed, ran,
                     received, result>>
  BY DEF EachMethodCall, requestVars, responseVars
<1>2. TypeOK /\ Len(read) \in Nat /\ Len(messages) \in Nat /\ tries \in Nat /\ tries + 1 # 0
  BY DEF RemotingInv, TypeOK
<1>3. TypeOK'
  BY <1>1, <1>2, RemotingAssumption DEF TypeOK
<1>4. Numbered' /\ ReadAsSent' /\ Phases' /\ AnsweredSoFar' /\ Returned'
  BY <1>1, <1>2
  DEF RemotingInv, Numbered, ReadAsSent, Phases, AnsweredSoFar, Returned
<1>5. FirstTry'
  <2> SUFFICES ASSUME ~GivenUp' PROVE Len(messages) = 0 /\ ran = <<>>
    BY <1>1, <1>2 DEF FirstTry
  <2>1. tries = 0
    BY <1>1, <1>2 DEF GivenUp
  <2> QED BY <2>1 DEF RemotingInv, Phases
<1> QED BY <1>3, <1>4, <1>5 DEF RemotingInv

-----------------------------------------------------------------------------
\* The end of an iteration, whatever became of the message.
LEMMA AnswerStep ==
  ASSUME RemotingInv, stat = "loop", next \in DOMAIN read,
         NEW data \in {"value", "acknowledge", "error"}, Answer(data),
         \/ UNCHANGED ran
         \/ \E method \in {"target", "operation"} :
              ran' = Append(ran, [uri |-> At.uri, method |-> method, raised |-> data = "error"])
  PROVE  RemotingInv'
<1> DEFINE a == [uri |-> At.uri, on |-> StatusOf(data), data |-> data]
<1>1. /\ messages' = Append(messages, a) /\ next' = next + 1
      /\ UNCHANGED <<version, call_type, request, read, constructed, stat, tries, received,
                     result>>
  BY DEF Answer, requestVars
<1>2. TypeOK /\ messages \in Seq(Answers) /\ Len(messages) \in Nat /\ Len(read) \in Nat
      /\ next \in 1 .. Len(read) /\ DOMAIN read = 1 .. Len(read)
  BY DEF RemotingInv, TypeOK
<1>3. At = read[next] /\ At.uri \in 1 .. MaxMessages + 1
  <2>1. read \in Seq([kind : Kinds \cup {"flex"}, uri : 1 .. MaxMessages + 1])
    BY <1>2 DEF TypeOK
  <2>2. read[next] \in [kind : Kinds \cup {"flex"}, uri : 1 .. MaxMessages + 1]
    BY <1>2, <2>1, Elements
  <2> QED BY <2>2 DEF At
<1>4. a \in Answers /\ a.uri = At.uri /\ (a.on = "onStatus" <=> data = "error")
  BY <1>3 DEF Answers, StatusOf
<1>5. /\ messages' \in Seq(Answers) /\ Len(messages') = Len(messages) + 1
      /\ \A k \in 1 .. Len(messages) : messages'[k] = messages[k]
      /\ messages'[Len(messages) + 1] = a
  BY <1>1, <1>2, <1>4
<1> HIDE DEF a
<1>6. TypeOK'
  <2>1. ran' \in Seq([uri : 1 .. MaxMessages + 1, method : {"target", "operation"},
                      raised : BOOLEAN])
    <3>1. ran \in Seq([uri : 1 .. MaxMessages + 1, method : {"target", "operation"},
                       raised : BOOLEAN])
      BY <1>2 DEF TypeOK
    <3>2. CASE UNCHANGED ran BY <3>1, <3>2
    <3>3. ASSUME NEW method \in {"target", "operation"}, NEW b \in BOOLEAN,
                 ran' = Append(ran, [uri |-> At.uri, method |-> method, raised |-> b])
          PROVE  ran' \in Seq([uri : 1 .. MaxMessages + 1, method : {"target", "operation"},
                               raised : BOOLEAN])
      <4>1. [uri |-> At.uri, method |-> method, raised |-> b]
              \in [uri : 1 .. MaxMessages + 1, method : {"target", "operation"},
                   raised : BOOLEAN]
        BY <1>3
      <4> QED BY <4>1, <3>1, <3>3, Appended
    <3>4. (data = "error") \in BOOLEAN
      OBVIOUS
    <3> QED BY <3>2, <3>3, <3>4
  <2>2. next' \in 1 .. Len(read) + 1
    BY <1>1, <1>2
  <2> QED BY <1>1, <1>2, <1>5, <2>1, <2>2 DEF TypeOK
<1>7. tries # 0 /\ ~constructed
  BY DEF RemotingInv, Phases
<1>8. Numbered' /\ ReadAsSent' /\ Phases' /\ Returned'
  BY <1>1, <1>7 DEF RemotingInv, Numbered, ReadAsSent, Phases, Returned
<1>9. AnsweredSoFar'
  <2>1. Len(messages) >= next - 1
        /\ \A k \in 1 .. next - 1 : messages[Len(messages) - (next - 1) + k].uri = read[k].uri
    BY DEF RemotingInv, AnsweredSoFar
  <2>2. Len(messages') >= next' - 1
    BY <2>1, <1>1, <1>2, <1>5
  <2>3. ASSUME NEW k \in 1 .. next' - 1
        PROVE  messages'[Len(messages') - (next' - 1) + k].uri = read'[k].uri
    <3>1. Len(messages') - (next' - 1) + k = Len(messages) - (next - 1) + k
      BY <1>1, <1>2, <1>5
    <3>2. CASE k = next
      <4>1. Len(messages) - (next - 1) + k = Len(messages) + 1
        BY <3>2, <1>2
      <4> QED BY <4>1, <3>1, <3>2, <1>1, <1>3, <1>4, <1>5
    <3>3. CASE k # next
      <4>1. k \in 1 .. next - 1
        BY <3>3, <1>1, <1>2
      <4>2. Len(messages) - (next - 1) + k \in 1 .. Len(messages)
        BY <4>1, <2>1, <1>2
      <4> QED BY <4>1, <4>2, <2>1, <3>1, <1>1, <1>5
    <3> QED BY <3>2, <3>3
  <2> QED BY <2>2, <2>3 DEF AnsweredSoFar
<1>10. FirstTry'
  <2> SUFFICES ASSUME ~GivenUp'
               PROVE  Len(messages') = next' - 1 /\ \A i \in DOMAIN ran' : Outcome(i, messages)'
    BY DEF FirstTry
  <2>1. Len(messages) = next - 1 /\ \A i \in DOMAIN ran : Outcome(i, messages)
    BY <1>1 DEF RemotingInv, FirstTry, GivenUp
  <2>2. Len(messages') = next' - 1
    BY <2>1, <1>1, <1>2, <1>5
  <2>3. ASSUME NEW i \in DOMAIN ran, ran'[i] = ran[i] PROVE Outcome(i, messages)'
    <3>1. PICK k \in DOMAIN messages : /\ messages[k].uri = ran[i].uri
                                       /\ messages[k].on = "onStatus" <=> ran[i].raised
      BY <2>1 DEF Outcome
    <3>2. k \in DOMAIN messages' /\ messages'[k] = messages[k]
      BY <1>2, <1>5
    <3> QED BY <3>1, <3>2, <2>3 DEF Outcome
  <2>4. CASE UNCHANGED ran
    BY <2>2, <2>3, <2>4
  <2>5. ASSUME NEW method \in {"target", "operation"},
               ran' = Append(ran, [uri |-> At.uri, method |-> method, raised |-> data = "error"])
        PROVE  \A i \in DOMAIN ran' : Outcome(i, messages)'
    <3>1. ran \in Seq([uri : 1 .. MaxMessages + 1, method : {"target", "operation"},
                       raised : BOOLEAN])
      BY <1>2 DEF TypeOK
    <3> DEFINE r == [uri |-> At.uri, method |-> method, raised |-> data = "error"]
    <3>2. /\ DOMAIN ran' = 1 .. Len(ran) + 1 /\ DOMAIN ran = 1 .. Len(ran) /\ Len(ran) \in Nat
          /\ \A i \in 1 .. Len(ran) : ran'[i] = ran[i]
          /\ ran'[Len(ran) + 1] = r
      <4>1. r \in [uri : 1 .. MaxMessages + 1, method : {"target", "operation"},
                   raised : BOOLEAN]
        BY <1>3
      <4>2. ran' = Append(ran, r) BY <2>5
      <4> HIDE DEF r
      <4> QED BY <3>1, <4>1, <4>2
    <3>3. Len(messages) + 1 \in DOMAIN messages'
      BY <1>2, <1>5
    <3>4. a.uri = r.uri /\ (a.on = "onStatus" <=> r.raised)
      BY <1>4
    <3>5. ASSUME NEW i \in DOMAIN ran', i = Len(ran) + 1 PROVE Outcome(i, messages)'
      <4> HIDE DEF r
      <4>1. ran'[i] = r BY <3>2, <3>5
      <4>2. messages'[Len(messages) + 1] = a BY <1>5
      <4>3. \E k \in DOMAIN messages' : messages'[k] = a
        BY <3>3, <4>2
      <4>4. PICK k \in DOMAIN messages' : messages'[k] = a
        BY <4>3
      <4>5. messages'[k].uri = ran'[i].uri /\ (messages'[k].on = "onStatus" <=> ran'[i].raised)
        BY <4>1, <4>4, <3>4
      <4> QED BY <4>4, <4>5 DEF Outcome
    <3>6. ASSUME NEW i \in DOMAIN ran' PROVE Outcome(i, messages)'
      <4>1. i \in 1 .. Len(ran) \/ i = Len(ran) + 1
        BY <3>2
      <4>2. CASE i \in 1 .. Len(ran) BY <4>2, <2>3, <3>2
      <4>3. CASE i = Len(ran) + 1 BY <4>3, <3>5
      <4> QED BY <4>1, <4>2, <4>3
    <3> QED BY <3>6
  <2> QED BY <2>2, <2>4, <2>5
<1> QED BY <1>6, <1>8, <1>9, <1>10 DEF RemotingInv

\* The messages that the gateway answers, whoever decides what.
LEMMA IterationStep ==
  RemotingInv /\ (AnswerPing \/ RefuseCommand \/ BlockReturns \/ BlockRaises) => RemotingInv'
<1> SUFFICES ASSUME RemotingInv, AnswerPing \/ RefuseCommand \/ BlockReturns \/ BlockRaises
             PROVE  RemotingInv'
  OBVIOUS
<1>1. \A kind : MethodOf(kind) \in {"target", "operation"}
  BY DEF MethodOf
<1>2. CASE AnswerPing
  <2>1. stat = "loop" /\ next \in DOMAIN read /\ Answer("acknowledge") /\ UNCHANGED ran
    BY <1>2 DEF AnswerPing, InLoop
  <2> QED BY <2>1, AnswerStep
<1>3. CASE RefuseCommand
  <2>1. stat = "loop" /\ next \in DOMAIN read /\ Answer("error") /\ UNCHANGED ran
    BY <1>3 DEF RefuseCommand, InLoop
  <2> QED BY <2>1, AnswerStep
<1>4. CASE BlockReturns
  <2>1. stat = "loop" /\ next \in DOMAIN read
    BY <1>4 DEF BlockReturns, Dispatch, InLoop
  <2>2. PICK data \in {"value", "acknowledge"} : Answer(data)
    BY <1>4 DEF BlockReturns
  <2>3. ran' = Append(ran, [uri |-> At.uri, method |-> MethodOf(At.kind), raised |-> FALSE])
    BY <1>4 DEF BlockReturns, Dispatch
  <2>4. (data = "error") = FALSE
    BY <2>2
  <2> QED BY <2>1, <2>2, <2>3, <2>4, <1>1, AnswerStep
<1>5. CASE BlockRaises
  <2>1. stat = "loop" /\ next \in DOMAIN read /\ Answer("error")
    BY <1>5 DEF BlockRaises, Dispatch, InLoop
  <2>2. ran' = Append(ran, [uri |-> At.uri, method |-> MethodOf(At.kind), raised |-> TRUE])
    BY <1>5 DEF BlockRaises, Dispatch
  <2>3. ("error" = "error") = TRUE
    OBVIOUS
  <2> QED BY <2>1, <2>2, <2>3, <1>1, AnswerStep
<1> QED BY <1>2, <1>3, <1>4, <1>5

\* The loop is left.
LEMMA EscapeStep == RemotingInv /\ (BlockLeaves \/ OperationMissing) => RemotingInv'
<1> SUFFICES ASSUME RemotingInv, BlockLeaves \/ OperationMissing PROVE RemotingInv'
  OBVIOUS
<1>1. /\ stat = "loop" /\ next \in DOMAIN read /\ stat' = "idle"
      /\ UNCHANGED <<version, call_type, request, read, next, messages, constructed, tries,
                     received, result>>
  BY DEF BlockLeaves, OperationMissing, Escape, InLoop, Dispatch, requestVars
<1>2. TypeOK /\ tries \in Nat /\ tries # 0 /\ ~constructed
  BY <1>1 DEF RemotingInv, TypeOK, Phases
<1>3. ran' \in Seq([uri : 1 .. MaxMessages + 1, method : {"target", "operation"},
                    raised : BOOLEAN])
  <2> DEFINE Runs == [uri : 1 .. MaxMessages + 1, method : {"target", "operation"},
                      raised : BOOLEAN]
  <2>1. ran \in Seq(Runs)
    BY <1>2 DEF TypeOK
  <2>2. CASE OperationMissing
    BY <2>1, <2>2 DEF OperationMissing
  <2>3. CASE BlockLeaves
    <3>1. read \in Seq([kind : Kinds \cup {"flex"}, uri : 1 .. MaxMessages + 1])
      BY <1>2 DEF TypeOK
    <3>2. read[next] \in [kind : Kinds \cup {"flex"}, uri : 1 .. MaxMessages + 1]
      BY <3>1, <1>1, Elements
    <3>3. [uri |-> At.uri, method |-> MethodOf(At.kind), raised |-> FALSE] \in Runs
      BY <3>2 DEF At, MethodOf
    <3>4. ran' = Append(ran, [uri |-> At.uri, method |-> MethodOf(At.kind), raised |-> FALSE])
      BY <2>3 DEF BlockLeaves, Dispatch
    <3> QED BY <2>1, <3>3, <3>4, Appended
  <2> QED BY <2>2, <2>3
<1>4. TypeOK'
  BY <1>1, <1>2, <1>3 DEF TypeOK
<1>5. Numbered' /\ ReadAsSent' /\ Phases' /\ AnsweredSoFar' /\ Returned'
  BY <1>1, <1>2
  DEF RemotingInv, Numbered, ReadAsSent, Phases, AnsweredSoFar, Returned
<1>6. FirstTry'
  BY <1>1, <1>2 DEF FirstTry, GivenUp
<1> QED BY <1>4, <1>5, <1>6 DEF RemotingInv

LEMMA ConstructStep == RemotingInv /\ Construct => RemotingInv'
<1> SUFFICES ASSUME RemotingInv, Construct PROVE RemotingInv'
  OBVIOUS
<1>1. /\ stat = "loop" /\ next = Len(read) + 1 /\ constructed' = TRUE /\ stat' = "respond"
      /\ UNCHANGED <<version, call_type, request, read, next, messages, tries, ran, received,
                     result>>
  BY DEF Construct, Done, requestVars
<1>2. TypeOK'
  BY <1>1 DEF RemotingInv, TypeOK
<1>3. Numbered' /\ ReadAsSent' /\ Phases' /\ AnsweredSoFar' /\ Returned'
  BY <1>1 DEF RemotingInv, Numbered, ReadAsSent, Phases, AnsweredSoFar, Returned
<1>4. FirstTry'
  BY <1>1 DEF RemotingInv, FirstTry, GivenUp, Outcome
<1> QED BY <1>2, <1>3, <1>4 DEF RemotingInv

LEMMA RespondStep == RemotingInv /\ Respond => RemotingInv'
<1> SUFFICES ASSUME RemotingInv, Respond PROVE RemotingInv'
  OBVIOUS
<1>1. /\ stat = "respond" /\ stat' = "over"
      /\ received' = [k \in DOMAIN messages |-> [messages[k] EXCEPT !.data = ReadBack(@)]]
      /\ result' = [k \in DOMAIN messages |-> ResultOf(ReadBack(messages[k].data))]
      /\ UNCHANGED <<version, call_type, request, read, next, messages, constructed, tries, ran>>
  BY DEF Respond, requestVars, responseVars
<1>2. messages \in Seq(Answers) /\ TypeOK
  BY DEF RemotingInv, TypeOK
<1>3. /\ Len(messages) \in Nat /\ DOMAIN messages = 1 .. Len(messages)
      /\ \A k \in DOMAIN messages : messages[k] \in Answers
  BY <1>2, Elements
<1>4. \A a \in Answers : /\ [a EXCEPT !.data = ReadBack(a.data)] \in Answers
                         /\ [a EXCEPT !.data = ReadBack(a.data)].uri = a.uri
                         /\ [a EXCEPT !.data = ReadBack(a.data)].on = a.on
                         /\ ResultOf(ReadBack(a.data)) \in {"value", "hash", "nil"}
  BY DEF Answers, ReadBack, ResultOf
<1>5. /\ received' \in [1 .. Len(messages) -> Answers]
      /\ result' \in [1 .. Len(messages) -> {"value", "hash", "nil"}]
      /\ \A k \in DOMAIN messages :
           received'[k].uri = messages[k].uri /\ received'[k].on = messages[k].on
  BY <1>1, <1>3, <1>4
<1>6. /\ received' \in Seq(Answers) /\ Len(received') = Len(messages)
      /\ result' \in Seq({"value", "hash", "nil"})
  BY <1>3, <1>5, FromFunction
<1>7. TypeOK'
  BY <1>1, <1>2, <1>6 DEF TypeOK
<1>8. Returned'
  BY <1>1, <1>5, <1>6 DEF Returned
<1>9. Numbered' /\ ReadAsSent' /\ Phases' /\ AnsweredSoFar'
  BY <1>1 DEF RemotingInv, Numbered, ReadAsSent, Phases, AnsweredSoFar
<1>10. FirstTry'
  BY <1>1 DEF RemotingInv, FirstTry, GivenUp, Outcome
<1> QED BY <1>7, <1>8, <1>9, <1>10 DEF RemotingInv

LEMMA RemotingStep == RemotingInv /\ [Next]_vars => RemotingInv'
<1>1. CASE UNCHANGED vars
  BY <1>1
  DEF vars, requestVars, responseVars, RemotingInv, TypeOK, Numbered, ReadAsSent, Phases,
      AnsweredSoFar, FirstTry, GivenUp, Outcome, Returned
<1> QED
  BY <1>1, ClientStep, SendStep, EachStep, IterationStep, EscapeStep, ConstructStep, RespondStep
  DEF Next, Gateway

\* RemotingInv holds in every state.
THEOREM RemotingInvariant == Spec => []RemotingInv
BY RemotingInit, RemotingStep, PTL DEF Spec

-----------------------------------------------------------------------------
(***************************************************************************)
(* The properties.                                                         *)
(***************************************************************************)

\* Every variable of an exchange has its type.
THEOREM RemotingTypes == Spec => []TypeOK
<1>1. RemotingInv => TypeOK
  BY DEF RemotingInv
<1> QED BY <1>1, RemotingInvariant, PTL

\* Envelope#call and call_flex never give a response URI twice.
THEOREM NoUriTwice == Spec => []UrisDistinct
<1>1. RemotingInv => UrisDistinct
  <2> SUFFICES ASSUME RemotingInv, NEW i \in DOMAIN request, NEW j \in DOMAIN request, i # j
               PROVE  request[i].uri # request[j].uri
    BY DEF UrisDistinct
  <2>1. Numbered /\ DOMAIN request = 1 .. Len(request) /\ Len(request) \in Nat
    BY Elements DEF RemotingInv, TypeOK
  <2>2. call_type # "flex"
    BY <2>1 DEF Numbered
  <2> QED BY <2>1, <2>2 DEF Numbered
<1> QED BY <1>1, RemotingInvariant, PTL

\* A response that counts as constructed has an answer to every message of the
\* request, however often each_method_call was left before.
THEOREM ResponsesComplete == Spec => []ConstructedComplete
<1>1. RemotingInv => ConstructedComplete
  <2> SUFFICES ASSUME RemotingInv, constructed PROVE
                 /\ Len(messages) >= Len(read)
                 /\ \A k \in DOMAIN read : messages[Len(messages) - Len(read) + k].uri = read[k].uri
    BY DEF ConstructedComplete
  <2>1. next = Len(read) + 1 /\ stat \in {"respond", "over"}
    BY DEF RemotingInv, Phases
  <2>2. Len(read) \in Nat /\ DOMAIN read = 1 .. Len(read) /\ next - 1 = Len(read)
    BY <2>1, Elements DEF RemotingInv, TypeOK
  <2> QED BY <2>1, <2>2 DEF RemotingInv, AnsweredSoFar
<1> QED BY <1>1, RemotingInvariant, PTL

\* What the application did for a call and whether it raised is what the
\* client is told of that call.
THEOREM FaultsComeBack == Spec => []FaultsReturned
<1>1. RemotingInv => FaultsReturned
  <2> SUFFICES ASSUME RemotingInv, stat = "over", ~GivenUp, NEW i \in DOMAIN ran
               PROVE  \E k \in DOMAIN received :
                        received[k].uri = ran[i].uri
                        /\ (received[k].on = "onStatus" <=> ran[i].raised)
    BY DEF FaultsReturned
  <2>1. Outcome(i, messages)
    BY DEF RemotingInv, FirstTry
  <2>2. PICK k \in DOMAIN messages : /\ messages[k].uri = ran[i].uri
                                     /\ messages[k].on = "onStatus" <=> ran[i].raised
    BY <2>1 DEF Outcome
  <2>3. k \in DOMAIN received /\ received[k].uri = messages[k].uri /\ received[k].on = messages[k].on
    <3>1. DOMAIN messages = 1 .. Len(messages) /\ DOMAIN received = 1 .. Len(received)
      BY Elements DEF RemotingInv, TypeOK
    <3> QED BY <3>1 DEF RemotingInv, Returned
  <2> QED BY <2>2, <2>3
<1> QED BY <1>1, RemotingInvariant, PTL

-----------------------------------------------------------------------------
(***************************************************************************)
(* An exchange implements RemoteCalls.                                     *)
(***************************************************************************)
Asked(msgs) == [k \in DOMAIN msgs |-> msgs[k].uri]
OutcomeOf(answer) ==
  [caller |-> answer.uri, outcome |-> IF answer.on = "onStatus" THEN "fault" ELSE "result"]

LEMMA NothingAsked == Asked(<<>>) = <<>> /\ OutcomesOf(<<>>) = <<>>
BY DEF Asked, OutcomesOf

LEMMA AskedMore ==
  ASSUME NEW K, NEW U, NEW s \in Seq([kind : K, uri : U]), NEW m \in [kind : K, uri : U]
  PROVE  Asked(Append(s, m)) = Append(Asked(s), m.uri)
<1>1. /\ Len(s) \in Nat /\ DOMAIN s = 1 .. Len(s)
      /\ \A k \in DOMAIN s : s[k] \in [kind : K, uri : U]
  BY Elements
<1>2. Asked(s) \in [1 .. Len(s) -> U]
  BY <1>1 DEF Asked
<1>3. Asked(s) \in Seq(U) /\ Len(Asked(s)) = Len(s)
  BY <1>1, <1>2, FromFunction
<1>4. m.uri \in U
  OBVIOUS
<1> DEFINE t == Append(s, m)
<1>5. /\ DOMAIN t = 1 .. Len(s) + 1 /\ t[Len(s) + 1] = m
      /\ \A k \in 1 .. Len(s) : t[k] = s[k]
  BY Appended
<1> DEFINE w == Append(Asked(s), m.uri)
<1>6. /\ w \in Seq(U) /\ Len(w) = Len(s) + 1 /\ DOMAIN w = 1 .. Len(s) + 1
      /\ w[Len(s) + 1] = m.uri /\ \A k \in 1 .. Len(s) : w[k] = Asked(s)[k]
  BY <1>3, <1>4, Appended
<1>7. \A k \in 1 .. Len(s) : Asked(s)[k] = s[k].uri
  BY <1>1 DEF Asked
<1> HIDE DEF t, w
<1>8. \A k \in 1 .. Len(s) + 1 : t[k].uri = w[k]
  <2> SUFFICES ASSUME NEW k \in 1 .. Len(s) + 1 PROVE t[k].uri = w[k]
    OBVIOUS
  <2>1. k \in 1 .. Len(s) \/ k = Len(s) + 1
    BY <1>1
  <2> QED BY <2>1, <1>5, <1>6, <1>7
<1>9. Asked(t) = [k \in 1 .. Len(s) + 1 |-> w[k]]
  BY <1>5, <1>8 DEF Asked
<1>10. w = [k \in 1 .. Len(s) + 1 |-> w[k]]
  BY <1>6
<1> QED BY <1>9, <1>10 DEF t, w

LEMMA PerformedMore ==
  ASSUME NEW s \in Seq(Answers), NEW a \in Answers
  PROVE  OutcomesOf(Append(s, a)) = Append(OutcomesOf(s), OutcomeOf(a))
<1> DEFINE O == {OutcomeOf(b) : b \in Answers}
<1>1. /\ Len(s) \in Nat /\ DOMAIN s = 1 .. Len(s) /\ \A k \in DOMAIN s : s[k] \in Answers
  BY Elements
<1>2. OutcomesOf(s) = [k \in 1 .. Len(s) |-> OutcomeOf(s[k])]
  BY <1>1 DEF OutcomesOf, OutcomeOf
<1>3. OutcomesOf(s) \in [1 .. Len(s) -> O]
  BY <1>1, <1>2
<1>4. OutcomesOf(s) \in Seq(O) /\ Len(OutcomesOf(s)) = Len(s)
  BY <1>1, <1>3, FromFunction
<1>5. OutcomeOf(a) \in O
  OBVIOUS
<1> DEFINE t == Append(s, a)
<1>6. /\ DOMAIN t = 1 .. Len(s) + 1 /\ t[Len(s) + 1] = a
      /\ \A k \in 1 .. Len(s) : t[k] = s[k]
  BY Appended
<1> DEFINE w == Append(OutcomesOf(s), OutcomeOf(a))
<1> HIDE DEF O
<1>7. /\ w \in Seq(O) /\ DOMAIN w = 1 .. Len(s) + 1
      /\ w[Len(s) + 1] = OutcomeOf(a) /\ \A k \in 1 .. Len(s) : w[k] = OutcomesOf(s)[k]
  BY <1>4, <1>5, Appended
<1>8. \A k \in 1 .. Len(s) : OutcomesOf(s)[k] = OutcomeOf(s[k])
  BY <1>2
<1> HIDE DEF t, w
<1>9. \A k \in 1 .. Len(s) + 1 : OutcomeOf(t[k]) = w[k]
  <2> SUFFICES ASSUME NEW k \in 1 .. Len(s) + 1 PROVE OutcomeOf(t[k]) = w[k]
    OBVIOUS
  <2>1. k \in 1 .. Len(s) \/ k = Len(s) + 1
    BY <1>1
  <2> QED BY <2>1, <1>6, <1>7, <1>8
<1>10. OutcomesOf(t) = [k \in 1 .. Len(s) + 1 |-> OutcomeOf(t[k])]
  BY <1>6 DEF OutcomesOf, OutcomeOf
<1>11. OutcomesOf(t) = [k \in 1 .. Len(s) + 1 |-> w[k]]
  BY <1>9, <1>10
<1>12. w = [k \in 1 .. Len(s) + 1 |-> w[k]]
  BY <1>7
<1> QED BY <1>11, <1>12 DEF t, w

LEMMA PromiseInit == Init => Promise!Init
BY NothingAsked DEF Init, Promise!Init, Asked, GivenUp

\* A message is asked for.
LEMMA AskImplements ==
  ASSUME RemotingInv, RemotingInv', NEW kind \in Kinds, NEW uri \in 1 .. MaxMessages + 1,
         Ask(kind, uri)
  PROVE  Promise!Ask(uri)
<1>1. /\ stat = "build" /\ request' = Append(request, [kind |-> kind, uri |-> uri])
      /\ UNCHANGED <<messages, received, stat, tries>>
  BY DEF Ask, responseVars
<1>2. messages = <<>> /\ received = <<>> /\ tries = 0
  BY <1>1 DEF RemotingInv, ReadAsSent, Phases
<1>3. request \in Seq([kind : Kinds, uri : 1 .. MaxMessages + 1])
  BY DEF RemotingInv, TypeOK
<1>4. [kind |-> kind, uri |-> uri] \in [kind : Kinds, uri : 1 .. MaxMessages + 1]
  OBVIOUS
<1>5. Asked(request') = Append(Asked(request), uri)
  <2> DEFINE m == [kind |-> kind, uri |-> uri]
  <2>1. m.uri = uri
    OBVIOUS
  <2>2. request' = Append(request, m) /\ m \in [kind : Kinds, uri : 1 .. MaxMessages + 1]
    BY <1>1, <1>4
  <2> HIDE DEF m
  <2> DEFINE U == 1 .. MaxMessages + 1
  <2>3. request \in Seq([kind : Kinds, uri : U]) /\ m \in [kind : Kinds, uri : U]
    BY <1>3, <2>2
  <2> HIDE DEF U
  <2>4. Asked(Append(request, m)) = Append(Asked(request), m.uri)
    BY <2>3, AskedMore, SMT
  <2> QED BY <2>1, <2>2, <2>4
<1>6. \A k \in DOMAIN request : request[k].uri # uri
  <2>1. Len(request) \in Nat /\ DOMAIN request = 1 .. Len(request)
    BY <1>3, Elements
  <2>2. /\ DOMAIN request' = 1 .. Len(request) + 1
        /\ request'[Len(request) + 1].uri = uri
        /\ \A k \in 1 .. Len(request) : request'[k] = request[k]
    BY <1>1, <1>3, <1>4, Appended
  <2>3. Len(request') = Len(request) + 1
    BY <1>1, <1>3, <1>4, Appended
  <2>4. \A k \in DOMAIN request' : request'[k].uri = IF call_type' = "flex" THEN 2 ELSE k
    BY DEF RemotingInv, Numbered
  <2>5. call_type' = "flex" => Len(request') = 1
    BY DEF RemotingInv, Numbered
  <2> SUFFICES ASSUME NEW k \in DOMAIN request PROVE request[k].uri # uri
    OBVIOUS
  <2>6. call_type' # "flex"
    BY <2>1, <2>3, <2>5
  <2>7. request[k].uri = k /\ uri = Len(request) + 1
    BY <2>1, <2>2, <2>4, <2>6
  <2> QED BY <2>7, <2>1
<1> QED
  BY <1>1, <1>2, <1>5, <1>6, NothingAsked DEF Promise!Ask, Asked, GivenUp

\* An iteration ends with an answer.
LEMMA AnswerImplements ==
  ASSUME RemotingInv, RemotingInv', stat = "loop", next \in DOMAIN read,
         NEW data \in {"value", "acknowledge", "error"}, Answer(data)
  PROVE  Promise!Next
<1> DEFINE a == [uri |-> At.uri, on |-> StatusOf(data), data |-> data]
<1>1. /\ messages' = Append(messages, a)
      /\ UNCHANGED <<request, read, received, stat, tries>>
  BY DEF Answer, requestVars
<1>2. GivenUp' = GivenUp
  BY <1>1 DEF GivenUp
<1>3. Asked(request)' = Asked(request) /\ OutcomesOf(received)' = OutcomesOf(received)
  BY <1>1 DEF Asked, OutcomesOf
<1>4. CASE GivenUp
  BY <1>2, <1>3, <1>4 DEF Promise!Next, Promise!Anything, Asked
<1>5. CASE ~GivenUp
  <2>1. /\ Len(messages) = next - 1 /\ received = <<>>
        /\ Len(read) = Len(request) /\ read[next].uri = request[next].uri
    BY <1>5 DEF RemotingInv, FirstTry, Phases, ReadAsSent
  <2>2. /\ messages \in Seq(Answers) /\ DOMAIN read = 1 .. Len(read) /\ Len(read) \in Nat
        /\ DOMAIN request = 1 .. Len(request)
    BY Elements DEF RemotingInv, TypeOK
  <2>3. a \in Answers
    <3>1. read \in Seq([kind : Kinds \cup {"flex"}, uri : 1 .. MaxMessages + 1])
      BY DEF RemotingInv, TypeOK
    <3>2. read[next] \in [kind : Kinds \cup {"flex"}, uri : 1 .. MaxMessages + 1]
      BY <3>1, Elements
    <3> QED BY <3>2 DEF Answers, At, StatusOf
  <2>4. OutcomesOf(messages') = Append(OutcomesOf(messages), OutcomeOf(a))
    BY <1>1, <2>2, <2>3, PerformedMore
  <2>5. Len(OutcomesOf(messages)) = next - 1 /\ Len(Asked(request)) = Len(request)
    BY <2>1, <2>2, Elements DEF OutcomesOf, Asked
  <2>6. Asked(request)[next] = At.uri
    BY <2>1, <2>2 DEF Asked, At
  <2>7. PICK o \in {"result", "fault"} : OutcomeOf(a) = [caller |-> At.uri, outcome |-> o]
    BY DEF OutcomeOf, StatusOf
  <2>8. next - 1 + 1 = next /\ next - 1 < Len(request)
    BY <2>1, <2>2
  <2>9. Promise!Perform(o)
    <3>1. OutcomesOf(received) = <<>>
      BY <2>1, NothingAsked
    <3>2. OutcomesOf(messages)' = Append(OutcomesOf(messages),
            [caller |-> Asked(request)[Len(OutcomesOf(messages)) + 1], outcome |-> o])
      BY <2>4, <2>5, <2>6, <2>7, <2>8 DEF OutcomesOf
    <3>3. Len(OutcomesOf(messages)) < Len(Asked(request))
      BY <2>5, <2>8
    <3> QED BY <3>1, <3>2, <3>3, <1>2, <1>3 DEF Promise!Perform, Asked
  <2> QED BY <2>9 DEF Promise!Next, Promise!Outcomes
<1> QED BY <1>4, <1>5

LEMMA RespondImplements ==
  ASSUME RemotingInv, RemotingInv', Respond
  PROVE  Promise!Next
<1>1. /\ stat = "respond" /\ stat' = "over" /\ UNCHANGED <<request, messages, tries>>
  BY DEF Respond, requestVars, responseVars
<1>2. GivenUp' = GivenUp
  <2>1. tries \in Nat /\ tries # 0
    BY <1>1 DEF RemotingInv, TypeOK, Phases
  <2> QED BY <1>1 DEF GivenUp
<1>3. Asked(request)' = Asked(request) /\ OutcomesOf(messages)' = OutcomesOf(messages)
  BY <1>1 DEF Asked, OutcomesOf
<1>4. CASE GivenUp
  BY <1>2, <1>3, <1>4 DEF Promise!Next, Promise!Anything, Asked
<1>5. CASE ~GivenUp
  <2>1. received = <<>> /\ Len(messages) = next - 1 /\ next = Len(read) + 1
        /\ Len(read) = Len(request)
    BY <1>1, <1>5 DEF RemotingInv, Phases, FirstTry, ReadAsSent
  <2>2. /\ Len(messages) \in Nat /\ DOMAIN messages = 1 .. Len(messages)
        /\ DOMAIN received' = 1 .. Len(received') /\ Len(read) \in Nat
        /\ Len(request) \in Nat /\ DOMAIN request = 1 .. Len(request)
    BY Elements DEF RemotingInv, TypeOK
  <2>3. /\ Len(received') = Len(messages)
        /\ \A k \in DOMAIN messages :
             received'[k].uri = messages[k].uri /\ received'[k].on = messages[k].on
    BY <1>1 DEF RemotingInv, Returned
  <2>4. OutcomesOf(received') = OutcomesOf(messages)
    BY <2>2, <2>3 DEF OutcomesOf
  <2>5. Len(OutcomesOf(messages)) = Len(messages) /\ Len(Asked(request)) = Len(request)
    BY <2>2 DEF OutcomesOf, Asked
  <2>6. Len(OutcomesOf(messages)) = Len(Asked(request))
    BY <2>1, <2>2, <2>5
  <2>7. OutcomesOf(received) = <<>> /\ OutcomesOf(received)' = OutcomesOf(messages)
    BY <2>1, <2>4, NothingAsked DEF OutcomesOf
  <2>8. Promise!Tell
    BY <2>6, <2>7, <1>2, <1>3 DEF Promise!Tell, Asked
  <2> QED BY <2>8 DEF Promise!Next
<1> QED BY <1>4, <1>5

\* The loop is entered or left, or the request is sent: nothing that a caller
\* could see, except that the gateway may have given up.
LEMMA QuietImplements ==
  ASSUME RemotingInv,
         Send \/ EachMethodCall \/ BlockLeaves \/ OperationMissing \/ Construct \/ UNCHANGED vars
  PROVE  Promise!GiveUp \/ UNCHANGED Promise!vars
<1>1. UNCHANGED <<request, messages, received>>
  BY DEF Send, EachMethodCall, BlockLeaves, OperationMissing, Construct, Escape, Dispatch,
         requestVars, responseVars, vars
<1>2. /\ Asked(request)' = Asked(request) /\ OutcomesOf(messages)' = OutcomesOf(messages)
      /\ OutcomesOf(received)' = OutcomesOf(received)
  BY <1>1 DEF Asked, OutcomesOf
<1>3. tries \in Nat /\ (tries = 0 => stat \in {"build", "idle"})
  BY DEF RemotingInv, TypeOK, Phases
<1>4. GivenUp => GivenUp'
  BY <1>3
  DEF GivenUp, Send, EachMethodCall, BlockLeaves, OperationMissing, Construct, Escape, Dispatch,
      InLoop, vars
<1>5. GivenUp' = GivenUp \/ (~GivenUp /\ GivenUp')
  BY <1>4 DEF GivenUp
<1> QED
  BY <1>2, <1>5 DEF Promise!GiveUp, Promise!vars, Asked

LEMMA PromiseStep ==
  RemotingInv /\ RemotingInv' /\ [Next]_vars => [Promise!Next]_(Promise!vars)
<1> SUFFICES ASSUME RemotingInv, RemotingInv', [Next]_vars
             PROVE  Promise!Next \/ UNCHANGED Promise!vars
  OBVIOUS
<1>1. Len(request) \in Nat
  BY DEF RemotingInv, TypeOK
<1>2. ASSUME NEW kind, NEW uri, Ask(kind, uri) PROVE Len(request) < MaxMessages
  BY <1>2 DEF Ask
<1>3. CASE Call \/ CallFlex \/ PlayerAsks
  <2>1. PICK kind \in Kinds, uri \in {2, Len(request) + 1} : Ask(kind, uri)
    BY <1>3 DEF Call, CallFlex, PlayerAsks, Kinds
  <2>2. uri \in 1 .. MaxMessages + 1
    BY <2>1, <1>1, <1>2, RemotingAssumption
  <2> QED BY <2>1, <2>2, AskImplements DEF Promise!Next
<1>4. CASE AnswerPing \/ RefuseCommand \/ BlockReturns \/ BlockRaises
  <2>1. stat = "loop" /\ next \in DOMAIN read
    BY <1>4 DEF AnswerPing, RefuseCommand, BlockReturns, BlockRaises, Dispatch, InLoop
  <2>2. \E data \in {"value", "acknowledge", "error"} : Answer(data)
    BY <1>4 DEF AnswerPing, RefuseCommand, BlockReturns, BlockRaises
  <2> QED BY <2>1, <2>2, AnswerImplements
<1>5. CASE Respond
  BY <1>5, RespondImplements
<1>6. CASE Send \/ EachMethodCall \/ BlockLeaves \/ OperationMissing \/ Construct \/ UNCHANGED vars
  BY <1>6, QuietImplements DEF Promise!Next
<1> QED BY <1>3, <1>4, <1>5, <1>6 DEF Next, Gateway

\* Every call is performed once, in order, and all the outcomes come back
\* together, unless the gateway gives up: each_method_call with everything
\* around it implements RemoteCalls.
THEOREM ExchangeKeepsPromise == Spec => CallsAnswered
<1>1. Spec => Promise!Spec
  BY PromiseInit, PromiseStep, RemotingInvariant, PTL DEF Spec, Promise!Spec
<1> QED BY <1>1 DEF CallsAnswered
=============================================================================
