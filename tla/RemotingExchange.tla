-------------------------- MODULE RemotingExchange --------------------------
(***************************************************************************)
(* One request and its response, from Envelope#call to Envelope#result.    *)
(* A client builds a request with RocketAMF, or is a Flash player that     *)
(* sends messages of its own; a gateway reads it, runs each_method_call    *)
(* with a block that belongs to the application, and sends the response.   *)
(*                                                                         *)
(* A message of the request is [kind, uri]: uri is the number in its       *)
(* response URI, and its kind is                                           *)
(*   simple     a call with a target URI and arguments                     *)
(*   message    such a call whose only argument is a RemotingMessage       *)
(*   flex       a RemotingMessage with an operation                        *)
(*   unnamed    a RemotingMessage without one                              *)
(*   ping       a CommandMessage that asks for an AcknowledgeMessage       *)
(*   command    any other CommandMessage                                   *)
(* A message of the response is [uri, on, data]; data is a "value", an     *)
(* "acknowledge" message with a value inside or an "error" message.        *)
(***************************************************************************)
EXTENDS Naturals, Sequences, FiniteSets

CONSTANTS
  MaxMessages,   \* bound: the messages of a request
  MaxTries,      \* bound: how often the gateway calls each_method_call
  SimpleKinds,   \* what Envelope#call is used for: "simple", "message"
  FlexKinds,     \* what call_flex is used for: "flex", "unnamed" (an empty target)
  PlayerKinds,   \* what a Flash player sends
  Leaves         \* TRUE: the application's block may break or throw

ASSUME RemotingAssumption ==
  /\ MaxMessages \in Nat \ {0} /\ MaxTries \in Nat \ {0}
  /\ SimpleKinds \subseteq {"simple", "message"}
  /\ FlexKinds \subseteq {"flex", "unnamed"}
  /\ PlayerKinds \subseteq {"simple", "message", "flex", "unnamed", "ping", "command"}
  /\ Leaves \in BOOLEAN

VARIABLES
  version,      \* @amf_version of the request
  call_type,    \* @call_type of the request: "nil", "simple" or "flex"; or "player"
  request,      \* the messages of the request
  read,         \* the messages of the request as the gateway has read them
  next,         \* the message that each_method_call is at
  messages,     \* the messages of the response
  constructed,  \* @constructed of the response
  stat,         \* "build", "idle", "loop", "respond" or "over"
  tries,        \* the calls of each_method_call
  ran,          \* what the block was called for: [uri, method, raised]
  received,     \* the messages of the response as the client has read them
  result        \* what Envelope#result returned: a sequence

requestVars == <<version, call_type, request>>
responseVars == <<messages, constructed, ran>>
vars == <<version, call_type, request, read, next, messages, constructed, stat, tries,
          ran, received, result>>

Kinds == SimpleKinds \cup FlexKinds \cup PlayerKinds

Init ==
  /\ version \in {0, 1, 3} /\ call_type = "nil" /\ request = <<>>
  /\ read = <<>> /\ next = 1 /\ messages = <<>> /\ constructed = FALSE
  /\ stat = "build" /\ tries = 0 /\ ran = <<>>
  /\ received = <<>> /\ result = <<>>

-----------------------------------------------------------------------------
\* The client.
Ask(kind, uri) ==
  /\ stat = "build" /\ Len(request) < MaxMessages
  /\ request' = Append(request, [kind |-> kind, uri |-> uri])
  /\ UNCHANGED <<version, read, next, responseVars, stat, tries, received, result>>

MaySimpleAlways == call_type # "player"
MaySimple == call_type \in {"nil", "simple"}
MayFlex == call_type = "nil" /\ version = 3

\* Envelope#call
Call ==
  /\ MaySimple
  /\ call_type' = "simple"
  /\ \E kind \in SimpleKinds : Ask(kind, Len(request) + 1)

\* Envelope#call_flex; its response URI is always /2.
CallFlex ==
  /\ MayFlex
  /\ call_type' = "flex"
  /\ \E kind \in FlexKinds : Ask(kind, 2)

\* A Flash player numbers its messages itself.
PlayerAsks ==
  /\ call_type \in {"nil", "player"}
  /\ call_type' = "player"
  /\ \E kind \in PlayerKinds : Ask(kind, Len(request) + 1)

\* What populate_from_stream makes of a message: an array of a single message
\* is taken for the wrapper that Flash puts around flex messages.
Unwrap(kind) == IF kind = "message" THEN "flex" ELSE kind

\* serialize, and populate_from_stream at the gateway.
Send ==
  /\ stat = "build" /\ request # <<>>
  /\ read' = [k \in DOMAIN request |-> [request[k] EXCEPT !.kind = Unwrap(@)]]
  /\ stat' = "idle"
  /\ UNCHANGED <<requestVars, next, responseVars, tries, received, result>>

-----------------------------------------------------------------------------
\* The gateway.

\* each_method_call is entered; it raises if there is a response already.
EachMethodCall ==
  /\ stat = "idle" /\ ~constructed /\ tries < MaxTries
  /\ stat' = "loop" /\ next' = 1 /\ tries' = tries + 1
  /\ UNCHANGED <<requestVars, read, responseVars, received, result>>

At == read[next]
InLoop(kinds) == stat = "loop" /\ next \in DOMAIN read /\ At.kind \in kinds

AlwaysResult(data) == "onResult"
StatusOf(data) == IF data = "error" THEN "onStatus" ELSE "onResult"

\* The end of an iteration.
Answer(data) ==
  /\ messages' = Append(messages, [uri |-> At.uri, on |-> StatusOf(data), data |-> data])
  /\ next' = next + 1
  /\ UNCHANGED <<requestVars, read, constructed, stat, tries, received, result>>

\* CommandMessages never reach the application.
AnswerPing == InLoop({"ping"}) /\ Answer("acknowledge") /\ UNCHANGED ran
RefuseCommand == InLoop({"command"}) /\ Answer("error") /\ UNCHANGED ran

MethodOf(kind) == IF kind = "flex" THEN "operation" ELSE "target"
Dispatch(raised) ==
  /\ InLoop({"simple", "message", "flex"})
  /\ ran' = Append(ran, [uri |-> At.uri, method |-> MethodOf(At.kind), raised |-> raised])

\* The block returns: its value, inside an AcknowledgeMessage for flex calls.
BlockReturns ==
  /\ Dispatch(FALSE)
  /\ Answer(IF At.kind = "flex" THEN "acknowledge" ELSE "value")

\* The block raises, or returns an ErrorMessage, which stays bare.
BlockRaises == Dispatch(TRUE) /\ Answer("error")

Escape ==
  /\ stat' = "idle"
  /\ UNCHANGED <<requestVars, read, next, messages, constructed, tries, received, result>>

\* "rescue Exception" catches neither break nor throw.
BlockLeaves == Leaves /\ Dispatch(FALSE) /\ Escape

\* method_base + nil raises before dispatch_call is there to rescue it.
OperationMissing == InLoop({"unnamed"}) /\ Escape /\ UNCHANGED ran

\* The loop is done.
AllButOne == next = Len(read)
Done == next = Len(read) + 1
Construct ==
  /\ stat = "loop" /\ Done
  /\ constructed' = TRUE /\ stat' = "respond"
  /\ UNCHANGED <<requestVars, read, next, messages, tries, ran, received, result>>

-----------------------------------------------------------------------------
\* serialize at the gateway, populate_from_stream at the client and result.
\* In AMF0 an ErrorMessage is written as a hash; otherwise it is an
\* AcknowledgeMessage like any other for result, whose body is nil.
ReadBack(data) == IF data = "error" /\ version # 3 THEN "hash" ELSE data
ResultAsIs(data) == data
ResultOf(data) ==
  IF data = "error" THEN "nil" ELSE IF data = "acknowledge" THEN "value" ELSE data

Respond ==
  /\ stat = "respond"
  /\ received' = [k \in DOMAIN messages |-> [messages[k] EXCEPT !.data = ReadBack(@)]]
  /\ result' = [k \in DOMAIN messages |-> ResultOf(ReadBack(messages[k].data))]
  /\ stat' = "over"
  /\ UNCHANGED <<requestVars, read, next, responseVars, tries>>

Gateway ==
  \/ EachMethodCall \/ AnswerPing \/ RefuseCommand \/ BlockReturns \/ BlockRaises
  \/ BlockLeaves \/ OperationMissing \/ Construct \/ Respond

Next == Call \/ CallFlex \/ PlayerAsks \/ Send \/ Gateway

Spec == Init /\ [][Next]_vars

\* Once a request is there, nothing else is waited for; every block returns.
FairSpec == Spec /\ WF_vars(Gateway)

-----------------------------------------------------------------------------
Answers ==
  [uri : 1 .. MaxMessages + 1, on : {"onResult", "onStatus"},
   data : {"value", "acknowledge", "error", "hash"}]

\* Every variable has its type.
TypeOK ==
  /\ version \in {0, 1, 3} /\ call_type \in {"nil", "simple", "flex", "player"}
  /\ request \in Seq([kind : Kinds, uri : 1 .. MaxMessages + 1])
  /\ read \in Seq([kind : Kinds \cup {"flex"}, uri : 1 .. MaxMessages + 1])
  /\ next \in 1 .. Len(read) + 1
  /\ messages \in Seq(Answers) /\ received \in Seq(Answers)
  /\ constructed \in BOOLEAN
  /\ stat \in {"build", "idle", "loop", "respond", "over"}
  /\ tries \in 0 .. MaxTries
  /\ ran \in Seq([uri : 1 .. MaxMessages + 1, method : {"target", "operation"},
                  raised : BOOLEAN])
  /\ result \in Seq({"value", "hash", "nil"})

\* The client finds the caller of every answer by its URI: no two messages of
\* a request have the same, whether call or call_flex gave it.
UrisDistinct ==
  \A i, j \in DOMAIN request : i # j => request[i].uri # request[j].uri

\* each_method_call has been left by a break, a throw or an error.
GivenUp == tries > 1 \/ (tries = 1 /\ stat = "idle")

\* Every exception of the application, and nothing else that it did, comes
\* back to the client as the fault of the call that caused it.
FaultsReturned ==
  (stat = "over" /\ ~GivenUp) =>
    \A i \in DOMAIN ran : \E k \in DOMAIN received :
      received[k].uri = ran[i].uri /\ (received[k].on = "onStatus" <=> ran[i].raised)

\* A response is constructed with an answer to each message, in order, however
\* often each_method_call was left before.
ConstructedComplete ==
  constructed =>
    /\ Len(messages) >= Len(read)
    /\ \A k \in DOMAIN read : messages[Len(messages) - Len(read) + k].uri = read[k].uri

\* RemotingExchange implements RemoteCalls: every call is performed once, in
\* order, and all the outcomes come back together, unless the gateway gives up.
OutcomesOf(answers) ==
  [k \in DOMAIN answers |->
     [caller |-> answers[k].uri,
      outcome |-> IF answers[k].on = "onStatus" THEN "fault" ELSE "result"]]

Promise ==
  INSTANCE RemoteCalls WITH
    Callers <- 1 .. MaxMessages + 1,
    asked <- [k \in DOMAIN request |-> request[k].uri],
    performed <- OutcomesOf(messages),
    told <- OutcomesOf(received),
    given_up <- GivenUp

CallsAnswered == Promise!Spec

\* Every request gets its response, or is given up.
Responded == (stat = "idle" /\ ~GivenUp) ~> (stat = "over" \/ GivenUp)

-----------------------------------------------------------------------------
(***************************************************************************)
(* Statements the repository makes that the code does not keep; README.md  *)
(* gives the instances that refute them.                                   *)
(***************************************************************************)

\* each_method_call catches the errors of the messages it handles.
ErrorsCaught == stat = "idle" => tries = 0

\* The response of a request is constructed only once.
AnsweredOnce ==
  \A i, j \in DOMAIN messages : i # j => messages[i].uri # messages[j].uri

\* The wrapper is removed of the calls of the flex remoting APIs.
OnlyFlexUnwrapped ==
  \A k \in DOMAIN read : read[k].kind # request[k].kind => request[k].kind \in FlexKinds

\* result unwraps results; an error is not taken for one.
FaultsInResult ==
  \A k \in DOMAIN result : received[k].on = "onStatus" => result[k] # "nil"
=============================================================================
