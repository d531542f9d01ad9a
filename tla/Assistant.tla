----------------------------- MODULE Assistant -----------------------------
(***************************************************************************)
(* One turn of the help assistant: AiAssistantService.chat, a loop of      *)
(* calls to a language model that is given tools, and executeTool, which   *)
(* runs what the model asks for.  The model is outside the system: it may  *)
(* ask for any tool, also one it was not offered, and may fail.            *)
(***************************************************************************)
EXTENDS Naturals, Sequences, FiniteSets, SequencesExt

CONSTANTS
  Visitors,          \* signed-in users
  Guest,             \* a visitor who is not signed in
  MaxToolIterations, \* maxToolIterations
  MaxCalls           \* bound on the tools one answer of the model asks for

ASSUME AssistantAssumption ==
  Guest \notin Visitors /\ MaxToolIterations \in Nat \ {0} /\ MaxCalls \in Nat \ {0}

\* The tools, by how executeTool runs them.  "look_up" stands for find_airport
\* and get_hajj_umrah_package_details, whose errors are caught; "search" for
\* search_flights, search_hotels and search_hajj_umrah_packages.  A booking
\* status is asked for the booking of somebody.
Calls ==
  [tool : {"look_up", "search", "unknown"}, owner : {Guest}]
    \cup [tool : {"booking_status"}, owner : Visitors]

VARIABLES
  visitor,   \* who asks
  turnStep,  \* "model", "tools" or "ended"
  rounds,    \* calls to the model that were answered with tools
  messages,  \* what the model will be sent, without the question and what came before it
  results,   \* toolResults of the answer the turn is at
  reply      \* "none", "answer", "unfinished" or "trouble"

chatVars == <<visitor, turnStep, rounds, messages, results, reply>>

ToolResults == [id : 1..MaxCalls, outcome : {"found", "notFound", "error"}, owner : Visitors \cup {Guest}]

ChatTypeOK ==
  /\ visitor \in Visitors \cup {Guest}
  /\ turnStep \in {"model", "tools", "ended"}
  /\ rounds \in 0..MaxToolIterations
  /\ \A i \in 1..Len(messages) :
       \/ messages[i].role = "assistant" /\ Len(messages[i].calls) <= MaxCalls
       \/ messages[i].role = "user" /\ Range(messages[i].results) \subseteq ToolResults
  /\ Range(results) \subseteq ToolResults
  /\ reply \in {"none", "answer", "unfinished", "trouble"}

ChatInit ==
  /\ visitor \in Visitors \cup {Guest}
  /\ turnStep = "model" /\ rounds = 0
  /\ messages = <<>> /\ results = <<>>
  /\ reply = "none"
-----------------------------------------------------------------------------
EndTurn(with) == turnStep' = "ended" /\ reply' = with

\* Mutant: the bound is checked after the call.
MayAskOnceMore == rounds <= MaxToolIterations
MayAsk == rounds < MaxToolIterations

\* messages.create answers with text (also when it was cut off): the reply.
ModelReplies ==
  /\ turnStep = "model" /\ MayAsk
  /\ EndTurn("answer")
  /\ UNCHANGED <<visitor, rounds, messages, results>>

ModelAsks(calls) ==
  /\ turnStep = "model" /\ MayAsk
  /\ turnStep' = "tools" /\ results' = <<>>
  /\ messages' = Append(messages, [role |-> "assistant", calls |-> calls])
  /\ UNCHANGED <<visitor, rounds, reply>>

ModelFails ==
  /\ turnStep = "model" /\ MayAsk
  /\ EndTurn("trouble")
  /\ UNCHANGED <<visitor, rounds, messages, results>>

GiveUp ==
  /\ turnStep = "model" /\ ~MayAsk
  /\ EndTurn("unfinished")
  /\ UNCHANGED <<visitor, rounds, messages, results>>
-----------------------------------------------------------------------------
AskedCalls == Last(messages).calls
NextTool == AskedCalls[Len(results) + 1]

\* Mutant: the booking is looked up by its reference alone.
FindsAnyBooking(owner) == visitor # Guest
\* findMyBookingByReference: of the visitor, whoever asks for whatever.
FindsBooking(owner) == visitor # Guest /\ owner = visitor

\* What executeTool may return.  A booking is not found also when nobody is
\* behind the account; a reference may be blank.
Outcomes(call) ==
  CASE call.tool = "look_up" -> {"found", "notFound", "error"}
    [] call.tool = "search" -> {"found", "notFound"}
    [] call.tool = "booking_status" ->
         IF visitor = Guest THEN {"error"}
         ELSE (IF FindsBooking(call.owner) THEN {"found"} ELSE {"error"}) \cup {"notFound"}
    [] OTHER -> {"error"}

ToolAnswers ==
  /\ turnStep = "tools" /\ Len(results) < Len(AskedCalls)
  /\ \E outcome \in Outcomes(NextTool) :
       results' = Append(results,
         [id |-> Len(results) + 1, outcome |-> outcome, owner |-> NextTool.owner])
  /\ UNCHANGED <<visitor, turnStep, rounds, messages, reply>>

\* "return this.runFlightSearch(input)" is not awaited in the try block of
\* executeTool: a rejection passes its catch block, whose comment promises a
\* result for every failure, and reaches the one of chat.
Unawaited(call) == call.tool = "search" \/ (call.tool = "booking_status" /\ visitor # Guest)

ToolThrows ==
  /\ turnStep = "tools" /\ Len(results) < Len(AskedCalls)
  /\ Unawaited(NextTool)
  /\ EndTurn("trouble")
  /\ UNCHANGED <<visitor, rounds, messages, results>>

\* Mutant: only what was found is handed back.
FoundOnly == SelectSeq(results, LAMBDA r : r.outcome # "error")
HandedBack == results

SendResults ==
  /\ turnStep = "tools" /\ Len(results) = Len(AskedCalls)
  /\ messages' = Append(messages, [role |-> "user", results |-> HandedBack])
  /\ rounds' = rounds + 1
  /\ turnStep' = "model" /\ results' = <<>>
  /\ UNCHANGED <<visitor, reply>>

ModelStep ==
  \/ ModelReplies \/ ModelFails \/ GiveUp
  \/ \E calls \in BoundedSeq(Calls, MaxCalls) \ {<<>>} : ModelAsks(calls)
ToolStep == ToolAnswers \/ ToolThrows \/ SendResults
ChatNext == ModelStep \/ ToolStep

\* The model and the tools answer, with a result or an error.
ChatFairness == WF_chatVars(ChatNext)
ChatSpec == ChatInit /\ [][ChatNext]_chatVars /\ ChatFairness
-----------------------------------------------------------------------------
(* Properties.                                                             *)

\* What the model's interface demands: whenever it is called, every answer in
\* which it asked for tools is followed by the results of all of them, in the
\* order of the calls, also of those that failed or do not exist.
EveryCallHasItsResult ==
  turnStep = "model" =>
    \A i \in 1..Len(messages) :
      messages[i].role = "assistant" =>
        /\ i < Len(messages) /\ messages[i + 1].role = "user"
        /\ Len(messages[i + 1].results) = Len(messages[i].calls)
        /\ \A k \in 1..Len(messages[i].calls) : messages[i + 1].results[k].id = k

\* "never lets one chat turn spin forever": the model is not called more often
\* than allowed, and a turn that is given up has used its calls.
AnswersWithCalls == {i \in 1..Len(messages) : messages[i].role = "assistant"}
TurnsAreBounded ==
  /\ Cardinality(AnswersWithCalls) <= MaxToolIterations
  /\ reply = "unfinished" => rounds = MaxToolIterations

\* "Never returns another traveler's booking", whatever reference the model
\* sends; and a guest is never told of any.
OwnBookingsOnly ==
  \A i \in 1..Len(messages) :
    messages[i].role = "user" =>
      \A r \in Range(messages[i].results) :
        r.owner # Guest /\ r.outcome = "found" => r.owner = visitor

ChatsSound == EveryCallHasItsResult /\ TurnsAreBounded /\ OwnBookingsOnly

\* Every question gets a reply.
ChatTurnsEnd == <>(turnStep = "ended")
=============================================================================
