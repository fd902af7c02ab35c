------------------------------- MODULE ChatLoop -------------------------------
(***************************************************************************)
(* The chat (internal/ui/chat.go with the script of chat.templ). The page  *)
(* keeps the conversation and sends all of it with every message; the      *)
(* server keeps nothing, and runs the tools a model asks for, in turns,    *)
(* until the model answers in words.                                       *)
(***************************************************************************)
EXTENDS Naturals, Sequences

CONSTANTS
  Tools,       \* the tools there are
  NoSuchTool,  \* a name a model may call all the same
  MaxTurns,    \* maxTurns
  MaxCalls,    \* bound: calls of one message of the model
  MaxExchanges \* bound: messages the page's conversation holds, halved

ASSUME ToolsAssumption == NoSuchTool \notin Tools
ASSUME TurnsAssumption == MaxTurns \in Nat \ {0} /\ MaxCalls \in Nat /\ MaxExchanges \in Nat

VARIABLES
  conversation, \* the page: what was said, as the model will read it
  stream,       \* the page's request: none, under way, or what it received
  messages,     \* the request to the model, as it grows
  turn,         \* the turns taken, and
  calls         \*   the calls of this one that have no answer yet

chatVars == <<conversation, stream, messages, turn, calls>>

\* A message: who says it and, for the model, the calls it makes; for a tool,
\* the call it answers and whether the answer is an error's text.
Says(role) == [role |-> role]
Asks(ids) == [role |-> "assistant", ids |-> ids]
ToolAnswer(id, failed) == [role |-> "tool", id |-> id, failed |-> failed]

\* toolSchemas offers what DispatchTool knows.
toolSchemas == Tools
Calls == UNION {[1..n -> toolSchemas \cup {NoSuchTool}] : n \in 0..MaxCalls}
\* The id of a call is the model's, and new: the turn and the place.
Id(k) == <<turn, k>>

ChatTypeOK ==
  /\ Len(conversation) \in 0..(2 * MaxExchanges)
  /\ \A i \in DOMAIN conversation : conversation[i].role \in {"user", "assistant"}
  /\ stream \in {"none", "model", "tools", "written"}
  /\ \A i \in DOMAIN messages : messages[i].role \in {"system", "user", "assistant", "tool"}
  /\ turn \in 0..MaxTurns
  /\ Len(calls) \in 0..MaxCalls

ChatInit ==
  /\ conversation = <<>> /\ messages = <<>> /\ calls = <<>>
  /\ stream = "none" /\ turn = 0

(***************************************************************************)
(* The page                                                                *)
(***************************************************************************)
\* Input and button are disabled while an answer is awaited.
PageSend ==
  /\ stream = "none" /\ Len(conversation) < 2 * MaxExchanges
  /\ messages' = <<Says("system")>> \o conversation \o <<Says("user")>>
  /\ stream' = "model" /\ turn' = 0
  /\ UNCHANGED <<conversation, calls>>

\* The stream ended: question and answer are kept, be the answer the text of
\* an error or no text at all. It broke: neither is.
PageReceive ==
  /\ \/ /\ stream = "written"
        /\ conversation' = conversation \o <<Says("user"), Says("assistant")>>
     \/ stream # "none" /\ UNCHANGED conversation
  /\ stream' = "none" /\ messages' = <<>> /\ turn' = 0 /\ calls' = <<>>

\* The page is loaded anew: what was said is forgotten.
PageLoad ==
  /\ conversation # <<>>
  /\ conversation' = <<>> /\ stream' = "none" /\ messages' = <<>> /\ turn' = 0 /\ calls' = <<>>

(***************************************************************************)
(* The server                                                              *)
(***************************************************************************)
Reply == stream' = "written" /\ UNCHANGED <<conversation, messages, turn, calls>>

\* An error, no choice, or a finish reason other than tool calls ends it.
callLLM ==
  /\ stream = "model"
  /\ \/ Reply
     \/ \E asked \in Calls :
          /\ calls' = asked /\ stream' = "tools"
          /\ messages' = Append(messages, Asks([k \in DOMAIN asked |-> Id(k)]))
          /\ UNCHANGED <<conversation, turn>>

\* A name that is not there and a tool that fails are answered with their error.
dispatchTool(tool) == IF tool \in Tools THEN BOOLEAN ELSE {TRUE}

LastAsked == CHOOSE i \in DOMAIN messages :
  /\ messages[i].role = "assistant" /\ "ids" \in DOMAIN messages[i]
  /\ \A j \in DOMAIN messages : j > i => messages[j].role = "tool"

MutErrorUnanswered ==
  /\ stream = "tools" /\ calls # <<>>
  /\ \E failed \in dispatchTool(Head(calls)) :
       messages' = IF failed THEN messages
                   ELSE Append(messages, ToolAnswer(Id(Len(messages) - LastAsked + 1), failed))
  /\ calls' = Tail(calls)
  /\ UNCHANGED <<conversation, stream, turn>>

\* The calls are run one by one, in their order.
ExecuteTool ==
  /\ stream = "tools" /\ calls # <<>>
  /\ \E failed \in dispatchTool(Head(calls)) :
       messages' = Append(messages, ToolAnswer(Id(Len(messages) - LastAsked + 1), failed))
  /\ calls' = Tail(calls)
  /\ UNCHANGED <<conversation, stream, turn>>

\* All are answered. After the last turn the answers go nowhere.
NextTurn ==
  /\ stream = "tools" /\ calls = <<>>
  /\ turn' = turn + 1
  /\ stream' = (IF turn' < MaxTurns THEN "model" ELSE "written")
  /\ UNCHANGED <<conversation, messages, calls>>

-----------------------------------------------------------------------------
ChatNext ==
  \/ PageSend \/ PageReceive \/ PageLoad
  \/ callLLM \/ ExecuteTool \/ NextTurn

ChatSpec == ChatInit /\ [][ChatNext]_chatVars

-----------------------------------------------------------------------------
(***************************************************************************)
(* Properties                                                              *)
(***************************************************************************)

AsksTools(i) == messages[i].role = "assistant" /\ "ids" \in DOMAIN messages[i]

\* What an API of this kind demands of a transcript, whenever the model gets
\* it: every call of a message has one answer, with its id, in the messages
\* right after it, whatever became of the tool; nobody else answers; and a
\* question of the conversation is followed by what the page was answered,
\* errors and broken streams included.
EveryCallAnswered ==
  stream = "model" =>
    /\ \A i \in DOMAIN messages : AsksTools(i) =>
         \A k \in DOMAIN messages[i].ids :
           /\ i + k \in DOMAIN messages
           /\ messages[i + k].role = "tool" /\ messages[i + k].id = messages[i].ids[k]
    /\ \A i \in DOMAIN messages : messages[i].role = "tool" =>
         \E j \in 1..(i - 1) : AsksTools(j) /\ i <= j + Len(messages[j].ids)
    /\ \A i \in DOMAIN messages : messages[i].role = "user" =>
         i = Len(conversation) + 2 \/ messages[i + 1] = Says("assistant")
=============================================================================
