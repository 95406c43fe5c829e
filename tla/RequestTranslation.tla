------------------------- MODULE RequestTranslation -------------------------
(***************************************************************************)
(* llmtranslate.Request: a conversation in one format rewritten for an     *)
(* upstream of the other.  The conversation grows turn by turn, as an      *)
(* agent's does, and is translated whole on every request.  A text is a    *)
(* sequence of pieces; joining texts concatenates them.                    *)
(***************************************************************************)
EXTENDS Integers, Sequences, SequencesExt

CONSTANTS
  MaxMessages,   \* bound: messages of a conversation
  Calls          \* tool call ids, used in this order

VARIABLES
  from,      \* the caller's format
  messages   \* the conversation, in the caller's format

requestVars == <<from, messages>>

None == "none"
Text(pieces) == [type |-> "text", text |-> pieces]
Image == [type |-> "image"]
Document == [type |-> "document"]
Thinking == [type |-> "thinking"]
ToolUse(id) == [type |-> "tool_use", id |-> id]
ToolResult(id, pieces, isError) ==
  [type |-> "tool_result", id |-> id, text |-> pieces, isError |-> isError]
Blocks(role, content) == [role |-> role, content |-> content]
OpenAI(role, parts, calls, id) ==
  [role |-> role, parts |-> parts, calls |-> calls, id |-> id]

OfType(blocks, type) == SelectSeq(blocks, LAMBDA b : b.type = type)
MapSeq(seq, Op(_)) == [i \in 1..Len(seq) |-> Op(seq[i])]
Joined(blocks) == FlattenSeq(MapSeq(OfType(blocks, "text"), LAMBDA b : b.text))
IdsOf(blocks) == MapSeq(blocks, LAMBDA b : b.id)
OneText(blocks) == IF Joined(blocks) = <<>> THEN <<>> ELSE <<Text(Joined(blocks))>>

-----------------------------------------------------------------------------
(* Anthropic messages to OpenAI chat completions. *)

\* A tool result, a message of its own; is_error becomes part of the text.
ToolMessage(b) ==
  OpenAI("tool", <<Text((IF b.isError THEN <<"[error]">> ELSE <<>>) \o b.text)>>, <<>>, b.id)

\* anthropicMessageToOpenAI: tool results first, then one message for the rest;
\* thinking is dropped, a document is refused, plain text is joined.
AnthropicMessageToOpenAI(m) ==
  LET parts == SelectSeq(m.content, LAMBDA b : b.type \in {"text", "image"})
      results == MapSeq(OfType(m.content, "tool_result"), ToolMessage)
      rest == IF OfType(parts, "image") = <<>> THEN <<Text(Joined(parts))>> ELSE parts
  IN IF m.role = "assistant"
     THEN <<OpenAI("assistant", OneText(parts), IdsOf(OfType(m.content, "tool_use")), None)>>
     ELSE results \o (IF parts = <<>> THEN <<>> ELSE <<OpenAI(m.role, rest, <<>>, None)>>)

\* A document has no counterpart: the whole request is refused.
DocumentRefused(conv) ==
  \E i \in 1..Len(conv) : OfType(conv[i].content, "document") # <<>>

AnthropicToOpenAI(conv) == FlattenSeq(MapSeq(conv, AnthropicMessageToOpenAI))

\* tool_choice, with the parallel flag beside it in OpenAI's format.
ChoiceToOpenAI(c) ==
  [choice |-> CASE c.type = "any" -> "required" [] c.type = "tool" -> "function"
                [] OTHER -> c.type,
   serial |-> c.serial]

-----------------------------------------------------------------------------
(* OpenAI chat completions to Anthropic messages. *)

\* Mutant: a tool result starts a message of its own.
AppendUserApart(conv, blocks) == Append(conv, Blocks("user", blocks))

\* appendUser: consecutive user content merges into one message.
AppendUser(conv, blocks) ==
  IF conv # <<>> /\ Last(conv).role = "user"
  THEN [conv EXCEPT ![Len(conv)].content = @ \o blocks]
  ELSE Append(conv, Blocks("user", blocks))

\* openAIAssistantBlocks: the text, then a tool use for every call.
AssistantBlocks(m) == OneText(m.parts) \o MapSeq(m.calls, ToolUse)

\* openAIMessagesToAnthropic, one message: system text is lifted out.
AppendOpenAI(conv, m) ==
  CASE m.role = "system" -> conv
    [] m.role = "user" -> AppendUser(conv, m.parts)
    [] m.role = "tool" ->
         AppendUser(conv, <<ToolResult(m.id, Joined(m.parts), FALSE)>>)
    [] m.role = "assistant" ->
         Append(conv, Blocks("assistant", AssistantBlocks(m)))

\* Audio has no counterpart: the whole request is refused.
AudioRefused(conv) ==
  \E i \in 1..Len(conv) : OfType(conv[i].parts, "audio") # <<>>

OpenAIToAnthropic(conv) == FoldLeft(AppendOpenAI, <<>>, conv)

\* openAIToolChoiceToAnthropic: forbidding parallel calls needs a choice.
ChoiceToAnthropic(c) ==
  [type |-> CASE c.choice = "required" -> "any" [] c.choice = "function" -> "tool"
              [] c.choice = "absent" /\ c.serial -> "auto" [] OTHER -> c.choice,
   serial |-> c.serial]

-----------------------------------------------------------------------------
(* The conversations: the moves an agent's client makes.  No assistant     *)
(* message follows another, and none is empty but for thinking.            *)

\* Calls not answered yet: those of the last message, or of the assistant's
\* message the tool messages at the end follow.
UsesOf(m) ==
  IF from = "anthropic" THEN ToSet(IdsOf(OfType(m.content, "tool_use"))) ELSE ToSet(m.calls)
Used == UNION {UsesOf(messages[i]) : i \in 1..Len(messages)}
Answered ==
  IF from = "anthropic"
  THEN UNION {ToSet(IdsOf(OfType(messages[i].content, "tool_result"))) : i \in 1..Len(messages)}
  ELSE {messages[i].id : i \in {j \in 1..Len(messages) : messages[j].role = "tool"}}
Pending == SelectSeq(Calls, LAMBDA id : id \in Used \ Answered)
Fresh == SelectSeq(Calls, LAMBDA id : id \notin Used)

Say(m) == messages' = Append(messages, m) /\ UNCHANGED from
Room == Len(messages) < MaxMessages
Turn(role) == Room /\ (messages # <<>> => Last(messages).role # role)
NewCalls == {SubSeq(Fresh, 1, n) : n \in 0..Len(Fresh)}
P(n) == <<Len(messages), n>>    \* a piece of text no other has

\* An Anthropic user: the results of all pending calls, in either order, then
\* text, pictures or a document.
AnthropicUser ==
  /\ from = "anthropic" /\ Turn("user")
  /\ \E results \in {Pending, Reverse(Pending)}, failed \in BOOLEAN,
        rest \in {<<>>, <<Text(<<P(1)>>)>>, <<Text(<<P(1)>>), Image>>, <<Image>>, <<Document>>} :
       /\ results \o rest # <<>>
       /\ Say(Blocks("user",
            MapSeq(results, LAMBDA id : ToolResult(id, <<P(2)>>, failed)) \o rest))

AnthropicAssistant ==
  /\ from = "anthropic" /\ messages # <<>> /\ Turn("assistant")
  /\ \E thought \in {<<>>, <<Thinking>>}, text \in {<<>>, <<Text(<<P(1)>>)>>}, calls \in NewCalls :
       /\ text \o calls # <<>>
       /\ Say(Blocks("assistant", thought \o text \o MapSeq(calls, ToolUse)))

OpenAISystem ==
  /\ from = "openai" /\ messages = <<>>
  /\ Say(OpenAI("system", <<Text(<<P(1)>>)>>, <<>>, None))

OpenAIUser ==
  /\ from = "openai" /\ Room /\ Pending = <<>>
  /\ \E parts \in {<<Text(<<P(1)>>)>>, <<Text(<<P(1)>>), Image>>, <<[type |-> "audio"]>>} :
       Say(OpenAI("user", parts, <<>>, None))

OpenAIAssistant ==
  /\ from = "openai" /\ Turn("assistant") /\ Pending = <<>>
  /\ messages # <<>> /\ Last(messages).role # "system"
  /\ \E text \in {<<>>, <<Text(<<P(1)>>)>>}, calls \in NewCalls :
       /\ text \o calls # <<>>
       /\ Say(OpenAI("assistant", text, calls, None))

OpenAITool ==
  /\ from = "openai" /\ Room
  /\ \E id \in ToSet(Pending) : Say(OpenAI("tool", <<Text(<<P(1)>>)>>, <<>>, id))

Init ==
  /\ from \in {"anthropic", "openai"}
  /\ messages = <<>>

RequestDone == Len(messages) = MaxMessages /\ UNCHANGED requestVars

Next ==
  \/ AnthropicUser \/ AnthropicAssistant
  \/ OpenAISystem \/ OpenAIUser \/ OpenAIAssistant \/ OpenAITool
  \/ RequestDone
Spec == Init /\ [][Next]_requestVars

-----------------------------------------------------------------------------
\* An Anthropic conversation the API accepts: turns alternate from the user's,
\* a user message holds, before anything else, the results of exactly the calls
\* of the message before it.
LegalAnthropic(conv) ==
  \A i \in 1..Len(conv) :
    LET results == OfType(conv[i].content, "tool_result")
        uses == IF i = 1 THEN <<>> ELSE OfType(conv[i - 1].content, "tool_use")
    IN /\ conv[i].role = IF i % 2 = 1 THEN "user" ELSE "assistant"
       /\ conv[i].content # <<>>
       /\ conv[i].role = "user" =>
            /\ \A k \in 1..Len(results) : conv[i].content[k].type = "tool_result"
            /\ ToSet(IdsOf(results)) \subseteq ToSet(IdsOf(uses))
            /\ i < Len(conv) => Len(results) = Len(uses)

\* An OpenAI conversation the API accepts: a tool message answers a call of the
\* assistant's message it follows, with nothing but tool messages between, and
\* all of them are answered before anyone speaks again.
LegalOpenAI(conv) ==
  \A i \in 1..Len(conv) :
    LET said == {j \in 1..(i - 1) : conv[j].role # "tool"}
        last == IF said = {} THEN 0 ELSE CHOOSE j \in said : \A k \in said : k <= j
        answers == {conv[k].id : k \in (last + 1)..(i - 1)}
    IN /\ conv[i].role = "tool" =>
            last > 0 /\ conv[i].id \in ToSet(conv[last].calls) \ answers
       /\ conv[i].role # "tool" /\ last > 0 => answers = ToSet(conv[last].calls)

\* What the other format cannot carry: thinking, and a result's error flag.
Carried(m) ==
  Blocks(m.role, MapSeq(SelectSeq(m.content, LAMBDA b : b.type # "thinking"),
    LAMBDA b : IF b.type = "tool_result" /\ b.isError
               THEN ToolResult(b.id, <<"[error]">> \o b.text, FALSE) ELSE b))

\* anthropicMessageToOpenAI and appendUser: a conversation legal in the caller's
\* format is refused or becomes one that is legal in the upstream's, with every
\* tool result where that API looks for it.  An Anthropic one says the same
\* there, turn by turn and block by block, up to what OpenAI cannot carry: the
\* translation back returns it, and its tool choice.
TranslatesFaithfully ==
  /\ IF from = "anthropic"
     THEN \/ DocumentRefused(messages)
          \/ LET sent == AnthropicToOpenAI(messages)
             IN LegalOpenAI(sent) /\ OpenAIToAnthropic(sent) = MapSeq(messages, Carried)
     ELSE AudioRefused(messages) \/ LegalAnthropic(OpenAIToAnthropic(messages))
  /\ \A c \in [type : {"auto", "any", "none", "tool"}, serial : BOOLEAN] :
       ChoiceToAnthropic(ChoiceToOpenAI(c)) = c
=============================================================================
