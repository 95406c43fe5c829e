------------------------- MODULE StreamTranslation --------------------------
(***************************************************************************)
(* An LLM stream relayed by a gateway whose caller speaks the other format *)
(* (llmtranslate.Stream, driven by relayStream).  The upstream sends its   *)
(* events one by one and may be cut off after any; each is metered, fed to *)
(* the translator, and what comes out is read by the caller, modelled as   *)
(* the strict client of its format.  Content is a sequence of numbered     *)
(* parts.  The upstream finishes one tool call before it opens the next.   *)
(***************************************************************************)
EXTENDS Integers, Sequences, SequencesExt

CONSTANTS
  MaxParts,    \* bound: content parts of a message
  MaxBlocks    \* bound: content blocks, or text and tool calls, of a message

VARIABLES
  to,         \* the caller's format: "anthropic" or "openai"
  upstream,   \* what the upstream has sent so far
  tr,         \* the translator's state
  caller,     \* what the caller has put together
  metered     \* the Usage relayStream settles

streamVars == <<to, upstream, tr, caller, metered>>

None == "none"
NoUsage == [in |-> 0, out |-> 0]
InTokens == 2      \* the tokens the upstream reports
OutTokens == 3
Recounted == 5     \* an input count an Anthropic upstream corrects at the end

\* Said by either side: the text, and the arguments of each tool call; of the
\* upstream, also the last counts it reported, and whether it corrected one.
NewUpstream ==
  [text |-> <<>>, calls |-> <<>>, kinds |-> <<>>, open |-> FALSE, started |-> FALSE,
   finish |-> None, usage |-> NoUsage, corrected |-> FALSE, parts |-> 0, failed |-> FALSE, over |-> None]
NewCaller ==
  [blocks |-> <<>>, stop |-> None, usage |-> NoUsage, started |-> FALSE,
   over |-> FALSE, legal |-> TRUE]

-----------------------------------------------------------------------------
(* The callers.  Both keep blocks [kind, parts, open]; an OpenAI caller    *)
(* never sees a block closed.                                              *)

Event(type, index, v) == [type |-> type, index |-> index, v |-> v]
NoneOpen(g) == \A i \in 1..Len(g.blocks) : ~g.blocks[i].open

\* An Anthropic client: blocks open one at a time, in order, deltas go to the
\* open block, the stop reason follows the last block, and message_stop ends.
ReadEvent(g, e) ==
  LET ok == ~g.over /\ (g.started <=> e.type # "message_start")
      next ==
        CASE e.type = "message_start" -> [g EXCEPT !.started = TRUE]
          [] e.type = "content_block_start" ->
               [g EXCEPT !.blocks = Append(@, [kind |-> e.v, parts |-> <<>>, open |-> TRUE]),
                         !.legal = NoneOpen(g) /\ e.index = Len(g.blocks) /\ g.stop = None]
          [] e.type = "content_block_delta" /\ e.index < Len(g.blocks) ->
               [g EXCEPT !.blocks[e.index + 1].parts = Append(@, e.v),
                         !.legal = g.blocks[e.index + 1].open]
          [] e.type = "content_block_stop" /\ e.index < Len(g.blocks) ->
               [g EXCEPT !.blocks[e.index + 1].open = FALSE,
                         !.legal = g.blocks[e.index + 1].open]
          [] e.type = "message_delta" ->
               [g EXCEPT !.stop = e.v.stop, !.usage = e.v.usage,
                         !.legal = NoneOpen(g) /\ g.stop = None]
          [] e.type = "message_stop" ->
               [g EXCEPT !.over = TRUE, !.legal = g.stop # None]
          [] OTHER -> [g EXCEPT !.legal = FALSE]
  IN [next EXCEPT !.legal = @ /\ g.legal /\ ok]

\* An OpenAI client: text pieces extend the content, a tool call's first chunk
\* names it, later ones extend its arguments by its index, and [DONE] ends.
CallsOf(g) == SelectSeq(g.blocks, LAMBDA b : b.kind = "tool")
ReadChunk(g, e) ==
  LET next ==
        CASE e.type = "role" -> [g EXCEPT !.started = TRUE]
          [] e.type = "text" ->
               [g EXCEPT !.blocks = Append(@, [kind |-> "text", parts |-> <<e.v>>, open |-> FALSE])]
          [] e.type = "call" ->
               [g EXCEPT !.blocks = Append(@, [kind |-> "tool", parts |-> <<>>, open |-> FALSE]),
                         !.legal = e.index = Len(CallsOf(g))]
          [] e.type = "arguments" /\ e.index < Len(CallsOf(g)) ->
               LET at == CHOOSE i \in 1..Len(g.blocks) :
                           /\ g.blocks[i].kind = "tool"
                           /\ Len(CallsOf([blocks |-> SubSeq(g.blocks, 1, i)])) = e.index + 1
               IN [g EXCEPT !.blocks[at].parts = Append(@, e.v)]
          [] e.type = "finish" -> [g EXCEPT !.stop = e.v, !.legal = g.stop = None]
          [] e.type = "usage" -> [g EXCEPT !.usage = e.v]
          [] e.type = "done" -> [g EXCEPT !.over = TRUE]
          [] OTHER -> [g EXCEPT !.legal = FALSE]
  IN [next EXCEPT !.legal = @ /\ g.legal /\ ~g.over]

Read(events) ==
  caller' = IF to = "anthropic" THEN FoldLeft(ReadEvent, caller, events)
            ELSE FoldLeft(ReadChunk, caller, events)

-----------------------------------------------------------------------------
(* openAIToAnthropicStream.  A chunk carries at most a piece of text, a    *)
(* piece of a tool call, a finish reason, and the usage.                   *)

FinishToStop(f) ==
  CASE f = "length" -> "max_tokens" [] f = "tool_calls" -> "tool_use"
    [] f = "content_filter" -> "refusal" [] OTHER -> "end_turn"

\* messageDelta's stop reason: tool calls beat a plain stop.
StopOf(t) ==
  IF t.finish = "tool_calls" \/ (Len(t.toolIndexes) > 0 /\ t.finish = "stop")
  THEN "tool_use" ELSE FinishToStop(t.finish)

NewOpenAIToAnthropic ==
  [started |-> FALSE, blockOpen |-> FALSE, blockIndex |-> 0, blockIsTool |-> FALSE,
   toolIndexes |-> <<>>, finish |-> None, deltaSent |-> FALSE, stopped |-> FALSE,
   usage |-> NoUsage]

\* A translator's output so far, and its state: what a Feed builds up.
Emit(r, events) == [r EXCEPT !.out = @ \o events]

\* Mutant: the block before is not closed.
OpenBlockOverOpen(r, kind) ==
  Emit([r EXCEPT !.t.blockIndex = IF r.t.blockOpen THEN @ + 1 ELSE @,
                 !.t.blockOpen = TRUE, !.t.blockIsTool = (kind = "tool")],
       <<Event("content_block_start",
               IF r.t.blockOpen THEN r.t.blockIndex + 1 ELSE r.t.blockIndex, kind)>>)

\* openBlock: the block before is closed, and its index used up.
OpenBlock(r, kind) ==
  LET index == IF r.t.blockOpen THEN r.t.blockIndex + 1 ELSE r.t.blockIndex
      stop == IF r.t.blockOpen
              THEN <<Event("content_block_stop", r.t.blockIndex, None)>> ELSE <<>>
  IN Emit([r EXCEPT !.t.blockIndex = index, !.t.blockOpen = TRUE,
                    !.t.blockIsTool = (kind = "tool")],
          Append(stop, Event("content_block_start", index, kind)))

\* messageDelta: the open block is closed, then stop reason and usage are sent.
MessageDelta(r) ==
  LET stop == IF r.t.blockOpen
              THEN <<Event("content_block_stop", r.t.blockIndex, None)>> ELSE <<>>
      delta == Event("message_delta", 0, [stop |-> StopOf(r.t), usage |-> r.t.usage])
  IN Emit([r EXCEPT !.t.blockOpen = FALSE, !.t.deltaSent = TRUE], Append(stop, delta))

Start(r) ==
  IF r.t.started THEN r
  ELSE Emit([r EXCEPT !.t.started = TRUE], <<Event("message_start", 0, None)>>)

\* Mutant: text that follows a tool call is dropped.
FeedTextBeforeTools(r, part) ==
  IF part = 0 \/ r.t.blockIsTool THEN r
  ELSE LET o == IF ~r.t.blockOpen THEN OpenBlock(r, "text") ELSE r
       IN Emit(o, <<Event("content_block_delta", o.t.blockIndex, part)>>)

FeedText(r, part) ==
  IF part = 0 THEN r
  ELSE LET o == IF ~r.t.blockOpen \/ r.t.blockIsTool THEN OpenBlock(r, "text") ELSE r
       IN Emit(o, <<Event("content_block_delta", o.t.blockIndex, part)>>)

FeedCall(r, index, part) ==
  IF index = 0 THEN r
  ELSE LET o == IF index <= Len(r.t.toolIndexes) THEN r
                ELSE LET b == OpenBlock(r, "tool")
                     IN [b EXCEPT !.t.toolIndexes = Append(@, b.t.blockIndex)]
       IN IF part = 0 THEN o
          ELSE Emit(o, <<Event("content_block_delta", o.t.toolIndexes[index], part)>>)

\* Feed of a chunk: the delta goes out once finish reason and usage are known.
FeedChunk(c) ==
  LET known == [out |-> <<>>, t |-> IF c.usage = NoUsage THEN tr ELSE [tr EXCEPT !.usage = c.usage]]
      fed == FeedCall(FeedText(Start(known), c.text), c.call, c.arguments)
      finished == IF c.finish = None THEN fed ELSE [fed EXCEPT !.t.finish = c.finish]
  IN IF finished.t.finish # None /\ c.usage # NoUsage /\ ~finished.t.deltaSent
     THEN MessageDelta(finished) ELSE finished

\* Finish, at [DONE] and again at the end of the stream.
FinishMessage ==
  LET r == [out |-> <<>>, t |-> [tr EXCEPT !.stopped = TRUE]]
      closed == IF tr.deltaSent THEN r ELSE MessageDelta(r)
  IN IF tr.stopped \/ ~tr.started THEN r
     ELSE Emit(closed, <<Event("message_stop", 0, None)>>)

Relay(r) == tr' = r.t /\ Read(r.out)

-----------------------------------------------------------------------------
(* The OpenAI upstream.  [DONE] and then the end of the stream, or the end *)
(* alone when the connection is cut.                                       *)

Chunk(text, call, arguments, finish, usage) ==
  [text |-> text, call |-> call, arguments |-> arguments, finish |-> finish, usage |-> usage]
Spoken == [in |-> InTokens, out |-> OutTokens]

\* openaiAdapter.accumulateStreamUsage, and the chunk through the translator.
RelayChunk(c) ==
  /\ metered' = IF c.usage = NoUsage THEN metered ELSE c.usage
  /\ Relay(FeedChunk(c))

UpstreamOpen(format) == to # format /\ upstream.over = None

SendText ==
  /\ UpstreamOpen("openai") /\ upstream.finish = None /\ upstream.parts < MaxParts
  /\ LET p == upstream.parts + 1
     IN /\ upstream' = [upstream EXCEPT !.parts = p, !.text = Append(@, p),
                          !.kinds = Append(@, "text")]
        /\ RelayChunk(Chunk(p, 0, 0, None, NoUsage))
  /\ UNCHANGED to

SendCall(named) ==
  /\ UpstreamOpen("openai") /\ upstream.finish = None
  /\ Len(upstream.calls) < MaxBlocks
  /\ LET p == IF named THEN 0 ELSE upstream.parts + 1
     IN /\ p <= MaxParts
        /\ upstream' = [upstream EXCEPT !.parts = @ + (IF named THEN 0 ELSE 1),
             !.calls = Append(@, IF named THEN <<>> ELSE <<p>>), !.kinds = Append(@, "tool")]
        /\ RelayChunk(Chunk(0, Len(upstream.calls) + 1, p, None, NoUsage))
  /\ UNCHANGED to

\* More arguments for the call named last, while no text has followed it.
SendArguments ==
  /\ UpstreamOpen("openai") /\ upstream.finish = None /\ upstream.parts < MaxParts
  /\ Len(upstream.kinds) > 0 /\ Last(upstream.kinds) = "tool"
  /\ LET p == upstream.parts + 1
         k == Len(upstream.calls)
     IN /\ upstream' = [upstream EXCEPT !.parts = p, !.calls[k] = Append(@, p)]
        /\ RelayChunk(Chunk(0, k, p, None, NoUsage))
  /\ UNCHANGED to

\* The finish chunk, with the usage in it or not.
SendFinish(f, usage) ==
  /\ UpstreamOpen("openai") /\ upstream.finish = None
  /\ f = "tool_calls" => upstream.calls # <<>>
  /\ upstream' = [upstream EXCEPT !.finish = f, !.usage = usage]
  /\ RelayChunk(Chunk(0, 0, 0, f, usage))
  /\ UNCHANGED to

SendUsage ==
  /\ UpstreamOpen("openai") /\ upstream.finish # None /\ upstream.usage = NoUsage
  /\ upstream' = [upstream EXCEPT !.usage = Spoken]
  /\ RelayChunk(Chunk(0, 0, 0, None, Spoken))
  /\ UNCHANGED to

SendDone ==
  /\ UpstreamOpen("openai") /\ upstream.finish # None
  /\ upstream' = [upstream EXCEPT !.over = "done"]
  /\ Relay(FinishMessage)
  /\ UNCHANGED <<to, metered>>

-----------------------------------------------------------------------------
(* anthropicToOpenAIStream, and the Anthropic upstream.  blocks maps the   *)
(* upstream's block to the caller's tool call; thinking is not passed on.  *)

NewAnthropicToOpenAI ==
  [toolIndex |-> 0, blocks |-> <<>>, usage |-> NoUsage, finished |-> FALSE, done |-> FALSE]

StopToFinish(s) ==
  CASE s = "max_tokens" -> "length" [] s = "tool_use" -> "tool_calls"
    [] s = "refusal" -> "content_filter" [] OTHER -> "stop"

\* Finish, at message_stop and again at the end of the stream.
FinishChunks ==
  LET finish == IF tr.finished THEN <<>> ELSE <<Event("finish", 0, "stop")>>
  IN [t |-> [tr EXCEPT !.done = TRUE],
      out |-> IF tr.done THEN <<>>
              ELSE finish \o <<Event("usage", 0, tr.usage), Event("done", 0, None)>>]

MessageStart ==
  /\ UpstreamOpen("anthropic") /\ ~upstream.started
  /\ upstream' = [upstream EXCEPT !.started = TRUE, !.usage.in = InTokens]
  /\ metered' = [metered EXCEPT !.in = InTokens]
  /\ Relay([t |-> [tr EXCEPT !.usage.in = InTokens], out |-> <<Event("role", 0, None)>>])
  /\ UNCHANGED to

ContentBlockStart(kind) ==
  /\ UpstreamOpen("anthropic") /\ upstream.started /\ upstream.finish = None
  /\ ~upstream.open /\ Len(upstream.kinds) < MaxBlocks
  /\ upstream' = [upstream EXCEPT !.open = TRUE, !.kinds = Append(@, kind),
       !.calls = IF kind = "tool" THEN Append(@, <<>>) ELSE @]
  /\ Relay([t |-> [tr EXCEPT !.blocks = Append(@, tr.toolIndex),
                             !.toolIndex = IF kind = "tool" THEN @ + 1 ELSE @],
            out |-> IF kind = "tool" THEN <<Event("call", tr.toolIndex, None)>> ELSE <<>>])
  /\ UNCHANGED <<to, metered>>

ContentBlockDelta ==
  /\ UpstreamOpen("anthropic") /\ upstream.open /\ upstream.parts < MaxParts
  /\ LET p == upstream.parts + 1
         kind == Last(upstream.kinds)
         k == Len(upstream.calls)
     IN /\ upstream' = [upstream EXCEPT !.parts = p,
             !.text = IF kind = "text" THEN Append(@, p) ELSE @,
             !.calls = IF kind = "tool" THEN [@ EXCEPT ![k] = Append(@, p)] ELSE @]
        /\ Relay([t |-> tr, out |->
             CASE kind = "text" -> <<Event("text", 0, p)>>
               [] kind = "tool" -> <<Event("arguments", Last(tr.blocks), p)>>
               [] kind = "thinking" -> <<>>])
  /\ UNCHANGED <<to, metered>>

ContentBlockStop ==
  /\ UpstreamOpen("anthropic") /\ upstream.open
  /\ upstream' = [upstream EXCEPT !.open = FALSE]
  /\ UNCHANGED <<to, tr, caller, metered>>

\* anthropicAdapter.accumulateStreamUsage: of the usage in message_delta the
\* output count alone is metered.
AccumulateStreamUsage(usage) ==
  metered' = [metered EXCEPT !.out = IF usage.out > 0 THEN usage.out ELSE @]

\* The usage in message_delta, with a corrected input count or without.  The
\* translator takes over both counts.
SendMessageDelta(stop, usage) ==
  /\ UpstreamOpen("anthropic") /\ upstream.started /\ ~upstream.open
  /\ upstream.finish = None
  /\ stop = "tool_use" => upstream.calls # <<>>
  /\ upstream' = [upstream EXCEPT !.finish = stop, !.usage.out = usage.out,
       !.usage.in = IF usage.in > 0 THEN usage.in ELSE @, !.corrected = usage.in > 0]
  /\ AccumulateStreamUsage(usage)
  /\ Relay([t |-> [tr EXCEPT !.usage.out = usage.out,
                             !.usage.in = IF usage.in > 0 THEN usage.in ELSE @,
                             !.finished = TRUE],
            out |-> <<Event("finish", 0, StopToFinish(stop))>>])
  /\ UNCHANGED to

MessageStop ==
  /\ UpstreamOpen("anthropic") /\ upstream.finish # None
  /\ upstream' = [upstream EXCEPT !.over = "done"]
  /\ Relay(FinishChunks)
  /\ UNCHANGED <<to, metered>>

\* An error event ends the caller's stream too.
SendError ==
  /\ UpstreamOpen("anthropic") /\ upstream.started
  /\ upstream' = [upstream EXCEPT !.failed = TRUE, !.over = "done"]
  /\ Relay([t |-> [tr EXCEPT !.done = TRUE], out |-> <<Event("done", 0, None)>>])
  /\ UNCHANGED <<to, metered>>

-----------------------------------------------------------------------------
\* The end of the upstream's stream, after its terminator or cut off:
\* relayStream calls Finish.
EndOfStream ==
  /\ upstream.over # "ended"
  /\ upstream' = [upstream EXCEPT !.over = "ended"]
  /\ Relay(IF to = "anthropic" THEN FinishMessage ELSE FinishChunks)
  /\ UNCHANGED <<to, metered>>

Init ==
  /\ to \in {"anthropic", "openai"}
  /\ upstream = NewUpstream
  /\ tr = IF to = "anthropic" THEN NewOpenAIToAnthropic ELSE NewAnthropicToOpenAI
  /\ caller = NewCaller
  /\ metered = NoUsage

OpenAISends ==
  \/ SendText
  \/ \E named \in BOOLEAN : SendCall(named)
  \/ SendArguments
  \/ \E f \in {"stop", "length", "tool_calls", "content_filter"}, usage \in {NoUsage, Spoken} :
       SendFinish(f, usage)
  \/ SendUsage
  \/ SendDone

AnthropicSends ==
  \/ MessageStart
  \/ \E kind \in {"text", "tool", "thinking"} : ContentBlockStart(kind)
  \/ ContentBlockDelta
  \/ ContentBlockStop
  \/ \E stop \in {"end_turn", "max_tokens", "tool_use", "refusal"},
        usage \in [in : {0, Recounted}, out : {0, OutTokens}] : SendMessageDelta(stop, usage)
  \/ MessageStop
  \/ SendError

StreamDone == upstream.over = "ended" /\ UNCHANGED streamVars

Next == OpenAISends \/ AnthropicSends \/ EndOfStream \/ StreamDone
Spec == Init /\ [][Next]_streamVars

-----------------------------------------------------------------------------
TextOf(g) == FlattenSeq([i \in 1..Len(g.blocks) |->
               IF g.blocks[i].kind = "text" THEN g.blocks[i].parts ELSE <<>>])
ArgumentsOf(g) == [i \in 1..Len(CallsOf(g)) |-> CallsOf(g)[i].parts]

\* openBlock, messageDelta, Finish: whatever the upstream sends, in whatever
\* chunks, and wherever it is cut off, the caller reads a well-formed stream of
\* its own format: one block open at a time and closed before the stop reason,
\* nothing after the end, and an end to every stream that began.
WellFormedForTheCaller ==
  /\ caller.legal
  /\ upstream.over = "ended" /\ caller.started => caller.over /\ NoneOpen(caller)

\* Feed loses and misplaces nothing: after every event the caller holds the text
\* and, call by call, the arguments the upstream has sent, and at the end of a
\* stream without an error the usage the upstream reported last.  The gateway
\* charges for that same usage, except for an input count that message_delta
\* corrected, which it meters as message_start gave it.
NothingLostInTranslation ==
  /\ TextOf(caller) = upstream.text /\ ArgumentsOf(caller) = upstream.calls
  /\ caller.over /\ ~upstream.failed =>
       /\ caller.usage = upstream.usage
       /\ metered.out = caller.usage.out
       /\ metered.in = caller.usage.in \/ upstream.corrected
=============================================================================
