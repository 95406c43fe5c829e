-------------------------- MODULE ChannelDelivery --------------------------
(***************************************************************************)
(* Messages through one gateway replica to one agent and back: a webhook   *)
(* in sync mode, a console test chat, a Discord interaction or a WhatsApp  *)
(* event.  The first two answer the caller with the agent's reply; the     *)
(* other two acknowledge the platform at once and send the reply through   *)
(* its API, in chunks, from a pipeline that lives in memory.               *)
(*                                                                         *)
(* A sender that saw no success sends the event again, as Meta does and    *)
(* as a webhook's caller may; each delivery is a message of its own, with  *)
(* an id of its own: Ids is 1..n.  The agent is that of AgentRuntime.  A   *)
(* context is a deadline on the age of a pipeline, and ends it when due;   *)
(* that of a caller's request also ends when the caller hangs up.          *)
(***************************************************************************)
EXTENDS AgentRuntime

CONSTANTS
  Deadline,  \* syncDeliveryDeadline or platformPipelineTimeout
  Settings   \* bound: the channels that are tried

VARIABLES
  setting,  \* fixed: the kind of channel, whether the agent sleeps, the chunks of
            \* a reply, whether there is a botToken, the attempts of a schedule
            \* (one more than its backoffs), and the deliveries the sender makes
  pipe,     \* the pipeline of each delivery
  chat,     \* what each delivery's pipeline brought into the chat
  health,   \* the health observations each delivery left on the channel
  seen,     \* what the sender saw of each delivery: its answer, or nothing
  lost      \* the answers that were lost on the way to the sender

gatewayVars == <<setting, pipe, chat, health, seen, lost>>
vars == <<runtimeVars, gatewayVars>>

Platforms == {"discord", "whatsapp"}

ChannelDeliveryAssumption ==
  /\ BufferSize \in Nat /\ Deadline \in Nat
  /\ \A s \in Settings : /\ s.kind \in Platforms \cup {"webhook", "console"}
                        /\ s.chunks \in Nat \ {0}

Live(p) == p.at \in {"wake", "deliver", "awaiting", "reply"}

NewPipe == [at |-> "new", tries |-> 0, chunk |-> 1, via |-> "platform",
            text |-> "none", end |-> "none", age |-> 0]

Expired(id) == pipe[id].age >= Deadline

-----------------------------------------------------------------------------
(* Inbound: handleWebhook, handlePlatform, handleTestChat *)

\* What each handler may find before it has a message to dispatch: whether it
\* answers with success, and what it records.
Refusal(ok, reasons) == [ok |-> ok, health |-> reasons]

\* A malformed request, or no such agent.
TestChatRefusals == {Refusal(FALSE, {})}

\* A body too large or malformed, no such channel; a bad signature; no agent.
WebhookRefusals ==
  {Refusal(FALSE, {}), Refusal(FALSE, {"WebhookAuthFailed"}), Refusal(FALSE, {"AgentNotReady"})}

\* A malformed interaction; a bad key, signature or timestamp; and the ping,
\* the command out of scope and the rest that is answered in place.
DiscordRefusals ==
  {Refusal(FALSE, {}), Refusal(FALSE, {"WebhookAuthFailed"}), Refusal(TRUE, {})}

\* A malformed event; a bad token or signature; and the handshake, the status
\* and the message for another number.
WhatsAppRefusals ==
  {Refusal(FALSE, {}), Refusal(FALSE, {"WebhookAuthFailed"}), Refusal(TRUE, {})}

Refusals(kind) ==
  CASE kind = "console"  -> TestChatRefusals
    [] kind = "webhook"  -> WebhookRefusals
    [] kind = "discord"  -> DiscordRefusals
    [] kind = "whatsapp" -> WhatsAppRefusals

Observe(id, reasons) ==
  health' = [health EXCEPT ![id] = @ \cup IF setting.kind = "console" THEN {} ELSE reasons]

Move(id, p) == pipe' = [pipe EXCEPT ![id] = p]

\* The sender's end of the answer to a delivery; it may be lost.
Answer(id, what) ==
  \/ seen' = [seen EXCEPT ![id] = what] /\ UNCHANGED lost
  \/ seen' = [seen EXCEPT ![id] = "nothing"] /\ lost' = lost \cup {id}

\* The event is sent, for the first time or because the last answer was no
\* success.  Discord does not send an interaction twice.
Due(id) ==
  /\ pipe[id].at = "new" /\ id <= setting.copies
  /\ id > 1 => /\ setting.kind # "discord"
               /\ pipe[id - 1].at # "new"
               /\ seen[id - 1] \notin {"waiting", "2xx"}

Refuse(id) ==
  /\ Due(id)
  /\ \E r \in Refusals(setting.kind) :
       /\ Observe(id, r.health)
       /\ Answer(id, IF r.ok THEN "2xx" ELSE "error")
  /\ Move(id, [NewPipe EXCEPT !.at = "done", !.end = "refused"])
  /\ UNCHANGED <<runtimeVars, setting, chat>>

\* A message: a platform is acknowledged before anything is delivered.
Accept(id) ==
  /\ Due(id)
  /\ Move(id, [NewPipe EXCEPT !.at = IF setting.asleep THEN "wake" ELSE "deliver"])
  /\ IF setting.kind \in Platforms
     THEN Answer(id, "2xx")
     ELSE seen' = [seen EXCEPT ![id] = "waiting"] /\ UNCHANGED lost
  /\ UNCHANGED <<runtimeVars, setting, chat, health>>

\* The agent of a platform channel is not there: the person is told.
AcceptWithoutAgent(id) ==
  /\ Due(id)
  /\ setting.kind \in Platforms
  /\ Move(id, [NewPipe EXCEPT !.at = "reply", !.text = "error"])
  /\ Observe(id, {"AgentNotReady"})
  /\ Answer(id, "2xx")
  /\ UNCHANGED <<runtimeVars, setting, chat>>

-----------------------------------------------------------------------------
(* wakeAndDeliver *)

Dispatch(id, text) == [pipe[id] EXCEPT !.at = "reply", !.tries = 0, !.text = text]

\* wakeAndDeliver has returned: a platform gets a reply in the chat, a caller
\* its answer if it still waits; once the context has ended an error is
\* reported as the deadline.
Deliver(id, text, reasons) ==
  /\ Observe(id, reasons)
  /\ IF setting.kind \in Platforms
     THEN Move(id, Dispatch(id, text)) /\ UNCHANGED <<seen, lost>>
     ELSE LET end == IF text = "answer" THEN "200"
                     ELSE IF Expired(id) THEN "deadline" ELSE "error"
          IN /\ Move(id, [Dispatch(id, text) EXCEPT !.at = "done", !.end = end])
             /\ IF seen[id] = "waiting"
                THEN Answer(id, IF text = "answer" THEN "2xx" ELSE "error")
                ELSE UNCHANGED <<seen, lost>>

\* The activator is called, then the agent's port polled.
Wake(id) ==
  /\ pipe[id].at = "wake"
  /\ \/ /\ ~Expired(id)
        /\ Move(id, [pipe[id] EXCEPT !.at = "deliver"])
        /\ UNCHANGED <<health, seen, lost>>
     \/ Deliver(id, "error", {"AgentNotReady"})
     \/ Deliver(id, "error", {})
  /\ UNCHANGED <<runtimeVars, setting, chat>>

\* An attempt has failed: the next one, with the same id, or the end.
AttemptFailed(id) ==
  IF pipe[id].tries + 1 < setting.attempts /\ ~Expired(id)
  THEN /\ Move(id, [pipe[id] EXCEPT !.at = "deliver", !.tries = @ + 1])
       /\ UNCHANGED <<health, seen, lost>>
  ELSE Deliver(id, "error", {"DispatchFailed"})

Success(id) == Deliver(id, "answer", {"success"})

\* A reply within its deadline is the answer, unless it is too large, which is
\* final, or lost, or not an envelope, which costs the attempt.
Replied(id) ==
  \/ ~Expired(id) /\ Success(id)
  \/ ~Expired(id) /\ Deliver(id, "error", {})
  \/ AttemptFailed(id)

\* deliverOnce, up to the agent's lookup.
Attempt(id) ==
  /\ pipe[id].at = "deliver"
  /\ \/ ~Expired(id) /\ Recall(id) /\ Replied(id)
     \/ /\ ~Expired(id)
        /\ StartHandler(id, pipe[id].tries)
        /\ Move(id, [pipe[id] EXCEPT !.at = "awaiting"])
        /\ UNCHANGED <<health, seen, lost>>
     \/ AttemptFailed(id) /\ UNCHANGED runtimeVars
  /\ UNCHANGED <<setting, chat>>

\* agentReadTimeout, or the pipeline's deadline, before the handler is done.
AttemptTimesOut(id) ==
  /\ pipe[id].at = "awaiting"
  /\ AttemptFailed(id)
  /\ UNCHANGED <<runtimeVars, setting, chat>>

\* A handler returns; its reply counts if the gateway still waits for it.
HandlerEnds(id, n) ==
  LET awaited == pipe[id].at = "awaiting" /\ pipe[id].tries = n
  IN  /\ \/ /\ HandlerReturns(id, n)
            /\ IF awaited THEN Replied(id) ELSE UNCHANGED <<pipe, health, seen, lost>>
         \/ /\ HandlerFails(id, n)
            /\ IF awaited THEN AttemptFailed(id) ELSE UNCHANGED <<pipe, health, seen, lost>>
      /\ UNCHANGED <<setting, chat>>

-----------------------------------------------------------------------------
(* SendReply *)

\* Mutant: only a terminal answer is recorded, not an exhausted schedule.
RefusedQuietly(id, how) ==
  /\ Move(id, [pipe[id] EXCEPT !.at = "done", !.end = how])
  /\ Observe(id, IF how = "rejected" THEN {"CallbackRejected"} ELSE {})

\* replyRefused: the reply, or what is left of it, does not reach the chat.
Refused(id, how) ==
  /\ Move(id, [pipe[id] EXCEPT !.at = "done", !.end = how])
  /\ Observe(id, {"CallbackRejected"})

\* The first chunk of a Discord reply edits the deferred message.
Landed(id) ==
  LET p == pipe[id]
      edit == setting.kind = "discord" /\ p.via = "platform" /\ p.chunk = 1
  IN  IF edit /\ p.chunk \in Range(chat[id]) THEN chat[id] ELSE Append(chat[id], p.chunk)

\* bucketRetried: the same chunk again, until the schedule is exhausted.
Retried(id) ==
  IF pipe[id].tries + 1 < setting.attempts /\ ~Expired(id)
  THEN Move(id, [pipe[id] EXCEPT !.tries = @ + 1]) /\ UNCHANGED health
  ELSE Refused(id, "exhausted")

\* bucketDelivered: on to the next chunk.
ChunkDelivered(id) ==
  /\ chat' = [chat EXCEPT ![id] = Landed(id)]
  /\ IF pipe[id].chunk < setting.chunks /\ pipe[id].text = "answer"
     THEN Move(id, [pipe[id] EXCEPT !.chunk = @ + 1, !.tries = 0])
     ELSE Move(id, [pipe[id] EXCEPT !.at = "done", !.end = "delivered"])
  /\ UNCHANGED health

\* Mutant: the bot is given what comes after the chunk that could not be edited in.
SendViaBotRest(id) ==
  /\ setting.kind = "discord" /\ pipe[id].via = "platform" /\ pipe[id].chunk = 1
  /\ IF setting.bot
     THEN Move(id, [pipe[id] EXCEPT !.via = "bot", !.tries = 0, !.chunk = 2]) /\ UNCHANGED health
     ELSE Refused(id, "rejected")
  /\ UNCHANGED chat

\* A 404 on the edit of the deferred message: the whole reply goes through the
\* bot, if there is one.
SendViaBot(id) ==
  /\ setting.kind = "discord" /\ pipe[id].via = "platform" /\ pipe[id].chunk = 1
  /\ IF setting.bot
     THEN Move(id, [pipe[id] EXCEPT !.via = "bot", !.tries = 0]) /\ UNCHANGED health
     ELSE Refused(id, "rejected")
  /\ UNCHANGED chat

\* One request of SendReply.  A transport failure may come after the platform
\* has taken the chunk; past the deadline no request is sent.
SendReply(id) ==
  /\ pipe[id].at = "reply"
  /\ \/ ~Expired(id) /\ ChunkDelivered(id)
     \/ ~Expired(id) /\ SendViaBot(id)
     \/ ~Expired(id) /\ Refused(id, "rejected") /\ UNCHANGED chat
     \/ ~Expired(id) /\ Retried(id) /\ chat' = [chat EXCEPT ![id] = Landed(id)]
     \/ Retried(id) /\ UNCHANGED chat
  /\ UNCHANGED <<runtimeVars, setting, seen, lost>>

-----------------------------------------------------------------------------
(* The environment and the specification *)

\* The sender stops waiting for its answer.  The pipeline runs in the context of
\* its request, which ends when the gateway notices that the sender is gone.
SenderGivesUp(id) ==
  /\ seen[id] = "waiting"
  /\ seen' = [seen EXCEPT ![id] = "nothing"]
  /\ Move(id, [pipe[id] EXCEPT !.age = Deadline]) \/ UNCHANGED pipe
  /\ UNCHANGED <<runtimeVars, setting, chat, health, lost>>

\* The gateway replica is lost, with its pipelines.
Crash ==
  /\ \E id \in Ids : Live(pipe[id])
  /\ pipe' = [id \in Ids |-> IF Live(pipe[id]) THEN [pipe[id] EXCEPT !.at = "crashed"] ELSE pipe[id]]
  /\ seen' = [id \in Ids |-> IF seen[id] = "waiting" THEN "nothing" ELSE seen[id]]
  /\ UNCHANGED <<runtimeVars, setting, chat, health, lost>>

Restart == RestartAgent /\ UNCHANGED gatewayVars

Tick(id) ==
  /\ Live(pipe[id]) /\ ~Expired(id)
  /\ Move(id, [pipe[id] EXCEPT !.age = @ + 1])
  /\ UNCHANGED <<runtimeVars, setting, chat, health, seen, lost>>

DeliveryDone ==
  /\ \A id \in Ids : ~Live(pipe[id]) /\ ~Due(id)
  /\ handling = {}
  /\ UNCHANGED vars

Init ==
  /\ RuntimeInit
  /\ setting \in Settings
  /\ pipe = [id \in Ids |-> NewPipe]
  /\ chat = [id \in Ids |-> <<>>]
  /\ health = [id \in Ids |-> {}]
  /\ seen = [id \in Ids |-> "nothing"]
  /\ lost = {}

Next ==
  \/ \E id \in Ids : \/ Refuse(id) \/ Accept(id) \/ AcceptWithoutAgent(id)
                       \/ Wake(id) \/ Attempt(id) \/ AttemptTimesOut(id)
                       \/ SendReply(id) \/ SenderGivesUp(id) \/ Tick(id)
                       \/ \E n \in 0..setting.attempts - 1 : HandlerEnds(id, n)
  \/ Crash \/ Restart \/ DeliveryDone

Spec == Init /\ [][Next]_vars

-----------------------------------------------------------------------------
(* Properties *)

\* A reply is in the chat from its start, in order and without a gap, even if
\* a retry repeats a chunk or the bot starts over; a reply that counts as
\* delivered is there to its end.
RepliesWhole ==
  \A id \in Ids :
    LET c == chat[id]
    IN  /\ c # <<>> => c[1] = 1
        /\ \A k \in 1..Len(c) - 1 : c[k + 1] \in {1, c[k], c[k] + 1}
        /\ pipe[id].end = "delivered" /\ pipe[id].text = "answer" => c[Len(c)] = setting.chunks

\* Channel health and the sender agree: a caller is told of success, and a
\* success recorded, only when the agent's own reply came back in time; and when
\* a platform pipeline has ended, the reply is in the chat to its last chunk or
\* the channel shows that it was rejected.
HealthIsEarned ==
  \A id \in Ids :
    /\ "success" \in health[id] => runs[id] > 0 /\ pipe[id].text = "answer"
    /\ setting.kind \notin Platforms /\ seen[id] = "2xx" => pipe[id].text = "answer"
    /\ setting.kind \in Platforms /\ pipe[id].at = "done" /\ pipe[id].end # "refused" =>
         \/ "CallbackRejected" \in health[id]
         \/ /\ chat[id] # <<>>
            /\ pipe[id].text = "answer" => setting.chunks \in Range(chat[id])
=============================================================================
