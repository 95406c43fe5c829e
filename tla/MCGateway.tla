----------------------------- MODULE MCGateway -----------------------------
(***************************************************************************)
(* What gateway replicas do with messages, on small instances, one part at *)
(* a time: asynchronous webhooks, the delivery of messages and replies,    *)
(* the health of a channel, the callback policy, the agent's TLS material  *)
(* and the cutting of replies.  focus names the part that runs, and the    *)
(* others rest in one of their initial states.                             *)
(***************************************************************************)
EXTENDS AsyncChannel, GatewayParts

CONSTANTS Limit, MaxLength  \* ReplyChunks

VARIABLES
  focus,
  text, rest, out

\* Two messages.
TwoIds == 1..2

\* A message that wakes the agent on each kind of channel but Discord, whose
\* replies have chunks and a second way out; a sender that repeats itself.
DeliverySettings ==
  [kind : {"webhook", "console", "whatsapp"}, asleep : {TRUE}, chunks : {1}, bot : {FALSE},
   attempts : {2}, copies : {1}] \cup
  [kind : {"whatsapp"}, asleep : {FALSE}, chunks : {2}, bot : {FALSE},
   attempts : {2}, copies : {1}] \cup
  [kind : {"discord"}, asleep : {FALSE}, chunks : {2}, bot : BOOLEAN,
   attempts : {2}, copies : {1}] \cup
  [kind : {"whatsapp", "webhook"}, asleep : {FALSE}, chunks : {1}, bot : {FALSE},
   attempts : {1}, copies : {2}]

Chunks == INSTANCE ReplyChunks

ASSUME ConstantsAssumption ==
  /\ AsyncChannelAssumption
  /\ Delivery!ChannelDeliveryAssumption
  /\ Health!ChannelHealthAssumption

chunkVars == <<text, rest, out>>
gatewayVars == <<focus, vars, deliveryVars, healthVars, policyVars, tlsVars, chunkVars>>

GatewayInit ==
  /\ focus \in {"async", "delivery", "health", "policy", "tls", "chunks"}
  /\ Init
  /\ Delivery!Init
  /\ focus # "delivery" => volume /\ setting.kind = "console"
  /\ Health!Init
  /\ focus # "health" => \A g \in Gateways : started[g] = 0
  /\ Policy!Init
  /\ focus # "policy" => entries = {} /\ answer = <<>>
  /\ TLS!Init
  /\ IF focus = "chunks" THEN Chunks!Init ELSE text = <<>> /\ rest = <<>> /\ out = <<>>

\* The clock of the async records ends.
Rests == focus = "async" /\ now = MaxTime /\ UNCHANGED gatewayVars

GatewayNext ==
  \/ /\ focus = "async" /\ Next
     /\ UNCHANGED <<focus, deliveryVars, healthVars, policyVars, tlsVars, chunkVars>>
  \/ /\ focus = "delivery" /\ Delivery!Next
     /\ UNCHANGED <<focus, vars, healthVars, policyVars, tlsVars, chunkVars>>
  \/ /\ focus = "health" /\ Health!Next
     /\ UNCHANGED <<focus, vars, deliveryVars, policyVars, tlsVars, chunkVars>>
  \/ /\ focus = "policy" /\ Policy!Next
     /\ UNCHANGED <<focus, vars, deliveryVars, healthVars, tlsVars, chunkVars>>
  \/ /\ focus = "tls" /\ TLS!Next
     /\ UNCHANGED <<focus, vars, deliveryVars, healthVars, policyVars, chunkVars>>
  \/ /\ focus = "chunks" /\ Chunks!Next
     /\ UNCHANGED <<focus, vars, deliveryVars, healthVars, policyVars, tlsVars>>
  \/ Rests

GatewaySpec == GatewayInit /\ [][GatewayNext]_gatewayVars

-----------------------------------------------------------------------------
\* The chunks are the reply, cut where a platform allows it.
ChunksAreTheReply == focus = "chunks" => Chunks!ChunksAreTheReply
=============================================================================
