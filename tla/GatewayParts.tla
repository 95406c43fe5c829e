---------------------------- MODULE GatewayParts ----------------------------
(***************************************************************************)
(* Four parts of the gateway and of the agents it talks to that share no   *)
(* state: the delivery of messages and replies, the health of a channel,   *)
(* the callback policy and the agent's TLS material.  What each promises   *)
(* is stated here once, for the run that checks it and the proof of it.    *)
(***************************************************************************)
EXTENDS Integers

CONSTANTS
  Ids, BufferSize, MaxRestarts, Deadline, Settings,               \* ChannelDelivery
  Gateways, Window, MaxKept, CacheFor, MaxEvents, MaxBoots, HealthTime, \* ChannelHealth
  MaxLookups,                                                     \* CallbackPolicy
  MaxSwaps                                                        \* RuntimeTLS

VARIABLES
  volume, order, disk, handling, runs, kept, restarts,
  setting, pipe, chat, health, told, lost,
  clock, store, started, fetched, cond, forgotten, count,
  entries, policy, ready, accepted, answer, checked, dialed, changes,
  mount, reload, material, watching, events, trip, inner

Delivery == INSTANCE ChannelDelivery WITH seen <- told
Health == INSTANCE ChannelHealth WITH
  Replicas <- Gateways, MaxTime <- HealthTime, now <- clock, lost <- forgotten
Policy == INSTANCE CallbackPolicy
TLS == INSTANCE RuntimeTLS WITH loaded <- material

deliveryVars == <<volume, order, disk, handling, runs, kept, restarts,
                  setting, pipe, chat, health, told, lost>>
healthVars == <<clock, store, started, fetched, cond, forgotten, count>>
policyVars == <<entries, policy, ready, accepted, answer, checked, dialed, changes>>
tlsVars == <<mount, reload, material, watching, events, trip, inner>>

\* The chunks of a reply reach the chat in order, none left out before another.
RepliesWhole == Delivery!RepliesWhole

\* Every failure that is the channel's is on its health, and no success that was not.
HealthIsEarned == Delivery!HealthIsEarned

\* A remembered reply is not made again, whatever restarts.
AnsweredIsNotReprocessed == Delivery!AnsweredIsNotReprocessed

\* PlatformConnected turns Unknown only when the replicas heard saw no traffic in the window.
SilenceIsReal == Health!SilenceIsReal

\* No callback is dialed to an address the policy blocks.
NeverDialsBlocked == Policy!NeverDialsBlocked

\* A transport that was built trusts the CA pool of its generation.
TransportTrustsCurrent == TLS!TransportTrustsCurrent
=============================================================================
