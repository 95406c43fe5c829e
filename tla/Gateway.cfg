\* Two asynchronous webhook requests between two replicas, one crash; two messages
\* to an agent that may restart; the health two replicas observe; every allowlist.
CONSTANTS
  Requests = {q1, q2}
  Replicas = {g1, g2}
  MaxTime = 4
  Abandoned = {q2}
  MaxPending = 1
  HasCallback = TRUE
  Attempts = 2
  AsyncTTL = 2
  PipelineTimeout = 1
  DisconnectTimeout = 1
  MaxCrashes = 1
  Ids <- TwoIds
  Settings <- DeliverySettings
  BufferSize = 1
  MaxRestarts = 1
  Deadline = 1
  Gateways = {g1, g2}
  HealthTime = 3
  Window = 2
  MaxKept = 1
  CacheFor = 2
  MaxEvents = 3
  MaxBoots = 1
  MaxLookups = 1
  MaxSwaps = 3
  Limit = 3
  MaxLength = 8

SPECIFICATION GatewaySpec
INVARIANTS
  SettledReachesCaller
  RepliesWhole
  HealthIsEarned
  NeverDialsBlocked
  TransportTrustsCurrent
  ChunksAreTheReply
PROPERTIES
  AnsweredIsNotReprocessed
  SilenceIsReal
