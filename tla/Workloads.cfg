\* A task under slow terminations, interrupted passes and lagging caches; an
\* Agent that is disturbed once.
CONSTANTS
  Settings <- Hostile
  BackoffLimit = 1
  MaxPods = 2
  MaxEvictions = 0
  MaxPosts = 1
  Replicas = {g1, g2}
  IdleTimeout = 1
  HibernationDelay = 1
  CacheWindow = 1
  Retain = TRUE
  ClassReadFails = FALSE
  MaxTime = 7
  MaxWakes = 1
  MaxTroubles = 1
SPECIFICATION WorkloadsSpec
INVARIANTS
  RetainedVolumeSurvives
  SuccessWasReported
  EveryAttemptCounts
PROPERTIES
  OutcomeIsFinal
  WakeNotDropped
  WokenStaysUp
  SleepsOnlyWhenSilent
