\* From level changes to what a consumer shows, with losses, repetitions, a rate limit
\* and a cancellation at any moment.
SPECIFICATION PipelineSpec
CONSTANTS
  Keys = {"cpu"}
  Webhooks = {"pager"}
  MinLevel <- MCOneCrit
  QueueSize = 2
  MaxRetries = 1
  Backoff = 1
  MinInterval = 2
  BadTemplates = {}
  MaxTime = 4
  MaxEvents = 1
INVARIANTS
  Accounted
  InOrder
  LimiterExact
  DuplicatesBounded
  QuietAfterCancel
  NeverStuckAlarming
  ConsumerAgrees
PROPERTIES
  NothingAfterStop
CHECK_DEADLOCK FALSE
