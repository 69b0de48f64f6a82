\* Does the rate limiter drop only what the consumer already knows?
SPECIFICATION PipelineSpec
CONSTANTS
  Keys = {"cpu"}
  Webhooks = {"chat"}
  MinLevel <- MCOneCrit
  QueueSize = 1
  MaxRetries = 1
  Backoff = 1
  MinInterval = 2
  BadTemplates = {}
  MaxTime = 2
  MaxEvents = 1
INVARIANTS
  LimiterOnlyCoalesces
CHECK_DEADLOCK FALSE
