\* Two webhooks, the endpoint of one of them never answering, and a cancellation at
\* any moment.  Where the backoff may be interrupted it need not be, as with none.
SPECIFICATION HungSpec
CONSTANTS
  Keys = {"cpu"}
  Webhooks = {"healthy", "dead"}
  MinLevel <- MCOneCrit
  QueueSize = 1
  MaxRetries = 1
  Backoff = 1
  MinInterval = 0
  BadTemplates = {"healthy"}
  MaxTime = 2
  Hung = {"dead"}
PROPERTIES
  CollectorNeverBlocks
  HealthyDrains
  StopReturns
CHECK_DEADLOCK FALSE
