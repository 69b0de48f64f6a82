\* A dashboard, another client, and a server that restarts.
SPECIFICATION Spec
CONSTANTS
  Clients = {"page", "other"}
  Page = "page"
  Capacity = 2
  Window = 3
  Pace = {1, 2}
  Tolerance = 2
  ResyncEvery = 2
  MaxTime = 5
  MaxRestarts = 1
INVARIANTS
  FreshReplies
  HeldCoversWindow
  NoSilentHole
CHECK_DEADLOCK FALSE
