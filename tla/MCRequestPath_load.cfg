SPECIFICATION HungSpec
CONSTANTS
  r1 = r1
  r2 = r2
  r3 = r3
  Requests = {r1, r2, r3}
  Asks <- MCAsks
  Limited = {"serverstats", "metrics"}
  Open = {"healthz"}
  Disabled = {"processes"}
  MaxInFlight = 2
  Writers = {w1, w2}
INVARIANTS
  NothingLeaks
  CountersAgree
PROPERTIES
  OpenStaysOpen
CHECK_DEADLOCK FALSE
