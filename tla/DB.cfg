\* Two requests race for the pools and queue for the one connection of each.  No
\* symmetry, which liveness checking does not allow.
CONSTANTS
  Procs = {p1, p2}
  NoProc = NoProc
  Settings <- MCSettings
  NoSettings = NoSettings
  Server <- MCServer
  KeyOf <- DBKey
  Accepted = {"right"}
  Malformed = {"malformed"}
  Handles = {h1, h2}
  NoHandle = NoHandle
  PingTimesOut = FALSE
  MaxOpenConns = 1
SPECIFICATION DBFairSpec
INVARIANTS UsesOpenHandle NoHandleLeaks OneHandlePerKey SavedAnswered
PROPERTY EndsUnlessSilent
