\* One request at a time on two connections of the right type and one of another.
CONSTANTS
  NULL = NULL
  Lower <- MCLower
  Conns = {"pg", "pg2", "mysql"}
  NoConn = NoConn
  Postgres = {"pg", "pg2"}
  Tables <- MCTables
  Start <- MCStart
  Writes <- MCWrites
  Inputs = {" Anna@x", "ben@x", "ANNA", "ben", "m2", "junk"}
  Uuids = {"anna", "ben", "m2"}
  Emails = {"anna@x", "ben@x"}
  Limits = {0, 9}
  defaultRecentSessionLimit = 2
  maxRecentSessionLimit = 4
SPECIFICATION Spec
INVARIANTS SectionsAgree SessionsOfIdentities CapacityAddsUp
