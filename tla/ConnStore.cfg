\* A database and a redis connection, two typed names, and as many uuids as calls hold.
CONSTANTS
  Procs = {p1, p2}
  NoProc = NoProc
  IDs = {i1, i2, i3, i4}
  ConnTypes = {"mysql", "redis"}
  Shown = {"host"}
  Hidden = {h1}
  Keys <- ConnKeys
  CustomNames = {n1, n2}
  NoName = NoName
  AutoName <- BuildName
  InvalidKeys = {}
SYMMETRY MCSymmetry
SPECIFICATION ConnSpec
INVARIANTS TypeOK NoDuplicates AckedKept ReadsAcked NoTornRead NewestFirst OfferedOnce
PROPERTIES TornForever IsRegistry
