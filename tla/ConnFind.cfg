\* One goroutine is enough: the calls are made one after the other.
CONSTANTS
  Procs = {p1}
  NoProc = NoProc
  IDs = {i1, i2, i3, i4}
  ConnTypes = {"mysql", "redis"}
  Shown = {"host"}
  Hidden = {h1, h2}
  Keys <- ConnKeys
  CustomNames = {n1, n2}
  NoName = NoName
  AutoName <- BuildName
  InvalidKeys = {}
SYMMETRY MCSymmetry
SPECIFICATION ConnSpec
INVARIANT FindsLatest
