CONSTANTS
  i1 = i1
  i2 = i2
  Sets = {s1}
  Items = {i1, i2}
  Runs = {r1, r2}
  Clients = {c1, c2}
  NoSet = NoSet
  NoItem = NoItem
  DependsOn <- Chain
  Cached = {i1}
  Gated = {i2}
  MaxEdits = 1
  HandlersMayCrash = TRUE
  MayThrow = {"apply", "revert", "finish", "reopen"}
SYMMETRY Alike
SPECIFICATION Spec
INVARIANT DependenciesApplied
INVARIANT RunComplete
CHECK_DEADLOCK FALSE
