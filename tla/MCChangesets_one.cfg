CONSTANTS
  i1 = i1
  i2 = i2
  Sets = {s1}
  Items = {i1, i2}
  Runs = {r1, r2}
  Clients = {c1}
  NoSet = NoSet
  NoItem = NoItem
  DependsOn <- Chain
  Cached = {i1}
  Gated = {i2}
  MaxEdits = 2
  HandlersMayCrash = FALSE
  MayThrow = {"apply", "finish"}
SPECIFICATION FairSpec
INVARIANT AppliedIsComplete
INVARIANT SuccessIsCurrent
PROPERTY NoSecondApply
PROPERTY ImplementsLifecycle
PROPERTY ApplyEnds
CHECK_DEADLOCK FALSE
