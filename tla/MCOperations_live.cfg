CONSTANTS
  Ops = {o1, o2}
  Rows = {r1}
  Clients = {c1, c2}
  NoOp = NoOp
  NoRow = NoRow
  NoSlug = NoSlug
  SlugOf <- OneSlug
  RequiresApproval <- AlwaysPolicy
  Requests = {"import", "update", "forget", "approve", "cancel"}
  CancelAt = {"awaiting_approval", "running"}
  HandlersMayCrash = FALSE
SPECIFICATION FairSpec
PROPERTY ImplementsLock
PROPERTY OpenOperationsClose
PROPERTY ApprovedOperationsClose
CHECK_DEADLOCK FALSE
