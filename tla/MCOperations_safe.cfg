CONSTANTS
  Ops = {o1, o2}
  Rows = {r1, r2}
  Clients = {c1, c2}
  NoOp = NoOp
  NoRow = NoRow
  NoSlug = NoSlug
  SlugOf <- OneSlug
  RequiresApproval <- AlwaysPolicy
  Requests = {"create", "delete", "read", "lookup", "approve", "cancel", "retry"}
  CancelAt = {"pending", "awaiting_approval", "running"}
  HandlersMayCrash = TRUE
SPECIFICATION Spec
INVARIANT LockExclusive
INVARIANT StubOwned
INVARIANT ApprovalRespected
PROPERTY ClosedStaysClosed
SYMMETRY Symmetry
CHECK_DEADLOCK FALSE
