CONSTANTS
  Objects = {1}  Worker = worker  Nobody = Nobody  None = None
  Pages = {p1, p2}
  Kinds = {"boya", "regular"}
  Orders <- AllOrders  Files <- Attending
  Requests = 2  Faults = 0
SPECIFICATION Spec
INVARIANT StopIsSaved
CHECK_DEADLOCK FALSE
