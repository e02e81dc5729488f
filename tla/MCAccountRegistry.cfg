CONSTANTS
  Objects = {1, 2}  Worker = worker  Nobody = Nobody  None = None
  Pages = {p1, p2}
  Kinds = {"login", "connect", "remove", "boya", "regular"}
  Orders <- AllOrders  Files <- Attending
  Requests = 2  Faults = 1
SPECIFICATION LiveSpec
INVARIANTS RemovedIsSilent StopIsSilent DaemonFollows
PROPERTIES RecoveryIsReal StopHolds PagesAnswered
CHECK_DEADLOCK FALSE
