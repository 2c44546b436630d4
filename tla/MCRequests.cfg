CONSTANTS
  r1 = r1
  r2 = r2
  t1 = t1
  t2 = t2
  None = None
  Requesters = {r1, r2}
  PoolTasks = {t1, t2}
  Kinds = {"request", "nodes", "broadcast", "invalid", "stray"}
  Faults = TRUE
  Stops = TRUE
SPECIFICATION FairRequests
CHECK_DEADLOCK FALSE
INVARIANT AnswersFindRequests
PROPERTY UndisturbedRequestsEnd
