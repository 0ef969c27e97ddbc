SPECIFICATION Spec
CONSTANTS
  p1 = p1
  p2 = p2
  p3 = p3
  Null = Null
  NoCursor = NoCursor
  Profiles = {"finance"}
  People <- MCPeople
  ManagerOf <- MCManagerOf
  Walks = {w1}
  Tools = {"jisr_employee_monthly_payables_list"}
  Filters = {"all", "some"}
  Unfiltered = "all"
  Matching <- MCMatching
  Sizes = {1, 2}
  MaxPageSize = 2
  TTL = 1
  Deployments <- MCDeployments
  Lists <- MCLists
  MaxClock = 2
  MaxEpoch = 1
  MaxChanges = 1
  MaxNamed = 3
PROPERTY OwnCursorHonoured
CHECK_DEADLOCK FALSE
