SPECIFICATION ReadingSpec
CONSTANTS
  p1 = p1
  p2 = p2
  p3 = p3
  Null = Null
  NoCursor = NoCursor
  Profiles = {"employee_self", "manager", "hr_operations", "finance", "integration_admin", "auditor", "platform_operator"}
  People <- MCPeople
  ManagerOf <- MCManagerOf
  Walks = {w1}
  Tools = {"jisr_employees_list", "jisr_attendance_summary_get", "jisr_payroll_transactions_list", "jisr_departments_list"}
  Filters = {"all", "some"}
  Unfiltered = "all"
  Matching <- MCMatching
  Sizes = {1, 2, 3}
  MaxPageSize = 2
  TTL = 1
  Deployments <- MCDeployments
  Lists <- MCLists
  MaxClock = 2
  MaxEpoch = 1
  MaxChanges = 1
  MaxNamed = 2
  CodeLists <- MCCodeLists
  MaxCodes = 3
  BatchSize = 2
INVARIANTS
  ReadingTypeOK WalkIsWhole EachCallAdvances OnlyReachableRows GatesAgree
  MissingIsSaid SummaryIsWhole DeclaredFieldsOnly
PROPERTY OwnCursorHonoured
