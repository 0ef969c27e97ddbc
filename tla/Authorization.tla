---------------------------- MODULE Authorization ----------------------------
(***************************************************************************)
(* Who may call which tool, and whose records a call may return:           *)
(* loadConfig's checks (src/config/environment.ts), the role profiles, the *)
(* endpoint manifest's profiles, the write gates (authorization/           *)
(* policies.ts), the capability report (authorization/capabilities.ts) and *)
(* the reachable sets (authorization/reachability.ts), as operators over   *)
(* the settings a process was started with.                                *)
(*                                                                         *)
(* disabledDomains is always empty and the key's permissions are always    *)
(* unprobed in a process that bin/ starts; both gates are open here.       *)
(***************************************************************************)

CONSTANTS
  People,      \* the employees
  ManagerOf,   \* External: the line manager Jisr reports for each, or Null
  Null         \* an identifier that is absent

ASSUME AuthorizationAssumption ==
  /\ Null \notin People
  /\ ManagerOf \in [People -> People \cup {Null}]

\* External: an employee has a UUID and a code, and they are never equal.
Id(p) == [kind |-> "id", of |-> p]
Code(p) == [kind |-> "code", of |-> p]

ASSUME IdentifierAssumption == \A p \in People : Id(p) # Null

ROLE_PROFILES == {"employee_self", "manager", "hr_operations", "finance",
                  "integration_admin", "auditor", "platform_operator"}

\* REACHABLE_SCOPE
ReachableScopeFor(profile) ==
  CASE profile = "employee_self"     -> "self"
    [] profile = "manager"           -> "direct_reports"
    [] profile = "platform_operator" -> "none"
    [] OTHER                         -> "organization"

-----------------------------------------------------------------------------
(* The settings.                                                           *)

Settings ==
  [profile : ROLE_PROFILES,
   subject : {Id(p) : p \in People} \cup {Null},
   finance : BOOLEAN,                          \* JISR_FINANCE_SURFACE
   financeKey : BOOLEAN, financeSecret : BOOLEAN,
   writeAttendance : BOOLEAN, writeEmployees : BOOLEAN,
   writePayrollDelete : BOOLEAN]

NeedsSubject(profile) == profile \in {"employee_self", "manager"}

\* loadConfig: the combinations it accepts.
LoadConfig(s) ==
  /\ (s.financeKey \/ s.financeSecret) => s.finance
  /\ s.financeKey = s.financeSecret
  /\ NeedsSubject(s.profile) <=> s.subject # Null
  /\ s.writePayrollDelete => s.finance

-----------------------------------------------------------------------------
(* The tools and the endpoint manifest.                                    *)

LookupTools ==
  {"jisr_departments_list", "jisr_employment_types_list",
   "jisr_business_units_list", "jisr_locations_list",
   "jisr_nationalities_list", "jisr_outsourcing_companies_list"}

FinanceReads ==
  {"jisr_employee_financial_info_get", "jisr_employee_monthly_payables_list",
   "jisr_payroll_transactions_list", "jisr_gl_transaction_types_list",
   "jisr_paygroups_list", "jisr_accounting_journal_get"}

\* Reads of rows about one employee each, which the employee may make too.
PersonReads ==
  {"jisr_employee_basic_info_get", "jisr_attendance_summary_get",
   "jisr_attendance_logs_list", "jisr_employee_leave_summary_get"}

DISCOVERY_TOOLS == {"jisr_connection_status_get", "jisr_capabilities_get",
                    "jisr_data_catalog_get"}

\* The two halves of each write.
WritePairs ==
  {[prepare |-> "jisr_attendance_punch_create_prepare",
    commit  |-> "jisr_attendance_punch_create_commit"],
   [prepare |-> "jisr_employee_create_prepare",
    commit  |-> "jisr_employee_create_commit"],
   [prepare |-> "jisr_payroll_transaction_delete_prepare",
    commit  |-> "jisr_payroll_transaction_delete_commit"]}

PunchTools == {"jisr_attendance_punch_create_prepare",
               "jisr_attendance_punch_create_commit"}
HireTools == {"jisr_employee_create_prepare", "jisr_employee_create_commit"}
DeleteTools == {"jisr_payroll_transaction_delete_prepare",
                "jisr_payroll_transaction_delete_commit"}
WriteTools == PunchTools \cup HireTools \cup DeleteTools

\* The tools of ENDPOINT_MANIFEST: of a write, only the commit.
ManifestTools ==
  LookupTools \cup FinanceReads \cup PersonReads
  \cup {"jisr_employees_list", "jisr_accrual_transactions_list",
        "jisr_audit_events_list", "jisr_webhooks_list"}
  \cup {pair.commit : pair \in WritePairs}

\* ENDPOINT_MANIFEST: requiredProfiles and sensitivity.
RequiredProfiles(tool) ==
  CASE tool \in LookupTools -> ROLE_PROFILES \ {"platform_operator"}
    [] tool \in PersonReads -> {"hr_operations", "manager", "employee_self"}
    [] tool \in FinanceReads \cup DeleteTools -> {"finance"}
    [] tool = "jisr_employees_list" -> {"hr_operations", "manager"}
    [] tool = "jisr_audit_events_list" -> {"auditor", "integration_admin"}
    [] tool = "jisr_webhooks_list" -> {"integration_admin"}
    [] OTHER -> {"hr_operations"}

FinancialConfidential(tool) == tool \in FinanceReads \cup DeleteTools

-----------------------------------------------------------------------------
(* The two decision paths.  Each returns "available" or the error code.    *)

\* Mutant: the finance surface is open to whoever has the profile.
ConfigurationIgnoresSurface(tool, s) ==
  CASE tool \in PunchTools  -> s.writeAttendance
    [] tool \in HireTools   -> s.writeEmployees
    [] tool \in DeleteTools -> s.writePayrollDelete
    [] OTHER                -> TRUE

\* configurationEnables
ConfigurationEnables(tool, s) ==
  CASE tool \in PunchTools  -> s.writeAttendance
    [] tool \in HireTools   -> s.writeEmployees
    [] tool \in DeleteTools -> s.writePayrollDelete /\ s.finance
    [] OTHER                -> FinancialConfidential(tool) => s.finance

NotEnabled(tool) ==
  CASE tool \in DeleteTools -> "DESTRUCTIVE_ACTION_DISABLED"
    [] tool \in WriteTools  -> "WRITE_NOT_ENABLED"
    [] OTHER                -> "TOOL_NOT_ENABLED"

\* resolveCapability, which the capability report uses for every tool of the
\* manifest.
ResolveCapability(tool, s) ==
  CASE ~ConfigurationEnables(tool, s) -> NotEnabled(tool)
    [] ConfigurationEnables(tool, s) /\ s.profile \notin RequiredProfiles(tool)
         -> IF FinancialConfidential(tool) THEN "FINANCE_ACCESS_REQUIRED"
            ELSE "JISR_PERMISSION_DENIED"
    [] OTHER -> "available"

\* Mutant: both creations hang on one flag.
OneFlagForCreations(tool, s) ==
  CASE tool \in PunchTools \cup HireTools ->
         [profile |-> "hr_operations", enabled |-> s.writeAttendance]
    [] OTHER -> [profile |-> "finance",
                 enabled |-> s.writePayrollDelete /\ s.finance]

\* WRITE_TOOL_GATES, which both halves of a write carry.
WriteGate(tool, s) ==
  CASE tool \in PunchTools ->
         [profile |-> "hr_operations", enabled |-> s.writeAttendance]
    [] tool \in HireTools ->
         [profile |-> "hr_operations", enabled |-> s.writeEmployees]
    [] OTHER -> [profile |-> "finance",
                 enabled |-> s.writePayrollDelete /\ s.finance]

\* writeCapability
WriteCapability(tool, s) ==
  LET gate == WriteGate(tool, s)
  IN  CASE ~gate.enabled -> NotEnabled(tool)
        [] gate.enabled /\ s.profile # gate.profile -> "JISR_PERMISSION_DENIED"
        [] OTHER -> "available"

\* authorizeTool: the write gates, then the discovery tools, which every
\* profile may call, then the manifest.
AuthorizeTool(tool, s) ==
  CASE tool \in WriteTools      -> WriteCapability(tool, s)
    [] tool \in DISCOVERY_TOOLS -> "available"
    [] OTHER                    -> ResolveCapability(tool, s)

\* ToolRegistry.listFor, isToolDiscoverable
ListFor(s) ==
  {tool \in ManifestTools \cup WriteTools \cup DISCOVERY_TOOLS :
     AuthorizeTool(tool, s) = "available"}

-----------------------------------------------------------------------------
(* Reachable records.                                                      *)

\* The lists whose rows name their employee by code alone.
KeyedByCode == {"jisr_attendance_summary_get", "jisr_attendance_logs_list",
                "jisr_accrual_transactions_list",
                "jisr_employee_leave_summary_get"}

\* The lists that are scoped.  The others hold reference data, or are for
\* profiles that reach the whole organization.
ScopedTools == KeyedByCode \cup {"jisr_employees_list",
                                 "jisr_employee_basic_info_get"}

\* The identify functions of the services.
Identify(tool, p) ==
  IF tool \in KeyedByCode
  THEN [employeeId |-> Null, employeeCode |-> Code(p), lineManagerId |-> Null]
  ELSE [employeeId |-> Id(p), employeeCode |-> Code(p),
        lineManagerId |-> IF ManagerOf[p] = Null THEN Null
                          ELSE Id(ManagerOf[p])]

SameIdentifier(a, b) == a # Null /\ b # Null /\ a = b

\* Mutant: two levels of managers are followed.
IncludesIndirect(tool, p, s) ==
  LET who == Identify(tool, p)
      scope == ReachableScopeFor(s.profile)
      above == IF ManagerOf[p] = Null THEN Null ELSE ManagerOf[ManagerOf[p]]
  IN  \/ scope = "organization"
      \/ /\ scope # "none"
         /\ s.subject # Null
         /\ \/ SameIdentifier(who.employeeId, s.subject)
            \/ SameIdentifier(who.employeeCode, s.subject)
            \/ /\ scope = "direct_reports"
               /\ \/ SameIdentifier(who.lineManagerId, s.subject)
                  \/ above # Null /\ SameIdentifier(Id(above), s.subject)

\* scopeToReachable: whether it keeps the row of p.
KeepsRow(tool, p, s) ==
  LET who == Identify(tool, p)
      scope == ReachableScopeFor(s.profile)
  IN  \/ scope = "organization"
      \/ /\ scope # "none"
         /\ s.subject # Null
         /\ \/ SameIdentifier(who.employeeId, s.subject)
            \/ SameIdentifier(who.employeeCode, s.subject)
            \/ /\ scope = "direct_reports"
               /\ SameIdentifier(who.lineManagerId, s.subject)
=============================================================================
