----------------------------- MODULE FieldPolicy -----------------------------
(***************************************************************************)
(* Which fields of a record a caller receives: the classification of the   *)
(* fields, what each profile may receive                                   *)
(* (src/core/authorization/field-policy.ts), the mappers that rename what  *)
(* is left (src/core/jisr/mappers) and the field groups the tools declare  *)
(* (src/core/tools).  A record is the set of its fields that hold a value, *)
(* and how a field is renamed does not matter, only whether it is.         *)
(***************************************************************************)
EXTENDS Authorization

\* EMPLOYEE_FIELD_CLASSIFICATIONS and WEBHOOK_FIELD_CLASSIFICATIONS: the
\* fields of each class.
EMPLOYEE_FIELD_CLASSIFICATIONS ==
  [internal_operational |->
     {"id", "employee_id", "code", "status", "is_active", "is_invited",
      "joining_date", "terminate_date", "delete_date", "created_at",
      "updated_at", "last_active_time", "working_experience_period",
      "job_title", "department", "business_unit", "employment_type",
      "location", "line_manager"},
   employee_personal |->
     {"full_name_en", "full_name_ar", "email", "telephone", "avatar",
      "nationality"},
   employee_sensitive |->
     {"gender", "marital_status", "date_of_birth", "passport_number",
      "document_number", "address"},
   financial_confidential |->
     {"bank", "basic_salary", "first_salary_pay_date",
      "last_salary_pay_date"},
   authentication_secret |-> {}]

WEBHOOK_FIELD_CLASSIFICATIONS ==
  [internal_operational |->
     {"id", "name", "description", "endpoint", "http_method",
      "request_format", "status", "actions", "organization", "agreegator",
      "created_at", "updated_at"},
   employee_personal |-> {}, employee_sensitive |-> {},
   financial_confidential |-> {},
   authentication_secret |->
     {"auth_data", "auth_type", "auth_position", "custom_header"}]

Classified(registry) == UNION {registry[class] : class \in DOMAIN registry}

\* The fields that FIELD_MAP of each mapper renames; no others are returned.
EmployeeMap ==
  {"id", "employee_id", "code", "full_name_en", "full_name_ar", "email",
   "telephone", "status", "is_active", "joining_date", "job_title",
   "department", "business_unit", "employment_type", "location",
   "nationality", "line_manager", "basic_salary", "first_salary_pay_date",
   "last_salary_pay_date"}

WebhookMap ==
  {"id", "name", "description", "endpoint", "http_method", "request_format",
   "status", "actions", "created_at", "updated_at"}

-----------------------------------------------------------------------------
\* Mutant: an enabled finance surface is taken for a finance caller.
AllowedBySurface(s) ==
  IF s.profile = "platform_operator" THEN {}
  ELSE {"public_reference", "internal_operational"}
       \cup (IF s.profile # "integration_admin" THEN {"employee_personal"}
             ELSE {})
       \cup (IF s.finance THEN {"financial_confidential"} ELSE {})

\* allowedClassifications
AllowedClassifications(s) ==
  IF s.profile = "platform_operator" THEN {}
  ELSE {"public_reference", "internal_operational"}
       \cup (IF s.profile # "integration_admin" THEN {"employee_personal"}
             ELSE {})
       \cup (IF s.profile = "finance" /\ s.finance
             THEN {"financial_confidential"} ELSE {})

\* applyFieldPolicy: what is left of a record, the classes withheld from it,
\* and the fields nobody has classified.
ApplyFieldPolicy(record, registry, allowed) ==
  [record |-> {f \in record : \E class \in allowed \cap DOMAIN registry :
                                 f \in registry[class]},
   redacted |-> {class \in DOMAIN registry \ allowed :
                   registry[class] \cap record # {}},
   unclassified |-> record \ Classified(registry)]

\* mapEmployees and mapWebhooks, on one page: the fields returned of each
\* record, and the warnings.  Only the employees' mapper says what was
\* redacted.
MapPage(page, registry, map, saysRedacted, allowed) ==
  LET policy(record) == ApplyFieldPolicy(record, registry, allowed)
  IN  [records |-> {policy(record).record \cap map : record \in page},
       warnings |->
         {w \in {"FIELDS_REDACTED"} :
            saysRedacted /\ \E r \in page : policy(r).redacted # {}}
         \cup {w \in {"SCHEMA_DRIFT"} :
                 \E r \in page : policy(r).unclassified # {}}]

\* What each of the three tools that return records field by field makes of a
\* page.
ReturnedPage(tool, page, s) ==
  IF tool = "jisr_webhooks_list"
  THEN MapPage(page, WEBHOOK_FIELD_CLASSIFICATIONS, WebhookMap, FALSE,
               AllowedClassifications(s))
  ELSE MapPage(page, EMPLOYEE_FIELD_CLASSIFICATIONS, EmployeeMap, TRUE,
               AllowedClassifications(s))

RegistryOf(tool) == IF tool = "jisr_webhooks_list"
                    THEN WEBHOOK_FIELD_CLASSIFICATIONS
                    ELSE EMPLOYEE_FIELD_CLASSIFICATIONS

MappedTools == {"jisr_employees_list", "jisr_employee_basic_info_get",
                "jisr_webhooks_list"}

\* declaredFieldGroups
DeclaredFieldGroups(tool) ==
  IF tool = "jisr_webhooks_list" THEN {"internal_operational"}
  ELSE {"internal_operational", "employee_personal"}
=============================================================================
