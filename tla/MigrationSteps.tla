--------------------------- MODULE MigrationSteps ---------------------------
(***************************************************************************)
(* The forty-two schema migrations of the agent's MySQL database           *)
(* (infrastructure/mysql/migrations), statement by statement, and what     *)
(* MySQL makes of a statement.                                             *)
(*                                                                         *)
(* A schema is a set of objects <<table, piece>>: the table itself, or a    *)
(* group of columns, keys or triggers that one statement adds or removes.  *)
(* Tables keep their short names through the renaming of 20260923000001,   *)
(* which is an object of its own.  What a table holds is left out.         *)
(***************************************************************************)
EXTENDS Naturals, Sequences, FiniteSets, SequencesExt

Table(t) == <<t, "table">>
Statement(op, o, needs) == [op |-> op, obj |-> o, needs |-> needs, tracked |-> FALSE, guarded |-> FALSE, from |-> o]

(* tracker.createTable and tracker.createTrigger; t refers to refs         *)
Create(t, refs) == [Statement("create", Table(t), {Table(r) : r \in refs}) EXCEPT !.tracked = TRUE]
Trigger(t, name) == [Statement("create", <<t, name>>, {Table(t)}) EXCEPT !.tracked = TRUE]
(* knex.schema.createTable, alterTable, and either behind hasTable or      *)
(* hasColumn                                                               *)
CreateUntracked(t, refs) == Statement("create", Table(t), {Table(r) : r \in refs})
Add(t, piece) == Statement("create", <<t, piece>>, {Table(t)})
AddReference(t, piece, r) == Statement("create", <<t, piece>>, {Table(t), Table(r)})
Change(t, from, to) == [Statement("change", <<t, to>>, {Table(t)}) EXCEPT !.from = <<t, from>>]
Guarded(s) == [s EXCEPT !.guarded = TRUE]
DropPart(t, piece) == Statement("remove", <<t, piece>>, {Table(t)})
DropPartIfExists(t, piece) == Guarded(DropPart(t, piece))
DropTable(t) == Statement("dropTable", Table(t), {})
DropTables(ts) == [i \in DOMAIN ts |-> DropTable(ts[i])]
(* an append-only table refuses it while its trigger is there              *)
Update(t) == Statement("update", Table(t), {Table(t)})

-----------------------------------------------------------------------------
CoreCatalog == <<
  Create("organizations", {}), Create("users", {}),
  Create("organization_memberships", {"organizations", "users"}),
  Create("agent_definitions", {"organizations"}),
  Create("agent_versions", {"agent_definitions"}),
  Create("conversations", {"organizations", "users", "agent_definitions"}),
  Create("agent_sessions", {"organizations", "users", "conversations", "agent_versions"}),
  Create("agent_session_snapshots", {"agent_sessions"}) >>
CoreRuns == <<
  Create("messages", {"conversations"}),
  Create("runs", {"organizations", "users", "conversations", "agent_sessions", "agent_versions"}),
  Create("run_events", {"organizations", "runs"}),
  Create("tool_executions", {"runs", "agent_sessions"}) >>
CoreSandbox == <<
  Create("sandbox_sessions", {"organizations", "users"}),
  Create("process_executions", {"organizations", "users", "runs"}),
  Create("sandbox_executions", {"organizations", "users", "runs"}),
  Create("sandbox_audit_events", {"organizations", "users"}),
  Create("datasets", {"organizations", "users", "conversations", "agent_sessions"}) >>
CoreLedger == <<
  Create("artifacts", {"organizations", "users", "runs"}),
  Create("approvals", {"organizations", "runs"}),
  Create("domain_outbox", {}), Create("idempotency_records", {}),
  Trigger("messages", "forbid_update"), Trigger("messages", "forbid_delete") >>
CoreDown ==
  <<DropPartIfExists("messages", "forbid_update"), DropPartIfExists("messages", "forbid_delete")>>
  \o DropTables(<<"idempotency_records", "domain_outbox", "approvals", "artifacts", "datasets", "sandbox_audit_events",
                  "sandbox_executions", "process_executions", "sandbox_sessions", "tool_executions", "run_events",
                  "runs", "messages", "agent_session_snapshots", "agent_sessions", "conversations", "agent_versions",
                  "agent_definitions", "organization_memberships", "users", "organizations">>)
CorePlatformSchema == [up |-> CoreCatalog \o CoreRuns \o CoreSandbox \o CoreLedger, down |-> CoreDown]

OutboxDelivery == [
  up |-> <<Add("domain_outbox", "claims"), Add("domain_outbox", "claim_keys")>>,
  down |-> <<DropPart("domain_outbox", "claim_keys"), DropPart("domain_outbox", "claims")>>]
RunAuthorityCompatibility == [
  up |-> <<Create("organization_external_refs", {"organizations"}),
           Create("conversation_external_refs", {"conversations", "organizations", "users"})>>,
  down |-> DropTables(<<"conversation_external_refs", "organization_external_refs">>)]
RunCancelIntent == [up |-> <<Add("runs", "cancel")>>, down |-> <<DropPart("runs", "cancel")>>]
AgentSessionFencing == [up |-> <<Add("agent_sessions", "fence")>>, down |-> <<DropPart("agent_sessions", "fence")>>]
SnapshotFencing == [
  up |-> <<Add("agent_session_snapshots", "fence"), Add("agent_session_snapshots", "forbid_update"),
           Add("agent_session_snapshots", "forbid_delete")>>,
  down |-> <<DropPartIfExists("agent_session_snapshots", "forbid_update"),
             DropPartIfExists("agent_session_snapshots", "forbid_delete"), DropPart("agent_session_snapshots", "fence")>>]
SessionJournal == [
  up |-> <<Add("messages", "pi_entry"), Add("messages", "pi_keys")>>,
  down |-> <<[DropPart("messages", "pi_keys") EXCEPT !.op = "removeAll", !.from = <<"messages", "pi_entry">>]>>]
ToolExecutionClaims == [
  up |-> <<Add("tool_executions", "request_hash"), Add("sandbox_executions", "tool_claim"),
           AddReference("sandbox_executions", "tool_keys", "tool_executions")>>,
  down |-> <<DropPart("sandbox_executions", "tool_keys"), DropPart("sandbox_executions", "tool_claim"),
             DropPart("tool_executions", "request_hash")>>]
A2aProtocol == [
  up |-> <<Create("a2a_api_credentials", {"agent_definitions", "organizations", "users"}),
           Create("a2a_tasks", {"a2a_api_credentials", "agent_definitions", "conversations", "organizations", "runs", "users"}),
           Create("a2a_audit_events", {"organizations"})>>,
  down |-> DropTables(<<"a2a_audit_events", "a2a_tasks", "a2a_api_credentials">>)]
TraceSpans == [
  up |-> <<CreateUntracked("trace_spans", {"organizations", "runs", "users"})>>, down |-> DropTables(<<"trace_spans">>)]
RunTraceState == [up |-> <<Add("runs", "trace_state")>>, down |-> <<DropPart("runs", "trace_state")>>]
RunInteractions == [
  up |-> <<Create("run_interactions", {"agent_sessions", "organizations", "runs", "tool_executions", "users"})>>,
  down |-> DropTables(<<"run_interactions">>)]
InteractionResumePhase == [
  up |-> <<Add("run_interactions", "resume")>>, down |-> <<DropPart("run_interactions", "resume")>>]
RunTraceContext == [up |-> <<Add("runs", "trace_context")>>, down |-> <<DropPart("runs", "trace_context")>>]
AuthCredentials == [
  up |-> <<Guarded(CreateUntracked("auth_credentials", {}))>>, down |-> DropTables(<<"auth_credentials">>)]
ParentsFirst == [
  up |-> <<Create("cron_jobs", {"agent_definitions", "organizations", "users"}),
           Create("cron_job_runs", {"cron_jobs", "runs"})>>,
  down |-> DropTables(<<"cron_jobs", "cron_job_runs">>)]
CronJobs == [
  up |-> <<Create("cron_jobs", {"agent_definitions", "organizations", "users"}),
           Create("cron_job_runs", {"cron_jobs", "runs"})>>,
  down |-> DropTables(<<"cron_job_runs", "cron_jobs">>)]
OrgNameUnique == [
  up |-> <<Add("agent_definitions", "org_name")>>, down |-> <<DropPart("agent_definitions", "org_name")>>]
ContextIdOpaque == [
  up |-> <<Update("a2a_tasks"), Add("a2a_tasks", "owner_context")>>,
  down |-> <<DropPart("a2a_tasks", "owner_context"), Update("a2a_tasks")>>]
RunSubagentLineage == [
  up |-> <<AddReference("runs", "parent_run", "runs")>>, down |-> <<DropPart("runs", "parent_run")>>]
TaskState == [
  up |-> <<Create("task_todos", {"organizations", "users"}), Create("task_memories", {"organizations", "users"})>>,
  down |-> DropTables(<<"task_memories", "task_todos">>)]
ConversationLineage == [
  up |-> <<AddReference("conversations", "parent_run", "runs")>>, down |-> <<DropPart("conversations", "parent_run")>>]
UserSkillEnablement == [
  up |-> <<Create("user_skill_enablements", {"organizations", "users"})>>, down |-> DropTables(<<"user_skill_enablements">>)]
ExecJobs == [up |-> <<Create("exec_jobs", {})>>, down |-> DropTables(<<"exec_jobs">>)]
DshSessions == [
  up |-> <<Create("dsh_sessions", {}), Create("dsh_session_events", {})>>,
  down |-> DropTables(<<"dsh_session_events", "dsh_sessions">>)]
ExecArtifactsDatasets == [
  up |-> <<Create("exec_artifacts", {}), Create("exec_datasets", {})>>,
  down |-> DropTables(<<"exec_datasets", "exec_artifacts">>)]
QuotaReservations == [
  up |-> <<Create("workspace_quota_reservations", {})>>, down |-> DropTables(<<"workspace_quota_reservations">>)]
ClaimWithoutSkipLocked == [
  up |-> <<Add("cron_jobs", "claim_token"), Add("cron_jobs", "claim_key"), Add("domain_outbox", "token_key")>>,
  down |-> <<DropPart("domain_outbox", "token_key"), DropPart("cron_jobs", "claim_key"), DropPart("cron_jobs", "claim_token")>>]

(* RENAME TABLE for all of them at once, then one ALTER for every table    *)
RenamedTables == <<
  "a2a_api_credentials", "a2a_audit_events", "a2a_tasks", "agent_definitions", "agent_session_snapshots",
  "agent_sessions", "agent_versions", "approvals", "artifacts", "auth_credentials", "conversation_external_refs",
  "conversations", "cron_job_runs", "cron_jobs", "datasets", "domain_outbox", "dsh_session_events", "dsh_sessions",
  "exec_artifacts", "exec_datasets", "exec_jobs", "idempotency_records", "messages", "organization_external_refs",
  "organization_memberships", "organizations", "process_executions", "run_events", "run_interactions", "runs",
  "sandbox_audit_events", "sandbox_executions", "sandbox_sessions", "task_memories", "task_todos", "tool_executions",
  "trace_spans", "user_skill_enablements", "users", "workspace_quota_reservations">>
UpClauses == [i \in DOMAIN RenamedTables |-> Add(RenamedTables[i], "named")]
DownClauses == [i \in DOMAIN RenamedTables |-> DropPart(RenamedTables[i], "named")]
RenameTable == Statement("create", <<"schema", "prefix">>, {Table(RenamedTables[i]) : i \in DOMAIN RenamedTables})
UnrenameTable == Statement("remove", <<"schema", "prefix">>, {})
UpspecNaming == [up |-> <<RenameTable>> \o UpClauses, down |-> DownClauses \o <<UnrenameTable>>]

RewriteStoredMarkers == <<
  DropPartIfExists("messages", "forbid_update"), DropPartIfExists("agent_session_snapshots", "forbid_update"),
  Update("messages"), Update("agent_session_snapshots"),
  Add("messages", "forbid_update"), Add("agent_session_snapshots", "forbid_update") >>
DshNaming == [
  up |-> << Change("messages", "pi_entry", "session_entry"), Add("agent_sessions", "session_version"),
            Add("agent_versions", "no_sdk_version"), Add("agent_session_snapshots", "no_sdk_version") >> \o RewriteStoredMarkers,
  down |-> RewriteStoredMarkers \o
         << DropPart("agent_versions", "no_sdk_version"), DropPart("agent_session_snapshots", "no_sdk_version"),
            DropPart("agent_sessions", "session_version"), Change("messages", "session_entry", "pi_entry") >>]

RunCompletionNotifications == [
  up |-> <<Create("notification_deliveries", {"runs"}), Add("users", "notify_run_complete")>>,
  down |-> DropTables(<<"notification_deliveries">>) \o <<DropPartIfExists("users", "notify_run_complete")>>]
OrgSkills == [
  up |-> <<Create("org_skill_versions", {"organizations"}), Create("org_skills", {"organizations"}),
           Create("skill_share_requests", {"organizations"})>>,
  down |-> DropTables(<<"skill_share_requests", "org_skills", "org_skill_versions">>)]
AgentVersionSkillRefs == [
  up |-> <<Create("agent_version_skill_refs", {"agent_versions", "organizations"})>>,
  down |-> DropTables(<<"agent_version_skill_refs">>)]
MemberRoles == [
  up |-> <<Create("member_roles", {"organizations", "users"}), Create("member_role_events", {"organizations", "users"}),
           Update("member_roles")>>,
  down |-> DropTables(<<"member_role_events", "member_roles">>)]
ExecWorkspacePolicies == [
  up |-> <<Create("exec_workspace_policies", {})>>, down |-> DropTables(<<"exec_workspace_policies">>)]
ExecArtifactVisibility == [
  up |-> <<Guarded(Add("exec_artifacts", "visibility")), Guarded(Add("exec_artifacts", "revision_of")),
           Guarded(Add("exec_artifacts", "created_by_kind"))>>,
  down |-> <<DropPartIfExists("exec_artifacts", "visibility"), DropPartIfExists("exec_artifacts", "revision_of"),
             DropPartIfExists("exec_artifacts", "created_by_kind")>>]
ReviewLedger == [
  up |-> <<Create("review_tasks", {}), Create("review_items", {}), Create("review_materials", {}), Create("review_events", {})>>,
  down |-> DropTables(<<"review_events", "review_materials", "review_items", "review_tasks">>)]
BrowserAuthSessions == [
  up |-> <<Create("browser_auth_sessions", {"organizations", "users"})>>, down |-> DropTables(<<"browser_auth_sessions">>)]
SsoIdentities == [up |-> <<Create("sso_identities", {})>>, down |-> DropTables(<<"sso_identities">>)]
AgentVisibility == [
  up |-> <<Guarded(Add("agent_definitions", "visibility")),
           Create("agent_user_grants", {"agent_definitions", "organizations", "users"})>>,
  down |-> DropTables(<<"agent_user_grants">>) \o <<DropPartIfExists("agent_definitions", "visibility")>>]
RemoteConversations == [
  up |-> <<Create("remote_conversations", {"conversations", "organizations", "users"})>>,
  down |-> DropTables(<<"remote_conversations">>)]
(* the unique key a1 carries the foreign key on run_id until i2 does       *)
NotificationScenarios == [
  up |-> <<Guarded(Add("notification_deliveries", "dedupe_key")), Update("notification_deliveries"),
           Update("notification_deliveries"), Add("notification_deliveries", "i2"), Add("notification_deliveries", "a2"),
           [Add("notification_deliveries", "no_a1") EXCEPT !.needs = {<<"notification_deliveries", "i2">>}], Guarded(Add("users", "notify_review_result")), Update("users"),
           Guarded(Add("users", "notify_review_pending")), Guarded(Add("users", "notify_run_waiting")),
           Guarded(Add("cron_jobs", "notify_policy"))>>,
  down |-> <<DropPart("notification_deliveries", "no_a1"), DropPart("notification_deliveries", "a2"),
             DropPart("notification_deliveries", "i2"), DropPartIfExists("notification_deliveries", "dedupe_key"),
             DropPartIfExists("users", "notify_review_result"), DropPartIfExists("users", "notify_review_pending"),
             DropPartIfExists("users", "notify_run_waiting"), DropPartIfExists("cron_jobs", "notify_policy")>>]
UserDepartment == [
  up |-> <<Guarded(Add("users", "department"))>>, down |-> <<DropPartIfExists("users", "department")>>]

MigrationList == <<
  CorePlatformSchema, OutboxDelivery, RunAuthorityCompatibility, RunCancelIntent, AgentSessionFencing, SnapshotFencing,
  SessionJournal, ToolExecutionClaims, A2aProtocol, TraceSpans, RunTraceState, RunInteractions, InteractionResumePhase,
  RunTraceContext, AuthCredentials, CronJobs, OrgNameUnique, ContextIdOpaque, RunSubagentLineage, TaskState,
  ConversationLineage, UserSkillEnablement, ExecJobs, DshSessions, ExecArtifactsDatasets, QuotaReservations,
  ClaimWithoutSkipLocked, UpspecNaming, DshNaming, RunCompletionNotifications, OrgSkills, AgentVersionSkillRefs,
  MemberRoles, ExecWorkspacePolicies, ExecArtifactVisibility, ReviewLedger, BrowserAuthSessions, SsoIdentities,
  AgentVisibility, RemoteConversations, NotificationScenarios, UserDepartment >>
N == Len(MigrationList)

-----------------------------------------------------------------------------
(* What MySQL makes of a statement.  An object keeps what it refers to:    *)
(* the tables of its foreign keys, the index that carries one.             *)
Statements == UNION {ToSet(MigrationList[k].up) : k \in 1..N}
Uses == UNION {{<<s.obj, o>> : o \in s.needs} : s \in {x \in Statements : x.op = "create"}}
Removed(schema, s) ==
  CASE s.op = "dropTable" -> {o \in schema : o[1] = s.obj[1]}
    [] s.op = "removeAll" -> {s.obj, s.from}
    [] OTHER -> {s.obj}
Held(schema, gone) == \E u \in Uses : u[1] \in schema \ gone /\ u[2] \in gone
Accepts(schema, s) ==
  CASE s.op = "create" -> s.obj \notin schema /\ s.needs \subseteq schema
    [] s.op = "change" -> s.from \in schema /\ s.obj \notin schema
    [] s.op = "update" -> s.needs \subseteq schema /\ <<s.obj[1], "forbid_update">> \notin schema
    [] OTHER -> Removed(schema, s) \subseteq schema /\ ~Held(schema, Removed(schema, s))
Effect(schema, s) ==
  CASE s.op = "create" -> schema \cup {s.obj}
    [] s.op = "change" -> (schema \ {s.from}) \cup {s.obj}
    [] s.op = "update" -> schema
    [] OTHER -> schema \ Removed(schema, s)
(* hasTable, hasColumn, DROP ... IF EXISTS: nothing left to do             *)
Skips(schema, s) ==
  \/ s.guarded /\ s.op = "create" /\ s.obj \in schema
  \/ s.guarded /\ s.op = "remove" /\ s.obj \notin schema
  \/ s.op = "dropTable" /\ s.obj \notin schema

(* the schema after the first migrations, one entry each, from none on     *)
Schemas ==
  FoldLeft(LAMBDA sofar, migration : Append(sofar, FoldLeft(Effect, Last(sofar), migration.up)), <<{}>>, MigrationList)
SchemaAfter(k) == Schemas[k + 1]
TablesOf(objects) == {o \in objects : o[2] = "table"}
=============================================================================
