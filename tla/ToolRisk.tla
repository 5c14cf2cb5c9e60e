------------------------------ MODULE ToolRisk ------------------------------
(***************************************************************************)
(* What a tool call costs: nothing, a person's approval, or a refusal.     *)
(* The platform's risk policy (tool-risk-policy.ts) is loaded when the     *)
(* process starts; an agent version brings its own policy and its          *)
(* authorization (agent-version-bindings.ts); every run merges the two     *)
(* (tool-risk-resolver.ts, policy/install.ts).  A version is previewed     *)
(* (agent-config-validator.ts), saved (agent-catalog-service.ts) and bound *)
(* again by each run, by three different pieces of code.                   *)
(*                                                                         *)
(* A policy is a partial function from the entries it can hold to values.  *)
(* Risk levels are 0 (low) to 3 (critical), decisions 0 (allow),           *)
(* 1 (require_approval) and 2 (deny), Bad is a value that is neither.      *)
(***************************************************************************)
EXTENDS Naturals, FiniteSets, FiniteSetsExt

CONSTANTS Tools,          \* the tools a model asks about
          Written,        \* the values entries are given
          MaxPlatform, MaxVersion   \* bounds: entries of a policy
RiskAssumption ==
  /\ Tools \subseteq {"bash", "delegate_to_remote_agent", "mcp_on", "mcp_off", "mcp_odd", "stray"}
  /\ Written \subseteq 0..4 /\ MaxPlatform \in Nat /\ MaxVersion \in Nat

VARIABLES platform,   \* the risk policy the process was started with
          inventory,  \* mcpReadiness.status
          draft,      \* the configuration being edited
          preview,    \* what validateConfig said of it
          answer,     \* what saving it answered
          version,    \* the agent's active version
          run         \* the latest run of that version

riskVars == <<platform, inventory, draft, preview, answer, version, run>>

Levels == 0..3
Decisions == 0..2
Bad == 4
High == 2
Critical == 3
Allow == 0
Deny == 2

-----------------------------------------------------------------------------
(* The tools: a sandbox tool, the remote delegation, and MCP tools the     *)
(* version enables (mcp_on), does not enable (mcp_off), or enables on a    *)
(* server whose id does not survive in the public name (mcp_odd: a dot or  *)
(* a double underscore); and a name nothing registers.                     *)
IsMcp(t) == t \in {"mcp_on", "mcp_off", "mcp_odd"}
ServerOf(t) == IF t = "mcp_odd" THEN "odd.server" ELSE "server"
EnabledTools == {"mcp_on", "mcp_odd"}
SandboxTools == {"bash"}
ExternalHostTools == {"delegate_to_remote_agent"}

ClassifyTool(t) ==
  CASE t \in SandboxTools -> "local_low"
    [] t \in ExternalHostTools \/ IsMcp(t) -> "external_high"
    [] OTHER -> "unknown"

(* The server and the bare tool read back from a public name: none for a   *)
(* tool of the host, and not the server's own for mcp_odd.                 *)
SplitMcpName(t) == IF t \in {"mcp_on", "mcp_off"} THEN {ServerOf(t)} ELSE {}

UnknownIsHigh(c) == IF c = "local_low" THEN 0 ELSE High
DefaultClassRisk(c) == CASE c = "local_low" -> 0 [] c = "external_high" -> High [] OTHER -> Critical
DefaultApproval(l) == CASE l <= 1 -> Allow [] l = High -> 1 [] OTHER -> Deny

(* Entries of a risk policy: an exact name, server::tool, the prefixes     *)
(* mcp__* and *, the tables of a server, a class, and the price of a level.*)
ToolEntries == {<<"tool", t>> : t \in Tools} \cup {<<"scoped", t>> : t \in {u \in Tools : SplitMcpName(u) # {}}}
PatternEntries == {<<"pattern", "mcp__">>, <<"pattern", "">>}
ServerEntries == {<<"serverTool", t>> : t \in {u \in Tools : IsMcp(u)}}
                   \cup {<<"server", ServerOf(t)>> : t \in {u \in Tools : IsMcp(u)}}
ClassEntries == {<<"class", c>> : c \in {"local_low", "external_high"}}
RiskEntries == ToolEntries \cup PatternEntries \cup ServerEntries \cup ClassEntries
PriceNames == <<"low", "medium", "high", "critical">>
PriceEntries == {<<"price", PriceNames[i]>> : i \in 1..4}
PriceOf(l) == <<"price", PriceNames[l + 1]>>

(* Entries of a version besides: toolPolicy.tools, the nested policy of a  *)
(* server, and switches (value 0) for a bound server, review and delegation.*)
DecideEntries == {<<"decide", t>> : t \in Tools}
NestedEntries == {<<"nested", t>> : t \in Tools \cap EnabledTools} \cup {<<"default", "server">>}
ModelEntries == {<<"model", "id">>}     \* 0: a model of the registry
Switches == {<<"switch", "mcp">>, <<"switch", "review">>, <<"switch", "delegation">>}

Has(p, e) == e \in DOMAIN p
With(p, e, v) == [x \in DOMAIN p \cup {e} |-> IF x = e THEN v ELSE p[x]]
Empty == [x \in {} |-> 0]
Strictest(a, b) == IF b > a THEN b ELSE a

-----------------------------------------------------------------------------
(* resolveToolRiskLevel: the first entry that speaks for the tool, most    *)
(* specific first.  cls and servers are what the caller took the tool for. *)
Speaks(p, t, servers, cls) ==
  LET scoped == IF servers = {} THEN <<"none", "none">> ELSE <<"scoped", t>>
      order == <<<<"tool", t>>, scoped,
                 IF IsMcp(t) THEN <<"pattern", "mcp__">> ELSE <<"none", "none">>,
                 <<"pattern", "">>,
                 IF servers = {} THEN <<"none", "none">> ELSE <<"serverTool", t>>,
                 IF servers = {} THEN <<"none", "none">> ELSE <<"server", CHOOSE s \in servers : TRUE>>,
                 <<"class", cls>>>>
      hits == {i \in DOMAIN order : Has(p, order[i])}
  IN IF hits = {} THEN {} ELSE {order[Min(hits)]}

ResolveToolRiskLevel(p, t, servers, cls) ==
  LET hit == Speaks(p, t, servers, cls)
      level == IF hit = {} THEN DefaultClassRisk(cls) ELSE p[CHOOSE e \in hit : TRUE]
      byClass == hit \subseteq {<<"class", cls>>}
  IN [level |-> level,
      configured |-> ~byClass \/ cls = "unknown" \/ level # DefaultClassRisk(cls)]

DecisionForRiskLevel(p, l) == IF Has(p, PriceOf(l)) THEN p[PriceOf(l)] ELSE DefaultApproval(l)

(* buildAgentVersionToolRiskBindings: the risk half of a version, if it    *)
(* has one.  The tables of the servers count only for a bound server.      *)
TenantPolicy(v) ==
  LET kept == {e \in DOMAIN v : \/ e \in ToolEntries \cup PatternEntries \cup ClassEntries \cup PriceEntries
                                \/ e \in ServerEntries /\ Has(v, <<"switch", "mcp">>)}
  IN [e \in kept |-> v[e]]

(* The level a run works with: the platform's, the version's when it says  *)
(* something, and high for an MCP tool the platform does not speak of.     *)
PlatformOnly(p, hit, t) == Strictest(hit.level, IF IsMcp(t) /\ ~hit.configured THEN High ELSE 0)
TenantIgnoresPlatform(p, v, t) ==
  LET tenantHit == ResolveToolRiskLevel(TenantPolicy(v), t, SplitMcpName(t), ClassifyTool(t))
      base == ResolveToolRiskLevel(p, t, SplitMcpName(t), ClassifyTool(t))
  IN IF DOMAIN TenantPolicy(v) # {} /\ tenantHit.configured THEN tenantHit.level ELSE PlatformOnly(p, base, t)
EffectiveRisk(p, v, t) ==
  LET base == ResolveToolRiskLevel(p, t, SplitMcpName(t), ClassifyTool(t))
      tenant == TenantPolicy(v)
      tenantHit == ResolveToolRiskLevel(tenant, t, SplitMcpName(t), ClassifyTool(t))
  IN Strictest(PlatformOnly(p, base, t),
               IF DOMAIN tenant # {} /\ tenantHit.configured THEN tenantHit.level ELSE 0)

(* buildRunPolicyResolver.                                                 *)
PriceOfVersionOnly(p, v, t) ==
  LET risk == EffectiveRisk(p, v, t)
  IN DecisionForRiskLevel(IF DOMAIN TenantPolicy(v) = {} THEN p ELSE TenantPolicy(v), risk)
RunPolicy(p, v, t) ==
  LET risk == EffectiveRisk(p, v, t) IN
  Strictest(DecisionForRiskLevel(p, risk),
            IF DOMAIN TenantPolicy(v) = {} THEN Allow ELSE DecisionForRiskLevel(TenantPolicy(v), risk))

(* buildRunRiskResolver: the level handed to the approval ledger, or none. *)
RiskOfPlatformHit(p, v, t) == {ResolveToolRiskLevel(p, t, SplitMcpName(t), ClassifyTool(t)).level}
RunRisk(p, v, t) ==
  LET base == ResolveToolRiskLevel(p, t, SplitMcpName(t), ClassifyTool(t))
      tenant == TenantPolicy(v)
      spoken == DOMAIN tenant # {} /\ ResolveToolRiskLevel(tenant, t, SplitMcpName(t), ClassifyTool(t)).configured
  IN CASE ~base.configured /\ ~spoken /\ IsMcp(t) -> {High}
       [] base.configured \/ spoken -> {EffectiveRisk(p, v, t)}
       [] OTHER -> {}

(* buildAgentVersionAuthorization and authorizationDecision.               *)
Nested(v, t) ==
  CASE Has(v, <<"nested", t>>) -> v[<<"nested", t>>]
    [] Has(v, <<"default", ServerOf(t)>>) -> v[<<"default", ServerOf(t)>>]
    [] OTHER -> Allow
AuthorizationDecision(v, t) ==
  LET named == IF Has(v, <<"decide", t>>) THEN v[<<"decide", t>>] ELSE Allow IN
  CASE IsMcp(t) /\ ~(Has(v, <<"switch", "mcp">>) /\ t \in EnabledTools) -> Deny
    [] IsMcp(t) -> Strictest(Nested(v, t), named)
    [] OTHER -> named

(* resolveInstalledPolicy: what the guard of a run answers a call.         *)
VersionDecides(p, v, t) == IF Has(v, <<"decide", t>>) THEN RunPolicy(p, v, t) ELSE Strictest(RunPolicy(p, v, t), AuthorizationDecision(v, t))
RunDecision(p, v, t) == Strictest(RunPolicy(p, v, t), AuthorizationDecision(v, t))

(* describeRisk: the capabilities view, which knows the server of an MCP   *)
(* tool and takes every tool of the host for a local one.                  *)
DescribeRisk(p, t) ==
  LET servers == IF IsMcp(t) THEN {ServerOf(t)} ELSE {}
      cls == IF IsMcp(t) THEN "external_high" ELSE "local_low"
  IN DecisionForRiskLevel(p, ResolveToolRiskLevel(p, t, servers, cls).level)

-----------------------------------------------------------------------------
(* AgentConfigValidator.validate, used by the preview.                     *)
ValidModelPolicy(c) == Has(c, <<"model", "id">>) => c[<<"model", "id">>] # Bad
ValidToolPolicy(c) ==
  /\ \A e \in DOMAIN c \cap (ToolEntries \cup PatternEntries \cup ClassEntries) : c[e] \in Levels /\ e # <<"pattern", "">>
  /\ \A e \in DOMAIN c \cap PriceEntries : c[e] \in Decisions
  /\ \A e \in DOMAIN c \cap DecideEntries : c[e] \in Decisions /\ e[2] # "stray"
ValidMcpServers(c) ==
  Has(c, <<"switch", "mcp">>) =>
    /\ inventory = "ready"
    /\ \A e \in DOMAIN c \cap NestedEntries : c[e] \in Decisions
    /\ \A e \in DOMAIN c \cap ServerEntries : e[1] = "server" => c[e] \in Levels
Exclusive(c) == ~(Has(c, <<"switch", "review">>) /\ Has(c, <<"switch", "delegation">>))
ValidateServers(c) == ValidMcpServers(c) /\ Exclusive(c)
Validate(c) == ValidModelPolicy(c) /\ ValidToolPolicy(c) /\ ValidMcpServers(c) /\ Exclusive(c)

(* bindAgentVersionConfig, with loadMcpConfig for the servers it binds.    *)
LoadMcpConfig(c) ==
  Has(c, <<"switch", "mcp">>) =>
    \A e \in DOMAIN c : /\ e \in ServerEntries => c[e] \in Levels
                        /\ e \in NestedEntries => c[e] \in Decisions
BindServersOnly(c) == LoadMcpConfig(c) /\ Exclusive(c)
BindAgentVersionConfig(c) ==
  /\ \A e \in DOMAIN c \cap DecideEntries : c[e] \in Decisions
  /\ LoadMcpConfig(c) /\ Exclusive(c)

(* resolveConcreteModel and loadToolRiskPolicy, at the start of a run.     *)
ResolveConcreteModel(c) == ValidModelPolicy(c)
LoadToolRiskPolicy(c) ==
  \A e \in DOMAIN TenantPolicy(c) : c[e] \in IF e \in PriceEntries THEN Decisions ELSE Levels

-----------------------------------------------------------------------------
RiskInit ==
  /\ platform = Empty /\ inventory = "unknown" /\ draft = Empty /\ version = Empty
  /\ preview = "none" /\ answer = "none" /\ run = "none"

(* The process is deployed again with another policy file, whose exact     *)
(* names must be known tools.                                              *)
Deploy ==
  /\ Cardinality(DOMAIN platform) < MaxPlatform /\ draft = Empty /\ inventory = "unknown"
  /\ preview = "none" /\ answer = "none" /\ run = "none"
  /\ \E e \in (RiskEntries \ {<<"tool", "stray">>}) \cup PriceEntries : \E x \in Written \cap (IF e \in PriceEntries THEN Decisions ELSE Levels) :
       /\ ~Has(platform, e) /\ platform' = With(platform, e, x)
  /\ UNCHANGED <<inventory, draft, preview, answer, version, run>>

(* The inventory of the MCP servers answers.                               *)
Discovered ==
  /\ inventory = "unknown" /\ inventory' = "ready"
  /\ UNCHANGED <<platform, draft, preview, answer, version, run>>

(* An administrator writes an entry into the configuration.                *)
Write ==
  /\ Cardinality(DOMAIN draft) < MaxVersion
  /\ \E e \in RiskEntries \cup PriceEntries \cup DecideEntries \cup NestedEntries \cup ModelEntries \cup Switches :
       \E x \in Written \cap (CASE e \in Switches -> {0} [] e \in ModelEntries -> {0, Bad}
                                [] e \in RiskEntries -> Levels \cup {Bad} [] OTHER -> Decisions \cup {Bad}) :
         /\ ~Has(draft, e) /\ draft' = With(draft, e, x)
  /\ preview' = "none" /\ answer' = "none"
  /\ UNCHANGED <<platform, inventory, version, run>>

Preview ==
  /\ preview = "none" /\ preview' = IF Validate(draft) THEN "valid" ELSE "invalid"
  /\ UNCHANGED <<platform, inventory, draft, answer, version, run>>

(* createAgent, createVersion: the configuration is bound as a probe.      *)
Save ==
  /\ answer = "none"
  /\ answer' = IF BindAgentVersionConfig(draft) THEN "saved" ELSE "refused"
  /\ IF BindAgentVersionConfig(draft) THEN version' = draft /\ run' = "none" ELSE UNCHANGED <<version, run>>
  /\ UNCHANGED <<platform, inventory, draft, preview>>

(* A run of the active version binds it and builds its resolvers.          *)
StartRun ==
  /\ run = "none"
  /\ run' = IF BindAgentVersionConfig(version) /\ ResolveConcreteModel(version) /\ LoadToolRiskPolicy(version) THEN "running" ELSE "failed"
  /\ UNCHANGED <<platform, inventory, draft, preview, answer, version>>

RiskNext == Deploy \/ Discovered \/ Write \/ Preview \/ Save \/ StartRun
RiskSpec == RiskInit /\ [][RiskNext]_riskVars

RiskTypeOK ==
  /\ \A e \in DOMAIN platform : platform[e] \in Levels
  /\ \A e \in DOMAIN draft : draft[e] \in Levels \cup {Bad}
  /\ \A e \in DOMAIN version \cap DecideEntries : version[e] \in Decisions
  /\ preview \in {"none", "valid", "invalid"} /\ answer \in {"none", "saved", "refused"}
  /\ run \in {"none", "running", "failed"} /\ inventory \in {"unknown", "ready"}

-----------------------------------------------------------------------------
Running == run = "running"

(* A version never lowers the level of a call nor what the platform asks   *)
(* for that level, whatever the platform's table of prices.  A call is     *)
(* cheaper than without the version in one case: the version raised its    *)
(* level to one the platform itself prices lower, as a table may           *)
(* (tool-risk-policy.ts does not refuse it).                               *)
TenantOnlyTightens ==
  Running => \A t \in Tools :
    LET level == EffectiveRisk(platform, version, t)
        alone == EffectiveRisk(platform, Empty, t) IN
    /\ level >= alone
    /\ RunDecision(platform, version, t) >= DecisionForRiskLevel(platform, level)
    /\ RunDecision(platform, version, t) < RunPolicy(platform, Empty, t) =>
         level > alone /\ DecisionForRiskLevel(platform, level) < DecisionForRiskLevel(platform, alone)

(* The level the ledger records for a call is the one its decision was     *)
(* taken at.                                                               *)
RecordedRisk ==
  Running => \A t \in Tools : \A l \in RunRisk(platform, version, t) :
               /\ RunPolicy(platform, version, t) >= DecisionForRiskLevel(platform, l)
               /\ l = EffectiveRisk(platform, version, t)

(* What the version decides about a tool by name is never undercut by a    *)
(* risk entry, a price or a nested policy.                                 *)
DecisionsHold ==
  Running => \A t \in Tools : Has(version, <<"decide", t>>) =>
               RunDecision(platform, version, t) >= version[<<"decide", t>>]

(* What a version adds to the platform's policy only raises a call's level,*)
(* which is the level on record, never undercuts the platform's price of   *)
(* that level, and its own decisions stand.                                *)
RiskTightens == TenantOnlyTightens /\ RecordedRisk /\ DecisionsHold

=============================================================================
