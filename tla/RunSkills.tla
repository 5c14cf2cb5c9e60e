------------------------------ MODULE RunSkills ------------------------------
(***************************************************************************)
(* The skills one run carries: what an agent version may select            *)
(* (contract skill-policy, checked by skill-policy-config when it is       *)
(* saved), what the run's start reports (run-skill-diagnostics), what its  *)
(* executor resolves (skills/run-skills), what the model is shown          *)
(* (published-skills-provider) and what the execution service mounts on    *)
(* each call (contract skill-manifest, exec http/app).                     *)
(*                                                                         *)
(* Each name has one organisation version and one version of the user's.   *)
(* Releases, ledgers and stores change between any two steps of the run.   *)
(***************************************************************************)
EXTENDS Naturals, FiniteSets

CONSTANTS Names,       \* skill names
          Release,     \* the system skills of the release deployed first
          Releases,    \* the system skills a later deployment may bring
          SkillsMax,   \* ENABLED_SKILLS_MAX and SYSTEM_SKILLS_MAX
          MaxChanges,  \* bound: changes of releases, ledgers and stores
          Modes,       \* the policies under study: system modes
          UserModes    \* and user modes

RunSkillsAssumption ==
    /\ SkillsMax \in Nat /\ MaxChanges \in Nat
    /\ Release \subseteq Names /\ Releases \subseteq SUBSET Names
    /\ Modes \subseteq {"all", "allowlist", "none"}
    /\ UserModes \subseteq {"allow", "deny"}

VARIABLES release, \* the system packages on the disk of each service
          org,     \* org_skill_versions: the status of each name's version
          orgDisk, \* names whose organisation version has its bytes
          user,    \* user_skill_enablements: names with a row
          userDisk,\* names whose enabled version has its bytes
          changes, \* changes made so far
          policy,  \* the skillPolicy of the agent version that runs
          summary, \* effectiveSummary.skills as the save answered it
          run,     \* the run's progress and its resolved list
          told,    \* skillDiagnostics of run.started
          call     \* the last call to the execution service

vars == <<release, org, orgDisk, user, userDisk, changes, policy, summary,
          run, told, call>>
world == <<release, org, orgDisk, user, userDisk>>

Entry == [tier : {"system", "org", "user"}, name : Names]
Codes == {"revoked", "missing", "mismatch", "user_version_unusable",
          "not_in_release", "name_conflict"}
Diagnostic == [tier : {"system", "org", "user"}, name : Names, code : Codes]

On(tier, ns) == {[tier |-> tier, name |-> n] : n \in ns}
Because(code, tier, ns) ==
    {[tier |-> tier, name |-> n, code |-> code] : n \in ns}
NamesOf(es) == {e.name : e \in es}

\* A policy as it is parsed; the system names are those of an allowlist.
SkillPolicies == [mode : Modes, names : SUBSET Names, org : SUBSET Names,
                  user : UserModes]

DefaultSkillPolicy == [mode |-> "all", names |-> {}, org |-> {},
                       user |-> "allow"]

Init ==
    /\ release = [s \in {"agent", "exec"} |-> Release]
    /\ org = [n \in Names |-> "none"]
    /\ orgDisk = {}
    /\ user = {}
    /\ userDisk = {}
    /\ changes = 0
    /\ policy = DefaultSkillPolicy
    /\ summary = [fresh |-> FALSE, skills |-> {}]
    /\ run = [step |-> "none", skills |-> {}, excluded |-> {}]
    /\ told = {}
    /\ call = [outcome |-> "none", mounted |-> {}]

-----------------------------------------------------------------------------
(* Saving a version's skillPolicy. *)

\* parseSkillPolicy, the system layer: names go with an allowlist and only
\* with one.
ParseSystem(p) == IF p.mode = "allowlist" THEN p.names # {} ELSE p.names = {}

\* parseSkillPolicy, across the layers: one provider for each name, and no
\* more than the limit of what can be counted without the release.
ParseAcross(p) ==
    /\ p.mode = "allowlist" => p.names \cap p.org = {}
    /\ Cardinality(p.names) + Cardinality(p.org) <= SkillsMax

ParseSkillPolicy(p) == ParseSystem(p) /\ ParseAcross(p)

\* The system skills the policy selects of a release.
SystemOf(p, names) ==
    CASE p.mode = "none" -> {}
      [] p.mode = "all" -> names
      [] OTHER -> p.names \cap names

\* skillPolicyTooLarge.
TooLarge(n) == n > SkillsMax

\* validateSkillPolicySemantics: allowlisted names are in the release, bound
\* versions are active, and the expanded list is within the limit.
ValidateSkillPolicySemantics(p) ==
    /\ p.mode = "allowlist" => p.names \subseteq release["agent"]
    /\ \A n \in p.org : org[n] = "active"
    /\ ~TooLarge(Cardinality(SystemOf(p, release["agent"]))
                 + Cardinality(p.org))

\* AgentCatalogService saves a version; the answer lists what it expands to.
SavePolicy(p) ==
    /\ run.step = "none"
    /\ ParseSkillPolicy(p)
    /\ ValidateSkillPolicySemantics(p)
    /\ policy' = p
    /\ summary' = [fresh |-> TRUE,
                   skills |-> On("system", SystemOf(p, release["agent"]))
                              \cup On("org", p.org)]
    /\ UNCHANGED <<world, changes, run, told, call>>

-----------------------------------------------------------------------------
(* What changes meanwhile. *)

Change ==
    /\ changes < MaxChanges
    /\ changes' = changes + 1
    /\ summary' = [summary EXCEPT !.fresh = FALSE]
    /\ UNCHANGED <<policy, run, told, call>>

\* One service is deployed with another release; a worker keeps the packages
\* of its image for as long as it executes the run.
Deploy(s, names) ==
    /\ Change
    /\ s = "agent" => run.step = "none"
    /\ release[s] # names
    /\ release' = [release EXCEPT ![s] = names]
    /\ UNCHANGED <<org, orgDisk, user, userDisk>>

\* publishOrgSkillArchive: not a name of the release.
PublishOrg(n) ==
    /\ Change
    /\ n \notin release["agent"]
    /\ org[n] = "none"
    /\ org' = [org EXCEPT ![n] = "active"]
    /\ orgDisk' = orgDisk \cup {n}
    /\ UNCHANGED <<release, user, userDisk>>

\* An admin deprecates or revokes the version.
SetStatus(n, status) ==
    /\ Change
    /\ <<org[n], status>> \in {<<"active", "deprecated">>,
                               <<"active", "revoked">>,
                               <<"deprecated", "revoked">>}
    /\ org' = [org EXCEPT ![n] = status]
    /\ UNCHANGED <<release, orgDisk, user, userDisk>>

\* The user enables a draft: not a name of the release or of the
\* organisation.
EnableUser(n) ==
    /\ Change
    /\ n \notin user
    /\ n \notin release["agent"]
    /\ org[n] \in {"none", "revoked"}
    /\ user' = user \cup {n}
    /\ userDisk' = userDisk \cup {n}
    /\ UNCHANGED <<release, org, orgDisk>>

DisableUser(n) ==
    /\ Change
    /\ n \in user
    /\ user' = user \ {n}
    /\ UNCHANGED <<release, org, orgDisk, userDisk>>

\* A version directory is collected, or the store loses it.
LoseBytes(tier, n) ==
    /\ Change
    /\ \/ /\ tier = "org" /\ n \in orgDisk
          /\ orgDisk' = orgDisk \ {n}
          /\ UNCHANGED userDisk
       \/ /\ tier = "user" /\ n \in userDisk
          /\ userDisk' = userDisk \ {n}
          /\ UNCHANGED orgDisk
    /\ UNCHANGED <<release, org, user>>

-----------------------------------------------------------------------------
(* resolveRunSkills. *)

\* The organisation layer: a bound version that may still run and is on disk.
OrgRuns(n) == org[n] \in {"active", "deprecated"}
OrgWinners == {n \in policy.org : OrgRuns(n) /\ n \in orgDisk}

\* The user layer: enabled versions of names the organisation does not take.
UserRows == IF policy.user = "allow" THEN user ELSE {}
UserWinners == {n \in UserRows \ OrgWinners : n \in userDisk}

SystemNames == SystemOf(policy, release["agent"])

\* The list where each layer's winners all stay.
ResolvedUnmerged ==
    On("system", SystemNames) \cup On("org", OrgWinners)
    \cup On("user", UserWinners)

\* system > org > user: a name the system provides leaves the other layers.
Resolved ==
    On("system", SystemNames)
    \cup On("org", OrgWinners \ SystemNames)
    \cup On("user", UserWinners \ SystemNames)

\* The diagnostics of what the layers excluded, before the merge.
LayerDiagnostics ==
    UNION {Because("not_in_release", "system",
                   IF policy.mode = "allowlist"
                   THEN policy.names \ release["agent"] ELSE {}),
           Because("missing", "org", {n \in policy.org : org[n] = "none"}),
           Because("revoked", "org", {n \in policy.org : org[n] = "revoked"}),
           Because("mismatch", "org",
                   {n \in policy.org : OrgRuns(n) /\ n \notin orgDisk}),
           Because("user_version_unusable", "user",
                   (UserRows \ OrgWinners) \ userDisk)}

\* The diagnostics without those of the last merge.
DiagnosticsBeforeMerge ==
    LayerDiagnostics
    \cup Because("name_conflict", "user", UserRows \cap OrgWinners)

Diagnostics ==
    UNION {LayerDiagnostics,
           Because("name_conflict", "user", UserRows \cap OrgWinners),
           Because("name_conflict", "org", OrgWinners \cap SystemNames),
           Because("name_conflict", "user", UserWinners \cap SystemNames)}

\* execute-run-service: run.started carries the diagnostics of a resolution
\* of its own, or none when it fails.
CollectStartSkillDiagnostics ==
    /\ run.step = "none"
    /\ run' = [run EXCEPT !.step = "started"]
    /\ told' = Diagnostics
    /\ UNCHANGED <<world, changes, policy, summary, call>>

\* dsh-run-executor: the list the run keeps to its end.
ResolveRunSkills ==
    /\ run.step = "started"
    /\ run' = [step |-> "resolved", skills |-> Resolved,
               excluded |-> Diagnostics]
    /\ UNCHANGED <<world, changes, policy, summary, told, call>>

\* What the model is shown: the providers list the packages of the run's
\* list that their roots hold.
Discovered ==
    {e \in run.skills :
        CASE e.tier = "system" -> e.name \in release["agent"]
          [] e.tier = "org" -> e.name \in orgDisk
          [] e.tier = "user" -> e.name \in userDisk}

-----------------------------------------------------------------------------
(* The execution service. *)

TierNames(tier) == NamesOf({e \in run.skills : e.tier = tier})

\* parseEnabledSkills, parseSystemSkills, assertNoDuplicateSkillScopes.
ManifestValid ==
    /\ Cardinality(TierNames("org") \cup TierNames("user")) <= SkillsMax
    /\ Cardinality(TierNames("system")) <= SkillsMax
    /\ TierNames("system") \cap (TierNames("org") \cup TierNames("user")) = {}
    /\ TierNames("org") \cap TierNames("user") = {}

\* enabledSkillPackagesFromManifest, systemSkillPackagesFromManifest.
Mountable(e) ==
    CASE e.tier = "system" -> e.name \in release["exec"]
      [] e.tier = "org" -> e.name \in orgDisk
      [] e.tier = "user" -> e.name \in userDisk

\* A service that mounts what it finds and skips the rest.
MountFound ==
    IF ManifestValid
    THEN [outcome |-> "served", mounted |-> {e \in run.skills : Mountable(e)}]
    ELSE [outcome |-> "ENVELOPE_INVALID", mounted |-> {}]

\* A service that mounts the whole system tree, as for a request without
\* systemSkills.
MountSystemTree ==
    [outcome |-> "served",
     mounted |-> On("system", release["exec"])
                 \cup {e \in run.skills : e.tier # "system"}]

\* skillPackagesForRequest: every package of the list, or an error.
SkillPackagesForRequest ==
    CASE ~ManifestValid -> [outcome |-> "ENVELOPE_INVALID", mounted |-> {}]
      [] \E e \in run.skills : ~Mountable(e) ->
            [outcome |-> "SKILL_PACKAGE_UNAVAILABLE", mounted |-> {}]
      [] OTHER -> [outcome |-> "served", mounted |-> run.skills]

Call ==
    /\ run.step = "resolved"
    /\ call' = SkillPackagesForRequest
    /\ UNCHANGED <<world, changes, policy, summary, run, told>>

Next ==
    \/ \E p \in SkillPolicies : SavePolicy(p)
    \/ \E s \in {"agent", "exec"}, names \in Releases : Deploy(s, names)
    \/ \E n \in Names : PublishOrg(n)
    \/ \E n \in Names, status \in {"deprecated", "revoked"} :
          SetStatus(n, status)
    \/ \E n \in Names : EnableUser(n)
    \/ \E n \in Names : DisableUser(n)
    \/ \E n \in Names, tier \in {"org", "user"} : LoseBytes(tier, n)
    \/ CollectStartSkillDiagnostics
    \/ ResolveRunSkills
    \/ Call

Spec == Init /\ [][Next]_vars

-----------------------------------------------------------------------------

\* The ledgers, the run's list and the last call stay within their types.
TypeOK ==
    /\ release \in [{"agent", "exec"} -> SUBSET Names]
    /\ org \in [Names -> {"none", "active", "deprecated", "revoked"}]
    /\ orgDisk \subseteq Names /\ user \subseteq Names /\ userDisk \subseteq Names
    /\ changes \in 0 .. MaxChanges
    /\ policy \in SkillPolicies \cup {DefaultSkillPolicy}
    /\ summary \in [fresh : BOOLEAN, skills : SUBSET Entry]
    /\ run.step \in {"none", "started", "resolved"}
    /\ run.skills \subseteq Entry /\ run.excluded \subseteq Diagnostic
    /\ told \subseteq Diagnostic
    /\ call.outcome \in {"none", "served", "ENVELOPE_INVALID",
                         "SKILL_PACKAGE_UNAVAILABLE"}
    /\ call.mounted \subseteq run.skills

\* Every name the policy or the user selected when the run was resolved is
\* carried by its layer or has a diagnostic of its layer (resolveRunSkills
\* excludes nothing without one).
Selected(tier) ==
    CASE tier = "system" ->
            IF policy'.mode = "allowlist" THEN policy'.names
            ELSE IF policy'.mode = "all" THEN release'["agent"] ELSE {}
      [] tier = "org" -> policy'.org
      [] tier = "user" -> IF policy'.user = "allow" THEN user' ELSE {}

NothingDropped ==
    run.step = "started" /\ run'.step = "resolved" =>
          \A tier \in {"system", "org", "user"} : \A n \in Selected(tier) :
             \/ [tier |-> tier, name |-> n] \in run'.skills
             \/ \E d \in run'.excluded : d.tier = tier /\ d.name = n

\* A call that is served mounts exactly what the model is shown, whatever was
\* deployed to the execution service, collected or revoked since the run was
\* resolved: the two read the list of one resolution, and a package that is
\* missing fails the call.
SeenIsMounted ==
    call # call' /\ call'.outcome = "served" =>
          call'.mounted = Discovered

=============================================================================
