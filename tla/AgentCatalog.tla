---------------------------- MODULE AgentCatalog ----------------------------
(***************************************************************************)
(* The agents of one organization, their immutable versions, the version   *)
(* in use and the A2A credentials that expose an agent                     *)
(* (application/agent-catalog-service.ts, a2a/credential-service.ts and    *)
(* the repositories of these tables).                                      *)
(*                                                                         *)
(* A request runs in a transaction: it reads in a snapshot (Read), then    *)
(* writes and commits (Writes).  Plain reads of a transaction see its      *)
(* snapshot; inserts and updates meet what the others committed.           *)
(* Configurations are told apart by their delivery mode only.              *)
(***************************************************************************)
EXTENDS Naturals, Sequences, FiniteSets

CONSTANTS Agents, Default,      \* agents by name; the organization's default one
          Admins,
          Ops, Reviews,         \* the requests of this instance, and their delivery modes
          MaxVersionAttempts,   \* MAX_VERSION_ATTEMPTS
          MaxVersions, MaxCreds \* bounds
CatalogAssumption == Default \in Agents /\ MaxVersionAttempts \in Nat \ {0}
                            /\ MaxVersions \in Nat /\ MaxCreds \in Nat /\ Reviews \subseteq BOOLEAN

VARIABLES defs,      \* agent_definitions
          versions,  \* agent_versions, in the order they were committed
          creds,     \* a2a_api_credentials
          work,      \* the request each admin has under way
          overtaken  \* admins at a publication whose agent was switched to a version that was
                     \* there already, after they read which one it shows
catalogVars == <<defs, versions, creds, work, overtaken>>

AllOps == {"createAgent", "createVersion", "setActive", "ensureDefault", "issue", "rotate", "revoke"}
NoWork == [op |-> "idle", phase |-> "idle", agent |-> Default, review |-> FALSE, activate |-> FALSE,
           expected |-> {}, target |-> 0, tries |-> 0, snap |-> [made |-> FALSE, seen |-> 0]]
NoDefinition == [made |-> FALSE, active |-> 0]

CatalogTypeOK ==
  /\ \A a \in Agents : /\ defs[a].active \in 0..Len(versions)
                       /\ defs[a].made <=> defs[a].active # 0
                       /\ defs[a].active # 0 => versions[defs[a].active].agent = a
  /\ \A i \in DOMAIN versions : versions[i].agent \in Agents /\ versions[i].no \in 1..MaxVersions
  /\ \A c \in DOMAIN creds : creds[c].status \in {"active", "rotated", "revoked"} /\ creds[c].from \in 0..(c - 1)
  /\ \A p \in Admins : work[p].op \in {"idle"} \cup AllOps /\ work[p].tries \in 0..MaxVersionAttempts
  /\ overtaken \subseteq Admins

CatalogInit ==
  /\ defs = [a \in Agents |-> NoDefinition] /\ versions = <<>> /\ creds = <<>>
  /\ work = [p \in Admins |-> NoWork] /\ overtaken = {}

-----------------------------------------------------------------------------
VersionsOf(a, n) == {i \in 1..n : versions[i].agent = a}
ActiveCreds(a) == {c \in DOMAIN creds : creds[c].agent = a /\ creds[c].status = "active"}

(* A request arrives.  expected is the version the admin's page showed as  *)
(* active, or nothing: callers may leave it out.                           *)
Arrives(p, r) ==
  /\ work[p].op = "idle" /\ r.op \in Ops
  /\ work' = [work EXCEPT ![p] = r]
  /\ UNCHANGED <<defs, versions, creds, overtaken>>

Request(op, a) == [NoWork EXCEPT !.op = op, !.phase = "asked", !.agent = a]
Seen(a) == {{}} \cup {{v} : v \in VersionsOf(a, Len(versions))}

AskCreateAgent(p, a, review) == Arrives(p, [Request("createAgent", a) EXCEPT !.review = review])
AskCreateVersion(p, a, review, on, e) ==
  Arrives(p, [Request("createVersion", a) EXCEPT !.review = review, !.activate = on, !.expected = e])
AskSetActive(p, a, v, e) == Arrives(p, [Request("setActive", a) EXCEPT !.target = v, !.expected = e])
AskEnsureDefault(p) == Arrives(p, Request("ensureDefault", Default))
AskCredential(p, op, a, c) == Arrives(p, [Request(op, a) EXCEPT !.target = c])

Asks(p) ==
  \/ \E a \in Agents, review \in Reviews : AskCreateAgent(p, a, review)
  \/ \E a \in Agents, review \in Reviews, on \in BOOLEAN : \E e \in Seen(a) : AskCreateVersion(p, a, review, on, e)
  \/ \E a \in Agents : \E v \in DOMAIN versions, e \in Seen(a) : AskSetActive(p, a, v, e)
  \/ AskEnsureDefault(p)
  \/ \E a \in Agents : AskCredential(p, "issue", a, 0)
  \/ \E c \in DOMAIN creds : \E op \in {"rotate", "revoke"} : AskCredential(p, op, creds[c].agent, c)

-----------------------------------------------------------------------------
(* The snapshot and the checks made on it.                                 *)
Snapshot(a) == [made |-> defs[a].made, seen |-> Len(versions)]

AssertExpectedActiveVersion(e, active) == e = {} \/ e = {active}
ReviewVsA2a(a, review) == ~review \/ ActiveCreds(a) = {}
AssertAgentNotUnderArtifactReview(a) == defs[a].active = 0 \/ ~versions[defs[a].active].review

SomeVersion(a, v) == TRUE
OwnVersion(a, v) == versions[v].agent = a

ReadPasses(r) ==
  CASE r.op = "createAgent" -> TRUE
    [] r.op = "createVersion" -> /\ defs[r.agent].made /\ ReviewVsA2a(r.agent, r.review)
                                 /\ r.activate => AssertExpectedActiveVersion(r.expected, defs[r.agent].active)
    [] r.op = "setActive" -> /\ defs[r.agent].made /\ AssertExpectedActiveVersion(r.expected, defs[r.agent].active)
                             /\ OwnVersion(r.agent, r.target)
    [] r.op = "ensureDefault" -> TRUE
    [] r.op = "issue" -> defs[r.agent].made /\ AssertAgentNotUnderArtifactReview(r.agent)
    [] r.op = "rotate" -> creds[r.target].status = "active"
    [] r.op = "revoke" -> creds[r.target].status # "revoked"

Read(p) ==
  /\ work[p].phase = "asked"
  /\ work' = [work EXCEPT ![p] = IF ReadPasses(@) THEN [@ EXCEPT !.phase = "read", !.snap = Snapshot(work[p].agent)] ELSE NoWork]
  /\ UNCHANGED <<defs, versions, creds, overtaken>>

-----------------------------------------------------------------------------
(* The writes, committed together.                                         *)
RequestDone(p) == work' = [work EXCEPT ![p] = NoWork]

SetActiveVersion(a, v) == defs' = [defs EXCEPT ![a].made = TRUE, ![a].active = v]

(* unique (agent_id, version_no)                                           *)
AnyNumber(a, n) == TRUE
FreeNumber(a, n) == \A i \in DOMAIN versions : versions[i].agent = a => versions[i].no # n
CreateVersion(a, n, review) ==
  /\ n <= MaxVersions
  /\ versions' = Append(versions, [agent |-> a, no |-> n, review |-> review])
NextVersionNo(r) == Cardinality(VersionsOf(r.agent, r.snap.seen)) + 1

WriteCreateAgent(p) ==
  LET r == work[p] IN
  /\ r.op = "createAgent" /\ RequestDone(p)
  /\ IF defs[r.agent].made                              \* AGENT_NAME_CONFLICT
     THEN UNCHANGED <<defs, versions>>
     ELSE CreateVersion(r.agent, 1, r.review) /\ SetActiveVersion(r.agent, Len(versions) + 1)
  /\ UNCHANGED creds

WriteCreateVersion(p) ==
  LET r == work[p] IN
  /\ r.op = "createVersion"
  /\ \/ /\ FreeNumber(r.agent, NextVersionNo(r)) /\ RequestDone(p)
        /\ CreateVersion(r.agent, NextVersionNo(r), r.review)
        /\ IF r.activate THEN SetActiveVersion(r.agent, Len(versions) + 1) ELSE UNCHANGED defs
     \/ /\ ~FreeNumber(r.agent, NextVersionNo(r))       \* the transaction rolls back and is tried again
        /\ work' = [work EXCEPT ![p] = IF r.tries + 1 < MaxVersionAttempts
                                     THEN [r EXCEPT !.phase = "asked", !.tries = r.tries + 1] ELSE NoWork]
        /\ UNCHANGED <<defs, versions>>
  /\ UNCHANGED creds

WriteSetActive(p) ==
  LET r == work[p] IN
  /\ r.op = "setActive" /\ RequestDone(p) /\ SetActiveVersion(r.agent, r.target)
  /\ UNCHANGED <<versions, creds>>

(* ensureTenantDefaultAgent.  A definition the insert collides with is     *)
(* read again, locked; a version is looked up in the snapshot, then        *)
(* inserted, and on a collision read again, locked.                        *)
WriteEnsureDefault(p) ==
  LET r == work[p]
      First == {i \in DOMAIN versions : versions[i].agent = Default /\ versions[i].no = 1} IN
  /\ r.op = "ensureDefault" /\ RequestDone(p)
  /\ \/ /\ r.snap.made                                  \* already there in the snapshot
        /\ UNCHANGED <<defs, versions>>
     \/ /\ ~r.snap.made /\ ~defs[Default].made          \* made by this request
        /\ CreateVersion(Default, 1, FALSE) /\ SetActiveVersion(Default, Len(versions) + 1)
     \/ /\ ~r.snap.made /\ defs[Default].made           \* made by another one meanwhile
        /\ SetActiveVersion(Default, CHOOSE i \in First : TRUE)
        /\ UNCHANGED versions
  /\ UNCHANGED creds

NewCredential(a, from) == [agent |-> a, status |-> "active", from |-> from]
WriteIssue(p) ==
  /\ work[p].op = "issue" /\ RequestDone(p) /\ Len(creds) < MaxCreds
  /\ creds' = Append(creds, NewCredential(work[p].agent, 0))
  /\ UNCHANGED <<defs, versions>>

(* updateStatus with expectedStatus: nothing is written unless it holds    *)
AnyStatus(c) == TRUE
StillActive(c) == creds[c].status = "active"
WriteRotate(p) ==
  LET c == work[p].target IN
  /\ work[p].op = "rotate" /\ RequestDone(p) /\ Len(creds) < MaxCreds
  /\ creds' = IF StillActive(c)
              THEN Append([creds EXCEPT ![c].status = "rotated"], NewCredential(creds[c].agent, c))
              ELSE creds
  /\ UNCHANGED <<defs, versions>>

WriteRevoke(p) ==
  /\ work[p].op = "revoke" /\ RequestDone(p)
  /\ creds' = [creds EXCEPT ![work[p].target].status = "revoked"]
  /\ UNCHANGED <<defs, versions>>

(* A pointer that moves without a new version: setActiveVersion, and        *)
(* ensureTenantDefaultAgent where another made the agent meanwhile.         *)
Publishing(q) == work[q].op = "createVersion" /\ work[q].phase = "read" /\ work[q].activate
Switched(a) == versions' = versions /\ defs'[a] # defs[a]

Writes(p) ==
  /\ work[p].phase = "read"
  /\ \/ WriteCreateAgent(p) \/ WriteCreateVersion(p) \/ WriteSetActive(p)
     \/ WriteEnsureDefault(p) \/ WriteIssue(p) \/ WriteRotate(p) \/ WriteRevoke(p)
  /\ overtaken' = (overtaken \ {p}) \cup {q \in Admins \ {p} : Publishing(q) /\ Switched(work[q].agent)}

CatalogNext == \E p \in Admins : Asks(p) \/ Read(p) \/ Writes(p)
CatalogSpec == CatalogInit /\ [][CatalogNext]_catalogVars

-----------------------------------------------------------------------------
(* The versions of an agent are numbered 1, 2, ... without a gap or a      *)
(* repeat, however many admins publish at once (nextVersionNo reads a      *)
(* snapshot; the unique key and the retry make up for it).                 *)
VersionsNumbered ==
  \A a \in Agents : LET V == VersionsOf(a, Len(versions)) IN
     {versions[i].no : i \in V} = 1..Cardinality(V)

(* A publication that names the version it saw as active replaces that     *)
(* version, or its caller is told of the conflict                          *)
(* (#assertExpectedActiveVersion), although the comparison is made in a    *)
(* snapshot: what others publish meanwhile takes the number it would take. *)
(* What does not is a switch to a version that was there already           *)
(* (setActiveVersion, ensureTenantDefaultAgent) between its read and its   *)
(* write, and that is the one thing it replaces unseen.                    *)
Publishes(p) == Publishing(p) /\ work'[p].op = "idle" /\ versions' # versions
ExpectedHonoured ==
  \A p \in Admins : Publishes(p) =>
    p \in overtaken \/ AssertExpectedActiveVersion(work[p].expected, defs[work[p].agent].active)

(* A credential is replaced at most once, and never while it is still good *)
(* or after it was revoked: two rotations and a revocation of one          *)
(* credential leave one of them in effect.                                 *)
RotatedOnce ==
  \A c \in DOMAIN creds : LET S == {d \in DOMAIN creds : creds[d].from = c} IN
     Cardinality(S) <= 1 /\ (creds[c].status = "active" => S = {})

(* What was published or handed out stays as it was numbered and replaced. *)
CatalogHonoured == [](VersionsNumbered /\ RotatedOnce) /\ [][ExpectedHonoured]_catalogVars

=============================================================================
