------------------------------ MODULE Gateway ------------------------------
(* A request on its way from the browser through the api-server (BFF,      *)
(* server.ts and routes/) to the agent's router (create-http-server.ts)    *)
(* and back.  Each of the two servers makes its checks in the order its    *)
(* handler has them; the BFF waits for the agent no longer than            *)
(* AGENT_REQUEST_TIMEOUT_MS, and the agent goes on when it has given up.   *)
(* The client may send its request again.  What a service does in its own    *)
(* transactions is one step here.                                          *)
EXTENDS Integers, Sequences, FiniteSets

CONSTANTS RoutesTried, \* the routes a request may go to
          MaxTries,   \* how often the request is sent
          Flaws,      \* what may be wrong with it
          Missing     \* routes whose service this agent was started without

GatewayAssumption ==
  /\ MaxTries \in Nat \ {0}
  /\ Flaws \subseteq {"bearer", "body", "fields", "key"}

Tries == 1 .. MaxTries

VARIABLES
  route,     \* where the client sends its request
  flaw,      \* what is wrong with it ("none": nothing)
  held,      \* sent again, it carries the key it had before
  signedIn,  \* the session of the browser is valid
  entitled,  \* the caller holds the role the route asks for
  owned,     \* the run, session or conversation asked for is the caller's
  visible,   \* a reader of the database sees it already
  bff,       \* per try, the checks the BFF has still to make
  bffAt,     \* per try: unsent, checking, waiting, reading, answered
  agent,     \* per try, the checks the agent has still to make
  agentAt,   \* per try: none, checking, working, replied
  reads,     \* per try, how often getDurableRun has read
  role,      \* per try, the role sent on as X-Acting-Role
  reply,     \* per try, the status the agent answers with (0: none yet)
  status,    \* per try, the status the client gets (0: none yet)
  done,      \* the tries whose service changed something
  keys,      \* the idempotency keys on record
  late       \* the tries sent after the sign-out, or without the role

vars == <<route, flaw, held, signedIn, entitled, owned, visible, bff, bffAt, agent, agentAt, reads, role, reply, status, done,
          keys, late>>

----------------------------------------------------------------------------
(* The BFF's handlers: the checks each makes before it calls the agent.    *)
CreateRunChecks == <<"bearer", "body", "fields", "key", "me">>
SteerChecks     == <<"bearer", "body", "fields", "key", "me", "run">>
FollowUpChecks  == <<"bearer", "body", "fields", "key", "me">>
CancelChecks    == <<"bearer", "key", "me", "run">>
ReadRunChecks   == <<"bearer", "me", "run">>
ListRunsChecks  == <<"bearer", "me">>
ResumeChecks    == <<"bearer", "body", "me", "run">>
RespondChecks   == <<"bearer", "body", "fields", "me", "run">>
ConversationChecks == <<"bearer", "me">>
NewConversationChecks == <<"bearer", "body", "me">>
DecideChecks    == <<"bearer", "body", "fields", "me">>
EnsureChecks    == <<"bearer", "body", "me">>
CronChecks      == <<"bearer", "body", "me">>
CatalogChecks   == <<"bearer", "body", "me">>
CredentialChecks == <<"bearer", "body", "me", "role">>
MemberChecks    == <<"bearer", "me">>
AdminRunChecks  == <<"bearer", "me">>
OrgSkillChecks  == <<"bearer", "me", "body", "fields">>
ShareChecks     == <<"bearer", "me", "body">>
SkillSwitchChecks == <<"bearer", "me", "fields">>
DraftChecks     == <<"bearer", "me", "fields">>
ReviewChecks    == <<"bearer", "me", "body", "fields">>

BffHandlers ==
  [create |-> CreateRunChecks, steer |-> SteerChecks, followUp |-> FollowUpChecks, cancel |-> CancelChecks,
   getRun |-> ReadRunChecks, listRuns |-> ListRunsChecks, resume |-> ResumeChecks, respond |-> RespondChecks,
   conversation |-> ConversationChecks, newConversation |-> NewConversationChecks, deletion |-> ConversationChecks,
   decide |-> DecideChecks, ensure |-> EnsureChecks, cron |-> CronChecks,
   catalog |-> CatalogChecks, credential |-> CredentialChecks, member |-> MemberChecks, adminRuns |-> AdminRunChecks,
   orgSkill |-> OrgSkillChecks, share |-> ShareChecks, skillSwitch |-> SkillSwitchChecks, draft |-> DraftChecks,
   review |-> ReviewChecks]

(* The agent's routes: the checks each makes before it calls its service.  *)
AgentCreateChecks   == <<"token", "body", "fields", "subjects", "key">>
AgentFollowUpChecks == <<"token", "service", "subjects", "key", "body">>
AgentSteerChecks    == <<"token", "service", "subjects", "key", "body">>
AgentCancelChecks   == <<"token", "subjects", "key">>
AgentGetRunChecks   == <<"token", "subjects">>
AgentListRunsChecks == <<"token", "service", "subjects">>
AgentDecideChecks   == <<"token", "service", "subjects", "body">>
AgentResumeChecks   == <<"token", "service", "subjects", "body">>
AgentRespondChecks  == <<"token", "service", "subjects", "body", "fields">>
AgentConversationChecks == <<"token", "service", "subjects">>
AgentNewConversationChecks == <<"token", "service", "subjects", "body">>
AgentEnsureChecks   == <<"token", "service", "subjects", "body">>
AgentCronChecks     == <<"token", "service", "subjects", "body">>
AgentCatalogChecks  == <<"token", "service", "subjects", "body">>
AgentCredentialChecks == <<"token", "subjects", "role", "body">>
AgentMemberChecks   == <<"token", "service", "subjects">>
AgentAdminRunChecks == <<"token", "service", "subjects">>
AgentSkillChecks    == <<"token", "service", "subjects">>
AgentReviewChecks   == <<"token", "service", "subjects", "body">>

AgentRoutes ==
  [create |-> AgentCreateChecks, steer |-> AgentSteerChecks, followUp |-> AgentFollowUpChecks,
   cancel |-> AgentCancelChecks, getRun |-> AgentGetRunChecks, listRuns |-> AgentListRunsChecks,
   resume |-> AgentResumeChecks, respond |-> AgentRespondChecks, conversation |-> AgentConversationChecks,
   newConversation |-> AgentNewConversationChecks, deletion |-> AgentConversationChecks,
   decide |-> AgentDecideChecks, ensure |-> AgentEnsureChecks, cron |-> AgentCronChecks,
   catalog |-> AgentCatalogChecks, credential |-> AgentCredentialChecks, member |-> AgentMemberChecks,
   adminRuns |-> AgentAdminRunChecks, orgSkill |-> AgentSkillChecks, share |-> AgentSkillChecks,
   skillSwitch |-> AgentSkillChecks, draft |-> AgentSkillChecks, review |-> AgentReviewChecks]

Routes == DOMAIN BffHandlers
Keyed == {"create", "steer", "followUp"}          \* the key is recorded with the effect
FirstWins == {"cancel", "decide", "resume", "respond", "deletion", "member", "review"}  \* the row's state decides
Reading == {"getRun", "listRuns", "conversation", "adminRuns"}
ByRole == {"catalog", "credential", "member", "adminRuns", "orgSkill", "review"}  \* for administrators or reviewers
OnRun == {"steer", "cancel", "getRun", "resume", "respond", "decide", "followUp", "conversation", "deletion"}

\* The client's key for a try.  The browser makes a new one for every call
\* of createRun, steerRun and cancelRun; an API client may keep its own.
KeyOf(t) == IF held THEN 1 ELSE t

\* The status a handler answers with when a check fails.
StatusOf(check) == CASE check \in {"bearer", "token"} -> 401
                     [] check = "role" -> 403
                     [] check \in {"body", "fields", "key", "subjects"} -> IF route = "review" THEN 422 ELSE 400
                     [] check = "service" -> IF route \in {"listRuns", "orgSkill", "share", "skillSwitch", "draft"}
                                             THEN 501 ELSE 503

\* The status of a service that succeeded.
Success == CASE route \in {"create", "steer", "followUp"} -> 202
             [] route \in {"newConversation", "cron", "catalog", "credential", "share", "draft"} -> 201
             [] route = "deletion" -> 204
             [] OTHER -> 200

Init == /\ route \in RoutesTried /\ signedIn = TRUE /\ entitled \in (IF route \in ByRole THEN BOOLEAN ELSE {FALSE}) /\ owned \in BOOLEAN /\ visible \in BOOLEAN
        /\ flaw \in Flaws \cup {"none"} /\ held \in (IF route \in Keyed /\ MaxTries > 1 THEN BOOLEAN ELSE {TRUE})
        /\ bff = [t \in Tries |-> <<>>] /\ bffAt = [t \in Tries |-> "unsent"]
        /\ agent = [t \in Tries |-> <<>>] /\ agentAt = [t \in Tries |-> "none"]
        /\ reads = [t \in Tries |-> 0] /\ role = [t \in Tries |-> FALSE] /\ reply = [t \in Tries |-> 0] /\ status = [t \in Tries |-> 0]
        /\ done = {} /\ keys = {} /\ late = {}

Env == <<route, flaw, held, signedIn, entitled, owned, visible>>
AgentSide == <<agent, agentAt, reply, done, keys>>
BffSide == <<bff, bffAt, reads, role, status, late>>

----------------------------------------------------------------------------
(* The client and the world.                                               *)

\* A call is sent, or sent again once an answer left its outcome open.
Send(t) ==
  /\ bffAt[t] = "unsent"
  /\ t > 1 => status[t - 1] \in {500, 503, 504}
  /\ bffAt' = [bffAt EXCEPT ![t] = "checking"] /\ bff' = [bff EXCEPT ![t] = BffHandlers[route]]
  /\ late' = IF signedIn /\ (route \in ByRole => entitled) THEN late ELSE late \cup {t}
  /\ UNCHANGED <<Env, AgentSide, reads, role, status>>

SignOut == signedIn /\ signedIn' = FALSE /\ UNCHANGED <<route, flaw, held, entitled, owned, visible, BffSide, AgentSide>>

\* An administrator takes the role away.
Demote == entitled /\ entitled' = FALSE /\ UNCHANGED <<route, flaw, held, signedIn, owned, visible, BffSide, AgentSide>>

\* What was written is seen by a reader of another connection.
BecomesVisible == ~visible /\ visible' = TRUE /\ UNCHANGED <<route, flaw, held, signedIn, entitled, owned, BffSide, AgentSide>>

----------------------------------------------------------------------------
(* The BFF.                                                                *)
SendError(t, code) == status' = [status EXCEPT ![t] = code] /\ bffAt' = [bffAt EXCEPT ![t] = "answered"]

\* The check at the head of the handler passes; after the last one the
\* request goes to the agent, whose router will make its own.
Pass(t) ==
  /\ bff' = [bff EXCEPT ![t] = Tail(@)] /\ status' = status
  /\ IF Len(bff[t]) > 1
     THEN UNCHANGED <<bffAt, agent, agentAt>>
     ELSE /\ bffAt' = [bffAt EXCEPT ![t] = "waiting"]
          /\ agent' = [agent EXCEPT ![t] = AgentRoutes[route]] /\ agentAt' = [agentAt EXCEPT ![t] = "checking"]

\* enforceBffAuth, readJsonBody, the field checks and readIdempotencyKeyHeader.
BffCheck(t) ==
  /\ bffAt[t] = "checking" /\ Head(bff[t]) \in {"bearer", "body", "fields", "key"}
  /\ IF flaw = Head(bff[t])
     THEN SendError(t, StatusOf(Head(bff[t]))) /\ UNCHANGED <<bff, agent, agentAt>>
     ELSE Pass(t)
  /\ UNCHANGED <<Env, reads, role, late, reply, done, keys>>

\* An identity resolved earlier is taken for granted.
BffMeCached(t) ==
  /\ bffAt[t] = "checking" /\ Head(bff[t]) = "me" /\ Pass(t)
  /\ role' = [role EXCEPT ![t] = TRUE] /\ UNCHANGED <<Env, reads, late, reply, done, keys>>

\* resolveTrustedAuth asks the agent who the caller is.
BffMe(t) ==
  /\ bffAt[t] = "checking" /\ Head(bff[t]) = "me"
  /\ IF signedIn THEN Pass(t) ELSE SendError(t, 401) /\ UNCHANGED <<bff, agent, agentAt>>
  /\ role' = [role EXCEPT ![t] = signedIn /\ entitled]
  /\ UNCHANGED <<Env, reads, late, reply, done, keys>>

\* The agent cannot be asked, or its answer cannot be read.
BffMeUnavailable(t) ==
  /\ bffAt[t] = "checking" /\ Head(bff[t]) = "me"
  /\ SendError(t, 503) /\ UNCHANGED <<Env, bff, reads, role, late, AgentSide>>

\* resolveAdmin: the role the caller had when asked for.
BffRole(t) ==
  /\ bffAt[t] = "checking" /\ Head(bff[t]) = "role"
  /\ IF role[t] THEN Pass(t) ELSE SendError(t, 403) /\ UNCHANGED <<bff, agent, agentAt>>
  /\ UNCHANGED <<Env, reads, role, late, reply, done, keys>>

\* The run is read once more than it should be.
BffRunAgain(t) ==
  /\ bffAt[t] = "checking" /\ Head(bff[t]) = "run"
  /\ IF owned /\ visible THEN Pass(t) /\ reads' = reads
     ELSE IF reads[t] < 3
     THEN reads' = [reads EXCEPT ![t] = @ + 1] /\ UNCHANGED <<bff, bffAt, agent, agentAt, status>>
     ELSE SendError(t, 404) /\ UNCHANGED <<bff, agent, agentAt, reads>>
  /\ UNCHANGED <<Env, role, late, reply, done, keys>>

\* getDurableRun reads the run, and twice more when it is not found.
BffRun(t) ==
  /\ bffAt[t] = "checking" /\ Head(bff[t]) = "run"
  /\ IF owned /\ visible THEN Pass(t) /\ reads' = reads
     ELSE IF reads[t] < 2
     THEN reads' = [reads EXCEPT ![t] = @ + 1] /\ UNCHANGED <<bff, bffAt, agent, agentAt, status>>
     ELSE SendError(t, 404) /\ UNCHANGED <<bff, agent, agentAt, reads>>
  /\ UNCHANGED <<Env, role, late, reply, done, keys>>

\* No time limit: only an answer ends the wait.
BffWaits(t) ==
  /\ bffAt[t] = "waiting" /\ agentAt[t] = "replied" /\ SendError(t, 504)
  /\ UNCHANGED <<Env, bff, reads, role, late, AgentSide>>

\* agentFetch gives up before the agent has begun to answer.
BffTimeout(t) ==
  /\ bffAt[t] = "waiting" /\ SendError(t, 504)
  /\ UNCHANGED <<Env, bff, reads, role, late, AgentSide>>

\* The head of the answer has come; its body is still to be read.
BffHeaders(t) ==
  /\ bffAt[t] = "waiting" /\ agentAt[t] = "replied"
  /\ bffAt' = [bffAt EXCEPT ![t] = "reading"]
  /\ UNCHANGED <<Env, bff, reads, role, late, status, AgentSide>>

\* The body is read (resp.json), or the agent's error is passed on
\* (throwAgentError, sendError).
BffAnswer(t) ==
  /\ bffAt[t] = "reading" /\ SendError(t, reply[t])
  /\ UNCHANGED <<Env, bff, reads, role, late, AgentSide>>

\* The time runs out while the body is read: the abort is not agentFetch's
\* any more and carries no status.
BffBodyStuck(t) ==
  /\ bffAt[t] = "reading" /\ SendError(t, 500)
  /\ UNCHANGED <<Env, bff, reads, role, late, AgentSide>>

----------------------------------------------------------------------------
(* The agent.                                                              *)
Fails(t, check) ==
  CASE check \in {"token", "subjects"} -> FALSE     \* the BFF always sends them
    [] check = "service" -> route \in Missing
    [] check = "role" -> ~role[t]
    [] OTHER -> flaw = check

AgentReply(t, code) == reply' = [reply EXCEPT ![t] = code] /\ agentAt' = [agentAt EXCEPT ![t] = "replied"]

AgentCheck(t) ==
  /\ agentAt[t] = "checking"
  /\ IF Fails(t, Head(agent[t]))
     THEN AgentReply(t, StatusOf(Head(agent[t]))) /\ UNCHANGED agent
     ELSE /\ agent' = [agent EXCEPT ![t] = Tail(@)] /\ reply' = reply
          /\ agentAt' = [agentAt EXCEPT ![t] = IF Len(agent[t]) > 1 THEN "checking" ELSE "working"]
  /\ UNCHANGED <<Env, BffSide, done, keys>>

\* The key is not looked up.
TakesAlways(t) == route \notin Reading

\* What the service's transaction does: a read nothing, a keyed request
\* nothing when its key is on record, a decision nothing after the first.
Takes(t) ==
  CASE route \in Reading -> FALSE
    [] route \in Keyed -> KeyOf(t) \notin keys
    [] route \in FirstWins -> done = {}
    [] OTHER -> TRUE

Commit(t) ==
  /\ done' = IF Takes(t) THEN done \cup {t} ELSE done
  /\ keys' = IF route \in Keyed THEN keys \cup {KeyOf(t)} ELSE keys

\* The service does not look at the owner.
NotFoundAnyone == route \in OnRun /\ ~visible

\* The service finds nothing of the caller's: a conversation is gone once it
\* is archived.
NotFound == route \in OnRun /\ (~owned \/ ~visible \/ (route = "deletion" /\ done # {}))

\* Only the web page looks at the role.
NeverForbidden(t) == FALSE

\* A service asks the header for the caller's role (hasRole).
Forbidden(t) == route \in ByRole /\ ~role[t]

AgentService(t) ==
  /\ agentAt[t] = "working"
  /\ IF Forbidden(t) THEN AgentReply(t, 403) /\ UNCHANGED <<done, keys>>
     ELSE IF NotFound
     THEN AgentReply(t, 404) /\ UNCHANGED <<done, keys>>
     ELSE Commit(t) /\ AgentReply(t, Success)
  /\ UNCHANGED <<Env, BffSide, agent>>

\* A lost commit is reported like an invalid request.
ThrowsAsRefusal(t) ==
  /\ agentAt[t] = "working"
  /\ \/ UNCHANGED <<done, keys>>
     \/ ~NotFound /\ Commit(t)
  /\ AgentReply(t, 400) /\ UNCHANGED <<Env, BffSide, agent>>

\* The key is recorded before the work and stays when the work fails.
ThrowsAfterKey(t) ==
  /\ agentAt[t] = "working"
  /\ keys' = keys \cup {KeyOf(t)} /\ done' = done
  /\ AgentReply(t, 500) /\ UNCHANGED <<Env, BffSide, agent>>

\* How an error the service did not mean is reported (mapErrorToHttp; the
\* skill routes map what they do not know to 400).
Reported == IF route \in {"orgSkill", "share", "draft"} THEN {400}
            ELSE IF route = "skillSwitch" THEN {400, 503} ELSE {500, 503}

\* The service throws: before it has written anything, or because the
\* answer to its commit was lost.
AgentThrows(t) ==
  /\ agentAt[t] = "working"
  /\ \/ UNCHANGED <<done, keys>>
     \/ ~NotFound /\ ~Forbidden(t) /\ Commit(t)
  /\ \E code \in Reported : AgentReply(t, code)
  /\ UNCHANGED <<Env, BffSide, agent>>

Bff(t) == BffCheck(t) \/ BffMe(t) \/ BffMeUnavailable(t) \/ BffRole(t) \/ BffRun(t) \/ BffTimeout(t)
          \/ BffHeaders(t) \/ BffAnswer(t) \/ BffBodyStuck(t)

Idle == (\A t \in Tries : bffAt[t] \in {"unsent", "answered"} /\ agentAt[t] \in {"none", "replied"}) /\ UNCHANGED vars

Next == \/ \E t \in Tries : Send(t) \/ Bff(t) \/ AgentCheck(t) \/ AgentService(t) \/ AgentThrows(t)
        \/ SignOut \/ Demote \/ BecomesVisible \/ Idle

Spec == Init /\ [][Next]_vars

\* The BFF's event loop turns and its timer fires; nothing is asked of the
\* agent.
LiveSpec == Spec /\ \A t \in Tries : WF_vars(Bff(t))

----------------------------------------------------------------------------
TypeOK ==
  /\ held \in BOOLEAN /\ signedIn \in BOOLEAN /\ entitled \in BOOLEAN /\ role \in [Tries -> BOOLEAN] /\ owned \in BOOLEAN /\ visible \in BOOLEAN
  /\ bffAt \in [Tries -> {"unsent", "checking", "waiting", "reading", "answered"}]
  /\ agentAt \in [Tries -> {"none", "checking", "working", "replied"}]
  /\ reads \in [Tries -> 0 .. 2]
  /\ \A t \in Tries : bffAt[t] = "answered" <=> status[t] # 0
  /\ \A t \in Tries : agentAt[t] = "replied" <=> reply[t] # 0
  /\ done \subseteq Tries /\ late \subseteq Tries

\* An answer that refuses the request is final: that try has changed
\* nothing, and will not when the agent gets round to it.  The 400 of the skill
\* routes is none: they answer so to every error they do not know, a lost answer
\* to their commit included.
RefusedUntouched ==
  \A t \in Tries : status[t] \in {400, 401, 403, 404, 422} =>
    t \notin done \/ (status[t] = 400 /\ 400 \in Reported)

\* An answer that reports success is true: this try or an earlier one with
\* the same key, or an earlier one on the same row, has done what was asked.
SuccessIsDone == \A t \in Tries :
  (status[t] \in 200 .. 299 /\ route \notin Reading) =>
     \E u \in done : route \in Keyed => KeyOf(u) = KeyOf(t)

\* However often a call is sent, and whatever is still under way at the
\* agent from a try the BFF gave up on: a decision on a row is done once, and
\* a keyed request once under a key.  The browser sends it again under
\* another key (createRun makes one in every call), and then it is done again.
DoneOnce ==
  /\ route \in FirstWins => Cardinality(done) < 2
  /\ route \in Keyed => \A t, u \in done : KeyOf(t) = KeyOf(u) => t = u

\* A request sent after the sign-out, or by a caller whose role has been
\* taken away, changes nothing.
UnentitledChangesNothing == done \cap late = {}

\* Nothing is changed for a caller on a run that is not the caller's.
OnlyOnOwn == (done # {} /\ route \in OnRun) => owned

\* The browser gets an answer whatever the agent does.
BffBusy(t) == bffAt[t] = "checking"
BffDone(t) == bffAt[t] = "answered"

=============================================================================
