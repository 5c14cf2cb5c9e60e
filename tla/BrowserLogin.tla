---------------------------- MODULE BrowserLogin ----------------------------
(***************************************************************************)
(* The identity a browser tab shows (frontend features/chat/               *)
(* useAuthSession.ts, identityRevision.ts, authMutationGate.ts and         *)
(* ChatContext.tsx), the cookie the BFF gives it (api-server               *)
(* routes/auth.ts, application/auth-revocation.ts), and the company        *)
(* sign-in that leaves the page and comes back (routes/sso.ts,             *)
(* application/sso-flow.ts, application/sso-transaction.ts).               *)
(*                                                                         *)
(* Requests are handled and answered in any order, and an answer may be    *)
(* lost.  The cookie of an answer takes effect whether or not the page     *)
(* still wants the answer.  A session is live until the agent ends it.     *)
(***************************************************************************)
EXTENDS Naturals, Sequences, FiniteSets

CONSTANTS People,
          MaxSessions,  \* bound: sessions the agent gives out
          MaxInFlight,  \* bound: requests of the page in flight
          MaxFaults     \* bound: failures of the agent and lost answers
BrowserLoginAssumption == MaxSessions \in Nat /\ MaxInFlight \in Nat /\ MaxFaults \in Nat

VARIABLES owner,    \* the sessions given out, by number: whose they are
          live,     \* the ones that are live
          cookie,   \* the browser's session cookie, 0 for none
          shown,    \* authUser
          ready,    \* authReady
          warned,   \* authError or logoutWarning is shown
          data,     \* whose conversations, models and agents are loaded
          net,      \* requests in flight
          gate,     \* the mutation gate: a login or a logout is running
          txn,      \* the sign-in transaction cookie of this browser
          overtaken, \* history: the page dropped the answer of a login or a logout
                     \* for a check of the session that was refused in the meantime,
                     \* and has crossed no boundary between identities since
          faults

blVars == <<owner, live, cookie, shown, ready, warned, data, net, gate, txn, overtaken, faults>>

None == "none"
RequestKinds == {"me", "load", "login", "logout"}
Answers == {None, "ok", "401", "503", "confirmed", "not_required", "unconfirmed", "lost"}

BrowserLoginTypeOK ==
  /\ owner \in Seq(People) /\ live \subseteq 1..Len(owner) /\ cookie \in 0..Len(owner)
  /\ shown \in People \cup {None} /\ data \in People \cup {None}
  /\ ready \in BOOLEAN /\ warned \in BOOLEAN /\ gate \in BOOLEAN /\ txn \in BOOLEAN
  /\ overtaken \in BOOLEAN
  /\ \A q \in net : /\ q.kind \in RequestKinds /\ q.cur \in BOOLEAN /\ q.cut \in BOOLEAN /\ q.ans \in Answers
                    /\ q.ans = "ok" => q.got \in 1..Len(owner)
                    /\ q.kind \in {"login", "logout"} => gate
  /\ Cardinality({q \in net : q.kind \in {"login", "logout"}}) <= 1
  /\ faults \in 0..MaxFaults

BrowserLoginInit ==
  /\ owner = <<>> /\ live = {} /\ cookie = 0 /\ shown = None /\ ready = FALSE /\ warned = FALSE
  /\ data = None /\ net = {} /\ gate = FALSE /\ txn = FALSE /\ overtaken = FALSE /\ faults = 0

Fault == faults < MaxFaults /\ faults' = faults + 1
server == <<owner, live, txn, faults>>
page == <<shown, ready, warned, data, overtaken>>

-----------------------------------------------------------------------------
(* Requests: each takes the revision before it is sent (cur: no boundary   *)
(* between identities has been crossed since; cut, history: one was, by a  *)
(* refused check of the session).  me is checkSession or refreshAuthUser,  *)
(* load is what afterIdentitySwitch refreshes, login stands for register   *)
(* too.                                                                    *)
Send(kind, u) ==
  /\ Cardinality(net) < MaxInFlight
  /\ net' = net \cup {[kind |-> kind, who |-> u, sid |-> cookie, cur |-> TRUE, ans |-> None, got |-> 0,
                     cut |-> FALSE]}
  /\ UNCHANGED <<server, page, cookie>>

CheckSession == Send("me", None) /\ UNCHANGED gate
Load == shown # None /\ Send("load", None) /\ UNCHANGED gate

Ungated == UNCHANGED gate
Gated == ~gate /\ gate' = TRUE
Login(u) == ready /\ shown = None /\ Send("login", u) /\ Gated
Logout == shown # None /\ Send("logout", None) /\ Gated

-----------------------------------------------------------------------------
(* The BFF and the agent handle a request, or fail to.                     *)
Reply(q, a, s) == net' = (net \ {q}) \cup {[q EXCEPT !.ans = a, !.got = s]}
handled == <<page, cookie, gate, txn>>

HandleMe(q) ==
  /\ q.kind \in {"me", "load"} /\ q.ans = None
  /\ \/ (IF q.sid \in live THEN Reply(q, "ok", q.sid) ELSE Reply(q, "401", 0)) /\ UNCHANGED faults
     \/ Fault /\ Reply(q, "503", 0)
  /\ UNCHANGED <<owner, live, handled>>

NewSession(u) == owner' = Append(owner, u) /\ live' = live \cup {Len(owner) + 1}

HandleLogin(q) ==
  /\ q.kind = "login" /\ q.ans = None
  /\ \/ Len(owner) < MaxSessions /\ NewSession(q.who) /\ Reply(q, "ok", Len(owner) + 1) /\ UNCHANGED faults
     \/ Reply(q, "401", 0) /\ UNCHANGED <<owner, live, faults>>
  /\ UNCHANGED handled

(* handleLogout: the revocation, and what classifyLogoutResponse makes of  *)
(* an agent that failed.                                                   *)
ClassifiedLoosely(ok) == "confirmed"
Classified(ok) == IF ok THEN "confirmed" ELSE "unconfirmed"
HandleLogout(q) ==
  /\ q.kind = "logout" /\ q.ans = None
  /\ \/ /\ Reply(q, IF q.sid \in live THEN Classified(TRUE) ELSE "not_required", 0)
        /\ live' = live \ {q.sid} /\ UNCHANGED faults
     \/ Fault /\ Reply(q, Classified(FALSE), 0) /\ UNCHANGED live
  /\ UNCHANGED <<owner, handled>>

(* The connection breaks before or after the request was handled.          *)
LoseAnswer(q) ==
  /\ q.ans # "lost" /\ Fault /\ Reply(q, "lost", 0)
  /\ UNCHANGED <<owner, live, handled>>

-----------------------------------------------------------------------------
(* Answers.  Current is the check before an answer is applied;             *)
(* clearIdentity advances the revision and drops everything that belonged  *)
(* to the identity.                                                        *)
AnyRevision(q) == TRUE
Current(q) == q.cur
Bump(q) == net' = {[r EXCEPT !.cur = FALSE, !.cut = @ \/ q.kind = "me"] : r \in net \ {q}}
ClearIdentity(q, u) == Bump(q) /\ data' = None /\ shown' = u /\ ready' = TRUE /\ overtaken' = FALSE

Received(q) == net' = net \ {q}

MeAnswered(q) ==
  /\ q.kind = "me" /\ q.ans # None /\ UNCHANGED <<server, cookie, gate>>
  /\ CASE ~Current(q) -> Received(q) /\ UNCHANGED page
       [] Current(q) /\ q.ans = "401" -> ClearIdentity(q, None) /\ UNCHANGED warned
       [] Current(q) /\ q.ans \in {"503", "lost"} ->
              Received(q) /\ ready' = TRUE /\ warned' = TRUE /\ UNCHANGED <<shown, data, overtaken>>
       [] OTHER -> /\ Received(q) /\ shown' = owner[q.got] /\ ready' = TRUE /\ warned' = FALSE
                   /\ UNCHANGED <<data, overtaken>>

LoadAnswered(q) ==
  /\ q.kind = "load" /\ q.ans # None /\ Received(q)
  /\ data' = IF Current(q) /\ q.ans = "ok" THEN owner[q.got] ELSE data
  /\ UNCHANGED <<server, cookie, gate, shown, ready, warned, overtaken>>

LoginAnswered(q) ==
  /\ q.kind = "login" /\ q.ans # None /\ gate' = FALSE /\ UNCHANGED server
  /\ IF q.ans # "ok" THEN Received(q) /\ UNCHANGED <<page, cookie>>
     ELSE /\ cookie' = q.got
          /\ IF Current(q) THEN ClearIdentity(q, q.who) /\ warned' = FALSE
             ELSE /\ Received(q) /\ overtaken' = (overtaken \/ q.cut) /\ UNCHANGED <<shown, ready, warned, data>>

LogoutAnswered(q) ==
  /\ q.kind = "logout" /\ q.ans # None /\ gate' = FALSE /\ UNCHANGED server
  /\ cookie' = IF q.ans = "lost" THEN cookie ELSE 0
  /\ IF Current(q) THEN ClearIdentity(q, None) /\ warned' = (q.ans \in {"unconfirmed", "lost"})
     ELSE Received(q) /\ overtaken' = (overtaken \/ q.cut) /\ UNCHANGED <<shown, ready, warned, data>>

-----------------------------------------------------------------------------
(* The page leaves for the company's sign-in, or is reloaded: what was in  *)
(* flight is gone with it.                                                 *)
NewPage == /\ shown' = None /\ ready' = FALSE /\ warned' = FALSE /\ data' = None
           /\ net' = {} /\ gate' = FALSE /\ overtaken' = FALSE

SsoLogin == /\ ready /\ shown = None /\ ~txn /\ txn' = TRUE /\ NewPage
            /\ UNCHANGED <<owner, live, cookie, faults>>

(* handleSsoCallback: only for a transaction this browser started; its     *)
(* cookie is cleared whatever comes of it.                                 *)
SsoCallback(u) ==
  /\ txn /\ txn' = FALSE /\ NewPage /\ UNCHANGED faults
  /\ \/ Len(owner) < MaxSessions /\ NewSession(u) /\ cookie' = Len(owner) + 1
     \/ UNCHANGED <<owner, live, cookie>>

Reload == NewPage /\ UNCHANGED <<server, cookie>>

(* The agent ends a session: it expires, or the account is disabled.       *)
SessionEnds(s) ==
  /\ s \in live /\ live' = live \ {s}
  /\ UNCHANGED <<owner, page, cookie, net, gate, txn, faults>>

BrowserLoginNext ==
  \/ CheckSession \/ Load \/ Logout \/ SsoLogin \/ Reload
  \/ \E u \in People : Login(u) \/ SsoCallback(u)
  \/ \E q \in net : \/ HandleMe(q) \/ HandleLogin(q) \/ HandleLogout(q) \/ LoseAnswer(q)
                    \/ MeAnswered(q) \/ LoadAnswered(q) \/ LoginAnswered(q) \/ LogoutAnswered(q)
  \/ \E s \in live : SessionEnds(s)

BrowserLoginSpec == BrowserLoginInit /\ [][BrowserLoginNext]_blVars

-----------------------------------------------------------------------------
(* The user the page shows is the one its next request is made as, unless  *)
(* a check of the session was refused while a login or a logout was out    *)
(* and the page therefore dropped its answer, which changed the cookie.    *)
ShownIsCookie == shown # None => \/ cookie # 0 /\ shown = owner[cookie]
                                 \/ overtaken

(* Nothing loaded for one identity is shown to another, with the same      *)
(* exception.                                                              *)
DataIsOfShown == data # None => data = shown \/ overtaken

(* A logout the page reports without a warning has ended the session.      *)
SilentLogoutEnds ==
  \A q \in net : (q.kind = "logout" /\ shown # None /\ shown' = None /\ gate' # gate /\ ready' /\ ~warned')
       => q.sid \notin live
=============================================================================
