------------------------------ MODULE ExecRpc ------------------------------
(* A call of the agent on the execution service: signed with a short-lived *)
(* token (contract/hmac.ts), sent by one of four clients (tool calls,      *)
(* session provisioning, review transfers, artifact downloads), verified   *)
(* by exec's middleware (security/hmac.ts, http/router.ts) and answered.   *)
(* The network delays, alters or cuts; exec restarts, with another keyring *)
(* if the operator changed it; the two clocks disagree.  What a client     *)
(* tells its caller is the subject here.                                   *)
EXTENDS Integers, FiniteSets

CONSTANTS Calls,    \* the calls made
          Kinds,    \* the kinds of call tried
          TTL,      \* INTERNAL_TOKEN_DEFAULT_TTL_SECONDS, in ticks
          Ahead,    \* how far the agent's clock may be ahead of exec's
          MaxTick   \* bound on the clock

ConstantsOK == /\ TTL \in Nat \ {0} /\ MaxTick \in Nat /\ Ahead \subseteq Int
               /\ Kinds \subseteq {"effect", "read", "ensure", "review", "download"}

VARIABLES
  clock,    \* exec's clock
  skew,     \* the agent's clock minus exec's
  ring,     \* the key ids exec holds
  active,   \* the key id the agent signs with
  call      \* per call: kind, token, the client, what is on the wire, exec

rpcVars == <<clock, skew, ring, active, call>>

NoToken == [kid |-> 0, iat |-> 0]
Attempts == 1 .. 2

\* A call before it is made.
Fresh(k) == [kind |-> k, at |-> "idle", token |-> NoToken, try |-> 0,
             wire |-> {}, altered |-> {}, running |-> {}, started |-> {},
             reply |-> "none", told |-> "none", garbled |-> FALSE]

RpcInit == /\ clock = 0 /\ skew \in Ahead /\ ring = {1} /\ active = 1
        /\ call \in [Calls -> {Fresh(k) : k \in Kinds}]

----------------------------------------------------------------------------
(* The token.                                                              *)

\* Without a route binding, a run and a fence, or with a kid that is not in
\* its own ring, no token is issued: the calls below have them.
IssueToken == [kid |-> active, iat |-> clock + skew]

\* A token lives twice as long.
TokenTimelyTwice(token) == token.iat <= clock /\ clock < token.iat + 2 * TTL

\* nbf is iat and exp is iat + TTL, compared with exec's own clock without
\* any leeway.
TokenTimely(token) == token.iat <= clock /\ clock < token.iat + TTL

\* verifyInternalToken: three canonical segments, signed by a key of the
\* ring under the kid of the header.
KnownKey(token) == token.kid \in ring

\* What the token is bound to is what arrived: method and path, the scope
\* and tool of the path, the hash of the body or of the sorted query.
AsSigned(c, a) == a \notin call[c].altered

\* The body is not compared with its hash.
VerifiedNoHash(c, a) == KnownKey(call[c].token) /\ TokenTimely(call[c].token)

\* verifyInternalRequest.
Verified(c, a) == KnownKey(call[c].token) /\ TokenTimely(call[c].token) /\ AsSigned(c, a)

----------------------------------------------------------------------------
(* The clients.                                                            *)
SideEffect(c) == call[c].kind = "effect"
Rpc(c) == call[c].kind \in {"effect", "read"}
Tell(c, what) == [call[c] EXCEPT !.at = "ended", !.told = what]
Put(c, r) == call' = [call EXCEPT ![c] = r] /\ UNCHANGED <<clock, skew, ring, active>>

\* One call is one token; a second attempt uses it again.
Send(c) == /\ call[c].at = "idle"
           /\ Put(c, [call[c] EXCEPT !.at = "waiting", !.token = IssueToken, !.try = 1, !.wire = {1}])

\* Every error of the transport is a failure.
OutcomeFailed(c, connected) == "failed"

\* What the tool client says of an error of the transport: a side effect
\* may have happened unless no connection was made.
Outcome(c, connected) == IF SideEffect(c) /\ connected THEN "unknown" ELSE "failed"

\* The session client pauses and sends the same request once more; the
\* others give up.
Broken(c, connected) ==
  IF call[c].kind = "ensure" /\ call[c].try = 1 THEN [call[c] EXCEPT !.at = "pause"]
  ELSE Tell(c, Outcome(c, connected))

\* No connection: nothing was sent.
NotConnected(c) == /\ call[c].at = "waiting" /\ call[c].try \in call[c].wire
                   /\ Put(c, [Broken(c, FALSE) EXCEPT !.wire = @ \ {call[c].try}])

\* The connection is cut.  The request is lost, or exec has it, or will.
CutOff(c) == /\ call[c].at \in {"waiting", "reading"}
             /\ \E lost \in BOOLEAN : Put(c, [(IF call[c].at = "waiting" \/ Rpc(c) THEN Broken(c, TRUE) ELSE Tell(c, "failed"))
                                              EXCEPT !.wire = IF lost THEN @ \ {call[c].try} ELSE @, !.reply = "none"])

\* The tool client stops its timer at the headers, too.
DeadlineAtHeaders(c) == call[c].at = "waiting" /\ Put(c, [Broken(c, TRUE) EXCEPT !.reply = "none"])

\* The time limit.  The tool client's runs until the body has been read; the
\* other three stop theirs when the headers are there.
Deadline(c) == /\ call[c].at = "waiting" \/ (call[c].at = "reading" /\ Rpc(c))
               /\ Put(c, [Broken(c, TRUE) EXCEPT !.reply = "none"])

Again(c) == /\ call[c].at = "pause"
            /\ Put(c, [call[c] EXCEPT !.at = "waiting", !.try = 2, !.wire = @ \cup {2}])

\* The run is cancelled while its tool waits.
CallerAborts(c) == /\ call[c].at \in {"waiting", "reading"} /\ Rpc(c)
                   /\ Put(c, [Tell(c, "aborted") EXCEPT !.reply = "none"])

\* Headers first, then the body.
Headers(c) == /\ call[c].at = "waiting" /\ call[c].reply # "none"
              /\ Put(c, [call[c] EXCEPT !.at = "reading"])

\* The status is not looked at.
BodyAnyStatus(c) == call[c].at = "reading" /\ call[c].reply # "none" /\ Put(c, Tell(c, "ok"))

\* A body that is no JSON object fails the call, and is not an error of the
\* transport: the side effect is not marked unknown.
Body(c) == /\ call[c].at = "reading" /\ call[c].reply # "none"
           /\ Put(c, Tell(c, IF call[c].reply = "ok" THEN "ok" ELSE "failed"))

----------------------------------------------------------------------------
(* The network and exec.                                                   *)

\* The request is changed on its way (path, method, query or body).
Alter(c, a) == /\ a \in call[c].wire \ call[c].altered
               /\ Put(c, [call[c] EXCEPT !.altered = @ \cup {a}])

\* The middleware: 401, or the handler runs.
Receive(c, a) ==
  /\ a \in call[c].wire
  /\ LET off == [call[c] EXCEPT !.wire = @ \ {a}]
     IN Put(c, IF Verified(c, a) THEN [off EXCEPT !.running = @ \cup {a}, !.started = @ \cup {[try |-> a, at |-> clock]}]
               ELSE IF a = call[c].try /\ call[c].at = "waiting" THEN [off EXCEPT !.reply = "refused"] ELSE off)

\* The handler ends, well or with a wire error; its client may be gone.
Finish(c, a) ==
  /\ a \in call[c].running
  /\ LET off == [call[c] EXCEPT !.running = @ \ {a}]
     IN Put(c, IF a = call[c].try /\ call[c].at = "waiting" THEN [off EXCEPT !.reply = "ok"] ELSE off)

\* A handler that refuses (a path, a stale version, a missing workspace)
\* before it changes anything.
Refuse(c, a) ==
  /\ a \in call[c].running
  /\ LET off == [call[c] EXCEPT !.running = @ \ {a}, !.started = {s \in @ : s.try # a}]
     IN Put(c, IF a = call[c].try /\ call[c].at = "waiting" THEN [off EXCEPT !.reply = "refused"] ELSE off)

\* What answers is not exec (an error page of something in between).
Garble(c) == /\ call[c].reply = "ok" /\ ~call[c].garbled
             /\ Put(c, [call[c] EXCEPT !.reply = "page", !.garbled = TRUE])

\* exec restarts, with the keyring it is given; what it ran is cut short.
\* Its clients find out by CutOff or Deadline.
Restart(kids) ==
  /\ \E c \in Calls : call[c].at \notin {"idle", "ended"}
  /\ ring' = kids
  /\ call' = [c \in Calls |-> [call[c] EXCEPT !.running = {}, !.reply = IF call[c].at = "reading" THEN @ ELSE "none"]]
  /\ UNCHANGED <<clock, skew, active>>

\* The operator's order: exec knows both keys before the agent signs with
\* the new one, and the old one is dropped last.
AddKey == ring = {1} /\ Restart({1, 2})
SwitchKey == /\ ring = {1, 2} /\ active = 1 /\ active' = 2 /\ UNCHANGED <<clock, skew, ring, call>>
DropKey == ring = {1, 2} /\ active = 2 /\ Restart({2})
ExecCrash == Restart(ring)

ClockTicks == /\ clock < MaxTick /\ clock' = clock + 1 /\ UNCHANGED <<skew, ring, active, call>>

Client(c) == Send(c) \/ NotConnected(c) \/ CutOff(c) \/ Deadline(c) \/ Again(c) \/ CallerAborts(c) \/ Headers(c) \/ Body(c)
Exec(c) == (\E a \in Attempts : Alter(c, a) \/ Receive(c, a) \/ Finish(c, a) \/ Refuse(c, a)) \/ Garble(c)
World == AddKey \/ SwitchKey \/ DropKey \/ ExecCrash \/ ClockTicks

RpcNext == World \/ \E c \in Calls : Client(c) \/ Exec(c)

\* Timers fire and a pause ends; nothing is asked of exec or the network.
Timers(c) == Deadline(c) \/ Again(c)

RpcSpec == RpcInit /\ [][RpcNext]_rpcVars /\ \A c \in Calls : WF_rpcVars(Timers(c))

----------------------------------------------------------------------------
RpcTypeOK == /\ clock \in 0 .. MaxTick /\ skew \in Ahead /\ ring \in SUBSET {1, 2} /\ active \in {1, 2}
             /\ \A c \in Calls : /\ call[c].at \in {"idle", "waiting", "reading", "pause", "ended"}
                                 /\ call[c].try \in 0 .. 2 /\ call[c].wire \cup call[c].altered \cup call[c].running \subseteq Attempts
                                 /\ call[c].reply \in {"none", "ok", "refused", "page"}
                                 /\ (call[c].at = "ended") = (call[c].told \in {"ok", "failed", "unknown", "aborted"})

\* A tool call with a side effect that is reported as failed has not
\* started on exec and will not: the model may repeat it.  The exception is
\* an answer that exec did not write.
FailedIsUntouched == \A c \in Calls :
  call[c].told = "failed" /\ SideEffect(c) /\ ~call[c].garbled =>
     call[c].started = {} /\ call[c].running = {} /\ call[c].wire = {}

\* A call reported as successful was carried out, and as it was signed.
OkIsDone == \A c \in Calls : call[c].told = "ok" => \E s \in call[c].started : s.try \notin call[c].altered

\* Nothing starts on exec that was altered on the way, or later than the
\* token's life after it was signed, by exec's clock: no fence is looked
\* at, so this is all that stops a request whose run is over.
StartsAsSigned == \A c \in Calls : \A s \in call[c].started :
  s.try \notin call[c].altered /\ s.at - call[c].token.iat \in 0 .. TTL - 1

\* What a client tells its caller of a call is what became of it on exec.
CallsAnsweredTruly == FailedIsUntouched /\ OkIsDone /\ StartsAsSigned

\* A call comes to an end although exec and the network may do nothing.
\* Only the three clients that stop their timer at the headers can be left
\* reading a body that never comes.
Waiting(c) == call[c].at \in {"waiting", "pause", "reading"}
Ended(c) == call[c].at = "ended" \/ (call[c].at = "reading" /\ ~Rpc(c))
=============================================================================
