-------------------------------- MODULE Notices --------------------------------
(***************************************************************************)
(* The mail the platform sends (infrastructure/notification): a run that   *)
(* ends or waits, a review that is asked for or decided, each leaves a row *)
(* in the outbox.  A dispatcher, one per worker process, claims rows,      *)
(* works out who is to be told, takes a delivery row per person under its  *)
(* dedupe key, sends and settles.  Claims can be taken back while their    *)
(* owner is still sending, a send can time out after the mail has gone,    *)
(* and one of several people can fail.                                     *)
(*                                                                         *)
(* All rows are about one run and its review; a delivery is named by its   *)
(* row and its person, as the dedupe keys are.  The reads of a handler are *)
(* one step, and its people come in any order.                             *)
(***************************************************************************)
EXTENDS Integers, FiniteSets, TLAPS

CONSTANTS Dispatchers, Notices, People, Owner,
          Kind,          \* what each notice is about
          Starts,        \* what is known of the run at first
          BatchSize, MaxAttempts,
          MaxClaims,     \* bound: claim transactions
          MaxCrashes,    \* bound: passes that end early
          MaxChanges     \* bound: changes of the run and of people's wishes

VARIABLES origin, status, wants, email, reviewers, changes,
          row, dis, claims, crashes,
          delivery,      \* tbl_agsvc_notification_deliveries, by dedupe key
          mails,         \* by key: the claims under which a mail went out
          lost,          \* claims of a row that were taken back
          unsure,        \* mails that went out although their send failed
          due            \* by row: who the settling claim had to write to

worldVars == <<origin, status, wants, email, reviewers, changes>>
ghostVars == <<mails, lost, unsure, due>>
noticeVars == <<worldVars, row, dis, claims, crashes, delivery, ghostVars>>

None == "none"
Origins == [on : BOOLEAN, found : BOOLEAN, child : BOOLEAN, long : BOOLEAN,
            job : {None, "never", "failure", "always"}]
NoticeKinds == {"terminal", "waiting", "pending", "decided"}
Keys == Notices \X People
RowStatuses == {"NONE", "PENDING", "PUBLISHING", "PUBLISHED", "FAILED"}
Deliveries == {None, "sending", "sent", "skipped", "failed"}
Settled == {"sent", "skipped", "failed"}
Tokens == 0..MaxClaims

(* The constants of an instance.                                           *)
NoticesAssumption ==
  /\ None \notin People /\ None \notin Notices
  /\ Owner \in People
  /\ Kind \in [Notices -> NoticeKinds]
  /\ Starts \subseteq Origins
  /\ MaxClaims \in Nat /\ MaxCrashes \in Nat /\ MaxChanges \in Nat

(* at: the row in hand; to: the person in hand; todo: who is left; known:  *)
(* who had an address; pend: whose send failed for now.                    *)
Passes == [pc : {"idle", "next", "people", "send", "mark", "refuse", "record"},
           token : Tokens, batch : SUBSET Notices, at : Notices \cup {None},
           to : People \cup {None}, todo : SUBSET People, known : SUBSET People,
           sent : BOOLEAN, perm : BOOLEAN, pend : SUBSET People, final : BOOLEAN]
Idle == [pc |-> "idle", token |-> 0, batch |-> {}, at |-> None, to |-> None,
         todo |-> {}, known |-> {}, sent |-> FALSE, perm |-> FALSE, pend |-> {},
         final |-> FALSE]

NoticesTypeOK ==
  /\ origin \in Origins
  /\ status \in {"RUNNING", "WAITING", "SUCCEEDED", "FAILED"}
  /\ wants \in [NoticeKinds -> SUBSET People]
  /\ email \subseteq People /\ reviewers \subseteq People
  /\ row \in [Notices -> [status : RowStatuses, token : Tokens, attempts : Tokens]]
  /\ dis \in [Dispatchers -> Passes]
  /\ claims \in Tokens /\ crashes \in 0..MaxCrashes /\ changes \in 0..MaxChanges
  /\ delivery \in [Keys -> Deliveries]
  /\ mails \in [Keys -> SUBSET Tokens]
  /\ lost \subseteq Notices \X Tokens
  /\ unsure \subseteq Keys \X Tokens
  /\ due \in [Notices -> SUBSET People]

NoRow == [status |-> "NONE", token |-> 0, attempts |-> 0]
Fresh == [NoRow EXCEPT !.status = "PENDING"]

NoticesInit ==
  /\ origin \in Starts
  /\ status = "RUNNING"
  /\ wants = [k \in NoticeKinds |-> People]
  /\ email = People /\ reviewers = People
  /\ changes = 0
  /\ row = [n \in Notices |-> NoRow]
  /\ dis = [d \in Dispatchers |-> Idle]
  /\ claims = 0 /\ crashes = 0
  /\ delivery = [k \in Keys |-> None]
  /\ mails = [k \in Keys |-> {}]
  /\ lost = {} /\ unsure = {}
  /\ due = [n \in Notices |-> {}]

-----------------------------------------------------------------------------
(* What is written with the change it tells of, in one transaction.        *)
Insert(K) ==
  row' = [n \in Notices |-> IF Kind[n] \in K /\ row[n].status = "NONE" THEN Fresh ELSE row[n]]

(* enqueueRunWaitingNotificationInTxn: each wait has a row of its own.     *)
Park(n) ==
  /\ status = "RUNNING" /\ Kind[n] = "waiting" /\ row[n].status = "NONE"
  /\ status' = "WAITING"
  /\ row' = [row EXCEPT ![n] = Fresh]
  /\ UNCHANGED <<origin, wants, email, reviewers, changes>>
Resume ==
  /\ status = "WAITING" /\ status' = "RUNNING"
  /\ UNCHANGED <<origin, wants, email, reviewers, changes, row>>

(* The end of the run, however it ends; held: it leaves artifacts that a   *)
(* review has to release.                                                  *)
Ending(held) == IF held THEN {"terminal", "pending"} ELSE {"terminal"}
End(s, held) ==
  /\ status \in {"RUNNING", "WAITING"}
  /\ status' = s /\ Insert(Ending(held))
  /\ UNCHANGED <<origin, wants, email, reviewers, changes>>
Of(k) == {n \in Notices : Kind[n] = k}
Decide ==
  /\ \E n \in Of("pending") : row[n].status # "NONE"
  /\ \E n \in Of("decided") : row[n].status = "NONE"
  /\ Insert({"decided"}) /\ UNCHANGED worldVars

(* Wishes, addresses and roles change, and the owner deletes the job.      *)
Toggle(S, p) == IF p \in S THEN S \ {p} ELSE S \cup {p}
Change ==
  /\ changes < MaxChanges /\ changes' = changes + 1
  /\ \/ \E k \in NoticeKinds, p \in People : /\ wants' = [wants EXCEPT ![k] = Toggle(@, p)]
                                       /\ UNCHANGED <<email, reviewers, origin>>
     \/ \E p \in People : email' = Toggle(email, p) /\ UNCHANGED <<wants, reviewers, origin>>
     \/ \E p \in People : reviewers' = Toggle(reviewers, p) /\ UNCHANGED <<wants, email, origin>>
     \/ /\ origin' = [origin EXCEPT !.job = None]
        /\ UNCHANGED <<wants, email, reviewers>>
  /\ UNCHANGED <<status, row>>

World ==
  /\ \/ \E n \in Notices : Park(n)
     \/ Resume
     \/ \E s \in {"SUCCEEDED", "FAILED"}, held \in BOOLEAN : End(s, held)
     \/ Decide
     \/ Change
  /\ UNCHANGED <<dis, claims, crashes, delivery, ghostVars>>

-----------------------------------------------------------------------------
(* Who is to be told, as things are when the row is handled.               *)

(* The run of a job: by the policy of the job; any other: by the wish of   *)
(* its owner, when it took long enough.                                    *)
JobWants == origin.job = "always" \/ (origin.job = "failure" /\ status = "FAILED")
RunTerminal ==
  {p \in {Owner} : ~origin.child /\ (IF origin.job # None THEN JobWants
                                     ELSE p \in wants["terminal"] /\ origin.long)}

(* Only for jobs, and only while the run still waits.                      *)
RunWaiting == {p \in {Owner} : origin.job # None /\ status = "WAITING" /\ p \in wants["waiting"]}

(* The reviewers without the one who asks.                                 *)
ReviewPending == (reviewers \ {Owner}) \cap wants["pending"]
ReviewDecided == {Owner} \cap wants["decided"]

Recipients(n) ==
  IF ~origin.on THEN {}
  ELSE CASE Kind[n] = "terminal" -> RunTerminal
         [] Kind[n] = "waiting" -> RunWaiting
         [] Kind[n] = "pending" -> ReviewPending
         [] Kind[n] = "decided" -> ReviewDecided

-----------------------------------------------------------------------------
(* claimBatch with the eligibility of notifications: stale claims are      *)
(* taken back, then due rows are taken under a new token.                  *)
Having(s) == {n \in Notices : row[n].status = s}
ClaimRow(n, batch, stale) ==
  IF n \in batch THEN [status |-> "PUBLISHING", token |-> claims + 1,
                       attempts |-> row[n].attempts + 1]
  ELSE IF n \in stale THEN [row[n] EXCEPT !.status = "PENDING", !.token = 0]
  ELSE row[n]
ClaimBatch(d) ==
  /\ dis[d].pc = "idle" /\ claims < MaxClaims
  /\ \E stale \in SUBSET Having("PUBLISHING"), later \in SUBSET Having("PENDING") :
       LET eligible == stale \cup {n \in Having("PENDING") : row[n].attempts = 0 \/ n \in later}
       IN \E batch \in SUBSET eligible :
            /\ batch # {} /\ Cardinality(batch) <= BatchSize
            /\ Cardinality(batch) = BatchSize \/ batch = eligible
            /\ row' = [n \in Notices |-> ClaimRow(n, batch, stale)]
            /\ dis' = [dis EXCEPT ![d] = [Idle EXCEPT !.pc = "next", !.batch = batch,
                                                      !.token = claims + 1]]
            /\ lost' = lost \cup {<<n, row[n].token>> : n \in stale}
  /\ claims' = claims + 1
  /\ UNCHANGED <<worldVars, crashes, delivery, mails, unsure, due>>

(* A settling UPDATE matches the token; a claim that was taken back        *)
(* changes nothing.                                                        *)
HoldsClaim(d, n) == row[n].status = "PUBLISHING" /\ row[n].token = dis[d].token
SettleRow(d, n, s) ==
  row' = IF HoldsClaim(d, n) THEN [row EXCEPT ![n].status = s, ![n].token = 0] ELSE row

(* The next row of the batch.                                              *)
Rest(d, n) ==
  IF dis[d].batch = {n} THEN Idle
  ELSE [Idle EXCEPT !.pc = "next", !.token = dis[d].token, !.batch = dis[d].batch \ {n}]

(* #handle: nothing to send, nothing found, or people to write to.         *)
Unfound == origin.on /\ ~origin.found
Nothing(d, n) ==
  /\ Unfound \/ Recipients(n) = {}
  /\ SettleRow(d, n, IF Unfound THEN "FAILED" ELSE "PUBLISHED")
  /\ due' = IF HoldsClaim(d, n) THEN [due EXCEPT ![n] = {}] ELSE due
  /\ dis' = [dis EXCEPT ![d] = Rest(d, n)]
Addressed(d, n) ==
  /\ ~Unfound /\ Recipients(n) # {}
  /\ dis' = [dis EXCEPT ![d].pc = "people", ![d].at = n, ![d].todo = Recipients(n),
                        ![d].known = Recipients(n) \cap email]
  /\ UNCHANGED <<row, due>>
Handle(d, n) ==
  /\ dis[d].pc = "next" /\ n \in dis[d].batch
  /\ Nothing(d, n) \/ Addressed(d, n)
  /\ UNCHANGED <<worldVars, claims, crashes, delivery, mails, lost, unsure>>

Key(d) == <<dis[d].at, dis[d].to>>

(* begin: an insert under the dedupe key, or the row that is there.        *)
Begin(k, s) == [delivery EXCEPT ![k] = IF @ = None THEN s ELSE @]

Skip(d, p) ==
  /\ p \notin dis[d].known
  /\ delivery' = Begin(<<dis[d].at, p>>, "skipped")
  /\ dis' = [dis EXCEPT ![d].todo = @ \ {p}]
TakeDelivery(d, p) ==
  /\ p \in dis[d].known
  /\ delivery' = Begin(<<dis[d].at, p>>, "sending")
  /\ dis' = IF delivery'[<<dis[d].at, p>>] = "sending"
            THEN [dis EXCEPT ![d].pc = "send", ![d].to = p]
            ELSE [dis EXCEPT ![d].todo = @ \ {p}]
NextPerson(d, p) ==
  /\ dis[d].pc = "people" /\ p \in dis[d].todo
  /\ Skip(d, p) \/ TakeDelivery(d, p)
  /\ UNCHANGED <<worldVars, row, claims, crashes, ghostVars>>

(* mailer.send.  A time limit can strike after the mail has gone.          *)
Posted(d) == mails' = [mails EXCEPT ![Key(d)] = @ \cup {dis[d].token}]
SendOk(d) ==
  /\ Posted(d) /\ UNCHANGED unsure
  /\ dis' = [dis EXCEPT ![d].pc = "mark"]
SendRefused(d) ==
  /\ UNCHANGED <<mails, unsure>>
  /\ dis' = [dis EXCEPT ![d].pc = "refuse"]
SendFails(d) ==
  /\ \/ UNCHANGED <<mails, unsure>>
     \/ Posted(d) /\ unsure' = unsure \cup {<<Key(d), dis[d].token>>}
  /\ dis' = [dis EXCEPT ![d].pc = "people", ![d].todo = @ \ {dis[d].to},
                        ![d].pend = @ \cup {dis[d].to}]
Send(d) ==
  /\ dis[d].pc = "send"
  /\ SendOk(d) \/ SendRefused(d) \/ SendFails(d)
  /\ UNCHANGED <<worldVars, row, claims, crashes, delivery, lost, due>>

(* markSent; a permanent failure is recorded at once.                      *)
MarkSent(d) ==
  /\ dis[d].pc = "mark"
  /\ delivery' = [delivery EXCEPT ![Key(d)] = "sent"]
  /\ dis' = [dis EXCEPT ![d].pc = "people", ![d].todo = @ \ {dis[d].to}, ![d].sent = TRUE]
  /\ UNCHANGED <<worldVars, row, claims, crashes, ghostVars>>
MarkRefused(d) ==
  /\ dis[d].pc = "refuse"
  /\ delivery' = [delivery EXCEPT ![Key(d)] = "failed"]
  /\ dis' = [dis EXCEPT ![d].pc = "people", ![d].todo = @ \ {dis[d].to}, ![d].perm = TRUE]
  /\ UNCHANGED <<worldVars, row, claims, crashes, ghostVars>>

(* All written to: the row is settled as a whole.                          *)
Verdict(d) == IF dis[d].sent \/ ~dis[d].perm THEN "PUBLISHED" ELSE "FAILED"
Settle(d) ==
  /\ dis[d].pc = "people" /\ dis[d].todo = {} /\ dis[d].pend = {}
  /\ SettleRow(d, dis[d].at, Verdict(d))
  /\ due' = IF HoldsClaim(d, dis[d].at) THEN [due EXCEPT ![dis[d].at] = dis[d].known] ELSE due
  /\ dis' = [dis EXCEPT ![d] = Rest(d, dis[d].at)]
  /\ UNCHANGED <<worldVars, claims, crashes, delivery, mails, lost, unsure>>

(* ... or tried again later: markPendingForRetry, which gives up at        *)
(* MaxAttempts, and then what is known of each failed send.                *)
GivesUp(d, n) == HoldsClaim(d, n) /\ row[n].attempts >= MaxAttempts
RetryNotice(d) ==
  /\ dis[d].pc = "people" /\ dis[d].todo = {} /\ dis[d].pend # {}
  /\ SettleRow(d, dis[d].at, IF GivesUp(d, dis[d].at) THEN "FAILED" ELSE "PENDING")
  /\ dis' = [dis EXCEPT ![d].pc = "record", ![d].final = GivesUp(d, dis[d].at)]
  /\ UNCHANGED <<worldVars, claims, crashes, delivery, ghostVars>>
RecordFailure(d, p) ==
  /\ dis[d].pc = "record" /\ p \in dis[d].pend
  /\ delivery' = IF dis[d].final THEN [delivery EXCEPT ![<<dis[d].at, p>>] = "failed"]
                 ELSE delivery
  /\ dis' = IF dis[d].pend = {p} THEN [dis EXCEPT ![d] = Rest(d, dis[d].at)]
            ELSE [dis EXCEPT ![d].pend = @ \ {p}]
  /\ UNCHANGED <<worldVars, row, claims, crashes, ghostVars>>

(* The process dies, or a statement fails and publishOnce throws.          *)
Abandon(d) ==
  /\ dis[d].pc # "idle" /\ crashes < MaxCrashes
  /\ dis' = [dis EXCEPT ![d] = Idle] /\ crashes' = crashes + 1
  /\ UNCHANGED <<worldVars, row, claims, delivery, ghostVars>>

PublishOnce(d) ==
  \/ ClaimBatch(d)
  \/ \E n \in Notices : Handle(d, n)
  \/ \E p \in People : NextPerson(d, p) \/ RecordFailure(d, p)
  \/ Send(d) \/ MarkSent(d) \/ MarkRefused(d) \/ Settle(d) \/ RetryNotice(d)

NoticesNext == World \/ \E d \in Dispatchers : PublishOnce(d) \/ Abandon(d)

NoticesSpec == NoticesInit /\ [][NoticesNext]_noticeVars

(* startNotificationLoop repeats publishOnce for ever.                     *)
NoticesFair == NoticesSpec /\ \A d \in Dispatchers : WF_noticeVars(PublishOnce(d))

-----------------------------------------------------------------------------
(* Properties.                                                             *)

(* A person is written to twice about one thing only if the claim of one   *)
(* of the two mails was taken back from its dispatcher, or its send failed *)
(* after the mail had gone ("already sent is not sent again", the comment  *)
(* of notification-dispatcher.ts on dedupe_key).                           *)
Answered(k, c) == <<k[1], c>> \notin lost /\ <<k, c>> \notin unsure
OneMail ==
  \A k \in Keys : \A c1, c2 \in mails[k] : Answered(k, c1) /\ Answered(k, c2) => c1 = c2

(* A row that counts as done leaves nobody behind: everyone the claim that *)
(* settled it had to write to has a delivery with an outcome, whatever the *)
(* other dispatchers, retries and crashes did in between.                  *)
NobodyForgotten ==
  \A n \in Notices : row[n].status = "PUBLISHED" =>
    \A p \in due[n] : delivery[<<n, p>>] \in Settled

(* Every notice is settled in the end, unless the bound on claims is used  *)
(* up.                                                                     *)
Waits(n) == row[n].status \in {"PENDING", "PUBLISHING"}
NoticeDone(n) == row[n].status \in {"PUBLISHED", "FAILED"} \/ claims = MaxClaims

-----------------------------------------------------------------------------
(* Why OneMail and NobodyForgotten hold: the inductive invariant.          *)
Live(d) == dis[d].pc # "idle"
Writing(d) == dis[d].pc \in {"people", "send", "mark", "refuse"}
InHand(d) == dis[d].pc \in {"send", "mark", "refuse"}

(* The row and the person in hand are those of the pass.                   *)
HandsOk ==
  \A d \in Dispatchers :
    /\ dis[d].pc = "idle" => dis[d].batch = {}
    /\ Writing(d) \/ dis[d].pc = "record" => dis[d].at \in Notices /\ dis[d].at \in dis[d].batch
    /\ InHand(d) => dis[d].to \in People /\ dis[d].to \in dis[d].todo

(* Tokens are issued once; no two passes share one.                        *)
TokensIssued ==
  /\ \A n \in Notices : row[n].attempts <= claims
  /\ \A d \in Dispatchers : dis[d].token <= claims
  /\ \A k \in Keys : \A c \in mails[k] : c <= claims
TokensApart ==
  \A d, e \in Dispatchers : Live(d) /\ Live(e) /\ dis[d].token = dis[e].token => d = e

(* A pass holds every row of its batch that was not taken back.            *)
ClaimStands ==
  \A d \in Dispatchers : \A n \in dis[d].batch :
    /\ <<n, dis[d].token>> \notin lost
    /\ ~(dis[d].pc = "record" /\ n = dis[d].at)
    => HoldsClaim(d, n)

(* A mail that went out is on record, or its claim stands and its pass is  *)
(* over or about to record it.                                             *)
AboutTo(k, c) ==
  /\ row[k[1]].status = "PUBLISHING" /\ row[k[1]].token = c
  /\ \A d \in Dispatchers : Live(d) /\ dis[d].token = c =>
       dis[d].pc = "mark" /\ dis[d].at = k[1] /\ dis[d].to = k[2]
OnRecord ==
  \A k \in Keys : \A c \in mails[k] :
    Answered(k, c) => delivery[k] \in Settled \/ AboutTo(k, c)

(* Whoever sends under a claim that stands is the only one.                *)
SendsAlone ==
  \A d \in Dispatchers : dis[d].pc = "send" /\ <<dis[d].at, dis[d].token>> \notin lost =>
    \A c \in mails[Key(d)] : Answered(Key(d), c) => c = dis[d].token

(* Those a pass is done with have an outcome.                              *)
DoneIsSettled ==
  \A d \in Dispatchers : Writing(d) =>
    \A p \in dis[d].known : p \in dis[d].todo \/ p \in dis[d].pend
                              \/ delivery[<<dis[d].at, p>>] \in Settled

NoticesInv ==
  /\ NoticesTypeOK /\ HandsOk /\ TokensIssued /\ TokensApart /\ ClaimStands
  /\ OnRecord /\ SendsAlone /\ OneMail /\ DoneIsSettled /\ NobodyForgotten


-----------------------------------------------------------------------------
(* An idle pass, and the people and rows of a step, have their types.      *)
LEMMA IdleType == ASSUME NoticesAssumption PROVE Idle \in Passes
  BY DEF Idle, Passes, Tokens, NoticesAssumption

LEMMA RecipientsType ==
  ASSUME NoticesAssumption, NoticesTypeOK, NEW n \in Notices
  PROVE  Recipients(n) \subseteq People
  <1>1. Kind[n] \in NoticeKinds /\ Owner \in People
    BY DEF NoticesAssumption
  <1>2. RunTerminal \subseteq People /\ RunWaiting \subseteq People
    BY <1>1 DEF RunTerminal, RunWaiting
  <1>3. ReviewPending \subseteq People /\ ReviewDecided \subseteq People
    BY <1>1 DEF NoticesTypeOK, ReviewPending, ReviewDecided
  <1> QED BY <1>1, <1>2, <1>3 DEF Recipients, NoticeKinds

LEMMA RestType ==
  ASSUME NoticesAssumption, NoticesTypeOK, NEW d \in Dispatchers, NEW n \in Notices
  PROVE  Rest(d, n) \in Passes
  <1>1. dis[d] \in Passes BY DEF NoticesTypeOK
  <1>2. dis[d].token \in Tokens /\ dis[d].batch \ {n} \subseteq Notices
    BY <1>1 DEF Passes
  <1> QED BY <1>2, IdleType DEF Rest, Idle, Passes

LEMMA SettleType ==
  ASSUME NoticesTypeOK, NoticesAssumption, NEW d \in Dispatchers, NEW n \in Notices,
         NEW s \in RowStatuses, SettleRow(d, n, s)
  PROVE  row' \in [Notices -> [status : RowStatuses, token : Tokens, attempts : Tokens]]
  <1> DEFINE RowT == [status : RowStatuses, token : Tokens, attempts : Tokens]
  <1>1. row \in [Notices -> RowT] /\ 0 \in Tokens
    BY DEF NoticesTypeOK, NoticesAssumption, Tokens
  <1>2. [row[n] EXCEPT !.status = s, !.token = 0] \in RowT
    BY <1>1
  <1>3. CASE ~HoldsClaim(d, n) BY <1>1, <1>3 DEF SettleRow
  <1>4. CASE HoldsClaim(d, n)
    <2>1. row' = [row EXCEPT ![n] = [row[n] EXCEPT !.status = s, !.token = 0]]
      BY <1>1, <1>4 DEF SettleRow
    <2> HIDE DEF RowT
    <2>2. row' \in [Notices -> RowT] BY <1>1, <1>2, <2>1
    <2> QED BY <2>2 DEF RowT
  <1> QED BY <1>3, <1>4

LEMMA WorldType == ASSUME NoticesAssumption, NoticesTypeOK, World PROVE NoticesTypeOK'
  <1> USE DEF NoticesTypeOK
  <1>0. Fresh \in [status : RowStatuses, token : Tokens, attempts : Tokens]
    BY DEF Fresh, NoRow, RowStatuses, Tokens, NoticesAssumption
  <1>1. UNCHANGED <<dis, claims, crashes, delivery, ghostVars>>
    BY DEF World
  <1>2. ASSUME NEW n \in Notices, Park(n) PROVE NoticesTypeOK'
    BY <1>0, <1>1, <1>2 DEF Park, ghostVars
  <1>3. CASE Resume
    BY <1>1, <1>3 DEF Resume, ghostVars
  <1>4. ASSUME NEW s \in {"SUCCEEDED", "FAILED"}, NEW held \in BOOLEAN, End(s, held) PROVE NoticesTypeOK'
    BY <1>0, <1>1, <1>4 DEF End, Insert, ghostVars
  <1>5. CASE Decide
    BY <1>0, <1>1, <1>5 DEF Decide, Insert, worldVars, ghostVars
  <1>6. CASE Change
    <2>1. changes' \in 0..MaxChanges BY <1>6 DEF Change, NoticesAssumption
    <2>2. \A S \in SUBSET People, p \in People : Toggle(S, p) \in SUBSET People
      BY DEF Toggle
    <2>3. wants' \in [NoticeKinds -> SUBSET People] /\ email' \subseteq People /\ reviewers' \subseteq People
      BY <1>6, <2>2 DEF Change
    <2>4. origin' \in Origins
      BY <1>6 DEF Change, Origins
    <2> QED BY <1>1, <1>6, <2>1, <2>3, <2>4 DEF Change, ghostVars
  <1> QED BY <1>2, <1>3, <1>4, <1>5, <1>6 DEF World

LEMMA ClaimType ==
  ASSUME NoticesAssumption, NoticesTypeOK, TokensIssued, NEW d \in Dispatchers, ClaimBatch(d)
  PROVE  NoticesTypeOK'
  <1> USE DEF NoticesTypeOK
  <1> DEFINE RowT == [status : RowStatuses, token : Tokens, attempts : Tokens]
  <1>1. PICK stale \in SUBSET Having("PUBLISHING"), batch \in SUBSET Notices :
          /\ row' = [n \in Notices |-> ClaimRow(n, batch, stale)]
          /\ dis' = [dis EXCEPT ![d] = [Idle EXCEPT !.pc = "next", !.batch = batch,
                                                    !.token = claims + 1]]
          /\ lost' = lost \cup {<<n, row[n].token>> : n \in stale}
    BY DEF ClaimBatch, Having
  <1>2. claims + 1 \in Tokens /\ 0 \in Tokens
    BY DEF ClaimBatch, Tokens, NoticesAssumption
  <1>3. dis' \in [Dispatchers -> Passes]
    <2>1. [Idle EXCEPT !.pc = "next", !.batch = batch, !.token = claims + 1] \in Passes
      BY <1>2, IdleType DEF Passes, Idle
    <2> QED BY <1>1, <2>1
  <1>4. row' \in [Notices -> RowT]
    <2>1. ASSUME NEW n \in Notices PROVE ClaimRow(n, batch, stale) \in RowT
      <3>1. row[n] \in RowT OBVIOUS
      <3>2. CASE n \in batch
        <4>1. row[n].attempts + 1 \in Tokens
          BY <1>2, <3>1 DEF Tokens, TokensIssued, NoticesAssumption
        <4> QED BY <3>2, <1>2, <4>1 DEF ClaimRow, RowStatuses
      <3>3. CASE n \notin batch
        BY <3>1, <3>3, <1>2 DEF ClaimRow, RowStatuses
      <3> QED BY <3>2, <3>3
    <2> QED BY <1>1, <2>1
  <1>5. lost' \subseteq Notices \X Tokens
    BY <1>1 DEF Having
  <1> QED BY <1>2, <1>3, <1>4, <1>5 DEF ClaimBatch, worldVars

LEMMA PassType ==
  ASSUME NoticesAssumption, NoticesTypeOK, HandsOk, TokensIssued,
         NEW d \in Dispatchers, PublishOnce(d) \/ Abandon(d)
  PROVE  NoticesTypeOK'
  <1> USE DEF NoticesTypeOK
  <1> DEFINE a == dis[d]
  <1>0. /\ a \in Passes /\ a.token \in Tokens /\ a.batch \in SUBSET Notices
        /\ a.todo \in SUBSET People /\ a.known \in SUBSET People /\ a.pend \in SUBSET People
    BY DEF Passes
  <1>1. ASSUME NEW n \in Notices, Handle(d, n) PROVE NoticesTypeOK'
    <2>1. CASE Nothing(d, n)
      <3>1. row' \in [Notices -> [status : RowStatuses, token : Tokens, attempts : Tokens]]
        BY <2>1, SettleType DEF Nothing, RowStatuses
      <3>2. dis' \in [Dispatchers -> Passes]
        BY <2>1, RestType DEF Nothing
      <3>3. due' \in [Notices -> SUBSET People]
        BY <2>1 DEF Nothing
      <3> QED BY <1>1, <3>1, <3>2, <3>3 DEF Handle, worldVars
    <2>2. CASE Addressed(d, n)
      <3>1. Recipients(n) \in SUBSET People BY RecipientsType
      <3>2. Recipients(n) \cap email \in SUBSET People BY <3>1
      <3> HIDE DEF NoticesTypeOK
      <3>3. dis'[d] \in Passes
        BY <2>2, <1>0, <3>1, <3>2 DEF Addressed, Passes, NoticesTypeOK
      <3>4. dis' \in [Dispatchers -> Passes]
        BY <2>2, <3>3 DEF Addressed, NoticesTypeOK
      <3> QED BY <1>1, <2>2, <3>4 DEF Handle, Addressed, worldVars, NoticesTypeOK
    <2> QED BY <1>1, <2>1, <2>2 DEF Handle
  <1>2. ASSUME NEW p \in People, NextPerson(d, p) PROVE NoticesTypeOK'
    <2>1. a.at \in Notices BY <1>2 DEF NextPerson, HandsOk, Writing
    <2>2. delivery' \in [Keys -> Deliveries]
      BY <1>2, <2>1 DEF NextPerson, Skip, TakeDelivery, Begin, Keys, Deliveries
    <2> HIDE DEF NoticesTypeOK
    <2>3. dis'[d] \in Passes
      <3>1. \/ dis'[d] = [a EXCEPT !.todo = @ \ {p}]
            \/ dis'[d] = [a EXCEPT !.pc = "send", !.to = p]
        BY <1>2 DEF NextPerson, Skip, TakeDelivery, NoticesTypeOK
      <3>2. [a EXCEPT !.todo = @ \ {p}] \in Passes BY <1>0 DEF Passes
      <3>3. [a EXCEPT !.pc = "send", !.to = p] \in Passes BY <1>0 DEF Passes
      <3> QED BY <3>1, <3>2, <3>3
    <2> USE DEF NoticesTypeOK
    <2>4. dis' \in [Dispatchers -> Passes]
      BY <1>2, <2>3 DEF NextPerson, Skip, TakeDelivery
    <2> QED BY <1>2, <2>2, <2>4 DEF NextPerson, worldVars, ghostVars
  <1>3. ASSUME NEW p \in People, RecordFailure(d, p) PROVE NoticesTypeOK'
    <2>1. a.at \in Notices BY <1>3 DEF RecordFailure, HandsOk
    <2>2. delivery' \in [Keys -> Deliveries]
      BY <1>3, <2>1 DEF RecordFailure, Keys, Deliveries
    <2> HIDE DEF NoticesTypeOK
    <2>3. dis'[d] \in Passes
      <3>1. CASE a.pend = {p}
        <4>1. dis'[d] = Rest(d, a.at) BY <1>3, <3>1 DEF RecordFailure, NoticesTypeOK
        <4> QED BY <2>1, <4>1, RestType
      <3>2. CASE a.pend # {p}
        <4>1. dis'[d] = [a EXCEPT !.pend = @ \ {p}]
          BY <1>3, <3>2 DEF RecordFailure, NoticesTypeOK
        <4>2. [a EXCEPT !.pend = @ \ {p}] \in Passes BY <1>0 DEF Passes
        <4> QED BY <4>1, <4>2
      <3> QED BY <3>1, <3>2
    <2> USE DEF NoticesTypeOK
    <2>4. dis' \in [Dispatchers -> Passes]
      BY <1>3, <2>3 DEF RecordFailure
    <2> QED BY <1>3, <2>2, <2>4 DEF RecordFailure, worldVars, ghostVars
  <1>4. CASE Send(d)
    <2>1. Key(d) \in Keys /\ a.to \in People
      BY <1>4 DEF Send, HandsOk, Writing, InHand, Key, Keys
    <2>2. mails' \in [Keys -> SUBSET Tokens] /\ unsure' \subseteq Keys \X Tokens
      BY <1>0, <1>4, <2>1 DEF Send, SendOk, SendRefused, SendFails, Posted
    <2> HIDE DEF NoticesTypeOK
    <2>3. dis'[d] \in Passes
      <3>1. \/ dis'[d] = [a EXCEPT !.pc = "mark"] \/ dis'[d] = [a EXCEPT !.pc = "refuse"]
            \/ dis'[d] = [a EXCEPT !.pc = "people", !.todo = @ \ {a.to}, !.pend = @ \cup {a.to}]
        BY <1>4 DEF Send, SendOk, SendRefused, SendFails, NoticesTypeOK
      <3>2. [a EXCEPT !.pc = "mark"] \in Passes /\ [a EXCEPT !.pc = "refuse"] \in Passes
        BY <1>0 DEF Passes
      <3>3. [a EXCEPT !.pc = "people", !.todo = @ \ {a.to}, !.pend = @ \cup {a.to}] \in Passes
        BY <1>0, <2>1 DEF Passes
      <3> QED BY <3>1, <3>2, <3>3
    <2> USE DEF NoticesTypeOK
    <2>4. dis' \in [Dispatchers -> Passes]
      BY <1>4, <2>3 DEF Send, SendOk, SendRefused, SendFails
    <2> QED BY <1>4, <2>2, <2>4 DEF Send, worldVars
  <1>5. CASE MarkSent(d) \/ MarkRefused(d)
    <2>1. Key(d) \in Keys /\ a.to \in People
      BY <1>5 DEF MarkSent, MarkRefused, HandsOk, Writing, InHand, Key, Keys
    <2>2. delivery' \in [Keys -> Deliveries]
      BY <1>5, <2>1 DEF MarkSent, MarkRefused, Deliveries
    <2> HIDE DEF NoticesTypeOK
    <2>3. dis'[d] \in Passes
      <3>1. \/ dis'[d] = [a EXCEPT !.pc = "people", !.todo = @ \ {a.to}, !.sent = TRUE]
            \/ dis'[d] = [a EXCEPT !.pc = "people", !.todo = @ \ {a.to}, !.perm = TRUE]
        BY <1>5 DEF MarkSent, MarkRefused, NoticesTypeOK
      <3>2. [a EXCEPT !.pc = "people", !.todo = @ \ {a.to}, !.sent = TRUE] \in Passes
        BY <1>0 DEF Passes
      <3>3. [a EXCEPT !.pc = "people", !.todo = @ \ {a.to}, !.perm = TRUE] \in Passes
        BY <1>0 DEF Passes
      <3> QED BY <3>1, <3>2, <3>3
    <2> USE DEF NoticesTypeOK
    <2>4. dis' \in [Dispatchers -> Passes]
      BY <1>5, <2>3 DEF MarkSent, MarkRefused
    <2> QED BY <1>5, <2>2, <2>4 DEF MarkSent, MarkRefused, worldVars, ghostVars
  <1>6. CASE Settle(d)
    <2>1. a.at \in Notices BY <1>6 DEF Settle, HandsOk, Writing
    <2>2. row' \in [Notices -> [status : RowStatuses, token : Tokens, attempts : Tokens]]
      BY <1>6, <2>1, SettleType DEF Settle, Verdict, RowStatuses
    <2>3. dis' \in [Dispatchers -> Passes]
      BY <1>6, <2>1, RestType DEF Settle
    <2>4. due' \in [Notices -> SUBSET People]
      BY <1>0, <1>6 DEF Settle
    <2> QED BY <1>6, <2>2, <2>3, <2>4 DEF Settle, worldVars
  <1>7. CASE RetryNotice(d)
    <2>1. a.at \in Notices BY <1>7 DEF RetryNotice, HandsOk, Writing
    <2>2. row' \in [Notices -> [status : RowStatuses, token : Tokens, attempts : Tokens]]
      BY <1>7, <2>1, SettleType DEF RetryNotice, RowStatuses
    <2>3. GivesUp(d, a.at) \in BOOLEAN BY DEF GivesUp, HoldsClaim
    <2>4. dis'[d] \in Passes
      BY <1>0, <1>7, <2>3 DEF RetryNotice, Passes
    <2>5. dis' \in [Dispatchers -> Passes]
      BY <1>7, <2>4 DEF RetryNotice
    <2> QED BY <1>7, <2>2, <2>5 DEF RetryNotice, worldVars, ghostVars
  <1>8. CASE Abandon(d)
    <2>1. dis' \in [Dispatchers -> Passes]
      BY <1>8, IdleType DEF Abandon
    <2>2. crashes' \in 0..MaxCrashes
      BY <1>8 DEF Abandon, NoticesAssumption
    <2> QED BY <1>8, <2>1, <2>2 DEF Abandon, worldVars, ghostVars
  <1> QED BY <1>1, <1>2, <1>3, <1>4, <1>5, <1>6, <1>7, <1>8, ClaimType DEF PublishOnce

(* What a step of a pass, other than its claim, can do: to the passes,     *)
PassEffect(d) ==
  /\ Live(d) /\ claims' = claims /\ lost' = lost
  /\ \A e \in Dispatchers : e # d => dis'[e] = dis[e]
  /\ dis'[d].token \in {0, dis[d].token}
  /\ dis'[d].pc # "idle" => dis'[d].token = dis[d].token
  /\ \A n \in dis'[d].batch :
       /\ n \in dis[d].batch
       /\ dis[d].pc = "record" /\ n = dis[d].at => dis'[d].pc = "record" /\ n = dis'[d].at

(* to the rows of the outbox,                                              *)
RowEffect(d) ==
  /\ \A n \in Notices : row'[n].attempts = row[n].attempts
  /\ \A n \in Notices : row'[n] # row[n] =>
       /\ HoldsClaim(d, n) /\ dis[d].pc # "mark"
       /\ n \in dis'[d].batch => dis'[d].pc = "record" /\ n = dis'[d].at
  /\ \A n \in Notices : row'[n].status = "PUBLISHED" =>
       \/ row[n].status = "PUBLISHED" /\ due'[n] = due[n]
       \/ \A p \in due'[n] : delivery[<<n, p>>] \in Settled

(* to the mails,                                                           *)
MailEffect(d) ==
  /\ unsure \subseteq unsure'
  /\ \A k \in Keys : \A c \in mails'[k] :
       \/ c \in mails[k]
       \/ /\ dis[d].pc = "send" /\ k = Key(d) /\ c = dis[d].token
          /\ row' = row
          /\ <<k, c>> \in unsure' \/ (dis'[d].pc = "mark" /\ dis'[d].at = k[1] /\ dis'[d].to = k[2])
  /\ dis'[d].pc = "send" =>
       /\ dis[d].pc = "people" /\ mails' = mails /\ unsure' = unsure
       /\ dis'[d].at = dis[d].at
       /\ delivery'[<<dis'[d].at, dis'[d].to>>] \notin Settled

(* and to the deliveries.                                                  *)
DeliveryEffect(d) ==
  /\ \A k \in Keys : delivery[k] \in Settled => delivery'[k] \in Settled
  /\ dis[d].pc = "mark" => delivery'[Key(d)] \in Settled \/ dis'[d].pc = "idle"
  /\ dis'[d].pc \in {"people", "send", "mark", "refuse"} =>
       \A p \in dis'[d].known : p \in dis'[d].todo \/ p \in dis'[d].pend
                                  \/ delivery'[<<dis'[d].at, p>>] \in Settled

HandsEffect(d) ==
  /\ dis'[d].pc = "idle" => dis'[d].batch = {}
  /\ dis'[d].pc \in {"people", "send", "mark", "refuse", "record"} =>
       dis'[d].at \in Notices /\ dis'[d].at \in dis'[d].batch
  /\ dis'[d].pc \in {"send", "mark", "refuse"} => dis'[d].to \in People /\ dis'[d].to \in dis'[d].todo

Effect(d) == PassEffect(d) /\ RowEffect(d) /\ MailEffect(d) /\ DeliveryEffect(d) /\ HandsEffect(d)

(* Such a step keeps the invariant.                                        *)
LEMMA EffectKeeps ==
  ASSUME NoticesInv, NoticesTypeOK', NEW d \in Dispatchers, Effect(d)
  PROVE  NoticesInv'
  <1> USE DEF NoticesInv
  <1>1. HandsOk'
    BY DEF HandsOk, Effect, HandsEffect, PassEffect, Writing, InHand
  <1>2. TokensIssued'
    <2>0. claims \in Nat /\ \A e \in Dispatchers : dis[e].token \in Nat
      BY DEF NoticesTypeOK, Tokens, Passes
    <2>1. \A n \in Notices : row'[n].attempts <= claims'
      BY DEF TokensIssued, Effect, RowEffect, PassEffect
    <2>2. \A e \in Dispatchers : dis'[e].token <= claims'
      BY <2>0 DEF TokensIssued, Effect, PassEffect
    <2>3. \A k \in Keys : \A c \in mails'[k] : c <= claims'
      BY DEF TokensIssued, Effect, PassEffect, MailEffect
    <2> QED BY <2>1, <2>2, <2>3 DEF TokensIssued
  <1>3. TokensApart'
    BY DEF TokensApart, Effect, PassEffect, Live
  <1>4. ClaimStands'
    <2> SUFFICES ASSUME NEW e \in Dispatchers, NEW n \in dis'[e].batch,
                        <<n, dis'[e].token>> \notin lost,
                        ~(dis'[e].pc = "record" /\ n = dis'[e].at)
                 PROVE  row'[n].status = "PUBLISHING" /\ row'[n].token = dis'[e].token
      BY DEF ClaimStands, HoldsClaim, Effect, PassEffect
    <2>0. n \in Notices BY DEF NoticesTypeOK, Passes
    <2>1. dis'[e].pc # "idle"
      BY <1>1 DEF HandsOk
    <2>2. dis'[e].token = dis[e].token /\ n \in dis[e].batch /\ Live(e)
      BY <2>1 DEF Effect, PassEffect, Live
    <2>3. HoldsClaim(e, n)
      BY <2>2 DEF ClaimStands, Effect, PassEffect
    <2>4. row'[n] = row[n]
      <3>1. SUFFICES ASSUME row'[n] # row[n] PROVE FALSE OBVIOUS
      <3>2. HoldsClaim(d, n) BY <2>0, <3>1 DEF Effect, RowEffect
      <3>3. e = d BY <2>2, <2>3, <3>2 DEF HoldsClaim, TokensApart, Effect, PassEffect
      <3> QED BY <2>0, <3>1, <3>3 DEF Effect, RowEffect
    <2> QED BY <2>2, <2>3, <2>4 DEF HoldsClaim
  <1>5. OnRecord'
    <2> SUFFICES ASSUME NEW k \in Keys, NEW c \in mails'[k], Answered(k, c)',
                        delivery'[k] \notin Settled
                 PROVE  AboutTo(k, c)'
      BY DEF OnRecord
    <2>0. k[1] \in Notices BY DEF Keys
    <2>1. Answered(k, c) BY DEF Answered, Effect, PassEffect, MailEffect
    <2>2. CASE c \in mails[k]
      <3>1. AboutTo(k, c)
        BY <2>1, <2>2 DEF OnRecord, Effect, DeliveryEffect
      <3>2. dis[d].token = c => dis[d].pc = "mark" /\ dis'[d].pc = "idle"
        <4>1. SUFFICES ASSUME dis[d].token = c PROVE dis[d].pc = "mark" /\ dis'[d].pc = "idle" OBVIOUS
        <4>2. dis[d].pc = "mark" /\ dis[d].at = k[1] /\ dis[d].to = k[2]
          BY <3>1, <4>1 DEF AboutTo, Effect, PassEffect
        <4>3. Key(d) = k BY <4>2 DEF Key, Keys
        <4> QED BY <4>2, <4>3 DEF Effect, DeliveryEffect
      <3>3. row'[k[1]] = row[k[1]]
        BY <2>0, <3>1, <3>2 DEF Effect, RowEffect, HoldsClaim, AboutTo
      <3>4. ASSUME NEW e \in Dispatchers, Live(e)', dis'[e].token = c
            PROVE  dis'[e].pc = "mark" /\ dis'[e].at = k[1] /\ dis'[e].to = k[2]
        <4>1. e # d BY <3>2, <3>4 DEF Effect, PassEffect, Live
        <4> QED BY <3>1, <3>4, <4>1 DEF AboutTo, Effect, PassEffect, Live
      <3> QED BY <3>1, <3>3, <3>4 DEF AboutTo
    <2>3. CASE c \notin mails[k]
      <3>1. /\ dis[d].pc = "send" /\ k = Key(d) /\ c = dis[d].token /\ row' = row
            /\ dis'[d].pc = "mark" /\ dis'[d].at = k[1] /\ dis'[d].to = k[2]
        BY <2>3 DEF Answered, Effect, MailEffect
      <3>2. k[1] = dis[d].at BY <3>1 DEF Key
      <3>3. k[1] \in dis[d].batch /\ <<k[1], dis[d].token>> \notin lost
        BY <2>1, <3>1, <3>2 DEF HandsOk, Writing, Answered
      <3>4. HoldsClaim(d, k[1]) BY <3>1, <3>3 DEF ClaimStands
      <3>5. ASSUME NEW e \in Dispatchers, Live(e)', dis'[e].token = c PROVE e = d
        BY <1>3, <3>1, <3>5 DEF TokensApart, Live, Effect, PassEffect
      <3> QED BY <3>1, <3>4, <3>5 DEF AboutTo, HoldsClaim
    <2> QED BY <2>2, <2>3
  <1>6. SendsAlone'
    <2> SUFFICES ASSUME NEW e \in Dispatchers, dis'[e].pc = "send",
                        <<dis'[e].at, dis'[e].token>> \notin lost,
                        NEW c \in mails'[Key(e)'], Answered(Key(e), c)'
                 PROVE  c = dis'[e].token
      BY DEF SendsAlone, Effect, PassEffect
    <2>0. /\ Key(e)' = <<dis'[e].at, dis'[e].to>> /\ Key(e)' \in Keys
          /\ dis'[e].at \in dis'[e].batch
      BY <1>1 DEF Key, Keys, HandsOk, Writing, InHand
    <2>1. CASE e # d
      <3>1. dis'[e] = dis[e] /\ Key(e)' = Key(e)
        BY <2>1 DEF Effect, PassEffect, Key
      <3>2. Answered(Key(e), c)
        BY <3>1 DEF Answered, Effect, PassEffect, MailEffect
      <3>3. CASE c \in mails[Key(e)]
        BY <3>1, <3>2, <3>3 DEF SendsAlone
      <3>4. CASE c \notin mails[Key(e)]
        <4>1. dis[d].pc = "send" /\ Key(e) = Key(d) /\ c = dis[d].token
          BY <2>0, <3>1, <3>4 DEF Effect, MailEffect
        <4>2. dis[d].at = dis[e].at /\ dis[d].at \in dis[d].batch
          BY <4>1 DEF Key, HandsOk, Writing
        <4>3. HoldsClaim(d, dis[d].at)
          <5>1. <<dis[d].at, dis[d].token>> \notin lost
            BY <3>2, <4>1 DEF Answered, Key
          <5> QED BY <4>1, <4>2, <5>1 DEF ClaimStands
        <4>4. HoldsClaim(e, dis[e].at)
          BY <2>0, <3>1 DEF ClaimStands, Effect, PassEffect
        <4> QED BY <3>1, <4>1, <4>2, <4>3, <4>4 DEF HoldsClaim
      <3> QED BY <3>3, <3>4
    <2>2. CASE e = d
      <3>1. /\ dis[d].pc = "people" /\ mails' = mails /\ unsure' = unsure
            /\ dis'[d].at = dis[d].at /\ delivery'[Key(d)'] \notin Settled
        BY <2>0, <2>2 DEF Effect, MailEffect
      <3>2. dis'[d].token = dis[d].token
        BY <2>2 DEF Effect, PassEffect
      <3>3. Answered(Key(d)', c)
        BY <2>2, <3>1 DEF Answered, Effect, PassEffect, Key
      <3>4. delivery[Key(d)'] \notin Settled
        BY <2>0, <2>2, <3>1 DEF Effect, DeliveryEffect
      <3>5. AboutTo(Key(d)', c)
        BY <2>0, <2>2, <3>1, <3>3, <3>4 DEF OnRecord
      <3>6. row[dis[d].at].token = c
        BY <2>0, <2>2, <3>1, <3>5 DEF AboutTo
      <3>7. HoldsClaim(d, dis[d].at)
        BY <2>2, <3>1, <3>2 DEF ClaimStands, HandsOk, Writing, Effect, PassEffect
      <3> QED BY <2>2, <3>2, <3>6, <3>7 DEF HoldsClaim
    <2> QED BY <2>1, <2>2
  <1>7. OneMail'
    <2> SUFFICES ASSUME NEW k \in Keys, NEW c1 \in mails'[k], NEW c2 \in mails'[k],
                        Answered(k, c1)', Answered(k, c2)'
                 PROVE  c1 = c2
      BY DEF OneMail
    <2>1. Answered(k, c1) /\ Answered(k, c2)
      BY DEF Answered, Effect, PassEffect, MailEffect
    <2>2. ASSUME NEW c \in mails'[k], Answered(k, c), c \notin mails[k],
                 NEW b \in mails[k], Answered(k, b)
          PROVE  b = c
      <3>1. dis[d].pc = "send" /\ k = Key(d) /\ c = dis[d].token
        BY <2>2 DEF Effect, MailEffect
      <3>2. <<dis[d].at, dis[d].token>> \notin lost
        BY <2>2, <3>1 DEF Answered, Key
      <3> QED BY <2>2, <3>1, <3>2 DEF SendsAlone
    <2>3. CASE c1 \in mails[k] /\ c2 \in mails[k]
      BY <2>1, <2>3 DEF OneMail
    <2>4. CASE c1 \in mails[k] /\ c2 \notin mails[k]
      BY <2>1, <2>2, <2>4
    <2>5. CASE c1 \notin mails[k] /\ c2 \in mails[k]
      BY <2>1, <2>2, <2>5
    <2>6. CASE c1 \notin mails[k] /\ c2 \notin mails[k]
      BY <2>6 DEF Effect, MailEffect
    <2> QED BY <2>3, <2>4, <2>5, <2>6
  <1>8. DoneIsSettled'
    <2> SUFFICES ASSUME NEW e \in Dispatchers, Writing(e)', NEW p \in dis'[e].known
                 PROVE  p \in dis'[e].todo \/ p \in dis'[e].pend
                          \/ delivery'[<<dis'[e].at, p>>] \in Settled
      BY DEF DoneIsSettled
    <2>1. CASE e = d BY <2>1 DEF Writing, Effect, DeliveryEffect
    <2>2. CASE e # d
      <3>1. dis'[e] = dis[e] /\ Writing(e) BY <2>2 DEF Writing, Effect, PassEffect
      <3>2. <<dis[e].at, p>> \in Keys BY <3>1 DEF HandsOk, Keys, NoticesTypeOK, Passes
      <3> QED BY <3>1, <3>2 DEF DoneIsSettled, Effect, DeliveryEffect
    <2> QED BY <2>1, <2>2
  <1>9. NobodyForgotten'
    <2> SUFFICES ASSUME NEW n \in Notices, row'[n].status = "PUBLISHED", NEW p \in due'[n]
                 PROVE  delivery'[<<n, p>>] \in Settled
      BY DEF NobodyForgotten
    <2>1. <<n, p>> \in Keys BY DEF Keys, NoticesTypeOK
    <2>2. delivery[<<n, p>>] \in Settled BY DEF NobodyForgotten, Effect, RowEffect
    <2> QED BY <2>1, <2>2 DEF Effect, DeliveryEffect
  <1> QED BY <1>1, <1>2, <1>3, <1>4, <1>5, <1>6, <1>7, <1>8, <1>9

(* The world only adds rows.                                               *)
LEMMA WorldKeeps ==
  ASSUME NoticesAssumption, NoticesInv, World
  PROVE  NoticesInv'
  <1> USE DEF NoticesInv
  <1>1. NoticesTypeOK' BY WorldType
  <1>2. UNCHANGED <<dis, claims, crashes, delivery, mails, lost, unsure, due>>
    BY DEF World, ghostVars
  <1>3. \A n \in Notices : row'[n] = row[n] \/ (row[n].status = "NONE" /\ row'[n] = Fresh)
    <2>1. ASSUME NEW m \in Notices, Park(m) PROVE <1>3!:
      BY <2>1 DEF Park, NoticesTypeOK
    <2>2. ASSUME NEW s \in {"SUCCEEDED", "FAILED"}, NEW held \in BOOLEAN, End(s, held) PROVE <1>3!:
      BY <2>2 DEF End, Insert
    <2>3. CASE Resume \/ Change BY <2>3 DEF Resume, Change
    <2>4. CASE Decide BY <2>4 DEF Decide, Insert
    <2> QED BY <2>1, <2>2, <2>3, <2>4 DEF World
  <1>4. Fresh.status = "PENDING" /\ Fresh.attempts = 0
    BY DEF Fresh, NoRow
  <1>5. TokensIssued'
    BY <1>2, <1>3, <1>4 DEF TokensIssued, NoticesTypeOK, Tokens
  <1>6. ClaimStands'
    BY <1>2, <1>3 DEF ClaimStands, HoldsClaim, NoticesTypeOK, Passes
  <1>7. OnRecord'
    BY <1>2, <1>3 DEF OnRecord, AboutTo, Answered, Live, Keys
  <1>8. NobodyForgotten'
    BY <1>2, <1>3, <1>4 DEF NobodyForgotten
  <1>9. HandsOk' /\ TokensApart' /\ SendsAlone' /\ OneMail' /\ DoneIsSettled'
    BY <1>2 DEF HandsOk, TokensApart, SendsAlone, OneMail, DoneIsSettled, Writing, InHand,
                Live, Answered, Key
  <1> QED BY <1>1, <1>5, <1>6, <1>7, <1>8, <1>9

(* A claim takes its rows from nobody whose mail still counts.             *)
LEMMA ClaimKeeps ==
  ASSUME NoticesAssumption, NoticesInv, NEW d \in Dispatchers, ClaimBatch(d)
  PROVE  NoticesInv'
  <1> USE DEF NoticesInv
  <1>1. NoticesTypeOK' BY ClaimType
  <1>2. PICK stale \in SUBSET Having("PUBLISHING"), batch \in SUBSET Notices :
          /\ batch \subseteq stale \cup Having("PENDING")
          /\ row' = [n \in Notices |-> ClaimRow(n, batch, stale)]
          /\ dis' = [dis EXCEPT ![d] = [Idle EXCEPT !.pc = "next", !.batch = batch,
                                                    !.token = claims + 1]]
          /\ lost' = lost \cup {<<n, row[n].token>> : n \in stale}
    BY DEF ClaimBatch, Having
  <1>3. UNCHANGED <<crashes, delivery, mails, unsure, due>> /\ claims' = claims + 1 /\ dis[d].pc = "idle"
    BY DEF ClaimBatch
  <1>4. claims \in Nat /\ \A e \in Dispatchers : dis[e].token \in Nat
    BY DEF NoticesTypeOK, Tokens, Passes
  <1>5. /\ dis'[d].pc = "next" /\ dis'[d].batch = batch /\ dis'[d].token = claims + 1
        /\ \A e \in Dispatchers : e # d => dis'[e] = dis[e]
    BY <1>2 DEF NoticesTypeOK, Idle
  <1>6. \A n \in Notices :
          /\ n \in batch => /\ row'[n].status = "PUBLISHING" /\ row'[n].token = claims + 1
                            /\ row'[n].attempts = row[n].attempts + 1
          /\ n \notin batch /\ n \in stale => /\ row'[n].status = "PENDING"
                                              /\ row'[n].attempts = row[n].attempts
          /\ n \notin batch /\ n \notin stale => row'[n] = row[n]
    BY <1>2 DEF ClaimRow, NoticesTypeOK
  <1>7. \A n \in Notices : /\ n \in stale => row[n].status = "PUBLISHING" /\ <<n, row[n].token>> \in lost'
                           /\ n \in batch => n \in stale \/ row[n].status = "PENDING"
    BY <1>2 DEF Having
  <1>8. lost \subseteq lost' BY <1>2
  <1>9. \A k \in Keys, c \in Tokens : Answered(k, c)' => Answered(k, c)
    BY <1>3, <1>8 DEF Answered
  <1>10. HandsOk'
    BY <1>5 DEF HandsOk, Writing, InHand
  <1>11. TokensIssued'
    <2>1. \A n \in Notices : row'[n].attempts <= claims'
      <3>1. \A n \in Notices : row[n].attempts \in Nat /\ row[n].attempts <= claims
        BY DEF TokensIssued, NoticesTypeOK, Tokens
      <3> QED BY <1>3, <1>4, <1>6, <3>1
    <2>2. \A e \in Dispatchers : dis'[e].token <= claims'
      BY <1>3, <1>4, <1>5 DEF TokensIssued
    <2>3. \A k \in Keys : \A c \in mails'[k] : c <= claims'
      <3>1. \A k \in Keys : \A c \in mails[k] : c \in Nat /\ c <= claims
        BY DEF TokensIssued, NoticesTypeOK, Tokens
      <3> QED BY <1>3, <1>4, <3>1
    <2> QED BY <2>1, <2>2, <2>3 DEF TokensIssued
  <1>12. TokensApart'
    BY <1>4, <1>5 DEF TokensApart, TokensIssued, Live
  <1>13. ClaimStands'
    <2> SUFFICES ASSUME NEW e \in Dispatchers, NEW n \in dis'[e].batch,
                        <<n, dis'[e].token>> \notin lost',
                        ~(dis'[e].pc = "record" /\ n = dis'[e].at)
                 PROVE  row'[n].status = "PUBLISHING" /\ row'[n].token = dis'[e].token
      BY DEF ClaimStands, HoldsClaim
    <2>0. n \in Notices BY <1>1 DEF NoticesTypeOK, Passes
    <2>1. CASE e = d BY <1>5, <1>6, <2>0, <2>1
    <2>2. CASE e # d
      <3>1. HoldsClaim(e, n) BY <1>5, <1>8, <2>2 DEF ClaimStands
      <3>2. n \notin stale BY <1>5, <1>7, <2>0, <2>2, <3>1 DEF HoldsClaim
      <3>3. n \notin batch BY <1>7, <2>0, <3>1, <3>2 DEF HoldsClaim
      <3> QED BY <1>5, <1>6, <2>0, <2>2, <3>1, <3>2, <3>3 DEF HoldsClaim
    <2> QED BY <2>1, <2>2
  <1>14. OnRecord'
    <2> SUFFICES ASSUME NEW k \in Keys, NEW c \in mails[k], Answered(k, c)',
                        delivery[k] \notin Settled
                 PROVE  AboutTo(k, c)'
      BY <1>3 DEF OnRecord
    <2>0. k[1] \in Notices /\ c \in Nat /\ c <= claims /\ c \in Tokens
      BY DEF Keys, TokensIssued, NoticesTypeOK, Tokens
    <2>1. AboutTo(k, c) BY <1>9, <2>0 DEF OnRecord
    <2>2. k[1] \notin stale BY <1>7, <2>0, <2>1 DEF AboutTo, Answered
    <2>3. k[1] \notin batch BY <1>7, <2>0, <2>1, <2>2 DEF AboutTo
    <2>4. row'[k[1]] = row[k[1]] BY <1>6, <2>0, <2>2, <2>3
    <2>5. dis'[d].token # c BY <1>4, <1>5, <2>0
    <2> QED BY <1>5, <2>1, <2>4, <2>5 DEF AboutTo, Live
  <1>15. SendsAlone'
    <2> SUFFICES ASSUME NEW e \in Dispatchers, dis'[e].pc = "send",
                        <<dis'[e].at, dis'[e].token>> \notin lost',
                        NEW c \in mails[Key(e)'], Answered(Key(e), c)'
                 PROVE  c = dis'[e].token
      BY <1>3 DEF SendsAlone
    <2>1. dis'[e] = dis[e] BY <1>5
    <2>2. Key(e)' = Key(e) /\ Answered(Key(e), c)
      BY <1>3, <1>8, <2>1 DEF Key, Answered
    <2> QED BY <1>8, <2>1, <2>2 DEF SendsAlone
  <1>16. OneMail'
    BY <1>3, <1>8 DEF OneMail, Answered
  <1>17. DoneIsSettled'
    BY <1>3, <1>5 DEF DoneIsSettled, Writing
  <1>18. NobodyForgotten'
    BY <1>3, <1>6, <1>7 DEF NobodyForgotten
  <1> QED BY <1>1, <1>10, <1>11, <1>12, <1>13, <1>14, <1>15, <1>16, <1>17, <1>18

(* What is left of a batch.                                                *)
LEMMA RestFields ==
  ASSUME NEW d \in Dispatchers, NEW n \in Notices
  PROVE  /\ Rest(d, n).pc \in {"idle", "next"}
         /\ Rest(d, n).batch = dis[d].batch \ {n}
         /\ Rest(d, n).token \in {0, dis[d].token}
         /\ Rest(d, n).pc = "idle" => Rest(d, n).batch = {}
         /\ Rest(d, n).pc # "idle" => Rest(d, n).token = dis[d].token
  BY DEF Rest, Idle

(* A row changes only for the claim that holds it.                         *)
LEMMA SettleFields ==
  ASSUME NoticesTypeOK, NEW d \in Dispatchers, NEW n \in Notices, NEW s, SettleRow(d, n, s)
  PROVE  \A m \in Notices :
           /\ row'[m].attempts = row[m].attempts
           /\ row'[m] # row[m] => m = n /\ HoldsClaim(d, n) /\ row'[m].status = s
  BY DEF NoticesTypeOK, SettleRow

LEMMA HandleEffect ==
  ASSUME NoticesAssumption, NoticesInv, NEW d \in Dispatchers, NEW n \in Notices, Handle(d, n)
  PROVE  Effect(d)
  <1> USE DEF NoticesInv
  <1>0. /\ dis[d].pc = "next" /\ n \in dis[d].batch
        /\ UNCHANGED <<claims, delivery, mails, lost, unsure>>
    BY DEF Handle
  <1>1. CASE Nothing(d, n)
    <2>1. dis'[d] = Rest(d, n) /\ \A e \in Dispatchers : e # d => dis'[e] = dis[e]
      BY <1>1 DEF Nothing, NoticesTypeOK
    <2>2. PassEffect(d) BY <1>0, <2>1, RestFields DEF PassEffect, Live
    <2>3. HandsEffect(d) BY <2>1, RestFields DEF HandsEffect
    <2>4. DeliveryEffect(d) BY <1>0, <2>1, RestFields DEF DeliveryEffect
    <2>5. MailEffect(d) BY <1>0, <2>1, RestFields DEF MailEffect
    <2>6. RowEffect(d)
      <3>1. \A m \in Notices : /\ row'[m].attempts = row[m].attempts
                               /\ row'[m] # row[m] => m = n /\ HoldsClaim(d, n)
        BY <1>1, SettleFields DEF Nothing
      <3>2. \A m \in Notices : due'[m] = due[m] \/ (m = n /\ HoldsClaim(d, n) /\ due'[m] = {})
        BY <1>1 DEF Nothing, NoticesTypeOK
      <3>3. HoldsClaim(d, n) => due'[n] = {} BY <1>1 DEF Nothing, NoticesTypeOK
      <3>4. \A m \in Notices : row'[m].status = "PUBLISHED" =>
              (row[m].status = "PUBLISHED" /\ due'[m] = due[m]) \/ due'[m] = {}
        BY <3>1, <3>2, <3>3 DEF HoldsClaim
      <3> QED BY <1>0, <2>1, <3>1, <3>4, RestFields DEF RowEffect
    <2> QED BY <2>2, <2>3, <2>4, <2>5, <2>6 DEF Effect
  <1>2. CASE Addressed(d, n)
    <2>1. /\ dis'[d].pc = "people" /\ dis'[d].at = n /\ dis'[d].batch = dis[d].batch
          /\ dis'[d].token = dis[d].token
          /\ dis'[d].todo = Recipients(n) /\ dis'[d].known = Recipients(n) \cap email
          /\ \A e \in Dispatchers : e # d => dis'[e] = dis[e]
          /\ UNCHANGED <<row, due>>
      BY <1>2 DEF Addressed, NoticesTypeOK, Passes
    <2>2. PassEffect(d) BY <1>0, <2>1 DEF PassEffect, Live
    <2>3. HandsEffect(d) BY <1>0, <2>1 DEF HandsEffect
    <2>4. DeliveryEffect(d) BY <1>0, <2>1 DEF DeliveryEffect
    <2>5. MailEffect(d) BY <1>0, <2>1 DEF MailEffect
    <2>6. RowEffect(d) BY <2>1 DEF RowEffect
    <2> QED BY <2>2, <2>3, <2>4, <2>5, <2>6 DEF Effect
  <1> QED BY <1>1, <1>2 DEF Handle

LEMMA NextPersonEffect ==
  ASSUME NoticesInv, NEW d \in Dispatchers, NEW p \in People, NextPerson(d, p)
  PROVE  Effect(d)
  <1> USE DEF NoticesInv
  <1>0. /\ dis[d].pc = "people" /\ p \in dis[d].todo /\ dis[d].at \in Notices
        /\ dis[d].at \in dis[d].batch
        /\ UNCHANGED <<row, claims, mails, lost, unsure, due>>
    BY DEF NextPerson, ghostVars, HandsOk, Writing
  <1>1. PICK s \in {"skipped", "sending"} : delivery' = Begin(<<dis[d].at, p>>, s)
    BY DEF NextPerson, Skip, TakeDelivery
  <1>2. \A k \in Keys : delivery[k] \in Settled => delivery'[k] = delivery[k]
    BY <1>1 DEF Begin, Settled, None, NoticesTypeOK
  <1>3. \/ /\ dis'[d].pc = "people" /\ dis'[d].todo = dis[d].todo \ {p}
           /\ p \in dis[d].known => delivery'[<<dis[d].at, p>>] \in Settled
        \/ /\ dis'[d].pc = "send" /\ dis'[d].todo = dis[d].todo /\ dis'[d].to = p
           /\ delivery'[<<dis[d].at, p>>] = "sending"
    <2>1. <<dis[d].at, p>> \in Keys BY <1>0 DEF Keys
    <2>2. CASE Skip(d, p) BY <1>0, <2>2 DEF Skip, NoticesTypeOK, Passes
    <2>3. CASE TakeDelivery(d, p)
      <3>1. delivery'[<<dis[d].at, p>>] = "sending" \/ delivery'[<<dis[d].at, p>>] \in Settled
        BY <2>1, <2>3 DEF TakeDelivery, Begin, NoticesTypeOK, Deliveries, Settled, None
      <3>2. CASE delivery'[<<dis[d].at, p>>] = "sending"
        <4>1. dis'[d] = [dis[d] EXCEPT !.pc = "send", !.to = p]
          BY <2>3, <3>2 DEF TakeDelivery, NoticesTypeOK
        <4> QED BY <1>0, <3>2, <4>1 DEF NoticesTypeOK, Passes
      <3>3. CASE delivery'[<<dis[d].at, p>>] # "sending"
        <4>1. dis'[d] = [dis[d] EXCEPT !.todo = @ \ {p}]
          BY <2>3, <3>3 DEF TakeDelivery, NoticesTypeOK
        <4> QED BY <1>0, <3>1, <3>3, <4>1 DEF NoticesTypeOK, Passes
      <3> QED BY <3>2, <3>3
    <2> QED BY <2>2, <2>3 DEF NextPerson
  <1>4. /\ dis'[d].token = dis[d].token /\ dis'[d].batch = dis[d].batch /\ dis'[d].at = dis[d].at
        /\ dis'[d].known = dis[d].known /\ dis'[d].pend = dis[d].pend
        /\ \A e \in Dispatchers : e # d => dis'[e] = dis[e]
    BY DEF NextPerson, Skip, TakeDelivery, NoticesTypeOK, Passes
  <1>5. PassEffect(d) BY <1>0, <1>3, <1>4 DEF PassEffect, Live
  <1>6. HandsEffect(d) BY <1>0, <1>3, <1>4 DEF HandsEffect
  <1>7. DeliveryEffect(d)
    <2>1. \A q \in dis[d].known : <<dis[d].at, q>> \in Keys
      BY <1>0 DEF Keys, NoticesTypeOK, Passes
    <2>2. \A q \in dis[d].known : \/ q \in dis[d].todo \/ q \in dis[d].pend
                                  \/ delivery'[<<dis[d].at, q>>] \in Settled
      BY <1>0, <1>2, <2>1 DEF DoneIsSettled, Writing
    <2> QED BY <1>0, <1>2, <1>3, <1>4, <2>2 DEF DeliveryEffect
  <1>8. MailEffect(d) BY <1>0, <1>3, <1>4 DEF MailEffect, Settled
  <1>9. RowEffect(d) BY <1>0 DEF RowEffect
  <1> QED BY <1>5, <1>6, <1>7, <1>8, <1>9 DEF Effect

LEMMA SendEffect ==
  ASSUME NoticesInv, NEW d \in Dispatchers, Send(d)
  PROVE  Effect(d)
  <1> USE DEF NoticesInv
  <1>0. /\ dis[d].pc = "send" /\ dis[d].at \in Notices /\ dis[d].at \in dis[d].batch
        /\ dis[d].to \in People /\ dis[d].to \in dis[d].todo
        /\ UNCHANGED <<row, claims, delivery, lost, due>>
    BY DEF Send, HandsOk, Writing, InHand
  <1>1. Key(d) \in Keys /\ Key(d)[1] = dis[d].at /\ Key(d)[2] = dis[d].to
    BY <1>0 DEF Key, Keys
  <1>2. \/ dis'[d].pc \in {"mark", "refuse"} /\ dis'[d].todo = dis[d].todo
           /\ dis'[d].pend = dis[d].pend
        \/ /\ dis'[d].pc = "people" /\ dis'[d].todo = dis[d].todo \ {dis[d].to}
           /\ dis'[d].pend = dis[d].pend \cup {dis[d].to}
    BY DEF Send, SendOk, SendRefused, SendFails, NoticesTypeOK, Passes
  <1>3. /\ dis'[d].token = dis[d].token /\ dis'[d].batch = dis[d].batch /\ dis'[d].at = dis[d].at
        /\ dis'[d].to = dis[d].to /\ dis'[d].known = dis[d].known
        /\ \A e \in Dispatchers : e # d => dis'[e] = dis[e]
    BY DEF Send, SendOk, SendRefused, SendFails, NoticesTypeOK, Passes
  <1>4. PassEffect(d) BY <1>0, <1>2, <1>3 DEF PassEffect, Live
  <1>5. HandsEffect(d) BY <1>0, <1>2, <1>3 DEF HandsEffect
  <1>6. DeliveryEffect(d)
    BY <1>0, <1>2, <1>3 DEF DeliveryEffect, DoneIsSettled, Writing
  <1>7. MailEffect(d)
    <2>1. unsure \subseteq unsure' BY DEF Send, SendOk, SendRefused, SendFails
    <2>2. \A k \in Keys : \A c \in mails'[k] :
            c \in mails[k] \/ (k = Key(d) /\ c = dis[d].token)
      BY <1>1 DEF Send, SendOk, SendRefused, SendFails, Posted, NoticesTypeOK
    <2>3. mails' = mails \/ dis'[d].pc = "mark" \/ <<Key(d), dis[d].token>> \in unsure'
      BY DEF Send, SendOk, SendRefused, SendFails, NoticesTypeOK, Passes
    <2> QED BY <1>0, <1>1, <1>2, <1>3, <2>1, <2>2, <2>3 DEF MailEffect
  <1>8. RowEffect(d) BY <1>0 DEF RowEffect
  <1> QED BY <1>4, <1>5, <1>6, <1>7, <1>8 DEF Effect

LEMMA MarkEffect ==
  ASSUME NoticesInv, NEW d \in Dispatchers, MarkSent(d) \/ MarkRefused(d)
  PROVE  Effect(d)
  <1> USE DEF NoticesInv
  <1>0. /\ dis[d].pc \in {"mark", "refuse"} /\ dis[d].at \in Notices /\ dis[d].at \in dis[d].batch
        /\ dis[d].to \in People /\ dis[d].to \in dis[d].todo
        /\ UNCHANGED <<row, claims, mails, unsure, lost, due>>
    BY DEF MarkSent, MarkRefused, HandsOk, Writing, InHand, ghostVars
  <1>1. Key(d) \in Keys /\ Key(d) = <<dis[d].at, dis[d].to>>
    BY <1>0 DEF Key, Keys
  <1>2. /\ dis'[d].pc = "people" /\ dis'[d].todo = dis[d].todo \ {dis[d].to}
        /\ dis'[d].pend = dis[d].pend
        /\ dis'[d].token = dis[d].token /\ dis'[d].batch = dis[d].batch /\ dis'[d].at = dis[d].at
        /\ dis'[d].known = dis[d].known
        /\ \A e \in Dispatchers : e # d => dis'[e] = dis[e]
    BY DEF MarkSent, MarkRefused, NoticesTypeOK, Passes
  <1>3. /\ delivery'[Key(d)] \in Settled
        /\ \A k \in Keys : delivery[k] \in Settled => delivery'[k] \in Settled
    BY <1>1 DEF MarkSent, MarkRefused, NoticesTypeOK, Settled
  <1>4. PassEffect(d) BY <1>0, <1>2 DEF PassEffect, Live
  <1>5. HandsEffect(d) BY <1>0, <1>2 DEF HandsEffect
  <1>6. DeliveryEffect(d)
    <2>1. \A q \in dis[d].known : <<dis[d].at, q>> \in Keys
      BY <1>0 DEF Keys, NoticesTypeOK, Passes
    <2>2. \A q \in dis[d].known : \/ q \in dis[d].todo \/ q \in dis[d].pend
                                  \/ delivery'[<<dis[d].at, q>>] \in Settled
      BY <1>0, <1>3, <2>1 DEF DoneIsSettled, Writing
    <2> QED BY <1>1, <1>2, <1>3, <2>2 DEF DeliveryEffect
  <1>7. MailEffect(d) BY <1>0, <1>2 DEF MailEffect
  <1>8. RowEffect(d) BY <1>0 DEF RowEffect
  <1> QED BY <1>4, <1>5, <1>6, <1>7, <1>8 DEF Effect

LEMMA SettleEffect ==
  ASSUME NoticesInv, NEW d \in Dispatchers, Settle(d)
  PROVE  Effect(d)
  <1> USE DEF NoticesInv
  <1> DEFINE n == dis[d].at
  <1>0. /\ dis[d].pc = "people" /\ dis[d].todo = {} /\ dis[d].pend = {}
        /\ n \in Notices /\ n \in dis[d].batch
        /\ UNCHANGED <<claims, delivery, mails, lost, unsure>>
    BY DEF Settle, HandsOk, Writing
  <1>1. dis'[d] = Rest(d, n) /\ \A e \in Dispatchers : e # d => dis'[e] = dis[e]
    BY DEF Settle, NoticesTypeOK
  <1>2. PassEffect(d) BY <1>0, <1>1, RestFields DEF PassEffect, Live
  <1>3. HandsEffect(d) BY <1>0, <1>1, RestFields DEF HandsEffect
  <1>4. DeliveryEffect(d) BY <1>0, <1>1, RestFields DEF DeliveryEffect
  <1>5. MailEffect(d) BY <1>0, <1>1, RestFields DEF MailEffect
  <1>6. RowEffect(d)
    <2>1. \A m \in Notices : /\ row'[m].attempts = row[m].attempts
                             /\ row'[m] # row[m] => m = n /\ HoldsClaim(d, n)
      BY <1>0, SettleFields DEF Settle
    <2>2. \A p \in dis[d].known : delivery[<<n, p>>] \in Settled
      BY <1>0 DEF DoneIsSettled, Writing
    <2>3. \A m \in Notices : due'[m] = due[m] \/ m = n
      BY DEF Settle, NoticesTypeOK
    <2>4. IF HoldsClaim(d, n) THEN due'[n] = dis[d].known ELSE due' = due
      BY <1>0 DEF Settle, NoticesTypeOK
    <2>5. \A m \in Notices : row'[m].status = "PUBLISHED" =>
            \/ row[m].status = "PUBLISHED" /\ due'[m] = due[m]
            \/ \A p \in due'[m] : delivery[<<m, p>>] \in Settled
      <3> SUFFICES ASSUME NEW m \in Notices, row'[m].status = "PUBLISHED"
                   PROVE  \/ row[m].status = "PUBLISHED" /\ due'[m] = due[m]
                          \/ \A p \in due'[m] : delivery[<<m, p>>] \in Settled
        OBVIOUS
      <3>1. CASE m = n /\ HoldsClaim(d, n) BY <2>2, <2>4, <3>1
      <3>2. CASE ~(m = n /\ HoldsClaim(d, n)) BY <2>1, <2>3, <2>4, <3>2
      <3> QED BY <3>1, <3>2
    <2> QED BY <1>0, <1>1, <2>1, <2>5, RestFields DEF RowEffect
  <1> QED BY <1>2, <1>3, <1>4, <1>5, <1>6 DEF Effect

LEMMA RetryEffect ==
  ASSUME NoticesInv, NEW d \in Dispatchers, RetryNotice(d)
  PROVE  Effect(d)
  <1> USE DEF NoticesInv
  <1> DEFINE n == dis[d].at
  <1>0. /\ dis[d].pc = "people" /\ n \in Notices /\ n \in dis[d].batch
        /\ UNCHANGED <<claims, delivery, mails, lost, unsure, due>>
    BY DEF RetryNotice, HandsOk, Writing, ghostVars
  <1>1. /\ dis'[d].pc = "record" /\ dis'[d].at = n /\ dis'[d].batch = dis[d].batch
        /\ dis'[d].token = dis[d].token
        /\ \A e \in Dispatchers : e # d => dis'[e] = dis[e]
    BY DEF RetryNotice, NoticesTypeOK, Passes
  <1>2. PassEffect(d) BY <1>0, <1>1 DEF PassEffect, Live
  <1>3. HandsEffect(d) BY <1>0, <1>1 DEF HandsEffect
  <1>4. DeliveryEffect(d) BY <1>0, <1>1 DEF DeliveryEffect
  <1>5. MailEffect(d) BY <1>0, <1>1 DEF MailEffect
  <1>6. RowEffect(d)
    <2>1. \A m \in Notices :
            /\ row'[m].attempts = row[m].attempts
            /\ row'[m] # row[m] => m = n /\ HoldsClaim(d, n) /\ row'[m].status \in {"PENDING", "FAILED"}
      BY <1>0, SettleFields DEF RetryNotice
    <2> QED BY <1>0, <1>1, <2>1 DEF RowEffect
  <1> QED BY <1>2, <1>3, <1>4, <1>5, <1>6 DEF Effect

LEMMA RecordEffect ==
  ASSUME NoticesInv, NEW d \in Dispatchers, NEW p \in People, RecordFailure(d, p)
  PROVE  Effect(d)
  <1> USE DEF NoticesInv
  <1>0. /\ dis[d].pc = "record" /\ dis[d].at \in Notices /\ dis[d].at \in dis[d].batch
        /\ UNCHANGED <<row, claims, mails, lost, unsure, due>>
    BY DEF RecordFailure, HandsOk, ghostVars
  <1>1. \A k \in Keys : delivery[k] \in Settled => delivery'[k] \in Settled
    BY DEF RecordFailure, NoticesTypeOK, Settled
  <1>2. \A e \in Dispatchers : e # d => dis'[e] = dis[e]
    BY DEF RecordFailure, NoticesTypeOK
  <1>3. \/ dis'[d] = Rest(d, dis[d].at)
        \/ /\ dis'[d].pc = "record" /\ dis'[d].at = dis[d].at
           /\ dis'[d].batch = dis[d].batch /\ dis'[d].token = dis[d].token
    BY <1>0 DEF RecordFailure, NoticesTypeOK, Passes
  <1>4. PassEffect(d) BY <1>0, <1>2, <1>3, RestFields DEF PassEffect, Live
  <1>5. HandsEffect(d) BY <1>0, <1>3, RestFields DEF HandsEffect
  <1>6. DeliveryEffect(d) BY <1>0, <1>1, <1>3, RestFields DEF DeliveryEffect
  <1>7. MailEffect(d) BY <1>0, <1>3, RestFields DEF MailEffect
  <1>8. RowEffect(d) BY <1>0 DEF RowEffect
  <1> QED BY <1>4, <1>5, <1>6, <1>7, <1>8 DEF Effect

LEMMA AbandonEffect ==
  ASSUME NoticesInv, NEW d \in Dispatchers, Abandon(d)
  PROVE  Effect(d)
  <1>0. dis[d].pc # "idle" /\ UNCHANGED <<row, claims, delivery, mails, lost, unsure, due>>
    BY DEF Abandon, ghostVars
  <1>1. dis'[d] = Idle /\ \A e \in Dispatchers : e # d => dis'[e] = dis[e]
    BY DEF Abandon, NoticesInv, NoticesTypeOK
  <1>2. Idle.pc = "idle" /\ Idle.batch = {} /\ Idle.token = 0 BY DEF Idle
  <1> QED BY <1>0, <1>1, <1>2 DEF Effect, PassEffect, HandsEffect, DeliveryEffect, MailEffect,
                                 RowEffect, Live

-----------------------------------------------------------------------------
(* OneMail, NobodyForgotten and the types of Notices hold in every state,  *)
(* for any number of dispatchers, notices and people, however often claims *)
(* are lost, sends time out and passes are abandoned.                      *)
THEOREM NoticesInvariant ==
  ASSUME NoticesAssumption
  PROVE  NoticesSpec => [](NoticesTypeOK /\ OneMail /\ NobodyForgotten)
  <1>1. NoticesInit => NoticesInv
    <2> SUFFICES ASSUME NoticesInit PROVE NoticesInv OBVIOUS
    <2> USE DEF NoticesInit
    <2>1. NoticesTypeOK
      BY IdleType DEF NoticesTypeOK, NoticesAssumption, NoRow, RowStatuses, Tokens, Keys,
                      Deliveries, None
    <2>2. \A d \in Dispatchers : dis[d].pc = "idle" /\ dis[d].batch = {} /\ dis[d].token = 0
      BY DEF Idle
    <2>3. \A n \in Notices : row[n].status = "NONE" /\ row[n].attempts = 0
      BY DEF NoRow
    <2>4. HandsOk /\ TokensIssued /\ TokensApart /\ ClaimStands
      BY <2>2, <2>3 DEF HandsOk, TokensIssued, TokensApart, ClaimStands, Writing, InHand, Live
    <2>5. OnRecord /\ SendsAlone /\ OneMail /\ DoneIsSettled /\ NobodyForgotten
      BY <2>2, <2>3 DEF OnRecord, SendsAlone, OneMail, DoneIsSettled, NobodyForgotten, Writing
    <2> QED BY <2>1, <2>4, <2>5 DEF NoticesInv
  <1>2. NoticesInv /\ [NoticesNext]_noticeVars => NoticesInv'
    <2> SUFFICES ASSUME NoticesInv, [NoticesNext]_noticeVars PROVE NoticesInv' OBVIOUS
    <2>1. CASE World BY <2>1, WorldKeeps
    <2>2. ASSUME NEW d \in Dispatchers, ClaimBatch(d) PROVE NoticesInv'
      BY <2>2, ClaimKeeps
    <2>3. ASSUME NEW d \in Dispatchers, PublishOnce(d) \/ Abandon(d), ~ClaimBatch(d)
          PROVE  NoticesInv'
      <3>1. NoticesTypeOK' BY <2>3, PassType DEF NoticesInv
      <3>2. Effect(d)
        BY <2>3, HandleEffect, NextPersonEffect, SendEffect, MarkEffect, SettleEffect,
           RetryEffect, RecordEffect, AbandonEffect DEF PublishOnce
      <3> QED BY <3>1, <3>2, EffectKeeps
    <2>4. CASE UNCHANGED noticeVars
      BY <2>4 DEF noticeVars, worldVars, ghostVars, NoticesInv, NoticesTypeOK, HandsOk, TokensIssued,
                  TokensApart, ClaimStands, OnRecord, SendsAlone, OneMail, DoneIsSettled,
                  NobodyForgotten, Writing, InHand, Live, HoldsClaim, Answered, AboutTo, Key
    <2> QED BY <2>1, <2>2, <2>3, <2>4 DEF NoticesNext
  <1>3. NoticesInv => NoticesTypeOK /\ OneMail /\ NobodyForgotten
    BY DEF NoticesInv
  <1> QED BY <1>1, <1>2, <1>3, PTL DEF NoticesSpec
================================================================================
