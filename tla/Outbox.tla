-------------------------------- MODULE Outbox --------------------------------
(***************************************************************************)
(* The transactional outbox and its publishers (infrastructure/outbox).    *)
(* Each event commits with one row of domain_outbox.  A publisher, one per *)
(* worker process, claims a batch of rows under a fresh token, appends     *)
(* them to the Redis stream and settles each row under that token.  A      *)
(* claim that is too old is taken back by whoever claims next, whether its *)
(* owner died or is only slow.                                             *)
(*                                                                         *)
(* Rows are numbered like their events.  Rows created in the same          *)
(* millisecond come in any order, so a batch is a set.  Time is abstracted:*)
(* a claim may be stale, and a delayed retry due, at any moment.           *)
(***************************************************************************)
EXTENDS EventStream, FiniteSets

CONSTANTS Publishers,
          BatchSize,     \* rows per claim
          MaxAttempts,   \* claims after which a failed append is final
          MaxClaims,     \* bound: claim transactions
          MaxCrashes     \* bound: publishers that die in a pass

OutboxAssumption == /\ IsFiniteSet(Publishers)
                    /\ BatchSize \in Nat \ {0}
                    /\ MaxAttempts \in Nat \ {0}
                    /\ MaxClaims \in Nat
                    /\ MaxCrashes \in Nat

ASSUME OutboxConstants == StreamAssumption /\ OutboxAssumption

VARIABLES row,       \* per event: status, claim token and attempts
          pub,       \* per publisher: the rest of its batch, token, the row
                     \* it has appended and not settled yet (0 if none)
          claims,    \* tokens issued so far; token 0 is NULL
          crashes

outboxVars == <<committed, terminal, final, entries, kept,
                row, pub, claims, crashes>>

Rows == 1..MaxEvents
RowStatuses == {"NONE", "PENDING", "PUBLISHING", "PUBLISHED", "FAILED"}
Idle == [batch |-> {}, token |-> 0, sent |-> 0]

OutboxTypeOK ==
  /\ StreamTypeOK
  /\ row \in [Rows -> [status : RowStatuses, token : 0..MaxClaims,
                       attempts : 0..MaxClaims]]
  /\ pub \in [Publishers -> [batch : SUBSET Rows, token : 0..MaxClaims,
                             sent : 0..MaxEvents]]
  /\ claims \in 0..MaxClaims
  /\ crashes \in 0..MaxCrashes

NoOutboxRow == [status |-> "NONE", token |-> 0, attempts |-> 0]

(* A new row.                                                              *)
Fresh == [status |-> "PENDING", token |-> 0, attempts |-> 0]

OutboxInit ==
  /\ StreamInit
  /\ row = [e \in Rows |-> IF e = 1 THEN Fresh ELSE NoOutboxRow]
  /\ pub = [p \in Publishers |-> Idle]
  /\ claims = 0
  /\ crashes = 0

(* OutboxRepository.insert in the transaction that appends the event.      *)
InsertRows ==
  row' = [e \in Rows |-> IF row[e].status = "NONE" /\ e <= committed'
                         THEN Fresh ELSE row[e]]

(* The mutant inserts outside the transaction, which then rolls back.      *)
RecordApart ==
  /\ committed < MaxEvents
  /\ row' = [row EXCEPT ![committed + 1] = Fresh]
  /\ UNCHANGED <<streamVars, pub, claims, crashes>>
Record ==
  /\ Commit \/ CommitTerminal
  /\ InsertRows
  /\ UNCHANGED <<pub, claims, crashes>>

-----------------------------------------------------------------------------
Having(s) == {e \in Rows : row[e].status = s}

(* Rows a claim may take: every row that was never tried, and those of the *)
(* others whose next_attempt_at has come.                                  *)
Due(later) == {e \in Having("PENDING") : row[e].attempts = 0 \/ e \in later}

(* Claims older than staleClaimMs, of dead or slow publishers.             *)
StaleClaims == SUBSET Having("PUBLISHING")

(* claimBatch in one transaction: reclaimStalePublishing, then a           *)
(* conditional UPDATE of at most BatchSize due rows with a fresh token.    *)
(* A reclaimed row is due at once.                                         *)
ClaimBatch(p) ==
  \E stale \in StaleClaims, later \in SUBSET Having("PENDING") :
    LET due   == Due(later) \cup stale
        limit == IF Cardinality(due) < BatchSize THEN Cardinality(due)
                 ELSE BatchSize
    IN /\ pub[p] = Idle
       /\ due # {}
       /\ claims < MaxClaims
       /\ \E batch \in SUBSET due :
            /\ Cardinality(batch) = limit
            /\ row' = [e \in Rows |->
                         IF e \in batch
                         THEN [status |-> "PUBLISHING", token |-> claims + 1,
                               attempts |-> row[e].attempts + 1]
                         ELSE IF e \in stale
                         THEN [row[e] EXCEPT !.status = "PENDING", !.token = 0]
                         ELSE row[e]]
            /\ pub' = [pub EXCEPT ![p] = [batch |-> batch, token |-> claims + 1,
                                          sent |-> 0]]
       /\ claims' = claims + 1
       /\ UNCHANGED <<streamVars, crashes>>

(* A settling UPDATE matches outbox_id, claim_token and PUBLISHING.        *)
HoldsClaim(p, e) == row[e].status = "PUBLISHING" /\ row[e].token = pub[p].token

SettleRow(p, e, s) ==
  row' = IF HoldsClaim(p, e) THEN [row EXCEPT ![e].status = s, ![e].token = 0]
         ELSE row

(* The batch without the rows it is done with.                             *)
Rest(p, done) ==
  LET left == pub[p].batch \ done
  IN IF left = {} THEN Idle ELSE [pub[p] EXCEPT !.batch = left, !.sent = 0]

(* stream.append succeeds; the row is settled after the await.  The mutant *)
(* swallows a Redis error.                                                 *)
AppendRowSwallowed(p, e) ==
  /\ pub[p].sent = 0
  /\ e \in pub[p].batch
  /\ pub' = [pub EXCEPT ![p].sent = e]
  /\ UNCHANGED <<streamVars, row, claims, crashes>>
AppendRow(p, e) ==
  /\ pub[p].sent = 0
  /\ e \in pub[p].batch
  /\ XAdd(e)
  /\ pub' = [pub EXCEPT ![p].sent = e]
  /\ UNCHANGED <<row, claims, crashes>>

(* stream.append fails: markPendingForRetry, which gives up at MaxAttempts.*)
RetryRow(p, e) ==
  /\ pub[p].sent = 0
  /\ e \in pub[p].batch
  /\ SettleRow(p, e, IF row[e].attempts >= MaxAttempts THEN "FAILED"
                     ELSE "PENDING")
  /\ pub' = [pub EXCEPT ![p] = Rest(p, {e})]
  /\ UNCHANGED <<streamVars, claims, crashes>>

(* markPublished.  A lost token is counted as ackMissed and not retried;   *)
(* the mutant appends again.                                               *)
AfterAckRetry(p) == IF HoldsClaim(p, pub[p].sent) THEN Rest(p, {pub[p].sent})
                    ELSE [pub[p] EXCEPT !.sent = 0]
AfterAck(p) == Rest(p, {pub[p].sent})

AckRow(p) ==
  /\ pub[p].sent # 0
  /\ SettleRow(p, pub[p].sent, "PUBLISHED")
  /\ pub' = [pub EXCEPT ![p] = AfterAck(p)]
  /\ UNCHANGED <<streamVars, claims, crashes>>

(* The process dies, or MySQL fails after the append: the pass is over and *)
(* its rows stay PUBLISHING.                                               *)
CrashPublisher(p) ==
  /\ pub[p] # Idle
  /\ crashes < MaxCrashes
  /\ pub' = [pub EXCEPT ![p] = Idle]
  /\ crashes' = crashes + 1
  /\ UNCHANGED <<streamVars, row, claims>>

LoseStream == Lose /\ UNCHANGED <<row, pub, claims, crashes>>

PublishOnce(p) ==
  \/ ClaimBatch(p)
  \/ AckRow(p)
  \/ \E e \in Rows : AppendRow(p, e) \/ RetryRow(p, e)

OutboxNext ==
  \/ Record
  \/ LoseStream
  \/ \E p \in Publishers : PublishOnce(p) \/ CrashPublisher(p)

OutboxSpec == OutboxInit /\ [][OutboxNext]_outboxVars

(* The loop of worker-main.ts repeats publishOnce for ever.                *)
OutboxFairSpec == OutboxSpec /\ \A p \in Publishers : WF_outboxVars(PublishOnce(p))

-----------------------------------------------------------------------------
(* Properties.                                                             *)

(* A row is PUBLISHED only if its event went out, whoever settled it: the  *)
(* stream misses an event only while its row is unsettled or FAILED.       *)
PublishedWasSent ==
  \A e \in Having("PUBLISHED") : \E i \in DOMAIN entries : entries[i] = e

(* A claim appends a row at most once, also when it loses the row to a     *)
(* stale reclaim between the append and the acknowledgement ("do not       *)
(* re-append on ack issues", outbox-publisher.ts): an event occurs in the  *)
(* stream at most as often as its row was claimed.                         *)
SentOncePerClaim ==
  \A e \in Rows :
    Cardinality({i \in DOMAIN entries : entries[i] = e}) <= row[e].attempts

(* The publishers implement the stream the readers rely on: what they add  *)
(* to it is a committed event, and nothing else they do touches it.        *)
ImplementsStream == StreamSpec

(* Every row of a committed event is settled in the end, unless the bound  *)
(* on claims is used up.                                                   *)
Unsettled(e) == row[e].status = "PENDING"
Drained(e) == row[e].status \in {"PUBLISHED", "FAILED"} \/ claims = MaxClaims

==============================================================================
