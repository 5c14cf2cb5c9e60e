----------------------------- MODULE SessionStore -----------------------------
(***************************************************************************)
(* What one Agent Session keeps between Runs, and the executors that read  *)
(* and write it.  Three stores of the same conversation:                   *)
(*                                                                         *)
(*   journal   the rows of session-journal-repository.ts: the entries and  *)
(*             the protected manifests of every checkpoint, append only    *)
(*   snapshot  the payload agent_sessions.session_version points at        *)
(*   stored    the engine's own events (mysql-session-store.ts), written   *)
(*             batch by batch while the engine works                       *)
(*                                                                         *)
(* journal and snapshot are written by SessionRecoveryService.checkpoint   *)
(* under the execution fence; stored is guarded by sequence numbers only.  *)
(* An executor that lost the session lock goes on until a guard stops it,  *)
(* so that several executors of one session are in flight.  The engine's   *)
(* coordinator is external: a turn is an opening and a closing event, and  *)
(* resuming a session closes the turn that a dead executor left open.      *)
(***************************************************************************)
EXTENDS Naturals, Sequences, SequencesExt

CONSTANTS Executors,
          MaxFence,    \* bound: executions of the session
          MaxDamage    \* bound: losses of a snapshot or of a journal row

StoreAssumption == MaxFence \in Nat /\ MaxDamage \in Nat

VARIABLES
  fence,     \* execution_fence_token
  sstatus,   \* session status: ACTIVE or SUSPENDED
  version,   \* session_version
  journal,   \* sequence of entries
  snapshot,  \* the payload session_version points at, or "damaged"
  stored,    \* engine events; an event's seq is its position
  ex,        \* per executor
  history,   \* ghost: what the last committed checkpoint was asked to save
  damage

storeVars == <<fence, sstatus, version, journal, snapshot, stored, ex, history, damage>>

(* An entry's body is told apart by the execution that wrote it.           *)
Entry(id, parent, by) == [id |-> id, parent |-> parent, by |-> by]
NoId == <<"none", 0>>
LastId(s) == IF s = <<>> THEN NoId ELSE Last(s).id
Open(t, by)  == [event |-> "open", turn |-> t, by |-> by]
Close(t, by) == [event |-> "close", turn |-> t, by |-> by]
Idle == [pc |-> "idle", fence |-> 0, payload |-> <<>>, view |-> <<>>]

Ids == {NoId} \cup {<<k, n>> : k \in {"message", "manifest"}, n \in 1..MaxFence}
Entries == [id : Ids, parent : Ids, by : 1..MaxFence]
Events == [event : {"open", "close"}, turn : 1..MaxFence, by : 1..MaxFence]

StoreTypeOK ==
  /\ fence \in 0..MaxFence
  /\ sstatus \in {"ACTIVE", "SUSPENDED"}
  /\ version \in 0..MaxFence
  /\ journal \in Seq(Entries)
  /\ snapshot = "damaged" \/ snapshot \in Seq(Entries)
  /\ stored \in Seq(Events)
  /\ \A e \in Executors :
       /\ ex[e].pc \in {"idle", "recover", "suspend", "open", "repair", "rewrite",
                        "turn", "save"}
       /\ ex[e].fence \in 0..MaxFence
       /\ ex[e].payload \in Seq(Entries)
       /\ ex[e].view \in Seq(Events)
  /\ history \in Seq(Entries)
  /\ damage \in 0..MaxDamage

StoreInit ==
  /\ fence = 0
  /\ sstatus = "ACTIVE"
  /\ version = 0
  /\ journal = <<>>
  /\ snapshot = <<>>
  /\ stored = <<>>
  /\ ex = [e \in Executors |-> Idle]
  /\ history = <<>>
  /\ damage = 0

-----------------------------------------------------------------------------
(* Fencing (agent-session-repository.ts).                                  *)

(* assertExecutionFence: the session is ACTIVE and the token is current.   *)
HoldsIfActive(e) == sstatus = "ACTIVE"
HoldsFence(e) == sstatus = "ACTIVE" /\ ex[e].fence = fence

(* advanceExecutionFence: a compare-and-set to the next token.             *)
NextFence == fence + 1

(* acquireExecutionFenceForRun, by a new Run or by a replay.               *)
AcquireFence(e) ==
  /\ ex[e].pc = "idle"
  /\ sstatus = "ACTIVE"
  /\ fence < MaxFence
  /\ fence' = NextFence
  /\ ex' = [ex EXCEPT ![e] = [Idle EXCEPT !.pc = "recover", !.fence = NextFence]]
  /\ UNCHANGED <<sstatus, version, journal, snapshot, stored, history, damage>>

(* markRecoveryRequiredIfFence: only the holder of the fence suspends.     *)
MarkRecoveryRequired(e) == sstatus' = IF ex[e].fence = fence THEN "SUSPENDED" ELSE sstatus

-----------------------------------------------------------------------------
(* SessionRecoveryService.recover.                                         *)

(* unwrapJournalContent and validateEntries: one root, then every row hangs*)
(* on an earlier one.                                                      *)
Rebuilds(s) ==
  \A i \in DOMAIN s : IF i = 1 THEN s[i].parent = NoId
                      ELSE \E j \in 1..(i - 1) : s[i].parent = s[j].id

(* #mapAndVerify: the checksum of the materialized lines is the stored one.*)
Intact == snapshot # "damaged"

(* loadLatest: the pointed snapshot only.                                  *)
SnapshotLoads == version > 0 /\ Intact

(* Both sources are there and disagree: nobody picks one.                  *)
Disagree == SnapshotLoads /\ journal # snapshot

(* recoverInner: the snapshot, else the journal, else an empty session.    *)
Recovered == IF SnapshotLoads THEN snapshot ELSE journal

(* "empty" only when nothing was ever checkpointed.                        *)
NothingToRecover == ~SnapshotLoads /\ journal = <<>> /\ version > 0

Unrecoverable == ~Rebuilds(journal) \/ Disagree \/ NothingToRecover

Recover(e) ==
  /\ ex[e].pc = "recover"
  /\ IF ~HoldsFence(e)
     THEN ex' = [ex EXCEPT ![e] = Idle]
     ELSE ex' = [ex EXCEPT ![e].pc = IF Unrecoverable THEN "suspend" ELSE "open",
                           ![e].payload = IF Unrecoverable THEN <<>> ELSE Recovered]
  /\ UNCHANGED <<fence, sstatus, version, journal, snapshot, stored, history, damage>>

(* markAndThrow, in a transaction of its own; also what a lock loss before *)
(* the checkpoint does (maybeMarkRecoveryOnLockLoss).                      *)
Suspend(e) ==
  /\ ex[e].pc \in {"suspend", "save"}
  /\ MarkRecoveryRequired(e)
  /\ ex' = [ex EXCEPT ![e] = Idle]
  /\ UNCHANGED <<fence, version, journal, snapshot, stored, history, damage>>

-----------------------------------------------------------------------------
(* The engine's event store (mysql-session-store.ts).                      *)

TurnOpen(s) == s # <<>> /\ Last(s).event = "open"
TurnsAndCloses(s) == Len(s)
Turns(s) == Len(SelectSeq(s, LAMBDA ev : ev.event = "open"))

(* loadStored; a turn left open is repaired before the engine goes on.     *)
LoadStored(e) ==
  /\ ex[e].pc = "open"
  /\ ex' = [ex EXCEPT ![e].view = stored,
                      ![e].pc = IF TurnOpen(stored) THEN "repair" ELSE "turn"]
  /\ UNCHANGED <<fence, sstatus, version, journal, snapshot, stored, history, damage>>

(* commitRepair reads the rows again in its transaction.  Rows that came   *)
(* since loadStored have the closers' numbers: a duplicate key ends it.    *)
RepairRead(e) ==
  /\ ex[e].pc = "repair"
  /\ ex' = IF Len(stored) = Len(ex[e].view)
           THEN [ex EXCEPT ![e].pc = "rewrite"] ELSE [ex EXCEPT ![e] = Idle]
  /\ UNCHANGED <<fence, sstatus, version, journal, snapshot, stored, history, damage>>

(* Then it deletes every row and inserts those it read and the closers.    *)
(* The session row is not locked: a batch committed in between is deleted. *)
CommitRepair(e) ==
  /\ ex[e].pc = "rewrite"
  /\ LET closed == Append(ex[e].view, Close(Turns(ex[e].view), ex[e].fence))
     IN /\ stored' = closed
        /\ ex' = [ex EXCEPT ![e].view = closed, ![e].pc = "turn"]
  /\ UNCHANGED <<fence, sstatus, version, journal, snapshot, history, damage>>

(* appendBatch: the first event must carry the next seq of the table.      *)
NextSeqMatches(e) == Len(ex[e].view) = Len(stored)

(* One batch of the engine: the turn's opening, or its closing event, with *)
(* which recordAssistantEntry notes the entry of that turn.  A rejected    *)
(* batch ends the execution.                                               *)
AppendBatch(e) ==
  /\ ex[e].pc = "turn"
  /\ IF ~NextSeqMatches(e)
     THEN UNCHANGED stored /\ ex' = [ex EXCEPT ![e] = Idle]
     ELSE LET view == ex[e].view
              by == ex[e].fence
              t == IF TurnOpen(view) THEN Turns(view) ELSE Turns(view) + 1
              event == IF TurnOpen(view) THEN Close(t, by) ELSE Open(t, by)
          IN /\ stored' = Append(stored, event)
             /\ ex' = [ex EXCEPT
                  ![e].view = Append(view, event),
                  ![e].pc = IF TurnOpen(view) THEN "save" ELSE "turn",
                  ![e].payload = IF TurnOpen(view)
                    THEN Append(@, Entry(<<"message", t>>, LastId(@), by)) ELSE @]
  /\ UNCHANGED <<fence, sstatus, version, journal, snapshot, history, damage>>

-----------------------------------------------------------------------------
(* SessionRecoveryService.checkpoint: one transaction.                     *)

RowOf(id) == {i \in DOMAIN journal : journal[i].id = id}

(* appendJournalRow: a row with the same id and another body is a conflict.*)
HashConflict(e) ==
  \E i \in DOMAIN ex[e].payload : \E j \in RowOf(ex[e].payload[i].id) :
    journal[j] # ex[e].payload[i]

(* appendMissingFromPayload; manifests of earlier checkpoints are left out.*)
(* The mutant takes a journal that has rows for one that has them all.     *)
AppendMissingFirst(e) == IF journal = <<>> THEN ex[e].payload ELSE journal
AppendMissing(e) ==
  journal \o SelectSeq(ex[e].payload, LAMBDA x : x.id[1] = "message" /\ RowOf(x.id) = {})

(* buildProtectedManifestEntry hangs the manifest on the journal's leaf.   *)
WithManifest(s, by) == Append(s, Entry(<<"manifest", by>>, LastId(s), by))

(* appendAndAdvance: a snapshot of the next version, and the pointer moved *)
(* to it by a compare-and-set on status, version and fence.                *)
AppendAndAdvance(rows) ==
  /\ snapshot' = rows
  /\ version' = version + 1

(* checkpoint: the snapshot is the journal after the append.               *)
Checkpoint(e) ==
  /\ ex[e].pc = "save"
  /\ LET rows == WithManifest(AppendMissing(e), ex[e].fence)
     IN IF ~HoldsFence(e) \/ HashConflict(e) \/ ~Rebuilds(rows)
        THEN UNCHANGED <<version, journal, snapshot, history>>
        ELSE /\ journal' = rows
             /\ AppendAndAdvance(rows)
             /\ history' = WithManifest(ex[e].payload, ex[e].fence)
  /\ ex' = [ex EXCEPT ![e] = Idle]
  /\ UNCHANGED <<fence, sstatus, stored, damage>>

-----------------------------------------------------------------------------
(* Faults: an executor's process dies anywhere; storage loses the pointed  *)
(* snapshot or the last journal row.                                       *)
Crash(e) ==
  /\ ex[e].pc # "idle"
  /\ ex' = [ex EXCEPT ![e] = Idle]
  /\ UNCHANGED <<fence, sstatus, version, journal, snapshot, stored, history, damage>>

LoseSnapshot ==
  /\ damage < MaxDamage
  /\ SnapshotLoads
  /\ snapshot' = "damaged"
  /\ damage' = damage + 1
  /\ UNCHANGED <<fence, sstatus, version, journal, stored, ex, history>>

LoseRow ==
  /\ damage < MaxDamage
  /\ journal # <<>>
  /\ journal' = Front(journal)
  /\ damage' = damage + 1
  /\ UNCHANGED <<fence, sstatus, version, snapshot, stored, ex, history>>

StoreNext ==
  \/ \E e \in Executors :
       \/ AcquireFence(e) \/ Recover(e) \/ Suspend(e) \/ LoadStored(e)
       \/ RepairRead(e) \/ CommitRepair(e) \/ AppendBatch(e) \/ Checkpoint(e) \/ Crash(e)
  \/ LoseSnapshot
  \/ LoseRow

StoreSpec == StoreInit /\ [][StoreNext]_storeVars

-----------------------------------------------------------------------------
(* Properties.                                                             *)

(* What recover hands to the holder of the fence is everything the last    *)
(* checkpoint committed, whichever of the two sources it came from and     *)
(* whichever one was damaged.                                              *)
RecoversHistory ==
  \A e \in Executors :
    ex[e].pc \in {"open", "repair", "rewrite", "turn", "save"} /\ ex[e].fence = fence =>
      IsPrefix(history, ex[e].payload)

(* The committed conversation is one chain and only grows: no executor     *)
(* that lost the session hangs its turn on an old entry, and none is       *)
(* dropped.                                                                *)
OneChain ==
  /\ IsPrefix(history, history')
      /\ \A i \in 2..Len(history') : history'[i].parent = history'[i - 1].id

=============================================================================
