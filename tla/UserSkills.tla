------------------------------ MODULE UserSkills ------------------------------
(***************************************************************************)
(* A member's own skill: the draft directory the model and uploads write   *)
(* (skills/install), the published versions in a directory per digest      *)
(* (skills/enablement), the enablement row (skill-enablement-repository),  *)
(* the transaction that ties them (skill-enablement-service, with          *)
(* skills/manager) and the runs that resolved a version.                   *)
(*                                                                         *)
(* One owner and one skill name.  A package is two files, and its digest   *)
(* is what they hold.  The disk is not part of the transaction: what a     *)
(* transaction wrote there stays when it rolls back.                       *)
(***************************************************************************)
EXTENDS Naturals, Sequences

CONSTANTS Texts,      \* what one file of a package holds
          Installers, \* draft uploads under way at once
          Runs,       \* runs of the owner
          NoPackage,  \* no package, no digest
          MaxEdits,   \* bound: uploads and edits of the draft
          MaxTurns    \* bound: enable and disable transactions tried

UserSkillsAssumption ==
    /\ MaxEdits \in Nat /\ MaxTurns \in Nat
    /\ NoPackage \notin Texts \X Texts

Packages == Texts \X Texts
Maybe == Packages \cup {NoPackage}

VARIABLES draft,     \* the draft directory
          had,       \* whether a draft was ever in place
          stranded,  \* history: a crash left the last draft in a hidden backup
          installs,  \* atomicReplaceDir of each upload
          edits,     \* drafts written so far
          row,       \* user_skill_enablements: the enabled digest
          disk,      \* each digest's directory and its sidecar
          bytes,     \* what the directory of each digest holds
          tx,        \* the transaction that holds the owner's lock
          turns,     \* transactions tried so far
          mounts     \* the digest each run resolved

vars == <<draft, had, stranded, installs, edits, row, disk, bytes, tx, turns,
          mounts>>
drafts == <<draft, had, stranded, installs, edits>>
store == <<disk, bytes>>

NoInstall == [step |-> "idle", package |-> NoPackage, backup |-> NoPackage]
NoTx == [step |-> "idle", op |-> "none", staged |-> << >>, digest |-> NoPackage,
         previous |-> NoPackage]

Init ==
    /\ draft = NoPackage
    /\ had = FALSE
    /\ stranded = FALSE
    /\ installs = [i \in Installers |-> NoInstall]
    /\ edits = 0
    /\ row = NoPackage
    /\ disk = [p \in Packages |-> "gone"]
    /\ bytes = [p \in Packages |-> NoPackage]
    /\ tx = NoTx
    /\ turns = 0
    /\ mounts = [r \in Runs |-> NoPackage]

\* readPublishedVersion: a directory with its sidecar.
Published(p) == disk[p] \in {"fresh", "old"}

-----------------------------------------------------------------------------
(* The draft. *)

\* The model rewrites one file of the draft.
EditDraft(n, t) ==
    /\ edits < MaxEdits
    /\ draft # NoPackage
    /\ draft[n] # t
    /\ draft' = [draft EXCEPT ![n] = t]
    /\ edits' = edits + 1
    /\ UNCHANGED <<had, stranded, installs, row, store, tx, turns, mounts>>

\* installSkillArchive: extracted, discovered, validated and copied into a
\* staging directory of its own; an equal package leaves the draft alone.
Stage(i, p) ==
    /\ installs[i].step = "idle"
    /\ edits < MaxEdits
    /\ p # draft
    /\ installs' = [installs EXCEPT ![i] = [NoInstall EXCEPT !.step = "staged",
                                                             !.package = p]]
    /\ edits' = edits + 1
    /\ UNCHANGED <<draft, had, stranded, row, store, tx, turns, mounts>>

\* atomicReplaceDir: the package in place becomes a hidden backup.
MoveAway(i) ==
    /\ installs[i].step = "staged"
    /\ installs' = [installs EXCEPT ![i].step = "swap", ![i].backup = draft]
    /\ draft' = NoPackage
    /\ UNCHANGED <<had, stranded, edits, row, store, tx, turns, mounts>>

\* The staged package is renamed into place; a directory that is there
\* again, or an I/O error, makes the rename fail.
Swap(i) ==
    /\ installs[i].step = "swap"
    /\ draft = NoPackage
    /\ draft' = installs[i].package
    /\ had' = TRUE
    /\ stranded' = FALSE
    /\ installs' = [installs EXCEPT ![i] = NoInstall]
    /\ UNCHANGED <<edits, row, store, tx, turns, mounts>>

SwapFails(i) ==
    /\ installs[i].step = "swap"
    /\ installs' = [installs EXCEPT ![i].step = "restore"]
    /\ UNCHANGED <<draft, had, stranded, edits, row, store, tx, turns, mounts>>

\* The failed upload drops its staging directory and its backup.
DropBackup(i) ==
    /\ installs[i].step = "restore"
    /\ installs' = [installs EXCEPT ![i] = NoInstall]
    /\ UNCHANGED <<draft, had, stranded, edits, row, store, tx, turns, mounts>>

\* The backup goes back, unless another upload took the place.
Restore(i) ==
    /\ installs[i].step = "restore"
    /\ draft' = IF draft = NoPackage THEN installs[i].backup ELSE draft
    /\ stranded' = (stranded /\ draft' = NoPackage)
    /\ installs' = [installs EXCEPT ![i] = NoInstall]
    /\ UNCHANGED <<had, edits, row, store, tx, turns, mounts>>

-----------------------------------------------------------------------------
(* mutateSkillWithLedger: one transaction under the owner's row lock. *)

\* lockOwner, and the row in force before the transaction.
Begin(op) ==
    /\ tx.step = "idle"
    /\ turns < MaxTurns
    /\ turns' = turns + 1
    /\ tx' = [NoTx EXCEPT !.op = op, !.previous = row,
                          !.step = IF op = "enable" THEN "copy" ELSE "collect"]
    /\ UNCHANGED <<drafts, row, store, mounts>>

\* publishDraftVersion copies the draft file by file while others write it.
CopyFile ==
    LET n == Len(tx.staged) + 1
    IN /\ tx.step = "copy"
       /\ draft # NoPackage
       /\ tx' = [tx EXCEPT !.staged = Append(@, draft[n]),
                           !.step = IF n = 2 THEN "place" ELSE "copy"]
       /\ UNCHANGED <<drafts, row, store, turns, mounts>>

\* The digest of the draft as it is now, not of the copy.
DraftDigest == IF draft = NoPackage THEN tx.staged ELSE draft

\* The digest is that of the staged bytes.
StagedDigest == tx.staged

\* A version with its sidecar is used as it is; otherwise the copy takes the
\* place of whatever directory has the digest's name.
Place ==
    LET d == StagedDigest
    IN /\ tx.step = "place"
       /\ IF Published(d)
          THEN UNCHANGED store /\ tx' = [tx EXCEPT !.step = "collect",
                                                   !.digest = d]
          ELSE /\ disk' = [disk EXCEPT ![d] = "bare"]
               /\ bytes' = [bytes EXCEPT ![d] = tx.staged]
               /\ tx' = [tx EXCEPT !.step = "sidecar", !.digest = d]
       /\ UNCHANGED <<drafts, row, turns, mounts>>

\* The sidecar comes last, so a directory without one is not published.
WriteSidecar ==
    /\ tx.step = "sidecar"
    /\ disk' = [disk EXCEPT ![tx.digest] = "fresh"]
    /\ tx' = [tx EXCEPT !.step = "collect"]
    /\ UNCHANGED <<drafts, row, bytes, turns, mounts>>

\* Only the version being enabled is kept.
KeepNew == {tx.digest} \ {NoPackage}

\* What the collector must leave: the digest in force before the
\* transaction, which a rollback brings back, and the one it writes.
KeepDigests == {tx.previous, tx.digest} \ {NoPackage}

\* collectStaleSkillVersions, still inside the transaction.
CollectVersions ==
    /\ tx.step = "collect"
    /\ disk' = [p \in Packages |->
                  IF disk[p] = "old" /\ p \notin KeepDigests THEN "gone"
                  ELSE disk[p]]
    /\ bytes' = [p \in Packages |->
                   IF disk'[p] = "gone" THEN NoPackage ELSE bytes[p]]
    /\ tx' = [tx EXCEPT !.step = "commit"]
    /\ UNCHANGED <<drafts, row, turns, mounts>>

\* Every transaction ends with the staged version enabled.
CommitStaged ==
    /\ tx.step = "commit"
    /\ row' = tx.staged
    /\ tx' = NoTx
    /\ UNCHANGED <<drafts, store, turns, mounts>>

\* The upsert or the removal of the row takes effect.
Commit ==
    /\ tx.step = "commit"
    /\ row' = IF tx.op = "enable" THEN tx.digest ELSE NoPackage
    /\ tx' = NoTx
    /\ UNCHANGED <<drafts, store, turns, mounts>>

\* An error, a lock conflict (run tries the whole of it again) or the end of
\* the process: the row is as it was, the disk is not.
Rollback ==
    /\ tx.step # "idle"
    /\ tx' = NoTx
    /\ UNCHANGED <<drafts, row, store, turns, mounts>>

-----------------------------------------------------------------------------
(* Time, runs and crashes. *)

Age(p) ==
    /\ disk[p] = "fresh"
    /\ tx.step = "idle"
    /\ disk' = [disk EXCEPT ![p] = "old"]
    /\ UNCHANGED <<drafts, row, bytes, tx, turns, mounts>>

\* The run's list names the enabled version if it is published.
ResolveRun(r) ==
    /\ mounts[r] = NoPackage
    /\ row # NoPackage
    /\ Published(row)
    /\ mounts' = [mounts EXCEPT ![r] = row]
    /\ UNCHANGED <<drafts, row, store, tx, turns>>

EndRun(r) ==
    /\ mounts[r] # NoPackage
    /\ mounts' = [mounts EXCEPT ![r] = NoPackage]
    /\ UNCHANGED <<drafts, row, store, tx, turns>>

\* Uploads lose their process; nothing looks for their backups again.
CrashInstall ==
    /\ \E i \in Installers : installs[i].step # "idle"
    /\ installs' = [i \in Installers |-> NoInstall]
    /\ stranded' = (stranded \/ \E i \in Installers :
                                  installs[i].backup # NoPackage /\ draft = NoPackage)
    /\ UNCHANGED <<draft, had, edits, row, store, tx, turns, mounts>>

Uploading(i) ==
    \/ \E p \in Packages : Stage(i, p)
    \/ MoveAway(i) \/ Swap(i) \/ SwapFails(i) \/ Restore(i)

Mutation ==
    \/ \E op \in {"enable", "disable"} : Begin(op)
    \/ CopyFile \/ Place \/ WriteSidecar \/ CollectVersions
    \/ Commit \/ Rollback

Next ==
    \/ \E n \in 1 .. 2, t \in Texts : EditDraft(n, t)
    \/ \E i \in Installers : Uploading(i)
    \/ Mutation
    \/ \E p \in Packages : Age(p)
    \/ \E r \in Runs : ResolveRun(r) \/ EndRun(r)
    \/ CrashInstall

Spec == Init /\ [][Next]_vars

-----------------------------------------------------------------------------

TypeOK ==
    /\ draft \in Maybe
    /\ had \in BOOLEAN /\ stranded \in BOOLEAN
    /\ installs \in [Installers ->
                       [step : {"idle", "staged", "swap", "restore"},
                        package : Maybe, backup : Maybe]]
    /\ edits \in 0 .. MaxEdits
    /\ row \in Maybe
    /\ disk \in [Packages -> {"gone", "bare", "fresh", "old"}]
    /\ bytes \in [Packages -> Maybe]
    /\ tx \in [step : {"idle", "copy", "place", "sidecar", "collect", "commit"},
               op : {"none", "enable", "disable"}, staged : Seq(Texts),
               digest : Maybe, previous : Maybe]
    /\ turns \in 0 .. MaxTurns
    /\ mounts \in [Runs -> Maybe]

\* The row in force names a published version, whatever transactions failed
\* after they had written or collected: the collector keeps the digest a
\* rollback would bring back, and the sidecar is written last.
EnabledIsPublished == row # NoPackage => Published(row)

\* A published directory holds what its digest says, however the draft
\* changed while it was copied.
PublishedIsItsDigest == \A p \in Packages : Published(p) => bytes[p] = p

\* An upload that fails or meets another leaves a draft in place: while none
\* is moving the directory, a draft that was there is there, unless a crash
\* between the two renames left it in a backup that nothing looks for.
DraftSurvives ==
    had /\ draft = NoPackage =>
      \/ \E i \in Installers : installs[i].step \in {"swap", "restore"}
      \/ stranded

==============================================================================
