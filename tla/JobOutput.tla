------------------------------ MODULE JobOutput ------------------------------
(***************************************************************************)
(* The output of one background job, from the process in the execution     *)
(* service to the model that reads it in the agent:                        *)
(*                                                                         *)
(*   out     what the process writes (a byte is the width of its character *)
(*           when it is the first of one, and 0 when it continues one)     *)
(*   kept    the prefix of it that LiveOutputTracker retains               *)
(*   buf     the ring of job-cursor.ts, filled when somebody drains        *)
(*   disk    the .log and .meta.json files of job-output-store.ts          *)
(*   agent   RemoteShellProcess: its cursor, a pull in flight, its buffer  *)
(*   got     what the model was given, byte by byte (positions of out)     *)
(*                                                                         *)
(* Reads go to the ring while the job is live in the registry and to the   *)
(* files afterwards, also after a restart of the service.                  *)
(***************************************************************************)
EXTENDS Naturals, Sequences, FiniteSets, SequencesExt

CONSTANTS Widths,      \* widths of the characters the process writes, in bytes
          CaptureCap,  \* SANDBOX_MAX_OUTPUT_CHARS
          RingCap,     \* maxOutputBytes
          ReadLimit,   \* the limit of one read, in bytes
          AgentCap,    \* OUTPUT_BUFFER_MAX_CHARS
          MaxBytes,    \* bound: what the process writes
          MaxCrash,    \* bound: restarts of the service between two saves
          MaxTorn,     \* bound: restarts or failures between the renames of a save
          MaxIoFail,   \* bound: saves that fail before their first rename
          MaxPurge     \* bound: deletions of the workspace

OutputAssumption ==
  /\ Widths \subseteq 1..4
  /\ RingCap \in Nat \ {0} /\ ReadLimit \in Nat \ {0} /\ AgentCap \in Nat \ {0}
  /\ {CaptureCap, MaxBytes, MaxCrash, MaxTorn, MaxIoFail, MaxPurge} \subseteq Nat

VARIABLES out, kept, dead,
          live,     \* the registry holds the entry
          buf,
          settled,  \* "no", "saving" or "done"
          saved,    \* lastPersistedTotal
          saving,   \* the save in flight: its stage and its snapshot
          disk, purge, agent, got, given,
          faults    \* crashes, torn saves, failed saves

outVars == <<out, kept, dead, live, buf, settled, saved, saving, disk, purge, agent, got,
             given, faults>>

Positions == 1..MaxBytes
Offsets == 0..MaxBytes
Cursor(g, o) == [gen |-> g, offset |-> o]
Cursors == [gen : Offsets, offset : Offsets]
Ring(g, base, total, trunc, win) ==
  [gen |-> g, base |-> base, total |-> total, trunc |-> trunc, win |-> win]
EmptyRing == Ring(0, 0, 0, FALSE, <<>>)
NoSave == [stage |-> "none", ring |-> EmptyRing]
NoFiles == [log |-> <<>>, meta |-> EmptyRing, there |-> FALSE]
NoPull == [stage |-> "none", text |-> <<>>, lossy |-> FALSE, next |-> Cursor(0, 0)]

Rings == [gen : Offsets, base : Offsets, total : Offsets, trunc : BOOLEAN,
          win : Seq(Positions)]

OutputTypeOK ==
  /\ out \in Seq({0} \cup Widths) /\ Len(out) <= MaxBytes
  /\ kept \in 0..Len(out)
  /\ dead \in BOOLEAN /\ live \in BOOLEAN
  /\ buf \in Rings /\ Len(buf.win) = buf.total - buf.base /\ Len(buf.win) <= RingCap
  /\ settled \in {"no", "saving", "done"}
  /\ saved \in Offsets
  /\ saving.stage \in {"none", "log", "meta"} /\ saving.ring \in Rings
  /\ disk.there \in BOOLEAN /\ disk.meta \in Rings /\ disk.log \in Seq(Positions)
  /\ purge \in {"no", "deleted", "marked"}
  /\ agent.cursor \in Cursors
  /\ agent.pull.stage \in {"none", "sent", "answered"}
  /\ agent.pull.next \in Cursors
  /\ Len(agent.buffer) <= AgentCap * 4
  /\ got \in Seq(Positions)
  /\ faults.crash \in 0..MaxCrash /\ faults.torn \in 0..MaxTorn
  /\ faults.io \in 0..MaxIoFail

OutputInit ==
  /\ out = <<>> /\ kept = 0 /\ dead = FALSE
  /\ live = TRUE
  /\ buf = EmptyRing
  /\ settled = "no"
  /\ saved = 0
  /\ saving = NoSave
  /\ disk = NoFiles
  /\ purge = "no"
  /\ agent = [cursor |-> Cursor(0, 0), pull |-> NoPull, buffer |-> <<>>, lossy |-> FALSE]
  /\ got = <<>>
  /\ given = [lossy |-> FALSE, flagged |-> FALSE]
  /\ faults = [crash |-> 0, torn |-> 0, io |-> 0]

-----------------------------------------------------------------------------
(* Bytes and characters (job-cursor.ts).                                   *)

IsContinuation(p) == out[p] = 0
Chars(n) == Cardinality({p \in 1..n : ~IsContinuation(p)})

(* utf8CharStart: i bytes of w are skipped; move on to a character.        *)
CharStartNone(w, i) == i
CharStart(w, i) ==
  CHOOSE k \in i..Len(w) :
    /\ k = Len(w) \/ ~IsContinuation(w[k + 1])
    /\ \A j \in i..(k - 1) : IsContinuation(w[j + 1])

(* utf8SafeEnd: the longest prefix of at most i bytes of whole characters. *)
SafeEnd(w, i) ==
  IF i >= Len(w) THEN Len(w)
  ELSE CHOOSE k \in 0..i :
         /\ k = 0 \/ ~IsContinuation(w[k + 1])
         /\ \A j \in (k + 1)..i : IsContinuation(w[j + 1])

(* utf8CodepointLen: the character that starts after i bytes, if complete. *)
CodepointLen(w, i) ==
  LET need == out[w[i + 1]]
  IN IF need = 0 THEN 1 ELSE IF i + need > Len(w) THEN 0 ELSE need

-----------------------------------------------------------------------------
(* StreamCursorBuffer.                                                     *)

(* trim: keep at most RingCap bytes, cut at a character; one more          *)
(* generation when something is dropped.                                   *)
TrimOneLess(r) ==
  IF Len(r.win) <= RingCap THEN r
  ELSE LET cut == CharStart(r.win, Len(r.win) - RingCap - 1)
       IN Ring(r.gen + 1, r.base + cut, r.total, TRUE, SubSeq(r.win, cut + 1, Len(r.win)))
Trim(r) ==
  IF Len(r.win) <= RingCap THEN r
  ELSE LET cut == CharStart(r.win, Len(r.win) - RingCap)
       IN Ring(r.gen + 1, r.base + cut, r.total, TRUE, SubSeq(r.win, cut + 1, Len(r.win)))

(* append: the whole text counts in total, also what is cut off at once.   *)
AppendText(r, upto) ==
  Trim(Ring(r.gen, r.base, upto, r.trunc, r.win \o [i \in 1..(upto - r.total) |-> r.total + i]))

(* drainHandle: what the tracker has and did not hand out yet.             *)
Drained == IF buf.total < kept THEN AppendText(buf, kept) ELSE buf

(* The answer of a read: text, lossy (dropped or truncated), next cursor.  *)
Answer(text, lossy, next) ==
  [stage |-> "answered", text |-> text, lossy |-> lossy, next |-> next]

Dropped(r, c) == c.offset < r.base \/ c.gen < r.gen

(* read: a cursor of an older generation restarts at the window.           *)
ReadStart(r, c) == IF Dropped(r, c) THEN r.base ELSE c.offset

(* The end of a read: the limit, at least one character.                   *)
ReadEnd(r, from) ==
  LET end == SafeEnd(r.win, from + ReadLimit)
  IN IF end > from THEN end ELSE from + CodepointLen(r.win, from)

ReadRing(r, c) ==
  LET from == CharStart(r.win, IF ReadStart(r, c) - r.base > Len(r.win) THEN Len(r.win)
                               ELSE ReadStart(r, c) - r.base)
      end  == ReadEnd(r, from)
  IN IF c.gen > r.gen \/ from >= Len(r.win)
     THEN Answer(<<>>, Dropped(r, c) \/ r.trunc \/ c.gen > r.gen, Cursor(r.gen, r.total))
     ELSE Answer(SubSeq(r.win, from + 1, end), Dropped(r, c) \/ r.trunc,
                 Cursor(r.gen, r.base + end))

-----------------------------------------------------------------------------
(* The process and its capture (process-runner.ts, output-capture.ts).     *)

(* feedText: a prefix is retained, the rest is only counted.               *)
Captured(n) == IF kept = Len(out) /\ Chars(kept) < CaptureCap THEN n ELSE kept

Emit(w) ==
  /\ ~dead
  /\ Len(out) + w <= MaxBytes
  /\ out' = out \o [i \in 1..w |-> IF i = 1 THEN w ELSE 0]
  /\ kept' = Captured(Len(out) + w)
  /\ UNCHANGED <<dead, live, buf, settled, saved, saving, disk, purge, agent, got, given, faults>>

(* awaitSettlement: the process ends, by itself or killed.                 *)
Exit ==
  /\ ~dead
  /\ dead' = TRUE
  /\ UNCHANGED <<out, kept, live, buf, settled, saved, saving, disk, purge, agent, got, given,
                 faults>>

-----------------------------------------------------------------------------
(* Saving (job-registry.ts, job-output-store.ts).  The saves of one job    *)
(* form a chain: the next begins when the last has ended.                  *)

(* persistLiveOutput: a snapshot of the ring, unless the files were purged.*)
Snapshot(r) == IF purge = "marked" THEN NoSave ELSE [stage |-> "log", ring |-> r]

(* startLivePersistTimer and the read's enqueuePersist: drain, then save if*)
(* the total has moved.                                                    *)
TimerTick ==
  /\ live /\ settled = "no"
  /\ saving = NoSave
  /\ Drained.total # saved
  /\ buf' = Drained
  /\ saving' = Snapshot(buf')
  /\ saved' = IF saving' = NoSave THEN saved ELSE buf'.total
  /\ UNCHANGED <<out, kept, dead, live, settled, disk, purge, agent, got, given, faults>>

(* save: the log is renamed into place, then the meta.                     *)
SaveLog ==
  /\ saving.stage = "log"
  /\ disk' = [disk EXCEPT !.log = saving.ring.win]
  /\ saving' = [saving EXCEPT !.stage = "meta"]
  /\ UNCHANGED <<out, kept, dead, live, buf, settled, saved, purge, agent, got, given, faults>>

SaveMeta ==
  /\ saving.stage = "meta"
  /\ disk' = [disk EXCEPT !.meta = [saving.ring EXCEPT !.win = <<>>], !.there = TRUE]
  /\ saving' = NoSave
  /\ UNCHANGED <<out, kept, dead, live, buf, settled, saved, purge, agent, got, given, faults>>

(* What goes wrong between the two renames is counted apart.               *)
Fault(kind) ==
  LET k == IF saving.stage = "meta" THEN "torn" ELSE kind
  IN /\ faults[k] < [crash |-> MaxCrash, torn |-> MaxTorn, io |-> MaxIoFail][k]
     /\ faults' = [faults EXCEPT ![k] = @ + 1]

(* A failed write is logged and swallowed; lastPersistedTotal moved on.    *)
SaveFails ==
  /\ saving # NoSave
  /\ Fault("io")
  /\ saving' = NoSave
  /\ UNCHANGED <<out, kept, dead, live, buf, settled, saved, disk, purge, agent, got, given>>

(* settle: the timer is cleared, lastPersistAt = 0 forces the last save.   *)
SettleIfChanged ==
  /\ live /\ dead /\ settled = "no"
  /\ saving = NoSave
  /\ settled' = "saving"
  /\ buf' = buf
  /\ saving' = IF buf.total = saved THEN NoSave ELSE Snapshot(buf)
  /\ UNCHANGED <<out, kept, dead, live, saved, disk, purge, agent, got, given, faults>>
Settle ==
  /\ live /\ dead /\ settled = "no"
  /\ saving = NoSave
  /\ settled' = "saving"
  /\ buf' = Drained
  /\ saving' = Snapshot(buf')
  /\ UNCHANGED <<out, kept, dead, live, saved, disk, purge, agent, got, given, faults>>

(* The end of settle: the row is terminal and the entry may be pruned.     *)
Settled ==
  /\ settled = "saving" /\ saving = NoSave
  /\ settled' = "done"
  /\ UNCHANGED <<out, kept, dead, live, buf, saved, saving, disk, purge, agent, got, given, faults>>

(* pruneSettled: five minutes later, or 512 younger jobs later.            *)
PruneSettled ==
  /\ live /\ settled = "done"
  /\ live' = FALSE
  /\ UNCHANGED <<out, kept, dead, buf, settled, saved, saving, disk, purge, agent, got, given,
                 faults>>

(* deleteJobOutputsForOwner: the files first, the tombstone afterwards.    *)
PurgeFiles ==
  /\ purge = "no" /\ MaxPurge > 0
  /\ purge' = "deleted"
  /\ disk' = NoFiles
  /\ UNCHANGED <<out, kept, dead, live, buf, settled, saved, saving, agent, got, given, faults>>

PurgeMark ==
  /\ purge = "deleted"
  /\ purge' = "marked"
  /\ UNCHANGED <<out, kept, dead, live, buf, settled, saved, saving, disk, agent, got, given,
                 faults>>

(* The service restarts: its processes die with it (--die-with-parent), the*)
(* rings are gone, recoverOrphans makes the row terminal.                  *)
Restart ==
  /\ live
  /\ Fault("crash")
  /\ dead' = TRUE /\ live' = FALSE
  /\ settled' = "done"
  /\ saving' = NoSave
  /\ UNCHANGED <<out, kept, buf, saved, disk, purge, agent, got, given>>

-----------------------------------------------------------------------------
(* Reading.                                                                *)

(* load and restore: both files, and the length they must agree on.        *)
LoadsAnyLength == disk.there
Loads == disk.there /\ Len(disk.log) = disk.meta.total - disk.meta.base
Loaded == Trim([disk.meta EXCEPT !.win = disk.log])

Unavailable(c) == Answer(<<>>, TRUE, c)

(* RemoteShellProcess.pull: one at a time, with the cursor it has.         *)
Pull ==
  /\ agent.pull.stage = "none"
  /\ agent' = [agent EXCEPT !.pull = [NoPull EXCEPT !.stage = "sent", !.next = agent.cursor]]
  /\ UNCHANGED <<out, kept, dead, live, buf, settled, saved, saving, disk, purge, got, given,
                 faults>>

(* POST /internal/v1/jobs/read, MySqlJobRegistry.read.                     *)
ServeRead ==
  LET c == agent.pull.next IN
  /\ agent.pull.stage = "sent"
  /\ buf' = IF live THEN Drained ELSE buf
  /\ agent' = [agent EXCEPT !.pull = IF live THEN ReadRing(buf', c)
                                     ELSE IF Loads THEN ReadRing(Loaded, c)
                                     ELSE Unavailable(c)]
  /\ UNCHANGED <<out, kept, dead, live, settled, saved, saving, disk, purge, got, given, faults>>

(* appendOutput: the tail of at most AgentCap characters, lossy when cut.  *)
TailOf(text) ==
  LET starts == {i \in DOMAIN text : ~IsContinuation(text[i])}
  IN IF Cardinality(starts) <= AgentCap THEN text
     ELSE SubSeq(text, CHOOSE i \in starts :
                         Cardinality({j \in starts : j >= i}) = AgentCap, Len(text))

PullAnsweredSilently ==
  /\ agent.pull.stage = "answered"
  /\ agent' = [cursor |-> agent.pull.next, pull |-> NoPull,
               buffer |-> TailOf(agent.buffer \o agent.pull.text),
               lossy |-> agent.lossy \/ agent.pull.lossy]
  /\ UNCHANGED <<out, kept, dead, live, buf, settled, saved, saving, disk, purge, got, given,
                 faults>>
PullAnswered ==
  LET text == agent.buffer \o agent.pull.text
      cut  == TailOf(text) # text
  IN
  /\ agent.pull.stage = "answered"
  /\ agent' = [cursor |-> agent.pull.next, pull |-> NoPull, buffer |-> TailOf(text),
               lossy |-> agent.lossy \/ agent.pull.lossy \/ cut]
  /\ UNCHANGED <<out, kept, dead, live, buf, settled, saved, saving, disk, purge, got, given,
                 faults>>

(* The answer is lost on its way: the next pull sends the same cursor.     *)
PullLost ==
  /\ agent.pull.stage # "none"
  /\ agent' = [agent EXCEPT !.pull = NoPull]
  /\ UNCHANGED <<out, kept, dead, live, buf, settled, saved, saving, disk, purge, got, given,
                 faults>>

(* readOutput: the model takes the buffer and its lossy flag.              *)
ReadOutput ==
  /\ agent.buffer # <<>> \/ agent.lossy
  /\ Len(got) + Len(agent.buffer) <= 2 * MaxBytes
  /\ got' = got \o agent.buffer
  /\ given' = [lossy |-> agent.lossy, flagged |-> given.flagged \/ agent.lossy]
  /\ agent' = [agent EXCEPT !.buffer = <<>>, !.lossy = FALSE]
  /\ UNCHANGED <<out, kept, dead, live, buf, settled, saved, saving, disk, purge, faults>>

OutputNext ==
  \/ \E w \in Widths : Emit(w)
  \/ Exit \/ TimerTick \/ SaveLog \/ SaveMeta \/ SaveFails
  \/ Settle \/ Settled \/ PruneSettled \/ Restart
  \/ PurgeFiles \/ PurgeMark
  \/ Pull \/ ServeRead \/ PullAnswered \/ PullLost \/ ReadOutput

OutputSpec == OutputInit /\ [][OutputNext]_outVars

-----------------------------------------------------------------------------
(* The log is the window its meta describes.                               *)
DiskWhole == disk.log = [i \in 1..(disk.meta.total - disk.meta.base) |-> disk.meta.base + i]

(* Files of two different snapshots are read as one only when a save was   *)
(* cut between its renames with the ring full, so that the old and the new *)
(* window are of one length: the log is then the later window.             *)
Follows(s) == \A i \in 2..Len(s) : s[i] = s[i - 1] + 1
TornFull ==
  /\ faults.torn > 0
  /\ Follows(disk.log) /\ disk.log[1] > disk.meta.base + 1
  /\ \E w \in Widths : Len(disk.log) + w > RingCap
TornIsCorrupt == Loads /\ saving = NoSave => DiskWhole \/ TornFull

(* The model is never given text with a hole in it, or text that does not  *)
(* continue what it was given, without the lossy mark (job-cursor.ts, the  *)
(* ring, the files and the agent's buffer together), unless it was read    *)
(* from such a pair of files, which may have been purged since.            *)
ReadTorn == ~live /\ faults.torn > 0 /\ (purge # "no" \/ (Loads /\ ~DiskWhole))
NoSilentGap ==
  \/ got' = got
     \/ given'.lossy
     \/ Follows((IF got = <<>> THEN <<0>> ELSE <<Last(got)>>)
                \o SubSeq(got', Len(got) + 1, Len(got')))
     \/ ReadTorn

(* Every answer is made of whole characters, wherever the ring was cut and *)
(* whatever the limit of the read.                                         *)
WholeChars ==
  agent.pull.text # <<>> =>
    LET t == agent.pull.text
    IN /\ ~IsContinuation(t[1])
       /\ Last(t) = Len(out) \/ ~IsContinuation(Last(t) + 1)

(* A reader that has read to the end of a finished job has everything the  *)
(* capture kept of what the process wrote, which is all of it or as many   *)
(* characters as the capture takes (nothing marks the rest), or was told   *)
(* that something is missing.  A restart loses the last interval, a failed *)
(* last save the window, and a deletion the files: all by design.          *)
AtEnd ==
  /\ settled = "done" /\ agent.pull.stage = "none" /\ agent.buffer = <<>> /\ ~agent.lossy
  /\ \/ live /\ agent.cursor = Cursor(buf.gen, buf.total)
     \/ ~live /\ Loads /\ agent.cursor = Cursor(disk.meta.gen, disk.meta.total)
AllOrFlagged ==
  AtEnd /\ purge = "no" /\ faults.crash + faults.torn + faults.io = 0 =>
    /\ given.flagged \/ (got # <<>> /\ Last(got) = kept) \/ kept = 0
    /\ kept = Len(out) \/ Chars(kept) >= CaptureCap

=============================================================================
