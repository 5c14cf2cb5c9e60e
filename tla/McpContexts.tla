---------------------------- MODULE McpContexts ----------------------------
(***************************************************************************)
(* The external MCP server of the sandbox: a facade that maps a caller's   *)
(* context_id to a workspace (a Redis record created under a short lock),  *)
(* the bridge of the execution service that creates the workspace, marks   *)
(* it as active and runs the tool, the collector that removes idle         *)
(* workspaces by the age of their marker, and the download links of        *)
(* submitted artifacts.                                                    *)
(*                                                                         *)
(* One context_id.  A workspace is named by the call that created it.      *)
(* Ages count ticks of the clock; a record or marker is idle when it is    *)
(* older than Ttl.                                                         *)
(***************************************************************************)
EXTENDS Naturals, FiniteSets

CONSTANTS Calls,        \* tool calls, all with the same context_id
          Ops,          \* the tools they call, among McpTools
          Ttl,          \* SANDBOX_MCP_CONTEXT_TTL_SECONDS = ..WORKSPACE_TTL_SECONDS
          LinkTtl,      \* SANDBOX_MCP_ARTIFACT_TTL_SECONDS
          MaxTicks,     \* bound: ticks of the clock
          MaxSweeps,    \* bound: rounds of the collector
          NoCall,       \* no holder, no workspace
          Acts          \* which of "slow" (a call outlives the lock), "bridge" (the
                        \* bridge fails), "redis" (Redis fails), "rm" (a removal
                        \* fails) happen

McpTools == {"write", "read", "delete", "upload", "submit"}

McpAssumption ==
  /\ Ops \subseteq McpTools
  /\ Ttl \in Nat \ {0} /\ LinkTtl \in Nat \ {0} /\ MaxTicks \in Nat /\ MaxSweeps \in Nat
  /\ NoCall \notin Calls

VARIABLES pc,       \* where a call is
          op,       \* its tool: write, read, delete, upload, submit
          ws,       \* the workspace it resolved
          result,   \* none, ok, error
          mapped,   \* workspace of the context record, or NoCall
          mapAge,   \* its age; NoExpiry before expire was set
          lock,     \* holder of the lock of the context
          content,  \* the workspace directory: absent, empty, data
          marker,   \* age of the activity marker, or Unmarked
          sweep,    \* the collector: idle, or the markers it has still to look at
          judged,   \* the workspace it found idle, or NoCall
          gcStep,   \* idle, looking, removing, unlinking
          sweeps, now,
          ticked,   \* calls during which the clock ticked: a call is shorter than two
          link,     \* expiry of the signed link, 0 when there is none
          meta,     \* expiry of the metadata record, 0 when there is none
          wrote,    \* workspaces a successful write went to
          caught    \* history: workspaces last marked after the collector had found them
                    \* idle and before it was done with them

vars == <<pc, op, ws, result, mapped, mapAge, lock, content, marker, sweep, judged, gcStep,
          sweeps, now, ticked, link, meta, wrote, caught>>
call == <<pc, op, ws, result>>
redis == <<mapped, mapAge, lock, meta>>
disk == <<content, marker>>
gc == <<sweep, judged, gcStep, sweeps>>

Unmarked == 1000
NoExpiry == 1000
Steps == {"new", "locking", "locked", "ensuring", "ensured", "storing", "expiring", "releasing",
          "failing", "have", "opened", "running", "touching", "linking", "done"}

Init ==
  /\ pc = [c \in Calls |-> "new"] /\ op \in [Calls -> Ops]
  /\ ws = [c \in Calls |-> NoCall] /\ result = [c \in Calls |-> "none"]
  /\ mapped = NoCall /\ mapAge = 0 /\ lock = NoCall
  /\ content = [w \in Calls |-> "absent"] /\ marker = [w \in Calls |-> Unmarked]
  /\ sweep = {} /\ judged = NoCall /\ gcStep = "idle" /\ sweeps = 0 /\ now = 0 /\ ticked = {}
  /\ link = 0 /\ meta = 0 /\ wrote = {} /\ caught = {}

Goto(c, s) == pc' = [pc EXCEPT ![c] = s]
Return(c, r) == Goto(c, "done") /\ result' = [result EXCEPT ![c] = r]
Facade == UNCHANGED <<op, content, marker, link, wrote, caught, now, ticked>> /\ UNCHANGED gc
InExec == UNCHANGED <<op, ws, result, mapped, mapAge, lock, meta, link, now, ticked>> /\ UNCHANGED gc

(***************************************************************************)
(* The facade: ContextStore.resolve                                        *)
(***************************************************************************)
\* A record of the context is used as it is.
Lookup(c) ==
  /\ pc[c] = "new"
  /\ IF mapped # NoCall
     THEN Goto(c, "have") /\ ws' = [ws EXCEPT ![c] = mapped]
     ELSE Goto(c, "locking") /\ UNCHANGED ws
  /\ UNCHANGED <<result, mapped, mapAge, lock, meta>> /\ Facade

\* SET NX: the lock is taken; while it is held the record is polled, until the
\* deadline.
TakeLock(c) ==
  /\ pc[c] = "locking"
  /\ \/ lock = NoCall /\ lock' = c /\ Goto(c, "locked") /\ UNCHANGED <<ws, result>>
     \/ /\ lock # NoCall /\ mapped # NoCall
        /\ Goto(c, "have") /\ ws' = [ws EXCEPT ![c] = mapped] /\ UNCHANGED <<lock, result>>
     \/ lock # NoCall /\ Return(c, "error") /\ UNCHANGED <<lock, ws>>
  /\ UNCHANGED <<mapped, mapAge, meta>> /\ Facade

\* Under the lock the record is read again before a workspace is made up.
ProvisionAtOnce(c) ==
  /\ pc[c] = "locked"
  /\ Goto(c, "ensuring") /\ ws' = [ws EXCEPT ![c] = c]
  /\ UNCHANGED <<result, mapped, mapAge, lock, meta>> /\ Facade
Provision(c) ==
  /\ pc[c] = "locked"
  /\ IF mapped # NoCall
     THEN Goto(c, "releasing") /\ ws' = [ws EXCEPT ![c] = mapped]
     ELSE Goto(c, "ensuring") /\ ws' = [ws EXCEPT ![c] = c]
  /\ UNCHANGED <<result, mapped, mapAge, lock, meta>> /\ Facade

\* context/ensure fails or is refused: the lock is released, the call fails.
ProvisionFails(c) ==
  /\ "bridge" \in Acts /\ pc[c] = "ensuring"
  /\ Goto(c, "failing")
  /\ UNCHANGED <<ws, result, mapped, mapAge, lock, meta>> /\ Facade

\* HSET of the record, EXPIRE in a second command.
StoreRecord(c) ==
  /\ pc[c] = "storing"
  /\ \/ mapped' = ws[c] /\ mapAge' = NoExpiry /\ Goto(c, "expiring")
     \/ "redis" \in Acts /\ Goto(c, "failing") /\ UNCHANGED <<mapped, mapAge>>
  /\ UNCHANGED <<ws, result, lock, meta>> /\ Facade
ExpireRecord(c) ==
  /\ pc[c] = "expiring"
  /\ \/ mapAge' = 0 /\ Goto(c, "releasing")
     \/ "redis" \in Acts /\ Goto(c, "failing") /\ UNCHANGED mapAge
  /\ UNCHANGED <<ws, result, mapped, lock, meta>> /\ Facade

\* Compare-and-delete: only the owner's lock goes.
ReleaseLock(c) == lock' = IF lock = c THEN NoCall ELSE lock

Unlock(c) ==
  /\ pc[c] = "releasing"
  /\ ReleaseLock(c) /\ Goto(c, "have")
  /\ UNCHANGED <<ws, result, mapped, mapAge, meta>> /\ Facade
UnlockFailed(c) ==
  /\ pc[c] = "failing"
  /\ ReleaseLock(c) /\ Return(c, "error")
  /\ UNCHANGED <<ws, mapped, mapAge, meta>> /\ Facade

\* The lock lives 15 seconds, an ensure up to 310.
LockExpires ==
  /\ "slow" \in Acts /\ lock # NoCall
  /\ lock' = NoCall
  /\ UNCHANGED call /\ UNCHANGED disk /\ UNCHANGED gc
  /\ UNCHANGED <<mapped, mapAge, meta, now, ticked, link, wrote, caught>>

(***************************************************************************)
(* The bridge in the execution service                                     *)
(***************************************************************************)
\* contextOf: the workspace is created if it is not there, then marked.
InitWipes(c) ==
  /\ pc[c] \in {"ensuring", "have"}
  /\ content' = [content EXCEPT ![ws[c]] = "empty"]
  /\ Goto(c, IF pc[c] = "ensuring" THEN "ensured" ELSE "opened")
  /\ UNCHANGED <<marker, wrote, caught>> /\ InExec
InitWorkspace(c) ==
  /\ pc[c] \in {"ensuring", "have"}
  /\ content' = [content EXCEPT ![ws[c]] = IF @ = "absent" THEN "empty" ELSE @]
  /\ Goto(c, IF pc[c] = "ensuring" THEN "ensured" ELSE "opened")
  /\ UNCHANGED <<marker, wrote, caught>> /\ InExec
Touch(c) ==
  /\ pc[c] \in {"ensured", "opened"}
  /\ marker' = [marker EXCEPT ![ws[c]] = 0]
  /\ caught' = IF judged = ws[c] THEN caught \cup {judged} ELSE caught \ {ws[c]}
  /\ Goto(c, IF pc[c] = "ensured" THEN "storing" ELSE "running")
  /\ UNCHANGED <<content, wrote>> /\ InExec

\* The tools.  A failure is an answer of the bridge the facade rethrows: the
\* record of the context is not touched.
Fail(c) == Return(c, "error") /\ UNCHANGED <<op, ws, lock, mapped, mapAge, meta, link, now, ticked>> /\ UNCHANGED gc
Wrote(c) ==
  /\ content' = [content EXCEPT ![ws[c]] = "data"]
  /\ wrote' = wrote \cup {ws[c]}
  /\ Goto(c, "touching") /\ UNCHANGED <<marker, caught>> /\ InExec

\* files/write, and python/execute and shell/execute that leave a file behind.
FileWrite(c) == pc[c] = "running" /\ op[c] = "write" /\ Wrote(c)
\* files/upload with overwrite=false.
FileUpload(c) ==
  /\ pc[c] = "running" /\ op[c] = "upload"
  /\ \/ content[ws[c]] # "data" /\ Wrote(c)
     \/ content[ws[c]] = "data" /\ Fail(c) /\ UNCHANGED <<content, marker, wrote, caught>>
\* files/read, files/list, files/search.
FileRead(c) ==
  /\ pc[c] = "running" /\ op[c] = "read"
  /\ \/ content[ws[c]] = "data" /\ Goto(c, "touching") /\ UNCHANGED <<content, marker, wrote, caught>> /\ InExec
     \/ content[ws[c]] # "data" /\ Fail(c) /\ UNCHANGED <<content, marker, wrote, caught>>
FileDelete(c) ==
  /\ pc[c] = "running" /\ op[c] = "delete"
  /\ \/ /\ content[ws[c]] = "data"
        /\ content' = [content EXCEPT ![ws[c]] = "empty"] /\ wrote' = wrote \ {ws[c]}
        /\ Goto(c, "touching") /\ UNCHANGED <<marker, caught>> /\ InExec
     \/ content[ws[c]] # "data" /\ Fail(c) /\ UNCHANGED <<content, marker, wrote, caught>>
\* artifacts/submit: a snapshot outside the workspace.
ArtifactSubmit(c) ==
  /\ pc[c] = "running" /\ op[c] = "submit"
  /\ \/ content[ws[c]] = "data" /\ Goto(c, "touching") /\ UNCHANGED <<content, marker, wrote, caught>> /\ InExec
     \/ content[ws[c]] # "data" /\ Fail(c) /\ UNCHANGED <<content, marker, wrote, caught>>

\* ContextStore.touch after the answer: EXPIRE of a record that is gone does
\* nothing; a Redis error fails the call although the tool ran.
TouchRecord(c) ==
  /\ pc[c] = "touching"
  /\ \/ /\ mapAge' = 0
        /\ IF op[c] = "submit" THEN Goto(c, "linking") /\ UNCHANGED result ELSE Return(c, "ok")
     \/ "redis" \in Acts /\ Return(c, "error") /\ UNCHANGED mapAge
  /\ UNCHANGED <<ws, mapped, lock, meta>> /\ Facade

\* artifactSubmit: the expiry of the link is computed, then the metadata is
\* stored for the same time.
LinkAfterwards(c) ==
  /\ pc[c] = "linking"
  /\ meta' = now + LinkTtl /\ link' = now + LinkTtl + 1
  /\ Return(c, "ok")
  /\ UNCHANGED <<op, ws, mapped, mapAge, lock, content, marker, now, ticked, wrote, caught>> /\ UNCHANGED gc
PutArtifact(c) ==
  /\ pc[c] = "linking"
  /\ meta' = now + LinkTtl /\ link' \in (now..(now + LinkTtl)) \ {0}
  /\ Return(c, "ok")
  /\ UNCHANGED <<op, ws, mapped, mapAge, lock, content, marker, now, ticked, wrote, caught>> /\ UNCHANGED gc

(***************************************************************************)
(* The collector                                                           *)
(***************************************************************************)
Collector == UNCHANGED call /\ UNCHANGED redis /\ UNCHANGED <<now, ticked, link, caught>>
InProgress == {c \in Calls : pc[c] \notin {"new", "done"}}
Idle == InProgress = {}

SweepStart ==
  /\ gcStep = "idle" /\ sweeps < MaxSweeps
  /\ gcStep' = "looking" /\ sweep' = {w \in Calls : marker[w] # Unmarked} /\ sweeps' = sweeps + 1
  /\ UNCHANGED <<judged, content, marker, wrote>> /\ Collector

\* stat of the marker: gone or young markers are passed over.
JudgeAll(w) ==
  /\ gcStep = "looking" /\ w \in sweep
  /\ sweep' = sweep \ {w}
  /\ IF marker[w] # Unmarked
     THEN gcStep' = "removing" /\ judged' = w
     ELSE UNCHANGED <<gcStep, judged>>
  /\ UNCHANGED <<sweeps, content, marker, wrote>> /\ Collector
Judge(w) ==
  /\ gcStep = "looking" /\ w \in sweep
  /\ sweep' = sweep \ {w}
  /\ IF marker[w] # Unmarked /\ marker[w] > Ttl
     THEN gcStep' = "removing" /\ judged' = w
     ELSE UNCHANGED <<gcStep, judged>>
  /\ UNCHANGED <<sweeps, content, marker, wrote>> /\ Collector

\* removeWorkspace, then the marker; a removal that fails keeps the marker.
RemoveUnmarkFirst ==
  /\ gcStep = "removing"
  /\ marker' = [marker EXCEPT ![judged] = Unmarked]
  /\ \/ content' = [content EXCEPT ![judged] = "absent"] /\ wrote' = wrote \ {judged}
     \/ "rm" \in Acts /\ UNCHANGED <<content, wrote>>
  /\ gcStep' = "looking" /\ judged' = NoCall
  /\ UNCHANGED <<sweep, sweeps>> /\ Collector
RemoveWorkspace ==
  /\ gcStep = "removing"
  /\ \/ /\ content' = [content EXCEPT ![judged] = "absent"]
        /\ wrote' = wrote \ {judged}
        /\ gcStep' = "unlinking" /\ UNCHANGED judged
     \/ "rm" \in Acts /\ gcStep' = "looking" /\ judged' = NoCall /\ UNCHANGED <<content, wrote>>
  /\ UNCHANGED <<sweep, sweeps, marker>> /\ Collector
UnlinkKeepsJudged ==
  /\ gcStep = "unlinking"
  /\ marker' = [marker EXCEPT ![judged] = Unmarked]
  /\ gcStep' = "looking"
  /\ UNCHANGED <<judged, sweep, sweeps, content, wrote>> /\ Collector
UnlinkMarker ==
  /\ gcStep = "unlinking"
  /\ marker' = [marker EXCEPT ![judged] = Unmarked]
  /\ gcStep' = "looking" /\ judged' = NoCall
  /\ UNCHANGED <<sweep, sweeps, content, wrote>> /\ Collector
SweepEnd ==
  /\ gcStep = "looking" /\ sweep = {}
  /\ gcStep' = "idle"
  /\ UNCHANGED <<sweep, judged, sweeps, content, marker, wrote>> /\ Collector

(***************************************************************************)
(* Time and restarts                                                       *)
(***************************************************************************)
\* Records older than their time to live are gone from Redis.
Older(a) == IF a = NoExpiry THEN a ELSE a + 1
Tick ==
  /\ now < MaxTicks /\ ticked \cap InProgress = {}
  /\ now' = now + 1 /\ ticked' = ticked \cup InProgress
  /\ marker' = [w \in Calls |-> Older(marker[w])]
  /\ IF mapped # NoCall /\ Older(mapAge) > Ttl /\ mapAge # NoExpiry
     THEN mapped' = NoCall /\ mapAge' = 0
     ELSE mapAge' = (IF mapped = NoCall THEN mapAge ELSE Older(mapAge)) /\ UNCHANGED mapped
  /\ meta' = IF meta < now + 1 THEN 0 ELSE meta
  /\ UNCHANGED call /\ UNCHANGED gc /\ UNCHANGED <<lock, content, link, wrote, caught>>

Done == Idle /\ gcStep = "idle" /\ UNCHANGED vars

CallStep(c) ==
  \/ Lookup(c) \/ TakeLock(c) \/ Provision(c) \/ ProvisionFails(c) \/ StoreRecord(c)
  \/ ExpireRecord(c) \/ Unlock(c) \/ UnlockFailed(c) \/ InitWorkspace(c) \/ Touch(c)
  \/ FileWrite(c) \/ FileUpload(c) \/ FileRead(c) \/ FileDelete(c) \/ ArtifactSubmit(c)
  \/ TouchRecord(c) \/ PutArtifact(c)
SweepStep ==
  \/ SweepStart \/ RemoveWorkspace \/ UnlinkMarker \/ SweepEnd
  \/ \E w \in Calls : Judge(w)

Next == \/ \E c \in Calls : CallStep(c)
        \/ SweepStep \/ LockExpires \/ Tick \/ Done

Spec == Init /\ [][Next]_vars

-----------------------------------------------------------------------------
(* Properties *)

TypeOK ==
  /\ pc \in [Calls -> Steps] /\ op \in [Calls -> Ops] /\ ws \in [Calls -> Calls \cup {NoCall}]
  /\ result \in [Calls -> {"none", "ok", "error"}]
  /\ mapped \in Calls \cup {NoCall} /\ lock \in Calls \cup {NoCall}
  /\ mapAge \in 0..NoExpiry /\ marker \in [Calls -> 0..Unmarked]
  /\ content \in [Calls -> {"absent", "empty", "data"}]
  /\ sweep \subseteq Calls /\ judged \in Calls \cup {NoCall}
  /\ gcStep \in {"idle", "looking", "removing", "unlinking"}
  /\ (gcStep \in {"removing", "unlinking"}) <=> judged # NoCall
  /\ caught \subseteq Calls

\* The collector removes only what has been idle for longer than the time to
\* live, at the moment it removes it: a mark made before it looks keeps the
\* workspace.  A mark made after it has looked does not: the age it read before
\* the removal is awaited is not read again.
ActiveKept ==
  \A w \in Calls :
    content[w] # "absent" /\ content'[w] = "absent" => marker[w] > Ttl \/ w \in caught

\* What a successful write left in a workspace is there until a delete or the
\* collector takes it away.
WritesKept == \A w \in wrote : content[w] = "data"

\* A workspace no call is using can be found by the collector, except one that
\* a call made again and marked while the collector was removing it: the marker
\* that goes last is the new one.
Reclaimable ==
  Idle /\ gcStep = "idle" =>
    \A w \in Calls : content[w] # "absent" => marker[w] # Unmarked \/ w \in caught

\* A download link that has not expired has its metadata.
LinkWorks == link # 0 /\ now <= link => meta # 0

=============================================================================
