------------------------------ MODULE OrgSkills ------------------------------
(***************************************************************************)
(* The skills an organisation shares: users ask for an enabled version to  *)
(* be shared (SkillShareService over SkillShareRequestRepository), admins  *)
(* approve, reject, upload, deprecate and revoke (OrgSkillAdminService),   *)
(* versions live in a ledger (OrgSkillRepository) and their bytes in a     *)
(* directory per digest (org-publish, enablement), and a collector runs    *)
(* after every admin operation (org-gc) against agent versions that pin    *)
(* digests (agent-version-skill-ref-repository).                           *)
(*                                                                         *)
(* One organisation and one skill name: the races of this code are all     *)
(* about one name.  An admin's request is a sequence of steps (each a      *)
(* transaction or a pass over the disk), so that two of them interleave.   *)
(***************************************************************************)
EXTENDS Naturals, FiniteSets, Sequences

CONSTANTS Users,        \* the members who enable and share
          Admins,       \* the admins, each with one HTTP request at a time
          StatusAdmins, \* the admins who deprecate and revoke
          Digests,      \* content digests of versions of the name
          NoOne,        \* no user, no digest
          MaxRequests,  \* bound: share requests ever made
          MaxCalls,     \* bound: calls the admins make together
          MaxPins,      \* bound: AgentVersion saves that bind the name
          UserGc,       \* whether the users' own collector runs
          Ages          \* whether published bytes outlive the grace period

OrgSkillsAssumption ==
    /\ StatusAdmins \subseteq Admins
    /\ MaxRequests \in Nat /\ MaxCalls \in Nat /\ MaxPins \in Nat
    /\ UserGc \in BOOLEAN /\ Ages \in BOOLEAN
    /\ NoOne \notin Users \cup Digests \cup Admins

VARIABLES requests,  \* the share requests, in the order they were made
          versions,  \* the ledger: a row for each digest ever published
          current,   \* org_skills.current_digest
          disk,      \* the organisation's bytes: gone, fresh or past the grace
          enabled,   \* skill_enablements: what each user runs
          source,    \* <<user, digest>>: bytes in the user's published root
          pins,      \* digests some AgentVersion references
          editor,    \* a digest an AgentVersion save has validated
          calls,     \* the request each admin has under way
          made,      \* calls the admins have made
          warned,    \* digests the collector reported as raced
          blind,     \* digests pinned or made current with no bytes on disk
          abandoned, \* history: requests whose publication a crash cut off, or
                     \* could not be undone
          unchecked, \* history: digests a collector that died had removed
          raced      \* history: digests whose bytes a collection took after
                     \* another publication had found them there

vars == <<requests, versions, current, disk, enabled, source, pins, editor,
          calls, made, warned, blind, abandoned, unchecked, raced>>

history == <<abandoned, unchecked, raced>>

ledger == <<versions, current>>
members == <<enabled, source>>

RequestIds == 1 .. Len(requests)
Statuses == {"pending", "approved", "rejected", "withdrawn", "superseded"}

ShareRequestRow == [by : Users, digest : Digests, status : Statuses,
                    decidedBy : Users \cup Admins \cup {NoOne}]

\* A row of org_skill_versions; "none" is no row.  origin is the author the
\* row records, request the share request it came from (0 for an upload).
OrgSkillVersionRow ==
    [status : {"none", "active", "deprecated", "revoked"},
     origin : Users \cup Admins \cup {NoOne}, request : 0 .. MaxRequests]

NoVersion == [status |-> "none", origin |-> NoOne, request |-> 0]

\* What an admin's request carries between its steps.
Call == [step : {"idle", "copy", "ledger", "reopen", "status",
                 "refs", "pointers", "active", "delete", "recheck"},
         request : 0 .. MaxRequests, digest : Digests \cup {NoOne},
         setCurrent : BOOLEAN, status : {"none", "deprecated", "revoked"},
         keep : SUBSET Digests, removed : SUBSET Digests]

NoCall == [step |-> "idle", request |-> 0, digest |-> NoOne,
           setCurrent |-> FALSE, status |-> "none", keep |-> {},
           removed |-> {}]

Init ==
    /\ requests = << >>
    /\ versions = [d \in Digests |-> NoVersion]
    /\ current = NoOne
    /\ disk = [d \in Digests |-> "gone"]
    /\ enabled = [u \in Users |-> NoOne]
    /\ source = {}
    /\ pins = {}
    /\ editor = NoOne
    /\ calls = [a \in Admins |-> NoCall]
    /\ made = 0
    /\ warned = {}
    /\ blind = {}
    /\ abandoned = {}
    /\ unchecked = {}
    /\ raced = {}

Live(d) == versions[d].status \notin {"none", "revoked"}

-----------------------------------------------------------------------------
(* Members: enabling, asking for a share, withdrawing it. *)

\* reservedNamesForOrg with the author excluded: the name belongs to the
\* organisation unless every row not revoked is the user's own.
ReservedFor(u) == \E d \in Digests : Live(d) /\ versions[d].origin # u

\* The user's own enablement, whose store is the user root.
Enable(u, d) ==
    /\ ~ReservedFor(u)
    /\ enabled[u] # d
    /\ enabled' = [enabled EXCEPT ![u] = d]
    /\ source' = source \cup {<<u, d>>}
    /\ UNCHANGED <<requests, ledger, disk, pins, editor, calls, made, warned,
                   blind, history>>

\* The user's collector takes a version no longer enabled.
CollectUser(u, d) ==
    /\ UserGc
    /\ <<u, d>> \in source
    /\ enabled[u] # d
    /\ source' = source \ {<<u, d>>}
    /\ UNCHANGED <<requests, ledger, disk, enabled, pins, editor, calls, made,
                   warned, blind, history>>

\* Superseding writes a status the reader of the row does not know.
SupersededUnnamed(u) ==
    [r \in RequestIds |->
       IF requests[r].by = u /\ requests[r].status = "pending"
       THEN [requests[r] EXCEPT !.status = "replaced", !.decidedBy = u]
       ELSE requests[r]]

\* SkillShareRequestRepository.create: in one transaction the user's pending
\* requests for the name are superseded and the new one is inserted.
Superseded(u) ==
    [r \in RequestIds |->
       IF requests[r].by = u /\ requests[r].status = "pending"
       THEN [requests[r] EXCEPT !.status = "superseded", !.decidedBy = u]
       ELSE requests[r]]

RequestShare(u) ==
    /\ enabled[u] # NoOne
    /\ Len(requests) < MaxRequests
    /\ requests' = Append(Superseded(u),
                          [by |-> u, digest |-> enabled[u],
                           status |-> "pending", decidedBy |-> NoOne])
    /\ UNCHANGED <<ledger, disk, members, pins, editor, calls, made, warned,
                   blind, history>>

\* Withdrawal forgets to ask whether the request was decided.
WithdrawDecided(u, r) ==
    /\ requests[r].by = u
    /\ requests[r].status \in {"pending", "approved"}
    /\ requests' = [requests EXCEPT ![r].status = "withdrawn",
                                    ![r].decidedBy = u]
    /\ UNCHANGED <<ledger, disk, members, pins, editor, calls, made, warned,
                   blind, history>>

Withdraw(u, r) ==
    /\ requests[r].by = u
    /\ requests[r].status = "pending"
    /\ requests' = [requests EXCEPT ![r].status = "withdrawn",
                                    ![r].decidedBy = u]
    /\ UNCHANGED <<ledger, disk, members, pins, editor, calls, made, warned,
                   blind, history>>

-----------------------------------------------------------------------------
(* Admins: deciding a request and publishing what it names. *)

Free(a) == calls[a].step = "idle" /\ made < MaxCalls
Starts(a, call) == /\ calls' = [calls EXCEPT ![a] = call]
                   /\ made' = made + 1
Goes(a, step) == calls' = [calls EXCEPT ![a].step = step]
Ends(a) == calls' = [calls EXCEPT ![a] = NoCall]

\* #requirePendingInOrg and then decide, under the row's lock.
Decide(a, r, status) ==
    /\ requests[r].status = "pending"
    /\ requests' = [requests EXCEPT ![r].status = status, ![r].decidedBy = a]

Reject(a, r) ==
    /\ Free(a)
    /\ Decide(a, r, "rejected")
    /\ made' = made + 1
    /\ UNCHANGED <<ledger, disk, members, pins, editor, calls, warned, blind,
                   history>>

\* approve marks the request before it publishes, so a withdrawal that loses
\* the row finds it decided.
Approve(a, r, sets) ==
    /\ Free(a)
    /\ Decide(a, r, "approved")
    /\ Starts(a, [NoCall EXCEPT !.step = "copy", !.request = r,
                                !.digest = requests[r].digest,
                                !.setCurrent = sets])
    /\ UNCHANGED <<ledger, disk, members, pins, editor, warned, blind,
                   history>>

\* OrgSkillAdminService.upload: the archive is staged outside the store.
Upload(a, d, sets) ==
    /\ Free(a)
    /\ Starts(a, [NoCall EXCEPT !.step = "copy", !.digest = d,
                                !.setCurrent = sets])
    /\ UNCHANGED <<requests, ledger, disk, members, pins, editor, warned,
                   blind, history>>

Shares(a) == calls[a].request # 0
Sharer(a) == requests[calls[a].request].by

\* What follows an error of the publication: a share is reopened.
AfterFailure(a) == IF Shares(a) THEN Goes(a, "reopen") ELSE Ends(a)

\* publishDraftVersion into the organisation's root: the bytes come before
\* the ledger, and bytes that are already there are used with their old
\* sidecar.  The source of a share is the requester's published version.
CopyBytes(a) ==
    /\ calls[a].step = "copy"
    /\ IF Shares(a) /\ <<Sharer(a), calls[a].digest>> \notin source
       THEN AfterFailure(a) /\ UNCHANGED <<disk, raced>>
       ELSE /\ Goes(a, "ledger")
            /\ disk' = [disk EXCEPT ![calls[a].digest] =
                          IF @ = "gone" THEN "fresh" ELSE @]
            /\ raced' = raced \ {calls[a].digest}
    /\ UNCHANGED <<requests, ledger, members, pins, editor, made, warned,
                   blind, abandoned, unchecked>>

\* The author is checked on the row of the digest alone.
TakenDigest(a) == LET d == calls[a].digest
                  IN Shares(a) /\ Live(d) /\ versions[d].origin # Sharer(a)

\* publishVersion: under the name's lock, the author check of a share, the
\* row if there is none, and the pointer.
Taken(a) == /\ Shares(a)
            /\ \E d \in Digests : Live(d) /\ versions[d].origin # Sharer(a)

PublishVersion(a) ==
    LET d == calls[a].digest
        new == versions[d].status = "none"
    IN /\ calls[a].step = "ledger"
       /\ IF Taken(a) \/ versions[d].status = "revoked"
          THEN AfterFailure(a) /\ UNCHANGED ledger
          ELSE /\ versions' =
                    IF new
                    THEN [versions EXCEPT ![d] =
                            [status |-> "active",
                             origin |-> IF Shares(a) THEN Sharer(a) ELSE a,
                             request |-> calls[a].request]]
                    ELSE versions
               /\ current' =
                    IF calls[a].setCurrent \/ (new /\ current = NoOne)
                    THEN d ELSE current
               /\ IF Shares(a) THEN Ends(a) ELSE Goes(a, "refs")
       /\ blind' = IF current' # current /\ disk[d] = "gone"
                   THEN blind \cup {d} ELSE blind
       /\ UNCHANGED <<requests, disk, members, pins, editor, made, warned,
                      history>>

\* The copy or the transaction fails (disk full, the database away).
PublishFails(a) ==
    /\ calls[a].step \in {"copy", "ledger"}
    /\ AfterFailure(a)
    /\ UNCHANGED <<requests, ledger, disk, members, pins, editor, made, warned,
                   blind, history>>

\* The approval of a failed publication is left as it is.
LeaveApproval(a) ==
    /\ calls[a].step = "reopen"
    /\ Ends(a)
    /\ UNCHANGED <<requests, ledger, disk, members, pins, editor, made, warned,
                   blind, history>>

\* reopenApproval: pending again, if it is still this admin's approval.
ReopenApproval(a) ==
    LET r == calls[a].request
    IN /\ calls[a].step = "reopen"
       /\ requests' = IF requests[r].status = "approved"
                         /\ requests[r].decidedBy = a
                      THEN [requests EXCEPT ![r].status = "pending",
                                            ![r].decidedBy = NoOne]
                      ELSE requests
       /\ Ends(a)
       /\ UNCHANGED <<ledger, disk, members, pins, editor, made, warned, blind,
                      history>>

\* The process dies, or reopenApproval fails and its error is swallowed.
Crash(a) ==
    /\ calls[a].step # "idle"
    /\ Ends(a)
    /\ abandoned' = abandoned \cup ({calls[a].request} \ {0})
    /\ unchecked' = unchecked \cup calls[a].removed
    /\ UNCHANGED <<requests, ledger, disk, members, pins, editor, made, warned,
                   blind, raced>>

-----------------------------------------------------------------------------
(* Admins: the pointer and the status of a version. *)

\* setCurrent asks only that the version has a row.
SetCurrent(a, d) ==
    /\ Free(a)
    /\ versions[d].status # "none"
    /\ current' = d
    /\ blind' = IF current # d /\ disk[d] = "gone" THEN blind \cup {d}
                ELSE blind
    /\ Starts(a, [NoCall EXCEPT !.step = "refs"])
    /\ UNCHANGED <<requests, versions, disk, members, pins, editor, warned,
                   history>>

\* setStatus reads the row without a lock and refuses to leave "revoked"...
SetStatusRead(a, d, status) ==
    /\ a \in StatusAdmins
    /\ Free(a)
    /\ versions[d].status # "none"
    /\ versions[d].status = "revoked" => status = "revoked"
    /\ Starts(a, [NoCall EXCEPT !.step = "status", !.digest = d,
                                !.status = status])
    /\ UNCHANGED <<requests, ledger, disk, members, pins, editor, warned,
                   blind, history>>

\* ...and updates it by its id.
SetStatusWrite(a) ==
    /\ calls[a].step = "status"
    /\ versions' = [versions EXCEPT ![calls[a].digest].status =
                                      calls[a].status]
    /\ Goes(a, "refs")
    /\ UNCHANGED <<requests, current, disk, members, pins, editor, made,
                   warned, blind, history>>

-----------------------------------------------------------------------------
(* collectStaleOrgSkillVersions, after every admin operation. *)

Keeps(a, next, digests) ==
    calls' = [calls EXCEPT ![a].step = next,
                           ![a].keep = calls[a].keep \cup digests]

ActiveDigests == {d \in Digests : versions[d].status = "active"}

ReadRefs(a) ==
    /\ calls[a].step = "refs"
    /\ Keeps(a, "pointers", pins)
    /\ UNCHANGED <<requests, ledger, disk, members, pins, editor, made, warned,
                   blind, history>>

ReadPointers(a) ==
    /\ calls[a].step = "pointers"
    /\ Keeps(a, "active", {current} \ {NoOne})
    /\ UNCHANGED <<requests, ledger, disk, members, pins, editor, made, warned,
                   blind, history>>

\* The collector keeps what is referenced and current only.
KeepNoActive(a) ==
    /\ calls[a].step = "active"
    /\ Keeps(a, "delete", {})
    /\ UNCHANGED <<requests, ledger, disk, members, pins, editor, made, warned,
                   blind, history>>

ReadActive(a) ==
    /\ calls[a].step = "active"
    /\ Keeps(a, "delete", ActiveDigests)
    /\ UNCHANGED <<requests, ledger, disk, members, pins, editor, made, warned,
                   blind, history>>

\* What another publication has found on disk since the collector read what
\* to keep: it is in the ledger by now, or will be.
Published(a, d) ==
    \/ versions[d].status = "active"
    \/ \E b \in Admins \ {a} : calls[b].step = "ledger" /\ calls[b].digest = d

\* collectStaleSkillVersions: what is not kept and past the grace period.
Stale(a) == {d \in Digests : disk[d] = "old" /\ d \notin calls[a].keep}

DeleteStale(a) ==
    /\ calls[a].step = "delete"
    /\ disk' = [d \in Digests |-> IF d \in Stale(a) THEN "gone" ELSE disk[d]]
    /\ IF Stale(a) = {} THEN Ends(a)
       ELSE calls' = [calls EXCEPT ![a].step = "recheck",
                                   ![a].removed = Stale(a)]
    /\ raced' = raced \cup {d \in Stale(a) : Published(a, d)}
    /\ UNCHANGED <<requests, ledger, members, pins, editor, made, warned,
                   blind, abandoned, unchecked>>

\* The recheck asks for the pointer only.
RacedCurrentOnly(a) ==
    /\ calls[a].step = "recheck"
    /\ warned' = warned \cup (calls[a].removed \cap {current})
    /\ Ends(a)
    /\ UNCHANGED <<requests, ledger, disk, members, pins, editor, made, blind,
                   history>>

\* racedAfterDeletion, and the warning of #collect.
RacedAfterDeletion(a) ==
    /\ calls[a].step = "recheck"
    /\ warned' = warned \cup (calls[a].removed \cap (pins \cup {current}))
    /\ Ends(a)
    /\ UNCHANGED <<requests, ledger, disk, members, pins, editor, made, blind,
                   history>>

\* Time passes for a published directory; the grace period (a day) is far
\* longer than a request, so it does not end within one.
Age(d) ==
    /\ Ages
    /\ \A a \in Admins : calls[a].step = "idle"
    /\ disk[d] = "fresh"
    /\ disk' = [disk EXCEPT ![d] = "old"]
    /\ UNCHANGED <<requests, ledger, members, pins, editor, calls, made,
                   warned, blind, history>>

-----------------------------------------------------------------------------
(* Agent versions. *)

\* validateSkillPolicySemantics: only an active version may be bound.
ValidateBinding(d) ==
    /\ editor = NoOne /\ Cardinality(pins) < MaxPins
    /\ versions[d].status = "active"
    /\ d \notin pins
    /\ editor' = d
    /\ UNCHANGED <<requests, ledger, disk, members, pins, calls, made, warned,
                   blind, history>>

\* insertForVersion, with the AgentVersion the save creates.
InsertRef ==
    /\ editor # NoOne
    /\ pins' = pins \cup {editor}
    /\ blind' = IF disk[editor] = "gone" THEN blind \cup {editor} ELSE blind
    /\ editor' = NoOne
    /\ UNCHANGED <<requests, ledger, disk, members, calls, made, warned,
                   history>>

Members ==
    \/ \E u \in Users, d \in Digests : Enable(u, d) \/ CollectUser(u, d)
    \/ \E u \in Users : RequestShare(u)
    \/ \E u \in Users, r \in RequestIds : Withdraw(u, r)

Publication(a) ==
    \/ \E r \in RequestIds : Reject(a, r) \/ \E s \in BOOLEAN : Approve(a, r, s)
    \/ \E d \in Digests, s \in BOOLEAN : Upload(a, d, s)
    \/ CopyBytes(a) \/ PublishVersion(a) \/ PublishFails(a)
    \/ ReopenApproval(a) \/ Crash(a)

Management(a) ==
    \/ \E d \in Digests : SetCurrent(a, d)
    \/ \E d \in Digests, s \in {"deprecated", "revoked"} :
         SetStatusRead(a, d, s)
    \/ SetStatusWrite(a)
    \/ ReadRefs(a) \/ ReadPointers(a) \/ ReadActive(a)
    \/ DeleteStale(a) \/ RacedAfterDeletion(a)

Next ==
    \/ Members
    \/ \E a \in Admins : Publication(a) \/ Management(a)
    \/ \E d \in Digests : Age(d) \/ ValidateBinding(d)
    \/ InsertRef

Spec == Init /\ [][Next]_vars

-----------------------------------------------------------------------------

TypeOK ==
    /\ requests \in Seq(ShareRequestRow)
    /\ versions \in [Digests -> OrgSkillVersionRow]
    /\ current \in Digests \cup {NoOne}
    /\ disk \in [Digests -> {"gone", "fresh", "old"}]
    /\ enabled \in [Users -> Digests \cup {NoOne}]
    /\ source \subseteq Users \X Digests
    /\ pins \subseteq Digests
    /\ editor \in Digests \cup {NoOne}
    /\ calls \in [Admins -> Call]
    /\ made \in 0 .. MaxCalls
    /\ warned \subseteq Digests
    /\ blind \subseteq Digests
    /\ abandoned \subseteq RequestIds
    /\ unchecked \cup raced \subseteq Digests

\* A version an organisation shares on behalf of a member comes from a
\* request the member has not taken back: approve marks the request decided
\* before it publishes, and reopens it only when nothing was published.
ConsentStands ==
    \A d \in Digests :
      versions[d].request # 0 =>
        requests[versions[d].request].status = "approved"

\* Members' versions of one name that may be loaded have one author:
\* publishVersion checks the author inside the name's lock, and a name is
\* free for another only when all its versions are revoked.
OneAuthor ==
    \A d, e \in Digests :
      /\ Live(d) /\ Live(e)
      /\ versions[d].request # 0 /\ versions[e].request # 0
      => versions[d].origin = versions[e].origin

\* An approved request is published or being published: the request is not
\* left approved with nothing in the organisation's ledger, unless a crash
\* cut its publication off or the approval could not be reopened.
ApprovedIsPublished ==
    \A r \in RequestIds :
      requests[r].status = "approved" =>
        \/ versions[requests[r].digest].status # "none"
        \/ \E a \in Admins : calls[a].step # "idle" /\ calls[a].request = r
        \/ r \in abandoned

\* A version an AgentVersion may be bound to has its bytes on disk, unless
\* another administrator's collection took them after it had read what to
\* keep and after the publication had found them there.
BindableHasBytes ==
    \A d \in Digests :
      versions[d].status = "active" => disk[d] # "gone" \/ d \in raced

Collecting(d) == \E a \in Admins : calls[a].step = "recheck"
                                   /\ d \in calls[a].removed

\* Bytes the collector took from under a pin or the pointer are reported:
\* the check after the deletion sees whatever was bound or pointed at since
\* the collector read what to keep.  A collector that dies in between
\* reports nothing.
LossIsReported ==
    \A d \in Digests :
      d \in pins \cup {current} /\ disk[d] = "gone" =>
        d \in warned \cup blind \cup unchecked \/ Collecting(d)

==============================================================================
