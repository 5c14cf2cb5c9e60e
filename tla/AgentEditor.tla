----------------------------- MODULE AgentEditor -----------------------------
(***************************************************************************)
(* The page on which an administrator edits the configuration of the       *)
(* organization's agents (frontend pages/settings/AgentsPage.tsx and       *)
(* agentHelpers.ts).  One text is edited at a time, for the agent that is  *)
(* selected; drafts of the others wait in draftByAgentRef.  Lists, version *)
(* lines, validations and saves are requests answered later.               *)
(*                                                                         *)
(* A text is told apart by the agent it was loaded or written for, the     *)
(* version it started from and the last edit in it (0: none).              *)
(***************************************************************************)
EXTENDS Naturals, Sequences, FiniteSets

CONSTANTS Agents, First,
          MaxEdits, MaxVersions,   \* bounds, the latter for each agent
          MaxHurried               \* bound on the agents the user does not wait for
EditorAssumption == /\ First \in Agents
                    /\ MaxEdits \in Nat /\ MaxVersions \in [Agents -> Nat]
                    /\ MaxHurried \in Nat

VARIABLES server,     \* the active version of each agent
          shown,      \* active_version_id as the page knows it
          sel,        \* selectedAgentId
          lines,      \* whose versions are loaded, and how far
          draft,      \* configDraft
          saved,      \* draftByAgentRef
          load,       \* the current request of loadVersions
          refreshing, \* the current request of refresh
          checked,    \* validation.status is valid
          write,      \* the save or activation under way (mutationRef)
          edits,      \* edits made
          unsaved,    \* by agent: the last edit the user has not saved or dropped
          published,  \* by agent: the texts saved for it
          hurried     \* history: the agents for which something happened before
                      \* the page had read them

editorVars == <<server, shown, sel, lines, draft, saved, load, refreshing, checked, write, edits, unsaved, published, hurried>>
backend == <<server, published>>

Text(a, v, e) == [of |-> a, ver |-> v, edit |-> e]
NoText == Text(First, 0, 0)
NoLoad == [on |-> FALSE, agent |-> First, preserve |-> FALSE, restore |-> NoText]
NoRefresh == [on |-> FALSE, agent |-> First, preserve |-> FALSE]
NoWrite == [phase |-> "none", kind |-> "none", agent |-> First, text |-> NoText, expected |-> 0, got |-> 0]

EditorTypeOK ==
  /\ \A a \in Agents : /\ server[a] \in 1..MaxVersions[a] /\ shown[a] \in 1..server[a]
                       /\ unsaved[a] \in 0..edits /\ saved[a].edit \in 0..edits
  /\ hurried \subseteq Agents /\ sel \in Agents /\ draft.edit \in 0..edits /\ checked \in BOOLEAN
  /\ lines.agent \in Agents /\ lines.top \in 1..server[lines.agent]
  /\ write.phase \in {"none", "validating", "sent", "saved", "conflict"}
  /\ write.got <= server[write.agent]

EditorInit ==
  /\ server = [a \in Agents |-> 1] /\ shown = server
  /\ sel = First /\ lines = [agent |-> First, top |-> 1] /\ draft = Text(First, 1, 0)
  /\ saved = [a \in Agents |-> NoText] /\ load = NoLoad /\ refreshing = NoRefresh
  /\ checked = FALSE /\ write = NoWrite /\ edits = 0
  /\ unsaved = [a \in Agents |-> 0] /\ published = [a \in Agents |-> {}]
  /\ hurried = {}

-----------------------------------------------------------------------------
Mutating == write.phase # "none"

(* activeVersionOf finds nothing while the versions of another agent are   *)
(* loaded, and a text differs from nothing.                                *)
ActiveKnown == lines.agent = sel /\ shown[sel] <= lines.top
IsConfigDraftChanged == ~(ActiveKnown /\ draft = Text(sel, shown[sel], 0))
CanPublish == ~Mutating /\ IsConfigDraftChanged /\ checked

(* The page of an agent is ready when its versions have been read and its  *)
(* text is there.  Nothing keeps the user from acting before, nor the      *)
(* answer to a write from arriving: hurried is the history of it.          *)
Ready == ~load.on /\ ~refreshing.on /\ lines.agent = sel /\ draft.of = sel
ActsFor(S) ==
  /\ hurried' = IF Ready THEN hurried ELSE hurried \cup S
  /\ Cardinality(hurried') <= MaxHurried
UserActs == ActsFor({sel})
AnswerActs == IF sel = write.agent THEN ActsFor({sel}) ELSE UNCHANGED hurried

(* The user types.                                                         *)
Edit ==
  /\ ActsFor({sel, draft.of}) /\ ~Mutating /\ edits < MaxEdits
  /\ edits' = edits + 1 /\ draft' = [draft EXCEPT !.edit = edits + 1]
  /\ unsaved' = [unsaved EXCEPT ![draft.of] = edits + 1] /\ checked' = FALSE
  /\ UNCHANGED <<backend, shown, sel, lines, saved, load, refreshing, write>>

(* The effect that validates the text 300 ms after the last change.        *)
Validated ==
  /\ ~checked /\ checked' = TRUE
  /\ UNCHANGED <<backend, shown, sel, lines, draft, saved, load, refreshing, write, edits, unsaved, hurried>>

DiscardDraft ==
  /\ UserActs /\ ~Mutating /\ IsConfigDraftChanged
  /\ draft' = IF ActiveKnown THEN Text(sel, shown[sel], 0) ELSE Text(sel, 0, 0)
  /\ saved' = [saved EXCEPT ![sel] = NoText] /\ checked' = FALSE
  /\ unsaved' = [unsaved EXCEPT ![sel] = 0]
  /\ UNCHANGED <<backend, shown, sel, lines, load, refreshing, write, edits>>

(* loadVersions: a later request makes the earlier one's answer ignored.   *)
LoadVersions(a, preserve, restore) ==
  load' = [on |-> TRUE, agent |-> a, preserve |-> preserve, restore |-> restore]

Dropped(s, a) == s
KeptDraft(s, a) == IF IsConfigDraftChanged THEN [s EXCEPT ![a] = draft] ELSE s
SelectAgent(b) ==
  /\ UserActs /\ b # sel
  /\ saved' = KeptDraft(saved, sel) /\ sel' = b /\ checked' = FALSE
  /\ LoadVersions(b, saved[b] # NoText, saved[b])
  /\ UNCHANGED <<backend, shown, lines, draft, refreshing, write, edits, unsaved>>

LoadAnswered ==
  LET a == load.agent IN
  /\ load.on /\ load' = NoLoad
  /\ lines' = [agent |-> a, top |-> server[a]] /\ shown' = [shown EXCEPT ![a] = server[a]]
  /\ draft' = CASE ~load.preserve -> Text(a, server[a], 0)
                [] load.preserve /\ load.restore # NoText /\ sel = a -> load.restore
                [] OTHER -> draft
  /\ checked' = FALSE
  /\ UNCHANGED <<backend, sel, saved, refreshing, write, edits, unsaved, hurried>>

LoadFails ==
  /\ load.on /\ load' = NoLoad
  /\ UNCHANGED <<backend, shown, sel, lines, draft, saved, refreshing, checked, write, edits, unsaved, hurried>>

Refresh(preserve) == refreshing' = [on |-> TRUE, agent |-> sel, preserve |-> preserve]
RefreshClicked ==
  /\ ~refreshing.on /\ UserActs
  /\ Refresh(IsConfigDraftChanged)
  /\ UNCHANGED <<backend, shown, sel, lines, draft, saved, load, checked, write, edits, unsaved>>

RefreshAnswered ==
  /\ refreshing.on /\ refreshing' = NoRefresh /\ shown' = server
  /\ IF sel = refreshing.agent THEN LoadVersions(sel, refreshing.preserve, NoText) ELSE UNCHANGED load
  /\ UNCHANGED <<backend, sel, lines, draft, saved, checked, write, edits, unsaved, hurried>>

-----------------------------------------------------------------------------
(* saveAsNewVersion(true) and activate: what they snapshot, the checks     *)
(* after the validation came back, and the answers.  What is shown as      *)
(* active goes along as expected_active_version_id.                        *)
SaveAsNewVersion ==
  /\ UserActs /\ CanPublish
  /\ write' = [phase |-> "validating", kind |-> "save", agent |-> sel, text |-> draft, expected |-> shown[sel], got |-> 0]
  /\ UNCHANGED <<backend, shown, sel, lines, draft, saved, load, refreshing, checked, edits, unsaved>>

Activate ==
  /\ UserActs /\ ~Mutating /\ lines.agent = sel /\ lines.top > 1
  /\ write' = [phase |-> "sent", kind |-> "activate", agent |-> sel, text |-> draft, expected |-> shown[sel], got |-> 0]
  /\ UNCHANGED <<backend, shown, sel, lines, draft, saved, load, refreshing, checked, edits, unsaved>>

Unmoved == draft = write.text /\ sel = write.agent /\ shown[sel] = write.expected
ValidatedForWrite ==
  /\ write.phase = "validating"
  /\ write' = IF Unmoved THEN [write EXCEPT !.phase = "sent"] ELSE NoWrite
  /\ UNCHANGED <<backend, shown, sel, lines, draft, saved, load, refreshing, checked, edits, unsaved, hurried>>

(* The agent service publishes the text, moves the active version back, or *)
(* answers 409; another administrator publishes.  An activation is modelled*)
(* as a new active version.                                                *)
Skipped(a) == server[a] + 3
NewVersion(a) == server[a] + 1
Publish(a) == server[a] < MaxVersions[a] /\ server' = [server EXCEPT ![a] = NewVersion(a)]
ServerWrites ==
  LET a == write.agent IN
  /\ write.phase = "sent"
  /\ IF server[a] = write.expected
     THEN /\ Publish(a) /\ write' = [write EXCEPT !.phase = "saved", !.got = NewVersion(a)]
          /\ published' = [published EXCEPT ![a] = IF write.kind = "save" THEN @ \cup {write.text} ELSE @]
          /\ unsaved' = [unsaved EXCEPT ![a] = IF write.kind = "save" /\ @ = write.text.edit THEN 0 ELSE @]
     ELSE /\ write' = [write EXCEPT !.phase = "conflict"] /\ UNCHANGED <<server, published, unsaved>>
  /\ UNCHANGED <<shown, sel, lines, draft, saved, load, refreshing, checked, edits, hurried>>

OtherAdmin(a) ==
  /\ Publish(a)
  /\ UNCHANGED <<published, shown, sel, lines, draft, saved, load, refreshing, checked, write, edits, unsaved, hurried>>

SaveAnswered ==
  LET same == write.kind = "save" /\ draft = write.text /\ sel = write.agent IN
  /\ write.phase = "saved" /\ AnswerActs /\ write' = NoWrite
  /\ draft' = IF same THEN Text(sel, write.got, 0) ELSE draft
  /\ saved' = IF same THEN [saved EXCEPT ![sel] = NoText] ELSE saved
  /\ IF sel = write.agent THEN Refresh(TRUE) ELSE UNCHANGED refreshing
  /\ UNCHANGED <<backend, shown, sel, lines, load, checked, edits, unsaved>>

CurrentDraft == draft
RefusedDraft == write.text
ConflictAnswered ==
  /\ write.phase = "conflict" /\ AnswerActs /\ write' = NoWrite
  /\ IF sel = write.agent
     THEN Refresh(TRUE) /\ UNCHANGED saved              \* the text stays as it is
     ELSE saved' = [saved EXCEPT ![write.agent] = RefusedDraft] /\ UNCHANGED refreshing
  /\ checked' = FALSE
  /\ UNCHANGED <<backend, shown, sel, lines, draft, load, edits, unsaved>>

EditorNext ==
  \/ Edit \/ Validated \/ DiscardDraft \/ \E b \in Agents : SelectAgent(b)
  \/ LoadAnswered \/ LoadFails \/ RefreshClicked \/ RefreshAnswered
  \/ SaveAsNewVersion \/ Activate \/ ValidatedForWrite \/ ServerWrites
  \/ \E a \in Agents : OtherAdmin(a)
  \/ SaveAnswered \/ ConflictAnswered
EditorSpec == EditorInit /\ [][EditorNext]_editorVars

-----------------------------------------------------------------------------
(* What is saved for an agent was written for that agent, and so is the    *)
(* draft that waits for it (draftByAgentRef is a cache per agent), unless  *)
(* the user acted for it while the page was still reading or held the text *)
(* of another agent: selectAgent changes the agent at once and the text    *)
(* only with the answer.                                                   *)
DraftsApart ==
  \A a \in Agents \ hurried : /\ saved[a] # NoText => saved[a].of = a
                              /\ \A t \in published[a] : t.of = a

(* An edit the user neither saved nor discarded is on the page or in the   *)
(* cache of its agent, whatever was selected, refreshed or refused since,  *)
(* with the same exception.                                                *)
EditsKept ==
  \A a \in Agents \ hurried : unsaved[a] # 0 =>
     \/ draft.of = a /\ draft.edit = unsaved[a]
     \/ saved[a].of = a /\ saved[a].edit = unsaved[a]
=============================================================================
