-------------------------------- MODULE Members --------------------------------
(***************************************************************************)
(* The roles of the members of an organization                             *)
(* (application/member-role-service.ts over member-role-repository.ts) and *)
(* the profile a user edits (browser-auth-service.ts, updateProfile).      *)
(*                                                                         *)
(* A role change is a transaction under REPEATABLE READ: what it reads     *)
(* without a lock is the snapshot of its first read, what it locks, inserts*)
(* or deletes is current.  A profile change is no transaction: it checks   *)
(* what it read and writes later.                                          *)
(***************************************************************************)
EXTENDS Naturals, FiniteSets, FiniteSetTheorems, TLAPS

CONSTANTS People,     \* members of the organization
          Pinned,     \* those the deployment names as administrators
          Changes,    \* role changes
          Patches     \* profile changes, of one user
MembersAssumption == Pinned \subseteq People /\ IsFiniteSet(People) /\ "none" \notin Changes

VARIABLES roles,    \* per member: the roles held
          last,     \* per member and role: the action of the last event
          pinned,   \* the deployment's list, as the process read it
          lock,     \* the change that locked the administrator rows
          change,   \* per role change: where it is
          grant,    \* members with a deployment grant on its way
          profile,  \* the user's email and notify_run_complete
          patch     \* per profile change: where it is, and (history) whether another
                    \* change wrote since this one was asked for

memVars == <<roles, last, pinned, lock, change, grant, profile, patch>>

Roles == {"admin", "reviewer"}
None == "none"
AdminsIn(r) == {m \in People : "admin" \in r[m]}
NoChange == [pc |-> "idle", op |-> None, m |-> None, role |-> None, seen |-> {}, admins |-> 0]
NoPatch == [pc |-> "idle", email |-> None, notify |-> None, overtaken |-> FALSE]

MembersTypeOK ==
  /\ roles \in [People -> SUBSET Roles] /\ last \in [People -> [Roles -> {None, "grant", "revoke"}]]
  /\ pinned \subseteq Pinned /\ grant \subseteq Pinned
  /\ lock \in Changes \cup {None}
  /\ \A c \in Changes : /\ change[c].pc \in {"idle", "allowed", "begun", "locked", "done", "last_admin", "pinned"}
                        /\ (change[c].pc = "locked") = (lock = c)
                        /\ change[c].admins \in 0..Cardinality(People)
  /\ profile \in [email : BOOLEAN, notify : BOOLEAN]
  /\ \A p \in Patches : patch[p].pc \in {"idle", "valid", "checked", "refused", "done"}

MembersInit ==
  /\ roles = [m \in People |-> {}] /\ last = [m \in People |-> [r \in Roles |-> None]]
  /\ pinned = Pinned /\ lock = None /\ grant = {}
  /\ change = [c \in Changes |-> NoChange]
  /\ profile = [email |-> FALSE, notify |-> FALSE]
  /\ patch = [p \in Patches |-> NoPatch]

profileVars == <<profile, patch>>
End(c, pc) == change' = [change EXCEPT ![c] = [NoChange EXCEPT !.pc = pc]]
Record(m, r, action) == last' = [last EXCEPT ![m][r] = action]

-----------------------------------------------------------------------------
(* #adminOwner: the roles the request came with, so an administrator whose *)
(* role is taken away meanwhile goes on.                                   *)
Ask(c, actor, op, m, r) ==
  /\ change[c].pc = "idle" /\ "admin" \in roles[actor]
  /\ change' = [change EXCEPT ![c] = [NoChange EXCEPT !.pc = "allowed", !.op = op, !.m = m, !.role = r]]
  /\ UNCHANGED <<roles, last, pinned, lock, grant, profileVars>>

(* getMember, which fixes the snapshot, and the deployment's lock.         *)
Begin(c) ==
  LET x == change[c]
  IN /\ x.pc = "allowed"
     /\ IF x.op = "revoke" /\ x.role = "admin" /\ x.m \in pinned THEN End(c, "pinned")
        ELSE change' = [change EXCEPT ![c].pc = "begun", ![c].seen = roles[x.m]]
     /\ UNCHANGED <<roles, last, pinned, lock, grant, profileVars>>

(* insertGrant: the snapshot, then the unique key.  The event is written   *)
(* with the row.                                                           *)
InsertGrant(m, r) ==
  IF r \in roles[m] THEN UNCHANGED <<roles, last>>
  ELSE roles' = [roles EXCEPT ![m] = @ \cup {r}] /\ Record(m, r, "grant")

GrantRole(c) ==
  LET x == change[c]
  IN /\ x.pc = "begun" /\ x.op = "grant"
     /\ IF x.role \in x.seen THEN UNCHANGED <<roles, last>> ELSE InsertGrant(x.m, x.role)
     /\ End(c, "done")
     /\ UNCHANGED <<pinned, lock, grant, profileVars>>

(* listAdminUserIds FOR UPDATE: one change at a time holds the rows, and   *)
(* the count is current.                                                   *)
LockUnheld(c) == UNCHANGED lock
TakeLock(c) == lock = None /\ lock' = c
LockAdmins(c) ==
  /\ change[c].pc = "begun" /\ change[c].op = "revoke" /\ TakeLock(c)
  /\ change' = [change EXCEPT ![c].pc = "locked", ![c].admins = Cardinality(AdminsIn(roles))]
  /\ UNCHANGED <<roles, last, pinned, grant, profileVars>>

(* The rest of revokeRole: the roles of the snapshot, the last             *)
(* administrator, deleteGrant and the event if a row was deleted.          *)
DeleteUnrecorded(m, r) == roles' = [roles EXCEPT ![m] = @ \ {r}] /\ UNCHANGED last
DeleteGrant(m, r) ==
  IF r \notin roles[m] THEN UNCHANGED <<roles, last>>
  ELSE roles' = [roles EXCEPT ![m] = @ \ {r}] /\ Record(m, r, "revoke")

RevokeRole(c) ==
  LET x == change[c]
  IN /\ x.pc = "locked" /\ lock' = IF lock = c THEN None ELSE lock
     /\ IF x.role \notin x.seen THEN End(c, "done") /\ UNCHANGED <<roles, last>>
        ELSE IF x.role = "admin" /\ x.admins <= 1 THEN End(c, "last_admin") /\ UNCHANGED <<roles, last>>
        ELSE DeleteGrant(x.m, x.role) /\ End(c, "done")
     /\ UNCHANGED <<pinned, grant, profileVars>>

(* ensureDeploymentGrant, on every request of a local session: the roles   *)
(* are read, then the grant is inserted in a transaction of its own.       *)
MissingGrant(m) ==
  /\ m \in pinned /\ "admin" \notin roles[m] /\ m \notin grant /\ grant' = grant \cup {m}
  /\ UNCHANGED <<roles, last, pinned, lock, change, profileVars>>

EnsureDeploymentGrant(m) ==
  /\ m \in grant /\ grant' = grant \ {m} /\ InsertGrant(m, "admin")
  /\ UNCHANGED <<pinned, lock, change, profileVars>>

(* The process restarts with a shorter list: the grants stay.              *)
Unpin(m) ==
  /\ m \in pinned /\ pinned' = pinned \ {m}
  /\ UNCHANGED <<roles, last, lock, change, grant, profileVars>>

-----------------------------------------------------------------------------
roleVars == <<roles, last, pinned, lock, change, grant>>

(* updateProfile up to the check of the switches: the address is the one   *)
(* of this request, or the one authenticated() read.                       *)
AskPatch(p, e, n) ==
  LET email == IF e = None THEN profile.email ELSE e = "set"
  IN /\ patch[p].pc = "idle" /\ (e # None \/ n # None)
     /\ patch' = [patch EXCEPT ![p] =
          IF n = "on" /\ ~email THEN [NoPatch EXCEPT !.pc = "refused"]
          ELSE [pc |-> IF e = "clear" THEN "valid" ELSE "checked", email |-> e, notify |-> n,
                overtaken |-> FALSE]]
     /\ UNCHANGED <<roleVars, profile>>

(* Clearing the address needs run-complete mail off, in the store or in    *)
(* this request.                                                           *)
MayAlwaysClear(p) == TRUE
MayClear(p) == ~(IF patch[p].notify = None THEN profile.notify ELSE patch[p].notify = "on")
CheckPrefs(p) ==
  /\ patch[p].pc = "valid"
  /\ patch' = [patch EXCEPT ![p] = IF MayClear(p) THEN [@ EXCEPT !.pc = "checked"] ELSE [NoPatch EXCEPT !.pc = "refused"]]
  /\ UNCHANGED <<roleVars, profile>>

(* AuthCredentialRepository.updateProfile: both tables in one transaction. *)
WriteProfile(p) ==
  LET x == patch[p]
  IN /\ x.pc = "checked"
     /\ patch' = [q \in Patches |-> IF q = p THEN [NoPatch EXCEPT !.pc = "done"]
                                   ELSE [patch[q] EXCEPT !.overtaken = @ \/ patch[q].pc \in {"valid", "checked"}]]
     /\ profile' = [email |-> IF x.email = None THEN profile.email ELSE x.email = "set",
                    notify |-> IF x.notify = None THEN profile.notify ELSE x.notify = "on"]
     /\ UNCHANGED roleVars

(* A session goes on: a change that is over makes room for the next.       *)
Again ==
  \/ \E c \in Changes : /\ change[c].pc \in {"done", "last_admin", "pinned"} /\ End(c, "idle")
                        /\ UNCHANGED <<roles, last, pinned, lock, grant, profileVars>>
  \/ \E p \in Patches : /\ patch[p].pc \in {"refused", "done"} /\ patch' = [patch EXCEPT ![p] = NoPatch]
                        /\ UNCHANGED <<roleVars, profile>>

MembersNext ==
  \/ \E c \in Changes :
       \/ \E a, m \in People, op \in {"grant", "revoke"}, r \in Roles : Ask(c, a, op, m, r)
       \/ Begin(c) \/ GrantRole(c) \/ LockAdmins(c) \/ RevokeRole(c)
  \/ \E m \in People : MissingGrant(m) \/ EnsureDeploymentGrant(m) \/ Unpin(m)
  \/ \E p \in Patches :
       \/ \E e \in {None, "set", "clear"}, n \in {None, "on", "off"} : AskPatch(p, e, n)
       \/ CheckPrefs(p) \/ WriteProfile(p)
  \/ Again

MembersSpec == MembersInit /\ [][MembersNext]_memVars

-----------------------------------------------------------------------------
(* Once the organization has an administrator it always has one: of two    *)
(* administrators who take the role from each other, one is refused.       *)
AdminRemains == AdminsIn(roles) # {} => AdminsIn(roles') # {}

(* The audit trail tells who holds what: a role is held exactly when its   *)
(* last event is a grant.                                                  *)
EventsTell == \A m \in People, r \in Roles : (r \in roles[m]) = (last[m][r] = "grant")

(* The run-complete switch gets on without an address only by a change     *)
(* that another one overtook between its checks and its write: what a      *)
(* change checked is good for its own write, however the two halves of a   *)
(* profile are combined in one request or in several (updateProfile).      *)
Reachable(p) == p.notify => p.email
NotifyHasEmail ==
  Reachable(profile) /\ ~Reachable(profile') =>
    \E p \in Patches : patch[p].pc = "checked" /\ patch'[p].pc = "done" /\ patch[p].overtaken

-----------------------------------------------------------------------------
(* Why AdminRemains and EventsTell hold: the inductive invariant.          *)
ChangeRecords == [pc : {"idle", "allowed", "begun", "locked", "done", "last_admin", "pinned"},
                  op : {None, "grant", "revoke"}, m : People \cup {None}, role : Roles \cup {None},
                  seen : SUBSET Roles, admins : Nat]
Open(c) == change[c].pc \in {"allowed", "begun", "locked"}
ChangesOK ==
  /\ change \in [Changes -> ChangeRecords]
  /\ \A c \in Changes : Open(c) => change[c].m \in People /\ change[c].role \in Roles

(* While a change holds the lock, the administrators it counted are still  *)
(* that many: others can be added, and it alone can take one away.         *)
CountStands ==
  \A c \in Changes : change[c].pc = "locked" => change[c].admins <= Cardinality(AdminsIn(roles))

PatchRecords == [pc : {"idle", "valid", "checked", "refused", "done"},
                 email : {None, "set", "clear"}, notify : {None, "on", "off"},
                 overtaken : BOOLEAN]

MembersInv ==
  MembersTypeOK /\ ChangesOK /\ CountStands /\ patch \in [Patches -> PatchRecords] /\ EventsTell

(* What a step does to the roles: nothing, a grant, or a revocation by the *)
(* holder of the lock.                                                     *)
Granted(m, r) == roles' = [roles EXCEPT ![m] = @ \cup {r}] /\ Record(m, r, "grant")
Revoked(c, m, r) ==
  /\ change[c].pc = "locked" /\ (r = "admin" => 1 < change[c].admins)
  /\ roles' = [roles EXCEPT ![m] = @ \ {r}] /\ Record(m, r, "revoke")
  /\ change'[c].pc = "done" /\ \A e \in Changes : e # c => change'[e] = change[e]
RolesStep ==
  \/ UNCHANGED <<roles, last>>
  \/ \E m \in People, r \in Roles : Granted(m, r)
  \/ \E c \in Changes, m \in People, r \in Roles : Revoked(c, m, r)

LEMMA AdminsFinite ==
  ASSUME MembersAssumption, NEW f
  PROVE  /\ IsFiniteSet(AdminsIn(f)) /\ Cardinality(AdminsIn(f)) \in 0..Cardinality(People)
  <1>1. IsFiniteSet(People) /\ AdminsIn(f) \in SUBSET People
    BY DEF MembersAssumption, AdminsIn
  <1>2. IsFiniteSet(AdminsIn(f)) /\ Cardinality(AdminsIn(f)) <= Cardinality(People)
    BY <1>1, FS_Subset
  <1> QED BY <1>1, <1>2, FS_CardinalityType

(* A grant adds administrators or none, a revocation takes one at most.    *)
LEMMA GrantAdds ==
  ASSUME MembersAssumption, MembersTypeOK, NEW m \in People, NEW r \in Roles, Granted(m, r)
  PROVE  /\ AdminsIn(roles) \subseteq AdminsIn(roles')
         /\ Cardinality(AdminsIn(roles)) <= Cardinality(AdminsIn(roles'))
  <1>1. AdminsIn(roles) \subseteq AdminsIn(roles')
    BY DEF Granted, AdminsIn, MembersTypeOK
  <1> QED BY <1>1, AdminsFinite, FS_Subset

LEMMA RevokeTakesOne ==
  ASSUME MembersAssumption, MembersTypeOK, NEW m \in People, NEW r \in Roles,
         roles' = [roles EXCEPT ![m] = @ \ {r}]
  PROVE  \/ AdminsIn(roles') = AdminsIn(roles)
         \/ r = "admin" /\ AdminsIn(roles') = AdminsIn(roles) \ {m}
  <1>1. CASE r = "admin"
    <2>1. AdminsIn(roles') = AdminsIn(roles) \ {m}
      BY <1>1 DEF AdminsIn, MembersTypeOK
    <2> QED BY <1>1, <2>1
  <1>2. CASE r # "admin"
    BY <1>2 DEF AdminsIn, MembersTypeOK
  <1> QED BY <1>1, <1>2

(* The promise about a step, from what a step does.                        *)
LEMMA StepKeepsAdmin ==
  ASSUME MembersAssumption, MembersInv, RolesStep
  PROVE  AdminRemains
  <1> USE DEF MembersInv
  <1>1. CASE UNCHANGED <<roles, last>> BY <1>1 DEF AdminRemains
  <1>2. CASE \E m \in People, r \in Roles : Granted(m, r)
    BY <1>2, GrantAdds DEF AdminRemains
  <1>3. ASSUME NEW c \in Changes, NEW m \in People, NEW r \in Roles, Revoked(c, m, r)
        PROVE  AdminRemains
    <2>1. CASE AdminsIn(roles') = AdminsIn(roles) BY <2>1 DEF AdminRemains
    <2>2. CASE r = "admin" /\ AdminsIn(roles') = AdminsIn(roles) \ {m}
      <3>1. 1 < change[c].admins /\ change[c].admins <= Cardinality(AdminsIn(roles))
        BY <1>3, <2>2 DEF Revoked, CountStands
      <3>2. change[c].admins \in Nat BY DEF ChangesOK, ChangeRecords
      <3>3. Cardinality(AdminsIn(roles)) \in Nat BY AdminsFinite DEF MembersTypeOK
      <3>4. Cardinality(AdminsIn(roles')) # 0
        BY <2>2, <3>1, <3>2, <3>3, AdminsFinite, FS_RemoveElement
      <3> QED BY <3>4, FS_EmptySet DEF AdminRemains
    <2> QED BY <1>3, <2>1, <2>2, RevokeTakesOne DEF Revoked
  <1> QED BY <1>1, <1>2, <1>3 DEF RolesStep

(* Every step is such a step.                                              *)
LEMMA NextIsRolesStep ==
  ASSUME MembersAssumption, MembersInv, [MembersNext]_memVars
  PROVE  RolesStep
  <1> USE DEF MembersInv
  <1>1. ASSUME NEW c \in Changes, GrantRole(c) PROVE RolesStep
    <2>1. change[c].m \in People /\ change[c].role \in Roles
      BY <1>1 DEF GrantRole, ChangesOK, Open
    <2>2. UNCHANGED <<roles, last>> \/ Granted(change[c].m, change[c].role)
      BY <1>1 DEF GrantRole, InsertGrant, Granted
    <2> QED BY <2>1, <2>2 DEF RolesStep
  <1>2. ASSUME NEW c \in Changes, RevokeRole(c) PROVE RolesStep
    <2>1. change[c].m \in People /\ change[c].role \in Roles /\ change[c].admins \in Nat
      BY <1>2 DEF RevokeRole, ChangesOK, Open, ChangeRecords
    <2>2. CASE UNCHANGED <<roles, last>> BY <2>2 DEF RolesStep
    <2>3. CASE ~UNCHANGED <<roles, last>>
      <3>1. /\ change[c].pc = "locked" /\ (change[c].role = "admin" => ~(change[c].admins <= 1))
            /\ DeleteGrant(change[c].m, change[c].role) /\ End(c, "done")
        BY <1>2, <2>3 DEF RevokeRole
      <3>2. change'[c].pc = "done" /\ \A e \in Changes : e # c => change'[e] = change[e]
        BY <3>1 DEF End, NoChange, ChangesOK
      <3>3. Revoked(c, change[c].m, change[c].role)
        BY <2>1, <2>3, <3>1, <3>2 DEF DeleteGrant, Revoked
      <3> QED BY <2>1, <3>3 DEF RolesStep
    <2> QED BY <2>2, <2>3
  <1>3. ASSUME NEW m \in People, EnsureDeploymentGrant(m) PROVE RolesStep
    <2>1. UNCHANGED <<roles, last>> \/ Granted(m, "admin")
      BY <1>3 DEF EnsureDeploymentGrant, InsertGrant, Granted
    <2> QED BY <2>1 DEF RolesStep, Roles
  <1>4. ASSUME NEW c \in Changes, Begin(c) \/ LockAdmins(c) PROVE RolesStep
    BY <1>4 DEF Begin, LockAdmins, RolesStep
  <1>5. ASSUME NEW c \in Changes, NEW a, NEW m, NEW op, NEW r, Ask(c, a, op, m, r) PROVE RolesStep
    BY <1>5 DEF Ask, RolesStep
  <1>6. ASSUME NEW m \in People, MissingGrant(m) \/ Unpin(m) PROVE RolesStep
    BY <1>6 DEF MissingGrant, Unpin, RolesStep
  <1>7. ASSUME NEW q \in Patches, CheckPrefs(q) \/ WriteProfile(q) PROVE RolesStep
    BY <1>7 DEF CheckPrefs, WriteProfile, roleVars, RolesStep
  <1>8. ASSUME NEW q \in Patches, NEW e, NEW n, AskPatch(q, e, n) PROVE RolesStep
    BY <1>8 DEF AskPatch, roleVars, RolesStep
  <1>9. CASE Again BY <1>9 DEF Again, roleVars, RolesStep
  <1>10. CASE UNCHANGED memVars BY <1>10 DEF memVars, RolesStep
  <1> QED BY <1>1, <1>2, <1>3, <1>4, <1>5, <1>6, <1>7, <1>8, <1>9, <1>10 DEF MembersNext

(* The audit trail follows the roles.                                      *)
LEMMA StepKeepsEvents ==
  ASSUME MembersTypeOK, EventsTell, RolesStep PROVE EventsTell'
  <1>1. ASSUME NEW m \in People, NEW r \in Roles, Granted(m, r) PROVE EventsTell'
    BY <1>1 DEF Granted, Record, EventsTell, MembersTypeOK
  <1>2. ASSUME NEW c \in Changes, NEW m \in People, NEW r \in Roles, Revoked(c, m, r) PROVE EventsTell'
    BY <1>2 DEF Revoked, Record, EventsTell, MembersTypeOK
  <1>3. CASE UNCHANGED <<roles, last>> BY <1>3 DEF EventsTell
  <1> QED BY <1>1, <1>2, <1>3 DEF RolesStep

(* What a step does to the changes.                                        *)
ChangeStep(c) ==
  \/ change'[c] = change[c] /\ (lock' = c) = (lock = c)
  \/ /\ lock' # c /\ change'[c].pc # "locked" /\ change'[c] \in ChangeRecords
     /\ Open(c)' => change'[c].m \in People /\ change'[c].role \in Roles
     /\ change'[c].admins \in {0, change[c].admins}
  \/ /\ lock' = c /\ change'[c].pc = "locked" /\ change'[c] \in ChangeRecords
     /\ change'[c].m \in People /\ change'[c].role \in Roles
     /\ UNCHANGED roles /\ change'[c].admins = Cardinality(AdminsIn(roles))

LEMMA ChangeEdit ==
  ASSUME NEW y \in ChangeRecords, NEW S \in SUBSET Roles, NEW k \in Nat
  PROVE  /\ [y EXCEPT !.pc = "begun", !.seen = S] \in ChangeRecords
         /\ [y EXCEPT !.pc = "locked", !.admins = k] \in ChangeRecords
  BY DEF ChangeRecords

LEMMA NextIsChangeStep ==
  ASSUME MembersAssumption, MembersInv, [MembersNext]_memVars
  PROVE  /\ DOMAIN change' = Changes /\ change' = [e \in Changes |-> change'[e]]
         /\ \A e \in Changes : ChangeStep(e)
         /\ lock' \in Changes \cup {None}
  <1> DEFINE Goal == /\ DOMAIN change' = Changes /\ change' = [e \in Changes |-> change'[e]]
                     /\ \A e \in Changes : ChangeStep(e)
                     /\ lock' \in Changes \cup {None}
  <1> USE DEF MembersInv
  <1>0. /\ change \in [Changes -> ChangeRecords] /\ lock \in Changes \cup {None} /\ None \notin Changes
        /\ \A c \in Changes : (change[c].pc = "locked") = (lock = c)
    BY DEF ChangesOK, MembersTypeOK, MembersAssumption, None
  <1>1. ASSUME UNCHANGED <<change, lock>> PROVE Goal
    BY <1>0, <1>1 DEF ChangeStep
  <1>2. ASSUME NEW c \in Changes, NEW pc \in {"idle", "done", "last_admin", "pinned"},
               End(c, pc), lock' = IF lock = c THEN None ELSE lock
        PROVE  Goal
    <2>1. change'[c] = [NoChange EXCEPT !.pc = pc] /\ [NoChange EXCEPT !.pc = pc] \in ChangeRecords
      BY <1>0, <1>2 DEF End, NoChange, ChangeRecords
    <2>2. ChangeStep(c)
      BY <1>0, <1>2, <2>1 DEF ChangeStep, Open, NoChange
    <2>3. \A e \in Changes : e # c => change'[e] = change[e] /\ (lock' = e) = (lock = e)
      BY <1>0, <1>2 DEF End
    <2>4. \A e \in Changes : e # c => ChangeStep(e) BY <2>3 DEF ChangeStep
    <2>5. DOMAIN change' = Changes /\ change' = [e \in Changes |-> change'[e]] BY <1>0, <1>2 DEF End
    <2>6. lock' \in Changes \cup {None} BY <1>0, <1>2
    <2> QED BY <2>2, <2>4, <2>5, <2>6
  <1>3. ASSUME NEW c \in Changes, NEW a, NEW m \in People, NEW op \in {"grant", "revoke"}, NEW r \in Roles,
               Ask(c, a, op, m, r)
        PROVE  Goal
    <2> DEFINE x == [NoChange EXCEPT !.pc = "allowed", !.op = op, !.m = m, !.role = r]
    <2>1. change' = [change EXCEPT ![c] = x] /\ lock' = lock /\ change[c].pc = "idle"
      BY <1>3 DEF Ask
    <2>2. x \in ChangeRecords /\ x.pc = "allowed" /\ x.m = m /\ x.role = r /\ x.admins = 0
      BY DEF NoChange, ChangeRecords
    <2> HIDE DEF x
    <2>3. ChangeStep(c) BY <1>0, <2>1, <2>2 DEF ChangeStep
    <2>4. \A e \in Changes : e # c => ChangeStep(e) BY <1>0, <2>1 DEF ChangeStep
    <2> QED BY <1>0, <2>1, <2>3, <2>4
  <1>4. ASSUME NEW c \in Changes, Begin(c) PROVE Goal
    <2> DEFINE x == [change[c] EXCEPT !.pc = "begun", !.seen = roles[change[c].m]]
    <2>0. change[c].pc = "allowed" /\ lock' = lock /\ lock # c BY <1>0, <1>4 DEF Begin
    <2>1. CASE End(c, "pinned") BY <1>2, <2>0, <2>1
    <2>2. CASE ~End(c, "pinned")
      <3>1. change' = [change EXCEPT ![c] = x]
        BY <1>0, <1>4, <2>2 DEF Begin
      <3>2. change[c].m \in People /\ change[c].role \in Roles /\ roles[change[c].m] \in SUBSET Roles
        BY <2>0 DEF ChangesOK, Open, MembersTypeOK
      <3>3. /\ x \in ChangeRecords /\ x.pc = "begun" /\ x.m = change[c].m /\ x.role = change[c].role
            /\ x.admins = change[c].admins
        <4>1. x \in ChangeRecords BY <1>0, <3>2, ChangeEdit
        <4> QED BY <1>0, <4>1 DEF ChangeRecords
      <3> HIDE DEF x
      <3>4. ChangeStep(c) BY <1>0, <2>0, <3>1, <3>2, <3>3 DEF ChangeStep
      <3>5. \A e \in Changes : e # c => ChangeStep(e) BY <1>0, <2>0, <3>1 DEF ChangeStep
      <3> QED BY <1>0, <2>0, <3>1, <3>4, <3>5
    <2> QED BY <2>1, <2>2
  <1>5. ASSUME NEW c \in Changes, LockAdmins(c) PROVE Goal
    <2> DEFINE x == [change[c] EXCEPT !.pc = "locked", !.admins = Cardinality(AdminsIn(roles))]
    <2>1. change' = [change EXCEPT ![c] = x] /\ change[c].pc = "begun" /\ lock = None /\ lock' = c
      BY <1>0, <1>5 DEF LockAdmins, TakeLock
    <2>2. change[c].m \in People /\ change[c].role \in Roles /\ Cardinality(AdminsIn(roles)) \in Nat
      BY <2>1, AdminsFinite DEF ChangesOK, Open
    <2>3. /\ x \in ChangeRecords /\ x.pc = "locked" /\ x.m = change[c].m /\ x.role = change[c].role
          /\ x.admins = Cardinality(AdminsIn(roles))
      <3>1. x \in ChangeRecords BY <1>0, <2>2, ChangeEdit
      <3> QED BY <1>0, <3>1 DEF ChangeRecords
    <2> HIDE DEF x
    <2>4. ChangeStep(c) BY <1>0, <1>5, <2>1, <2>2, <2>3 DEF ChangeStep, LockAdmins
    <2>5. \A e \in Changes : e # c => ChangeStep(e) BY <1>0, <2>1 DEF ChangeStep
    <2> QED BY <1>0, <2>1, <2>4, <2>5
  <1>6. ASSUME NEW c \in Changes, GrantRole(c) PROVE Goal
    BY <1>0, <1>2, <1>6 DEF GrantRole
  <1>7. ASSUME NEW c \in Changes, RevokeRole(c) PROVE Goal
    BY <1>2, <1>7 DEF RevokeRole
  <1>8. ASSUME Again PROVE Goal
    BY <1>0, <1>1, <1>2, <1>8 DEF Again, roleVars
  <1>9. ASSUME NEW m \in People, MissingGrant(m) \/ EnsureDeploymentGrant(m) \/ Unpin(m) PROVE Goal
    BY <1>1, <1>9 DEF MissingGrant, EnsureDeploymentGrant, Unpin
  <1>10. ASSUME NEW q \in Patches, CheckPrefs(q) \/ WriteProfile(q) PROVE Goal
    BY <1>1, <1>10 DEF CheckPrefs, WriteProfile, roleVars
  <1>11. ASSUME NEW q \in Patches, NEW e, NEW n, AskPatch(q, e, n) PROVE Goal
    BY <1>1, <1>11 DEF AskPatch, roleVars
  <1>12. ASSUME UNCHANGED memVars PROVE Goal
    BY <1>1, <1>12 DEF memVars
  <1> HIDE DEF Goal
  <1>13. ASSUME NEW c \in Changes,
                \/ \E a, m \in People, op \in {"grant", "revoke"}, r \in Roles : Ask(c, a, op, m, r)
                \/ Begin(c) \/ GrantRole(c) \/ LockAdmins(c) \/ RevokeRole(c)
         PROVE  Goal
    BY <1>3, <1>4, <1>5, <1>6, <1>7, <1>13
  <1>14. Goal
    BY <1>8, <1>9, <1>10, <1>11, <1>12, <1>13 DEF MembersNext
  <1> QED BY <1>14 DEF Goal

LEMMA ProfileTypes ==
  ASSUME MembersInv, [MembersNext]_memVars
  PROVE  profile' \in [email : BOOLEAN, notify : BOOLEAN] /\ patch' \in [Patches -> PatchRecords]
  <1> DEFINE Goal == profile' \in [email : BOOLEAN, notify : BOOLEAN] /\ patch' \in [Patches -> PatchRecords]
  <1>0. /\ profile \in [email : BOOLEAN, notify : BOOLEAN] /\ patch \in [Patches -> PatchRecords]
        /\ NoPatch \in PatchRecords
    BY DEF MembersInv, MembersTypeOK, NoPatch, PatchRecords
  <1>1. ASSUME NEW q \in Patches, NEW e \in {None, "set", "clear"}, NEW n \in {None, "on", "off"},
               AskPatch(q, e, n)
        PROVE  Goal
    <2> DEFINE no == [NoPatch EXCEPT !.pc = "refused"]
               yes == [pc |-> IF e = "clear" THEN "valid" ELSE "checked", email |-> e, notify |-> n,
                       overtaken |-> FALSE]
    <2>0. no \in PatchRecords /\ yes \in PatchRecords
      BY DEF PatchRecords, NoPatch
    <2>1. \E x \in PatchRecords : patch' = [patch EXCEPT ![q] = x]
      <3>1. patch' = [patch EXCEPT ![q] = no] \/ patch' = [patch EXCEPT ![q] = yes]
        BY <1>1 DEF AskPatch
      <3> QED BY <2>0, <3>1
    <2> QED BY <1>0, <1>1, <2>1 DEF AskPatch
  <1>2. ASSUME NEW q \in Patches, CheckPrefs(q) PROVE Goal
    <2>0. /\ [patch[q] EXCEPT !.pc = "checked"] \in PatchRecords
          /\ [NoPatch EXCEPT !.pc = "refused"] \in PatchRecords
      BY <1>0 DEF PatchRecords
    <2>1. \E x \in PatchRecords : patch' = [patch EXCEPT ![q] = x]
      <3>1. CASE MayClear(q) BY <1>0, <1>2, <2>0, <3>1 DEF CheckPrefs
      <3>2. CASE ~MayClear(q) BY <1>2, <2>0, <3>2 DEF CheckPrefs
      <3> QED BY <3>1, <3>2
    <2> QED BY <1>0, <1>2, <2>1 DEF CheckPrefs
  <1>3. ASSUME NEW q \in Patches, WriteProfile(q) PROVE Goal
    <2>1. patch' \in [Patches -> PatchRecords]
      <3>1. \A x \in PatchRecords, b \in BOOLEAN : [x EXCEPT !.overtaken = b] \in PatchRecords
        BY DEF PatchRecords
      <3>2. [NoPatch EXCEPT !.pc = "done"] \in PatchRecords BY DEF PatchRecords, NoPatch
      <3>3. ASSUME NEW p \in Patches PROVE patch[p].overtaken \in BOOLEAN
        BY <1>0 DEF PatchRecords
      <3>4. \A p \in Patches :
              [patch[p] EXCEPT !.overtaken = @ \/ patch[p].pc \in {"valid", "checked"}] \in PatchRecords
        BY <1>0, <3>1, <3>3
      <3> QED BY <1>3, <3>2, <3>4 DEF WriteProfile
    <2>2. \E b, c \in BOOLEAN : profile' = [email |-> b, notify |-> c]
      BY <1>0, <1>3 DEF WriteProfile
    <2> QED BY <1>0, <2>1, <2>2
  <1>4. ASSUME Again PROVE Goal
    BY <1>0, <1>4 DEF Again, profileVars
  <1>5. ASSUME UNCHANGED profileVars PROVE Goal BY <1>0, <1>5 DEF profileVars
  <1>6. ASSUME NEW c \in Changes,
               \/ \E a, m \in People, op \in {"grant", "revoke"}, r \in Roles : Ask(c, a, op, m, r)
               \/ Begin(c) \/ GrantRole(c) \/ LockAdmins(c) \/ RevokeRole(c)
        PROVE  UNCHANGED profileVars
    BY <1>6 DEF Ask, Begin, GrantRole, LockAdmins, RevokeRole
  <1>7. ASSUME NEW m \in People, MissingGrant(m) \/ EnsureDeploymentGrant(m) \/ Unpin(m)
        PROVE  UNCHANGED profileVars
    BY <1>7 DEF MissingGrant, EnsureDeploymentGrant, Unpin
  <1>8. UNCHANGED memVars => UNCHANGED profileVars BY DEF memVars, profileVars
  <1> HIDE DEF Goal
  <1>9. Goal BY <1>1, <1>2, <1>3, <1>4, <1>5, <1>6, <1>7, <1>8 DEF MembersNext
  <1> QED BY <1>9 DEF Goal

LEMMA MembersTypes ==
  ASSUME MembersAssumption, MembersInv, [MembersNext]_memVars
  PROVE  MembersTypeOK' /\ ChangesOK' /\ CountStands'
  <1> USE DEF MembersInv
  <1>1. RolesStep BY NextIsRolesStep
  <1>2. /\ change' = [e \in Changes |-> change'[e]] /\ lock' \in Changes \cup {None}
        /\ \A e \in Changes : ChangeStep(e)
    BY NextIsChangeStep
  <1>3. ASSUME NEW e \in Changes
        PROVE  /\ change'[e] \in ChangeRecords
               /\ Open(e)' => change'[e].m \in People /\ change'[e].role \in Roles
    <2>1. ChangeStep(e) BY <1>2
    <2> QED BY <2>1 DEF ChangeStep, ChangesOK, Open
  <1>4. ChangesOK' BY <1>2, <1>3 DEF ChangesOK
  <1>5. ASSUME NEW e \in Changes
        PROVE  /\ (change'[e].pc = "locked") = (lock' = e)
               /\ change'[e].admins \in 0..Cardinality(People)
    <2>1. ChangeStep(e) BY <1>2
    <2>2. (change[e].pc = "locked") = (lock = e) /\ change[e].admins \in 0..Cardinality(People)
      BY DEF MembersTypeOK
    <2>3. Cardinality(AdminsIn(roles)) \in 0..Cardinality(People) /\ 0 \in 0..Cardinality(People)
      BY AdminsFinite, FS_CardinalityType DEF MembersAssumption
    <2> QED BY <2>1, <2>2, <2>3 DEF ChangeStep
  <1>6. ASSUME NEW e \in Changes, change'[e].pc = "locked"
        PROVE  change'[e].admins <= Cardinality(AdminsIn(roles'))
    <2>0. Cardinality(AdminsIn(roles)) \in Nat /\ Cardinality(AdminsIn(roles')) \in Nat
      BY AdminsFinite
    <2>1. CASE UNCHANGED roles /\ change'[e].admins = Cardinality(AdminsIn(roles))
      BY <2>0, <2>1
    <2>2. CASE change'[e] = change[e]
      <3>1. change[e].admins <= Cardinality(AdminsIn(roles)) /\ change[e].admins \in Nat
        BY <1>6, <2>2 DEF CountStands, ChangesOK, ChangeRecords
      <3>2. CASE UNCHANGED <<roles, last>> BY <2>2, <3>1, <3>2
      <3>3. ASSUME NEW m \in People, NEW r \in Roles, Granted(m, r)
            PROVE  change'[e].admins <= Cardinality(AdminsIn(roles'))
        BY <2>0, <2>2, <3>1, <3>3, GrantAdds
      <3>4. ASSUME NEW c \in Changes, NEW m \in People, NEW r \in Roles, Revoked(c, m, r) PROVE FALSE
        <4>1. c # e BY <1>6, <3>4 DEF Revoked
        <4>2. change[e].pc = "locked" /\ change[c].pc = "locked" BY <1>6, <2>2, <3>4 DEF Revoked
        <4> QED BY <4>1, <4>2 DEF MembersTypeOK
      <3> QED BY <1>1, <3>2, <3>3, <3>4 DEF RolesStep
    <2>3. ChangeStep(e) BY <1>2
    <2> QED BY <1>6, <2>1, <2>2, <2>3 DEF ChangeStep
  <1>7. roles' \in [People -> SUBSET Roles] /\ last' \in [People -> [Roles -> {None, "grant", "revoke"}]]
    <2>1. ASSUME NEW m \in People, NEW r \in Roles, NEW a \in {"grant", "revoke"}, Record(m, r, a)
          PROVE  last' \in [People -> [Roles -> {None, "grant", "revoke"}]]
      BY <2>1 DEF Record, MembersTypeOK
    <2>2. ASSUME NEW m \in People, NEW r \in Roles, Granted(m, r) PROVE <1>7!:
      BY <2>1, <2>2 DEF Granted, MembersTypeOK
    <2>3. ASSUME NEW c \in Changes, NEW m \in People, NEW r \in Roles, Revoked(c, m, r) PROVE <1>7!:
      BY <2>1, <2>3 DEF Revoked, MembersTypeOK
    <2>4. CASE UNCHANGED <<roles, last>> BY <2>4 DEF MembersTypeOK
    <2> QED BY <1>1, <2>2, <2>3, <2>4 DEF RolesStep
  <1>8. pinned' \subseteq Pinned /\ grant' \subseteq Pinned
    <2>1. ASSUME NEW m \in People, MissingGrant(m) \/ EnsureDeploymentGrant(m) \/ Unpin(m) PROVE <1>8!:
      BY <2>1 DEF MissingGrant, EnsureDeploymentGrant, Unpin, MembersTypeOK
    <2>2. CASE UNCHANGED <<pinned, grant>> BY <2>2 DEF MembersTypeOK
    <2> QED BY <2>1, <2>2 DEF MembersNext, memVars, Ask, Begin, GrantRole, LockAdmins, RevokeRole,
                             AskPatch, CheckPrefs, WriteProfile, Again, roleVars
  <1>9. /\ profile' \in [email : BOOLEAN, notify : BOOLEAN]
        /\ \A q \in Patches : patch'[q].pc \in {"idle", "valid", "checked", "refused", "done"}
    BY ProfileTypes DEF PatchRecords
  <1>10. CountStands' BY <1>6 DEF CountStands
  <1>11. \A e \in Changes :
           change'[e].pc \in {"idle", "allowed", "begun", "locked", "done", "last_admin", "pinned"}
    BY <1>3 DEF ChangeRecords
  <1>12. MembersTypeOK'
    BY <1>2, <1>5, <1>7, <1>8, <1>9, <1>11 DEF MembersTypeOK
  <1> QED BY <1>4, <1>10, <1>12

LEMMA MembersInitially == ASSUME MembersAssumption, MembersInit PROVE MembersInv
  <1> USE DEF MembersInit
  <1>1. NoChange \in ChangeRecords /\ NoPatch \in PatchRecords
    BY DEF NoChange, NoPatch, ChangeRecords, PatchRecords
  <1>2. MembersTypeOK
    <2>1. 0 \in 0..Cardinality(People) BY FS_CardinalityType DEF MembersAssumption
    <2> QED BY <2>1 DEF MembersTypeOK, MembersAssumption, NoChange, NoPatch, None
  <1>3. ChangesOK BY <1>1 DEF ChangesOK, Open, NoChange
  <1>4. CountStands BY DEF CountStands, NoChange
  <1>5. EventsTell BY DEF EventsTell, None
  <1> QED BY <1>1, <1>2, <1>3, <1>4, <1>5 DEF MembersInv

(* For any number of members, role changes and profile changes: the audit  *)
(* trail of member-role-repository.ts tells who holds which role, and no   *)
(* step of grantRole, revokeRole or ensureDeploymentGrant leaves an        *)
(* organization that had an administrator without one.                     *)
THEOREM AdministratorRemains ==
  ASSUME MembersAssumption
  PROVE  MembersSpec => [](MembersTypeOK /\ EventsTell) /\ [][AdminRemains]_memVars
  <1>1. MembersInit => MembersInv BY MembersInitially
  <1>2. MembersInv /\ [MembersNext]_memVars => MembersInv' /\ [AdminRemains]_memVars
    <2> SUFFICES ASSUME MembersInv, [MembersNext]_memVars
                 PROVE  MembersInv' /\ [AdminRemains]_memVars
      OBVIOUS
    <2>1. RolesStep BY NextIsRolesStep
    <2>2. AdminRemains BY <2>1, StepKeepsAdmin
    <2>3. EventsTell' BY <2>1, StepKeepsEvents DEF MembersInv
    <2> QED BY <2>2, <2>3, MembersTypes, ProfileTypes DEF MembersInv
  <1>3. MembersInv => MembersTypeOK /\ EventsTell BY DEF MembersInv
  <1> QED BY <1>1, <1>2, <1>3, PTL DEF MembersSpec

(* What a change checked is still so when it writes, unless another change *)
(* wrote meanwhile.                                                        *)
ChecksStand ==
  \A p \in Patches : patch[p].pc \in {"valid", "checked"} /\ ~patch[p].overtaken =>
    /\ patch[p].notify = "on" =>
         patch[p].email # "clear" /\ (patch[p].email = None => profile.email)
    /\ patch[p].pc = "checked" /\ patch[p].email = "clear" /\ patch[p].notify = None => ~profile.notify

LEMMA StepKeepsChecks ==
  ASSUME MembersInv, ChecksStand, [MembersNext]_memVars
  PROVE  ChecksStand' /\ [NotifyHasEmail]_memVars
  <1> DEFINE Goal == ChecksStand' /\ NotifyHasEmail
  <1>0. /\ profile \in [email : BOOLEAN, notify : BOOLEAN] /\ patch \in [Patches -> PatchRecords]
        /\ \A p \in Patches : patch[p] \in PatchRecords
    BY DEF MembersInv, MembersTypeOK
  <1>1. ASSUME NEW q \in Patches, NEW e \in {None, "set", "clear"}, NEW n \in {None, "on", "off"},
               AskPatch(q, e, n)
        PROVE  Goal
    <2> DEFINE no == [NoPatch EXCEPT !.pc = "refused"]
               yes == [pc |-> IF e = "clear" THEN "valid" ELSE "checked", email |-> e, notify |-> n,
                       overtaken |-> FALSE]
    <2>1. profile' = profile /\ \A p \in Patches \ {q} : patch'[p] = patch[p] BY <1>0, <1>1 DEF AskPatch
    <2>2. \/ patch'[q] = no
          \/ patch'[q] = yes /\ (n = "on" => IF e = None THEN profile.email ELSE e = "set")
      BY <1>0, <1>1 DEF AskPatch
    <2>3. NotifyHasEmail BY <2>1 DEF NotifyHasEmail, Reachable
    <2>4. CASE patch'[q] = no
      BY <2>1, <2>3, <2>4 DEF ChecksStand, NoPatch
    <2>5. CASE patch'[q] = yes /\ (n = "on" => IF e = None THEN profile.email ELSE e = "set")
      BY <2>1, <2>3, <2>5 DEF ChecksStand, None
    <2> QED BY <2>2, <2>4, <2>5
  <1>2. ASSUME NEW q \in Patches, CheckPrefs(q) PROVE Goal
    <2>1. /\ profile' = profile /\ patch[q].pc = "valid"
          /\ \A p \in Patches \ {q} : patch'[p] = patch[p]
      BY <1>0, <1>2 DEF CheckPrefs, roleVars
    <2>2. NotifyHasEmail BY <2>1 DEF NotifyHasEmail, Reachable
    <2>3. CASE MayClear(q)
      <3>1. patch'[q] = [patch[q] EXCEPT !.pc = "checked"] BY <1>0, <1>2, <2>3 DEF CheckPrefs
      <3>2. /\ patch'[q].email = patch[q].email /\ patch'[q].notify = patch[q].notify
            /\ patch'[q].overtaken = patch[q].overtaken /\ patch'[q].pc = "checked"
        BY <1>0, <3>1 DEF PatchRecords
      <3>3. patch[q].notify = None => ~profile.notify BY <2>3 DEF MayClear
      <3> QED BY <2>1, <2>2, <3>2, <3>3 DEF ChecksStand
    <2>4. CASE ~MayClear(q)
      <3>1. patch'[q] = [NoPatch EXCEPT !.pc = "refused"] BY <1>0, <1>2, <2>4 DEF CheckPrefs
      <3> QED BY <2>1, <2>2, <3>1 DEF ChecksStand, NoPatch
    <2> QED BY <2>3, <2>4
  <1>3. ASSUME NEW q \in Patches, WriteProfile(q) PROVE Goal
    <2>1. patch'[q].pc = "done" /\ patch[q].pc = "checked" BY <1>3 DEF WriteProfile, NoPatch
    <2>2. ASSUME NEW p \in Patches, p # q
          PROVE  patch'[p].pc \in {"valid", "checked"} => patch'[p].overtaken
      <3>1. patch'[p] = [patch[p] EXCEPT !.overtaken = @ \/ patch[p].pc \in {"valid", "checked"}]
        BY <1>3, <2>2 DEF WriteProfile
      <3>2. patch[p] \in PatchRecords BY <1>0
      <3> QED BY <3>1, <3>2 DEF PatchRecords
    <2>3. ChecksStand' BY <2>1, <2>2 DEF ChecksStand
    <2>4. /\ profile'.email = IF patch[q].email = None THEN profile.email ELSE patch[q].email = "set"
          /\ profile'.notify = IF patch[q].notify = None THEN profile.notify ELSE patch[q].notify = "on"
      BY <1>3 DEF WriteProfile
    <2>5. patch[q].email \in {None, "set", "clear"} /\ patch[q].notify \in {None, "on", "off"}
      BY <1>0 DEF PatchRecords
    <2>6. ~patch[q].overtaken /\ Reachable(profile) => Reachable(profile')
      BY <2>1, <2>4, <2>5 DEF ChecksStand, Reachable, None
    <2>7. NotifyHasEmail BY <2>1, <2>6 DEF NotifyHasEmail
    <2> QED BY <2>3, <2>7
  <1>4. ASSUME UNCHANGED profileVars PROVE Goal
    BY <1>4 DEF profileVars, ChecksStand, NotifyHasEmail, Reachable
  <1>5. ASSUME Again PROVE Goal
    <2>1. ASSUME NEW q \in Patches, patch' = [patch EXCEPT ![q] = NoPatch], profile' = profile PROVE Goal
      <3>1. patch'[q] = NoPatch /\ \A p \in Patches \ {q} : patch'[p] = patch[p] BY <1>0, <2>1
      <3> QED BY <2>1, <3>1 DEF ChecksStand, NotifyHasEmail, Reachable, NoPatch
    <2> HIDE DEF Goal
    <2> QED BY <1>4, <1>5, <2>1 DEF Again, profileVars
  <1>6. ASSUME NEW c \in Changes,
               \/ \E a, m \in People, op \in {"grant", "revoke"}, r \in Roles : Ask(c, a, op, m, r)
               \/ Begin(c) \/ GrantRole(c) \/ LockAdmins(c) \/ RevokeRole(c)
        PROVE  UNCHANGED profileVars
    BY <1>6 DEF Ask, Begin, GrantRole, LockAdmins, RevokeRole
  <1>7. ASSUME NEW m \in People, MissingGrant(m) \/ EnsureDeploymentGrant(m) \/ Unpin(m)
        PROVE  UNCHANGED profileVars
    BY <1>7 DEF MissingGrant, EnsureDeploymentGrant, Unpin
  <1>8. UNCHANGED memVars => UNCHANGED profileVars BY DEF memVars, profileVars
  <1> HIDE DEF Goal
  <1>9. Goal BY <1>1, <1>2, <1>3, <1>4, <1>5, <1>6, <1>7, <1>8 DEF MembersNext
  <1> QED BY <1>9 DEF Goal

(* updateProfile of browser-auth-service.ts, any number of changes at      *)
(* once: only a change that another one overtook between its checks and    *)
(* its write can turn run-complete mail on without an address, since the   *)
(* check and the write are not one transaction.                            *)
THEOREM MailHasAddress ==
  ASSUME MembersAssumption
  PROVE  MembersSpec => [][NotifyHasEmail]_memVars
  <1> DEFINE Inv == MembersInv /\ ChecksStand
  <1>1. MembersInit => Inv
    BY MembersInitially DEF MembersInit, ChecksStand, NoPatch
  <1>2. Inv /\ [MembersNext]_memVars => Inv' /\ [NotifyHasEmail]_memVars
    <2> SUFFICES ASSUME Inv, [MembersNext]_memVars PROVE Inv' /\ [NotifyHasEmail]_memVars OBVIOUS
    <2>1. EventsTell' BY NextIsRolesStep, StepKeepsEvents DEF MembersInv
    <2>2. MembersInv' BY <2>1, MembersTypes, ProfileTypes DEF MembersInv
    <2> QED BY <2>2, StepKeepsChecks
  <1> HIDE DEF Inv
  <1> QED BY <1>1, <1>2, PTL DEF MembersSpec

=============================================================================
