------------------------------- MODULE Accounts -------------------------------
(***************************************************************************)
(* Sign-in on the agent side: company SSO (application/sso-login-service.ts*)
(* over sso-identity-repository.ts), local registration and password login *)
(* (browser-auth-service.ts), the provisioning of the platform user, and   *)
(* the browser sessions (browser-session-service.ts).                      *)
(*                                                                         *)
(* A first SSO login writes two rows, the credential and the link of the   *)
(* company identity to it, in statements of their own: two tabs, or two    *)
(* persons with one employee id, interleave, and a crash leaves the first  *)
(* row without the second.  The ids a login generates are the login's own. *)
(***************************************************************************)
EXTENDS Naturals, FiniteSets

CONSTANTS Subjects,    \* company identities: (issuer, sub)
          Employees,   \* employee ids, which become user names
          Reserved,    \* user names of the local-login allowlist
          LocalNames,  \* names that already have a local account
          Logins,      \* sign-in requests
          Readers,     \* requests with a session token
          Sso,         \* the deployment signs in through the company
          MaxFaults    \* bound: store failures and crashes
AccountsAssumption == Sso \in BOOLEAN /\ MaxFaults \in Nat /\ LocalNames \subseteq Employees /\ Reserved \subseteq Employees

VARIABLES cred,    \* user name -> the credential that has it
          bound,   \* company identity -> account, the sso_identities table
          users,   \* accounts with a platform user
          sess,    \* per login: the session it was given
          login,   \* per login: where it is
          reader,  \* per reader: where it is
          faults

accVars == <<cred, bound, users, sess, login, reader, faults>>

None == "none"
Names == Employees \cup Subjects   \* the name of a subject stands for its digest
Free == [id |-> None, kind |-> None, maker |-> None]
Idle == [pc |-> "idle", subj |-> None, name |-> None, id |-> None]
Quiet == [pc |-> "idle", of |-> None]
NoSession == [subj |-> None, id |-> None, st |-> None]

AccountsTypeOK ==
  /\ \A n \in Names : cred[n].kind \in {None, "local", "sso"} /\ (cred[n].kind = None) = (cred[n].id = None)
  /\ DOMAIN bound = Subjects
  /\ \A l \in Logins :
       /\ login[l].pc \in {"idle", "name", "create", "bind", "race", "orphan", "adopt", "again", "entry",
                           "absent", "issue", "done", "conflict", "error"}
       /\ sess[l].st \in {None, "live", "revoked", "expired"}
       /\ sess[l].st # None => sess[l].id \in users
  /\ \A r \in Readers : reader[r].pc \in {"idle", "me", "served", "refused", "logout", "revoke",
                                          "confirmed", "not_required", "unconfirmed"}
  /\ faults \in 0..MaxFaults

AccountsInit ==
  /\ cred = [n \in Names |-> IF n \in LocalNames THEN [id |-> n, kind |-> "local", maker |-> None] ELSE Free]
  /\ bound = [s \in Subjects |-> None] /\ users = {}
  /\ login = [l \in Logins |-> Idle] /\ sess = [l \in Logins |-> NoSession]
  /\ reader = [r \in Readers |-> Quiet] /\ faults = 0

Over == {"done", "conflict", "error"}
To(l, pc) == login' = [login EXCEPT ![l] = [(IF pc \in Over THEN Idle ELSE @) EXCEPT !.pc = pc]]
Got(l, id) == login' = [login EXCEPT ![l].pc = "entry", ![l].id = id]
At(l, pc) == login[l].pc = pc
loginOnly == <<cred, bound, users, sess, reader, faults>>

-----------------------------------------------------------------------------
(* exchange: the verified token gives the identity and the employee id;    *)
(* the link is looked up.                                                  *)
Exchange(l, s, n) ==
  /\ Sso /\ At(l, "idle") /\ n \in Employees \cup {s}
  /\ login' = [login EXCEPT ![l] =
       IF bound[s] # None THEN [pc |-> "entry", subj |-> s, name |-> None, id |-> bound[s]]
       ELSE IF n \in Reserved THEN [Idle EXCEPT !.pc = "conflict"]
       ELSE [pc |-> "name", subj |-> s, name |-> n, id |-> None]]
  /\ UNCHANGED loginOnly

(* #provision: the credential without a password, its name is unique.      *)
CreateCredential(l) ==
  LET n == login[l].name
  IN /\ At(l, "name")
     /\ IF cred[n].id # None THEN To(l, "race") /\ UNCHANGED cred
        ELSE /\ cred' = [cred EXCEPT ![n] = [id |-> l, kind |-> "sso", maker |-> login[l].subj]]
             /\ login' = [login EXCEPT ![l].pc = "bind", ![l].id = l]
     /\ UNCHANGED <<bound, users, sess, reader, faults>>

(* identities.create: (issuer, subject) and the account are unique.        *)
Taken(s, id) == bound[s] # None \/ \E t \in Subjects : bound[t] = id
Link(l, from, dup) ==
  LET s == login[l].subj
      id == login[l].id
  IN /\ At(l, from)
     /\ IF Taken(s, id) THEN To(l, dup) /\ UNCHANGED bound
        ELSE bound' = [bound EXCEPT ![s] = id] /\ To(l, "entry")
     /\ UNCHANGED <<cred, users, sess, reader, faults>>

BindIdentityBlind(l) ==
  /\ At(l, "bind") /\ To(l, "entry")
  /\ bound' = IF Taken(login[l].subj, login[l].id) THEN bound
              ELSE [bound EXCEPT ![login[l].subj] = login[l].id]
  /\ UNCHANGED <<cred, users, sess, reader, faults>>
BindIdentity(l) == Link(l, "bind", "race")

(* #afterRace, its two reads: the link, then the credential of that name.  *)
AfterRace(l) ==
  /\ At(l, "race")
  /\ IF bound[login[l].subj] # None THEN Got(l, bound[login[l].subj]) ELSE To(l, "orphan")
  /\ UNCHANGED loginOnly

NotAdoptable(n) == FALSE
Adoptable(n) == cred[n].kind = "sso"
FindOrphan(l) ==
  /\ At(l, "orphan")
  /\ IF Adoptable(login[l].name)
     THEN login' = [login EXCEPT ![l].pc = "adopt", ![l].id = cred[login[l].name].id]
     ELSE To(l, "conflict")
  /\ UNCHANGED loginOnly

AdoptOrphan(l) == Link(l, "adopt", "again")

ReadAgain(l) ==
  /\ At(l, "again")
  /\ IF bound[login[l].subj] # None THEN Got(l, bound[login[l].subj]) ELSE To(l, "conflict")
  /\ UNCHANGED loginOnly

-----------------------------------------------------------------------------
(* register: the name is looked up, then inserted.                         *)
Register(l, n) ==
  /\ ~Sso /\ At(l, "idle") /\ n \in Employees
  /\ login' = [login EXCEPT ![l] = [Idle EXCEPT !.name = n, !.pc = IF cred[n].id # None THEN "conflict" ELSE "create"]]
  /\ UNCHANGED loginOnly

InsertAccount(l) ==
  LET n == login[l].name
  IN /\ At(l, "create")
     /\ IF cred[n].id # None THEN To(l, "conflict") /\ UNCHANGED cred
        ELSE cred' = [cred EXCEPT ![n] = [id |-> l, kind |-> "local", maker |-> None]] /\ Got(l, l)
     /\ UNCHANGED <<bound, users, sess, reader, faults>>

(* login: no password matches an SSO credential; with SSO only the allowlist.*)
PasswordLogin(l, n) ==
  /\ At(l, "idle") /\ (Sso => n \in Reserved) /\ cred[n].kind = "local"
  /\ login' = [login EXCEPT ![l] = [pc |-> "entry", subj |-> None, name |-> n, id |-> cred[n].id]]
  /\ UNCHANGED loginOnly

-----------------------------------------------------------------------------
(* ensureUserProvisioned: the user row is looked for and created; a row    *)
(* that another login created meanwhile is an error, answered 503.         *)
FindUserBlind(l) == At(l, "entry") /\ To(l, "issue") /\ UNCHANGED loginOnly
FindUser(l) ==
  /\ At(l, "entry") /\ To(l, IF login[l].id \in users THEN "issue" ELSE "absent")
  /\ UNCHANGED loginOnly

CreateUser(l) ==
  /\ At(l, "absent")
  /\ IF login[l].id \in users THEN To(l, "error") /\ UNCHANGED users
     ELSE users' = users \cup {login[l].id} /\ To(l, "issue")
  /\ UNCHANGED <<cred, bound, sess, reader, faults>>

(* establishSession after resolveActive: the session row, then the token.  *)
Issue(l) ==
  /\ At(l, "issue") /\ To(l, "done")
  /\ sess' = [sess EXCEPT ![l] = [subj |-> login[l].subj, id |-> login[l].id, st |-> "live"]]
  /\ UNCHANGED <<cred, bound, users, reader, faults>>

(* A statement fails, or the process dies: the rows written so far stay.   *)
LoginFails(l) ==
  /\ login[l].pc \notin Over \cup {"idle"} /\ faults < MaxFaults
  /\ faults' = faults + 1 /\ To(l, "error")
  /\ UNCHANGED <<cred, bound, users, sess, reader>>

-----------------------------------------------------------------------------
(* resolve and authenticated: the row decides, then the credential is read.*)
Answer(r, pc) == reader' = [reader EXCEPT ![r].pc = pc]
readerOnly == <<cred, bound, users, login, sess, faults>>

Resolve(r, l) ==
  /\ reader[r].pc = "idle" /\ sess[l].st # None
  /\ reader' = [reader EXCEPT ![r] = [pc |-> IF sess[l].st = "live" THEN "me" ELSE "refused", of |-> l]]
  /\ UNCHANGED readerOnly

Serve(r) == /\ reader[r].pc = "me" /\ Answer(r, "served") /\ UNCHANGED readerOnly

(* revoke: the row is read, then updated where it is not yet revoked.      *)
Logout(r, l) ==
  /\ reader[r].pc = "idle" /\ sess[l].st # None
  /\ reader' = [reader EXCEPT ![r] = [pc |-> IF sess[l].st = "live" THEN "revoke" ELSE "not_required", of |-> l]]
  /\ UNCHANGED readerOnly

RevokedAlways(l) == "confirmed"
Revoked(l) == IF sess[l].st = "revoked" THEN "not_required" ELSE "confirmed"
RevokeRow(r) ==
  /\ reader[r].pc = "revoke" /\ Answer(r, Revoked(reader[r].of))
  /\ sess' = [sess EXCEPT ![reader[r].of].st = "revoked"]
  /\ UNCHANGED <<cred, bound, users, login, faults>>

AfterFailedRevokeNothing == "not_required"
AfterFailedRevoke == "unconfirmed"
RevokeFails(r) ==
  /\ reader[r].pc = "revoke" /\ faults < MaxFaults /\ faults' = faults + 1
  /\ Answer(r, AfterFailedRevoke)
  /\ UNCHANGED <<cred, bound, users, login, sess>>

Expire(l) ==
  /\ sess[l].st = "live" /\ sess' = [sess EXCEPT ![l].st = "expired"]
  /\ UNCHANGED <<cred, bound, users, login, reader, faults>>

AccountsNext ==
  \/ \E l \in Logins :
       \/ \E s \in Subjects, n \in Names : Exchange(l, s, n)
       \/ CreateCredential(l) \/ BindIdentity(l) \/ AfterRace(l) \/ FindOrphan(l) \/ AdoptOrphan(l)
       \/ ReadAgain(l) \/ InsertAccount(l) \/ FindUser(l) \/ CreateUser(l) \/ Issue(l) \/ LoginFails(l)
       \/ \E n \in Names : Register(l, n) \/ PasswordLogin(l, n)
       \/ Expire(l)
  \/ \E r \in Readers :
       \/ \E l \in Logins : Resolve(r, l) \/ Logout(r, l)
       \/ Serve(r) \/ RevokeRow(r) \/ RevokeFails(r)

AccountsSpec == AccountsInit /\ [][AccountsNext]_accVars

-----------------------------------------------------------------------------
(* However first logins race and fail, the sessions of a company identity  *)
(* are all of one account, the one it is linked to.                        *)
OneAccountEach ==
  \A l \in Logins : sess[l].subj # None => sess[l].id = bound[sess[l].subj]

(* A login is refused as a conflict only over a name that really belongs   *)
(* to somebody else: a credential left behind by a failed first login is   *)
(* taken over, not in the way for ever.                                    *)
ConflictIsReal ==
  \A l \in Logins :
       /\ login[l].pc \in {"orphan", "again"} /\ login'[l].pc = "conflict"
       => \/ cred[login[l].name].kind = "local"
          \/ \E t \in Subjects \ {login[l].subj} : bound[t] = cred[login[l].name].id

(* A logout that is answered as done leaves no live session; one that      *)
(* could not write says so.                                                *)
LogoutEnds ==
  \A r \in Readers : reader[r].pc \in {"confirmed", "not_required"} => sess[reader[r].of].st # "live"

=============================================================================
